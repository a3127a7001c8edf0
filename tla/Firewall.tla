------------------------------- MODULE Firewall -------------------------------
(***************************************************************************)
(* vrtmgr/fwall.py: the per-firewall chains of iptables and their copy in  *)
(* the permanent direct configuration of firewalld, which FirewallMgr      *)
(* changes side by side while the state file says "1".                     *)
(*                                                                         *)
(* A request is a plan of operations.  One operation asks iptables whether *)
(* there is something to do, runs iptables, asks firewalld and changes     *)
(* firewalld's configuration: four calls to other processes, between any   *)
(* two of which another handler may run, the daemon may die, iptables may  *)
(* fail, or firewalld may answer with an error that no code handles.       *)
(***************************************************************************)
EXTENDS StateFile, Sequences, SequencesExt

CONSTANTS
  Jobs,         \* the requests: [kind, f, addrs, inbound, outbound]
  MaxRequests   \* bound: requests in a behaviour

VARIABLES
  kernel,     \* iptables: the sequence of rules of every existing chain
  direct,     \* firewalld's permanent configuration: [chains, rules], sets
  job,        \* job[w]: the request worker w serves
  todo,       \* todo[w]: the operations left of its plan
  phase,      \* phase[w]: the call it makes next
  snap,       \* snap[w]: what getSettings() returned to save()
  requests,   \* bound: requests so far
  overlapped, \* history: two handlers were engaged at once
  faulty,     \* history: the handlers for which an iptables command failed
              \* for a reason that is not in the tables or in the rule
  cut         \* history: a handler ended between an iptables command and
              \* the change of the configuration that belongs to it

fwVars == <<kernel, direct, job, todo, phase, snap, requests>>
firewallVars == <<stateFileVars, fwVars, overlapped, faulty, cut>>

-----------------------------------------------------------------------------
(* Names.  A rule is a tuple whose first field tells its target.           *)
FORWARD == <<"FORWARD">>
In(f)  == <<"in", f>>       \* firewall_in_chain
Out(f) == <<"out", f>>      \* firewall_out_chain
ChainsOf(f) == {In(f), Out(f)}

Jump(addr, chain) == <<"jump", addr, chain>>
IsJump(rule) == rule[1] = "jump"
IsDrop(rule) == rule[1] = "DROP"
Nothing == <<"nothing">>

(* Mutant: rule_args() starts from an empty list of arguments.             *)
NeverUnsupported(rule) == FALSE

(* rule_args() binds no arguments for a rule it does not know, such as an  *)
(* ACCEPT without addresses: its caller gets an UnboundLocalError.         *)
Unsupported(rule) == rule[1] = "unsupported"

(* rule_args() joins the addresses of an ACCEPT with ", ", and the command *)
(* is split at its blanks: of two addresses iptables gets the second as an *)
(* argument it does not know and exits with 2, whatever it was to do.      *)
Several(rule) == rule[1] = "several"

(* Mutant: create_rule() forgets that a DROP has another priority.         *)
PrioAlwaysZero(rule) == 0

(* self.prio: firewalld loads the rules of priority 1 after the others.    *)
Prio(rule) == IF IsDrop(rule) THEN 1 ELSE 0

Entry(chain, rule) == [chain |-> chain, prio |-> Prio(rule), rule |-> rule]

-----------------------------------------------------------------------------
(* The two directions of a request are lists of rules.                     *)
ASSUME JobsAssumption ==
  \A j \in Jobs :
    /\ j.kind \in {"attach", "detach", "attach_rule", "detach_rule"}
    /\ j.addrs \in Seq(ToSet(j.addrs))
    /\ \A rules \in {j.inbound, j.outbound} :
         /\ rules \in Seq(ToSet(rules))
         /\ \A r \in ToSet(rules) :
              r[1] \in {"ACCEPT", "DROP", "several", "unsupported"}
ASSUME BoundAssumption == MaxRequests \in Nat

-----------------------------------------------------------------------------
(* Plans: what attach(), detach(), attach_rule() and detach_rule() do      *)
(* between set_state() and save().                                         *)
Op(verb, chain, rule) == [verb |-> verb, chain |-> chain, rule |-> rule]

CreateOps(f, addr) ==
  << Op("new_chain", In(f), Nothing),
     Op("add", FORWARD, Jump(addr, In(f))),
     Op("new_chain", Out(f), Nothing),
     Op("add", FORWARD, Jump(addr, Out(f))) >>

(* Mutant: delete_firewall() removes the chains before their rules.        *)
DeleteOpsSwapped(f, addr) ==
  << Op("delete", FORWARD, Jump(addr, In(f))),
     Op("delete", FORWARD, Jump(addr, Out(f))),
     Op("drop", f, Nothing),
     Op("purge", f, Nothing) >>

DeleteOps(f, addr) ==
  << Op("delete", FORWARD, Jump(addr, In(f))),
     Op("delete", FORWARD, Jump(addr, Out(f))),
     Op("purge", f, Nothing),
     Op("drop", f, Nothing) >>

(* Four operations for each address.                                       *)
create_firewall(f, addrs) ==
  [k \in 1..4 * Len(addrs) |->
     CreateOps(f, addrs[1 + ((k - 1) \div 4)])[1 + ((k - 1) % 4)]]

delete_firewall(f, addrs) ==
  [k \in 1..4 * Len(addrs) |->
     DeleteOps(f, addrs[1 + ((k - 1) \div 4)])[1 + ((k - 1) % 4)]]

create_rule(chain, rules) ==
  [i \in DOMAIN rules |-> Op("add", chain, rules[i])]

delete_rule(chain, rules) ==
  [i \in DOMAIN rules |-> Op("delete", chain, rules[i])]

Plan(j) ==
  CASE j.kind = "attach" ->
         create_firewall(j.f, j.addrs) \o create_rule(In(j.f), j.inbound)
           \o create_rule(Out(j.f), j.outbound)
    [] j.kind = "detach" -> delete_firewall(j.f, j.addrs)
    [] j.kind = "attach_rule" ->
         create_rule(In(j.f), j.inbound) \o create_rule(Out(j.f), j.outbound)
    [] j.kind = "detach_rule" ->
         delete_rule(In(j.f), j.inbound) \o delete_rule(Out(j.f), j.outbound)

-----------------------------------------------------------------------------
(* iptables.                                                               *)
Chains == DOMAIN kernel
Rules(chain) == IF chain \in Chains THEN ToSet(kernel[chain]) ELSE {}
Loadable(rule) == ~Several(rule) /\ (IsJump(rule) => rule[3] \in Chains)
Referenced(chain) ==
  \E c \in Chains : \E r \in Rules(c) : IsJump(r) /\ r[3] = chain

(* query_chain(), query_rule() and query_chain_rule() take every exit      *)
(* status but 1 for a yes; iptables -C answers 2 when the chain the rule   *)
(* jumps to does not exist and when it cannot read the rule.  A query that *)
(* fails for another reason is CommandFails.                               *)
Queried(op) ==
  IF op.verb = "new_chain" THEN op.chain \in Chains
  ELSE ~Loadable(op.rule) \/ op.rule \in Rules(op.chain)

(* Whether the iptables command of an operation succeeds.                  *)
Succeeds(op) ==
  CASE op.verb = "new_chain"  -> op.chain \notin Chains
    [] op.verb = "add"        -> op.chain \in Chains /\ Loadable(op.rule)
    [] op.verb \in {"delete", "purge_rule"} ->
         op.rule \in Rules(op.chain) /\ Loadable(op.rule)
    [] op.verb = "drop_chain" ->
         /\ op.chain \in Chains
         /\ kernel[op.chain] = <<>>
         /\ ~Referenced(op.chain)

(* -I at the head, or -A at the tail for a DROP.                           *)
Inserted(op) == IF IsDrop(op.rule) THEN Append(kernel[op.chain], op.rule)
                                   ELSE <<op.rule>> \o kernel[op.chain]

(* The chains after the iptables command of an operation.                  *)
AfterCommand(op) ==
  CASE op.verb = "new_chain" ->
         [c \in Chains \cup {op.chain} |->
            IF c = op.chain THEN <<>> ELSE kernel[c]]
    [] op.verb = "add" -> [kernel EXCEPT ![op.chain] = Inserted(op)]
    [] op.verb \in {"delete", "purge_rule"} ->
         [kernel EXCEPT ![op.chain] = RemoveFirst(@, op.rule)]
    [] op.verb = "drop_chain" -> [c \in Chains \ {op.chain} |-> kernel[c]]

(* What firewalld loads at boot: every chain with its rules by priority.   *)
(* Those of one priority come in some order.  A configuration with a rule  *)
(* in or to a chain it does not have, or one that iptables cannot read, is *)
(* not loaded at all.                                                      *)
RulesIn(cfg, chain, prio) ==
  SetToSeq({e.rule : e \in {e \in cfg.rules : e.chain = chain /\ e.prio = prio}})

Closed(cfg) ==
  \A e \in cfg.rules :
    /\ e.chain \in cfg.chains \cup {FORWARD}
    /\ ~Several(e.rule)
    /\ IsJump(e.rule) => e.rule[3] \in cfg.chains

Loaded(cfg) ==
  [c \in {FORWARD} \cup (IF Closed(cfg) THEN cfg.chains ELSE {}) |->
     IF Closed(cfg) THEN RulesIn(cfg, c, 0) \o RulesIn(cfg, c, 1) ELSE <<>>]

-----------------------------------------------------------------------------
(* firewalld's configuration over D-Bus.                                   *)

(* queryChain() and queryRule().                                           *)
QueriedCfg(op) ==
  IF op.verb \in {"new_chain", "drop_chain"}
  THEN op.chain \in direct.chains
  ELSE Entry(op.chain, op.rule) \in direct.rules

Adds(op) == op.verb \in {"new_chain", "add"}

(* addChain(), addRule(), removeChain(), removeRule(): they raise          *)
(* ALREADY_ENABLED or NOT_ENABLED when there is nothing to change.         *)
Rejected(op) == Adds(op) = QueriedCfg(op)

AfterChange(op) ==
  CASE op.verb = "new_chain" ->
         [direct EXCEPT !.chains = @ \cup {op.chain}]
    [] op.verb = "add" ->
         [direct EXCEPT !.rules = @ \cup {Entry(op.chain, op.rule)}]
    [] op.verb \in {"delete", "purge_rule"} ->
         [direct EXCEPT !.rules = @ \ {Entry(op.chain, op.rule)}]
    [] op.verb = "drop_chain" ->
         [direct EXCEPT !.chains = @ \ {op.chain}]

-----------------------------------------------------------------------------
NoJob == [kind |-> "none"]
NoConfig == [chains |-> {}, rules |-> {}]

(* The locals of a handler that has ended.                                 *)
Forget(w) ==
  /\ job' = [job EXCEPT ![w] = NoJob]
  /\ todo' = [todo EXCEPT ![w] = <<>>]
  /\ phase' = [phase EXCEPT ![w] = "query"]
  /\ snap' = [snap EXCEPT ![w] = NoConfig]

ForgetAll ==
  /\ job' = [w \in Workers |-> NoJob]
  /\ todo' = [w \in Workers |-> <<>>]
  /\ phase' = [w \in Workers |-> "query"]
  /\ snap' = [w \in Workers |-> NoConfig]

FwInit ==
  /\ Init
  /\ kernel = [c \in {FORWARD} |-> <<>>]
  /\ direct = NoConfig
  /\ job = [w \in Workers |-> NoJob]
  /\ todo = [w \in Workers |-> <<>>]
  /\ phase = [w \in Workers |-> "query"]
  /\ snap = [w \in Workers |-> NoConfig]
  /\ requests = 0
  /\ overlapped = FALSE
  /\ faulty = {}
  /\ cut = FALSE

Current(w) == Head(todo[w])
At(w, p) == pc[w] = "inside" /\ phase[w] = p
Call(w, p) == At(w, p) /\ todo[w] # <<>>

(* Moving on inside the critical region: the state file is left alone.     *)
Continue(w, p) ==
  /\ phase' = [phase EXCEPT ![w] = p]
  /\ UNCHANGED <<stateFileVars, job, requests, cut>>

NextOp(w) ==
  /\ todo' = [todo EXCEPT ![w] = Tail(@)]
  /\ Continue(w, "query")

(* A handler is between an iptables command and its configuration change.  *)
HalfDone(w) == pc[w] = "inside" /\ phase[w] \in {"query_cfg", "apply_cfg"}

-----------------------------------------------------------------------------
(* is_locked() and set_state().                                            *)
FwRequest(w, j) ==
  /\ requests < MaxRequests
  /\ requests' = requests + 1
  /\ Request(w, "mgr")
  /\ job' = [job EXCEPT ![w] = j]
  /\ UNCHANGED <<kernel, direct, todo, phase, snap, cut>>

Wait(w) ==
  /\ \/ /\ FirstRead(w) \/ LoopRead(w) \/ SetOpen(w)
        /\ UNCHANGED job
     \/ /\ Sleep(w)
        /\ job' = IF pc'[w] = "idle" THEN [job EXCEPT ![w] = NoJob] ELSE job
  /\ UNCHANGED <<kernel, direct, todo, phase, snap, requests, cut>>

Enter(w) ==
  /\ SetClose(w)
  /\ todo' = [todo EXCEPT ![w] = Plan(job[w])]
  /\ phase' = [phase EXCEPT ![w] = "query"]
  /\ UNCHANGED <<kernel, direct, job, snap, requests, cut>>

(* The query before an iptables command.  The loops over getAllRules() and *)
(* getAllChains() have none: what they found is not looked at again.       *)
Query(w) ==
  /\ Call(w, "query")
  /\ Current(w).verb \notin {"purge", "drop"}
  /\ ~Unsupported(Current(w).rule)
  /\ \/ /\ Current(w).verb \in {"purge_rule", "drop_chain"}
           \/ Queried(Current(w)) # Adds(Current(w))
        /\ Continue(w, "apply")
        /\ UNCHANGED todo
     \/ /\ Current(w).verb \notin {"purge_rule", "drop_chain"}
        /\ Queried(Current(w)) = Adds(Current(w))
        /\ NextOp(w)
  /\ UNCHANGED <<kernel, direct, snap>>

(* getAllRules(): the rules of the firewall's chains, to be removed one by *)
(* one, whoever put them there.                                            *)
GetAllRules(w) ==
  /\ Call(w, "query")
  /\ Current(w).verb = "purge"
  /\ LET found == SetToSeq({e \in direct.rules :
                              e.chain \in ChainsOf(Current(w).chain)})
         ops == [i \in DOMAIN found |->
                   Op("purge_rule", found[i].chain, found[i].rule)]
     IN  todo' = [todo EXCEPT ![w] = ops \o Tail(@)]
  /\ Continue(w, "query")
  /\ UNCHANGED <<kernel, direct, snap>>

(* getAllChains(): likewise for the chains.                                *)
GetAllChains(w) ==
  /\ Call(w, "query")
  /\ Current(w).verb = "drop"
  /\ LET found == SetToSeq(direct.chains \cap ChainsOf(Current(w).chain))
         ops == [i \in DOMAIN found |-> Op("drop_chain", found[i], Nothing)]
     IN  todo' = [todo EXCEPT ![w] = ops \o Tail(@)]
  /\ Continue(w, "query")
  /\ UNCHANGED <<kernel, direct, snap>>

(* Mutants of Apply: the exit status is not looked at; a command that      *)
(* fails is tried again.                                                   *)
ApplyUnchecked(w) ==
  /\ Call(w, "apply")
  /\ kernel' = IF Succeeds(Current(w)) THEN AfterCommand(Current(w)) ELSE kernel
  /\ Continue(w, IF Current(w).verb \in {"purge_rule", "drop_chain"}
                 THEN "apply_cfg" ELSE "query_cfg")
  /\ UNCHANGED <<todo, direct, snap>>

ApplyRetries(w) ==
  /\ Call(w, "apply")
  /\ Succeeds(Current(w))
  /\ kernel' = AfterCommand(Current(w))
  /\ Continue(w, IF Current(w).verb \in {"purge_rule", "drop_chain"}
                 THEN "apply_cfg" ELSE "query_cfg")
  /\ UNCHANGED <<todo, direct, snap>>

(* call(iptables ..): on any exit status but 0 the configuration is left   *)
(* alone and the handler goes on.                                          *)
Apply(w) ==
  /\ Call(w, "apply")
  /\ \/ /\ Succeeds(Current(w))
        /\ kernel' = AfterCommand(Current(w))
        /\ Continue(w, IF Current(w).verb \in {"purge_rule", "drop_chain"}
                       THEN "apply_cfg" ELSE "query_cfg")
        /\ UNCHANGED todo
     \/ /\ ~Succeeds(Current(w))
        /\ NextOp(w)
        /\ UNCHANGED kernel
  /\ UNCHANGED <<direct, snap>>

(* An iptables command fails for a reason of its own: another program      *)
(* holds the lock of the tables, memory is short, a signal ends it.  Of a  *)
(* query that is a yes, and a change is left out.                          *)
CommandFails(w) ==
  /\ \/ /\ Call(w, "query")
        /\ Current(w).verb \in {"new_chain", "add"}
        /\ ~Unsupported(Current(w).rule)
        /\ NextOp(w)
     \/ /\ Call(w, "query")
        /\ Current(w).verb = "delete"
        /\ ~Unsupported(Current(w).rule)
        /\ Continue(w, "apply")
        /\ UNCHANGED todo
     \/ /\ Call(w, "apply")
        /\ NextOp(w)
  /\ UNCHANGED <<kernel, direct, snap>>

QueryCfg(w) ==
  /\ Call(w, "query_cfg")
  /\ \/ /\ ~Rejected(Current(w))
        /\ Continue(w, "apply_cfg")
        /\ UNCHANGED todo
     \/ /\ Rejected(Current(w))
        /\ NextOp(w)
  /\ UNCHANGED <<kernel, direct, snap>>

(* Mutant: the configuration is never changed.                             *)
ApplyCfgNot(w) ==
  /\ Call(w, "apply_cfg")
  /\ ~Rejected(Current(w))
  /\ NextOp(w)
  /\ UNCHANGED <<kernel, direct, snap>>

(* addRule(), removeRule(), addChain(), removeChain().                     *)
ApplyCfg(w) ==
  /\ Call(w, "apply_cfg")
  /\ ~Rejected(Current(w))
  /\ direct' = AfterChange(Current(w))
  /\ NextOp(w)
  /\ UNCHANGED <<kernel, snap>>

(* An exception leaves the handler without save(): rule_args() on a rule   *)
(* it does not know, or firewalld rejecting a change that another handler  *)
(* made since.                                                             *)
Raise(w) ==
  /\ \/ Call(w, "query") /\ Unsupported(Current(w).rule)
     \/ Call(w, "apply_cfg") /\ Rejected(Current(w))
  /\ Abandon(w)
  /\ Forget(w)
  /\ UNCHANGED <<kernel, direct, requests, cut>>

(* Mutant: save() in a finally clause frees the others after a failure.    *)
DBusFailsAndFrees(w) ==
  /\ Call(w, "query_cfg") \/ Call(w, "apply_cfg")
  /\ Finish(w)
  /\ cut' = (cut \/ HalfDone(w))
  /\ phase' = [phase EXCEPT ![w] = "query"]
  /\ UNCHANGED <<kernel, direct, job, todo, snap, requests>>

(* firewalld does not answer (it restarts, D-Bus times out).               *)
DBusFails(w) ==
  /\ \/ Call(w, "query_cfg") \/ Call(w, "apply_cfg")
     \/ At(w, "update")
     \/ At(w, "query") /\ (todo[w] # <<>> => Current(w).verb \in {"purge", "drop"})
  /\ Abandon(w)
  /\ cut' = (cut \/ HalfDone(w))
  /\ Forget(w)
  /\ UNCHANGED <<kernel, direct, requests>>

(* save(): update(getSettings()), then unset_state().                      *)
GetSettings(w) ==
  /\ At(w, "query")
  /\ todo[w] = <<>>
  /\ snap' = [snap EXCEPT ![w] = direct]
  /\ Continue(w, "update")
  /\ UNCHANGED <<kernel, direct, todo>>

Update(w) ==
  /\ At(w, "update")
  /\ direct' = snap[w]
  /\ Finish(w)
  /\ UNCHANGED <<kernel, job, todo, phase, snap, requests, cut>>

Unset(w) ==
  \/ UnsetOpen(w) /\ UNCHANGED <<fwVars, cut>>
  \/ UnsetClose(w) /\ Forget(w) /\ UNCHANGED <<kernel, direct, requests, cut>>

(* The daemon dies.                                                        *)
FwCrash ==
  /\ Crash
  /\ cut' = (cut \/ \E w \in Workers : HalfDone(w))
  /\ ForgetAll
  /\ UNCHANGED <<kernel, direct, requests>>

(* The host reboots: firewalld builds the chains from its configuration,   *)
(* which settles what a crash left, and what an overlap left if the        *)
(* configuration can be loaded.                                            *)
FwReboot ==
  /\ Reboot
  /\ kernel' = Loaded(direct)
  /\ overlapped' = (overlapped /\ ~Closed(direct))
  /\ faulty' = {}
  /\ cut' = FALSE
  /\ ForgetAll
  /\ UNCHANGED <<direct, requests>>

-----------------------------------------------------------------------------
FwStep(w) ==
  \/ Wait(w) \/ Enter(w)
  \/ Query(w) \/ GetAllRules(w) \/ GetAllChains(w) \/ Apply(w)
  \/ QueryCfg(w) \/ ApplyCfg(w)
  \/ Raise(w) \/ DBusFails(w)
  \/ GetSettings(w) \/ Update(w) \/ Unset(w)

Recorded ==
  /\ overlapped' = (overlapped \/ Crowded')
  /\ faulty' = {w \in faulty : pc'[w] # "idle"}

FwNext ==
  \/ /\ \/ \E w \in Workers, j \in Jobs : FwRequest(w, j)
        \/ \E w \in Workers : FwStep(w)
        \/ FwCrash
     /\ Recorded
  \/ \E w \in Workers :
       /\ CommandFails(w)
       /\ faulty' = faulty \cup {w}
       /\ UNCHANGED overlapped
  \/ FwReboot

FwSpec == FwInit /\ [][FwNext]_firewallVars

FwFairSpec ==
  FwSpec /\ \A w \in Workers : WF_firewallVars(FwStep(w) /\ Recorded)

-----------------------------------------------------------------------------
Phases == {"query", "apply", "query_cfg", "apply_cfg", "update"}

FwTypeOK ==
  /\ TypeOK
  /\ FORWARD \in Chains
  /\ \A c \in Chains : \A r \in Rules(c) : r[1] \in {"jump", "ACCEPT", "DROP"}
  /\ \A e \in direct.rules : e.prio \in {0, 1}
  /\ \A w \in Workers : job[w] \in Jobs \cup {NoJob}
  /\ phase \in [Workers -> Phases]
  /\ requests \in 0..MaxRequests
  /\ overlapped \in BOOLEAN /\ cut \in BOOLEAN
  /\ faulty \in SUBSET Workers

(* iptables and firewalld's configuration hold the same chains and rules   *)
(* whenever no handler is half way through an operation: a reboot, which   *)
(* loads the configuration, changes nothing.  That includes handlers that  *)
(* failed on an unsupported rule, lost firewalld between two operations or *)
(* met failing iptables commands.  A rule is in its chain once: a second   *)
(* one would outlive the next detach.                                      *)
SettledAgrees ==
  ~overlapped /\ ~cut /\ (\A w \in Workers : ~HalfDone(w)) =>
    /\ Chains = {FORWARD} \cup direct.chains
    /\ \A c \in Chains :
         Rules(c) = {e.rule : e \in {e \in direct.rules : e.chain = c}}
    /\ \A c \in Chains : IsInjective(kernel[c])

(* Where a handler ended half way through an operation, the "1" it left    *)
(* behind keeps all others out until the reboot that brings iptables and   *)
(* the configuration together again: no request ever builds on the two     *)
(* being different.  (A daemon that cleared the state file when it starts  *)
(* would lose this.)                                                       *)
CutKeepsOthersOut == cut /\ ~overlapped => stateFile = "1" /\ Engaged = {}

(* firewalld can load its configuration at any time, in the middle of an   *)
(* operation and after a crash included: every rule is in a chain, and     *)
(* every jump leads to a chain, that the configuration has.  The order of  *)
(* the operations of delete_firewall() and the refusal of iptables to      *)
(* delete a chain in use are what it takes.                                *)
ConfigLoads == ~overlapped => Closed(direct)

(* An ACCEPT is never behind a DROP of its chain: neither after rules came *)
(* in any order, by any number of handlers at once, nor after a reboot.    *)
AcceptBeforeDrop ==
  \A c \in Chains : \A i, k \in DOMAIN kernel[c] :
    IsDrop(kernel[c][i]) /\ kernel[c][k][1] = "ACCEPT" => k < i

(* A handler that goes on to unset_state() has done what the response      *)
(* says, as far as the code goes: what it skips although it answers with   *)
(* success is a rule of several addresses, always; the rules of            *)
(* attach_rule() when the firewall was never attached, hence the condition *)
(* on the chain; attach() and detach() of a firewall without an address;   *)
(* and anything an iptables command failed for.                            *)
Readable(rules) == {r \in ToSet(rules) : ~Several(r)}
Installed(chain, rules) == chain \in Chains => Readable(rules) \subseteq Rules(chain)
Removed(chain, rules) == ToSet(rules) \cap Rules(chain) = {}
JumpsOf(j) == {Jump(a, c) : a \in ToSet(j.addrs), c \in ChainsOf(j.f)}

Achieved(j) ==
  CASE j.kind = "attach" ->
         /\ j.addrs # <<>> => ChainsOf(j.f) \subseteq Chains
         /\ JumpsOf(j) \subseteq Rules(FORWARD)
         /\ Installed(In(j.f), j.inbound) /\ Installed(Out(j.f), j.outbound)
    [] j.kind = "detach" ->
         /\ JumpsOf(j) \cap Rules(FORWARD) = {}
         /\ j.addrs # <<>> =>
              /\ \A c \in ChainsOf(j.f) : Rules(c) = {}
              /\ (\A c \in ChainsOf(j.f) : ~Referenced(c)) =>
                   ChainsOf(j.f) \cap Chains = {}
    [] j.kind = "attach_rule" ->
         Installed(In(j.f), j.inbound) /\ Installed(Out(j.f), j.outbound)
    [] j.kind = "detach_rule" ->
         Removed(In(j.f), j.inbound) /\ Removed(Out(j.f), j.outbound)

DoneAsReported ==
  \A w \in Workers :
    ~overlapped /\ w \notin faulty /\ pc[w] = "unset_open" => Achieved(job[w])

(* Every handler comes to an end, whatever the others do to the chains it  *)
(* works on.                                                               *)
FwRequestAnswered ==
  \A w \in Workers : pc[w] = "first_read" ~> pc[w] = "idle"

=============================================================================
