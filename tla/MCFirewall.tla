------------------------------ MODULE MCFirewall ------------------------------
(* Small instances of Firewall: one firewall, two addresses, three rules.  *)
EXTENDS Firewall, TLC

CONSTANTS w1, w2, f1, a1, a2, r1, r2, r3

OneWorker == {w1}
TwoWorkers == {w1, w2}

Job(kind, addrs, inbound, outbound) ==
  [kind |-> kind, f |-> f1, addrs |-> addrs,
   inbound |-> inbound, outbound |-> outbound]

Accept(r) == <<"ACCEPT", r>>
Drop(r) == <<"DROP", r>>
Unknown(r) == <<"unsupported", r>>
AcceptSeveral(r) == <<"several", r>>

(* Requests one after the other: a second virtance on the same firewall, a *)
(* virtance with two addresses, rules in both orders, an unsupported rule, *)
(* a rule of several addresses to be added and to be deleted.              *)
SequentialJobs == {
  Job("attach", <<a1>>, <<Accept(r1), Drop(r2)>>, <<Drop(r2)>>),
  Job("attach", <<a1, a2>>, <<Drop(r2)>>, <<>>),
  Job("attach", <<a2>>, <<Accept(r1), Unknown(r3)>>, <<>>),
  Job("detach", <<a1>>, <<>>, <<>>),
  Job("detach", <<a2, a1>>, <<>>, <<>>),
  Job("attach_rule", <<>>, <<Drop(r2), AcceptSeveral(r1), Accept(r3)>>, <<Accept(r3)>>),
  Job("detach_rule", <<>>, <<Accept(r1), AcceptSeveral(r1)>>, <<Drop(r2)>>) }

(* Requests at the same time.                                              *)
ConcurrentJobs == {
  Job("attach", <<a1>>, <<Accept(r1)>>, <<>>),
  Job("attach", <<a2>>, <<Drop(r2)>>, <<>>),
  Job("detach", <<a1>>, <<>>, <<>>) }

=============================================================================
