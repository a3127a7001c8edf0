----------------------------- MODULE HostObjects -----------------------------
(***************************************************************************)
(* The storage pools and the networks of the host: the handlers            *)
(* /storages/ and /networks/ of main.py and the classes wvmStorages,       *)
(* wvmStorage, wvmNetworks and wvmNetwork of vrtmgr/libvrt.py.             *)
(*                                                                         *)
(* A creation is four calls to libvirt (define, look up by name, start,    *)
(* set autostart), a fifth one builds the volume group of a logical pool,  *)
(* and an action two (look up, act).  A call may fail, the daemon may die  *)
(* between two of them, and nothing undoes those before.                   *)
(*                                                                         *)
(* External, libvirt: every definition gets a UUID of its own, and a name  *)
(* in use is not defined again; a handle means the object with the UUID it *)
(* had when it was looked up; an active pool is not undefined, an active   *)
(* network is and stays as a transient one; a volume group is built once,  *)
(* and undefining its pool leaves it on the disk.                          *)
(***************************************************************************)
EXTENDS Naturals, Sequences

CONSTANTS
  Workers,
  Pools, Networks,  \* names
  LogicalPools,     \* pools that are asked for as volume groups
  Kinds,            \* the requests made in a behaviour
  MaxRequests       \* bound: requests in a behaviour

ASSUME NamesApart ==
  Pools \cap Networks = {} /\ LogicalPools \subseteq Pools
ASSUME KindsAssumption ==
  Kinds \subseteq {"create", "unknown_type", "delete", "start", "stop", "autostart",
                   "manualstart"}
ASSUME BoundAssumption == MaxRequests \in Nat

VARIABLES
  obj,       \* obj[o]: libvirt's object of that name
  group,     \* logical pools whose volume group is on the disk
  job,       \* job[w]: the request [kind, o, id] worker w serves
  todo,      \* todo[w]: the calls left
  handle,    \* handle[w]: UUID of the object it looked up
  requests,  \* bound, and source of UUIDs: requests so far
  alone,     \* history: no other handler worked on the object meanwhile
  clean,     \* history: since o was last made or deleted its handlers
             \* succeeded, one after the other
  manual     \* history: o was set not to start with the host

hostVars == <<obj, group, job, todo, handle, requests, alone, clean, manual>>

Names == Pools \cup Networks
NoUUID == 0
New(id) == [defined |-> TRUE, active |-> FALSE, autostart |-> FALSE, uuid |-> id]
None == [defined |-> FALSE, active |-> FALSE, autostart |-> FALSE, uuid |-> NoUUID]
Exists(o) == obj[o].defined \/ obj[o].active
NoJob == [kind |-> "none"]

Busy == {w \in Workers : todo[w] # <<>>}
WorkingOn(o) == {w \in Busy : job[w].o = o}

(* Mutant: a new object is not set to start with the host.                 *)
PlanWithoutAutostart(kind, o) ==
  CASE kind = "create" /\ o \in LogicalPools ->
         <<"define", "lookup", "build", "start", "respond">>
    [] kind = "create" /\ o \notin LogicalPools ->
         <<"define", "lookup", "start", "respond">>
    [] kind = "unknown_type" -> <<"respond">>
    [] kind = "delete"       -> <<"lookup", "undefine", "respond">>
    [] OTHER                 -> <<"lookup", kind, "respond">>

(* What a request makes of libvirt.  A pool of a type that is none of the  *)
(* four that storages_list() knows is answered like a new one.             *)
Plan(kind, o) ==
  CASE kind = "create" /\ o \in LogicalPools ->
         <<"define", "lookup", "build", "start", "autostart", "respond">>
    [] kind = "create" /\ o \notin LogicalPools ->
         <<"define", "lookup", "start", "autostart", "respond">>
    [] kind = "unknown_type" -> <<"respond">>
    [] kind = "delete"       -> <<"lookup", "undefine", "respond">>
    [] OTHER                 -> <<"lookup", kind, "respond">>

-----------------------------------------------------------------------------
Init ==
  /\ obj = [o \in Names |-> None]
  /\ group \in SUBSET LogicalPools
  /\ job = [w \in Workers |-> NoJob]
  /\ todo = [w \in Workers |-> <<>>]
  /\ handle = [w \in Workers |-> NoUUID]
  /\ requests = 0
  /\ alone = [w \in Workers |-> TRUE]
  /\ clean = [o \in Names |-> TRUE]
  /\ manual = [o \in Names |-> FALSE]

Request(w, kind, o) ==
  /\ w \notin Busy
  /\ requests < MaxRequests
  /\ kind = "unknown_type" => o \in Pools
  /\ requests' = requests + 1
  /\ job' = [job EXCEPT ![w] = [kind |-> kind, o |-> o, id |-> requests']]
  /\ todo' = [todo EXCEPT ![w] = Plan(kind, o)]
  /\ alone' = [u \in Workers |-> IF u = w THEN WorkingOn(o) = {}
                                 ELSE alone[u] /\ u \notin WorkingOn(o)]
  /\ clean' = [clean EXCEPT ![o] = @ /\ WorkingOn(o) = {}]
  /\ UNCHANGED <<obj, group, handle, manual>>

Call(w, c) == w \in Busy /\ Head(todo[w]) = c
Object(w) == obj[job[w].o]

(* The object of the handle still exists.                                  *)
Valid(w) == Exists(job[w].o) /\ Object(w).uuid = handle[w]

(* When libvirt does what is asked.                                        *)
Possible(w) ==
  \/ Call(w, "define") /\ ~Exists(job[w].o)
  \/ Call(w, "lookup") /\ Exists(job[w].o)
  \/ /\ Valid(w)
     /\ \/ Call(w, "build") /\ job[w].o \notin group
        \/ /\ Call(w, "start")
           /\ ~Object(w).active
           /\ job[w].o \in LogicalPools => job[w].o \in group
        \/ Call(w, "stop") /\ Object(w).active
        \/ (Call(w, "autostart") \/ Call(w, "manualstart")) /\ Object(w).defined
        \/ /\ Call(w, "undefine")
           /\ Object(w).defined
           /\ job[w].o \in Pools => ~Object(w).active

(* The call succeeds and the object becomes what is said.                  *)
Done(w, becomes) ==
  /\ Possible(w)
  /\ todo' = [todo EXCEPT ![w] = Tail(@)]
  /\ obj' = [obj EXCEPT ![job[w].o] = becomes]
  /\ manual' = IF Head(todo[w]) \in {"define", "autostart", "manualstart"}
               THEN [manual EXCEPT ![job[w].o] = Call(w, "manualstart")] ELSE manual
  /\ UNCHANGED <<job, requests, alone, clean>>

Define(w) ==
  /\ Call(w, "define")
  /\ Done(w, New(job[w].id))
  /\ UNCHANGED <<group, handle>>

Lookup(w) ==
  /\ Call(w, "lookup")
  /\ Done(w, Object(w))
  /\ handle' = [handle EXCEPT ![w] = Object(w).uuid]
  /\ UNCHANGED group

Build(w) ==
  /\ Call(w, "build")
  /\ Done(w, Object(w))
  /\ group' = group \cup {job[w].o}
  /\ UNCHANGED handle

Start(w) ==
  /\ Call(w, "start")
  /\ Done(w, [Object(w) EXCEPT !.active = TRUE])
  /\ UNCHANGED <<group, handle>>

Stop(w) ==
  /\ Call(w, "stop")
  /\ Done(w, IF Object(w).defined THEN [Object(w) EXCEPT !.active = FALSE] ELSE None)
  /\ UNCHANGED <<group, handle>>

SetAutostart(w) ==
  /\ Call(w, "autostart") \/ Call(w, "manualstart")
  /\ Done(w, [Object(w) EXCEPT !.autostart = Call(w, "autostart")])
  /\ UNCHANGED <<group, handle>>

Undefine(w) ==
  /\ Call(w, "undefine")
  /\ Done(w, IF Object(w).active
             THEN [Object(w) EXCEPT !.defined = FALSE, !.autostart = FALSE]
             ELSE None)
  /\ UNCHANGED <<group, handle>>

Ends(w) ==
  /\ todo' = [todo EXCEPT ![w] = <<>>]
  /\ job' = [job EXCEPT ![w] = NoJob]
  /\ handle' = [handle EXCEPT ![w] = NoUUID]

(* Mutant: a handler ignores the error of a call and goes on.              *)
FailsAndGoesOn(w) ==
  /\ w \in Busy /\ ~Call(w, "respond")
  /\ todo' = [todo EXCEPT ![w] = Tail(@)]
  /\ UNCHANGED <<obj, group, job, handle, requests, alone, clean, manual>>

(* libvirtError: the handler answers with an error and undoes nothing.  A  *)
(* call may also fail for a reason outside of this model.                  *)
Fails(w) ==
  /\ w \in Busy /\ ~Call(w, "respond")
  /\ Ends(w)
  /\ clean' = [clean EXCEPT ![job[w].o] = FALSE]
  /\ UNCHANGED <<obj, group, requests, alone, manual>>

Respond(w) ==
  /\ Call(w, "respond")
  /\ Ends(w)
  /\ clean' = [clean EXCEPT ![job[w].o] =
                 alone[w] /\ (@ \/ job[w].kind \in {"create", "delete"})]
  /\ UNCHANGED <<obj, group, requests, alone, manual>>

HandlersDie ==
  /\ todo' = [w \in Workers |-> <<>>]
  /\ job' = [w \in Workers |-> NoJob]
  /\ handle' = [w \in Workers |-> NoUUID]
  /\ clean' = [o \in Names |-> clean[o] /\ WorkingOn(o) = {}]
  /\ UNCHANGED <<group, requests, alone, manual>>

Crash == HandlersDie /\ UNCHANGED obj

HostReboot ==
  /\ HandlersDie
  /\ obj' = [o \in Names |-> IF obj[o].defined
                             THEN [obj[o] EXCEPT !.active = obj[o].autostart] ELSE None]

Next ==
  \/ \E w \in Workers, kind \in Kinds, o \in Names : Request(w, kind, o)
  \/ \E w \in Workers :
       \/ Define(w) \/ Lookup(w) \/ Build(w) \/ Start(w) \/ Stop(w) \/ SetAutostart(w)
       \/ Undefine(w) \/ Fails(w) \/ Respond(w)
  \/ Crash \/ HostReboot

Spec == Init /\ [][Next]_hostVars

-----------------------------------------------------------------------------
TypeOK ==
  /\ obj \in [Names -> [defined : BOOLEAN, active : BOOLEAN, autostart : BOOLEAN,
                        uuid : 0..MaxRequests]]
  /\ handle \in [Workers -> 0..MaxRequests]
  /\ group \subseteq LogicalPools
  /\ \A o \in Names : Exists(o) <=> obj[o].uuid # NoUUID
  /\ \A o \in Names : obj[o].autostart => obj[o].defined

(* A handler that had the object to itself and answers with success has    *)
(* done all of what was asked: a new object runs, will run after a reboot  *)
(* and is the one that was sent; a deleted network may still run, but only *)
(* until somebody stops it or the host reboots.                            *)
DoneAsReported ==
  \A w \in Workers : Call(w, "respond") /\ alone[w] =>
    CASE job[w].kind = "create" ->
           /\ Object(w).defined /\ Object(w).active /\ Object(w).autostart
           /\ Object(w).uuid = job[w].id
      [] job[w].kind = "delete" ->
           ~Object(w).defined /\ (job[w].o \in Pools => ~Object(w).active)
      [] job[w].kind = "start"       -> Object(w).active
      [] job[w].kind = "stop"        -> ~Object(w).active
      [] job[w].kind = "autostart"   -> Object(w).autostart
      [] job[w].kind = "manualstart" -> ~Object(w).autostart
      [] OTHER                       -> TRUE

(* A half-made object, which no reboot starts and whose name no creation   *)
(* gets any more, is left only by a handler that failed, died, or ran at   *)
(* the same time as another one of that object.                            *)
HalfMade(o) == obj[o].defined /\ ~obj[o].autostart /\ ~manual[o]

HalfMadeOnlyByFailure ==
  \A o \in Names : clean[o] /\ WorkingOn(o) = {} => ~HalfMade(o)

=============================================================================
