-------------------------- MODULE HostObjects_proofs --------------------------
(***************************************************************************)
(* Proofs about the module HostObjects.                                    *)
(***************************************************************************)
EXTENDS HostObjects, TLAPS

Objects == [defined : BOOLEAN, active : BOOLEAN, autostart : BOOLEAN,
            uuid : 0..MaxRequests]

Calls == Kinds \cup {"define", "lookup", "build", "start", "autostart", "undefine",
                     "respond"}

(* What libvirt may have of a name: a UUID if and only if there is an      *)
(* object, and no autostart without a definition.                          *)
Sound(x) ==
  /\ x \in Objects
  /\ x.defined \/ x.active <=> x.uuid # NoUUID
  /\ x.autostart => x.defined

(* A handler at work has a request with a UUID of its own to give, and     *)
(* builds volume groups for logical pools only.                            *)
Serving ==
  /\ todo \in [Workers -> Seq(Calls)]
  /\ \A w \in Busy :
       /\ job[w].o \in Names
       /\ job[w].id \in 1..MaxRequests
       /\ \A i \in 1..Len(todo[w]) : todo[w][i] = "build" => job[w].o \in LogicalPools

TInv ==
  /\ obj \in [Names -> Objects] /\ \A o \in Names : Sound(obj[o])
  /\ handle \in [Workers -> 0..MaxRequests]
  /\ group \subseteq LogicalPools
  /\ requests \in 0..MaxRequests
  /\ job \in [Workers -> [kind : Kinds, o : Names, id : 1..MaxRequests] \cup {NoJob}]
  /\ Serving

LEMMA InitTInv == Init => TInv
  BY BoundAssumption
     DEF Init, TInv, Serving, Sound, Objects, None, NoUUID, Busy

LEMMA PlanType ==
  ASSUME NEW kind \in Kinds, NEW o \in Names
  PROVE  /\ Plan(kind, o) \in Seq(Calls)
         /\ \A i \in 1..Len(Plan(kind, o)) :
              Plan(kind, o)[i] = "build" => o \in LogicalPools
<1>1. CASE kind = "create" /\ o \in LogicalPools
  BY <1>1 DEF Plan, Calls
<1>2. CASE kind = "create" /\ o \notin LogicalPools
  BY <1>2 DEF Plan, Calls
<1>3. CASE kind = "unknown_type"
  BY <1>3 DEF Plan, Calls
<1>4. CASE kind = "delete"
  BY <1>4 DEF Plan, Calls
<1>5. CASE kind \notin {"create", "unknown_type", "delete"}
  <2>1. Plan(kind, o) = <<"lookup", kind, "respond">>
    BY <1>5 DEF Plan
  <2>2. kind \in Calls /\ kind # "build"
    BY KindsAssumption DEF Calls
  <2>3. <<"lookup", kind, "respond">> \in Seq(Calls)
    BY <2>2 DEF Calls
  <2>4. \A i \in 1..3 : <<"lookup", kind, "respond">>[i] # "build"
    BY <2>2
  <2>5. QED
    BY <2>1, <2>3, <2>4
<1>6. QED
  BY <1>1, <1>2, <1>3, <1>4, <1>5

LEMMA RequestTInv ==
  ASSUME TInv, NEW w \in Workers, NEW kind \in Kinds, NEW o \in Names,
         Request(w, kind, o)
  PROVE  TInv'
<1>1. requests' \in 1..MaxRequests
  BY BoundAssumption DEF Request, TInv
<1>2. /\ job' \in [Workers -> [kind : Kinds, o : Names, id : 1..MaxRequests] \cup {NoJob}]
      /\ job'[w] = [kind |-> kind, o |-> o, id |-> requests']
      /\ \A u \in Workers \ {w} : job'[u] = job[u]
  BY <1>1 DEF Request, TInv
<1>3. /\ todo' \in [Workers -> Seq(Calls)]
      /\ todo'[w] = Plan(kind, o)
      /\ \A u \in Workers \ {w} : todo'[u] = todo[u]
  BY PlanType DEF Request, TInv, Serving
<1>4. Serving'
  <2>1. ASSUME NEW u \in Busy', u # w
        PROVE  /\ job'[u].o \in Names
               /\ job'[u].id \in 1..MaxRequests
               /\ \A i \in 1..Len(todo'[u]) :
                    todo'[u][i] = "build" => job'[u].o \in LogicalPools
    BY <2>1, <1>2, <1>3 DEF Busy, TInv, Serving
  <2>2. /\ job'[w].o \in Names
        /\ job'[w].id \in 1..MaxRequests
        /\ \A i \in 1..Len(todo'[w]) :
             todo'[w][i] = "build" => job'[w].o \in LogicalPools
    BY <1>1, <1>2, <1>3, PlanType
  <2>3. QED
    BY <1>3, <2>1, <2>2 DEF Serving
<1>5. QED
  BY <1>1, <1>2, <1>4 DEF Request, TInv

(* A call that makes a sound object leaves the types alone.                *)
LEMMA CallTInv ==
  ASSUME TInv, NEW w \in Busy,
         todo' = [todo EXCEPT ![w] = Tail(@)],
         NEW x, Sound(x), obj' = [obj EXCEPT ![job[w].o] = x],
         group' \subseteq LogicalPools,
         handle' \in [Workers -> 0..MaxRequests],
         UNCHANGED <<job, requests>>
  PROVE  TInv'
<1>1. w \in Workers /\ todo[w] \in Seq(Calls) /\ todo[w] # <<>> /\ job[w].o \in Names
  BY DEF Busy, TInv, Serving
<1>2. obj' \in [Names -> Objects] /\ \A o \in Names : Sound(obj'[o])
  BY <1>1 DEF TInv, Sound
<1>3. /\ Tail(todo[w]) \in Seq(Calls)
      /\ Len(Tail(todo[w])) = Len(todo[w]) - 1
      /\ \A i \in 1..(Len(todo[w]) - 1) : Tail(todo[w])[i] = todo[w][i + 1]
  BY <1>1
<1>4. /\ todo' \in [Workers -> Seq(Calls)]
      /\ todo'[w] = Tail(todo[w])
      /\ \A u \in Workers \ {w} : todo'[u] = todo[u]
  BY <1>1, <1>3 DEF TInv, Serving
<1>5. ASSUME NEW i \in 1..Len(todo'[w]), todo'[w][i] = "build"
      PROVE  job[w].o \in LogicalPools
  <2>1. i + 1 \in 1..Len(todo[w]) /\ todo[w][i + 1] = "build"
    BY <1>1, <1>3, <1>4, <1>5
  <2>2. QED
    BY <2>1 DEF TInv, Serving
<1>6. Serving'
  <2>1. ASSUME NEW u \in Busy', u # w
        PROVE  /\ job'[u].o \in Names
               /\ job'[u].id \in 1..MaxRequests
               /\ \A i \in 1..Len(todo'[u]) :
                    todo'[u][i] = "build" => job'[u].o \in LogicalPools
    BY <2>1, <1>4 DEF Busy, TInv, Serving
  <2>2. /\ job'[w].o \in Names
        /\ job'[w].id \in 1..MaxRequests
        /\ \A i \in 1..Len(todo'[w]) :
             todo'[w][i] = "build" => job'[w].o \in LogicalPools
    BY <1>5 DEF TInv, Serving
  <2>3. QED
    BY <1>4, <2>1, <2>2 DEF Serving
<1>7. QED
  BY <1>2, <1>6 DEF TInv

(* The object a handle means exists; the one a handler works on is sound.  *)
LEMMA ObjectSound ==
  ASSUME TInv, NEW w \in Busy
  PROVE  Sound(Object(w)) /\ job[w].id \in 1..MaxRequests /\ job[w].o \in Names
  BY DEF TInv, Serving, Object

LEMMA CallsTInv ==
  ASSUME TInv, NEW w \in Workers,
         \/ Define(w) \/ Lookup(w) \/ Build(w) \/ Start(w) \/ Stop(w) \/ SetAutostart(w)
         \/ Undefine(w)
  PROVE  TInv'
<1>0. /\ w \in Busy
      /\ Sound(Object(w)) /\ job[w].id \in 1..MaxRequests /\ job[w].o \in Names
  BY ObjectSound
     DEF Define, Lookup, Build, Start, Stop, SetAutostart, Undefine, Call
<1>1. /\ todo' = [todo EXCEPT ![w] = Tail(@)]
      /\ job' = job /\ requests' = requests
  BY DEF Define, Lookup, Build, Start, Stop, SetAutostart, Undefine, Done
<1>2. handle' \in [Workers -> 0..MaxRequests]
  BY <1>0 DEF Define, Lookup, Build, Start, Stop, SetAutostart, Undefine, TInv, Sound,
              Objects
<1>3. group' \subseteq LogicalPools
  <2>1. CASE Build(w)
    <3>1. todo[w] \in Seq(Calls) /\ todo[w] # <<>> /\ todo[w][1] = "build"
      BY <2>1, <1>0 DEF Build, Call, Busy, TInv, Serving
    <3>2. job[w].o \in LogicalPools
      BY <3>1, <1>0 DEF TInv, Serving
    <3>3. QED
      BY <2>1, <3>2 DEF Build, TInv
  <2>2. QED
    BY <2>1 DEF Define, Lookup, Start, Stop, SetAutostart, Undefine, TInv
<1>4. \E x : Sound(x) /\ obj' = [obj EXCEPT ![job[w].o] = x]
  <2>1. CASE Define(w)
    <3>1. Sound(New(job[w].id))
      BY <1>0, BoundAssumption DEF Sound, Objects, New, NoUUID
    <3>2. QED
      BY <2>1, <3>1 DEF Define, Done
  <2>2. CASE Lookup(w) \/ Build(w)
    BY <2>2, <1>0 DEF Lookup, Build, Done
  <2>3. CASE Start(w)
    <3>1. Valid(w)
      BY <2>3 DEF Start, Done, Possible, Call
    <3>2. Sound([Object(w) EXCEPT !.active = TRUE])
      BY <3>1, <1>0 DEF Valid, Exists, Object, Sound, Objects
    <3>3. QED
      BY <2>3, <3>2 DEF Start, Done
  <2>4. CASE Stop(w)
    <3>1. Object(w).defined => Sound([Object(w) EXCEPT !.active = FALSE])
      BY <1>0 DEF Sound, Objects
    <3>2. Sound(None)
      BY BoundAssumption DEF Sound, Objects, None, NoUUID
    <3>3. QED
      BY <2>4, <3>1, <3>2 DEF Stop, Done
  <2>5. CASE SetAutostart(w)
    <3>1. Object(w).defined
      BY <2>5 DEF SetAutostart, Done, Possible, Call
    <3>2. ASSUME NEW b \in BOOLEAN PROVE Sound([Object(w) EXCEPT !.autostart = b])
      BY <3>1, <1>0 DEF Sound, Objects
    <3>3. QED
      BY <2>5, <3>2 DEF SetAutostart, Done, Call
  <2>6. CASE Undefine(w)
    <3>1. Object(w).active =>
            Sound([Object(w) EXCEPT !.defined = FALSE, !.autostart = FALSE])
      BY <1>0 DEF Sound, Objects
    <3>2. Sound(None)
      BY BoundAssumption DEF Sound, Objects, None, NoUUID
    <3>3. QED
      BY <2>6, <3>1, <3>2 DEF Undefine, Done
  <2>7. QED
    BY <2>1, <2>2, <2>3, <2>4, <2>5, <2>6
<1>5. QED
  BY <1>0, <1>1, <1>2, <1>3, <1>4, CallTInv

(* Handlers that end leave the rest to their requests.                     *)
LEMMA EndTInv ==
  ASSUME TInv, NEW W \in SUBSET Workers,
         todo' = [w \in Workers |-> IF w \in W THEN <<>> ELSE todo[w]],
         job' = [w \in Workers |-> IF w \in W THEN NoJob ELSE job[w]],
         handle' = [w \in Workers |-> IF w \in W THEN NoUUID ELSE handle[w]],
         obj' \in [Names -> Objects] /\ \A o \in Names : Sound(obj'[o]),
         UNCHANGED <<group, requests>>
  PROVE  TInv'
<1>1. handle' \in [Workers -> 0..MaxRequests]
  BY BoundAssumption DEF TInv, NoUUID
<1>2. todo' \in [Workers -> Seq(Calls)]
  BY DEF TInv, Serving
<1>3. \A w \in Busy' : w \in Busy /\ todo'[w] = todo[w] /\ job'[w] = job[w]
  BY DEF Busy
<1>4. Serving'
  BY <1>2, <1>3 DEF TInv, Serving
<1>5. QED
  BY <1>1, <1>4 DEF TInv

LEMMA EndsTInv ==
  ASSUME TInv, (\E w \in Workers : Fails(w) \/ Respond(w)) \/ Crash \/ HostReboot
  PROVE  TInv'
<1>1. ASSUME NEW w \in Workers, Fails(w) \/ Respond(w) PROVE TInv'
  <2>1. /\ todo' = [u \in Workers |-> IF u \in {w} THEN <<>> ELSE todo[u]]
        /\ job' = [u \in Workers |-> IF u \in {w} THEN NoJob ELSE job[u]]
        /\ handle' = [u \in Workers |-> IF u \in {w} THEN NoUUID ELSE handle[u]]
    BY <1>1 DEF Fails, Respond, Ends, TInv, Serving
  <2>2. obj' = obj /\ group' = group /\ requests' = requests
    BY <1>1 DEF Fails, Respond
  <2>3. obj' \in [Names -> Objects] /\ \A o \in Names : Sound(obj'[o])
    BY <2>2 DEF TInv
  <2>4. {w} \in SUBSET Workers
    OBVIOUS
  <2>5. QED
    BY <2>1, <2>2, <2>3, <2>4, EndTInv
<1>2. ASSUME HandlersDie,
             obj' \in [Names -> Objects] /\ \A o \in Names : Sound(obj'[o])
      PROVE  TInv'
  <2>1. /\ todo' = [u \in Workers |-> IF u \in Workers THEN <<>> ELSE todo[u]]
        /\ job' = [u \in Workers |-> IF u \in Workers THEN NoJob ELSE job[u]]
        /\ handle' = [u \in Workers |-> IF u \in Workers THEN NoUUID ELSE handle[u]]
    BY <1>2 DEF HandlersDie
  <2>2. QED
    BY <1>2, <2>1, EndTInv DEF HandlersDie
<1>3. CASE Crash
  BY <1>2, <1>3 DEF Crash, TInv
<1>4. CASE HostReboot
  <2>1. ASSUME NEW o \in Names
        PROVE  Sound(IF obj[o].defined
                     THEN [obj[o] EXCEPT !.active = obj[o].autostart] ELSE None)
    BY BoundAssumption DEF TInv, Sound, Objects, None, NoUUID
  <2>2. QED
    BY <1>2, <1>4, <2>1 DEF HostReboot, Sound
<1>5. QED
  BY <1>1, <1>3, <1>4

(* For any pools, networks and handlers: libvirt's objects are sound (a    *)
(* UUID means an object, autostart means a definition), and a volume group *)
(* is built for logical pools only.                                        *)
THEOREM TypeCorrect == Spec => []TypeOK
<1>1. TInv /\ Next => TInv'
  BY RequestTInv, CallsTInv, EndsTInv DEF Next
<1>2. TInv /\ UNCHANGED hostVars => TInv'
  BY DEF hostVars, TInv, Serving, Busy, Sound
<1>3. TInv => TypeOK
  BY DEF TInv, TypeOK, Sound, Objects, Exists
<1>4. QED
  BY <1>1, <1>2, <1>3, InitTInv, PTL DEF Spec

-----------------------------------------------------------------------------
(* The calls of a request in their order.                                  *)
Follows(k, c, d) ==
  \/ /\ k = "create"
     /\ \/ c = "define" /\ d = "lookup"
        \/ c = "lookup" /\ d \in {"build", "start"}
        \/ c = "build" /\ d = "start"
        \/ c = "start" /\ d = "autostart"
        \/ c = "autostart" /\ d = "respond"
  \/ /\ k = "delete"
     /\ \/ c = "lookup" /\ d = "undefine"
        \/ c = "undefine" /\ d = "respond"
  \/ /\ k \in {"start", "stop", "autostart", "manualstart"}
     /\ \/ c = "lookup" /\ d = k
        \/ c = k /\ d = "respond"

Ordered ==
  \A w \in Busy :
    /\ todo[w][Len(todo[w])] = "respond"
    /\ \A i \in 1..(Len(todo[w]) - 1) : Follows(job[w].kind, todo[w][i], todo[w][i + 1])

(* A handler that is alone on its object has no company there.             *)
NoCompany ==
  \A v, w \in Busy : v # w /\ job[v].o = job[w].o => ~alone[v]

(* What it has done so far is still done.                                  *)
Progress(w) ==
  /\ job[w].kind = "create" =>
       /\ Head(todo[w]) # "define" => Object(w).defined /\ Object(w).uuid = job[w].id
       /\ Head(todo[w]) \in {"autostart", "respond"} => Object(w).active
       /\ Head(todo[w]) = "respond" => Object(w).autostart
  /\ Head(todo[w]) = "respond" =>
       /\ job[w].kind = "delete" =>
            ~Object(w).defined /\ (job[w].o \in Pools => ~Object(w).active)
       /\ job[w].kind = "start" => Object(w).active
       /\ job[w].kind = "stop" => ~Object(w).active
       /\ job[w].kind = "autostart" => Object(w).autostart
       /\ job[w].kind = "manualstart" => ~Object(w).autostart

Progressed == \A w \in Busy : alone[w] => Progress(w)

(* Since it was last made or deleted, one handler after the other worked   *)
(* on a clean object; it is half-made only while it is being made.         *)
CleanAlone == \A w \in Busy : clean[job[w].o] => alone[w]
CleanWhole ==
  \A o \in Names : clean[o] /\ HalfMade(o) => \E w \in WorkingOn(o) : job[w].kind = "create"

Histories ==
  /\ alone \in [Workers -> BOOLEAN]
  /\ clean \in [Names -> BOOLEAN]
  /\ manual \in [Names -> BOOLEAN]

HInv == Histories /\ Ordered /\ NoCompany /\ Progressed /\ CleanAlone /\ CleanWhole

LEMMA PlanOrdered ==
  ASSUME NEW kind \in Kinds, NEW o \in Names
  PROVE  /\ Plan(kind, o) # <<>> /\ Plan(kind, o)[Len(Plan(kind, o))] = "respond"
         /\ \A i \in 1..(Len(Plan(kind, o)) - 1) :
              Follows(kind, Plan(kind, o)[i], Plan(kind, o)[i + 1])
         /\ kind = "create" => Head(Plan(kind, o)) = "define"
         /\ Head(Plan(kind, o)) = "respond" => kind = "unknown_type"
<1>1. CASE kind = "create" /\ o \in LogicalPools
  <2>1. Plan(kind, o) = <<"define", "lookup", "build", "start", "autostart", "respond">>
    BY <1>1 DEF Plan
  <2>2. Len(Plan(kind, o)) = 6 /\ Plan(kind, o) # <<>> /\ Head(Plan(kind, o)) = "define"
    BY <2>1
  <2>3. /\ Plan(kind, o)[1] = "define"
        /\ Plan(kind, o)[2] = "lookup"
        /\ Plan(kind, o)[3] = "build"
        /\ Plan(kind, o)[4] = "start"
        /\ Plan(kind, o)[5] = "autostart"
        /\ Plan(kind, o)[6] = "respond"
    BY <2>1
  <2>4. ASSUME NEW i \in 1..5
        PROVE  Follows(kind, Plan(kind, o)[i], Plan(kind, o)[i + 1])
    <3>1. i = 1 \/ i = 2 \/ i = 3 \/ i = 4 \/ i = 5
      OBVIOUS
    <3>2. QED
      BY <1>1, <2>3, <3>1 DEF Follows
  <2>5. QED
    BY <1>1, <2>2, <2>3, <2>4
<1>2. CASE kind = "create" /\ o \notin LogicalPools
  <2>1. Plan(kind, o) = <<"define", "lookup", "start", "autostart", "respond">>
    BY <1>2 DEF Plan
  <2>2. Len(Plan(kind, o)) = 5 /\ Plan(kind, o) # <<>> /\ Head(Plan(kind, o)) = "define"
    BY <2>1
  <2>3. /\ Plan(kind, o)[1] = "define"
        /\ Plan(kind, o)[2] = "lookup"
        /\ Plan(kind, o)[3] = "start"
        /\ Plan(kind, o)[4] = "autostart"
        /\ Plan(kind, o)[5] = "respond"
    BY <2>1
  <2>4. ASSUME NEW i \in 1..4
        PROVE  Follows(kind, Plan(kind, o)[i], Plan(kind, o)[i + 1])
    <3>1. i = 1 \/ i = 2 \/ i = 3 \/ i = 4
      OBVIOUS
    <3>2. QED
      BY <1>2, <2>3, <3>1 DEF Follows
  <2>5. QED
    BY <1>2, <2>2, <2>3, <2>4
<1>3. CASE kind = "unknown_type"
  <2>1. Plan(kind, o) = <<"respond">>
    BY <1>3 DEF Plan
  <2>2. QED
    BY SMTT(30), <1>3, <2>1 DEF Follows
<1>4. CASE kind = "delete"
  <2>1. Plan(kind, o) = <<"lookup", "undefine", "respond">>
    BY <1>4 DEF Plan
  <2>2. Len(Plan(kind, o)) = 3 /\ Plan(kind, o) # <<>> /\ Head(Plan(kind, o)) = "lookup"
    BY <2>1
  <2>3. /\ Plan(kind, o)[1] = "lookup"
        /\ Plan(kind, o)[2] = "undefine"
        /\ Plan(kind, o)[3] = "respond"
    BY <2>1
  <2>4. ASSUME NEW i \in 1..2
        PROVE  Follows(kind, Plan(kind, o)[i], Plan(kind, o)[i + 1])
    <3>1. i = 1 \/ i = 2
      OBVIOUS
    <3>2. QED
      BY <1>4, <2>3, <3>1 DEF Follows
  <2>5. QED
    BY <1>4, <2>2, <2>3, <2>4
<1>5. CASE kind \in {"start", "stop", "autostart", "manualstart"}
  <2>1. Plan(kind, o) = <<"lookup", kind, "respond">>
    BY <1>5 DEF Plan
  <2>2. Len(Plan(kind, o)) = 3 /\ Plan(kind, o) # <<>> /\ Head(Plan(kind, o)) = "lookup"
    BY <2>1
  <2>3. /\ Plan(kind, o)[1] = "lookup"
        /\ Plan(kind, o)[2] = kind
        /\ Plan(kind, o)[3] = "respond"
    BY <2>1
  <2>4. ASSUME NEW i \in 1..2
        PROVE  Follows(kind, Plan(kind, o)[i], Plan(kind, o)[i + 1])
    <3>1. i = 1 \/ i = 2
      OBVIOUS
    <3>2. QED
      BY <1>5, <2>3, <3>1 DEF Follows
  <2>5. QED
    BY <1>5, <2>2, <2>3, <2>4
<1>6. QED
  BY <1>1, <1>2, <1>3, <1>4, <1>5, KindsAssumption

(* What a call leaves to do.                                               *)
LEMMA CallGoesOn ==
  ASSUME TInv, Ordered, NEW w \in Busy, ~Call(w, "respond"),
         todo' = [todo EXCEPT ![w] = Tail(@)], job' = job
  PROVE  /\ Busy' = Busy
         /\ Follows(job[w].kind, Head(todo[w]), Head(todo'[w]))
         /\ Ordered'
<1>1. w \in Workers /\ todo \in [Workers -> Seq(Calls)] /\ todo[w] \in Seq(Calls) /\ todo[w] # <<>>
  BY DEF Busy, TInv, Serving
<1>2. PICK s : s = todo[w]
  OBVIOUS
<1>3. PICK t : t = todo'[w]
  OBVIOUS
<1>4. s \in Seq(Calls) /\ s # <<>> /\ t = Tail(s) /\ s[1] # "respond"
  BY <1>1, <1>2, <1>3 DEF Call
<1>5. s[Len(s)] = "respond" /\ \A i \in 1..(Len(s) - 1) : Follows(job[w].kind, s[i], s[i + 1])
  BY <1>2 DEF Ordered
<1>6. /\ Len(s) \in Nat /\ Len(s) > 1 /\ Len(t) = Len(s) - 1
      /\ \A i \in 1..Len(t) : t[i] = s[i + 1]
      /\ t \in Seq(Calls)
  BY <1>4, <1>5
<1>7. t # <<>> /\ t[Len(t)] = "respond" /\ Head(t) = s[2] /\ Head(s) = s[1]
  <2>1. Len(t) \in 1..Len(t) /\ 1 \in 1..Len(t) /\ Len(t) + 1 = Len(s) /\ 1 + 1 = 2
    BY <1>6
  <2>2. t[Len(t)] = s[Len(s)] /\ t[1] = s[2]
    BY <1>6, <2>1
  <2>3. ASSUME NEW q \in Seq(Calls), Len(q) > 0 PROVE q # <<>> /\ Head(q) = q[1]
    BY <2>3
  <2>4. s \in Seq(Calls) /\ Len(s) > 0 /\ t \in Seq(Calls) /\ Len(t) > 0
    BY <1>4, <1>6
  <2>5. t # <<>> /\ Head(t) = t[1]
    BY <2>3, <2>4
  <2>6. Head(s) = s[1]
    BY <2>3, <2>4
  <2>7. QED
    BY <1>5, <2>2, <2>5, <2>6
<1>8. Follows(job[w].kind, Head(s), Head(t))
  BY <1>5, <1>6, <1>7
<1>9. ASSUME NEW i \in 1..(Len(t) - 1)
      PROVE  Follows(job[w].kind, t[i], t[i + 1])
  <2>1. i + 1 \in 1..(Len(s) - 1) /\ t[i] = s[i + 1] /\ t[i + 1] = s[(i + 1) + 1]
    BY <1>6
  <2>2. QED
    BY <1>5, <2>1
<1>10. \A u \in Workers : u # w => todo'[u] = todo[u]
  BY <1>1
<1>11. Busy' = Busy
  BY <1>1, <1>3, <1>7, <1>10 DEF Busy
<1>12. ASSUME NEW u \in Busy'
       PROVE  /\ todo'[u][Len(todo'[u])] = "respond"
              /\ \A i \in 1..(Len(todo'[u]) - 1) :
                   Follows(job[u].kind, todo'[u][i], todo'[u][i + 1])
  <2>1. CASE u = w
    BY <1>3, <1>7, <1>9, <2>1
  <2>2. CASE u # w
    <3>1. u \in Busy /\ todo'[u] = todo[u]
      BY <1>10, <1>11, <2>2 DEF Busy
    <3>2. QED
      BY <3>1 DEF Ordered
  <2>3. QED
    BY <2>1, <2>2
<1>13. Ordered'
  BY <1>12 DEF Ordered
<1>14. QED
  BY <1>2, <1>3, <1>8, <1>11, <1>13

(* A successful call is the next step of its request and changes no object *)
(* but the one the request is about.                                       *)
LEMMA CallStep ==
  ASSUME TInv, HInv, NEW w \in Workers,
         \/ Define(w) \/ Lookup(w) \/ Build(w) \/ Start(w) \/ Stop(w) \/ SetAutostart(w)
         \/ Undefine(w)
  PROVE  /\ w \in Busy /\ job[w].o \in Names /\ Sound(Object(w))
         /\ job' = job /\ alone' = alone /\ clean' = clean /\ Busy' = Busy /\ Ordered'
         /\ Follows(job[w].kind, Head(todo[w]), Head(todo'[w]))
         /\ \A u \in Workers : u # w => todo'[u] = todo[u]
         /\ \A o \in Names : o # job[w].o => obj'[o] = obj[o] /\ manual'[o] = manual[o]
         /\ Possible(w)
<1>1. /\ w \in Busy /\ ~Call(w, "respond") /\ Possible(w)
      /\ todo' = [todo EXCEPT ![w] = Tail(@)]
      /\ job' = job /\ alone' = alone /\ clean' = clean
  BY DEF Define, Lookup, Build, Start, Stop, SetAutostart, Undefine, Done, Call
<1>2. job[w].o \in Names /\ Sound(Object(w))
  BY <1>1, ObjectSound
<1>3. /\ Busy' = Busy /\ Ordered'
      /\ Follows(job[w].kind, Head(todo[w]), Head(todo'[w]))
  BY <1>1, CallGoesOn DEF HInv
<1>4. \E x : obj' = [obj EXCEPT ![job[w].o] = x]
  BY DEF Define, Lookup, Build, Start, Stop, SetAutostart, Undefine, Done
<1>5. manual' = manual \/ \E b : manual' = [manual EXCEPT ![job[w].o] = b]
  BY DEF Define, Lookup, Build, Start, Stop, SetAutostart, Undefine, Done
<1>6. \A o \in Names : o # job[w].o => obj'[o] = obj[o]
  BY <1>4 DEF TInv
<1>7. \A o \in Names : o # job[w].o => manual'[o] = manual[o]
  BY <1>5 DEF HInv, Histories
<1>8. \A u \in Workers : u # w => todo'[u] = todo[u]
  BY <1>1 DEF TInv, Serving
<1>9. QED
  BY <1>1, <1>2, <1>3, <1>6, <1>7, <1>8

(* What each call makes of its object.                                     *)
Becomes(w, x, y) ==
  \/ Call(w, "define") /\ y = New(job[w].id)
  \/ (Call(w, "lookup") \/ Call(w, "build")) /\ y = x
  \/ Call(w, "start") /\ y = [x EXCEPT !.active = TRUE]
  \/ Call(w, "stop") /\ y = IF x.defined THEN [x EXCEPT !.active = FALSE] ELSE None
  \/ Call(w, "autostart") /\ y = [x EXCEPT !.autostart = TRUE]
  \/ Call(w, "manualstart") /\ y = [x EXCEPT !.autostart = FALSE]
  \/ /\ Call(w, "undefine") /\ (job[w].o \in Pools => ~x.active)
     /\ y = IF x.active THEN [x EXCEPT !.defined = FALSE, !.autostart = FALSE] ELSE None

LEMMA CallBecomes ==
  ASSUME TInv, HInv, NEW w \in Workers,
         \/ Define(w) \/ Lookup(w) \/ Build(w) \/ Start(w) \/ Stop(w) \/ SetAutostart(w)
         \/ Undefine(w)
  PROVE  /\ Becomes(w, Object(w), obj'[job[w].o])
         /\ manual'[job[w].o] = IF Head(todo[w]) \in {"define", "autostart", "manualstart"}
                                THEN Call(w, "manualstart") ELSE manual[job[w].o]
<1>1. w \in Busy /\ job[w].o \in Names /\ Possible(w)
  BY CallStep
<1>2. obj \in [Names -> Objects] /\ manual \in [Names -> BOOLEAN]
  BY DEF TInv, HInv, Histories
<1>3. \A x : obj' = [obj EXCEPT ![job[w].o] = x] => obj'[job[w].o] = x
  BY <1>1, <1>2
<1>4. Becomes(w, Object(w), obj'[job[w].o])
  <2>1. CASE Define(w)
    BY <1>3, <2>1 DEF Define, Done, Becomes
  <2>2. CASE Lookup(w) \/ Build(w)
    BY <1>3, <2>2 DEF Lookup, Build, Done, Becomes
  <2>3. CASE Start(w)
    BY <1>3, <2>3 DEF Start, Done, Becomes
  <2>4. CASE Stop(w)
    BY <1>3, <2>4 DEF Stop, Done, Becomes
  <2>5. CASE SetAutostart(w)
    <3>1. PICK b \in BOOLEAN : b <=> Call(w, "autostart")
      OBVIOUS
    <3>2. obj' = [obj EXCEPT ![job[w].o] = [Object(w) EXCEPT !.autostart = b]]
      <4>1. b = Call(w, "autostart")
        BY <3>1 DEF Call
      <4>2. QED
        BY <2>5, <4>1 DEF SetAutostart, Done
    <3>3. obj'[job[w].o] = [Object(w) EXCEPT !.autostart = b]
      BY <1>3, <3>2
    <3>4. b \/ Call(w, "manualstart")
      BY <2>5, <3>1 DEF SetAutostart
    <3>5. CASE b
      BY <3>1, <3>3, <3>5 DEF Becomes
    <3>6. CASE ~b
      BY <3>3, <3>4, <3>6 DEF Becomes
    <3>7. QED
      BY <3>5, <3>6
  <2>6. CASE Undefine(w)
    <3>1. job[w].o \in Pools => ~Object(w).active
      BY <1>1, <2>6 DEF Undefine, Possible, Call
    <3>2. QED
      BY <1>3, <2>6, <3>1 DEF Undefine, Done, Becomes
  <2>7. QED
    BY <2>1, <2>2, <2>3, <2>4, <2>5, <2>6
<1>5. manual' = IF Head(todo[w]) \in {"define", "autostart", "manualstart"}
                THEN [manual EXCEPT ![job[w].o] = Call(w, "manualstart")] ELSE manual
  BY DEF Define, Lookup, Build, Start, Stop, SetAutostart, Undefine, Done
<1>6. QED
  BY <1>1, <1>2, <1>4, <1>5

LEMMA CallsHInv ==
  ASSUME TInv, HInv, NEW w \in Workers,
         \/ Define(w) \/ Lookup(w) \/ Build(w) \/ Start(w) \/ Stop(w) \/ SetAutostart(w)
         \/ Undefine(w)
  PROVE  HInv'
<1>1. /\ w \in Busy /\ job[w].o \in Names /\ Sound(Object(w))
      /\ job' = job /\ alone' = alone /\ clean' = clean /\ Busy' = Busy /\ Ordered'
      /\ Follows(job[w].kind, Head(todo[w]), Head(todo'[w]))
      /\ \A u \in Workers : u # w => todo'[u] = todo[u]
      /\ \A o \in Names : o # job[w].o => obj'[o] = obj[o] /\ manual'[o] = manual[o]
  BY CallStep
<1>2. /\ Becomes(w, Object(w), obj'[job[w].o])
      /\ manual'[job[w].o] = IF Head(todo[w]) \in {"define", "autostart", "manualstart"}
                             THEN Call(w, "manualstart") ELSE manual[job[w].o]
  BY CallBecomes
<1>3. Histories'
  <2>1. manual' \in [Names -> BOOLEAN]
    <3>1. manual' = manual \/ \E b \in BOOLEAN : manual' = [manual EXCEPT ![job[w].o] = b]
      BY DEF Define, Lookup, Build, Start, Stop, SetAutostart, Undefine, Done, Call
    <3>2. QED
      BY <3>1 DEF HInv, Histories
  <2>2. QED
    BY <1>1, <2>1 DEF HInv, Histories
<1>4. NoCompany' /\ CleanAlone'
  BY <1>1 DEF HInv, NoCompany, CleanAlone
<1>5. PICK x : x = Object(w)
  OBVIOUS
<1>6. PICK y : y = obj'[job[w].o]
  OBVIOUS
<1>7. PICK c : c = Head(todo[w])
  OBVIOUS
<1>8. PICK d : d = Head(todo'[w])
  OBVIOUS
<1>9. PICK k : k = job[w].kind
  OBVIOUS
<1>10. /\ Follows(k, c, d) /\ x \in Objects
       /\ \/ c = "define" /\ y = New(job[w].id)
          \/ c \in {"lookup", "build"} /\ y = x
          \/ c = "start" /\ y = [x EXCEPT !.active = TRUE]
          \/ c = "stop" /\ y = IF x.defined THEN [x EXCEPT !.active = FALSE] ELSE None
          \/ c = "autostart" /\ y = [x EXCEPT !.autostart = TRUE]
          \/ c = "manualstart" /\ y = [x EXCEPT !.autostart = FALSE]
          \/ /\ c = "undefine" /\ (job[w].o \in Pools => ~x.active)
             /\ y = IF x.active THEN [x EXCEPT !.defined = FALSE, !.autostart = FALSE] ELSE None
  BY <1>1, <1>2, <1>5, <1>6, <1>7, <1>8, <1>9 DEF Becomes, Call, Sound
<1>11. c = "stop" => /\ ~y.active
                     /\ x.defined => y.defined /\ y.autostart = x.autostart
                     /\ ~x.defined => ~y.defined
  <2>1. CASE x.defined
    BY <1>10, <2>1 DEF Objects
  <2>2. CASE ~x.defined
    BY <1>10, <2>2 DEF None
  <2>3. QED
    BY <2>1, <2>2
<1>12. c = "undefine" => ~y.defined /\ (job[w].o \in Pools => ~y.active)
  <2>1. CASE x.active
    BY <1>10, <2>1 DEF Objects
  <2>2. CASE ~x.active
    BY <1>10, <2>2 DEF None
  <2>3. QED
    BY <2>1, <2>2
<1>13. Object(w)' = y
  BY <1>1, <1>6 DEF Object
<1>14. ASSUME alone[w] PROVE Progress(w)'
  <2>1. k = "create" => /\ c # "define" => x.defined /\ x.uuid = job[w].id
                        /\ c \in {"autostart", "respond"} => x.active
    BY <1>1, <1>5, <1>7, <1>9, <1>14 DEF HInv, Progressed, Progress
  <2>2. k = "create" => /\ d # "define" => y.defined /\ y.uuid = job[w].id
                        /\ d \in {"autostart", "respond"} => y.active
                        /\ d = "respond" => y.autostart
    BY <1>10, <2>1 DEF Follows, New, Objects
  <2>3. d = "respond" => /\ k = "delete" => ~y.defined /\ (job[w].o \in Pools => ~y.active)
                         /\ k = "start" => y.active
                         /\ k = "stop" => ~y.active
                         /\ k = "autostart" => y.autostart
                         /\ k = "manualstart" => ~y.autostart
    <3> SUFFICES ASSUME d = "respond"
                 PROVE  /\ k = "delete" => ~y.defined /\ (job[w].o \in Pools => ~y.active)
                        /\ k = "start" => y.active
                        /\ k = "stop" => ~y.active
                        /\ k = "autostart" => y.autostart
                        /\ k = "manualstart" => ~y.autostart
      OBVIOUS
    <3>1. k = "delete" => c = "undefine"
      BY <1>10 DEF Follows
    <3>2. k \in {"start", "stop", "autostart", "manualstart"} => c = k
      BY <1>10 DEF Follows
    <3>3. k = "delete" => ~y.defined /\ (job[w].o \in Pools => ~y.active)
      BY <1>12, <3>1
    <3>4. k = "stop" => ~y.active
      BY <1>11, <3>2
    <3>5. /\ k = "start" => y.active
          /\ k = "autostart" => y.autostart
          /\ k = "manualstart" => ~y.autostart
      BY <1>10, <3>2 DEF Objects
    <3>6. QED
      BY <3>3, <3>4, <3>5
  <2>4. QED
    BY <1>1, <1>8, <1>9, <1>13, <2>2, <2>3 DEF Progress
<1>15. ASSUME NEW u \in Busy', alone'[u] PROVE Progress(u)'
  <2>1. CASE u = w
    BY <1>1, <1>14, <1>15, <2>1
  <2>2. CASE u # w
    <3>1. u \in Busy /\ u \in Workers /\ alone[u]
      BY <1>1, <1>15 DEF Busy
    <3>2. job[u].o # job[w].o /\ job[u].o \in Names
      BY <1>1, <2>2, <3>1, ObjectSound DEF HInv, NoCompany
    <3>3. Progress(u) /\ Object(u)' = Object(u) /\ todo'[u] = todo[u]
      BY <1>1, <2>2, <3>1, <3>2 DEF HInv, Progressed, Object
    <3>4. QED
      BY <1>1, <3>3 DEF Progress
  <2>3. QED
    BY <2>1, <2>2
<1>16. Progressed'
  BY <1>15 DEF Progressed
<1>17. ASSUME NEW o \in Names, clean'[o], HalfMade(o)'
       PROVE  \E v \in WorkingOn(o)' : job'[v].kind = "create"
  <2>1. \A v \in WorkingOn(o) : v \in WorkingOn(o)'
    BY <1>1 DEF WorkingOn
  <2>2. CASE HalfMade(o)
    <3>1. PICK v \in WorkingOn(o) : job[v].kind = "create"
      BY <1>1, <1>17, <2>2 DEF HInv, CleanWhole
    <3>2. QED
      BY <1>1, <2>1, <3>1
  <2>3. CASE ~HalfMade(o)
    <3>1. o = job[w].o
      BY <1>1, <1>17, <2>3 DEF HalfMade
    <3>2. c = "define"
      <4>1. y.defined /\ ~y.autostart /\ ~manual'[o]
        BY <1>6, <1>17, <3>1 DEF HalfMade
      <4>2. ~(x.defined /\ ~x.autostart /\ ~manual[o])
        BY <1>5, <2>3, <3>1 DEF HalfMade, Object
      <4>3. c = "manualstart" => manual'[o]
        BY <1>1, <1>2, <1>7, <3>1 DEF Call
      <4>4. c \notin {"define", "autostart", "manualstart"} => manual'[o] = manual[o]
        BY <1>2, <1>7, <3>1
      <4>5. c \in {"lookup", "build"} => y = x
        BY <1>10
      <4>6. c = "start" => y.defined = x.defined /\ y.autostart = x.autostart
        BY <1>10 DEF Objects
      <4>7. c = "stop" => x.defined /\ y.autostart = x.autostart
        BY <1>11, <4>1
      <4>8. c # "undefine"
        BY <1>12, <4>1
      <4>9. c = "autostart" => y.autostart
        BY <1>10 DEF Objects
      <4>10. QED
        BY <1>10, <4>1, <4>2, <4>3, <4>4, <4>5, <4>6, <4>7, <4>8, <4>9
    <3>3. k = "create"
      BY <1>10, <3>2 DEF Follows
    <3>4. w \in WorkingOn(o)'
      BY <1>1, <3>1 DEF WorkingOn
    <3>5. QED
      BY <1>1, <1>9, <3>3, <3>4
  <2>4. QED
    BY <2>2, <2>3
<1>18. CleanWhole'
  BY <1>17 DEF CleanWhole
<1>19. QED
  BY <1>1, <1>3, <1>4, <1>16, <1>18 DEF HInv

LEMMA RequestHInv ==
  ASSUME TInv, HInv, NEW w \in Workers, NEW kind \in Kinds, NEW o \in Names,
         Request(w, kind, o)
  PROVE  HInv'
<1>1. /\ job'[w].kind = kind /\ job'[w].o = o /\ job'[w].id = requests'
      /\ todo'[w] = Plan(kind, o) /\ w \notin Busy
      /\ \A u \in Workers : u # w => job'[u] = job[u] /\ todo'[u] = todo[u]
      /\ obj' = obj /\ manual' = manual
  BY DEF Request, TInv, Serving
<1>2. Busy' = Busy \cup {w}
  BY <1>1, PlanOrdered DEF Busy
<1>3. /\ \A u \in Workers : alone'[u] = IF u = w THEN WorkingOn(o) = {}
                                        ELSE alone[u] /\ u \notin WorkingOn(o)
      /\ \A n \in Names : clean'[n] = IF n = o THEN clean[o] /\ WorkingOn(o) = {} ELSE clean[n]
  BY DEF Request, HInv, Histories
<1>4. Histories'
  BY <1>1 DEF HInv, Histories, Request
<1>5. Ordered'
  <2>1. ASSUME NEW u \in Busy'
        PROVE  /\ todo'[u][Len(todo'[u])] = "respond"
               /\ \A i \in 1..(Len(todo'[u]) - 1) :
                    Follows(job'[u].kind, todo'[u][i], todo'[u][i + 1])
    <3>1. CASE u = w
      <4>1. todo'[u] = Plan(kind, o) /\ job'[u].kind = kind
        BY <1>1, <3>1
      <4>2. todo'[u][Len(todo'[u])] = "respond"
        BY <4>1, PlanOrdered
      <4>3. \A i \in 1..(Len(Plan(kind, o)) - 1) :
              Follows(kind, Plan(kind, o)[i], Plan(kind, o)[i + 1])
        BY PlanOrdered
      <4>4. QED
        BY <4>1, <4>2, <4>3, ZenonT(60)
    <3>2. CASE u # w
      <4>1. u \in Busy /\ todo'[u] = todo[u] /\ job'[u] = job[u]
        BY <1>1, <1>2, <3>2 DEF Busy
      <4>2. QED
        BY <4>1 DEF HInv, Ordered
    <3>3. QED
      BY <3>1, <3>2
  <2>2. QED
    BY <2>1 DEF Ordered
<1>6. \A n \in Names : \A u \in WorkingOn(n) : u \in WorkingOn(n)' /\ u # w
  BY <1>1, <1>2 DEF WorkingOn, Busy
<1>7. NoCompany'
  <2>1. ASSUME NEW u \in Busy', NEW v \in Busy', u # v, job'[u].o = job'[v].o
        PROVE  ~alone'[u]
    <3>1. u \in Workers /\ v \in Workers
      BY DEF Busy
    <3>2. CASE u = w
      BY ZenonT(60), <1>1, <1>2, <1>3, <2>1, <3>1, <3>2 DEF WorkingOn
    <3>3. CASE v = w
      BY <1>1, <1>2, <1>3, <2>1, <3>1, <3>3 DEF WorkingOn
    <3>4. CASE u # w /\ v # w
      <4>1. u \in Busy /\ v \in Busy /\ job'[u] = job[u] /\ job'[v] = job[v]
        BY <1>1, <1>2, <3>1, <3>4
      <4>2. ~alone[u]
        BY <2>1, <4>1 DEF HInv, NoCompany
      <4>3. QED
        BY <1>3, <3>1, <3>4, <4>2
    <3>5. QED
      BY <3>2, <3>3, <3>4
  <2>2. QED
    BY <2>1 DEF NoCompany
<1>8. Progressed'
  <2>1. ASSUME NEW u \in Busy', alone'[u] PROVE Progress(u)'
    <3>1. CASE u = w
      <4>1. /\ kind = "create" => Head(todo'[w]) = "define"
            /\ Head(todo'[w]) = "respond" => kind = "unknown_type"
        BY <1>1, PlanOrdered
      <4>2. QED
        BY <1>1, <3>1, <4>1 DEF Progress
    <3>2. CASE u # w
      <4>1. u \in Busy /\ alone[u] /\ todo'[u] = todo[u] /\ job'[u] = job[u]
        BY <1>1, <1>2, <1>3, <2>1, <3>2 DEF Busy
      <4>2. Progress(u) /\ Object(u)' = Object(u)
        BY <1>1, <4>1 DEF HInv, Progressed, Object
      <4>3. QED
        BY <4>1, <4>2 DEF Progress
    <3>3. QED
      BY <3>1, <3>2
  <2>2. QED
    BY <2>1 DEF Progressed
<1>9. CleanAlone'
  <2>1. ASSUME NEW u \in Busy', clean'[job'[u].o] PROVE alone'[u]
    <3>1. CASE u = w
      BY <1>1, <1>3, <2>1, <3>1
    <3>2. CASE u # w
      <4>1. u \in Busy /\ u \in Workers /\ job'[u] = job[u] /\ job[u].o \in Names
        BY <1>1, <1>2, <3>2, ObjectSound DEF Busy
      <4>2. CASE job[u].o = o
        BY <1>3, <2>1, <4>1, <4>2 DEF WorkingOn
      <4>3. CASE job[u].o # o
        BY <1>3, <2>1, <3>2, <4>1, <4>3 DEF HInv, CleanAlone, WorkingOn
      <4>4. QED
        BY <4>2, <4>3
    <3>3. QED
      BY <3>1, <3>2
  <2>2. QED
    BY <2>1 DEF CleanAlone
<1>10. CleanWhole'
  <2>1. ASSUME NEW n \in Names, clean'[n], HalfMade(n)'
        PROVE  \E v \in WorkingOn(n)' : job'[v].kind = "create"
    <3>1. clean[n] /\ HalfMade(n)
      BY <1>1, <1>3, <2>1 DEF HalfMade
    <3>2. PICK v \in WorkingOn(n) : job[v].kind = "create"
      BY <3>1 DEF HInv, CleanWhole
    <3>3. v \in WorkingOn(n)' /\ job'[v] = job[v]
      BY <1>1, <1>6, <3>2 DEF WorkingOn, Busy
    <3>4. QED
      BY <3>2, <3>3
  <2>2. QED
    BY <2>1 DEF CleanWhole
<1>11. QED
  BY <1>4, <1>5, <1>7, <1>8, <1>9, <1>10 DEF HInv

(* A handler that ends leaves the others as they are.                      *)
LEMMA EndsHInv ==
  ASSUME TInv, HInv, NEW w \in Workers, Fails(w) \/ Respond(w)
  PROVE  HInv'
<1>1. /\ w \in Busy /\ obj' = obj /\ manual' = manual /\ alone' = alone
      /\ todo'[w] = <<>>
      /\ \A u \in Workers : u # w => job'[u] = job[u] /\ todo'[u] = todo[u]
  BY DEF Fails, Respond, Ends, Call, TInv, Serving
<1>2. job[w].o \in Names
  BY <1>1, ObjectSound
<1>3. Busy' = Busy \ {w}
  BY <1>1 DEF Busy
<1>4. /\ \A n \in Names : n # job[w].o => clean'[n] = clean[n]
      /\ clean'[job[w].o] => /\ Respond(w) /\ alone[w]
                             /\ clean[job[w].o] \/ job[w].kind \in {"create", "delete"}
      /\ clean' \in [Names -> BOOLEAN]
  BY <1>2 DEF Fails, Respond, HInv, Histories
<1>5. Histories' /\ NoCompany'
  BY <1>1, <1>3, <1>4 DEF HInv, Histories, NoCompany, Busy
<1>6. Ordered'
  BY <1>1, <1>3 DEF HInv, Ordered, Busy
<1>7. Progressed'
  BY <1>1, <1>3 DEF HInv, Progressed, Progress, Object, Busy
<1>8. CleanAlone'
  <2>1. ASSUME NEW u \in Busy', clean'[job'[u].o] PROVE alone'[u]
    <3>1. u \in Busy /\ u # w /\ job'[u] = job[u] /\ job[u].o \in Names
      BY <1>1, <1>3, ObjectSound DEF Busy
    <3>2. CASE job[u].o = job[w].o
      BY <1>1, <1>4, <2>1, <3>1, <3>2 DEF HInv, NoCompany
    <3>3. CASE job[u].o # job[w].o
      BY <1>1, <1>4, <2>1, <3>1, <3>3 DEF HInv, CleanAlone
    <3>4. QED
      BY <3>2, <3>3
  <2>2. QED
    BY <2>1 DEF CleanAlone
<1>9. CleanWhole'
  <2>1. ASSUME NEW n \in Names, clean'[n], HalfMade(n)'
        PROVE  \E v \in WorkingOn(n)' : job'[v].kind = "create"
    <3>1. HalfMade(n)
      BY <1>1, <2>1 DEF HalfMade
    <3>2. CASE n # job[w].o
      <4>1. PICK v \in WorkingOn(n) : job[v].kind = "create"
        BY <1>4, <2>1, <3>1, <3>2 DEF HInv, CleanWhole
      <4>2. v \in WorkingOn(n)' /\ job'[v] = job[v]
        BY <1>1, <1>3, <3>2, <4>1 DEF WorkingOn, Busy
      <4>3. QED
        BY <4>1, <4>2
    <3>3. CASE n = job[w].o
      <4>1. alone[w] /\ Respond(w) /\ (clean[n] \/ job[w].kind \in {"create", "delete"})
        BY <1>4, <2>1, <3>3
      <4>2. Progress(w) /\ Head(todo[w]) = "respond"
        BY <1>1, <4>1 DEF HInv, Progressed, Respond, Call
      <4>3. obj[n].defined /\ ~obj[n].autostart /\ Object(w) = obj[n]
        BY <3>1, <3>3 DEF HalfMade, Object
      <4>4. job[w].kind \notin {"create", "delete"}
        BY <4>2, <4>3 DEF Progress
      <4>5. PICK v \in WorkingOn(n) : job[v].kind = "create"
        BY <3>1, <4>1, <4>4 DEF HInv, CleanWhole
      <4>6. v = w
        BY <1>1, <3>3, <4>1, <4>5 DEF HInv, NoCompany, WorkingOn
      <4>7. QED
        BY <4>4, <4>5, <4>6
    <3>4. QED
      BY <3>2, <3>3
  <2>2. QED
    BY <2>1 DEF CleanWhole
<1>10. QED
  BY <1>5, <1>6, <1>7, <1>8, <1>9 DEF HInv

LEMMA DieHInv ==
  ASSUME TInv, HInv, Crash \/ HostReboot
  PROVE  HInv'
<1>1. /\ Busy' = {} /\ alone' = alone /\ manual' = manual
      /\ clean' = [o \in Names |-> clean[o] /\ WorkingOn(o) = {}]
  BY DEF Crash, HostReboot, HandlersDie, Busy
<1>2. Histories'
  BY <1>1 DEF HInv, Histories
<1>3. Ordered' /\ NoCompany' /\ Progressed' /\ CleanAlone'
  BY <1>1 DEF Ordered, NoCompany, Progressed, CleanAlone
<1>4. \A o \in Names : HalfMade(o)' => HalfMade(o)
  <2>1. CASE Crash
    BY <1>1, <2>1 DEF Crash, HalfMade
  <2>2. ASSUME HostReboot, NEW o \in Names PROVE HalfMade(o)' => HalfMade(o)
    <3>1. CASE obj[o].defined
      <4>1. obj[o] \in Objects
        BY DEF TInv
      <4>2. obj'[o] = [obj[o] EXCEPT !.active = obj[o].autostart]
        BY <2>2, <3>1 DEF HostReboot
      <4>3. obj'[o].defined = obj[o].defined /\ obj'[o].autostart = obj[o].autostart
        BY <4>1, <4>2 DEF Objects
      <4>4. QED
        BY <1>1, <4>3 DEF HalfMade
    <3>2. CASE ~obj[o].defined
      <4>1. obj'[o] = None
        BY <2>2, <3>2 DEF HostReboot
      <4>2. QED
        BY <4>1 DEF HalfMade, None
    <3>3. QED
      BY <3>1, <3>2
  <2>3. QED
    BY <2>1, <2>2
<1>5. CleanWhole'
  BY <1>1, <1>4 DEF HInv, CleanWhole
<1>6. QED
  BY <1>2, <1>3, <1>5 DEF HInv

LEMMA AlwaysHInv == Spec => [](TInv /\ HInv)
<1>1. Init => TInv /\ HInv
  <2> SUFFICES ASSUME Init PROVE HInv
    BY InitTInv
  <2>1. Busy = {} /\ Histories /\ \A o \in Names : ~HalfMade(o)
    BY DEF Init, Busy, Histories, HalfMade, None
  <2>2. QED
    BY <2>1 DEF HInv, Ordered, NoCompany, Progressed, CleanAlone, CleanWhole
<1>2. TInv /\ HInv /\ [Next]_hostVars => TInv' /\ HInv'
  <2> SUFFICES ASSUME TInv, HInv, [Next]_hostVars PROVE TInv' /\ HInv'
    OBVIOUS
  <2>1. CASE Next
    BY <2>1, RequestTInv, CallsTInv, EndsTInv, RequestHInv, CallsHInv, EndsHInv, DieHInv
       DEF Next
  <2>2. CASE UNCHANGED hostVars
    <3>1. TInv'
      BY <2>2 DEF hostVars, TInv, Serving, Busy, Sound
    <3>2. Histories' /\ Ordered' /\ NoCompany'
      BY <2>2 DEF hostVars, HInv, Histories, Ordered, NoCompany, Busy
    <3>3. Progressed' /\ CleanAlone' /\ CleanWhole'
      BY <2>2 DEF hostVars, HInv, Progressed, Progress, Object, CleanAlone, CleanWhole, HalfMade,
                  WorkingOn, Busy
    <3>4. QED
      BY <3>1, <3>2, <3>3 DEF HInv
  <2>3. QED
    BY <2>1, <2>2
<1>3. QED
  BY <1>1, <1>2, PTL DEF Spec

(* Whatever handlers are at work on other pools and networks, and whatever *)
(* failed or died before: a handler of storages or networks that has its   *)
(* object to itself and answers with success has made it what was asked.   *)
THEOREM AnswersTrue == Spec => []DoneAsReported
<1>1. HInv => DoneAsReported
  <2> SUFFICES ASSUME HInv, NEW w \in Workers, Call(w, "respond"), alone[w]
               PROVE  CASE job[w].kind = "create" ->
                             /\ Object(w).defined /\ Object(w).active /\ Object(w).autostart
                             /\ Object(w).uuid = job[w].id
                        [] job[w].kind = "delete" ->
                             ~Object(w).defined /\ (job[w].o \in Pools => ~Object(w).active)
                        [] job[w].kind = "start"       -> Object(w).active
                        [] job[w].kind = "stop"        -> ~Object(w).active
                        [] job[w].kind = "autostart"   -> Object(w).autostart
                        [] job[w].kind = "manualstart" -> ~Object(w).autostart
                        [] OTHER                       -> TRUE
    BY DEF DoneAsReported
  <2>1. Progress(w) /\ Head(todo[w]) = "respond"
    BY DEF HInv, Progressed, Call
  <2>2. QED
    BY <2>1 DEF Progress
<1>2. QED
  BY <1>1, AlwaysHInv, PTL

(* An object that is defined but not started by a reboot, without anybody  *)
(* having asked for that, was left by a handler that failed, died or ran   *)
(* at the same time as another of that object.                             *)
THEOREM HalfMadeExplained == Spec => []HalfMadeOnlyByFailure
<1>1. HInv => HalfMadeOnlyByFailure
  BY DEF HInv, CleanWhole, HalfMadeOnlyByFailure
<1>2. QED
  BY <1>1, AlwaysHInv, PTL
=============================================================================
