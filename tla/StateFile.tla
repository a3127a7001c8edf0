------------------------------ MODULE StateFile ------------------------------
(***************************************************************************)
(* The state file /var/run/firewalld/locked by which the firewall handlers *)
(* (fwall.FirewallMgr) and the floating IP handlers                        *)
(* (libredirect.FwRedirect) take turns changing iptables and firewalld.    *)
(*                                                                         *)
(* The file is a flag, not a lock: is_locked() reads it, set_state()       *)
(* writes "1" and unset_state() writes "0".  Each write is open(.., "w"),  *)
(* which truncates the file at once, and close(), at which the character   *)
(* reaches it.  FastAPI runs the handlers in a pool of threads, so another *)
(* handler may run between any two of these steps.                         *)
(***************************************************************************)
EXTENDS Naturals

CONSTANTS
  Workers,   \* the handler threads of the daemon
  Timeout    \* FIREWALLD_STATE_TIMEOUT: how many times is_locked() sleeps

ASSUME TimeoutAssumption == Timeout \in Nat \ {0}

VARIABLES
  stateFile,  \* content of the file
  pc,         \* pc[w]: the step worker w takes next
  client,     \* client[w]: whose is_locked() worker w runs
  seconds,    \* seconds[w]: the sleeps of is_locked() so far
  abandoned,  \* history: a handler left without calling unset_state()
  raced       \* history: a handler was admitted by a read it took while
              \* another one was writing the file, and one is still engaged

fileVars == <<stateFile, pc, client, seconds>>
stateFileVars == <<stateFile, pc, client, seconds, abandoned, raced>>

Contents == {"absent", "empty", "0", "1"}
Clients == {"mgr", "redirect"}
Reading == {"first_read", "loop_read"}
Scrubbing == {"scrub_open", "scrub_close"}
Setting == {"set_open", "set_close"}
Holding == {"inside", "unset_open"}
Steps == {"idle"} \cup Reading \cup Scrubbing \cup Setting
           \cup Holding \cup {"unset_close"}

(* The handlers that is_locked() admitted and that are not done yet.       *)
Engaged == {w \in Workers : pc[w] \notin {"idle"} \cup Reading}
(* The handlers between the read that admitted them and their "1", or      *)
(* between the truncation and the "0" of their unset_state().              *)
Writing == {w \in Workers :
              pc[w] \in Scrubbing \cup Setting \cup {"unset_close"}}

(* Two handlers are engaged at once.                                       *)
Crowded == \E v, w \in Engaged : v # w

Init ==
  /\ stateFile = "absent"
  /\ pc = [w \in Workers |-> "idle"]
  /\ client = [w \in Workers |-> "mgr"]
  /\ seconds = [w \in Workers |-> 0]
  /\ abandoned = FALSE
  /\ raced = FALSE

-----------------------------------------------------------------------------
(* The history variables: every action says which of them it moves.        *)

GoTo(w, step) == pc' = [pc EXCEPT ![w] = step]

(* Worker w leaves the critical region; a past race is over once nobody    *)
(* is engaged any more.                                                    *)
LeaveEngaged(w) ==
  /\ GoTo(w, "idle")
  /\ raced' = (raced /\ Engaged # {w})

(* What is_locked() does with the value "not locked".  FwRedirect rewrites *)
(* an empty file first (its read_state() calls unset_state()).             *)
Admitted(w) ==
  /\ GoTo(w, IF client[w] = "redirect" /\ stateFile = "empty"
             THEN "scrub_open" ELSE "set_open")
  /\ raced' = (raced \/ Writing # {})
  /\ UNCHANGED <<stateFile, client, seconds, abandoned>>

(* Mutant: `f_data == 1` compares a string with a number.                  *)
ReadsLockedAsNumber == FALSE

(* read_state(): only "1" counts as locked; an absent file, an empty one   *)
(* and "0" do not.                                                         *)
ReadsLocked == stateFile = "1"

-----------------------------------------------------------------------------
(* A request arrives and its handler calls is_locked().                    *)
Request(w, c) ==
  /\ pc[w] = "idle"
  /\ GoTo(w, "first_read")
  /\ client' = [client EXCEPT ![w] = c]
  /\ seconds' = [seconds EXCEPT ![w] = 0]
  /\ UNCHANGED <<stateFile, abandoned, raced>>

(* The `if self.read_state()` of is_locked().                              *)
FirstRead(w) ==
  /\ pc[w] = "first_read"
  /\ \/ /\ ReadsLocked
        /\ GoTo(w, "loop_read")
        /\ UNCHANGED <<stateFile, client, seconds, abandoned, raced>>
     \/ /\ ~ReadsLocked
        /\ Admitted(w)

(* Mutants of Sleep: is_locked() returns False after the timeout; it       *)
(* compares with > instead of >=; the count is reset by every turn.        *)
SleepThenEnter(w) ==
  /\ pc[w] = "loop_read"
  /\ ReadsLocked
  /\ seconds' = [seconds EXCEPT ![w] = @ + 1]
  /\ GoTo(w, IF seconds'[w] >= Timeout THEN "set_open" ELSE "loop_read")
  /\ UNCHANGED <<stateFile, client, abandoned, raced>>

SleepOnceMore(w) ==
  /\ pc[w] = "loop_read"
  /\ ReadsLocked
  /\ seconds' = [seconds EXCEPT ![w] = @ + 1]
  /\ GoTo(w, IF seconds'[w] > Timeout THEN "idle" ELSE "loop_read")
  /\ UNCHANGED <<stateFile, client, abandoned, raced>>

SleepUncounted(w) ==
  /\ pc[w] = "loop_read"
  /\ ReadsLocked
  /\ UNCHANGED <<stateFile, pc, client, seconds, abandoned, raced>>

(* One turn of `while self.read_state()`: sleep and count, give up when    *)
(* the count reaches the timeout.                                          *)
Sleep(w) ==
  /\ pc[w] = "loop_read"
  /\ ReadsLocked
  /\ seconds' = [seconds EXCEPT ![w] = @ + 1]
  /\ GoTo(w, IF seconds'[w] >= Timeout THEN "idle" ELSE "loop_read")
  /\ UNCHANGED <<stateFile, client, abandoned, raced>>

LoopRead(w) ==
  /\ pc[w] = "loop_read"
  /\ ~ReadsLocked
  /\ Admitted(w)

(* open(.., "w") of set_state(), and of unset_state() when called by       *)
(* save() or by the read_state() of FwRedirect.                            *)
Open(w, from, to) ==
  /\ pc[w] = from
  /\ stateFile' = "empty"
  /\ GoTo(w, to)
  /\ UNCHANGED <<client, seconds, abandoned, raced>>

ScrubOpen(w) == Open(w, "scrub_open", "scrub_close")
SetOpen(w)   == Open(w, "set_open", "set_close")
UnsetOpen(w) == Open(w, "unset_open", "unset_close")

(* close(): the character written reaches the file.                        *)
ScrubClose(w) ==
  /\ pc[w] = "scrub_close"
  /\ stateFile' = "0"
  /\ GoTo(w, "set_open")
  /\ UNCHANGED <<client, seconds, abandoned, raced>>

(* Mutant: set_state() writes what unset_state() writes.                   *)
SetCloseZero(w) ==
  /\ pc[w] = "set_close"
  /\ stateFile' = "0"
  /\ GoTo(w, "inside")
  /\ abandoned' = FALSE
  /\ UNCHANGED <<client, seconds, raced>>

SetClose(w) ==
  /\ pc[w] = "set_close"
  /\ stateFile' = "1"
  /\ GoTo(w, "inside")
  /\ abandoned' = FALSE
  /\ UNCHANGED <<client, seconds, raced>>

(* Mutant: unset_state() writes what set_state() writes.                   *)
UnsetCloseOne(w) ==
  /\ pc[w] = "unset_close"
  /\ stateFile' = "1"
  /\ LeaveEngaged(w)
  /\ UNCHANGED <<client, seconds, abandoned>>

UnsetClose(w) ==
  /\ pc[w] = "unset_close"
  /\ stateFile' = "0"
  /\ LeaveEngaged(w)
  /\ UNCHANGED <<client, seconds, abandoned>>

(* The work is done and save() goes on to unset_state().                   *)
Finish(w) ==
  /\ pc[w] = "inside"
  /\ GoTo(w, "unset_open")
  /\ UNCHANGED <<stateFile, client, seconds, abandoned, raced>>

(* The handler ends without save(): an exception of FirewallMgr between    *)
(* set_state() and save(), or add_rule() / remove_rule() of FwRedirect     *)
(* finding nothing to change.                                              *)
Abandon(w) ==
  /\ pc[w] = "inside"
  /\ LeaveEngaged(w)
  /\ abandoned' = TRUE
  /\ UNCHANGED <<stateFile, client, seconds>>

(* The daemon dies (systemd restarts it): its threads are gone, the file   *)
(* stays as it is.  A reboot of the host also empties /var/run.            *)
Crash ==
  /\ pc' = [w \in Workers |-> "idle"]
  /\ raced' = FALSE
  /\ abandoned' = (abandoned \/ \E w \in Workers : pc[w] \in Holding)
  /\ UNCHANGED <<stateFile, client, seconds>>

Reboot ==
  /\ stateFile' = "absent"
  /\ pc' = [w \in Workers |-> "idle"]
  /\ raced' = FALSE
  /\ abandoned' = FALSE
  /\ UNCHANGED <<client, seconds>>

(* What the handler in worker w does next; each step ends sooner or later, *)
(* the work of Finish and Abandon included.                                *)
Step(w) ==
  \/ FirstRead(w) \/ Sleep(w) \/ LoopRead(w)
  \/ ScrubOpen(w) \/ ScrubClose(w)
  \/ SetOpen(w) \/ SetClose(w)
  \/ Finish(w) \/ Abandon(w)
  \/ UnsetOpen(w) \/ UnsetClose(w)

Next ==
  \/ \E w \in Workers, c \in Clients : Request(w, c)
  \/ \E w \in Workers : Step(w)
  \/ Crash
  \/ Reboot

Spec == Init /\ [][Next]_stateFileVars

(* A thread of a running daemon is scheduled.  Requests, crashes and       *)
(* reboots happen or not.                                                  *)
FairSpec == Spec /\ \A w \in Workers : WF_stateFileVars(Step(w))

-----------------------------------------------------------------------------
TypeOK ==
  /\ stateFile \in Contents
  /\ pc \in [Workers -> Steps]
  /\ client \in [Workers -> Clients]
  /\ seconds \in [Workers -> 0..Timeout]
  /\ abandoned \in BOOLEAN
  /\ raced \in BOOLEAN

(* The flag outlives its handler only when that handler left without       *)
(* unset_state(): by an exception, on FwRedirect's path without save(), or *)
(* in a crash.  However the writes of concurrent handlers interleave, they *)
(* never leave a "1" behind by themselves.                                 *)
LeakedOnlyByAbandon ==
  stateFile = "1" /\ (\A w \in Workers : pc[w] \notin Holding) => abandoned

(* The flag excludes: as long as no handler was admitted by a read taken   *)
(* while another one was writing the file, at most one handler changes the *)
(* firewall, also while it waits to write its "0".                         *)
ExclusiveUnlessRaced ==
  raced \/ \A v, w \in Engaged : v = w

(* What a handler inside relies on meanwhile: its "1" is still there.      *)
FlagStandsUnlessRaced ==
  raced \/ \A w \in Workers : pc[w] \in Holding => stateFile = "1"

(* A "1" that no handler will take back closes the firewall for good: no   *)
(* step of the daemon, not even its restart, changes the file again, so    *)
(* every later request of either client is refused until the host reboots. *)
Leaked == stateFile = "1" /\ Engaged = {}
LeakIsForever == [][Leaked => Leaked' \/ stateFile' = "absent"]_stateFileVars

(* Every request is answered, admitted or refused, even when the flag has  *)
(* leaked: is_locked() gives up after the timeout.                         *)
EveryRequestAnswered ==
  \A w \in Workers : pc[w] = "first_read" ~> pc[w] = "idle"

=============================================================================
