------------------------------ MODULE GuestConfig ------------------------------
(***************************************************************************)
(* What the daemon writes into the image of a virtance before its guest    *)
(* starts: vrtmgr/libguestfs.py, called by _run() and reset_password() of  *)
(* vrtmgr/images.py for create, rebuild and reset_password.  A create from *)
(* a snapshot copies it into the image and then writes into the snapshot.  *)
(*                                                                         *)
(* A setting is <<item, n>>: the item as request n asked for it; 0 is what *)
(* the template has.  On a Unix the settings are in files; on Windows they *)
(* are commands in the lines of cloudinit.cmd, which Windows runs at every *)
(* start until its last command empties it.                                *)
(* External: cmd.exe reads its script line by line while it runs, so it    *)
(* ends where the script is emptied, and a line with two commands in it    *)
(* does not do either; qemu locks an image that a libguestfs session has   *)
(* open, and a session nobody closed ends when Python collects it.         *)
(***************************************************************************)
EXTENDS Naturals, Sequences, FiniteSetsExt

CONSTANTS
  Distros,     \* what inspect_os() may find; "none" if it finds nothing
  Jobs,        \* the requests: [kind, items], the optional items asked for
  MaxRequests  \* bound: requests in a behaviour

ASSUME JobsAssumption ==
  \A j \in Jobs : /\ j.kind \in {"deploy_template", "deploy_image", "reset_password"}
                  /\ j.items \subseteq {"v6", "private", "vpc", "keys"}
ASSUME BoundAssumption == MaxRequests \in Nat

VARIABLES
  distro,    \* the operating system of the images
  fs,        \* fs[x]: the image or the snapshot: [file, script, taken], the
             \* last is what Windows keeps of the commands it ran
  job,       \* the request being served: [kind, items, n]
  todo,      \* the calls its handler has yet to make
  locked,    \* the images that libguestfs sessions hold
  power,     \* "off" or "running"
  guest,     \* guest[i]: the request whose setting of i the guest has taken
  requests,  \* bound: requests so far
  answer,    \* history: answer[x]: what the last handler of image x answered
  told,      \* history: told[i]: the last request answered with success for i
  early,     \* history: the last reset_password came before the first start
  made,      \* history: the request that made the image from the snapshot, or 0
  spoilt     \* history: images a handler that failed half way has left

guestVars == <<distro, fs, job, todo, locked, power, guest, requests,
               answer, told, early, made, spoilt>>

Items == {"public", "v6", "private", "vpc", "host", "password", "keys"}
Always == {"public", "host", "password"}
NoSettings == [i \in Items |-> 0]
Files == {"nic0", "nic1", "hostname", "shadow", "authorized_keys"}
Template == [file |-> [f \in Files |-> {}], script |-> <<>>, taken |-> NoSettings]
NoJob == [kind |-> "none", items |-> {}, n |-> 0]

(* The image a handler configures: deploy_image() is called on the Image   *)
(* of the snapshot.                                                        *)
On == IF job.kind = "deploy_image" THEN "snapshot" ELSE "image"
Source == IF job.kind = "deploy_image" THEN fs["snapshot"] ELSE Template

(* os_family as root_device() leaves it: Alpine is set up like Debian.     *)
Family == IF distro = "alp" THEN "deb" ELSE distro
Win == Family = "win"
Known == Family \in {"deb", "ubt", "rhl", "fed", "win"}

Asked(i) == i \in job.items
Setting(i) == <<i, job.n>>

-----------------------------------------------------------------------------
(* The script: a sequence of lines [cmds, ended].                          *)
Add(script, cmd, ended) ==
  IF script # <<>> /\ ~script[Len(script)].ended
  THEN [script EXCEPT ![Len(script)] = [cmds |-> Append(@.cmds, cmd), ended |-> ended]]
  ELSE Append(script, [cmds |-> <<cmd>>, ended |-> ended])

Shutdown == <<"shutdown", 0>>
Clean == <<"clean", 0>>

Old == fs[On]
Script(cmd, ended) == [Old EXCEPT !.script = Add(@, cmd, ended)]
Write(f, settings) == [Old EXCEPT !.file[f] = settings]
AddTo(f, settings) == [Old EXCEPT !.file[f] = @ \cup settings]

-----------------------------------------------------------------------------
(* The calls of GuestFSUtil: the image after each of them.                 *)

(* The file of the NIC is written anew.  The template of Windows asks for  *)
(* "ip6public", which nobody passes.                                       *)
public_nic_setup ==
  LET given == {Setting(i) : i \in job.items \cap {"public", "v6"}} IN
  IF Win THEN [Old EXCEPT !.script = Add(<<>>, Setting("public"), TRUE)]
  ELSE IF Known THEN Write("nic0", given) ELSE Old

(* Mutant: the file of the public NIC is not kept.                         *)
private_nic_alone ==
  IF ~Known \/ ~Asked("private") THEN Old
  ELSE IF Win THEN Script(Setting("private"), FALSE)
  ELSE Write(IF Family \in {"rhl", "fed"} THEN "nic1" ELSE "nic0", {Setting("private")})

(* The template of Windows has no end of line.                             *)
private_nic_setup ==
  IF ~Known \/ ~Asked("private") THEN Old
  ELSE IF Win THEN Script(Setting("private"), FALSE)
  ELSE IF Family \in {"rhl", "fed"} THEN Write("nic1", {Setting("private")})
  ELSE AddTo("nic0", {Setting("private")})

vpc_gw_nic_setup ==
  IF Asked("vpc") /\ Family = "deb" THEN AddTo("nic0", {Setting("vpc")}) ELSE Old

set_pubic_keys ==
  IF Asked("keys") /\ ~Win THEN Write("authorized_keys", {Setting("keys")}) ELSE Old

(* The command of Windows is a raw string: "\r\n" is no end of line.       *)
set_hostname ==
  IF Win THEN Script(Setting("host"), FALSE) ELSE Write("hostname", {Setting("host")})

reset_root_passwd ==
  IF Win THEN Script(Setting("password"), TRUE) ELSE Write("shadow", {Setting("password")})

resize_fs == IF Win THEN Script(<<"diskpart", 0>>, TRUE) ELSE Old

(* Mutant: only the first start cleans up.                                 *)
clearfix_once(firstboot) ==
  IF Win /\ firstboot
  THEN [Old EXCEPT !.script = Add(Add(@, Shutdown, TRUE), Clean, TRUE)] ELSE Old

clearfix(firstboot) ==
  IF ~Win THEN Old
  ELSE [Old EXCEPT !.script =
          Add(IF firstboot THEN Add(@, Shutdown, TRUE) ELSE @, Clean, TRUE)]

After(call) ==
  CASE call = "public_nic_setup"  -> public_nic_setup
    [] call = "private_nic_setup" -> private_nic_setup
    [] call = "vpc_gw_nic_setup"  -> vpc_gw_nic_setup
    [] call = "set_pubic_keys"    -> set_pubic_keys
    [] call = "set_hostname"      -> set_hostname
    [] call = "reset_root_passwd" -> reset_root_passwd
    [] call = "resize_fs"         -> resize_fs
    [] call = "clearfix"          -> clearfix(TRUE)
    [] call = "clearfix_again"    -> clearfix(FALSE)
    [] OTHER                      -> Old

Run == <<"convert", "launch", "mount_root", "public_nic_setup", "private_nic_setup",
         "vpc_gw_nic_setup", "set_pubic_keys", "set_hostname", "reset_root_passwd",
         "resize_fs", "clearfix", "close">>
Reset == <<"launch", "mount_root", "reset_root_passwd", "clearfix_again", "close">>

-----------------------------------------------------------------------------
Init ==
  /\ distro \in Distros
  /\ fs = [x \in {"image", "snapshot"} |-> Template]
  /\ job = NoJob /\ todo = <<>>
  /\ locked = {} /\ power = "off"
  /\ guest = NoSettings /\ told = NoSettings
  /\ requests = 0 /\ answer = [x \in DOMAIN fs |-> "none"]
  /\ early = FALSE /\ made = 0 /\ spoilt = {"image"}

Request(j) ==
  /\ todo = <<>>
  /\ requests < MaxRequests
  /\ requests' = requests + 1
  /\ job' = [kind |-> j.kind, items |-> j.items \cup Always, n |-> requests + 1]
  /\ power' = "off"
  /\ todo' = IF j.kind = "reset_password" THEN Reset ELSE Run
  /\ early' = (j.kind = "reset_password" /\ fs["image"].script # <<>>)
  /\ UNCHANGED <<distro, fs, locked, guest, answer, told, made, spoilt>>

(* The handler ends; a session that was not closed stays open as long as   *)
(* the exception that ended it.  The settings written so far stay too.     *)
Ends(ok) ==
  /\ todo' = <<>> /\ job' = NoJob
  /\ answer' = [answer EXCEPT ![On] = IF ok THEN "ok" ELSE "error"]
  /\ UNCHANGED <<distro, fs, power, guest, requests, early, made>>

(* Mutant: an error is logged and passed over.                             *)
FailsQuietly ==
  /\ todo # <<>>
  /\ Ends(TRUE)
  /\ spoilt' = spoilt \cup {"image", On}
  /\ UNCHANGED <<locked, told>>

(* A call raises: qemu-img and launch() on a locked image, mount_root()    *)
(* where no system is found, or any other for its own reasons.  The errors *)
(* of close() are passed over.                                             *)
Fails ==
  /\ todo # <<>> /\ Head(todo) # "close"
  /\ Ends(FALSE)
  /\ spoilt' = spoilt \cup {"image", On}
  /\ UNCHANGED <<locked, told>>

(* Mutant: an image that is there is kept.                                 *)
ConvertOnce ==
  /\ todo # <<>> /\ Head(todo) = "convert"
  /\ todo' = Tail(todo)
  /\ spoilt' = spoilt \ {"image"}
  /\ made' = IF On = "snapshot" THEN job.n ELSE 0
  /\ told' = NoSettings
  /\ fs' = IF fs["image"] = Template THEN [fs EXCEPT !["image"] = Source] ELSE fs
  /\ UNCHANGED <<distro, job, locked, power, guest, requests, answer, early>>

(* qemu-img of deploy_template() and restore_copy().                       *)
Convert ==
  /\ todo # <<>> /\ Head(todo) = "convert"
  /\ {"image", On} \cap locked = {}
  /\ todo' = Tail(todo)
  /\ fs' = [fs EXCEPT !["image"] = Source]
  /\ spoilt' = IF On = "snapshot" /\ "snapshot" \in spoilt
               THEN spoilt \cup {"image"} ELSE spoilt \ {"image"}
  /\ made' = IF On = "snapshot" THEN job.n ELSE 0
  /\ told' = NoSettings
  /\ UNCHANGED <<distro, job, locked, power, guest, requests, answer, early>>

Call ==
  /\ todo # <<>> /\ Head(todo) \notin {"convert", "close"}
  /\ Head(todo) = "launch" => On \notin locked
  /\ Head(todo) = "mount_root" => distro # "none"
  /\ fs' = [fs EXCEPT ![On] = After(Head(todo))]
  /\ locked' = locked \cup {On}
  /\ todo' = Tail(todo)
  /\ UNCHANGED <<distro, job, power, guest, requests, answer, told, early, made, spoilt>>

Close ==
  /\ todo = <<"close">>
  /\ Ends(TRUE)
  /\ locked' = locked \ {On}
  /\ told' = [i \in Items |->
                IF i = "password" \/ (i \in job.items /\ job.kind # "reset_password")
                THEN job.n ELSE told[i]]
  /\ spoilt' = IF On = "snapshot" THEN spoilt \ {On} ELSE spoilt

(* The dead sessions of handlers that failed are collected.                *)
Collected ==
  /\ locked # {} /\ todo = <<>>
  /\ locked' = {}
  /\ UNCHANGED <<distro, fs, job, todo, power, guest, requests, answer, told, early,
                 made, spoilt>>

(* The service dies; nothing in an image tells that it is half done.       *)
Crash ==
  /\ todo # <<>>
  /\ Ends(FALSE)
  /\ locked' = {}
  /\ spoilt' = spoilt \cup {"image", On}
  /\ UNCHANGED told

(* create_copy() of a virtance, with which a new one may start.            *)
TakeSnapshot ==
  /\ todo = <<>> /\ "snapshot" \notin locked
  /\ fs' = [fs EXCEPT !["snapshot"] = fs["image"]]
  /\ spoilt' = IF "image" \in spoilt THEN spoilt \cup {"snapshot"}
                                     ELSE spoilt \ {"snapshot"}
  /\ UNCHANGED <<distro, job, todo, locked, power, guest, requests, answer, told, early,
                 made>>

-----------------------------------------------------------------------------
(* The commands of the script that are run: those of its lines up to the   *)
(* one that empties it, a line with one command in it each.                *)
Image == fs["image"]

Executed(script) ==
  {script[k].cmds[1] : k \in {k \in DOMAIN script :
                               /\ Len(script[k].cmds) = 1
                               /\ \A c \in 1..k - 1 : script[c].cmds # <<Clean>>}}

(* What the guest takes at its start, of what it finds and what it has.    *)
(* The public setting of Windows resets the addresses it has.              *)
Found == IF Win THEN Executed(Image.script) ELSE UNION {Image.file[f] : f \in Files}

Has(i) ==
  IF Win /\ ~(i = "private" /\ \E n \in 1..MaxRequests : <<"public", n>> \in Found)
  THEN Image.taken[i] ELSE 0

Taken ==
  [i \in Items |-> Max({Has(i)} \cup {n \in 1..MaxRequests : <<i, n>> \in Found})]

Started ==
  IF Win THEN [Image EXCEPT !.taken = Taken,
                            !.script = IF Clean \in Executed(@) THEN <<>> ELSE @]
         ELSE Image

Boot ==
  /\ power = "off" /\ todo = <<>> /\ "image" \notin locked
  /\ power' = "running"
  /\ guest' = Taken
  /\ fs' = [fs EXCEPT !["image"] = Started]
  /\ UNCHANGED <<distro, job, todo, locked, requests, answer, told, early, made, spoilt>>

PowersOff ==
  /\ power = "running"
  /\ power' = "off"
  /\ UNCHANGED <<distro, fs, job, todo, locked, guest, requests, answer, told, early,
                 made, spoilt>>

Next ==
  \/ \E j \in Jobs : Request(j)
  \/ Convert \/ Call \/ Fails \/ Close \/ Collected
  \/ Crash \/ TakeSnapshot \/ Boot \/ PowersOff

Spec == Init /\ [][Next]_guestVars

-----------------------------------------------------------------------------
Runs == power = "running" /\ "image" \notin spoilt

(* The settings a request can count on.                                    *)
Supported ==
  IF ~Known THEN {"host", "password", "keys"}
  ELSE IF Family = "deb" THEN Items
  ELSE IF Win THEN {"public"} ELSE Items \ {"vpc"}

(* A guest that runs has what the requests asked for that were answered    *)
(* with success, as far as its system is supported; but of the settings of *)
(* a create from a snapshot it has none.  Windows takes a password only    *)
(* from a reset_password that came after its first start: the command of   *)
(* create is in one line with the host name.                               *)
TakesEffect ==
  Runs =>
    /\ \A i \in Supported : told[i] \notin {0, made} => guest[i] = told[i]
    /\ Win => (guest["password"] = told["password"]
                 <=> (told["password"] > told["host"] /\ ~early))

(* A guest has settings of an earlier virtance, its addresses, keys and    *)
(* password, only if it was made from a snapshot; they are those of a      *)
(* request before the one that made it.                                    *)
NothingStale ==
  Runs => \A i \in Items : guest[i] \notin {0, told[i]} =>
    guest[i] < made \/ (Win /\ early /\ i = "password")

(* A script of Windows is run at one start only, unless a handler failed.  *)
ScriptRunsOnce ==
  Runs => Image.script = <<>>

(* A session holds an idle image only if the last handler of that image    *)
(* answered with an error: the next one, or the start of the guest, fails. *)
HeldOnlyByFailure ==
  todo = <<>> => \A x \in locked : answer[x] = "error"

=============================================================================
