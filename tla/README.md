# Formal models of webvirtcompute

webvirtcompute is the daemon on a compute host of WebVirtCloud: a FastAPI
application (`src/src/main.py`) whose handlers change libvirt, qemu images,
iptables, firewalld and NetworkManager. The handlers are plain functions, so
FastAPI runs them in a pool of threads: any two requests may interleave between
any two calls to the outside. The daemon keeps no state of its own in memory;
everything is in other processes and in files, so it also survives a crash of
the daemon half way through a handler. That is where its hard behaviour is, and
what these models are about.

## 1. Inventory

| part | code | state | operations | modules |
|---|---|---|---|---|
| state file | `vrtmgr/fwall.py` 74-106, `vrtmgr/libredirect.py` 32-68 | `/var/run/firewalld/locked` | `read_state`, `is_locked`, `set_state`, `unset_state`, `save` | `StateFile` |
| firewall manager | `vrtmgr/fwall.py`, `main.py` 1007-1072 | chains of iptables; permanent direct configuration of firewalld | `attach`, `detach`, `attach_rule`, `detach_rule` | `Firewall` |
| floating addresses | `vrtmgr/network.py`, `vrtmgr/libredirect.py`, `main.py` 971-1004 | address on the bridge, NetworkManager connection, NAT rule, its copy in firewalld | `attach_ipaddr`, `detach_ipaddr` and their rollback | `FloatingIP` |
| template cache | `vrtmgr/images.py` 22-50, 134-151 | files in the cache directory | `download`, `deploy_template` | `TemplateCache` |
| life of a virtance | `main.py` 59-531, `vrtmgr/images.py`, `vrtmgr/libvrt.py` `wvmInstance`, `wvmCreate` | libvirt domain, image, secondary volume, snapshot files | create, rebuild, power actions, resize, snapshot, restore, reset password, delete | `Virtance`, `Lifecycle`, `VirtanceClaims` |
| storage pools, networks | `main.py` 545-660, 751-832, `vrtmgr/libvrt.py` 219-660 | libvirt's pools and networks, volume groups | create, start, stop, autostart, manualstart, delete | `HostObjects` |
| storage volumes | `main.py` 545-560, 663-748, `vrtmgr/libvrt.py` 219-243, 406-500, `vrtmgr/images.py` 52-86 | files of a pool, libvirt's list of them and the volumes it builds | create, resize, clone, delete, list; snapshots written beside libvirt | `Volumes` |
| media | `main.py` 435-478, `vrtmgr/libvrt.py` 1321-1396 | CD drive in the definition and in the running domain | mount, umount | `Media` |
| guest configuration | `vrtmgr/libguestfs.py`, `vrtmgr/images.py` 134-200 | files inside an image, the script Windows runs at its start, libguestfs sessions | network, keys, host name, password per operating system | `GuestConfig` |
| host info, interfaces, secrets, filters, metrics | `main.py`, `vrtmgr/libvrt.py` | none in the daemon | reads and single calls | no |
| authentication, certificates, settings, console proxy, packaging | `auth.py`, `cert.py`, `settings.py`, `novnc.py`, `scripts/` | configuration files | - | no |
| `vrtmgr/backup.py`, migration | - | - | no handler reaches them | no |

How they interact: firewall and floating address handlers share the state file,
iptables and the permanent configuration of firewalld. The create and rebuild
handlers read what the template cache wrote. Domain, image and snapshot handlers
share the files of two storage pools. Pool and network handlers share libvirt's
objects, looked up by name once and used by handle afterwards. Media handlers
write the definition that resize, delete and the power actions work on. Volume
handlers and snapshots work in the same directory, one through libvirt and one
behind its back.

What makes each part correct, and hard:

* **State file.** A flag in a file, read and written in separate steps, whose
  writes truncate first: who is excluded, who is not, what leaves the flag set,
  what clears it.
* **Firewall.** Two copies of the same rules changed one call at a time; a
  failure in the middle, a reboot that loads the second copy; order of drop and
  accept; requests that are refused or end in an exception.
* **Floating addresses.** Four copies, of which two change before the lock is
  asked for; a rollback from a stale picture; a connection written back whole; a
  rule found by two addresses, of which each request names its own.
* **Template cache.** Concurrent download, verification and use of one file.
* **Virtance.** Long handlers of many calls, on files that other handlers use;
  crashes in between; a suspended domain that counts as shut off.
* **Pools and networks.** Four or five calls to make one object, nothing undone.
* **Volumes.** Two writers of one directory, of which libvirt knows one; a list
  that is as old as its last refresh, and a refresh that is refused while libvirt
  builds; builds that go on when the handler is gone.
* **Media.** A definition read, edited and written back whole, in a handler that
  asks for the state of the domain three times while others change it; a resize of
  four calls, each of which may be the last.
* **Guest configuration.** What is written into an image, when the guest takes
  it, and what is left of it for the next virtance; on Windows a script whose
  lines and order decide what is done; sessions that nobody closes.

PROJECT.json lists the hazards line by line with the properties that cover them.

## 2. Modules

| module | role |
|---|---|
| `StateFile` | the state file and the handlers' use of it; abstract specification for the two below |
| `Firewall` | extends `StateFile` with the calls to iptables and firewalld |
| `FloatingIP` | extends `StateFile` with the calls to `ip`, NetworkManager, iptables and firewalld |
| `TemplateCache` | one cached file, several handlers and templates |
| `Virtance` | every handler on virtances as a plan of steps |
| `Lifecycle` | abstract specification of one virtance: domain, image, and whether the first has the second open |
| `VirtanceClaims` | what comments of `main.py` say that the code does not do |
| `HostObjects` | pools and networks as plans of libvirt calls |
| `Volumes` | the volumes of a pool, libvirt's list and builds, and snapshots |
| `Media` | mount and umount of an ISO call by call, against the other handlers of the domain |
| `GuestConfig` | the calls of `GuestFSUtil` for each operating system, and what a guest takes from them |
| `StateFile_proofs`, `Firewall_proofs`, `FloatingIP_proofs`, `Virtance_proofs`, `HostObjects_proofs`, `Volumes_proofs`, `Media_proofs` | theorems, each of the module it is named after |
| `Image_proofs` | theorems of `GuestConfig` and `TemplateCache`, what is in an image and what it is made from |
| `MC...` | instances for TLC |

**StateFile.** `pc[w]` is the place of a handler: the first read of
`is_locked()`, its loop (`Sleep`, `LoopRead`), the two steps `open` and `close`
of each write, the work inside (`Finish` when it reaches `save()`, `Abandon`
when it leaves by an exception or by a path of `FwRedirect` without `save()`).
`client[w]` tells the two classes apart, which differ in one point: `FwRedirect`
rewrites an empty file (`ScrubOpen`, `ScrubClose`). `Crash` kills the handlers
and keeps the file, `Reboot` removes it. `abandoned` and `raced` are history.

**Firewall.** A request becomes a plan of operations (`Plan`, in the order of
`create_firewall`, `delete_firewall`, `create_rule`, `delete_rule`). An
operation is four calls: `Query`, `Apply`, `QueryCfg`, `ApplyCfg`; `save()` is
`GetSettings`, `Update` and the two steps of `Unset`. `kernel` holds the
sequence of rules of each chain, `direct` the permanent configuration with
priorities: a set, because firewalld refuses a second equal rule and the order
of rules of one priority does not matter to any of the properties. The two `getAllRules()`/`getAllChains()` loops read a list and then
work through it. iptables and firewalld are external. Every exit status of a
query but 1 counts as "present", as `query_rule` and its companions have it:
`iptables -C` answers 2 when the target of a jump is missing and when it cannot
read the rule (`Queried`, `Loadable`). The latter is a rule of two addresses,
which `rule_args` joins with `", "` and `split()` takes apart again (`Several`).
`CommandFails` is a query or a command that fails for any other reason, at any
time; `faulty` records the handlers that met one.

**FloatingIP.** A request names a floating address and the fixed one it is to
lead to; the bridge and the connection hold the floating address, `nat` and `xml`
the rules, pairs of both, and nothing compares the fixed address of a detach with
that of the attach. One action per call again: `Iface` (`ip addr`), `Commit`
(NetworkManager), the wait for the flag, `Check`, `Apply`, `QueryXML`,
`ChangeXML`, `save()`, and the rollback `UndoIface`, `UndoCommit`. `view[w]` is
the cached picture of `NM.Client`, refreshed at any time or never.
`CommandFails` is an exit status of iptables other than 0 and 1.
A firewall handler takes part as one that only uses the state file.

**TemplateCache.** The file is a template when it is whole, else absent, a part,
or a mixture. `Check` and `Verify` are the two md5 comparisons, `Open` truncates
(under the eyes of those who read), `Write`, `Close`, `DownloadFails`, then the
convert (`ConvertOpen`, `ConvertClose`).

**Virtance.** A request becomes a plan, one list of steps per handler (`create`,
`rebuild`, `restore`, ...), and each sort of step is one action. `StepRaises` is
the error path of every step: the first section of create swallows
`libvirtError` and goes on behind it, everything else ends the handler and
undoes nothing. An image is absent, torn (a copy did not end), a template, half
configured or ready; `held` is what a copy or a libguestfs session works on.
Content is a kind, an owner (for whom it was configured) and a size. A copy is
torn when a handler writes what it reads (`Source`, `Taking`) and when a running
guest does (`GuestWrites`): `virtance_snapshot` asks for no state and `convert -U`
takes no lock. `Define` is `defineXML` and `setAutostart` in one step; that a
create may die between the two is in `HostReboot`, which starts any of the
domains whose disks are there.

**Lifecycle.** Domain none, off, on or orphan (active without a definition),
image none, unfinished or finished, and `open`. Seven actions; the two rules are
that a domain starts from an image and that an image a domain has open is not
written. `MCVirtance` maps `Virtance` to it (`DomainOf`, `ImageOf`, `holds`).

**HostObjects.** Creation is define, look up, (build,) start, autostart; an
action is look up, act. A handle is the UUID an object had when it was looked
up, so a handle can be stale. `Fails` ends a handler at any call.

**Volumes.** `files` is the directory, `known` libvirt's list of it, `builds`
the volumes libvirt builds in its own process; `EndBuild` ends a build whoever
waits for it, with a volume or without one. The handlers are one action per
call: `Create`, `Clone` (both `BeginBuild`), `Resize`, `Delete`, `RefreshList`
and `List`, `Ask` for a listing, `RefreshCopy`, `Convert`, `Converted`,
`GetCopied` for a snapshot. A name counts its suffixes: `create_volume()` and
`clone_volume()` add one `.img` more, a snapshot adds one when there is none.

**Media.** `dom` has the definition (`cfg`) and the running domain (`live`), each
an image in the drive and the resources: maximum and current memory, maximum and
current CPUs. `ResizeResources` is the four calls of `resize_resources()`
(`SetMaxMemory`, `SetMemory`, `SetMaxVcpus`, `SetVcpus`), each of which may raise
or be the last before a crash; the last one goes to the running domain if some
other handler has started it meanwhile. `Read` edits the XML that it has
read (`Edited`), the two tests of the state and the two updates of
`updateDevice()` are actions of their own (`IfRunning`, `IfShutoff`, `Update`),
`Reread` and `Define` write the definition back. Delete, resize, start, stop,
suspend and resume take part with the calls that touch the domain.

**GuestConfig.** A setting is an item with the number of the request that asked
for it. On a Unix it is in a file; on Windows it is a command in a line of
`cloudinit.cmd` (`Add` joins a command to a line without an end). `Run` and
`Reset` are the calls of `_run()` and `reset_password()`, `After` what each does
to the image; at `Boot` the guest takes (`Taken`) the newest of what it finds
(`Found`; on Windows the commands of the script that are `Executed`) and of what
it has kept (`Has`), and `Started` is the image afterwards. A create from a
snapshot works on the snapshot (`On`), a snapshot may be taken of every image
(`TakeSnapshot`), and a session that was not closed stays in `locked` until
`Collected`. One handler at a time: overlaps on an image are in `Virtance`.

History variables (`raced`, `abandoned`, `overlapped`, `cut`, `agreed`, `alone`,
`sound`, `clean`, ...) record what happened and guard nothing.
Mutants are operators next to the definition they replace; no specification
uses them.

## 3. What the runs check

Passing runs:

| run | instance | states | what it shows |
|---|---|---|---|
| `state_file` | 3 handlers, timeout 2, weak fairness | 175 954 | The critical section is exclusive, and the flag of the one inside stands, unless a handler was let in by a read taken while another one was writing. A flag nobody owns was left by an exception, a path without `save()` or a crash, never by interleaved writes. Such a flag stays until the reboot. Every request ends, the flag leaked or not. |
| `firewall` | 2 handlers, 2 requests of three, timeout 1, weak fairness, failing commands | 510 934 | Without overlap both copies agree, and no rule is in a chain twice, whenever nobody is half way, whatever commands of iptables failed. A failure half way keeps everybody out. No drop ever stands before an accept, overlap included. Every request ends. |
| `firewall_seq` | 1 handler, 4 requests of seven | 820 500 | the configuration can be loaded at any instant; a handler no command of which failed, and that reaches its end, did what it was asked but for the rules of several addresses |
| `floating_ip` | 2 handlers, 2 floating and 2 fixed addresses, 3 requests, symmetry | 1 779 120 | all four copies agree after a handler that had the host to itself; all but the connection after handlers of different addresses; while each detach names the fixed address of the attach an address leads to one fixed address; a refused request is rolled back in both or no places; and when the flag comes free |
| `template_cache` | 3 handlers, 2 templates, 4 requests, symmetry | 63 790 | what an image is made of; who may destroy a whole file |
| `virtance` | 2 handlers, 1 virtance, 1 snapshot, 4 requests, faults, a guest that writes | 378 127 | orphans and unfinished images come only from handlers that failed, died or overlapped; a success means what it says (of a snapshot of a running guest, only its size); only a suspended domain survives its undefine; and, whatever overlaps, the refinement of `Lifecycle` |
| `host_objects` | 2 handlers, a logical pool, a network, 4 requests, symmetry | 429 774 | a success means a complete object; half-made ones have a cause |
| `media` | 2 handlers, 2 images, 3 requests of every kind, 2 sizes, symmetry | 911 238 | what a mount or umount that was alone has done when it answers; a resize that made its four calls stands unless a mount or umount, a power action or another resize ran beside a resize; a deleted domain comes back only by a mount or umount at the same time (or a delete that failed half way) |
| `volumes` | 2 handlers, 2 names, 3 requests, symmetry | 212 876 | a success means the volume or snapshot is complete and known; a list shows every file that was there all the time, unless its refresh was refused; where unknown and incomplete volumes come from |
| `guest_config` | eight operating systems, 3 requests | 1 105 669 | which settings a running guest has, and which of an earlier virtance; a script of Windows runs once; when a session is left open |

Runs that end in a violation, each a comment of `main.py` that the code does not
live up to:

* `claim_stop_vm`: "Stop VM" of rebuild and "Check XML already exists and delete"
  of create do not stop a suspended domain, because `get_state()` says "shutoff"
  of every state but running; create also takes its definition away.
* `claim_deploy_copy`: "Copy and deploy backup or snapshot image": `deploy_image`
  runs on the `Image` of the snapshot, so the snapshot is configured and the copy
  is not.

What the conditions in the properties mean. Several properties hold "unless
raced", "without overlap" or "for a handler alone": the code has no lock that
would exclude those cases, and the properties say exactly how far its flag and
its lack of locks carry. Each of these conditions is reachable in the same run
(as is its negation), and the hazards list says which code makes it so.
`CutKeepsOthersOut` is worth a remark: the leak of the flag after a failure,
annoying as it is, is what keeps handlers from building on two copies that
differ.

Some properties name what the code does not achieve; no doc of the repository
says otherwise, so they are no findings:

* `DoneAsReported` of `Firewall`: a rule of several addresses is skipped and
  answered with success, and so is whatever a command of iptables failed for; an
  `attach_rule` of a firewall that was never attached does nothing either.
* `OneRule`, `FlagComesFree`: a detach that names another fixed address than the
  attach, alone and answered with success, takes the address off the bridge and
  leaves its rule; as it finds nothing to remove it leaves the flag as well. An
  attach of the address to another fixed one then puts its rule behind the old
  one, which goes on to take the packets. `AllAgree` and `LiveAgree` hold all the
  same: they are about the rule the last handler named, and about chain and
  configuration having the same rules.
* `DoneAsReported` of `Virtance`: a snapshot of a guest that writes while it is
  copied is of no single moment, and is answered with success.
* `ResizeStands`: a resize that fails or dies between its calls leaves the memory
  of one size with the CPUs of another, until the next resize.
* `MediaDone`: a mount into a drive that has an image while the domain is off, a
  device the domain does not have, and an image no pool has are all answered
  with success; the first two change nothing, the third empties the drive.
* `TakesEffect`: on Windows the command of the host name is a raw string
  (`libguestfs.py` 511), in which `\r\n` does not end the line, and neither does
  the template of the private NIC. So the private NIC, the host name and the
  password of create share a line, and the guest takes none of them; its template
  for IPv6 asks for a name that nobody passes. A `reset_password` after the first
  start works; one before it is lost behind the command that empties the script.
  The VPC gateway is set up for Debian only.
* `NothingStale`: a virtance made from a snapshot starts with the settings of the
  virtance that the snapshot was taken of, or of an earlier one made from it.
* `ShownIsCurrent`: the listing of the pools tells, of an inactive pool, the
  number of volumes of the pool before it.

**Bounds.** `MaxRequests` bounds a behaviour, not the number of handlers inside:
two requests at once are an overlap; the third or fourth meets what they, a
crash or a reboot left; the run of one handler (`firewall_seq`) goes to four for
long sequences of legal calls. Three requests in `Media` are a mount, a handler
beside it and a start or a second mount; in `Volumes` a build, a snapshot or
listing beside it and what comes after; in `GuestConfig` a create, a create from
its snapshot and a reset. Timeout 1 or 2 stands for the 120 reads of
`settings.py` and of the configuration: the loop only counts. Two addresses on one firewall are a virtance with two addresses or two
virtances that share the firewall; an accept, a drop, an unknown rule and an
accept of several addresses are the cases `rule_args` distinguishes for order and
errors. Two fixed addresses are the one of the attach and another one; two sizes
of a resize are that of a new virtance and another one. Three handlers in
`state_file` are one inside, one writing and one reading. Two images in `Media`
are the one named and another one, two names in `Volumes` the volume and its
clone. A crash and a reboot are always possible and not counted, hence there is
no deadlock to exempt. In `Virtance`, `Media` and `Volumes` the crash needs a
busy handler, and the reboot is always possible; in `GuestConfig` a guest that
stands still can always be started, stopped or recreated.

**Symmetry** is used only over sets of interchangeable model values, in runs
without liveness or refinement properties.

**Fairness.** `FairSpec` and `FwFairSpec` assume weak fairness of the next step
of each handler that runs: a thread of a running process is scheduled, and every
call to another process returns or raises. Requests, crashes and reboots are not
assumed to happen. The two liveness properties then say that the wait loop ends
and that no loop over rules runs forever; a crash ends a handler too.

## 4. What is proved

With the TLA+ proof system, for every value of the constants that the named
assumptions allow: any number of handlers, virtances, images, addresses and
requests. Each theorem is what a run of section 3 checks on a small instance;
PROJECT.json pairs them. The arguments are the same everywhere: an invariant
`[]Inv` follows from a stronger one that holds initially and that every action
keeps. The strengthenings are defined in the proof modules under the names used
below.

**Assumptions.** `TimeoutAssumption` (the timeout is a positive number);
`JobsAssumption` of `Firewall`, `FloatingIP`, `Virtance`, `Media`, `Volumes` and
`GuestConfig` (what `model.py` and the handlers make of a request: its kind is
one there is, its names are names, its sizes numbers, its lists sequences);
`NamesAssumption`, `NamesApart` (different sorts of names differ, a logical pool
is a pool); `KindsAssumption`, `BoundAssumption`, `CacheBoundAssumption` (kinds of
requests; the bound is a number).
No theorem needs that a set is finite or a bound small.

**State file.** `TypeOK` is inductive with `SleepsLeft`: a handler that still
reads has a sleep left. `ExclusiveUnlessRaced` and `FlagStandsUnlessRaced` are
only inductive together (`ExclusionInv`): without a race an admission reads a
file that is not "1", so by the second nobody is inside, and, as nobody is
writing, nobody is engaged at all (`AdmittedAlone`). `LeakOrigin` and
`LeakStays` say where an ownerless flag comes from and that only the reboot takes
it away. Every step of `Firewall` and of `FloatingIP` is a step of `StateFile` or
leaves its variables alone (identity as the mapping), so all of this holds of
both (`FirewallImplementsStateFile`, `FloatingIPImplementsStateFile`).

**Firewall.** In this order:

* `CutIsContained`. A race is an overlap (`OverlapInv`); then a handler half way
  is alone with its "1" (`HalfDoneAlone`), a failure leaves exactly that, and
  `LeakStays` of the state file carries on.
* `FirewallTypes`, `AcceptsFirst` (`KernelInv`). The order of a chain is kept by
  the insertion of one rule, by the removal of one and by what firewalld loads;
  the lemmas about `SetToSeq`, `RemoveFirst` and `Inserted` say so for all
  sequences.
* `Settled`, `Loads` (`Agreement`). Half way through an operation iptables and
  the configuration agree but for the change the handler is about to make, and it
  is about to make it because it has seen that it is missing; what `save()` read
  is still so when it is written back; the configuration is closed, because a
  jump goes before the chain it leads to and comes after it. A command that fails
  leaves iptables alone and skips the change of the configuration, so it disturbs
  neither.
* `Done` (`Progress`). What a handler has left of its plan accounts for all it has
  to do: an operation of the plan is left or had its effect (`Accounted`); a jump
  comes behind the chain it leads to (`Prepared`) and rules behind the chains
  (`RulesLast`); chains are emptied before they are removed (`EmptiesFirst`), and
  the removal of those that are not used any more comes last (`DropsUnused`,
  `DropsLast`). A plan has all that when it is made (one lemma per kind of
  request), every step of a handler no command of which failed (`faulty`) keeps
  it, and with nothing left it says `Achieved`. The rule of several addresses
  never gets into a chain or the configuration.

**Floating addresses.** `FipTyping` ties the handler's place in its own code to
its place at the state file. Then, each with the help of the ones before:
`Meets` (a handler knows the address of every other one that was there), `Rules`
(iptables and firewalld differ only under the hands of the one inside, or where
one left with its flag up), `Owned` (what a handler has done to its address is
still done), `Agreed` (an address nobody works on is in step, and every picture
of NetworkManager shows it as it is), `Easy` (without trouble a handler finds the
rules as it expects them). They give `SharedAgree`, `SettledAgree` and
`RollbackAgrees` for any fixed addresses the requests name. `Single` is about
those: an address with which no handler strayed (named another fixed address
while the rule of the last one might be there) has no rule but that of the last
handler, in the chain, in the configuration and in what `save()` read. With `Easy`
it gives `LeadsToOne`; `FlagFree` is in `Easy`.

**Template cache.** `DeploysWanted`: a handler undisturbed since its check has
read what it wants, and a file with a writer was opened by somebody.
`WholeFilesStay` adds that who is about to truncate the file undisturbed has
found it other than wanted (`NeededDownload`). `CacheTyping` is the type
invariant.

**Virtance.** The plans are stated once as a table (`First`, `Then`, `About`,
`Reads`) and proved to follow it; a handler at work is somewhere on its plan
(`OnPlan`).

* `Typing` and `Lives` (`BaseInv`): no active domain has an image open that a
  handler writes (`Writers`), so every step of every virtance is a step of
  `Lifecycle` or none. `LivesOne` adds the initial state: each virtance on its own
  implements the specification, for all of them at once.
* `CleanStays`, `RunsFinished`, `AnswersTrue`, `OnlyPausedLeft`
  (`HistoryInv`): what a handler may rely on that has its virtance and snapshot
  to itself, step by step (`Phase`), whatever handlers of others do, a copy of an
  image being `Alike` (its size always, its contents unless the guest wrote
  meanwhile, `live`); what the
  clean virtance keeps (`Consistent`) while no handler is changing it (`Quiet`).

**Pools and networks.** Objects are sound (a UUID exactly while libvirt knows the
object, autostart only with a definition), and volume groups belong to logical
pools since every handler builds for the request it serves (`Serving`). For
`AnswersTrue` and `HalfMadeExplained`: the calls left are an end of the plan
(`Ordered`), a handler alone on its object has no company there (`NoCompany`),
what it has done is still done (`Progressed`), and a clean object is half-made
only while it is being made (`CleanWhole`).

**Volumes.** libvirt lists what exists and builds what it lists (`Listed`), hence
`ShownAsIs` (with `Told`: a list shows what was there since it was asked for).
`LeftoversExplained` needs who writes a file (`Writers`), that snapshots beside
builds are on record (`OnRecord`), what incomplete contents come of (`Whole`) and
what libvirt does not know (`Unknown`). `AnswersTrue` (`Kept`): a handler that
has the pool to itself has no builds beside it but its own, and what it has made
so far stands.

**Media.** Type correctness is inductive with `Control`: a handler is at a call
of the request it serves. `DeletedStays` needs that handlers of two kinds that
are busy together are on record (`Overlap`), that a mount or umount past its
first update has found a definition, which only a delete beside it takes away
(`LateIsDefined`), and that a delete without its disk is busy or on record
(`Deleted`). `ResizeStays` adds two parts, both under the condition that a resize
had no company but a delete (`OnlyWithDelete`, used through `Company`). `Halves`:
between its calls the domain is off, and the definition has what has been set so
far, as only a delete could be there. `Resources`: from the last call of a resize
to the first one of the next, every copy of the XML (the definition, the running
domain, the tree and `xmldom` of every handler) has the resources last asked
for. `AnswersTrue` follows
a handler alone with its domain (`Solitude`): only the guest, which may power
off, changes it; from its first update on the drive holds what the tree says
(`Promise`).

**Guest configuration.** `GInv` has sixteen parts, inductive only together. A
script may have any length; the proof never computes what is run of it, it needs
of `Add` only that it begins a line or joins the last one (`NewLine`, `Joined`),
and of the commands that are run that they are alone in a line no emptying line
is before (`ExecutedIs`).

* The handler: the calls left are an end of its list (`Ordered`, with `At` the
  next one); nothing is newer than the request at hand, and an image knows that
  one only once its handler has written (`Bounded`); from the conversion on the
  answers and the origin of the image are those of this request (`Configuring`);
  whom a session may belong to (`Held`).
* An image from the template: it has settings of its request alone (`Fresh`). On
  a Unix each is in its file as soon as its call is past, so that no later call
  may overwrite it (`UnixFresh`). On Windows the first line sets the public
  address, and the password is never alone in a line (`WinFresh`).
* The script: while `_run()` writes it, which line has an end and that none
  empties it (`WinRun`); at the end the emptying command has a line of its own
  (`Whole`), which a start reaches whatever is before it (`WholeCleans`), so an
  image no failed handler has left is empty or whole (`ReadyInv`). A password set
  before the first start comes behind that line and is never run; one set later
  is the only line before it (`Resetting`, `AddBehind`). A Unix has no script
  (`UnixScript`, `Shadow`).
* What the guest would take at its next start is what it was told, or older than
  the snapshot it was made from: between handlers, and during a reset of the
  password of everything but the password (`Settled`, `PasswordSettled`). What a
  running guest has is what it would take again (`Live`), as its image changes
  only when it is off.

`SettingsTaken` and `OldSettingsGone` follow from the last three, `ScriptsEmptied`
from `Live`, `SessionsClosed` from `Held`. Without `Bounded` a reset might be
overtaken by a setting of a later request; without `Resetting` the two cases of a
Windows password cannot be told apart once the script has been rewritten.

**Only model-checked.** Liveness (`EveryRequestAnswered`,
`FwRequestAnswered`): the prover does not handle fairness and ENABLED. Every
safety property of a passing run has a theorem.

## 5. What is not modelled

* Values: addresses, ports, XML, names of devices; formatting and parsing. Of the
  guest's files only which settings are in them, of the Windows script only its
  commands and where its lines end.
* Floating address handlers and firewall handlers in one model with both sets of
  rules: each module has the other's use of the state file only.
* Two handlers at once on the files of one guest (`GuestConfig` has one at a
  time; that libguestfs locks the image is in `Virtance`).
* What no handler of `main.py` reaches: `change_ipv4fixed`, `resize_linux_fs`,
  `clean_cloud_init`, `umount_root`, `guestfs_resize`, `backup.py`, migration;
  and the networks of `cloud="private"`, which no caller passes.
* A restart of the firewalld service.
* The pool type `nfs`, which libvirt refuses at define, is the failing call of
  `Fails`.
* Host information, secrets, filters, interfaces and metrics are reads or single
  calls; authentication, certificates, settings, the console proxy, the declarations of `model.py` and
  installation have no state that handlers change. See PROJECT.json.

External behaviour the models assume: `iptables` of the nft variety; qemu and its
tools lock images they write and `convert -U` reads without a lock; libvirt
refuses to shrink a volume, to start an active object and to define a name
twice; undefining an active domain or network leaves a transient one; a host
that reboots starts what has autostart; libvirt builds volumes in its own
process, refuses `refresh()` and the stop of a pool meanwhile, and reads the
directory of a pool in `refresh()` and at its start only; of two sources in a CD
drive the first counts; `cmd.exe` reads a script line by line while it runs.

## 6. Plan

Done: `StateFile`, `Firewall`, `FloatingIP`, `TemplateCache`, `Virtance` and its
refinement of `Lifecycle`, `HostObjects`, `Media`, `Volumes`, `GuestConfig`, and
the proofs above. Left:

* `HostFirewall`: `Firewall` and `FloatingIP` on one state file and one
  permanent configuration. Property: the two kinds of handlers keep each
  other's rules when they do not overlap.

## 7. Running

    tlc -workers 2 -config Firewall.cfg MCFirewall
    tlapm StateFile_proofs.tla

PROJECT.json names the module and the configuration of every run, the mutant
that each property refutes, and the lines each definition stands for.
