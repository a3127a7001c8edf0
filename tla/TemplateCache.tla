---------------------------- MODULE TemplateCache ----------------------------
(***************************************************************************)
(* The cache of downloaded templates: Template.download() of               *)
(* vrtmgr/images.py and the qemu-img convert that follows it.  A file of   *)
(* the cache is named after the last part of the URL and nothing locks it: *)
(* handlers of the same template, or of two templates whose URLs end       *)
(* alike, check, truncate, write and read it at the same time.             *)
(*                                                                         *)
(* Writers keep their place in the file when another one truncates it, so  *)
(* it is whole again only when the one that truncated it last is done.     *)
(***************************************************************************)
EXTENDS Naturals, FiniteSets

CONSTANTS
  Workers,
  Templates,         \* templates whose URLs end alike
  MaxCacheRequests   \* bound: requests in a behaviour

VARIABLES
  cached,        \* the file: a template when it is whole, else one of Unusable
  opener,        \* who truncated it last
  stage,         \* stage[w]: what the handler does next
  want,          \* want[w]: the template asked for
  image,         \* image[w]: what its qemu-img has read
  cacheRequests, \* bound: requests so far
  wrote,         \* templates being written since the last truncation
  disturbed      \* history: another handler changed the file since w's check

cacheVars == <<cached, opener, stage, want, image, cacheRequests, wrote, disturbed>>

Unusable == {"absent", "part", "mixed"}
Nobody == "nobody"

ASSUME NamesAssumption == Nobody \notin Workers /\ Templates \cap Unusable = {}
ASSUME CacheBoundAssumption == MaxCacheRequests \in Nat

Writers == {w \in Workers : stage[w] = "writing"}

CacheInit ==
  /\ cached = "absent"
  /\ opener = Nobody
  /\ stage = [w \in Workers |-> "idle"]
  /\ want \in [Workers -> Templates]
  /\ image = [w \in Workers |-> "part"]
  /\ cacheRequests = 0
  /\ wrote = {}
  /\ disturbed = [w \in Workers |-> FALSE]

Move(w, from, to) == stage[w] = from /\ stage' = [stage EXCEPT ![w] = to]

(* Worker w changes the file: under the eyes of those who read it.         *)
Disturb(w) ==
  /\ disturbed' = [u \in Workers |-> disturbed[u] \/ u # w]
  /\ image' = [u \in Workers |-> IF stage[u] = "reading" THEN "mixed" ELSE image[u]]

CacheRequest(w, t) ==
  /\ cacheRequests < MaxCacheRequests
  /\ cacheRequests' = cacheRequests + 1
  /\ Move(w, "idle", "check")
  /\ want' = [want EXCEPT ![w] = t]
  /\ image' = [image EXCEPT ![w] = "part"]
  /\ UNCHANGED <<cached, opener, wrote, disturbed>>

(* Mutants: the file is good if it exists; it is downloaded every time.    *)
CheckExists(w) ==
  /\ Move(w, "check", IF cached # "absent" THEN "convert" ELSE "download")
  /\ disturbed' = [disturbed EXCEPT ![w] = FALSE]
  /\ UNCHANGED <<cached, opener, want, image, cacheRequests, wrote>>

CheckNever(w) ==
  /\ Move(w, "check", "download")
  /\ disturbed' = [disturbed EXCEPT ![w] = FALSE]
  /\ UNCHANGED <<cached, opener, want, image, cacheRequests, wrote>>

(* os.path.exists() and the md5sum() of the file.                          *)
Check(w) ==
  /\ Move(w, "check", IF cached = want[w] THEN "convert" ELSE "download")
  /\ disturbed' = [disturbed EXCEPT ![w] = FALSE]
  /\ UNCHANGED <<cached, opener, want, image, cacheRequests, wrote>>

(* open(self.path, "wb").  A convert that is under way reads on in it.     *)
OpenFile(w) ==
  /\ Move(w, "download", "writing")
  /\ cached' = "part"
  /\ opener' = w
  /\ wrote' = {want[u] : u \in Writers \cup {w}}
  /\ Disturb(w)
  /\ UNCHANGED <<want, cacheRequests>>

(* A chunk of another template than the finished one.                      *)
WriteFile(w) ==
  /\ w \in Writers
  /\ cached \in Templates \ {want[w]}
  /\ cached' = "mixed"
  /\ Disturb(w)
  /\ UNCHANGED <<opener, stage, want, cacheRequests, wrote>>

(* The end of the last chunk.  The server may also have sent something     *)
(* else, or less.                                                          *)
CloseFile(w) ==
  /\ Move(w, "writing", "verify")
  /\ \/ /\ opener = w
        /\ cached' \in (IF wrote = {want[w]} THEN {} ELSE {"mixed"}) \cup {want[w], "part"}
     \/ /\ opener # w
        /\ cached' \in {cached, IF cached = want[w] THEN cached ELSE "mixed"}
  /\ IF cached' # cached THEN Disturb(w) ELSE UNCHANGED <<disturbed, image>>
  /\ UNCHANGED <<opener, want, cacheRequests, wrote>>

(* An exception of requests or of the write: the file stays as it is.      *)
DownloadFails(w) ==
  /\ Move(w, "download", "failed") \/ Move(w, "writing", "failed")
  /\ UNCHANGED <<cached, opener, want, image, cacheRequests, wrote, disturbed>>

(* Mutant: what was downloaded is not checked.                             *)
VerifyNot(w) ==
  /\ Move(w, "verify", "convert")
  /\ disturbed' = [disturbed EXCEPT ![w] = FALSE]
  /\ UNCHANGED <<cached, opener, want, image, cacheRequests, wrote>>

Verify(w) ==
  /\ Move(w, "verify", IF cached = want[w] THEN "convert" ELSE "failed")
  /\ disturbed' = [disturbed EXCEPT ![w] = FALSE]
  /\ UNCHANGED <<cached, opener, want, image, cacheRequests, wrote>>

(* qemu-img convert begins to read, and ends; it may fail on a file that   *)
(* is not an image.                                                        *)
ConvertOpen(w) ==
  /\ Move(w, "convert", "reading")
  /\ image' = [image EXCEPT ![w] = cached]
  /\ UNCHANGED <<cached, opener, want, cacheRequests, wrote, disturbed>>

ConvertClose(w) ==
  /\ \/ Move(w, "reading", "done")
     \/ image[w] \in Unusable /\ Move(w, "reading", "failed")
  /\ UNCHANGED <<cached, opener, want, image, cacheRequests, wrote, disturbed>>

Answer(w) ==
  /\ Move(w, "done", "idle") \/ Move(w, "failed", "idle")
  /\ UNCHANGED <<cached, opener, want, image, cacheRequests, wrote, disturbed>>

(* The daemon dies.                                                        *)
CacheCrash ==
  /\ stage' = [w \in Workers |-> "idle"]
  /\ UNCHANGED <<cached, opener, want, image, cacheRequests, wrote, disturbed>>

CacheNext ==
  \/ \E w \in Workers, t \in Templates : CacheRequest(w, t)
  \/ \E w \in Workers :
       \/ Check(w) \/ OpenFile(w) \/ WriteFile(w) \/ CloseFile(w) \/ DownloadFails(w)
       \/ Verify(w) \/ ConvertOpen(w) \/ ConvertClose(w) \/ Answer(w)
  \/ CacheCrash

CacheSpec == CacheInit /\ [][CacheNext]_cacheVars

-----------------------------------------------------------------------------
Stages == {"idle", "check", "download", "writing", "verify", "convert",
           "reading", "done", "failed"}

TypeOK ==
  /\ cached \in Templates \cup Unusable
  /\ opener \in Workers \cup {Nobody}
  /\ stage \in [Workers -> Stages]
  /\ want \in [Workers -> Templates]
  /\ image \in [Workers -> Templates \cup Unusable]
  /\ cacheRequests \in 0..MaxCacheRequests
  /\ wrote \subseteq Templates
  /\ disturbed \in [Workers -> BOOLEAN]
  /\ cached = "absent" <=> opener = Nobody
  /\ \A w \in Workers :
       stage[w] \in {"convert", "reading"} /\ ~disturbed[w] => cached = want[w]

(* An image is made of anything but the template asked for only if another *)
(* handler changed the file after this one had checked it: half a file     *)
(* that a failed download or a crash left, or the file of another template *)
(* under the same name, is never used.                                     *)
MadeOfWanted ==
  \A w \in Workers : stage[w] = "done" /\ ~disturbed[w] => image[w] = want[w]

(* A whole file is given up only by a handler of another template, or by   *)
(* one that checked it before it was whole.                                *)
WholeStays ==
  [][\A t \in Templates :
       cached = t /\ cached' # t =>
         \E w \in Workers : stage[w] \in {"download", "writing"}
                            /\ (want[w] # t \/ disturbed[w])]_cacheVars

=============================================================================
