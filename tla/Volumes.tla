------------------------------- MODULE Volumes ------------------------------
(***************************************************************************)
(* The GUI's volume pages (_django/volumes.py, _django/organize.py).       *)
(* Every page measures all volumes, each probe in a thread of its own that *)
(* the page gives up on at a deadline, and that goes on and may answer a   *)
(* page that is long gone; then the page works on the volumes, in such     *)
(* threads or, for some calls, directly.  A call into a stale mount does   *)
(* not return while the mount is stale.                                    *)
(***************************************************************************)
EXTENDS Integers, FiniteSets

CONSTANTS
  Vols,        \* the requester's volumes
  Attached,    \* those that are mounts, and come and go; the others are directories
  Workers,     \* threads of the server that handle requests
  MaxPages,    \* bound: requests each worker handles
  MaxOutages   \* bound: changes of the mounts

ASSUME VolumeBounds == Attached \subseteq Vols /\ MaxPages \in Nat /\ MaxOutages \in Nat

(* What a probe answers.  A directory that is there is reachable, a volume   *)
(* or the bare mount point of one, and comes with the figures of whichever   *)
(* filesystem that was: for a bare mount point the one beneath it.           *)
REACHABLE   == "reachable"
BENEATH     == "reachable, with the figures beneath it"
NOT_MOUNTED == "not-mounted"
UNREACHABLE == "unreachable"
Statuses    == {REACHABLE, BENEATH, NOT_MOUNTED, UNREACHABLE}
Pages       == {"usage", "duplicates", "move", "browse"}
Asked       == "asked"   \* a probe that has not answered
There       == "there"   \* one that has found the directory, and measures it next
NoProbe     == "none"

Threads == Workers \X (1..MaxPages) \X Vols   \* of a worker's n-th request

VARIABLES
  mount,    \* each volume: "up", "bare" (not mounted, the directory remains),
            \* "absent" (no directory at its path) or "stale"
  page,     \* each worker's request: the page, what it does next, on which volumes
  status,   \* what the request that measures was told by its probes
  box,      \* each probe's thread: how far it is, or its answer
  pages, outages,
  been      \* history: what each volume was while the request waited to be told of it

volVars == <<mount, page, status, box, pages, outages, been>>

NoPage == [name |-> "usage", at |-> "idle", vols |-> {}]
Mounts == {"up", "bare", "absent", "stale"}

PageRecords ==
  [name : Pages, at : {"idle", "measure", "direct", "bounded", "results"}, vols : SUBSET Vols]

VolTypes ==
  /\ mount \in [Vols -> Mounts]
  /\ page \in [Workers -> PageRecords]
  /\ status \in [Workers -> [Vols -> Statuses \cup {Asked}]]
  /\ box \in [Threads -> Statuses \cup {NoProbe, Asked, There}]
  /\ pages \in [Workers -> 0..MaxPages] /\ outages \in 0..MaxOutages
  /\ been \in [Workers -> [Vols -> SUBSET Mounts]]

VolInit ==
  /\ mount = [v \in Vols |-> "up"]
  /\ page = [w \in Workers |-> NoPage]
  /\ status = [w \in Workers |-> [v \in Vols |-> Asked]]
  /\ box = [p \in Threads |-> NoProbe]
  /\ pages = [w \in Workers |-> 0] /\ outages = 0
  /\ been = [w \in Workers |-> [v \in Vols |-> {}]]

-----------------------------------------------------------------------------
(* The request waits to be told of the volume. *)
Measuring(w, v) == page[w].at = "measure" /\ status[w][v] = Asked

Change(v, to) ==
  /\ outages < MaxOutages /\ mount[v] # to
  /\ mount' = [mount EXCEPT ![v] = to]
  /\ outages' = outages + 1
  /\ been' = [w \in Workers |->
       IF Measuring(w, v) THEN [been[w] EXCEPT ![v] = @ \cup {to}] ELSE been[w]]
  /\ UNCHANGED <<page, status, box, pages>>

(* The request goes on to a step, or ends; what it was told of the volumes   *)
(* is in the response by then.                                               *)
TurnsTo(w, to) ==
  /\ page' = [page EXCEPT ![w] = to]
  /\ status' = [status EXCEPT ![w] = [v \in Vols |-> Asked]]
  /\ been' = [been EXCEPT ![w] = [v \in Vols |-> {}]]

Does(w, name, step, vols) == TurnsTo(w, [name |-> name, at |-> step, vols |-> vols])
Respond(w) == TurnsTo(w, NoPage)

(* A request for a page of the app, which measures the volumes first.        *)
Open(w) ==
  /\ page[w].at = "idle" /\ pages[w] < MaxPages
  /\ pages' = [pages EXCEPT ![w] = @ + 1]
  /\ page' = [page EXCEPT ![w] = [NoPage EXCEPT !.at = "measure"]]
  /\ box' = [p \in Threads |-> IF p[1] = w /\ p[2] = pages'[w] THEN Asked ELSE box[p]]
  /\ status' = [status EXCEPT ![w] = [v \in Vols |-> Asked]]
  /\ been' = [been EXCEPT ![w] = [v \in Vols |-> {mount[v]}]]
  /\ UNCHANGED <<mount, outages>>

(* list_dir, which a host's browser calls with one of them, does not measure. *)
ListDir(w, v) ==
  /\ page[w].at = "idle" /\ pages[w] < MaxPages
  /\ pages' = [pages EXCEPT ![w] = @ + 1]
  /\ Does(w, "browse", "direct", {v})
  /\ UNCHANGED <<mount, box, outages>>

(* The thread of a probe, whether or not its page still waits: is there a    *)
(* directory, and then how large is it.  One that is gone in between raises. *)
IsDir(p) ==
  /\ box[p] = Asked /\ mount[p[3]] # "stale"
  /\ box' = [box EXCEPT ![p] = IF mount[p[3]] = "absent" THEN NOT_MOUNTED ELSE There]
  /\ UNCHANGED <<mount, page, status, pages, outages, been>>

Measures(p) ==
  /\ box[p] = There /\ mount[p[3]] # "stale"
  /\ box' = [box EXCEPT ![p] = IF mount[p[3]] = "up" THEN REACHABLE
                               ELSE IF mount[p[3]] = "bare" THEN BENEATH ELSE UNREACHABLE]
  /\ UNCHANGED <<mount, page, status, pages, outages, been>>

(* Fault: the boxes are kept by volume: one filled for an earlier request,   *)
(* after that gave up, answers this one.                                     *)
TakeFromAny(w, v) ==
  /\ Measuring(w, v)
  /\ \E n \in 1..pages[w] :
       /\ box[<<w, n, v>>] \in Statuses
       /\ status' = [status EXCEPT ![w][v] = box[<<w, n, v>>]]
       /\ box' = [box EXCEPT ![<<w, n, v>>] = NoProbe]
  /\ UNCHANGED <<mount, page, pages, outages, been>>

(* measure: the page takes the answer of its own probe. *)
Take(w, v) ==
  /\ Measuring(w, v)
  /\ box[<<w, pages[w], v>>] \in Statuses
  /\ status' = [status EXCEPT ![w][v] = box[<<w, pages[w], v>>]]
  /\ box' = [box EXCEPT ![<<w, pages[w], v>>] = NoProbe]
  /\ UNCHANGED <<mount, page, pages, outages, been>>

(* Fault: the page gives up only on a probe that raises. *)
GiveUpOnError(w, v) ==
  /\ Measuring(w, v) /\ mount[v] # "stale"
  /\ status' = [status EXCEPT ![w][v] = UNREACHABLE]
  /\ UNCHANGED <<mount, page, box, pages, outages, been>>

(* The deadline passes first, or the probe raises.  The thread goes on. *)
GiveUp(w, v) ==
  /\ Measuring(w, v)
  /\ status' = [status EXCEPT ![w][v] = UNREACHABLE]
  /\ UNCHANGED <<mount, page, box, pages, outages, been>>

Reachable(w) == {v \in Vols : status[w][v] \in {REACHABLE, BENEATH}}

(* All volumes are measured; which page was asked for matters from here.     *)
(* usage scans one of them in a thread; duplicates asks every reachable one  *)
(* whether it is a directory; move only lists them, or resolves a folder of  *)
(* one, whatever its status.                                                 *)
Measured(w) ==
  /\ page[w].at = "measure" /\ \A v \in Vols : status[w][v] # Asked
  /\ \/ \E v \in Vols : Does(w, "usage", "bounded", {v}) \/ Does(w, "move", "direct", {v})
     \/ Does(w, "duplicates", "direct", Reachable(w))
     \/ Respond(w)
  /\ UNCHANGED <<mount, box, pages, outages>>

(* Calls on the mounts in the request's own thread: is_dir for duplicates,   *)
(* contained_dir for move and browse, which may refuse the folder.  A mount  *)
(* that is stale does not return from them.                                  *)
Direct(w) ==
  LET duplicates == page[w].name = "duplicates"
      roots == IF duplicates THEN {v \in page[w].vols : mount[v] # "absent"} ELSE page[w].vols
  IN
  /\ page[w].at = "direct" /\ \A v \in page[w].vols : mount[v] # "stale"
  /\ \/ roots # {} /\ Does(w, page[w].name, "bounded", roots)
     \/ (duplicates => roots = {}) /\ Respond(w)
  /\ UNCHANGED <<mount, box, pages, outages>>

(* lstat of the duplicates that were found, again in the request's thread. *)
Results(w) ==
  /\ page[w].at = "results" /\ \A v \in page[w].vols : mount[v] # "stale"
  /\ Respond(w)
  /\ UNCHANGED <<mount, box, pages, outages>>

(* _run_bounded, with_deadline: the walk ends, fails, or is given up. *)
Bounded(w) ==
  /\ page[w].at = "bounded"
  /\ \/ Respond(w)
     \/ /\ page[w].name = "duplicates" /\ \A v \in page[w].vols : mount[v] # "stale"
        /\ Does(w, "duplicates", "results", page[w].vols)
  /\ UNCHANGED <<mount, box, pages, outages>>

PageStep(w) ==
  \/ \E v \in Vols : Take(w, v) \/ GiveUp(w, v)
  \/ Measured(w) \/ Direct(w) \/ Bounded(w) \/ Results(w)

VolNext ==
  \/ \E w \in Workers : PageStep(w) \/ Open(w) \/ \E v \in Vols : ListDir(w, v)
  \/ \E p \in Threads : IsDir(p) \/ Measures(p)
  \/ \E v \in Attached, to \in Mounts : Change(v, to)

VolSpec == VolInit /\ [][VolNext]_volVars

(* The server's threads run, and deadlines pass. *)
VolFairSpec == VolSpec /\ \A w \in Workers : WF_volVars(PageStep(w))

-----------------------------------------------------------------------------
Honest(answer, was) ==
  /\ answer = REACHABLE => "up" \in was
  /\ answer = BENEATH => "bare" \in was
  /\ answer = NOT_MOUNTED => "absent" \in was

(* What a page says of a volume is what was at its path during that very     *)
(* request, though the probe looks twice, the mounts come and go between,    *)
(* and probes of earlier requests go on and answer late: not mounted only if *)
(* there was no directory, and figures are those of the filesystem that was  *)
(* there, its own only if it was mounted.                                    *)
StatusIsHonest == \A w \in Workers, v \in Vols : Honest(status[w][v], been[w][v])

Unanswered(w) == page[w].at # "idle"
Held(w) == page[w].at \in {"direct", "results"} /\ \E v \in page[w].vols : mount[v] = "stale"

(* "one dead NAS must not hang the page" (_django/volumes.py:13): a request  *)
(* that is never answered is one that hangs for ever in a call it makes      *)
(* itself on a mount that stays stale.  No probe and no walk holds it up.    *)
OnlyDirectCallsHang == \A w \in Workers : <>[]Unanswered(w) => <>[]Held(w)
=============================================================================
