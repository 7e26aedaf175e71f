------------------------------ MODULE PlanSweep -----------------------------
(***************************************************************************)
(* plan_sweep (_transfer/_sweep.py) on top of scan (_measure/_scan.py):    *)
(* each child of a directory is measured by two searches of fd and an      *)
(* lstat of everything they list, while files are written and removed;     *)
(* then one reading of the clock decides which children are old enough to  *)
(* be swept.                                                               *)
(***************************************************************************)
EXTENDS Integers, FiniteSets, FiniteSetsExt

CONSTANTS
  Children,   \* how many subdirectories the directory has; scan sorts them by name
  Nodes,      \* names beneath them
  ChildOf,    \* the child that each is in
  DeepNodes,  \* those in a subdirectory of the child, which may be unreadable
  MinFiles,   \* threshold_files
  MinAge,     \* min_age_seconds
  MaxClock,   \* bound: the clock
  MaxStirs    \* bound: what is written, made and removed

ASSUME PlanSweepAssumption ==
  /\ Children \in Nat \ {0} /\ ChildOf \in [Nodes -> 1..Children] /\ DeepNodes \subseteq Nodes
  /\ IsFiniteSet(Nodes) /\ MinFiles \in Nat /\ MinAge \in Nat /\ MaxClock \in Nat /\ MaxStirs \in Nat

VARIABLES
  clock,
  is, mtime,   \* what each name is, and when that was last modified
  dirTime,     \* the modification time of each child itself
  walk,        \* the command: what it does next, on which child, what it has found
  stirs,
  stirred,     \* history: changed since its child's walk began, and not looked at since
  blind        \* history: not shown because its directory could not be read

planVars == <<clock, is, mtime, dirTime, walk, stirs, stirred, blind>>

(* A regular file; a symlink to one, or to nothing; a symlink to a directory. *)
NodeKinds == {"file", "link", "dirlink", "gone"}
Inside(c) == {n \in Nodes : ChildOf[n] = c}
NoWalk    == [at |-> "start", child |-> 1, listed |-> {}, count |-> 0, newest |-> -1,
              measured |-> <<>>, now |-> 0, offers |-> {}, fresh |-> {}]

PlanTypes ==
  /\ clock \in 0..MaxClock /\ stirs \in 0..MaxStirs
  /\ is \in [Nodes -> NodeKinds] /\ mtime \in [Nodes -> 0..clock] /\ dirTime \in [1..Children -> 0..clock]
  /\ walk.at \in {"start", "files", "stat", "readlink", "plan", "answered", "failed"}
  /\ walk.child \in 1..Children + 1 /\ walk.listed \subseteq Inside(walk.child)
  /\ walk.count \in Nat /\ walk.newest \in -1..clock
  /\ DOMAIN walk.measured = 1..walk.child - 1
  /\ walk.offers \cup walk.fresh \subseteq 1..Children /\ walk.offers \cap walk.fresh = {}
  /\ stirred \cup blind \subseteq Nodes

PlanInit ==
  /\ clock = 0 /\ is \in [Nodes -> NodeKinds] /\ mtime = [n \in Nodes |-> 0]
  /\ dirTime = [c \in 1..Children |-> 0]
  /\ walk = NoWalk /\ stirs = 0 /\ stirred = {} /\ blind = {}

-----------------------------------------------------------------------------
ClockTicks ==
  /\ clock < MaxClock /\ clock' = clock + 1
  /\ UNCHANGED <<is, mtime, dirTime, walk, stirs, stirred, blind>>

(* A name is written to, made, replaced or removed; what is made or removed *)
(* in the child's own directory changes its time as well.                  *)
Stir(n, kind) ==
  /\ stirs < MaxStirs /\ stirs' = stirs + 1
  /\ kind # is[n] \/ kind = "file"
  /\ is' = [is EXCEPT ![n] = kind]
  /\ mtime' = [mtime EXCEPT ![n] = clock]
  /\ dirTime' = IF kind # is[n] /\ n \notin DeepNodes
                THEN [dirTime EXCEPT ![ChildOf[n]] = clock] ELSE dirTime
  /\ stirred' = stirred \cup {n}
  /\ UNCHANGED <<clock, walk, blind>>

-----------------------------------------------------------------------------
(* scan: the directory is listed and its children taken one by one.  A path *)
(* that is missing, or no directory, ends the command; so does a search     *)
(* that fails.                                                              *)
StartWalk ==
  /\ walk.at = "start"
  /\ walk' = [walk EXCEPT !.at = "files"]
  /\ UNCHANGED <<clock, is, mtime, dirTime, stirs, stirred, blind>>

WalkFails ==
  /\ walk.at \in {"start", "files"} \/ (walk.at = "stat" /\ walk.listed = {})
  /\ walk' = [walk EXCEPT !.at = "failed"]
  /\ UNCHANGED <<clock, is, mtime, dirTime, stirs, stirred, blind>>

(* _fd_search: what fd cannot read it warns of, which counts as an error *)
(* that plan_sweep does not look at.                                     *)
Search(kinds, next) ==
  LET there == {n \in Inside(walk.child) : is[n] \in kinds} IN
  \E unreadable \in {{}, DeepNodes} :
    /\ walk' = [walk EXCEPT !.at = next, !.listed = there \ unreadable]
    /\ blind' = blind \cup (there \cap unreadable)

SearchFiles ==
  /\ walk.at = "files"
  /\ Search({"file"}, "stat")
  /\ stirred' = stirred \ Inside(walk.child)
  /\ UNCHANGED <<clock, is, mtime, dirTime, stirs>>

SearchLinks ==
  /\ walk.at = "stat" /\ walk.listed = {}
  /\ Search({"link", "dirlink"}, "readlink")
  /\ UNCHANGED <<clock, is, mtime, dirTime, stirs, stirred>>

Seen1(n) ==
  walk' = [walk EXCEPT !.listed = @ \ {n}, !.count = @ + 1,
                       !.newest = IF mtime[n] > @ THEN mtime[n] ELSE @]
Skipped(n) == walk' = [walk EXCEPT !.listed = @ \ {n}]

(* lstat of what a search listed: what is gone is one more error, and a *)
(* symlink to a directory is no file of the child.                      *)
StatNode(n) ==
  /\ walk.at \in {"stat", "readlink"} /\ n \in walk.listed
  /\ IF is[n] = "gone" \/ (walk.at = "readlink" /\ is[n] = "dirlink") THEN Skipped(n) ELSE Seen1(n)
  /\ stirred' = stirred \ {n}
  /\ UNCHANGED <<clock, is, mtime, dirTime, stirs, blind>>

(* Fault: the child's own time stands for those of its files. *)
MeasuredByDirectory ==
  /\ walk.at = "readlink" /\ walk.listed = {}
  /\ walk' = [walk EXCEPT !.at = IF walk.child = Children THEN "plan" ELSE "files",
       !.child = @ + 1, !.count = 0, !.newest = -1,
       !.measured = [c \in 1..walk.child |->
         IF c = walk.child THEN [files |-> walk.count, newest |-> dirTime[c]] ELSE @[c]]]
  /\ UNCHANGED <<clock, is, mtime, dirTime, stirs, stirred, blind>>

(* The child is measured; one without files is as old as itself. *)
MeasuredChild ==
  /\ walk.at = "readlink" /\ walk.listed = {}
  /\ walk' = [walk EXCEPT !.at = IF walk.child = Children THEN "plan" ELSE "files",
       !.child = @ + 1, !.count = 0, !.newest = -1,
       !.measured = [c \in 1..walk.child |->
         IF c # walk.child THEN @[c]
         ELSE [files |-> walk.count, newest |-> IF walk.newest = -1 THEN dirTime[c] ELSE walk.newest]]]
  /\ UNCHANGED <<clock, is, mtime, dirTime, stirs, stirred, blind>>

(* plan_sweep: the clock is read once, after all. *)
MakePlan ==
  LET many == {c \in 1..Children : walk.measured[c].files >= MinFiles}
      old  == {c \in 1..Children : clock - walk.measured[c].newest >= MinAge}
  IN
  /\ walk.at = "plan"
  /\ walk' = [walk EXCEPT !.at = "answered", !.now = clock, !.offers = many \cap old, !.fresh = many \ old]
  /\ UNCHANGED <<clock, is, mtime, dirTime, stirs, stirred, blind>>

PlanNext ==
  \/ StartWalk \/ WalkFails \/ SearchFiles \/ SearchLinks \/ MeasuredChild \/ MakePlan
  \/ \E n \in Nodes : StatNode(n)
  \/ /\ walk.at \notin {"answered", "failed"}
     /\ ClockTicks \/ \E n \in Nodes, kind \in NodeKinds : Stir(n, kind)

PlanSpec == PlanInit /\ [][PlanNext]_planVars

-----------------------------------------------------------------------------
(* A directory is offered for the sweep only if everything in it had been    *)
(* left alone for the minimum age, whatever the order of two searches, the   *)
(* looks at each file and the single look at the clock                       *)
(* (_transfer/_sweep.py:27).  What it cannot vouch for is a name that        *)
(* changed after the walk had looked at it, or should have, and a            *)
(* subdirectory that could not be read: scan counts these errors, and        *)
(* plan_sweep does not look at the count.                                    *)
OfferedIsLeftAlone ==
  \A c \in walk.offers : \A n \in Inside(c) :
    is[n] \in {"file", "link"} /\ n \notin stirred \cup blind => walk.now - mtime[n] >= MinAge
=============================================================================
