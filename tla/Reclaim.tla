------------------------------- MODULE Reclaim ------------------------------
(***************************************************************************)
(* `reclaim` and `reclaim-restore` (_transfer/_reclaim.py): move paths     *)
(* aside into an archive, record where they came from, and move them back. *)
(* A move is one rename on one filesystem; to another filesystem it is     *)
(* shutil.move, a copy and then a removal.  Commands run side by side, and *)
(* the owner puts new things where old ones were.                          *)
(***************************************************************************)
EXTENDS Integers, Sequences, FiniteSets, SequencesExt

CONSTANTS
  Reclaimers, Restorers,  \* processes running each command
  Originals,              \* the places that get reclaimed: [dir, run |-> 0, name]
  Items, DirItems,        \* files and directories there are; those that are directories
  Roots, Adjacent,        \* archive roots, Adjacent being `.old` beside the source
  FarRoots,               \* the roots on another filesystem
  MaxRuns, MaxPaths,      \* bounds: reclaim runs, paths per run
  SameNames               \* TRUE: one run may be given two paths of one name

Runs  == 1..MaxRuns
Dirs  == {o.dir : o \in Originals} \cup Roots
Names == {o.name : o \in Originals}
Places == Originals \cup [dir : Dirs, run : Runs, name : Names]
Plans == BoundedSeq(Originals, MaxPaths)

ASSUME OriginalsAssumption ==
  Originals # {} /\ \A o \in Originals : DOMAIN o = {"dir", "run", "name"} /\ o.run = 0
ASSUME ItemsAssumption == DirItems \subseteq Items
ASSUME RootsAssumption == Adjacent \in Roots /\ FarRoots \subseteq Roots \ {Adjacent}
ASSUME ReclaimBounds   == MaxRuns \in Nat /\ MaxPaths \in Nat \ {0} /\ SameNames \in BOOLEAN

VARIABLES
  whole, part,       \* the items a place holds, intact and in part
  manifest,          \* each run's manifest file
  runs,              \* run ids handed out: a timestamp with microseconds
  pc, mode,          \* each process: where it is, in which command
  run, plan, root,   \* the run it works on, its paths, its archive root
  k,                 \* the entry it has come to
  disturbed,         \* processes whose places somebody else has changed while they move an entry
  took,              \* history: took[r][i] is what run r moved from its i-th path
  laid               \* history: the items a move put in an archive place whole, undisturbed, and
                     \* that no restore has put back since

disk  == <<whole, part, manifest>>
local == <<pc, mode, run, plan, root, k>>
past  == <<took, laid>>
vars  == <<disk, runs, local, disturbed, past>>

Procs == Reclaimers \cup Restorers
Steps == {"idle", "move", "copy", "delete", "next", "record", "recording", "check"}
Moving == {"move", "copy", "delete"}
NoManifest == [state |-> "none", plan |-> <<>>, root |-> Adjacent, restored |-> FALSE]
Manifests  ==
  [state : {"none", "torn", "whole"}, plan : Plans, root : Roots, restored : BOOLEAN]

TypeOK ==
  /\ whole \in [Places -> SUBSET Items] /\ part \in [Places -> SUBSET Items]
  /\ manifest \in [Runs -> Manifests] /\ runs \in 0..MaxRuns
  /\ pc \in [Procs -> Steps] /\ mode \in [Procs -> {"reclaim", "restore"}]
  /\ run \in [Procs -> 0..MaxRuns] /\ plan \in [Procs -> Plans]
  /\ root \in [Procs -> Roots] /\ k \in [Procs -> 1..MaxPaths]
  /\ \A p \in Procs : plan[p] # <<>> => k[p] \in DOMAIN plan[p]
  /\ took \in [Runs -> [1..MaxPaths -> SUBSET Items]]
  /\ laid \in [Places -> SUBSET Items]
  /\ disturbed \subseteq {p \in Procs : pc[p] \in Moving}

Init ==
  /\ \E first \in [Originals -> Items] :
       /\ IsInjective(first)
       /\ whole = [pl \in Places |-> IF pl \in Originals THEN {first[pl]} ELSE {}]
  /\ part = [pl \in Places |-> {}]
  /\ manifest = [r \in Runs |-> NoManifest] /\ runs = 0
  /\ pc = [p \in Procs |-> "idle"] /\ mode = [p \in Procs |-> "reclaim"]
  /\ run = [p \in Procs |-> 0] /\ plan = [p \in Procs |-> <<>>]
  /\ root = [p \in Procs |-> Adjacent] /\ k = [p \in Procs |-> 1]
  /\ took = [r \in Runs |-> [i \in 1..MaxPaths |-> {}]] /\ disturbed = {}
  /\ laid = [pl \in Places |-> {}]

-----------------------------------------------------------------------------
Goto(p, step) == pc' = [pc EXCEPT ![p] = step]
Leave(p) ==
  /\ Goto(p, "idle")
  /\ mode' = [mode EXCEPT ![p] = "reclaim"]
  /\ run' = [run EXCEPT ![p] = 0] /\ plan' = [plan EXCEPT ![p] = <<>>]
  /\ root' = [root EXCEPT ![p] = Adjacent] /\ k' = [k EXCEPT ![p] = 1]

Occupied(pl) == whole[pl] \cup part[pl] # {}
(* A directory there, into which shutil.move moves. *)
HoldsDir(pl) == (whole[pl] \cup part[pl]) \cap DirItems # {}

(* Fault: the archive place has no run_id layer. *)
ArchiveDestinationFlat(o, r, base) ==
  [o EXCEPT !.run = 1, !.dir = IF base = Adjacent THEN @ ELSE base]

(* _archive_destination: <source.parent>/.old/<run>/<name>, or               *)
(* <archive_root>/<run>/<name>.                                              *)
ArchiveDestination(o, r, base) ==
  [o EXCEPT !.run = r, !.dir = IF base = Adjacent THEN @ ELSE base]

Original(p) == plan[p][k[p]]
Archived(p) == ArchiveDestination(Original(p), run[p], root[p])
From(p) == IF mode[p] = "reclaim" THEN Original(p) ELSE Archived(p)
To(p)   == IF mode[p] = "reclaim" THEN Archived(p) ELSE Original(p)

Changed(pl) == whole'[pl] # whole[pl] \/ part'[pl] # part[pl]

(* A step of the actors disturbs the others who move an entry from or to a   *)
(* place that it changes, until their move of that entry is over.            *)
Disturbs(actors) ==
  disturbed' = {p \in Procs :
    /\ pc[p] \in Moving /\ pc'[p] \in Moving
    /\ p \in disturbed \/ (p \notin actors /\ (Changed(From(p)) \/ Changed(To(p))))}

-----------------------------------------------------------------------------
(* plan_reclaim: every path must exist; the run gets an id of its own. *)
PlanReclaim(p, paths, base) ==
  /\ pc[p] = "idle" /\ runs < MaxRuns /\ paths # <<>>
  /\ \A i \in DOMAIN paths : Occupied(paths[i])
  /\ SameNames \/ \A i, j \in DOMAIN paths : i # j => paths[i].name # paths[j].name
  /\ runs' = runs + 1
  /\ run' = [run EXCEPT ![p] = runs + 1]
  /\ plan' = [plan EXCEPT ![p] = paths] /\ root' = [root EXCEPT ![p] = base]
  /\ Goto(p, "move")
  /\ UNCHANGED <<disk, mode, k, past>>

(* history: what a reclaim moves, and the entry in place at the other end. *)
Takes(p) ==
  took' = IF mode[p] = "reclaim"
          THEN [took EXCEPT ![run[p]][k[p]] = whole[From(p)] \cup part[From(p)]]
          ELSE took

Settles(p) ==
  laid' = IF mode[p] = "restore"
          THEN [laid EXCEPT ![From(p)] = {}]
          ELSE [laid EXCEPT ![To(p)] = IF p \in disturbed THEN {} ELSE whole[From(p)]]

(* os.rename: a file silently replaces a file; with a directory on either    *)
(* side an occupied target is an error, and a missing source always is.      *)
Rename(p) ==
  LET from == From(p)
      to   == To(p)
  IN
  /\ pc[p] = "move" /\ root[p] \notin FarRoots
  /\ IF Occupied(from) /\ (Occupied(to) => ~HoldsDir(from) /\ ~HoldsDir(to))
     THEN /\ whole' = [whole EXCEPT ![to] = whole[from], ![from] = {}]
          /\ part' = [part EXCEPT ![to] = part[from], ![from] = {}]
          /\ Takes(p) /\ Settles(p)
          /\ Goto(p, "next")
          /\ UNCHANGED <<mode, run, plan, root, k>>
     ELSE Leave(p) /\ UNCHANGED <<whole, part, past>>
  /\ UNCHANGED <<manifest, runs>>

(* shutil.move across filesystems begins a copy, after check_space has not   *)
(* said no: over a file if the target is one, inside the target if that is a *)
(* directory, and it fails on a directory meeting a file.                    *)
StartCopy(p) ==
  LET from == From(p)
      to   == To(p)
  IN
  /\ pc[p] = "move" /\ root[p] \in FarRoots
  /\ IF Occupied(from) /\ ~(Occupied(to) /\ ~HoldsDir(to) /\ HoldsDir(from))
     THEN /\ whole' = [whole EXCEPT ![to] = IF HoldsDir(to) THEN @ ELSE {}]
          /\ part' = [part EXCEPT ![to] = IF HoldsDir(to)
                                          THEN @ \cup whole[from] \cup part[from]
                                          ELSE whole[from] \cup part[from]]
          /\ Takes(p)
          /\ Goto(p, "copy")
          /\ UNCHANGED <<mode, run, plan, root, k, laid>>
     ELSE Leave(p) /\ UNCHANGED <<whole, part, past>>
  /\ UNCHANGED <<manifest, runs>>

(* Fault: what the copy could not read is ignored. *)
FinishCopyAnyway(p) ==
  /\ pc[p] = "copy"
  /\ Goto(p, "delete") /\ Settles(p)
  /\ UNCHANGED <<disk, runs, mode, run, plan, root, k, took>>

(* The copy is complete, unless somebody changes its source or its target    *)
(* while it goes on.  Then it raises, or what is still there of the target   *)
(* is completed or not, depending on what had been read and written.         *)
FinishCopy(p) ==
  LET from == From(p)
      to   == To(p)
  IN
  /\ pc[p] = "copy"
  /\ \/ /\ \E copied \in IF p \in disturbed THEN SUBSET (whole[from] \cap part[to]) ELSE {whole[from]} :
             /\ whole' = [whole EXCEPT ![to] = @ \cup copied]
             /\ part' = [part EXCEPT ![to] = @ \ copied]
        /\ Goto(p, "delete") /\ Settles(p)
        /\ UNCHANGED <<mode, run, plan, root, k>>
     \/ p \in disturbed /\ Leave(p) /\ UNCHANGED <<whole, part, laid>>
  /\ UNCHANGED <<manifest, runs, took>>

(* The source goes: a directory entry by entry. *)
DeleteSome(p) ==
  LET from == From(p) IN
  /\ pc[p] = "delete" /\ HoldsDir(from)
  /\ whole' = [whole EXCEPT ![from] = {}]
  /\ part' = [part EXCEPT ![from] = @ \cup whole[from]]
  /\ UNCHANGED <<manifest, runs, local, past>>

DeleteSource(p) ==
  LET from == From(p) IN
  /\ pc[p] = "delete"
  /\ whole' = [whole EXCEPT ![from] = {}]
  /\ part' = [part EXCEPT ![from] = {}]
  /\ Goto(p, "next")
  /\ UNCHANGED <<manifest, runs, mode, run, plan, root, k, past>>

(* Fault: one entry too many. *)
NextEntryOffByOne(p) ==
  /\ pc[p] = "next"
  /\ IF k[p] <= Len(plan[p])
     THEN /\ k' = [k EXCEPT ![p] = @ + 1]
          /\ Goto(p, IF mode[p] = "reclaim" THEN "move" ELSE "check")
     ELSE Goto(p, "record") /\ UNCHANGED k
  /\ UNCHANGED <<disk, runs, mode, run, plan, root, past>>

(* The next entry, or the manifest after the last one. *)
NextEntry(p) ==
  /\ pc[p] = "next"
  /\ IF k[p] < Len(plan[p])
     THEN /\ k' = [k EXCEPT ![p] = @ + 1]
          /\ Goto(p, IF mode[p] = "reclaim" THEN "move" ELSE "check")
     ELSE Goto(p, "record") /\ UNCHANGED k
  /\ UNCHANGED <<disk, runs, mode, run, plan, root, past>>

(* _write_manifest: write_text truncates, then writes. *)
OpenManifest(p) ==
  /\ pc[p] = "record"
  /\ manifest' = [manifest EXCEPT ![run[p]] = [NoManifest EXCEPT !.state = "torn"]]
  /\ Goto(p, "recording")
  /\ UNCHANGED <<whole, part, runs, mode, run, plan, root, k, past>>

WriteManifest(p) ==
  /\ pc[p] = "recording"
  /\ manifest' = [manifest EXCEPT ![run[p]] =
       [state |-> "whole", plan |-> plan[p], root |-> root[p], restored |-> mode[p] = "restore"]]
  /\ Leave(p)
  /\ UNCHANGED <<whole, part, runs, past>>

-----------------------------------------------------------------------------
StartRestore(p, r) ==
  /\ pc[p] = "idle" /\ manifest[r].state = "whole"
  /\ mode' = [mode EXCEPT ![p] = "restore"]
  /\ run' = [run EXCEPT ![p] = r]
  /\ plan' = [plan EXCEPT ![p] = manifest[r].plan]
  /\ root' = [root EXCEPT ![p] = manifest[r].root]
  /\ Goto(p, "check")
  /\ UNCHANGED <<disk, runs, k, past>>

(* Fault: an entry that cannot be moved back is skipped. *)
CheckBackSkipping(p) ==
  /\ pc[p] = "check"
  /\ Goto(p, IF Occupied(Archived(p)) /\ ~Occupied(Original(p)) THEN "move" ELSE "next")
  /\ UNCHANGED <<disk, runs, mode, run, plan, root, k, past>>

(* An archived copy that is missing, or an original place that is taken,     *)
(* ends the restore.                                                         *)
CheckBack(p) ==
  /\ pc[p] = "check"
  /\ IF Occupied(Archived(p)) /\ ~Occupied(Original(p))
     THEN Goto(p, "move") /\ UNCHANGED <<mode, run, plan, root, k>>
     ELSE Leave(p)
  /\ UNCHANGED <<disk, runs, past>>

(* An OSError, a lack of space, or a kill, at any step. *)
Stop(p) ==
  /\ pc[p] # "idle"
  /\ Leave(p)
  /\ UNCHANGED <<disk, runs, past>>

(* The owner puts a new item where nothing is. *)
Create(o, i) ==
  /\ ~Occupied(o) /\ \A pl \in Places : i \notin whole[pl] \cup part[pl]
  /\ \A r \in Runs, n \in 1..MaxPaths : i \notin took[r][n]
  /\ whole' = [whole EXCEPT ![o] = {i}]
  /\ UNCHANGED <<part, manifest, runs, local, past>>

-----------------------------------------------------------------------------
MoveStep(p) ==
  \/ Rename(p) \/ StartCopy(p) \/ FinishCopy(p) \/ DeleteSome(p) \/ DeleteSource(p)
  \/ NextEntry(p) \/ OpenManifest(p) \/ WriteManifest(p) \/ Stop(p)

Next ==
  \/ \E p \in Reclaimers, paths \in Plans, base \in Roots : PlanReclaim(p, paths, base) /\ Disturbs({p})
  \/ \E p \in Restorers : (CheckBack(p) \/ \E r \in Runs : StartRestore(p, r)) /\ Disturbs({p})
  \/ \E p \in Procs : MoveStep(p) /\ Disturbs({p})
  \/ \E o \in Originals, i \in Items : Create(o, i) /\ Disturbs({})

Spec == Init /\ [][Next]_vars

(* Properties *)

(* "only ever moves, never unlinks user data": an item that is whole         *)
(* somewhere stays whole somewhere, over crashes in the middle of a copy or  *)
(* of a removal, failed moves and commands side by side; but for one place,  *)
(* that which a process moves an entry from or to, once somebody else has    *)
(* changed it after the process looked: the code takes no lock there.        *)
NothingUnlinked ==
  [][\A i \in Items : \A pl \in Places :
       i \in whole[pl] =>
         \/ \E there \in Places : i \in whole'[there]
         \/ \E p \in disturbed : pl \in {From(p), To(p)}]_vars

(* The step of a restore that puts an entry in place, a rename or the end of *)
(* a copy, leaves at the original place what its run moved away from there,  *)
(* whatever other runs moved away from the same place before or since, if    *)
(* nobody else uses the place while the entry is moved; and every item that  *)
(* was whole when the run moved it is whole again, unless an earlier restore *)
(* of the entry had put it back and was stopped before all of the archive's  *)
(* copy was removed: a second one then puts back the remnant.                *)
RestoreReturnsWhatWasTaken ==
  [][\A p \in Procs :
       p \notin disturbed /\ mode[p] = "restore" /\ pc[p] \in {"move", "copy"} /\ pc'[p] \in {"next", "delete"}
       => /\ whole'[Original(p)] \cup part'[Original(p)] = took[run[p]][k[p]]
          /\ laid[Archived(p)] \subseteq whole'[Original(p)]]_vars

(* A manifest is the record of a run that moved everything it was given, and *)
(* says restored only when nothing of it is left in the archive: the restore *)
(* rate counts what it says it counts.                                       *)
ManifestIsPrecise ==
  \A r \in Runs : manifest[r].state = "whole" =>
    \A n \in DOMAIN manifest[r].plan :
      LET there == ArchiveDestination(manifest[r].plan[n], r, manifest[r].root) IN
      /\ took[r][n] # {}
      /\ manifest[r].restored => ~Occupied(there)

=============================================================================
