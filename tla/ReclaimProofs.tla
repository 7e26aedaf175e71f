----------------------------- MODULE ReclaimProofs --------------------------
(***************************************************************************)
(* reclaim only ever moves, for any number of places, items, archive roots *)
(* and runs, with commands side by side that are killed anywhere, and an   *)
(* owner who fills places again.                                           *)
(***************************************************************************)
EXTENDS Reclaim, TLAPS

Live(p)       == pc[p] # "idle"
Contents(pl)  == whole[pl] \cup part[pl]
Archives      == Places \ Originals
USE DEF past
ThereOf(p, n) == ArchiveDestination(plan[p][n], run[p], root[p])

-----------------------------------------------------------------------------
(* Types, and who works on what.  A run is reclaimed by one process, which   *)
(* alone knows its number until the manifest is whole.                       *)
Working ==
  \A p \in Procs :
    /\ Live(p) => run[p] \in 1..runs /\ plan[p] # <<>>
    /\ ~Live(p) => k[p] = 1 /\ mode[p] = "reclaim" /\ plan[p] = <<>>
    /\ pc[p] \in {"record", "recording"} => k[p] = Len(plan[p])
    /\ pc[p] = "check" => mode[p] = "restore"

Separate ==
  /\ \A r \in Runs : manifest[r].state = "whole" => r <= runs /\ manifest[r].plan # <<>>
  /\ \A p \in Procs : Live(p) /\ mode[p] = "reclaim" =>
       /\ manifest[run[p]].state # "whole"
       /\ \A q \in Procs \ {p} : Live(q) => run[q] # run[p]

Shaped == TypeOK /\ Working /\ Separate

LEMMA PlansAreSequences ==
  \A paths \in Plans : /\ paths \in Seq(Originals) /\ Len(paths) \in 0..MaxPaths
                       /\ DOMAIN paths = 1..Len(paths)
                       /\ \A n \in DOMAIN paths : paths[n] \in Originals
                       /\ paths # <<>> => 1 \in DOMAIN paths
<1> SUFFICES ASSUME NEW m \in 0..MaxPaths, NEW paths \in [1..m -> Originals]
             PROVE  /\ paths \in Seq(Originals) /\ Len(paths) \in 0..MaxPaths
                    /\ DOMAIN paths = 1..Len(paths)
                    /\ \A n \in DOMAIN paths : paths[n] \in Originals
                    /\ paths # <<>> => 1 \in DOMAIN paths
  BY DEF Plans, BoundedSeq, SeqOf
<1>1. m \in Nat /\ paths \in Seq(Originals)
  BY ReclaimBounds
<1>2. Len(paths) = m
  BY <1>1
<1> QED
  BY <1>1, <1>2

LEMMA NothingIsAPlan == <<>> \in Plans
<1>1. <<>> \in [1..0 -> Originals] /\ 0 \in 0..MaxPaths
  BY ReclaimBounds
<1> QED
  BY <1>1 DEF Plans, BoundedSeq, SeqOf

(* Where an entry goes: to a place of its own name in its run's archive. *)
LEMMA ArchivePlaces ==
  ASSUME NEW o \in Originals, NEW r \in Runs, NEW base \in Roots
  PROVE  LET there == ArchiveDestination(o, r, base) IN
         /\ there \in Archives /\ there.run = r /\ there.name = o.name
<1> DEFINE there == ArchiveDestination(o, r, base)
<1>1. DOMAIN o = {"dir", "run", "name"} /\ o.run = 0
  BY OriginalsAssumption
<1>2. o.dir \in Dirs /\ base \in Dirs /\ o.name \in Names
  BY DEF Dirs, Names
<1>3. there.run = r /\ there.name = o.name /\ there.dir \in Dirs
  BY <1>1, <1>2 DEF ArchiveDestination
<1>4. there = [dir |-> there.dir, run |-> r, name |-> o.name]
  <2>1. there = [x \in {"dir", "run", "name"} |-> there[x]]
    BY <1>1 DEF ArchiveDestination
  <2> QED
    BY <2>1, <1>3
<1>5. there \in Places
  BY <1>2, <1>3, <1>4 DEF Places
<1>6. r # 0
  BY ReclaimBounds DEF Runs
<1>7. there \notin Originals
  BY <1>3, <1>6, OriginalsAssumption
<1> QED
  BY <1>3, <1>5, <1>7 DEF Archives

(* The two ends of a move. *)
LEMMA Ends ==
  ASSUME Shaped, NEW p \in Procs, Live(p)
  PROVE  /\ run[p] \in Runs /\ root[p] \in Roots /\ k[p] \in DOMAIN plan[p] /\ k[p] \in 1..MaxPaths
         /\ Original(p) \in Originals /\ Original(p) \in Places
         /\ Archived(p) \in Archives /\ Archived(p).run = run[p]
         /\ From(p) \in Places /\ To(p) \in Places /\ From(p) # To(p)
         /\ \A n \in DOMAIN plan[p] :
              /\ n \in 1..MaxPaths /\ plan[p][n] \in Originals
              /\ ThereOf(p, n) \in Archives /\ ThereOf(p, n).run = run[p]
              /\ ThereOf(p, n).name = plan[p][n].name
<1>1. run[p] \in Runs /\ root[p] \in Roots /\ plan[p] \in Plans
  BY ReclaimBounds DEF Shaped, TypeOK, Working, Runs
<1>2. k[p] \in DOMAIN plan[p]
  BY DEF Shaped, TypeOK, Working
<1>3. \A n \in DOMAIN plan[p] : n \in 1..MaxPaths /\ plan[p][n] \in Originals
  BY <1>1, PlansAreSequences, ReclaimBounds
<1>4. \A n \in DOMAIN plan[p] :
        /\ ThereOf(p, n) \in Archives /\ ThereOf(p, n).run = run[p]
        /\ ThereOf(p, n).name = plan[p][n].name
  BY <1>1, <1>3, ArchivePlaces DEF ThereOf
<1>5. Archived(p) = ThereOf(p, k[p]) /\ Original(p) = plan[p][k[p]]
  BY DEF Archived, ThereOf, Original
<1>6. Originals \subseteq Places /\ Archives \subseteq Places
  BY DEF Places, Archives
<1>7. Original(p) # Archived(p)
  BY <1>2, <1>3, <1>4, <1>5 DEF Archives
<1> QED
  BY <1>1, <1>2, <1>3, <1>4, <1>5, <1>6, <1>7 DEF From, To

-----------------------------------------------------------------------------
(* What a step of one process leaves alone. *)
OthersStay(p) ==
  \A q \in Procs \ {p} : /\ pc'[q] = pc[q] /\ mode'[q] = mode[q] /\ run'[q] = run[q]
                         /\ plan'[q] = plan[q] /\ root'[q] = root[q] /\ k'[q] = k[q]

(* It works on the same entry. *)
SameEntry(p) ==
  mode'[p] = mode[p] /\ run'[p] = run[p] /\ plan'[p] = plan[p] /\ root'[p] = root[p] /\ k'[p] = k[p]

LocalTypes ==
  /\ pc \in [Procs -> Steps] /\ mode \in [Procs -> {"reclaim", "restore"}]
  /\ run \in [Procs -> 0..MaxRuns] /\ plan \in [Procs -> Plans]
  /\ root \in [Procs -> Roots] /\ k \in [Procs -> 1..MaxPaths]
  /\ \A p \in Procs : plan[p] # <<>> => k[p] \in DOMAIN plan[p]

DiskTypes ==
  /\ whole \in [Places -> SUBSET Items] /\ part \in [Places -> SUBSET Items]
  /\ took \in [Runs -> [1..MaxPaths -> SUBSET Items]] /\ laid \in [Places -> SUBSET Items]

RecordTypes == manifest \in [Runs -> Manifests] /\ runs \in 0..MaxRuns

LEMMA LeaveShapes ==
  ASSUME Shaped, NEW p \in Procs, Leave(p)
  PROVE  /\ LocalTypes' /\ OthersStay(p) /\ pc'[p] = "idle"
         /\ k'[p] = 1 /\ mode'[p] = "reclaim" /\ plan'[p] = <<>>
<1>1. Adjacent \in Roots /\ 0 \in 0..MaxRuns /\ 1 \in 1..MaxPaths
  BY RootsAssumption, ReclaimBounds
<1> QED
  BY <1>1, NothingIsAPlan DEF Shaped, TypeOK, LocalTypes, Leave, Goto, OthersStay, Steps

(* A step that goes on with the same entry. *)
LEMMA GoesOn ==
  ASSUME Shaped, NEW p \in Procs, NEW step \in Steps \ {"idle", "check", "record"}, Goto(p, step),
         UNCHANGED <<mode, run, plan, root, k>>
  PROVE  LocalTypes' /\ OthersStay(p) /\ SameEntry(p) /\ pc'[p] = step
BY DEF Shaped, TypeOK, LocalTypes, Goto, OthersStay, SameEntry

(* Whoever stops, or goes on with the same entry, keeps the shape, if it     *)
(* leaves the manifests alone.                                               *)
LEMMA StaysShaped ==
  ASSUME Shaped, NEW p \in Procs, LocalTypes', DiskTypes', UNCHANGED <<manifest, runs>>, Disturbs({p}),
         OthersStay(p),
         \/ pc'[p] = "idle" /\ k'[p] = 1 /\ mode'[p] = "reclaim" /\ plan'[p] = <<>>
         \/ Live(p) /\ SameEntry(p) /\ pc'[p] \notin {"idle", "check", "record", "recording"}
  PROVE  Shaped'
<1>1. disturbed' \subseteq {q \in Procs : pc'[q] \in Moving}
  BY DEF Disturbs
<1>2. TypeOK'
  BY <1>1 DEF Shaped, TypeOK, LocalTypes, DiskTypes
<1>3. Working'
  BY DEF Shaped, Working, OthersStay, SameEntry, Live
<1>4. Separate'
  BY DEF Shaped, Separate, OthersStay, SameEntry, Live
<1> QED
  BY <1>2, <1>3, <1>4 DEF Shaped

-----------------------------------------------------------------------------
(* The steps that change the disk, and those of p that do not. *)
Renames(p)  == Rename(p) /\ pc'[p] = "next"
Copies(p)   == StartCopy(p) /\ pc'[p] = "copy"
Finishes(p) == FinishCopy(p) /\ pc'[p] = "delete"
Carries(p)  == Renames(p) \/ Copies(p) \/ Finishes(p) \/ DeleteSome(p) \/ DeleteSource(p)
Gives(p)    == (Rename(p) \/ StartCopy(p) \/ FinishCopy(p)) /\ Leave(p) /\ UNCHANGED <<whole, part, took, laid>>

LEMMA CarryOrGiveUp ==
  ASSUME Shaped, NEW p \in Procs, Rename(p) \/ StartCopy(p) \/ FinishCopy(p)
  PROVE  \/ Gives(p)
         \/ Renames(p) \/ Copies(p) \/ Finishes(p)
BY DEF Shaped, TypeOK, Rename, StartCopy, FinishCopy, Gives, Renames, Copies, Finishes, Goto, Leave

(* What a step that carries something does with everything but the disk. *)
LEMMA CarriesOn ==
  ASSUME Shaped, NEW p \in Procs, Carries(p)
  PROVE  /\ Live(p) /\ LocalTypes' /\ OthersStay(p) /\ SameEntry(p)
         /\ pc'[p] \in {"copy", "delete", "next"}
         /\ UNCHANGED <<manifest, runs>>
<1>1. CASE Renames(p)
  <2>1. Goto(p, "next") /\ UNCHANGED <<mode, run, plan, root, k, manifest, runs>> /\ Live(p)
    BY <1>1 DEF Renames, Rename, Leave, Goto, Shaped, TypeOK, Live
  <2> QED
    BY <2>1, GoesOn DEF Steps
<1>2. CASE Copies(p)
  <2>1. Goto(p, "copy") /\ UNCHANGED <<mode, run, plan, root, k, manifest, runs>> /\ Live(p)
    BY <1>2 DEF Copies, StartCopy, Leave, Goto, Shaped, TypeOK, Live
  <2> QED
    BY <2>1, GoesOn DEF Steps
<1>3. CASE Finishes(p)
  <2>1. Goto(p, "delete") /\ UNCHANGED <<mode, run, plan, root, k, manifest, runs>> /\ Live(p)
    BY <1>3 DEF Finishes, FinishCopy, Leave, Goto, Shaped, TypeOK, Live
  <2> QED
    BY <2>1, GoesOn DEF Steps
<1>4. CASE DeleteSource(p)
  <2>1. Goto(p, "next") /\ UNCHANGED <<mode, run, plan, root, k, manifest, runs>> /\ Live(p)
    BY <1>4 DEF DeleteSource, Goto, Live
  <2> QED
    BY <2>1, GoesOn DEF Steps
<1>5. CASE DeleteSome(p)
  BY <1>5 DEF DeleteSome, local, Shaped, TypeOK, LocalTypes, OthersStay, SameEntry, Live
<1> QED
  BY <1>1, <1>2, <1>3, <1>4, <1>5 DEF Carries

(* What it does to the places, and to what its run is known to have moved. *)
LEMMA CarriesWhat ==
  ASSUME Shaped, NEW p \in Procs, Carries(p)
  PROVE  /\ DiskTypes'
         /\ \A pl \in Places : pl \notin {From(p), To(p)} => whole'[pl] = whole[pl] /\ part'[pl] = part[pl]
         /\ took' = took \/ Takes(p)
         /\ laid' = laid \/ Settles(p)
<1>1. Live(p)
  BY CarriesOn
<1>2. /\ run[p] \in Runs /\ k[p] \in 1..MaxPaths
      /\ From(p) \in Places /\ To(p) \in Places /\ From(p) # To(p)
  BY <1>1, Ends
<1> DEFINE W == whole[From(p)]  P == part[From(p)]
<1>3. whole \in [Places -> SUBSET Items] /\ part \in [Places -> SUBSET Items]
      /\ took \in [Runs -> [1..MaxPaths -> SUBSET Items]] /\ laid \in [Places -> SUBSET Items]
  BY DEF Shaped, TypeOK
<1>4. /\ Takes(p) => took' \in [Runs -> [1..MaxPaths -> SUBSET Items]]
      /\ Settles(p) => laid' \in [Places -> SUBSET Items]
  <2>1. Takes(p) => took' \in [Runs -> [1..MaxPaths -> SUBSET Items]]
    BY <1>2, <1>3 DEF Takes
  <2>2. ASSUME Settles(p) PROVE laid' \in [Places -> SUBSET Items]
    <3>1. PICK pl \in Places, there \in SUBSET Items : laid' = [laid EXCEPT ![pl] = there]
      BY <1>2, <1>3, <2>2 DEF Settles
    <3> QED
      BY <1>3, <3>1
  <2> QED
    BY <2>1, <2>2
<1>5. CASE Renames(p)
  <2>1. /\ whole' = [whole EXCEPT ![To(p)] = W, ![From(p)] = {}]
        /\ part' = [part EXCEPT ![To(p)] = P, ![From(p)] = {}] /\ Takes(p) /\ Settles(p)
    BY <1>5 DEF Renames, Rename, Leave, Goto, Shaped, TypeOK
  <2> QED
    BY <2>1, <1>2, <1>3, <1>4 DEF DiskTypes
<1>6. CASE Copies(p)
  <2>1. /\ whole' = [whole EXCEPT ![To(p)] = IF HoldsDir(To(p)) THEN @ ELSE {}]
        /\ part' = [part EXCEPT ![To(p)] = IF HoldsDir(To(p)) THEN @ \cup W \cup P ELSE W \cup P]
        /\ Takes(p) /\ laid' = laid
    BY <1>6 DEF Copies, StartCopy, Leave, Goto, Shaped, TypeOK
  <2> QED
    BY <2>1, <1>2, <1>3, <1>4 DEF DiskTypes
<1>7. CASE Finishes(p)
  <2>1. PICK copied \in SUBSET Items :
          /\ whole' = [whole EXCEPT ![To(p)] = @ \cup copied]
          /\ part' = [part EXCEPT ![To(p)] = @ \ copied]
          /\ took' = took /\ Settles(p)
    <3>1. PICK copied \in IF p \in disturbed THEN SUBSET (W \cap part[To(p)]) ELSE {W} :
            /\ whole' = [whole EXCEPT ![To(p)] = @ \cup copied]
            /\ part' = [part EXCEPT ![To(p)] = @ \ copied]
      BY <1>7 DEF Finishes, FinishCopy, Leave, Goto, Shaped, TypeOK
    <3>2. copied \subseteq Items
      BY <1>2, <1>3, <3>1
    <3>3. took' = took /\ Settles(p)
      BY <1>7 DEF Finishes, FinishCopy, Leave, Goto, Shaped, TypeOK
    <3> QED
      BY <3>1, <3>2, <3>3
  <2>2. whole' \in [Places -> SUBSET Items] /\ part' \in [Places -> SUBSET Items]
    BY <2>1, <1>2, <1>3
  <2>3. \A pl \in Places : pl \notin {From(p), To(p)} => whole'[pl] = whole[pl] /\ part'[pl] = part[pl]
    BY <2>1, <1>2, <1>3
  <2> QED
    BY <2>1, <2>2, <2>3, <1>3, <1>4 DEF DiskTypes
<1>8. CASE DeleteSome(p) \/ DeleteSource(p)
  BY <1>2, <1>3, <1>8 DEF DeleteSome, DeleteSource, DiskTypes
<1> QED
  BY <1>5, <1>6, <1>7, <1>8 DEF Carries

-----------------------------------------------------------------------------
LEMMA InitShaped == Init => Shaped
<1> SUFFICES ASSUME Init PROVE Shaped
  OBVIOUS
<1>1. NoManifest \in Manifests /\ NoManifest.state = "none"
  BY NothingIsAPlan, RootsAssumption DEF NoManifest, Manifests
<1>2. 1 \in 1..MaxPaths /\ 0 \in 0..MaxRuns
  BY ReclaimBounds
<1>3. whole \in [Places -> SUBSET Items]
  BY DEF Init
<1>4. TypeOK
  BY <1>1, <1>2, <1>3, NothingIsAPlan, RootsAssumption DEF Init, TypeOK, Steps
<1> QED
  BY <1>1, <1>4 DEF Shaped, Working, Separate, Init, Live

LEMMA ReclaimPlansShaped ==
  ASSUME Shaped, NEW p \in Procs, NEW paths \in Plans, NEW base \in Roots,
         PlanReclaim(p, paths, base), Disturbs({p})
  PROVE  Shaped'
<1>1. pc[p] = "idle" /\ runs < MaxRuns /\ runs \in 0..MaxRuns /\ paths # <<>>
  BY DEF PlanReclaim, Shaped, TypeOK
<1>2. runs' = runs + 1 /\ runs' \in 1..MaxRuns /\ k[p] = 1 /\ mode[p] = "reclaim"
  BY <1>1, ReclaimBounds DEF PlanReclaim, Shaped, Working, Live
<1>3. /\ OthersStay(p) /\ pc'[p] = "move" /\ run'[p] = runs + 1 /\ plan'[p] = paths /\ k'[p] = 1
      /\ mode'[p] = "reclaim" /\ UNCHANGED <<whole, part, manifest, took, laid>>
  BY <1>2 DEF PlanReclaim, OthersStay, Goto, Shaped, TypeOK, disk
<1>4. TypeOK'
  <2>1. LocalTypes'
    BY <1>1, <1>2, PlansAreSequences DEF PlanReclaim, Goto, Shaped, TypeOK, LocalTypes, Steps
  <2>2. disturbed' \subseteq {q \in Procs : pc'[q] \in Moving}
    BY DEF Disturbs
  <2> QED
    BY <1>2, <1>3, <2>1, <2>2 DEF LocalTypes, Shaped, TypeOK
<1>5. Working'
  BY <1>1, <1>2, <1>3 DEF Shaped, TypeOK, Working, OthersStay, Live
<1>6. Separate'
  <2>1. \A r \in Runs : manifest[r].state = "whole" => r < runs + 1
    BY <1>1 DEF Shaped, Separate, Runs
  <2>2. \A q \in Procs : Live(q) => run[q] < runs + 1
    BY <1>1 DEF Shaped, Working
  <2>3. runs + 1 \in Runs
    BY <1>2 DEF Runs
  <2> QED
    BY <1>1, <1>2, <1>3, <2>1, <2>2, <2>3 DEF Shaped, Separate, OthersStay, Live, Runs
<1> QED
  BY <1>4, <1>5, <1>6 DEF Shaped

LEMMA RestoreShaped ==
  ASSUME Shaped, NEW p \in Procs, Disturbs({p}), CheckBack(p) \/ \E r \in Runs : StartRestore(p, r)
  PROVE  Shaped'
<1>0. disturbed' \subseteq {q \in Procs : pc'[q] \in Moving}
  BY DEF Disturbs
<1>1. CASE CheckBack(p)
  <2>0. Live(p) /\ UNCHANGED <<whole, part, manifest, runs, took, laid>> /\ DiskTypes'
    BY <1>1 DEF CheckBack, Live, disk, Shaped, TypeOK, DiskTypes
  <2>1. CASE Goto(p, "move") /\ UNCHANGED <<mode, run, plan, root, k>>
    BY <2>0, <2>1, GoesOn, StaysShaped DEF Steps
  <2>2. CASE Leave(p)
    BY <2>0, <2>2, LeaveShapes, StaysShaped
  <2> QED
    BY <1>1, <2>1, <2>2 DEF CheckBack
<1>2. CASE \E r \in Runs : StartRestore(p, r)
  <2> PICK r \in Runs : StartRestore(p, r)
    BY <1>2
  <2>1. /\ pc[p] = "idle" /\ k[p] = 1 /\ manifest[r].state = "whole" /\ r <= runs
        /\ manifest[r].plan # <<>> /\ manifest[r] \in Manifests
    BY DEF StartRestore, Shaped, TypeOK, Working, Separate, Live
  <2>2. manifest[r].plan \in Plans /\ manifest[r].root \in Roots /\ 1 \in DOMAIN manifest[r].plan
    BY <2>1, PlansAreSequences DEF Manifests
  <2>3. /\ OthersStay(p) /\ pc'[p] = "check" /\ run'[p] = r /\ plan'[p] = manifest[r].plan /\ k'[p] = 1
        /\ mode'[p] = "restore" /\ UNCHANGED <<whole, part, manifest, runs, took, laid>>
    BY <2>1 DEF StartRestore, OthersStay, Goto, Shaped, TypeOK, disk
  <2>4. r \in 1..runs /\ r \in 0..MaxRuns
    BY <2>1, ReclaimBounds DEF Runs, Shaped, TypeOK
  <2>5. LocalTypes'
    BY <2>1, <2>2, <2>4 DEF StartRestore, Goto, Shaped, TypeOK, LocalTypes, Steps
  <2>6. TypeOK'
    BY <1>0, <2>3, <2>5 DEF LocalTypes, Shaped, TypeOK
  <2>7. Working'
    BY <2>1, <2>3, <2>4 DEF Shaped, Working, OthersStay, Live
  <2>8. Separate'
    BY <2>1, <2>3 DEF Shaped, Separate, OthersStay, Live
  <2> QED
    BY <2>6, <2>7, <2>8 DEF Shaped
<1> QED
  BY <1>1, <1>2

LEMMA MoveShaped ==
  ASSUME Shaped, NEW p \in Procs, MoveStep(p), Disturbs({p})
  PROVE  Shaped'
<1>0. /\ disturbed' \subseteq {q \in Procs : pc'[q] \in Moving}
      /\ UNCHANGED <<whole, part, took, laid>> => DiskTypes'
  BY DEF Disturbs, Shaped, TypeOK, DiskTypes
<1>1. CASE Carries(p)
  BY <1>1, CarriesOn, CarriesWhat, StaysShaped
<1>2. CASE Gives(p)
  <2>1. UNCHANGED <<manifest, runs, whole, part, took, laid>> /\ Leave(p)
    BY <1>2 DEF Gives, Rename, StartCopy, FinishCopy
  <2> QED
    BY <1>0, <2>1, LeaveShapes, StaysShaped
<1>3. CASE Stop(p)
  <2>1. UNCHANGED <<manifest, runs, whole, part, took, laid>> /\ Leave(p)
    BY <1>3 DEF Stop, disk
  <2> QED
    BY <1>0, <2>1, LeaveShapes, StaysShaped
<1>4. CASE NextEntry(p)
  <2>1. Live(p) /\ UNCHANGED <<manifest, runs, whole, part, took, laid, mode, run, plan, root>>
    BY <1>4 DEF NextEntry, disk, Live
  <2>2. plan[p] \in Plans /\ k[p] \in DOMAIN plan[p] /\ plan[p] # <<>>
    BY <2>1 DEF Shaped, TypeOK, Working
  <2>3. Len(plan[p]) \in 0..MaxPaths /\ DOMAIN plan[p] = 1..Len(plan[p]) /\ k[p] \in 1..Len(plan[p])
    BY <2>2, PlansAreSequences
  <2>4. /\ k' \in [Procs -> 1..MaxPaths] /\ pc' \in [Procs -> Steps]
        /\ OthersStay(p)
        /\ \/ pc'[p] \in {"move", "check"} /\ k'[p] \in DOMAIN plan[p] /\ (pc'[p] = "check" => mode[p] = "restore")
           \/ pc'[p] = "record" /\ k'[p] = Len(plan[p])
    <3>1. CASE k[p] < Len(plan[p])
      <4>1. /\ k' = [k EXCEPT ![p] = k[p] + 1]
            /\ Goto(p, IF mode[p] = "reclaim" THEN "move" ELSE "check")
        BY <1>4, <3>1 DEF NextEntry
      <4>2. k[p] + 1 \in DOMAIN plan[p] /\ k[p] + 1 \in 1..MaxPaths
        BY <2>3, <3>1, ReclaimBounds
      <4>3. mode[p] \in {"reclaim", "restore"}
        BY DEF Shaped, TypeOK
      <4> QED
        BY <2>1, <4>1, <4>2, <4>3 DEF Goto, Shaped, TypeOK, Steps, OthersStay
    <3>2. CASE ~(k[p] < Len(plan[p]))
      <4>1. Goto(p, "record") /\ UNCHANGED k
        BY <1>4, <3>2 DEF NextEntry
      <4>2. k[p] = Len(plan[p])
        BY <2>3, <3>2
      <4> QED
        BY <2>1, <4>1, <4>2 DEF Goto, Shaped, TypeOK, Steps, OthersStay
    <3> QED
      BY <3>1, <3>2
  <2>5. TypeOK'
    <3>1. \A q \in Procs : plan[q] # <<>> => k'[q] \in DOMAIN plan[q]
      <4>1. \A q \in Procs : plan[q] # <<>> => k[q] \in DOMAIN plan[q]
        BY DEF Shaped, TypeOK
      <4>2. \A q \in Procs \ {p} : k'[q] = k[q]
        BY <2>4 DEF OthersStay
      <4>3. k'[p] \in DOMAIN plan[p]
        BY <2>3, <2>4
      <4> QED
        BY <4>1, <4>2, <4>3
    <3> QED
      BY <1>0, <2>1, <2>4, <3>1 DEF Shaped, TypeOK
  <2>6. Working'
    BY <2>1, <2>3, <2>4 DEF Shaped, Working, OthersStay, Live
  <2>7. Separate'
    BY <2>1, <2>4 DEF Shaped, Separate, OthersStay, Live
  <2> QED
    BY <2>5, <2>6, <2>7 DEF Shaped
<1>5. CASE OpenManifest(p)
  <2>1. /\ Live(p) /\ UNCHANGED <<runs, whole, part, took, laid, mode, run, plan, root, k>>
        /\ OthersStay(p) /\ pc'[p] = "recording" /\ pc' \in [Procs -> Steps]
    BY <1>5 DEF OpenManifest, Live, OthersStay, Goto, Shaped, TypeOK, Steps
  <2>2. run[p] \in Runs /\ pc[p] = "record"
    BY <1>5, <2>1, Ends DEF OpenManifest
  <2>3. [NoManifest EXCEPT !.state = "torn"] \in Manifests
    BY NothingIsAPlan, RootsAssumption DEF NoManifest, Manifests
  <2>4. /\ manifest' \in [Runs -> Manifests]
        /\ \A r \in Runs : manifest'[r].state = "whole" => manifest'[r] = manifest[r]
    BY <1>5, <2>2, <2>3 DEF OpenManifest, Shaped, TypeOK, NoManifest
  <2>5. TypeOK'
    BY <1>0, <2>1, <2>4 DEF Shaped, TypeOK
  <2>6. Working'
    BY <2>1, <2>2 DEF Shaped, Working, OthersStay, Live
  <2>7. Separate'
    <3>1. \A q \in Procs : Live(q) => run[q] \in Runs
      BY Ends
    <3> QED
      BY <2>1, <2>4, <3>1 DEF Shaped, Separate, OthersStay, Live
  <2> QED
    BY <2>5, <2>6, <2>7 DEF Shaped
<1>6. CASE WriteManifest(p)
  <2>1. Live(p) /\ pc[p] = "recording" /\ UNCHANGED <<runs, whole, part, took, laid>> /\ Leave(p)
    BY <1>6 DEF WriteManifest, Live
  <2>2. /\ run[p] \in Runs /\ plan[p] \in Plans /\ root[p] \in Roots /\ plan[p] # <<>> /\ run[p] <= runs
        /\ (mode[p] = "restore") \in BOOLEAN
    BY <2>1, Ends DEF Shaped, TypeOK, Working
  <2> DEFINE file == [state |-> "whole", plan |-> plan[p], root |-> root[p], restored |-> mode[p] = "restore"]
  <2>3. file \in Manifests /\ manifest' = [manifest EXCEPT ![run[p]] = file]
    BY <1>6, <2>2 DEF WriteManifest, Manifests
  <2>4. file.plan # <<>>
    BY <2>2
  <2> HIDE DEF file
  <2>5. /\ manifest' \in [Runs -> Manifests]
        /\ \A r \in Runs : manifest'[r] = IF r = run[p] THEN file ELSE manifest[r]
    BY <2>2, <2>3 DEF Shaped, TypeOK
  <2>6. LocalTypes' /\ OthersStay(p) /\ pc'[p] = "idle" /\ k'[p] = 1 /\ mode'[p] = "reclaim" /\ plan'[p] = <<>>
    BY <2>1, LeaveShapes
  <2>7. TypeOK'
    BY <1>0, <2>1, <2>5, <2>6 DEF Shaped, TypeOK, LocalTypes
  <2>8. Working'
    BY <2>1, <2>6 DEF Shaped, Working, OthersStay, Live
  <2>9. Separate'
    <3>1. \A q \in Procs : Live(q) => run[q] \in Runs
      BY Ends
    <3> QED
      BY <2>1, <2>2, <2>4, <2>5, <2>6, <3>1 DEF Shaped, Separate, OthersStay, Live
  <2> QED
    BY <2>7, <2>8, <2>9 DEF Shaped
<1> QED
  BY <1>1, <1>2, <1>3, <1>4, <1>5, <1>6, CarryOrGiveUp DEF MoveStep, Carries

LEMMA NextShaped == Shaped /\ [Next]_vars => Shaped'
<1> SUFFICES ASSUME Shaped, [Next]_vars PROVE Shaped'
  OBVIOUS
<1>1. CASE \E p \in Reclaimers, paths \in Plans, base \in Roots : PlanReclaim(p, paths, base) /\ Disturbs({p})
  BY <1>1, ReclaimPlansShaped DEF Procs
<1>2. CASE \E p \in Restorers : (CheckBack(p) \/ \E r \in Runs : StartRestore(p, r)) /\ Disturbs({p})
  BY <1>2, RestoreShaped DEF Procs
<1>3. CASE \E p \in Procs : MoveStep(p) /\ Disturbs({p})
  BY <1>3, MoveShaped
<1>4. CASE \E o \in Originals, i \in Items : Create(o, i) /\ Disturbs({})
  <2>1. UNCHANGED <<part, manifest, runs, pc, mode, run, plan, root, k, took, laid>> /\ whole' \in [Places -> SUBSET Items]
    BY <1>4 DEF Create, local, Shaped, TypeOK, Places
  <2>2. disturbed' \subseteq {q \in Procs : pc'[q] \in Moving}
    BY <1>4 DEF Disturbs
  <2> QED
    BY <2>1, <2>2 DEF Shaped, TypeOK, Working, Separate, Live
<1>5. CASE UNCHANGED vars
  BY <1>5 DEF vars, disk, local, Shaped, TypeOK, Working, Separate, Live
<1> QED
  BY <1>1, <1>2, <1>3, <1>4, <1>5 DEF Next

(* Every variable keeps its type (TypeOK): the plans, the manifests and the  *)
(* archive places that runs refer to are such as exist.                      *)
THEOREM ReclaimTypeCorrect == Spec => []TypeOK
<1>1. Shaped => TypeOK
  BY DEF Shaped
<1> QED
  BY <1>1, InitShaped, NextShaped, PTL DEF Spec


-----------------------------------------------------------------------------
(* The kinds of step there are. *)
Abandons(p)  == Live(p) /\ Leave(p) /\ UNCHANGED <<whole, part, manifest, runs, took, laid>>
ChecksOut(p) == CheckBack(p) /\ pc'[p] = "move"
Handles(p) ==
  \/ Abandons(p) \/ ChecksOut(p) \/ NextEntry(p) \/ OpenManifest(p) \/ WriteManifest(p)
  \/ \E paths \in Plans, base \in Roots : PlanReclaim(p, paths, base)
  \/ \E r \in Runs : StartRestore(p, r)
StepOf(p) == (Carries(p) \/ Handles(p)) /\ Disturbs({p})
Creates   == (\E o \in Originals, i \in Items : Create(o, i)) /\ Disturbs({})

LEMMA StepKinds ==
  ASSUME Shaped, [Next]_vars
  PROVE  (\E p \in Procs : StepOf(p)) \/ Creates \/ UNCHANGED vars
<1>1. ASSUME NEW p \in Procs, CheckBack(p), Disturbs({p}) PROVE StepOf(p)
  BY <1>1 DEF CheckBack, ChecksOut, Abandons, Handles, StepOf, Live, disk, Goto, Shaped, TypeOK
<1>2. ASSUME NEW p \in Procs, MoveStep(p), Disturbs({p}) PROVE StepOf(p)
  <2>1. Gives(p) => Abandons(p)
    BY DEF Gives, Abandons, Rename, StartCopy, FinishCopy, Live
  <2>2. Stop(p) => Abandons(p)
    BY DEF Stop, Abandons, Live, disk
  <2> QED
    BY <1>2, <2>1, <2>2, CarryOrGiveUp DEF MoveStep, Carries, Handles, StepOf
<1> QED
  BY <1>1, <1>2 DEF Next, Procs, Creates, StepOf, Handles

LEMMA HandlesWhat ==
  ASSUME Shaped, NEW p \in Procs, Handles(p)
  PROVE  UNCHANGED <<whole, part, took, laid>> /\ OthersStay(p)
<1>1. CASE Abandons(p)
  BY <1>1, LeaveShapes DEF Abandons
<1>2. CASE WriteManifest(p)
  BY <1>2, LeaveShapes DEF WriteManifest
<1>3. CASE ChecksOut(p) \/ NextEntry(p) \/ OpenManifest(p)
  BY <1>3 DEF ChecksOut, CheckBack, NextEntry, OpenManifest, Leave, Goto, disk, OthersStay, Shaped, TypeOK
<1>4. CASE \E paths \in Plans, base \in Roots : PlanReclaim(p, paths, base)
  BY <1>4 DEF PlanReclaim, Goto, disk, OthersStay, Shaped, TypeOK
<1>5. CASE \E r \in Runs : StartRestore(p, r)
  BY <1>5 DEF StartRestore, Goto, disk, OthersStay, Shaped, TypeOK
<1> QED
  BY <1>1, <1>2, <1>3, <1>4, <1>5 DEF Handles

(* Where something is carried from, all of it stays or all of it goes, and   *)
(* what a run moves is not nothing.                                          *)
LEMMA FromStaysOrGoes ==
  ASSUME Shaped, NEW p \in Procs, Carries(p), NEW pl \in Places, pl = From(p)
  PROVE  Contents(pl)' \in {{}, Contents(pl)}
<1>1. From(p) \in Places /\ To(p) \in Places /\ From(p) # To(p)
  BY CarriesOn, Ends
<1>2. CASE Renames(p)
  BY <1>1, <1>2 DEF Renames, Rename, Leave, Goto, Contents, Shaped, TypeOK
<1>3. CASE Copies(p)
  BY <1>1, <1>3 DEF Copies, StartCopy, Leave, Goto, Contents, Shaped, TypeOK
<1>4. CASE Finishes(p)
  BY <1>1, <1>4 DEF Finishes, FinishCopy, Leave, Goto, Contents, Shaped, TypeOK
<1>5. CASE DeleteSome(p)
  BY <1>1, <1>5 DEF DeleteSome, Contents, Shaped, TypeOK
<1>6. CASE DeleteSource(p)
  BY <1>1, <1>6 DEF DeleteSource, Contents, Shaped, TypeOK
<1> QED
  BY <1>2, <1>3, <1>4, <1>5, <1>6 DEF Carries

LEMMA TookWhat ==
  ASSUME Shaped, NEW p \in Procs, Carries(p), took' # took
  PROVE  /\ mode[p] = "reclaim" /\ pc[p] = "move" /\ pc'[p] \in {"copy", "next"} /\ Contents(From(p)) # {}
         /\ took' = [took EXCEPT ![run[p]][k[p]] = Contents(From(p))]
<1>1. Renames(p) \/ Copies(p)
  BY DEF Carries, Finishes, FinishCopy, DeleteSome, DeleteSource
<1>2. Takes(p) /\ pc[p] = "move" /\ Occupied(From(p)) /\ pc'[p] \in {"copy", "next"}
  BY <1>1 DEF Renames, Rename, Copies, StartCopy, Leave, Goto, Shaped, TypeOK
<1> QED
  BY <1>2 DEF Takes, Occupied, Contents

(* An archive that nobody fills any more only loses whole entries. *)
AtRest(r) == \A p \in Procs : ~(Live(p) /\ mode[p] = "reclaim" /\ run[p] = r)

LEMMA ArchivesShrink ==
  ASSUME Shaped, [Next]_vars, NEW r \in Runs, AtRest(r)
  PROVE  /\ took'[r] = took[r]
         /\ \A a \in Archives : a.run = r => Contents(a)' \in {{}, Contents(a)}
<1>1. ASSUME NEW p \in Procs, Carries(p)
      PROVE  /\ took'[r] = took[r]
             /\ \A a \in Archives : a.run = r => Contents(a)' \in {{}, Contents(a)}
  <2>1. Live(p) /\ run[p] \in Runs
    BY <1>1, CarriesOn, Ends
  <2>2. took'[r] = took[r]
    BY <1>1, <2>1, TookWhat DEF AtRest, Shaped, TypeOK
  <2>3. ASSUME NEW a \in Archives, a.run = r PROVE Contents(a)' \in {{}, Contents(a)}
    <3>1. a \in Places /\ a \notin Originals
      BY DEF Archives
    <3>2. a # To(p)
      BY <2>1, <2>3, <3>1, Ends DEF AtRest, To, Shaped, TypeOK
    <3>3. CASE a = From(p)
      BY <1>1, <3>1, <3>3, FromStaysOrGoes
    <3>4. CASE a # From(p)
      BY <1>1, <3>1, <3>2, <3>4, CarriesWhat DEF Contents
    <3> QED
      BY <3>3, <3>4
  <2> QED
    BY <2>2, <2>3
<1>2. CASE UNCHANGED <<whole, part, took, laid>>
  BY <1>2 DEF Contents
<1>3. CASE Creates
  <2>1. took' = took /\ part' = part
    BY <1>3 DEF Creates, Create
  <2>2. ASSUME NEW a \in Archives PROVE whole'[a] = whole[a]
    BY <1>3, <2>2 DEF Creates, Create, Archives, Shaped, TypeOK
  <2> QED
    BY <2>1, <2>2 DEF Contents
<1> QED
  BY <1>1, <1>2, <1>3, StepKinds, HandlesWhat DEF StepOf, vars, disk

(* The runs that are at rest: those restored now, and those with a manifest. *)
LEMMA RunsAtRest ==
  ASSUME Shaped
  PROVE  /\ \A p \in Procs : Live(p) /\ mode[p] = "restore" => AtRest(run[p])
         /\ \A r \in Runs : manifest[r].state = "whole" => AtRest(r)
BY DEF Shaped, Separate, AtRest

-----------------------------------------------------------------------------
(* A manifest is precise.  A reclaim knows what it has moved so far, and a   *)
(* restore that its run moved everything and what it has emptied so far.     *)
Moved   == {"copy", "delete", "next", "record", "recording"}
Handled == {"next", "record", "recording"}

Past(p, n) == n < k[p] \/ (n = k[p] /\ pc[p] \in Moved)
Done(p, n) == n < k[p] \/ (n = k[p] /\ pc[p] \in Handled)

KnowsTaken(p) ==
  \A n \in DOMAIN plan[p] : mode[p] = "restore" \/ Past(p, n) => took[run[p]][n] # {}
KnowsEmptied(p) ==
  mode[p] = "restore" => \A n \in DOMAIN plan[p] : Done(p, n) => Contents(ThereOf(p, n)) = {}
Knowing == \A p \in Procs : Live(p) => KnowsTaken(p) /\ KnowsEmptied(p)

PreciseIInv == Shaped /\ Knowing /\ ManifestIsPrecise

(* What was moved stays known, and what is emptied stays empty: a step that  *)
(* goes on with a run has to show only what it adds.                         *)
LEMMA TookStays ==
  ASSUME Shaped, [Next]_vars, NEW r \in Runs, NEW n \in 1..MaxPaths, took[r][n] # {}
  PROVE  took'[r][n] # {}
<1>1. ASSUME NEW p \in Procs, Carries(p) PROVE took'[r][n] # {}
  <2>1. run[p] \in Runs /\ k[p] \in 1..MaxPaths
    BY <1>1, CarriesOn, Ends
  <2>2. CASE took' # took
    <3>1. took' = [took EXCEPT ![run[p]][k[p]] = Contents(From(p))] /\ Contents(From(p)) # {}
      BY <1>1, <2>2, TookWhat
    <3>2. took'[r][n] = IF r = run[p] /\ n = k[p] THEN Contents(From(p)) ELSE took[r][n]
      BY <2>1, <3>1 DEF Shaped, TypeOK
    <3> QED
      BY <3>1, <3>2
  <2> QED
    BY <2>2
<1> QED
  BY <1>1, StepKinds, HandlesWhat DEF StepOf, Creates, Create, vars

LEMMA StillKnows ==
  ASSUME PreciseIInv, [Next]_vars, NEW p \in Procs, Live(p),
         mode'[p] = mode[p] /\ run'[p] = run[p] /\ plan'[p] = plan[p] /\ root'[p] = root[p],
         \A n \in DOMAIN plan[p] : Past(p, n)' => Past(p, n) \/ took'[run[p]][n] # {},
         \A n \in DOMAIN plan[p] : Done(p, n)' => Done(p, n) \/ mode[p] = "reclaim" \/ Contents(ThereOf(p, n))' = {}
  PROVE  KnowsTaken(p)' /\ KnowsEmptied(p)'
<1>1. Shaped /\ KnowsTaken(p) /\ KnowsEmptied(p)
  BY DEF PreciseIInv, Knowing
<1>2. /\ run[p] \in Runs
      /\ \A n \in DOMAIN plan[p] : n \in 1..MaxPaths /\ ThereOf(p, n) \in Archives /\ ThereOf(p, n).run = run[p]
  BY <1>1, Ends
<1>3. \A n \in DOMAIN plan[p] : ThereOf(p, n)' = ThereOf(p, n)
  BY DEF ThereOf
<1>4. KnowsTaken(p)'
  BY <1>1, <1>2, TookStays DEF KnowsTaken
<1>5. ASSUME mode[p] = "restore", NEW n \in DOMAIN plan[p], Done(p, n)'
      PROVE  Contents(ThereOf(p, n))' = {}
  <2>1. CASE Contents(ThereOf(p, n)) = {}
    <3>1. AtRest(run[p])
      BY <1>1, <1>5, RunsAtRest
    <3>2. \A a \in Archives : a.run = run[p] /\ Contents(a) = {} => Contents(a)' = {}
      BY <1>1, <1>2, <3>1, ArchivesShrink
    <3>3. PICK a \in Archives : a = ThereOf(p, n)
      BY <1>2
    <3>4. Contents(a)' = {}
      BY <1>2, <2>1, <3>2, <3>3
    <3> QED
      BY <1>3, <3>3, <3>4 DEF Contents
  <2>2. CASE Contents(ThereOf(p, n))' = {}
    BY <2>2
  <2> QED
    BY <1>1, <1>5, <2>1, <2>2 DEF KnowsEmptied
<1> QED
  BY <1>4, <1>5 DEF KnowsEmptied

(* The process that takes the step. *)
LEMMA StepKnows ==
  ASSUME PreciseIInv, [Next]_vars, NEW p \in Procs, StepOf(p), pc'[p] # "idle"
  PROVE  KnowsTaken(p)' /\ KnowsEmptied(p)'
<1> USE DEF Past, Done, Moved, Handled
<1>0. Shaped
  BY DEF PreciseIInv
<1>1. CASE Carries(p)
  <2>1. Live(p) /\ SameEntry(p) /\ k[p] \in DOMAIN plan[p] /\ run[p] \in Runs /\ k[p] \in 1..MaxPaths
    BY <1>0, <1>1, CarriesOn, Ends
  <2>2. ASSUME NEW n \in DOMAIN plan[p], Past(p, n)' PROVE Past(p, n) \/ took'[run[p]][n] # {}
    <3>1. CASE Renames(p) \/ Copies(p)
      <4>1. Takes(p) /\ Occupied(From(p)) /\ pc[p] = "move"
        BY <1>0, <3>1 DEF Renames, Rename, Copies, StartCopy, Leave, Goto, Shaped, TypeOK
      <4>2. CASE mode[p] = "reclaim"
        BY <1>0, <2>1, <2>2, <4>1, <4>2 DEF Takes, Occupied, SameEntry, Shaped, TypeOK
      <4>3. CASE mode[p] = "restore"
        <5>1. took[run[p]][n] # {}
          BY <2>1, <4>3 DEF PreciseIInv, Knowing, KnowsTaken
        <5> QED
          BY <4>1, <4>3, <5>1 DEF Takes
      <4> QED
        BY <1>0, <4>2, <4>3 DEF Shaped, TypeOK
    <3>2. CASE Finishes(p) \/ DeleteSome(p) \/ DeleteSource(p)
      BY <2>1, <2>2, <3>2 DEF Finishes, FinishCopy, DeleteSome, DeleteSource, SameEntry
    <3> QED
      BY <1>1, <3>1, <3>2 DEF Carries
  <2>3. ASSUME NEW n \in DOMAIN plan[p], Done(p, n)', mode[p] = "restore"
        PROVE  Done(p, n) \/ Contents(ThereOf(p, n))' = {}
    <3>1. CASE n < k[p]
      BY <3>1
    <3>2. CASE n = k[p] /\ pc'[p] = "next"
      <4>1. ThereOf(p, n)' = From(p)
        BY <2>1, <2>3, <3>2 DEF SameEntry, ThereOf, From, Archived, Original
      <4>2. From(p) \in Places /\ To(p) \in Places /\ From(p) # To(p)
        BY <1>0, <2>1, Ends
      <4>3. Renames(p) \/ DeleteSource(p)
        BY <1>1, <3>2 DEF Carries, Copies, Finishes, DeleteSome, local
      <4>4. whole'[From(p)] = {} /\ part'[From(p)] = {}
        BY <1>0, <4>2, <4>3 DEF Renames, Rename, DeleteSource, Leave, Goto, Shaped, TypeOK
      <4> QED
        BY <4>1, <4>4 DEF Contents
    <3> QED
      BY <1>0, <1>1, <2>1, <2>3, <3>1, <3>2, CarriesOn DEF SameEntry
  <2> QED
    BY <1>0, <2>1, <2>2, <2>3, StillKnows DEF SameEntry, Shaped, TypeOK
<1>2. CASE ChecksOut(p) \/ OpenManifest(p)
  <2>1. Live(p) /\ UNCHANGED <<mode, run, plan, root, k>>
    BY <1>0, <1>2 DEF ChecksOut, CheckBack, OpenManifest, Leave, Goto, Live, Shaped, TypeOK
  <2>2. pc'[p] \in Moved => pc[p] \in Moved /\ (pc'[p] \in Handled => pc[p] \in Handled)
    BY <1>0, <1>2 DEF ChecksOut, OpenManifest, Goto, Shaped, TypeOK
  <2>3. \A n \in DOMAIN plan[p] : (Past(p, n)' => Past(p, n)) /\ (Done(p, n)' => Done(p, n))
    BY <2>1, <2>2
  <2> QED
    BY <2>1, <2>3, StillKnows
<1>3. CASE NextEntry(p)
  <2>1. Live(p) /\ UNCHANGED <<mode, run, plan, root>> /\ pc[p] = "next"
    BY <1>3 DEF NextEntry, Live
  <2>2. /\ k[p] \in DOMAIN plan[p] /\ plan[p] \in Plans
        /\ (k'[p] = k[p] + 1 /\ pc'[p] \in {"move", "check"}) \/ k'[p] = k[p]
    BY <1>0, <1>3, <2>1, Ends DEF NextEntry, Goto, Shaped, TypeOK
  <2>3. DOMAIN plan[p] \subseteq Nat
    BY <2>2, PlansAreSequences
  <2>4. \A n \in DOMAIN plan[p] : (Past(p, n)' => Past(p, n)) /\ (Done(p, n)' => Done(p, n))
    BY <2>1, <2>2, <2>3
  <2> QED
    BY <2>1, <2>4, StillKnows
<1>4. CASE \E paths \in Plans, base \in Roots : PlanReclaim(p, paths, base)
  <2> PICK paths \in Plans, base \in Roots : PlanReclaim(p, paths, base)
    BY <1>4
  <2>1. pc'[p] = "move" /\ mode'[p] = "reclaim" /\ k'[p] = 1 /\ plan'[p] = paths
    BY <1>0 DEF PlanReclaim, Goto, Shaped, TypeOK, Working, Live
  <2>2. DOMAIN paths \subseteq Nat \ {0}
    <3>1. DOMAIN paths = 1..Len(paths) /\ Len(paths) \in 0..MaxPaths
      BY PlansAreSequences
    <3> QED
      BY <3>1, ReclaimBounds
  <2> QED
    BY <2>1, <2>2 DEF KnowsTaken, KnowsEmptied
<1>5. CASE \E r \in Runs : StartRestore(p, r)
  <2> PICK r \in Runs : StartRestore(p, r)
    BY <1>5
  <2>1. /\ pc'[p] = "check" /\ mode'[p] = "restore" /\ k'[p] = 1 /\ run'[p] = r /\ plan'[p] = manifest[r].plan
        /\ manifest[r].state = "whole" /\ took' = took /\ manifest[r] \in Manifests
    BY <1>0 DEF StartRestore, Goto, Shaped, TypeOK, Working, Live
  <2>2. DOMAIN plan'[p] \subseteq Nat \ {0}
    <3>1. manifest[r].plan \in Plans
      BY <2>1 DEF Manifests
    <3>2. DOMAIN plan'[p] = 1..Len(manifest[r].plan) /\ Len(manifest[r].plan) \in 0..MaxPaths
      BY <2>1, <3>1, PlansAreSequences
    <3> QED
      BY <3>2, ReclaimBounds
  <2>3. KnowsTaken(p)'
    BY <2>1 DEF KnowsTaken, PreciseIInv, ManifestIsPrecise
  <2> QED
    BY <2>1, <2>2, <2>3 DEF KnowsEmptied
<1>6. CASE Abandons(p) \/ WriteManifest(p)
  BY <1>0, <1>6 DEF Abandons, WriteManifest, Leave, Goto, Shaped, TypeOK
<1> QED
  BY <1>1, <1>2, <1>3, <1>4, <1>5, <1>6 DEF StepOf, Handles

LEMMA KnowingStays == PreciseIInv /\ [Next]_vars => Knowing'
<1> SUFFICES ASSUME PreciseIInv, [Next]_vars, NEW q \in Procs, Live(q)' PROVE KnowsTaken(q)' /\ KnowsEmptied(q)'
  BY DEF Knowing
<1>1. ASSUME UNCHANGED <<pc, mode, run, plan, root, k>> PROVE KnowsTaken(q)' /\ KnowsEmptied(q)'
  BY <1>1, StillKnows DEF Live, Past, Done
<1>2. ASSUME NEW p \in Procs, StepOf(p) PROVE KnowsTaken(q)' /\ KnowsEmptied(q)'
  <2>1. CASE q = p
    BY <1>2, <2>1, StepKnows DEF Live
  <2>2. CASE q # p
    <3>1. OthersStay(p)
      BY <1>2, CarriesOn, HandlesWhat DEF StepOf, PreciseIInv
    <3> QED
      BY <2>2, <3>1, StillKnows DEF OthersStay, Live, Past, Done
  <2> QED
    BY <2>1, <2>2
<1> QED
  BY <1>1, <1>2, StepKinds DEF PreciseIInv, Creates, Create, local, vars

LEMMA ManifestsStayPrecise == PreciseIInv /\ [Next]_vars => ManifestIsPrecise'
<1> SUFFICES ASSUME PreciseIInv, [Next]_vars, NEW r \in Runs, manifest'[r].state = "whole",
                    NEW n \in DOMAIN manifest'[r].plan
             PROVE  /\ took'[r][n] # {}
                    /\ manifest'[r].restored =>
                         ~Occupied(ArchiveDestination(manifest[r].plan[n], r, manifest[r].root))'
  BY DEF ManifestIsPrecise
<1>0. Shaped /\ Shaped'
  BY NextShaped DEF PreciseIInv
<1>1. CASE manifest'[r] = manifest[r]
  <2>1. manifest[r].plan \in Plans /\ manifest[r].root \in Roots
    BY <1>0 DEF Shaped, TypeOK, Manifests
  <2>2. n \in 1..MaxPaths /\ manifest[r].plan[n] \in Originals
    BY <1>1, <2>1, PlansAreSequences, ReclaimBounds
  <2>3. PICK a \in Archives : a = ArchiveDestination(manifest[r].plan[n], r, manifest[r].root) /\ a.run = r
    BY <2>1, <2>2, ArchivePlaces
  <2>4. took[r][n] # {} /\ (manifest[r].restored => Contents(a) = {})
    BY <1>1, <2>3 DEF PreciseIInv, ManifestIsPrecise, Occupied, Contents
  <2>5. AtRest(r)
    BY <1>0, <1>1, RunsAtRest
  <2>6. Contents(a)' \in {{}, Contents(a)}
    BY <1>0, <2>3, <2>5, ArchivesShrink
  <2>7. took'[r][n] # {}
    BY <1>0, <2>2, <2>4, TookStays
  <2>8. a = ArchiveDestination(manifest'[r].plan[n], r, manifest'[r].root)
    BY <1>1, <2>3
  <2> QED
    BY <1>1, <2>4, <2>6, <2>7, <2>8 DEF Occupied, Contents, ArchiveDestination
<1>2. CASE manifest'[r] # manifest[r]
  <2>1. PICK p \in Procs : StepOf(p) /\ manifest' # manifest
    BY <1>0, <1>2, StepKinds DEF Creates, Create, vars, disk
  <2>2. OpenManifest(p) \/ WriteManifest(p)
    BY <1>0, <2>1, CarriesOn DEF StepOf, Handles, Abandons, ChecksOut, CheckBack, NextEntry, PlanReclaim,
                                StartRestore, disk
  <2>3. Live(p) /\ run[p] \in Runs
    BY <1>0, <2>2, Ends DEF OpenManifest, WriteManifest, Live
  <2>4. WriteManifest(p)
    BY <1>0, <1>2, <2>2, <2>3 DEF OpenManifest, NoManifest, Shaped, TypeOK
  <2>5. /\ run[p] = r /\ pc[p] = "recording" /\ UNCHANGED <<whole, part, took, laid>>
        /\ manifest'[r] = [state |-> "whole", plan |-> plan[p], root |-> root[p], restored |-> mode[p] = "restore"]
    BY <1>0, <1>2, <2>3, <2>4 DEF WriteManifest, Shaped, TypeOK
  <2>6. /\ manifest'[r].plan = plan[p] /\ manifest'[r].root = root[p]
        /\ manifest'[r].restored = (mode[p] = "restore")
    BY <2>5
  <2>7. plan[p] \in Plans /\ k[p] = Len(plan[p]) /\ n \in DOMAIN plan[p]
    BY <1>0, <2>5, <2>6 DEF Shaped, TypeOK, Working
  <2>8. n <= k[p] /\ n \in Nat /\ k[p] \in Nat
    <3>1. DOMAIN plan[p] = 1..Len(plan[p]) /\ Len(plan[p]) \in 0..MaxPaths
      BY <2>7, PlansAreSequences
    <3> QED
      BY <2>7, <3>1, ReclaimBounds
  <2>9. Past(p, n) /\ Done(p, n)
    BY <2>5, <2>8 DEF Past, Done, Moved, Handled
  <2>10. KnowsTaken(p) /\ KnowsEmptied(p)
    BY <2>3 DEF PreciseIInv, Knowing
  <2>11. took[r][n] # {} /\ (mode[p] = "restore" => Contents(ThereOf(p, n)) = {})
    BY <2>5, <2>7, <2>9, <2>10 DEF KnowsTaken, KnowsEmptied
  <2>12. PICK a \in Archives : a = ThereOf(p, n)
    BY <1>0, <2>3, <2>7, Ends
  <2>13. a = ArchiveDestination(manifest'[r].plan[n], r, manifest'[r].root)
    BY <2>5, <2>6, <2>12 DEF ThereOf
  <2>14. mode[p] = "restore" => whole'[a] \cup part'[a] = {}
    BY <2>5, <2>11, <2>12 DEF Contents
  <2> QED
    BY <2>5, <2>6, <2>11, <2>13, <2>14 DEF Occupied, ArchiveDestination
<1> QED
  BY <1>1, <1>2

(* A manifest is the record of a run that moved everything it was given, and *)
(* says restored only when nothing of it is left in the archive, also of     *)
(* runs given two paths of one name (ManifestIsPrecise).                     *)
THEOREM ManifestsArePrecise == Spec => []ManifestIsPrecise
<1>1. Init => PreciseIInv
  <2>1. Init => Knowing /\ ManifestIsPrecise
    BY DEF Init, Knowing, Live, ManifestIsPrecise, NoManifest
  <2> QED
    BY <2>1, InitShaped DEF PreciseIInv
<1>2. PreciseIInv /\ [Next]_vars => PreciseIInv'
  BY NextShaped, KnowingStays, ManifestsStayPrecise DEF PreciseIInv
<1> QED
  BY <1>1, <1>2, PTL DEF Spec, PreciseIInv


-----------------------------------------------------------------------------
(* What a run has in the archive.  With paths of different names no two      *)
(* entries of a run share a place, so nothing is where a reclaim will move   *)
(* an entry to, and what is there once it has is what it took or nothing.  A *)
(* process whose places nobody else has changed knows where its entry is.    *)
Named(paths) == \A i, j \in DOMAIN paths : i # j => paths[i].name # paths[j].name
Distinct ==
  /\ \A p \in Procs : Named(plan[p])
  /\ \A r \in Runs : Named(manifest[r].plan)

Unused == \A a \in Archives : a.run > runs => Contents(a) = {}

Fresh(p) ==
  mode[p] = "reclaim" =>
    \A n \in DOMAIN plan[p] :
      n > k[p] \/ (n = k[p] /\ pc[p] = "move") => Contents(ThereOf(p, n)) = {}

Faithful(p) ==
  \A n \in DOMAIN plan[p] : Contents(ThereOf(p, n)) \in {{}, took[run[p]][n]}

Careful(p) ==
  p \notin disturbed =>
    /\ pc[p] = "move" => Contents(To(p)) = {}
    /\ pc[p] = "copy" => Contents(To(p)) = Contents(From(p)) /\ Contents(From(p)) # {}
    /\ pc[p] = "delete" => whole[From(p)] \subseteq whole[To(p)]

ManifestsFaithful ==
  \A r \in Runs : manifest[r].state = "whole" =>
    \A n \in DOMAIN manifest[r].plan :
      Contents(ArchiveDestination(manifest[r].plan[n], r, manifest[r].root)) \in {{}, took[r][n]}

SafeIInv ==
  /\ Shaped /\ Distinct /\ Unused /\ ManifestsFaithful
  /\ \A p \in Procs : Live(p) => Fresh(p) /\ Faithful(p) /\ Careful(p)

LEMMA DistinctStays ==
  ASSUME SafeIInv, [Next]_vars, ~SameNames
  PROVE  Distinct'
<1>0. Shaped /\ Distinct
  BY DEF SafeIInv
<1>1. ASSUME UNCHANGED <<plan, manifest>> PROVE Distinct'
  BY <1>0, <1>1 DEF Distinct
<1>2. Named(<<>>)
  BY DEF Named
<1>3. ASSUME NEW p \in Procs, StepOf(p) PROVE Distinct'
  <2>1. CASE UNCHANGED <<plan, manifest>>
    BY <1>1, <2>1
  <2>2. CASE Abandons(p)
    BY <1>0, <1>2, <2>2 DEF Abandons, Leave, Distinct, Shaped, TypeOK
  <2>3. CASE OpenManifest(p)
    BY <1>0, <1>2, <2>3 DEF OpenManifest, NoManifest, Distinct, Shaped, TypeOK
  <2>4. CASE WriteManifest(p)
    <3>1. \A q \in Procs : plan'[q] \in {plan[q], <<>>}
      BY <1>0, <2>4 DEF WriteManifest, Leave, Shaped, TypeOK
    <3>2. \A r \in Runs : manifest'[r].plan \in {manifest[r].plan, plan[p]}
      BY <1>0, <2>4 DEF WriteManifest, Shaped, TypeOK
    <3> QED
      BY <1>0, <1>2, <3>1, <3>2 DEF Distinct
  <2>5. CASE \E paths \in Plans, base \in Roots : PlanReclaim(p, paths, base)
    <3> PICK paths \in Plans, base \in Roots : PlanReclaim(p, paths, base)
      BY <2>5
    <3>1. Named(paths) /\ manifest' = manifest
      BY <1>0 DEF PlanReclaim, Named, disk
    <3>2. \A q \in Procs : plan'[q] \in {plan[q], paths}
      BY <1>0 DEF PlanReclaim, Shaped, TypeOK
    <3> QED
      BY <1>0, <3>1, <3>2 DEF Distinct
  <2>6. CASE \E r \in Runs : StartRestore(p, r)
    <3> PICK r \in Runs : StartRestore(p, r)
      BY <2>6
    <3>1. manifest' = manifest /\ \A q \in Procs : plan'[q] \in {plan[q], manifest[r].plan}
      BY <1>0 DEF StartRestore, disk, Shaped, TypeOK
    <3> QED
      BY <1>0, <3>1 DEF Distinct
  <2>7. Carries(p) => UNCHANGED <<plan, manifest>>
    <3> SUFFICES ASSUME Carries(p) PROVE UNCHANGED <<plan, manifest>>
      OBVIOUS
    <3>1. OthersStay(p) /\ SameEntry(p) /\ manifest' = manifest /\ LocalTypes'
      BY <1>0, CarriesOn
    <3>2. plan' \in [Procs -> Plans] /\ plan \in [Procs -> Plans] /\ \A q \in Procs : plan'[q] = plan[q]
      BY <1>0, <3>1 DEF OthersStay, SameEntry, LocalTypes, Shaped, TypeOK
    <3> QED
      BY <3>1, <3>2
  <2>8. ChecksOut(p) \/ NextEntry(p) => UNCHANGED <<plan, manifest>>
    BY <1>0 DEF ChecksOut, CheckBack, NextEntry, Leave, Goto, disk, Shaped, TypeOK
  <2> QED
    BY <1>3, <2>1, <2>2, <2>3, <2>4, <2>5, <2>6, <2>7, <2>8 DEF StepOf, Handles
<1> QED
  BY <1>0, <1>1, <1>3, StepKinds DEF Creates, Create, local, vars, disk

(* What a step does not reach. *)
LEMMA NotReached ==
  ASSUME Shaped, NEW p \in Procs, Carries(p), NEW a \in Archives, a # Archived(p)
  PROVE  Contents(a)' = Contents(a)
<1>1. a \in Places /\ a # Original(p)
  BY CarriesOn, Ends DEF Archives
<1>2. a \notin {From(p), To(p)}
  BY <1>1 DEF From, To
<1> QED
  BY <1>1, <1>2, CarriesWhat DEF Contents

LEMMA CreatesElsewhere ==
  ASSUME Shaped, Creates
  PROVE  /\ UNCHANGED <<part, manifest, runs, pc, mode, run, plan, root, k, took, laid>>
         /\ \A a \in Archives : Contents(a)' = Contents(a)
<1>1. UNCHANGED <<part, manifest, runs, pc, mode, run, plan, root, k, took, laid>>
  BY DEF Creates, Create, local
<1>2. \A a \in Archives : whole'[a] = whole[a]
  BY DEF Creates, Create, Archives, Shaped, TypeOK
<1> QED
  BY <1>1, <1>2 DEF Contents

LEMMA UnusedStays == SafeIInv /\ [Next]_vars => Unused'
<1> SUFFICES ASSUME SafeIInv, [Next]_vars, NEW a \in Archives, a.run > runs' PROVE Contents(a)' = {}
  BY DEF Unused
<1>0. Shaped /\ Unused /\ runs \in Nat
  BY ReclaimBounds DEF SafeIInv, Shaped, TypeOK
<1>1. ASSUME NEW p \in Procs, Carries(p) PROVE Contents(a)' = {}
  <2>1. runs' = runs /\ Live(p) /\ Archived(p).run = run[p] /\ run[p] \in 1..runs
    BY <1>0, <1>1, CarriesOn, Ends DEF Shaped, Working
  <2>2. a # Archived(p)
    BY <1>0, <2>1
  <2> QED
    BY <1>0, <1>1, <2>1, <2>2, NotReached DEF Unused
<1>2. ASSUME NEW p \in Procs, Handles(p) PROVE Contents(a)' = {}
  <2>1. UNCHANGED <<whole, part>>
    BY <1>0, <1>2, HandlesWhat
  <2>2. runs' = runs \/ runs' = runs + 1
    BY <1>2 DEF Handles, Abandons, ChecksOut, CheckBack, NextEntry, OpenManifest, WriteManifest, PlanReclaim,
                StartRestore
  <2>3. a.run > runs
    <3>1. a.run \in Nat
      BY ReclaimBounds, OriginalsAssumption DEF Archives, Places, Runs
    <3> QED
      BY <1>0, <2>2, <3>1
  <2> QED
    BY <1>0, <2>1, <2>3 DEF Unused, Contents
<1>3. CASE Creates
  BY <1>0, <1>3, CreatesElsewhere DEF Unused
<1>4. CASE UNCHANGED vars
  BY <1>0, <1>4 DEF vars, disk, Unused, Contents
<1> QED
  BY <1>0, <1>1, <1>2, <1>3, <1>4, StepKinds DEF StepOf

-----------------------------------------------------------------------------
(* The processes that do not take the step. *)
LEMMA CarefulStays ==
  ASSUME Shaped, NEW q \in Procs, NEW actors, q \notin actors, Disturbs(actors), Careful(q),
         pc'[q] = pc[q] /\ mode'[q] = mode[q] /\ run'[q] = run[q],
         plan'[q] = plan[q] /\ root'[q] = root[q] /\ k'[q] = k[q]
  PROVE  Careful(q)'
<1>1. From(q)' = From(q) /\ To(q)' = To(q)
  BY DEF From, To, Archived, Original
<1> SUFFICES ASSUME q \notin disturbed', pc[q] \in Moving
             PROVE  /\ pc[q] = "move" => Contents(To(q))' = {}
                    /\ pc[q] = "copy" => Contents(To(q))' = Contents(From(q))' /\ Contents(From(q))' # {}
                    /\ pc[q] = "delete" => whole'[From(q)] \subseteq whole'[To(q)]
  BY <1>1 DEF Careful, Moving
<1>2. q \notin disturbed /\ ~Changed(From(q)) /\ ~Changed(To(q))
  BY DEF Disturbs
<1>3. /\ whole'[From(q)] = whole[From(q)] /\ part'[From(q)] = part[From(q)]
      /\ whole'[To(q)] = whole[To(q)] /\ part'[To(q)] = part[To(q)]
  BY <1>2 DEF Changed
<1>4. Contents(To(q))' = Contents(To(q)) /\ Contents(From(q))' = Contents(From(q))
  BY <1>1, <1>3 DEF Contents
<1> QED
  BY <1>2, <1>3, <1>4 DEF Careful

LEMMA BystanderSafe ==
  ASSUME SafeIInv, [Next]_vars, NEW p \in Procs, StepOf(p), NEW q \in Procs \ {p}, Live(q)
  PROVE  Fresh(q)' /\ Faithful(q)' /\ Careful(q)'
<1>0. Shaped /\ Fresh(q) /\ Faithful(q) /\ Careful(q)
  BY DEF SafeIInv
<1>1. pc'[q] = pc[q] /\ mode'[q] = mode[q] /\ run'[q] = run[q] /\ plan'[q] = plan[q] /\ root'[q] = root[q] /\ k'[q] = k[q]
  BY <1>0, CarriesOn, HandlesWhat DEF StepOf, OthersStay
<1>2. Careful(q)'
  BY <1>0, <1>1, CarefulStays DEF StepOf
<1>3. /\ run[q] \in Runs
      /\ \A n \in DOMAIN plan[q] : /\ ThereOf(q, n) \in Archives /\ ThereOf(q, n).run = run[q]
                                   /\ ThereOf(q, n)' = ThereOf(q, n) /\ n \in 1..MaxPaths
  BY <1>0, <1>1, Ends DEF ThereOf
<1>4. CASE Handles(p)
  <2>1. UNCHANGED <<whole, part, took, laid>>
    BY <1>0, <1>4, HandlesWhat
  <2>2. \A n \in DOMAIN plan[q] : Contents(ThereOf(q, n))' = Contents(ThereOf(q, n))
    BY <1>3, <2>1 DEF Contents
  <2> QED
    BY <1>0, <1>1, <1>2, <2>1, <2>2 DEF Fresh, Faithful
<1>5. CASE Carries(p) /\ mode[q] = "reclaim"
  <2>1. run[p] # run[q] /\ Archived(p).run = run[p] /\ run[p] \in Runs /\ k[p] \in 1..MaxPaths
    BY <1>0, <1>5, CarriesOn, Ends DEF Shaped, Separate
  <2>2. \A a \in Archives : a.run = run[q] => Contents(a)' = Contents(a)
    BY <1>0, <1>5, <2>1, NotReached
  <2>3. took'[run[q]] = took[run[q]]
    BY <1>0, <1>3, <1>5, <2>1, TookWhat DEF Shaped, TypeOK
  <2>4. \A n \in DOMAIN plan[q] : Contents(ThereOf(q, n))' = Contents(ThereOf(q, n))
    <3> SUFFICES ASSUME NEW n \in DOMAIN plan[q] PROVE Contents(ThereOf(q, n))' = Contents(ThereOf(q, n))
      OBVIOUS
    <3> PICK a \in Archives : a = ThereOf(q, n) /\ a.run = run[q]
      BY <1>3
    <3> QED
      BY <1>3, <2>2 DEF Contents
  <2> QED
    BY <1>0, <1>1, <1>2, <2>3, <2>4 DEF Fresh, Faithful
<1>6. CASE mode[q] = "restore"
  <2>1. AtRest(run[q])
    BY <1>0, <1>6, RunsAtRest
  <2>2. took'[run[q]] = took[run[q]] /\ \A a \in Archives : a.run = run[q] => Contents(a)' \in {{}, Contents(a)}
    BY <1>0, <1>3, <2>1, ArchivesShrink
  <2>3. ASSUME NEW n \in DOMAIN plan[q] PROVE Contents(ThereOf(q, n))' \in {{}, Contents(ThereOf(q, n))}
    <3> PICK a \in Archives : a = ThereOf(q, n) /\ a.run = run[q]
      BY <1>3
    <3> QED
      BY <1>3, <2>2 DEF Contents
  <2> QED
    BY <1>0, <1>1, <1>2, <1>6, <2>2, <2>3 DEF Fresh, Faithful
<1> QED
  BY <1>0, <1>2, <1>4, <1>5, <1>6 DEF StepOf, Shaped, TypeOK

LEMMA CreatesSafe ==
  ASSUME SafeIInv, Creates, NEW q \in Procs, Live(q)
  PROVE  Fresh(q)' /\ Faithful(q)' /\ Careful(q)'
<1>0. Shaped /\ Fresh(q) /\ Faithful(q) /\ Careful(q)
  BY DEF SafeIInv
<1>1. UNCHANGED <<pc, mode, run, plan, root, k, took, laid>> /\ (\A a \in Archives : Contents(a)' = Contents(a))
  BY <1>0, CreatesElsewhere
<1>2. Careful(q)'
  BY <1>0, <1>1, CarefulStays DEF Creates
<1>3. ASSUME NEW n \in DOMAIN plan[q] PROVE Contents(ThereOf(q, n))' = Contents(ThereOf(q, n))
  <2> PICK a \in Archives : a = ThereOf(q, n)
    BY <1>0, <1>3, Ends
  <2>1. ThereOf(q, n)' = a
    BY <1>1 DEF ThereOf
  <2> QED
    BY <1>1, <2>1 DEF Contents
<1> QED
  BY <1>0, <1>1, <1>2, <1>3 DEF Fresh, Faithful

-----------------------------------------------------------------------------
(* The process that takes the step. *)
LEMMA CarrierCareful ==
  ASSUME SafeIInv, NEW p \in Procs, Carries(p), Disturbs({p})
  PROVE  Careful(p)'
<1>0. Shaped /\ Live(p) /\ Careful(p) /\ SameEntry(p)
  BY CarriesOn DEF SafeIInv
<1>1. From(p)' = From(p) /\ To(p)' = To(p) /\ From(p) # To(p) /\ From(p) \in Places /\ To(p) \in Places
  BY <1>0, Ends DEF SameEntry, From, To, Archived, Original
<1>2. CASE Renames(p) \/ DeleteSource(p)
  BY <1>0, <1>2 DEF Renames, DeleteSource, Goto, Careful, Shaped, TypeOK
<1>3. CASE Copies(p)
  <2> SUFFICES ASSUME p \notin disturbed'
               PROVE  Contents(To(p))' = Contents(From(p))' /\ Contents(From(p))' # {}
    BY <1>3 DEF Copies, Careful
  <2>1. pc[p] = "move" /\ Occupied(From(p)) /\ p \notin disturbed
    BY <1>0, <1>3 DEF Copies, StartCopy, Leave, Goto, Shaped, TypeOK, Disturbs, Moving
  <2>2. Contents(To(p)) = {}
    BY <1>0, <2>1 DEF Careful
  <2>3. ~HoldsDir(To(p))
    BY <2>2 DEF HoldsDir, Contents
  <2>4. /\ whole'[To(p)] = {} /\ part'[To(p)] = whole[From(p)] \cup part[From(p)]
        /\ whole'[From(p)] = whole[From(p)] /\ part'[From(p)] = part[From(p)]
    BY <1>0, <1>1, <1>3, <2>3 DEF Copies, StartCopy, Leave, Goto, Shaped, TypeOK
  <2> QED
    BY <1>1, <2>1, <2>4 DEF Contents, Occupied
<1>4. CASE Finishes(p)
  <2> SUFFICES ASSUME p \notin disturbed' PROVE whole'[From(p)] \subseteq whole'[To(p)]
    BY <1>1, <1>4 DEF Finishes, Careful
  <2>1. pc[p] = "copy" /\ p \notin disturbed
    BY <1>4 DEF Finishes, FinishCopy, Disturbs, Moving
  <2>2. whole' = [whole EXCEPT ![To(p)] = @ \cup whole[From(p)]]
    BY <1>4, <2>1 DEF Finishes, FinishCopy
  <2> QED
    BY <1>0, <1>1, <2>2 DEF Shaped, TypeOK
<1>5. CASE DeleteSome(p)
  <2>1. whole'[From(p)] = {} /\ pc'[p] = "delete"
    BY <1>0, <1>1, <1>5 DEF DeleteSome, local, Shaped, TypeOK
  <2> QED
    BY <1>1, <2>1 DEF Careful
<1> QED
  BY <1>2, <1>3, <1>4, <1>5 DEF Carries

(* What is at the archive place of the entry a reclaim works on. *)
LEMMA CarriesFaithfully ==
  ASSUME SafeIInv, NEW p \in Procs, Carries(p), mode[p] = "reclaim", NEW a \in Archives, a = Archived(p)
  PROVE  Contents(a)' \in {{}, took'[run[p]][k[p]]}
<1>0. Shaped /\ Live(p) /\ Careful(p) /\ Fresh(p) /\ Faithful(p)
  BY CarriesOn DEF SafeIInv
<1>1. /\ a = To(p) /\ From(p) # To(p) /\ From(p) \in Places /\ To(p) \in Places
      /\ run[p] \in Runs /\ k[p] \in 1..MaxPaths /\ k[p] \in DOMAIN plan[p] /\ a = ThereOf(p, k[p])
  BY <1>0, Ends DEF To, ThereOf, Archived, Original
<1>2. CASE Renames(p) \/ Copies(p)
  <2>1. pc[p] = "move" /\ Takes(p)
    BY <1>0, <1>2 DEF Renames, Rename, Copies, StartCopy, Leave, Goto, Shaped, TypeOK
  <2>2. Contents(To(p)) = {}
    BY <1>0, <1>1, <2>1 DEF Fresh
  <2>3. ~HoldsDir(To(p))
    BY <2>2 DEF HoldsDir, Contents
  <2>4. whole'[To(p)] \cup part'[To(p)] = whole[From(p)] \cup part[From(p)]
    <3>1. CASE Renames(p)
      BY <1>0, <1>1, <3>1 DEF Renames, Rename, Leave, Goto, Shaped, TypeOK
    <3>2. CASE Copies(p)
      <4>1. whole'[To(p)] = {} /\ part'[To(p)] = whole[From(p)] \cup part[From(p)]
        BY <1>0, <1>1, <2>3, <3>2 DEF Copies, StartCopy, Leave, Goto, Shaped, TypeOK
      <4> QED
        BY <4>1
    <3> QED
      BY <1>2, <3>1, <3>2
  <2>5. took'[run[p]][k[p]] = whole[From(p)] \cup part[From(p)]
    BY <1>0, <1>1, <2>1 DEF Takes, Shaped, TypeOK
  <2> QED
    BY <1>1, <2>4, <2>5 DEF Contents
<1>3. CASE Finishes(p) \/ DeleteSome(p) \/ DeleteSource(p)
  <2>1. took' = took
    BY <1>3 DEF Finishes, FinishCopy, DeleteSome, DeleteSource
  <2>2. Contents(a)' = Contents(a)
    <3>1. CASE Finishes(p)
      <4>1. pc[p] = "copy"
        BY <3>1 DEF Finishes, FinishCopy
      <4>2. PICK copied \in IF p \in disturbed THEN SUBSET (whole[From(p)] \cap part[To(p)]) ELSE {whole[From(p)]} :
              /\ whole' = [whole EXCEPT ![To(p)] = @ \cup copied]
              /\ part' = [part EXCEPT ![To(p)] = @ \ copied]
        BY <1>0, <3>1 DEF Finishes, FinishCopy, Leave, Goto, Shaped, TypeOK
      <4>3. copied \subseteq whole[To(p)] \cup part[To(p)]
        BY <1>0, <4>1, <4>2 DEF Careful, Contents
      <4> QED
        BY <1>0, <1>1, <4>2, <4>3 DEF Contents, Shaped, TypeOK
    <3>2. CASE DeleteSome(p) \/ DeleteSource(p)
      BY <1>0, <1>1, <3>2 DEF DeleteSome, DeleteSource, Contents, Shaped, TypeOK
    <3> QED
      BY <1>3, <3>1, <3>2
  <2> QED
    BY <1>0, <1>1, <2>1, <2>2 DEF Faithful
<1> QED
  BY <1>2, <1>3 DEF Carries

LEMMA CarrierSafe ==
  ASSUME SafeIInv, [Next]_vars, NEW p \in Procs, Carries(p), Disturbs({p})
  PROVE  Fresh(p)' /\ Faithful(p)' /\ Careful(p)'
<1>0. Shaped /\ Live(p) /\ Fresh(p) /\ Faithful(p) /\ SameEntry(p) /\ pc'[p] # "move" /\ Named(plan[p])
  BY CarriesOn DEF SafeIInv, Distinct
<1>1. /\ run[p] \in Runs /\ k[p] \in 1..MaxPaths /\ k[p] \in DOMAIN plan[p] /\ Archived(p) \in Archives
      /\ Archived(p) = ThereOf(p, k[p])
      /\ \A n \in DOMAIN plan[p] :
           /\ ThereOf(p, n) \in Archives /\ ThereOf(p, n).run = run[p] /\ ThereOf(p, n).name = plan[p][n].name
           /\ ThereOf(p, n)' = ThereOf(p, n) /\ n \in 1..MaxPaths
  BY <1>0, Ends DEF SameEntry, ThereOf, Archived, Original
<1>2. Careful(p)'
  BY CarrierCareful
<1>3. CASE mode[p] = "restore"
  <2>1. AtRest(run[p])
    BY <1>0, <1>3, RunsAtRest
  <2>2. took'[run[p]] = took[run[p]] /\ \A a \in Archives : a.run = run[p] => Contents(a)' \in {{}, Contents(a)}
    BY <1>0, <1>1, <2>1, ArchivesShrink
  <2>3. ASSUME NEW n \in DOMAIN plan[p] PROVE Contents(ThereOf(p, n))' \in {{}, Contents(ThereOf(p, n))}
    <3> PICK a \in Archives : a = ThereOf(p, n) /\ a.run = run[p]
      BY <1>1
    <3> QED
      BY <1>1, <2>2 DEF Contents
  <2> QED
    BY <1>0, <1>2, <1>3, <2>2, <2>3 DEF SameEntry, Fresh, Faithful
<1>4. CASE mode[p] = "reclaim"
  <2>1. ASSUME NEW n \in DOMAIN plan[p], n # k[p]
        PROVE  Contents(ThereOf(p, n))' = Contents(ThereOf(p, n)) /\ took'[run[p]][n] = took[run[p]][n]
    <3>1. PICK a \in Archives : a = ThereOf(p, n)
      BY <1>1
    <3>2. a # Archived(p)
      BY <1>0, <1>1, <2>1, <3>1 DEF Named
    <3>3. Contents(a)' = Contents(a)
      BY <1>0, <3>2, NotReached
    <3>4. took'[run[p]][n] = took[run[p]][n]
      <4>1. took' = took \/ took' = [took EXCEPT ![run[p]][k[p]] = Contents(From(p))]
        BY <1>0, TookWhat
      <4>2. took \in [Runs -> [1..MaxPaths -> SUBSET Items]] /\ n \in 1..MaxPaths /\ n # k[p]
        BY <1>0, <1>1, <2>1 DEF Shaped, TypeOK
      <4> QED
        BY <1>1, <4>1, <4>2
    <3> QED
      BY <1>1, <3>1, <3>3, <3>4 DEF Contents
  <2>2. Contents(ThereOf(p, k[p]))' \in {{}, took'[run[p]][k[p]]}
    <3>1. PICK a \in Archives : a = Archived(p)
      BY <1>1
    <3>2. Contents(a)' \in {{}, took'[run[p]][k[p]]}
      BY <1>4, <3>1, CarriesFaithfully
    <3>3. a = ThereOf(p, k[p])'
      BY <1>0, <1>1, <3>1 DEF SameEntry
    <3> QED
      BY <3>2, <3>3 DEF Contents
  <2>3. Faithful(p)'
    <3> SUFFICES ASSUME NEW n \in DOMAIN plan[p] PROVE Contents(ThereOf(p, n))' \in {{}, took'[run[p]][n]}
      BY <1>0 DEF SameEntry, Faithful
    <3>1. CASE n = k[p]
      BY <1>0, <2>2, <3>1 DEF SameEntry
    <3>2. CASE n # k[p]
      BY <1>0, <2>1, <3>2 DEF Faithful
    <3> QED
      BY <3>1, <3>2
  <2>4. Fresh(p)'
    BY <1>0, <1>1, <2>1 DEF SameEntry, Fresh
  <2> QED
    BY <1>2, <2>3, <2>4
<1> QED
  BY <1>0, <1>3, <1>4 DEF Shaped, TypeOK

LEMMA HandlerSafe ==
  ASSUME SafeIInv, NEW p \in Procs, Handles(p), pc'[p] # "idle"
  PROVE  Fresh(p)' /\ Faithful(p)' /\ Careful(p)'
<1>0. Shaped /\ Unused /\ ManifestsFaithful /\ UNCHANGED <<whole, part, took, laid>>
  BY HandlesWhat DEF SafeIInv
<1>1. ASSUME Live(p), UNCHANGED <<mode, run, plan, root>>
      PROVE  /\ Fresh(p) /\ Faithful(p) /\ Careful(p) /\ Faithful(p)'
             /\ \A n \in DOMAIN plan[p] : Contents(ThereOf(p, n))' = Contents(ThereOf(p, n))
  <2>1. \A n \in DOMAIN plan[p] : Contents(ThereOf(p, n))' = Contents(ThereOf(p, n))
    BY <1>0, <1>1 DEF ThereOf, Contents
  <2> QED
    BY <1>0, <1>1, <2>1 DEF SafeIInv, Faithful
<1>2. CASE ChecksOut(p)
  <2>1. /\ Live(p) /\ UNCHANGED <<mode, run, plan, root, k>> /\ mode[p] = "restore" /\ pc'[p] = "move"
        /\ ~Occupied(Original(p))
    BY <1>0, <1>2 DEF ChecksOut, CheckBack, Leave, Goto, Live, Shaped, TypeOK, Working
  <2>2. To(p)' = Original(p)
    BY <2>1 DEF To, Original
  <2>3. Careful(p)'
    BY <1>0, <2>1, <2>2 DEF Careful, Occupied, Contents
  <2> QED
    BY <1>1, <2>1, <2>3 DEF Fresh
<1>3. CASE NextEntry(p)
  <2>1. Live(p) /\ UNCHANGED <<mode, run, plan, root>>
    BY <1>3 DEF NextEntry, Live
  <2>2. plan[p] \in Plans /\ k[p] \in DOMAIN plan[p] /\ run[p] \in Runs
    BY <1>0, <2>1, Ends DEF Shaped, TypeOK
  <2>3. DOMAIN plan[p] = 1..Len(plan[p]) /\ Len(plan[p]) \in Nat /\ k[p] \in 1..Len(plan[p])
    <3>1. DOMAIN plan[p] = 1..Len(plan[p]) /\ Len(plan[p]) \in 0..MaxPaths
      BY <2>2, PlansAreSequences
    <3> QED
      BY <2>2, <3>1, ReclaimBounds
  <2>4. \/ /\ k'[p] = k[p] + 1 /\ k'[p] \in DOMAIN plan[p]
           /\ pc'[p] = IF mode[p] = "reclaim" THEN "move" ELSE "check"
        \/ k'[p] = k[p] /\ pc'[p] = "record"
    BY <1>0, <1>3, <2>3 DEF NextEntry, Goto, Shaped, TypeOK
  <2>5. Fresh(p)'
    <3> SUFFICES ASSUME mode[p] = "reclaim", NEW n \in DOMAIN plan[p],
                        n > k'[p] \/ (n = k'[p] /\ pc'[p] = "move")
                 PROVE  Contents(ThereOf(p, n))' = {}
      BY <2>1 DEF Fresh
    <3>1. n > k[p]
      BY <2>3, <2>4
    <3> QED
      BY <1>1, <2>1, <3>1 DEF Fresh
  <2>6. Careful(p)'
    <3> SUFFICES ASSUME pc'[p] = "move" PROVE Contents(To(p))' = {}
      BY <2>4 DEF Careful
    <3>1. mode[p] = "reclaim" /\ k'[p] \in DOMAIN plan[p]
      BY <2>4
    <3>2. PICK n \in DOMAIN plan[p] : n = k'[p]
      BY <3>1
    <3>3. Contents(ThereOf(p, n))' = {}
      BY <2>1, <2>5, <3>1, <3>2 DEF Fresh
    <3>4. To(p)' = ThereOf(p, n)'
      BY <2>1, <3>1, <3>2 DEF To, Archived, Original, ThereOf
    <3> QED
      BY <3>3, <3>4 DEF Contents
  <2> QED
    BY <1>1, <2>1, <2>5, <2>6
<1>4. CASE OpenManifest(p)
  <2>1. Live(p) /\ UNCHANGED <<mode, run, plan, root, k>> /\ pc'[p] = "recording"
    BY <1>0, <1>4 DEF OpenManifest, Live, Goto, Shaped, TypeOK
  <2> QED
    BY <1>1, <2>1 DEF Fresh, Careful
<1>5. CASE \E paths \in Plans, base \in Roots : PlanReclaim(p, paths, base)
  <2> PICK paths \in Plans, base \in Roots : PlanReclaim(p, paths, base)
    BY <1>5
  <2>1. /\ pc'[p] = "move" /\ mode'[p] = "reclaim" /\ k'[p] = 1 /\ plan'[p] = paths /\ run'[p] = runs + 1
        /\ root'[p] = base /\ paths # <<>>
    BY <1>0 DEF PlanReclaim, Goto, Shaped, TypeOK, Working, Live
  <2>2. runs + 1 \in Runs /\ runs + 1 > runs
    BY <1>0, ReclaimBounds DEF PlanReclaim, Shaped, TypeOK, Runs
  <2>3. ASSUME NEW n \in DOMAIN paths PROVE Contents(ThereOf(p, n))' = {}
    <3>1. paths[n] \in Originals
      BY PlansAreSequences
    <3>2. PICK a \in Archives : a = ArchiveDestination(paths[n], runs + 1, base) /\ a.run = runs + 1
      BY <2>2, <3>1, ArchivePlaces
    <3>3. Contents(a) = {}
      BY <1>0, <2>2, <3>2 DEF Unused
    <3>4. ThereOf(p, n)' = a
      BY <2>1, <3>2 DEF ThereOf, ArchiveDestination
    <3> QED
      BY <1>0, <3>3, <3>4 DEF Contents
  <2>4. 1 \in DOMAIN paths
    BY <2>1, PlansAreSequences
  <2>5. To(p)' = ThereOf(p, 1)'
    BY <2>1 DEF To, ThereOf, Archived, Original
  <2>6. Contents(To(p))' = {}
    BY <2>3, <2>4, <2>5 DEF Contents
  <2> QED
    BY <2>1, <2>3, <2>6 DEF Fresh, Faithful, Careful
<1>6. CASE \E r \in Runs : StartRestore(p, r)
  <2> PICK r \in Runs : StartRestore(p, r)
    BY <1>6
  <2>1. /\ pc'[p] = "check" /\ mode'[p] = "restore" /\ run'[p] = r /\ plan'[p] = manifest[r].plan
        /\ root'[p] = manifest[r].root /\ manifest[r].state = "whole"
    BY <1>0 DEF StartRestore, Goto, Shaped, TypeOK
  <2>2. Faithful(p)'
    BY <1>0, <2>1 DEF Faithful, ManifestsFaithful, ThereOf, Contents, ArchiveDestination
  <2> QED
    BY <2>1, <2>2 DEF Fresh, Careful
<1>7. CASE Abandons(p) \/ WriteManifest(p)
  BY <1>0, <1>7 DEF Abandons, WriteManifest, Leave, Goto, Shaped, TypeOK
<1> QED
  BY <1>2, <1>3, <1>4, <1>5, <1>6, <1>7 DEF Handles

LEMMA ManifestsStayFaithful == SafeIInv /\ [Next]_vars => ManifestsFaithful'
<1> SUFFICES ASSUME SafeIInv, [Next]_vars, NEW r \in Runs, manifest'[r].state = "whole",
                    NEW n \in DOMAIN manifest'[r].plan
             PROVE  Contents(ArchiveDestination(manifest[r].plan[n], r, manifest[r].root))' \in {{}, took'[r][n]}
  BY DEF ManifestsFaithful
<1>0. Shaped
  BY DEF SafeIInv
<1>1. CASE manifest'[r] = manifest[r]
  <2>1. manifest[r].plan \in Plans /\ manifest[r].root \in Roots
    BY <1>0 DEF Shaped, TypeOK, Manifests
  <2>2. manifest[r].plan[n] \in Originals
    BY <1>1, <2>1, PlansAreSequences
  <2>3. PICK a \in Archives : a = ArchiveDestination(manifest[r].plan[n], r, manifest[r].root) /\ a.run = r
    BY <2>1, <2>2, ArchivePlaces
  <2>4. Contents(a) \in {{}, took[r][n]}
    BY <1>1, <2>3 DEF SafeIInv, ManifestsFaithful
  <2>5. AtRest(r)
    BY <1>0, <1>1, RunsAtRest
  <2>6. Contents(a)' \in {{}, Contents(a)} /\ took'[r] = took[r]
    BY <1>0, <2>3, <2>5, ArchivesShrink
  <2>7. a = ArchiveDestination(manifest'[r].plan[n], r, manifest'[r].root)
    BY <1>1, <2>3
  <2> QED
    BY <2>4, <2>6, <2>7 DEF Contents, ArchiveDestination
<1>2. CASE manifest'[r] # manifest[r]
  <2>1. PICK p \in Procs : StepOf(p) /\ manifest' # manifest
    BY <1>0, <1>2, StepKinds DEF Creates, Create, vars, disk
  <2>2. OpenManifest(p) \/ WriteManifest(p)
    BY <1>0, <2>1, CarriesOn DEF StepOf, Handles, Abandons, ChecksOut, CheckBack, NextEntry, PlanReclaim,
                                StartRestore, disk
  <2>3. Live(p) /\ run[p] \in Runs
    BY <1>0, <2>2, Ends DEF OpenManifest, WriteManifest, Live
  <2>4. WriteManifest(p)
    BY <1>0, <1>2, <2>2, <2>3 DEF OpenManifest, NoManifest, Shaped, TypeOK
  <2>5. /\ run[p] = r /\ UNCHANGED <<whole, part, took, laid>>
        /\ manifest'[r] = [state |-> "whole", plan |-> plan[p], root |-> root[p], restored |-> mode[p] = "restore"]
    BY <1>0, <1>2, <2>3, <2>4 DEF WriteManifest, Shaped, TypeOK
  <2>6. manifest'[r].plan = plan[p] /\ manifest'[r].root = root[p]
    BY <2>5
  <2>7. Contents(ThereOf(p, n)) \in {{}, took[r][n]}
    BY <2>3, <2>5, <2>6 DEF SafeIInv, Faithful
  <2>8. PICK a \in Archives : a = ThereOf(p, n)
    BY <1>0, <2>3, <2>6, Ends
  <2>9. a = ArchiveDestination(manifest'[r].plan[n], r, manifest'[r].root)
    BY <2>5, <2>6, <2>8 DEF ThereOf
  <2> QED
    BY <2>5, <2>7, <2>8, <2>9 DEF Contents, ArchiveDestination
<1> QED
  BY <1>1, <1>2

LEMMA SafeStays ==
  ASSUME SafeIInv, [Next]_vars, ~SameNames
  PROVE  SafeIInv'
<1>0. Shaped
  BY DEF SafeIInv
<1>1. Shaped' /\ Distinct' /\ Unused' /\ ManifestsFaithful'
  BY <1>0, NextShaped, DistinctStays, UnusedStays, ManifestsStayFaithful
<1>2. ASSUME NEW q \in Procs, Live(q)' PROVE Fresh(q)' /\ Faithful(q)' /\ Careful(q)'
  <2>1. ASSUME NEW p \in Procs, StepOf(p) PROVE Fresh(q)' /\ Faithful(q)' /\ Careful(q)'
    <3>1. CASE q = p
      BY <1>2, <2>1, <3>1, CarrierSafe, HandlerSafe DEF StepOf, Live
    <3>2. CASE q # p
      <4>1. Live(q)
        BY <1>0, <1>2, <2>1, <3>2, CarriesOn, HandlesWhat DEF StepOf, OthersStay, Live
      <4> QED
        BY <2>1, <3>2, <4>1, BystanderSafe
    <3> QED
      BY <3>1, <3>2
  <2>2. CASE Creates
    <3>1. Live(q)
      BY <1>2, <2>2 DEF Creates, Create, local, Live
    <3> QED
      BY <2>2, <3>1, CreatesSafe
  <2>3. CASE UNCHANGED vars
    <3>1. Live(q) /\ UNCHANGED <<whole, part, took, laid, pc, mode, run, plan, root, k, disturbed>>
      BY <1>2, <2>3 DEF vars, disk, local, Live
    <3>2. Fresh(q) /\ Faithful(q) /\ Careful(q)
      BY <3>1 DEF SafeIInv
    <3> QED
      BY <3>1, <3>2 DEF Fresh, Faithful, Careful, Contents, ThereOf, From, To, Archived, Original,
                        ArchiveDestination
  <2> QED
    BY <1>0, <2>1, <2>2, <2>3, StepKinds
<1> QED
  BY <1>1, <1>2 DEF SafeIInv

LEMMA InitSafe == Init => SafeIInv
<1> SUFFICES ASSUME Init PROVE SafeIInv
  OBVIOUS
<1>1. Shaped
  BY InitShaped
<1>2. Distinct /\ ManifestsFaithful
  BY DEF Init, Distinct, Named, ManifestsFaithful, NoManifest
<1>3. Unused
  BY DEF Init, Unused, Archives, Contents
<1>4. \A p \in Procs : ~Live(p)
  BY DEF Init, Live
<1> QED
  BY <1>1, <1>2, <1>3, <1>4 DEF SafeIInv

-----------------------------------------------------------------------------
(* What the steps may not do. *)
LEMMA StepUnlinksNothing ==
  ASSUME SafeIInv, [Next]_vars, NEW i \in Items, NEW pl \in Places, i \in whole[pl]
  PROVE  \/ \E there \in Places : i \in whole'[there]
         \/ \E p \in disturbed : pl \in {From(p), To(p)}
<1>0. Shaped
  BY DEF SafeIInv
<1>1. ASSUME NEW p \in Procs, Carries(p), pl = From(p) \/ pl = To(p), p \notin disturbed
      PROVE  \E there \in Places : i \in whole'[there]
  <2>1. /\ Live(p) /\ Careful(p)
        /\ From(p) # To(p) /\ From(p) \in Places /\ To(p) \in Places
    BY <1>0, <1>1, CarriesOn, Ends DEF SafeIInv
  <2>2. CASE Renames(p)
    <3>1. pc[p] = "move" /\ whole' = [whole EXCEPT ![To(p)] = whole[From(p)], ![From(p)] = {}]
      BY <1>0, <2>2 DEF Renames, Rename, Leave, Goto, Shaped, TypeOK
    <3>2. pl = From(p)
      BY <1>1, <2>1, <3>1 DEF Careful, Contents
    <3>3. i \in whole'[To(p)]
      BY <1>0, <2>1, <3>1, <3>2 DEF Shaped, TypeOK
    <3> QED
      BY <2>1, <3>3
  <2>3. CASE Copies(p)
    <3>1. pc[p] = "move" /\ whole' = [whole EXCEPT ![To(p)] = IF HoldsDir(To(p)) THEN @ ELSE {}]
      BY <1>0, <2>3 DEF Copies, StartCopy, Leave, Goto, Shaped, TypeOK
    <3>2. pl = From(p)
      BY <1>1, <2>1, <3>1 DEF Careful, Contents
    <3>3. i \in whole'[From(p)]
      BY <1>0, <2>1, <3>1, <3>2 DEF Shaped, TypeOK
    <3> QED
      BY <2>1, <3>3
  <2>4. CASE Finishes(p)
    <3>1. PICK copied \in IF p \in disturbed THEN SUBSET (whole[From(p)] \cap part[To(p)]) ELSE {whole[From(p)]} :
            whole' = [whole EXCEPT ![To(p)] = @ \cup copied]
      BY <1>0, <2>4 DEF Finishes, FinishCopy, Leave, Goto, Shaped, TypeOK
    <3>2. i \in whole'[pl]
      BY <1>0, <2>1, <3>1 DEF Shaped, TypeOK
    <3> QED
      BY <3>2
  <2>5. CASE DeleteSome(p) \/ DeleteSource(p)
    <3>1. pc[p] = "delete" /\ whole' = [whole EXCEPT ![From(p)] = {}]
      BY <2>5 DEF DeleteSome, DeleteSource
    <3>2. i \in whole[To(p)]
      BY <1>1, <2>1, <3>1 DEF Careful
    <3>3. i \in whole'[To(p)]
      BY <1>0, <2>1, <3>1, <3>2 DEF Shaped, TypeOK
    <3> QED
      BY <2>1, <3>3
  <2> QED
    BY <1>1, <2>2, <2>3, <2>4, <2>5 DEF Carries
<1>2. ASSUME NEW p \in Procs, Carries(p), pl # From(p), pl # To(p) PROVE i \in whole'[pl]
  BY <1>0, <1>2, CarriesWhat
<1>3. ASSUME NEW p \in Procs, Handles(p) PROVE i \in whole'[pl]
  BY <1>0, <1>3, HandlesWhat
<1>4. CASE Creates
  <2> PICK o \in Originals, new \in Items : Create(o, new)
    BY <1>4 DEF Creates
  <2>1. pl # o
    BY DEF Create, Occupied
  <2>2. i \in whole'[pl]
    BY <1>0, <2>1 DEF Create, Shaped, TypeOK
  <2> QED
    BY <2>2
<1>5. CASE UNCHANGED vars
  BY <1>5 DEF vars, disk
<1> QED
  BY <1>0, <1>1, <1>2, <1>3, <1>4, <1>5, StepKinds DEF StepOf

(* What was put in the archive whole is whole there until a restore has put  *)
(* it back, which is when it begins to remove it.                            *)
Kept ==
  /\ \A a \in Archives : laid[a] \subseteq whole[a]
  /\ \A p \in Procs : mode[p] = "restore" /\ pc[p] = "delete" => laid[Archived(p)] = {}

LEMMA CarriesKeep ==
  ASSUME SafeIInv, Kept, NEW p \in Procs, Carries(p), NEW a \in Archives
  PROVE  laid'[a] \subseteq whole'[a]
<1>0. Shaped /\ Live(p) /\ Fresh(p)
  BY CarriesOn DEF SafeIInv
<1>1. /\ From(p) \in Places /\ To(p) \in Places /\ From(p) # To(p) /\ a \in Places /\ a \notin Originals
      /\ Original(p) \in Originals /\ k[p] \in DOMAIN plan[p] /\ Archived(p) = ThereOf(p, k[p])
  BY <1>0, Ends DEF Archives, ThereOf, Archived, Original
<1>2. /\ whole \in [Places -> SUBSET Items] /\ laid \in [Places -> SUBSET Items]
      /\ mode[p] \in {"reclaim", "restore"} /\ laid[a] \subseteq whole[a]
  BY <1>0 DEF Shaped, TypeOK, Kept
<1>3. CASE Renames(p)
  <2>1. whole' = [whole EXCEPT ![To(p)] = whole[From(p)], ![From(p)] = {}] /\ Settles(p)
    BY <1>0, <1>3 DEF Renames, Rename, Leave, Goto, Shaped, TypeOK
  <2>2. CASE mode[p] = "restore"
    <3>1. laid' = [laid EXCEPT ![From(p)] = {}] /\ To(p) = Original(p)
      BY <2>1, <2>2 DEF Settles, To
    <3> QED
      BY <1>1, <1>2, <2>1, <3>1
  <2>3. CASE mode[p] = "reclaim"
    <3>1. From(p) = Original(p) /\ laid' = [laid EXCEPT ![To(p)] = IF p \in disturbed THEN {} ELSE whole[From(p)]]
      BY <2>1, <2>3 DEF Settles, From
    <3> QED
      BY <1>1, <1>2, <2>1, <3>1
  <2> QED
    BY <1>2, <2>2, <2>3
<1>4. CASE Copies(p)
  <2>1. /\ whole' = [whole EXCEPT ![To(p)] = IF HoldsDir(To(p)) THEN @ ELSE {}]
        /\ pc[p] = "move" /\ laid' = laid
    BY <1>0, <1>4 DEF Copies, StartCopy, Leave, Goto, Shaped, TypeOK
  <2>2. CASE a = To(p)
    <3>1. mode[p] = "reclaim" /\ a = ThereOf(p, k[p])
      BY <1>1, <1>2, <2>2 DEF To
    <3>2. Contents(ThereOf(p, k[p])) = {}
      BY <1>0, <1>1, <2>1, <3>1 DEF Fresh
    <3>3. laid[a] = {}
      BY <1>2, <3>1, <3>2 DEF Contents
    <3> QED
      BY <2>1, <3>3
  <2>3. CASE a # To(p)
    BY <1>1, <1>2, <2>1, <2>3
  <2> QED
    BY <2>2, <2>3
<1>5. CASE Finishes(p)
  <2>1. PICK copied \in IF p \in disturbed THEN SUBSET (whole[From(p)] \cap part[To(p)]) ELSE {whole[From(p)]} :
          whole' = [whole EXCEPT ![To(p)] = @ \cup copied]
    BY <1>0, <1>5 DEF Finishes, FinishCopy, Leave, Goto, Shaped, TypeOK
  <2>2. Settles(p)
    BY <1>0, <1>5 DEF Finishes, FinishCopy, Leave, Goto, Shaped, TypeOK
  <2>3. whole[a] \subseteq whole'[a] /\ (p \notin disturbed => whole[From(p)] \subseteq whole'[To(p)])
    BY <1>1, <1>2, <2>1
  <2>4. laid'[a] \in {laid[a], {}} \/ (a = To(p) /\ p \notin disturbed /\ laid'[a] = whole[From(p)])
    <3>1. CASE mode[p] = "restore"
      BY <1>1, <1>2, <2>2, <3>1 DEF Settles
    <3>2. CASE mode[p] = "reclaim"
      <4>1. laid' = [laid EXCEPT ![To(p)] = IF p \in disturbed THEN {} ELSE whole[From(p)]]
        BY <2>2, <3>2 DEF Settles
      <4> QED
        BY <1>1, <1>2, <4>1
    <3> QED
      BY <1>2, <3>1, <3>2
  <2> QED
    BY <1>2, <2>3, <2>4
<1>6. CASE DeleteSome(p) \/ DeleteSource(p)
  <2>1. pc[p] = "delete" /\ whole' = [whole EXCEPT ![From(p)] = {}] /\ laid' = laid
    BY <1>6 DEF DeleteSome, DeleteSource
  <2>2. a = From(p) => laid[a] = {}
    BY <1>1, <1>2, <2>1 DEF From, Kept
  <2> QED
    BY <1>1, <1>2, <2>1, <2>2
<1> QED
  BY <1>3, <1>4, <1>5, <1>6 DEF Carries

(* What a step does to what was laid down: it is forgotten where a restore   *)
(* has put it back, and only a reclaim adds to it, in the archive of its run.*)
LEMMA LaidWhere ==
  ASSUME Shaped, NEW p \in Procs, Carries(p), NEW a \in Places
  PROVE  /\ mode[p] = "restore" => laid'[a] \in {laid[a], {}}
         /\ a # Archived(p) => laid'[a] = laid[a]
         /\ pc'[p] = "delete" /\ mode[p] = "restore" /\ pc[p] # "delete" => laid'[Archived(p)] = {}
<1>1. Live(p) /\ From(p) \in Places /\ To(p) \in Places /\ Archived(p) \in Places
  BY CarriesOn, Ends DEF Archives
<1>2. laid' = laid \/ Settles(p)
  BY CarriesWhat
<1>3. laid \in [Places -> SUBSET Items] /\ mode[p] \in {"reclaim", "restore"}
  BY DEF Shaped, TypeOK
<1>4. ASSUME Settles(p), mode[p] = "restore" PROVE laid' = [laid EXCEPT ![Archived(p)] = {}]
  BY <1>4 DEF Settles, From
<1>5. ASSUME Settles(p), mode[p] = "reclaim"
      PROVE  laid' = [laid EXCEPT ![Archived(p)] = IF p \in disturbed THEN {} ELSE whole[From(p)]]
  BY <1>5 DEF Settles, To
<1>6. ASSUME pc'[p] = "delete", pc[p] # "delete" PROVE Settles(p)
  <2>1. Finishes(p)
    BY <1>6 DEF Carries, Renames, Copies, DeleteSome, DeleteSource
  <2> QED
    BY <2>1 DEF Finishes, FinishCopy, Leave, Goto, Shaped, TypeOK
<1> QED
  BY <1>1, <1>2, <1>3, <1>4, <1>5, <1>6

LEMMA KeptStays == SafeIInv /\ Kept /\ [Next]_vars => Kept'
<1> SUFFICES ASSUME SafeIInv, Kept, [Next]_vars PROVE Kept'
  OBVIOUS
<1>0. Shaped /\ \A p \in Procs : Live(p) => Archived(p) \in Archives /\ Archived(p).run = run[p]
  BY Ends DEF SafeIInv
<1>1. ASSUME NEW a \in Archives PROVE laid'[a] \subseteq whole'[a]
  <2>1. CASE UNCHANGED <<whole, laid>>
    BY <2>1 DEF Kept
  <2>2. CASE Creates
    <3>1. laid' = laid /\ whole'[a] = whole[a]
      BY <1>0, <2>2 DEF Creates, Create, Archives, Shaped, TypeOK
    <3> QED
      BY <3>1 DEF Kept
  <2> QED
    BY <1>0, <2>1, <2>2, StepKinds, HandlesWhat, CarriesKeep DEF StepOf, vars, disk
<1>2. ASSUME NEW q \in Procs, mode'[q] = "restore", pc'[q] = "delete" PROVE laid'[Archived(q)'] = {}
  <2>1. CASE UNCHANGED <<laid, pc, mode, run, plan, root, k>>
    BY <1>2, <2>1 DEF Kept, Archived, Original, ArchiveDestination
  <2>2. ASSUME NEW p \in Procs, StepOf(p) PROVE laid'[Archived(q)'] = {}
    <3>1. OthersStay(p)
      BY <1>0, <2>2, CarriesOn, HandlesWhat DEF StepOf
    <3>2. CASE q = p
      <4>1. Carries(p)
        BY <1>0, <1>2, <2>2, <3>2 DEF StepOf, Handles, Abandons, ChecksOut, NextEntry, OpenManifest, WriteManifest,
                                      PlanReclaim, StartRestore, Leave, Goto, Shaped, TypeOK
      <4>2. Live(p) /\ mode[p] = "restore" /\ Archived(p)' = Archived(p)
        BY <1>0, <1>2, <3>2, <4>1, CarriesOn DEF SameEntry, Archived, Original, ArchiveDestination
      <4>3. PICK a \in Archives : a = Archived(p)
        BY <1>0, <4>2
      <4>4. laid'[a] = {}
        BY <1>0, <1>2, <3>2, <4>1, <4>2, <4>3, LaidWhere DEF Kept, Archives
      <4> QED
        BY <3>2, <4>2, <4>3, <4>4
    <3>3. CASE q # p
      <4>1. /\ mode[q] = "restore" /\ pc[q] = "delete" /\ Archived(q)' = Archived(q) /\ Live(q)
        BY <1>2, <3>1, <3>3 DEF OthersStay, Archived, Original, ArchiveDestination, Live
      <4>2. PICK a \in Archives : a = Archived(q) /\ a.run = run[q]
        BY <1>0, <4>1
      <4>3. laid[a] = {} /\ a \in Places
        BY <4>1, <4>2 DEF Kept, Archives
      <4>4. laid'[a] = {}
        <5>1. CASE Handles(p)
          BY <1>0, <4>3, <5>1, HandlesWhat
        <5>2. CASE Carries(p)
          <6>1. Live(p) /\ Archived(p).run = run[p] /\ mode[p] \in {"reclaim", "restore"}
            BY <1>0, <5>2, CarriesOn DEF Shaped, TypeOK
          <6>2. CASE mode[p] = "reclaim"
            <7>1. run[q] # run[p]
              BY <1>0, <3>3, <4>1, <6>1, <6>2 DEF Shaped, Separate
            <7> QED
              BY <1>0, <4>2, <4>3, <5>2, <6>1, <7>1, LaidWhere
          <6>3. CASE mode[p] = "restore"
            BY <1>0, <4>3, <5>2, <6>3, LaidWhere
          <6> QED
            BY <6>1, <6>2, <6>3
        <5> QED
          BY <2>2, <5>1, <5>2 DEF StepOf
      <4> QED
        BY <4>1, <4>2, <4>4
    <3> QED
      BY <3>2, <3>3
  <2>3. CASE Creates
    BY <2>1, <2>3 DEF Creates, Create, local
  <2> QED
    BY <1>0, <2>1, <2>2, <2>3, StepKinds DEF vars, local
<1> QED
  BY <1>1, <1>2 DEF Kept

LEMMA StepReturnsWhatWasTaken ==
  ASSUME SafeIInv, Kept, [Next]_vars, NEW p \in Procs, p \notin disturbed, mode[p] = "restore",
         pc[p] \in {"move", "copy"}, pc'[p] \in {"next", "delete"}
  PROVE  /\ whole'[Original(p)] \cup part'[Original(p)] = took[run[p]][k[p]]
         /\ laid[Archived(p)] \subseteq whole'[Original(p)]
<1>0. Shaped /\ Live(p) /\ Faithful(p) /\ Careful(p)
  BY DEF SafeIInv, Live
<1>1. /\ To(p) = Original(p) /\ From(p) = ThereOf(p, k[p]) /\ k[p] \in DOMAIN plan[p]
      /\ From(p) # To(p) /\ From(p) \in Places /\ To(p) \in Places
      /\ From(p) = Archived(p) /\ Archived(p) \in Archives
  BY <1>0, Ends DEF To, From, Archived, Original, ThereOf
<1>2. /\ Contents(From(p)) # {} => Contents(From(p)) = took[run[p]][k[p]]
      /\ laid[Archived(p)] \subseteq whole[From(p)]
  BY <1>0, <1>1 DEF Faithful, Kept
<1>3. StepOf(p)
  <2>1. PICK q \in Procs : StepOf(q)
    BY <1>0, StepKinds DEF Creates, Create, local, vars
  <2>2. OthersStay(q)
    BY <1>0, <2>1, CarriesOn, HandlesWhat DEF StepOf
  <2> QED
    BY <2>1, <2>2 DEF OthersStay
<1>4. Renames(p) \/ Finishes(p)
  <2>1. ~Handles(p)
    BY <1>0 DEF Handles, Abandons, ChecksOut, CheckBack, NextEntry, OpenManifest, WriteManifest, PlanReclaim,
                StartRestore, Leave, Goto, Shaped, TypeOK
  <2> QED
    BY <1>3, <2>1 DEF StepOf, Carries, Copies, DeleteSome, DeleteSource
<1>5. CASE Renames(p)
  <2>1. /\ Occupied(From(p))
        /\ whole' = [whole EXCEPT ![To(p)] = whole[From(p)], ![From(p)] = {}]
        /\ part' = [part EXCEPT ![To(p)] = part[From(p)], ![From(p)] = {}]
    BY <1>0, <1>5 DEF Renames, Rename, Leave, Goto, Shaped, TypeOK
  <2>2. /\ whole'[To(p)] \cup part'[To(p)] = Contents(From(p)) /\ Contents(From(p)) # {}
        /\ whole'[To(p)] = whole[From(p)]
    BY <1>0, <1>1, <2>1 DEF Occupied, Contents, Shaped, TypeOK
  <2> QED
    BY <1>1, <1>2, <2>2
<1>6. CASE Finishes(p)
  <2>1. pc[p] = "copy" /\ Contents(To(p)) = Contents(From(p)) /\ Contents(From(p)) # {}
    BY <1>0, <1>6 DEF Finishes, FinishCopy, Careful
  <2>2. /\ whole' = [whole EXCEPT ![To(p)] = @ \cup whole[From(p)]]
        /\ part' = [part EXCEPT ![To(p)] = @ \ whole[From(p)]]
    BY <1>0, <1>6 DEF Finishes, FinishCopy
  <2>3. /\ whole'[To(p)] = whole[To(p)] \cup whole[From(p)]
        /\ part'[To(p)] = part[To(p)] \ whole[From(p)]
    BY <1>0, <1>1, <2>2 DEF Shaped, TypeOK
  <2>4. whole[From(p)] \subseteq Contents(From(p))
    BY DEF Contents
  <2>5. whole'[To(p)] \cup part'[To(p)] = Contents(From(p))
    BY <2>1, <2>3, <2>4 DEF Contents
  <2> QED
    BY <1>1, <1>2, <2>1, <2>3, <2>5
<1> QED
  BY <1>4, <1>5, <1>6

(* "only ever moves, never unlinks user data" (NothingUnlinked), where one   *)
(* run is not given two paths of one name: an item that is whole somewhere   *)
(* stays whole somewhere, over crashes and commands side by side, but where  *)
(* somebody else has changed the place a process moves from or to since it   *)
(* looked.                                                                   *)
THEOREM ReclaimOnlyMoves ==
  ASSUME ~SameNames
  PROVE  Spec => NothingUnlinked
<1>1. SafeIInv /\ [Next]_vars => SafeIInv'
  BY SafeStays
<1>2. SafeIInv /\ [Next]_vars =>
        [\A i \in Items : \A pl \in Places :
           i \in whole[pl] =>
             \/ \E there \in Places : i \in whole'[there]
             \/ \E p \in disturbed : pl \in {From(p), To(p)}]_vars
  BY StepUnlinksNothing
<1> QED
  BY <1>1, <1>2, InitSafe, PTL DEF Spec, NothingUnlinked

(* The step of a restore that puts an entry in place leaves there what its   *)
(* run moved away from it (RestoreReturnsWhatWasTaken), whatever other runs  *)
(* moved away from the same place, if nobody else uses the place meanwhile,  *)
(* and whole what was whole then, unless an earlier restore put it back and  *)
(* was stopped with a remnant left in the archive.                           *)
THEOREM RestoreReturns ==
  ASSUME ~SameNames
  PROVE  Spec => RestoreReturnsWhatWasTaken
<1>1. Init => SafeIInv /\ Kept
  <2>1. Init => Kept
    BY DEF Init, Kept, Archives
  <2> QED
    BY <2>1, InitSafe
<1>2. SafeIInv /\ Kept /\ [Next]_vars => SafeIInv' /\ Kept'
  BY SafeStays, KeptStays
<1>3. SafeIInv /\ Kept /\ [Next]_vars =>
        [\A p \in Procs :
           p \notin disturbed /\ mode[p] = "restore" /\ pc[p] \in {"move", "copy"} /\ pc'[p] \in {"next", "delete"}
           => /\ whole'[Original(p)] \cup part'[Original(p)] = took[run[p]][k[p]]
              /\ laid[Archived(p)] \subseteq whole'[Original(p)]]_vars
  BY StepReturnsWhatWasTaken
<1> QED
  BY <1>1, <1>2, <1>3, PTL DEF Spec, RestoreReturnsWhatWasTaken

=============================================================================
