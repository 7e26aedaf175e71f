----------------------------- MODULE SweepProofs ----------------------------
(***************************************************************************)
(* sweep loses no file: one command that sweeps locally and one that       *)
(* streams to the remote, on any directories, side by side on the same     *)
(* one, killed and failing anywhere and run again, with any edits and any  *)
(* entries that arrive altered.                                            *)
(***************************************************************************)
EXTENDS Sweep, TLAPS

(* The circumstances: at most one process of either kind.  Two local sweeps  *)
(* of one directory take the temporary name from each other.                 *)
OneOfEach ==
  /\ \A p, q \in Sweepers : p = q
  /\ \A p, q \in Streamers : p = q
  /\ Sweepers \cap Streamers = {}

(* The names that a process creates, renames and removes. *)
Own(p)   == IF p \in Sweepers THEN {"sweeping", "tar"} ELSE {"streaming", "remote"}
Temp(p)  == IF p \in Sweepers THEN "sweeping" ELSE "streaming"
Final(p) == IF p \in Sweepers THEN "tar" ELSE "remote"
Reads(p) == IF p \in Sweepers THEN Names \ DirLinks ELSE Names
Finals   == {"tar", "remote"}

-----------------------------------------------------------------------------
(* The inductive invariant.  No two names are one file; a process has open   *)
(* only the temporary name of its directory; the final name is free until it *)
(* renames; and what it has copied of an entry is what the directory holds,  *)
(* unless the entry is gone or was edited too late.                          *)
Distinct ==
  \A d, e \in Dirs, x, y \in Paths :
    path[d][x] = path[e][y] /\ path[d][x] # NoFile => d = e /\ x = y

Staged(p) ==
  pc[p] \in IF p \in Sweepers THEN {"idle", "planned", "open", "build", "rename", "remove", "unlink"}
            ELSE {"idle", "planned", "open", "stream", "readback", "publish", "remove", "unlink"}

Opened(p) ==
  /\ pc[p] \in {"build", "stream"} => fd[p] = path[job[p]][Temp(p)] /\ fd[p] # NoFile
  /\ pc[p] \notin {"build", "stream"} => fd[p] = NoFile

FinalFree(p) ==
  pc[p] \in {"open", "build", "rename", "stream", "readback", "publish"} => path[job[p]][Final(p)] = NoFile

Safe(p, n, tree) == n \in late[p] \/ src[job[p]][n] \in {NoEntry, tree[n]}

Copied(p) ==
  \A n \in Reads(p) :
    /\ pc[p] = "build" => n \in todo[p] \/ Safe(p, n, Holds(job[p], Temp(p)))
    /\ pc[p] = "stream" => n \in todo[p] \/ Safe(p, n, sent[p])
    /\ pc[p] = "readback" => Safe(p, n, sent[p])
    /\ pc[p] \in {"rename", "publish"} => Safe(p, n, Holds(job[p], Temp(p)))
    /\ pc[p] \in {"remove", "unlink"} => Safe(p, n, Holds(job[p], Final(p)))

Mine(p) == Staged(p) /\ Opened(p) /\ FinalFree(p) /\ Copied(p)

IInv == TypeOK /\ Distinct /\ (\A p \in Procs : Mine(p)) /\ NoFileLost

-----------------------------------------------------------------------------
(* What a step of one process leaves alone. *)
OthersStay(p) ==
  \A q \in Procs \ {p} :
    /\ pc'[q] = pc[q] /\ job'[q] = job[q] /\ fd'[q] = fd[q]
    /\ todo'[q] = todo[q] /\ sent'[q] = sent[q] /\ late'[q] = late[q]

NamesStay(p) ==
  \A d \in Dirs, x \in Paths \ Own(p) : path'[d][x] = path[d][x] /\ Holds(d, x)' = Holds(d, x)

(* What is published stays as it is. *)
FinalStays ==
  \A d \in Dirs, x \in Finals :
    path[d][x] # NoFile => path'[d][x] = path[d][x] /\ Holds(d, x)' = Holds(d, x)

LEMMA OwnNames ==
  ASSUME OneOfEach, NEW p \in Procs, NEW q \in Procs \ {p}
  PROVE  /\ Own(p) \subseteq Paths /\ Own(q) \cap Own(p) = {} /\ Temp(q) \in Own(q) /\ Final(q) \in Own(q)
         /\ Temp(p) \in Own(p) /\ Final(p) \in Own(p)
  BY DEF OneOfEach, Own, Temp, Final, Procs, Paths

LEMMA OthersKeepTheirs ==
  ASSUME OneOfEach, TypeOK, NEW p \in Procs, NEW q \in Procs \ {p}, Mine(q), OthersStay(p), NamesStay(p),
         \A n \in Names : src'[job[q]][n] \in {src[job[q]][n], NoEntry}
  PROVE  Mine(q)'
<1>1. /\ Temp(q) \in Paths \ Own(p) /\ Final(q) \in Paths \ Own(p)
  BY OwnNames DEF Own, Paths, Temp, Final, Procs
<1>2. /\ pc'[q] = pc[q] /\ job'[q] = job[q] /\ fd'[q] = fd[q] /\ job[q] \in Dirs
      /\ todo'[q] = todo[q] /\ sent'[q] = sent[q] /\ late'[q] = late[q]
  BY DEF OthersStay, TypeOK
<1>3. /\ path'[job[q]][Temp(q)] = path[job[q]][Temp(q)] /\ Holds(job[q], Temp(q))' = Holds(job[q], Temp(q))
      /\ path'[job[q]][Final(q)] = path[job[q]][Final(q)] /\ Holds(job[q], Final(q))' = Holds(job[q], Final(q))
  BY <1>1, <1>2 DEF NamesStay
<1>4. Staged(q)' /\ Opened(q)' /\ FinalFree(q)'
  BY <1>2, <1>3 DEF Mine, Staged, Opened, FinalFree
<1>5. \A n \in Names : src[job[q]][n] = NoEntry => src'[job'[q]][n] = NoEntry
  BY <1>2
<1>6. \A n \in Names : src'[job'[q]][n] \in {src[job[q]][n], NoEntry}
  BY <1>2
<1>7. Copied(q)'
  <2> Reads(q) \subseteq Names
    BY DEF Reads
  <2> QED
    BY <1>2, <1>3, <1>6 DEF Mine, Copied, Safe
<1> QED
  BY <1>4, <1>7 DEF Mine

LEMMA PublishedKeeps ==
  ASSUME TypeOK, NoFileLost, FinalStays, UNCHANGED <<src, want>>
  PROVE  NoFileLost'
<1> SUFFICES ASSUME NEW d \in Dirs, NEW n \in Names \ DirLinks PROVE Kept(d, n)'
  BY DEF NoFileLost
<1>1. Kept(d, n)
  BY DEF NoFileLost
<1>2. \A x \in Finals : Holds(d, x)[n] = NoEntry \/ Holds(d, x)' = Holds(d, x)
  BY DEF FinalStays, Holds, Empty
<1> QED
  BY <1>1, <1>2 DEF Kept, Finals

(* A step of one process, when what it does itself is right. *)
LEMMA StepKeeps ==
  ASSUME OneOfEach, IInv, NEW p \in Procs, UNCHANGED <<src, want>>,
         TypeOK', Distinct', Mine(p)', OthersStay(p), NamesStay(p), FinalStays
  PROVE  IInv' /\ FinalStays
<1>1. \A q \in Procs \ {p} : Mine(q)'
  BY OthersKeepTheirs DEF IInv, TypeOK
<1> QED
  BY <1>1, PublishedKeeps DEF IInv

-----------------------------------------------------------------------------
(* A command ends: what no name and no open file keeps is gone, the rest is  *)
(* as it was.                                                                *)
LEMMA NamedIsKept ==
  ASSUME TypeOK, path' \in [Dirs -> [Paths -> Inodes \cup {NoFile}]],
         held' = [i \in Inodes |-> IF i \in Live(path', fd') THEN held[i] ELSE Empty]
  PROVE  \A d, e \in Dirs, x, y \in Paths :
           path'[d][x] = path[e][y] =>
             (IF path'[d][x] = NoFile THEN Empty ELSE held'[path'[d][x]]) = Holds(e, y)
<1> TAKE d, e \in Dirs, x, y \in Paths
<1>1. path'[d][x] \in Live(path', fd')
  BY DEF Live
<1>2. path'[d][x] # NoFile => path'[d][x] \in Inodes
  OBVIOUS
<1> QED
  BY <1>1, <1>2 DEF Holds

(* The names that a command leaves behind: as they were, without its         *)
(* temporary one, or with that renamed to a final name that was free.        *)
Renamed(p) == Moved(job[p], Temp(p), Final(p)) /\ path[job[p]][Temp(p)] # NoFile /\ path[job[p]][Final(p)] = NoFile
Dropped(p) == Unlinked(job[p], Temp(p))

LEMMA NamesAfter ==
  ASSUME OneOfEach, TypeOK, Distinct, NEW p \in Procs, UNCHANGED path \/ Dropped(p) \/ Renamed(p)
  PROVE  /\ path' \in [Dirs -> [Paths -> Inodes \cup {NoFile}]] /\ Distinct'
         /\ \A d \in Dirs, x \in Paths \ Own(p) : path'[d][x] = path[d][x]
         /\ \A d \in Dirs, x \in Finals : path[d][x] # NoFile => path'[d][x] = path[d][x]
         /\ Renamed(p) => path'[job[p]][Final(p)] = path[job[p]][Temp(p)]
         /\ ~Renamed(p) => \A d \in Dirs, x \in Finals : path'[d][x] = path[d][x]
<1>1. job[p] \in Dirs /\ Temp(p) \in Own(p) /\ Final(p) \in Own(p) /\ Temp(p) \notin Finals /\ Final(p) \in Finals
      /\ Own(p) \subseteq Paths /\ Finals \subseteq Paths /\ Temp(p) # Final(p)
  BY DEF TypeOK, Temp, Final, Own, Finals, Paths
<1>2. CASE UNCHANGED path
  <2>1. ASSUME Renamed(p) PROVE FALSE
    <3>1. path'[job[p]][Final(p)] = path[job[p]][Temp(p)]
      BY <1>1, <2>1 DEF Renamed, Moved, TypeOK
    <3> QED
      BY <1>2, <2>1, <3>1 DEF Renamed
  <2>2. path' \in [Dirs -> [Paths -> Inodes \cup {NoFile}]] /\ Distinct'
    BY <1>2 DEF TypeOK, Distinct
  <2> QED
    BY <1>2, <2>1, <2>2
<1>3. CASE Dropped(p)
  <2>1. path' = [path EXCEPT ![job[p]][Temp(p)] = NoFile]
    BY <1>3 DEF Dropped, Unlinked
  <2>2. \A d \in Dirs, x \in Paths : path'[d][x] = IF d = job[p] /\ x = Temp(p) THEN NoFile ELSE path[d][x]
    BY <1>1, <2>1 DEF TypeOK
  <2>3. path' \in [Dirs -> [Paths -> Inodes \cup {NoFile}]]
    BY <1>1, <2>1 DEF TypeOK
  <2>4. Distinct'
    BY <2>2 DEF Distinct
  <2>5. ASSUME Renamed(p) PROVE FALSE
    <3>1. path'[job[p]][Final(p)] = path[job[p]][Final(p)]
      BY <1>1, <2>2
    <3>2. path'[job[p]][Final(p)] = path[job[p]][Temp(p)]
      BY <1>1, <2>5 DEF Renamed, Moved, TypeOK
    <3> QED
      BY <2>5, <3>1, <3>2 DEF Renamed
  <2>6. \A d \in Dirs, x \in Paths \ {Temp(p)} : path'[d][x] = path[d][x]
    BY <1>1, <2>2
  <2>7. ~Renamed(p)
    BY <2>5
  <2>8. /\ \A d \in Dirs, x \in Paths \ Own(p) : path'[d][x] = path[d][x]
        /\ \A d \in Dirs, x \in Finals : path'[d][x] = path[d][x]
    BY <1>1, <2>6
  <2> QED
    BY <2>3, <2>4, <2>7, <2>8
<1>4. CASE Renamed(p)
  <2>1. /\ path' = [path EXCEPT ![job[p]][Final(p)] = path[job[p]][Temp(p)], ![job[p]][Temp(p)] = NoFile]
        /\ path[job[p]][Temp(p)] # NoFile /\ path[job[p]][Final(p)] = NoFile
    BY <1>4 DEF Renamed, Moved
  <2>2. \A d \in Dirs, x \in Paths :
          path'[d][x] = IF d = job[p] /\ x = Temp(p) THEN NoFile
                        ELSE IF d = job[p] /\ x = Final(p) THEN path[job[p]][Temp(p)] ELSE path[d][x]
    BY <1>1, <2>1 DEF TypeOK
  <2>3. path' \in [Dirs -> [Paths -> Inodes \cup {NoFile}]]
    BY <1>1, <2>1 DEF TypeOK
  <2>4. Distinct'
    BY <1>1, <2>1, <2>2 DEF Distinct
  <2> QED
    BY <1>1, <1>4, <2>1, <2>2, <2>3, <2>4
<1> QED
  BY <1>2, <1>3, <1>4

LEMMA LeaveKeeps ==
  ASSUME OneOfEach, IInv, NEW p \in Procs, Leave(p), UNCHANGED <<src, want, edits, garbled>>,
         srcDirs' \subseteq srcDirs, UNCHANGED path \/ Dropped(p) \/ Renamed(p)
  PROVE  IInv' /\ FinalStays
<1> USE DEF IInv
<1>0. TypeOK /\ Distinct /\ AnyDir \in Dirs
  BY DirsAssumption DEF AnyDir
<1>1. /\ path' \in [Dirs -> [Paths -> Inodes \cup {NoFile}]] /\ Distinct'
      /\ \A d \in Dirs, x \in Paths \ Own(p) : path'[d][x] = path[d][x]
      /\ \A d \in Dirs, x \in Finals : path[d][x] # NoFile => path'[d][x] = path[d][x]
  BY <1>0, NamesAfter
<1>2. held' = [i \in Inodes |-> IF i \in Live(path', fd') THEN held[i] ELSE Empty]
  BY DEF Leave
<1>3. held' \in [Inodes -> Tree]
  BY <1>2 DEF TypeOK, Tree, Empty
<1>4. TypeOK'
  BY <1>0, <1>1, <1>3 DEF Leave, Goto, TypeOK, Steps, Tree, Empty
<1>5. \A d \in Dirs, x \in Paths : path'[d][x] = path[d][x] => Holds(d, x)' = Holds(d, x)
  BY <1>0, <1>1, <1>2, NamedIsKept DEF Holds
<1>6. NamesStay(p) /\ FinalStays
  BY <1>1, <1>5 DEF NamesStay, FinalStays, Finals, Paths
<1>7. OthersStay(p)
  BY DEF Leave, Goto, OthersStay, TypeOK
<1>8. Mine(p)'
  <2>1. pc'[p] = "idle" /\ fd'[p] = NoFile
    BY DEF Leave, Goto, TypeOK
  <2> QED
    BY <2>1 DEF Mine, Staged, Opened, FinalFree, Copied
<1> QED
  BY <1>1, <1>4, <1>6, <1>7, <1>8, StepKeeps

(* A step that changes nothing but where its process is and what it lists.   *)
LEMMA OwnStepKeeps ==
  ASSUME OneOfEach, IInv, NEW p \in Procs, UNCHANGED <<store, want>>, OthersStay(p), TypeOK', Mine(p)'
  PROVE  IInv' /\ FinalStays
<1>1. NamesStay(p) /\ FinalStays /\ Distinct'
  BY DEF NamesStay, FinalStays, Holds, Distinct, store, IInv
<1> QED
  BY <1>1, StepKeeps DEF store

LEMMA ConfirmKeeps ==
  ASSUME OneOfEach, IInv, NEW p \in Procs, NEW d \in Dirs,
         \/ p \in Sweepers /\ ConfirmSweep(p, d)
         \/ p \in Streamers /\ \E remove_source \in BOOLEAN : StartStream(p, d, remove_source)
  PROVE  IInv' /\ FinalStays
<1> USE DEF IInv
<1>1. UNCHANGED <<store, env, fd, todo, sent, late>> /\ pc[p] = "idle" /\ Goto(p, "planned") /\ job' = [job EXCEPT ![p] = d]
  BY DEF ConfirmSweep, StartStream
<1>2. TypeOK'
  <2>1. remove' \in [Procs -> BOOLEAN]
    BY DEF ConfirmSweep, StartStream, TypeOK
  <2> QED
    BY <1>1, <2>1 DEF TypeOK, Goto, Steps, store, env
<1>3. OthersStay(p) /\ pc'[p] = "planned" /\ fd'[p] = fd[p]
  BY <1>1 DEF OthersStay, TypeOK, Goto
<1>4. Mine(p)'
  BY <1>1, <1>3 DEF Mine, Staged, Opened, FinalFree, Copied
<1> QED
  BY <1>1, <1>2, <1>3, <1>4, OwnStepKeeps DEF env

LEMMA PreflightKeeps ==
  ASSUME OneOfEach, IInv, NEW p \in Procs, NEW free \in FreeBytes,
         \/ p \in Sweepers /\ Preflight(p, free)
         \/ p \in Streamers /\ RemotePreflight(p, free)
  PROVE  IInv' /\ FinalStays
<1> USE DEF IInv
<1>1. /\ UNCHANGED <<store, job, fd, todo, sent, remove, late, env>> /\ pc[p] = "planned" /\ Goto(p, "open")
      /\ path[job[p]][Final(p)] = NoFile
  BY DEF Preflight, RemotePreflight, Final, OneOfEach
<1>2. TypeOK'
  BY <1>1 DEF TypeOK, Goto, Steps, store, env
<1>3. OthersStay(p) /\ pc'[p] = "open" /\ fd'[p] = fd[p]
  BY <1>1 DEF OthersStay, TypeOK, Goto
<1>4. Mine(p)'
  BY <1>1, <1>3 DEF Mine, Staged, Opened, FinalFree, Copied, store
<1> QED
  BY <1>1, <1>2, <1>3, <1>4, OwnStepKeeps DEF env

LEMMA StreamDoneKeeps ==
  ASSUME OneOfEach, IInv, NEW p \in Streamers, StreamDone(p)
  PROVE  IInv' /\ FinalStays
<1> USE DEF IInv
<1>1. p \in Procs /\ p \notin Sweepers
  BY DEF Procs, OneOfEach
<1>2. TypeOK'
  BY <1>1 DEF StreamDone, TypeOK, Goto, Steps, store, env
<1>3. OthersStay(p) /\ pc'[p] = "readback" /\ fd'[p] = NoFile /\ pc[p] = "stream" /\ todo[p] = {}
      /\ UNCHANGED <<store, job, sent, late, want>>
  BY <1>1 DEF StreamDone, OthersStay, TypeOK, Goto, env
<1>4. Mine(p)'
  BY <1>1, <1>3 DEF Mine, Staged, Opened, FinalFree, Copied, Safe, store
<1> QED
  BY <1>1, <1>2, <1>3, <1>4, OwnStepKeeps

LEMMA CloseTarKeeps ==
  ASSUME OneOfEach, IInv, NEW p \in Sweepers, CloseTar(p)
  PROVE  IInv' /\ FinalStays
<1> USE DEF IInv
<1>1. p \in Procs
  BY DEF Procs
<1>2. CASE Unlinked(job[p], "sweeping") /\ Leave(p)
  <2>1. Dropped(p)
    BY <1>2 DEF Dropped, Temp
  <2> QED
    BY <1>1, <1>2, <2>1, LeaveKeeps DEF CloseTar, env
<1>3. CASE ~(Unlinked(job[p], "sweeping") /\ Leave(p))
  <2>1. UNCHANGED <<store, job, todo, sent, remove, late, env>> /\ fd' = [fd EXCEPT ![p] = NoFile] /\ Goto(p, "rename")
        /\ pc[p] = "build" /\ todo[p] = {}
    BY <1>3 DEF CloseTar, store
  <2>2. TypeOK'
    BY <1>1, <2>1 DEF TypeOK, Goto, Steps, store, env
  <2>3. OthersStay(p) /\ pc'[p] = "rename" /\ fd'[p] = NoFile
    BY <1>1, <2>1 DEF OthersStay, TypeOK, Goto
  <2>4. Holds(job[p], Temp(p))' = Holds(job[p], Temp(p))
    BY <2>1 DEF Holds, store, Temp
  <2>5. Mine(p)'
    BY <1>1, <2>1, <2>3, <2>4 DEF Mine, Staged, Opened, FinalFree, Copied, Safe, store
  <2> QED
    BY <1>1, <2>1, <2>2, <2>3, <2>5, OwnStepKeeps DEF env
<1> QED
  BY <1>2, <1>3

LEMMA ReadBackKeeps ==
  ASSUME OneOfEach, IInv, NEW p \in Streamers, NEW answered \in BOOLEAN, ReadBack(p, answered)
  PROVE  IInv' /\ FinalStays
<1> USE DEF IInv
<1>1. p \in Procs /\ p \notin Sweepers
  BY DEF Procs, OneOfEach
<1>2. CASE Leave(p) /\ (Unlinked(job[p], "streaming") \/ UNCHANGED path)
  <2>1. Dropped(p) \/ UNCHANGED path
    BY <1>1, <1>2 DEF Dropped, Temp
  <2> QED
    BY <1>1, <1>2, <2>1, LeaveKeeps DEF ReadBack, env
<1>3. CASE ~(Leave(p) /\ (Unlinked(job[p], "streaming") \/ UNCHANGED path))
  <2>1. UNCHANGED <<store, job, fd, todo, remove, late, env>> /\ sent' = [sent EXCEPT ![p] = Empty] /\ Goto(p, "publish")
        /\ pc[p] = "readback" /\ Holds(job[p], "streaming") = sent[p]
    BY <1>3 DEF ReadBack, store
  <2>2. TypeOK'
    BY <1>1, <2>1 DEF TypeOK, Goto, Steps, Tree, Empty, store, env
  <2>3. OthersStay(p) /\ pc'[p] = "publish" /\ fd'[p] = fd[p]
    BY <1>1, <2>1 DEF OthersStay, TypeOK, Goto
  <2>4. Holds(job[p], Temp(p))' = Holds(job[p], Temp(p))
    BY <2>1 DEF Holds, store, Temp
  <2>5. Mine(p)'
    BY <1>1, <2>1, <2>3, <2>4 DEF Mine, Staged, Opened, FinalFree, Copied, Safe, Temp, store
  <2> QED
    BY <1>1, <2>1, <2>2, <2>3, <2>5, OwnStepKeeps DEF env
<1> QED
  BY <1>2, <1>3

LEMMA StartRemovalKeeps ==
  ASSUME OneOfEach, IInv, NEW p \in Procs, StartRemoval(p)
  PROVE  IInv' /\ FinalStays
<1> USE DEF IInv
<1>1. UNCHANGED <<store, job, fd, sent, remove, late, env>> /\ pc[p] = "remove" /\ Goto(p, "unlink")
      /\ todo' = [todo EXCEPT ![p] = Entries(src[job[p]])]
  BY DEF StartRemoval
<1>2. TypeOK'
  BY <1>1 DEF TypeOK, Goto, Steps, Entries, store, env
<1>3. OthersStay(p) /\ pc'[p] = "unlink" /\ fd'[p] = fd[p]
  BY <1>1 DEF OthersStay, TypeOK, Goto
<1>4. Holds(job[p], Final(p))' = Holds(job[p], Final(p))
  BY <1>1 DEF Holds, store, Final
<1>5. Mine(p)'
  BY <1>1, <1>3, <1>4 DEF Mine, Staged, Opened, FinalFree, Copied, Safe, store
<1> QED
  BY <1>1, <1>2, <1>3, <1>5, OwnStepKeeps DEF env

-----------------------------------------------------------------------------
(* Opening the temporary file, and writing to it. *)
LEMMA FreshIsFree ==
  ASSUME IInv, NEW p \in Procs, pc[p] = "open"
  PROVE  FreshInode \in Inodes /\ FreshInode \notin Live(path, fd)
<1>1. job[p] \in Dirs /\ Final(p) \in Paths /\ path[job[p]][Final(p)] = NoFile
  BY DEF IInv, TypeOK, Final, Paths, Mine, FinalFree
<1>2. ASSUME NEW q \in Procs
      PROVE  fd[q] = NoFile \/ \E d \in Dirs, name \in Paths : path[d][name] = fd[q]
  <2>1. Opened(q) /\ job[q] \in Dirs /\ Temp(q) \in Paths
    BY DEF IInv, Mine, TypeOK, Temp, Paths
  <2> QED
    BY <2>1 DEF Opened
<1>3. /\ path \in [Dirs -> [Paths -> Inodes \cup {NoFile}]]
      /\ fd \in [Procs -> Inodes \cup {NoFile}]
  BY DEF IInv, TypeOK
<1>4. \E i \in Inodes : i \notin Live(path, fd)
  BY <1>1, <1>2, <1>3, InodesAssumption
<1> QED
  BY <1>4 DEF FreshInode

LEMMA OpensKeeps ==
  ASSUME OneOfEach, IInv, NEW p \in Procs, NEW i \in Inodes, pc[p] = "open",
         Opens(p, job[p], Temp(p), i),
         i \notin Live(path, fd) \/ i = path[job[p]][Temp(p)],
         todo' = [todo EXCEPT ![p] = Reads(p) \cap Entries(src[job[p]])],
         Goto(p, IF p \in Sweepers THEN "build" ELSE "stream"),
         UNCHANGED <<src, srcDirs, job, sent, remove, late, env>>
  PROVE  IInv' /\ FinalStays
<1> USE DEF IInv
<1>1. /\ job[p] \in Dirs /\ Temp(p) \in Paths /\ Final(p) \in Paths /\ Temp(p) # Final(p)
      /\ Temp(p) \notin Finals /\ Finals \subseteq Paths /\ Temp(p) \in Own(p)
  BY DEF TypeOK, Temp, Final, Own, Paths, Finals
<1>2. \A d \in Dirs, x \in Paths : path[d][x] = i => d = job[p] /\ x = Temp(p)
  <2>1. CASE i \notin Live(path, fd)
    BY <2>1 DEF Live
  <2>2. CASE i = path[job[p]][Temp(p)]
    BY <1>1, <2>2, NoFileAssumption DEF Distinct
  <2> QED
    BY <2>1, <2>2
<1>3. path' \in [Dirs -> [Paths -> Inodes \cup {NoFile}]]
  BY <1>1 DEF Opens, TypeOK
<1>4. \A d \in Dirs, x \in Paths : path'[d][x] = IF d = job[p] /\ x = Temp(p) THEN i ELSE path[d][x]
  BY <1>1 DEF Opens, TypeOK
<1>5. held' \in [Inodes -> Tree] /\ \A j \in Inodes \ {i} : held'[j] = held[j]
  BY DEF Opens, TypeOK, Tree, Empty
<1>6. /\ fd' \in [Procs -> Inodes \cup {NoFile}] /\ todo' \in [Procs -> SUBSET Names]
      /\ pc' \in [Procs -> Steps]
  BY DEF Opens, TypeOK, Goto, Steps, Reads, Entries
<1>7. TypeOK'
  BY <1>3, <1>5, <1>6 DEF TypeOK, env
<1>8. Distinct'
  BY <1>2, <1>4 DEF Distinct
<1>9. ASSUME NEW d \in Dirs, NEW x \in Paths, ~(d = job[p] /\ x = Temp(p))
      PROVE  path'[d][x] = path[d][x] /\ Holds(d, x)' = Holds(d, x)
  <2>1. path'[d][x] = path[d][x] /\ path[d][x] # i
    BY <1>2, <1>4, <1>9
  <2>2. path[d][x] # NoFile => path[d][x] \in Inodes \ {i}
    BY <2>1 DEF TypeOK
  <2> QED
    BY <1>5, <2>1, <2>2 DEF Holds
<1>10. NamesStay(p) /\ FinalStays
  BY <1>1, <1>9 DEF NamesStay, FinalStays
<1>11. OthersStay(p) /\ fd'[p] = i /\ pc'[p] = (IF p \in Sweepers THEN "build" ELSE "stream")
       /\ todo'[p] = Reads(p) \cap Entries(src[job[p]])
  BY DEF Opens, OthersStay, TypeOK, Goto
<1>12. Staged(p)' /\ Opened(p)' /\ FinalFree(p)'
  <2>1. path'[job[p]][Temp(p)] = i /\ i # NoFile
    BY <1>1, <1>4, NoFileAssumption
  <2>2. path'[job[p]][Final(p)] = NoFile
    BY <1>1, <1>4 DEF Mine, FinalFree
  <2>3. job'[p] = job[p]
    OBVIOUS
  <2> QED
    BY <1>11, <2>1, <2>2, <2>3 DEF Staged, Opened, FinalFree
<1>13. Copied(p)'
  <2>1. \A n \in Reads(p) : n \in todo'[p] \/ src[job[p]][n] = NoEntry
    BY <1>11 DEF Reads, Entries
  <2> QED
    BY <1>11, <2>1 DEF Copied, Safe
<1> QED
  BY <1>7, <1>8, <1>10, <1>11, <1>12, <1>13, StepKeeps DEF Mine, env

LEMMA OpenTarKeeps ==
  ASSUME OneOfEach, IInv, NEW p \in Sweepers, OpenTar(p)
  PROVE  IInv' /\ FinalStays
<1>1. p \in Procs /\ pc[p] = "open" /\ Temp(p) = "sweeping"
  BY DEF Procs, OpenTar, Temp
<1>2. FreshInode \in Inodes /\ FreshInode \notin Live(path, fd)
  BY <1>1, FreshIsFree
<1>3. Files(src[job[p]]) = Reads(p) \cap Entries(src[job[p]])
  BY DEF Files, Reads, Entries
<1> QED
  BY <1>1, <1>2, <1>3, OpensKeeps DEF OpenTar

LEMMA OpenStreamKeeps ==
  ASSUME OneOfEach, IInv, NEW p \in Streamers, OpenStream(p)
  PROVE  IInv' /\ FinalStays
<1>1. p \in Procs /\ p \notin Sweepers /\ pc[p] = "open" /\ Temp(p) = "streaming" /\ job[p] \in Dirs
  BY DEF Procs, OpenStream, Temp, OneOfEach, IInv, TypeOK
<1> DEFINE i == IF path[job[p]]["streaming"] = NoFile THEN FreshInode ELSE path[job[p]]["streaming"]
<1>2. i \in Inodes /\ (i \notin Live(path, fd) \/ i = path[job[p]][Temp(p)])
  BY <1>1, FreshIsFree DEF IInv, TypeOK, Paths
<1>3. Entries(src[job[p]]) = Reads(p) \cap Entries(src[job[p]])
  BY <1>1 DEF Reads, Entries
<1>4. /\ Opens(p, job[p], Temp(p), i) /\ todo' = [todo EXCEPT ![p] = Entries(src[job[p]])] /\ Goto(p, "stream")
      /\ UNCHANGED <<src, srcDirs, job, sent, remove, late, env>>
  BY <1>1 DEF OpenStream
<1> HIDE DEF i
<1> QED
  BY <1>1, <1>2, <1>3, <1>4, OpensKeeps

LEMMA WriteKeeps ==
  ASSUME OneOfEach, IInv, NEW p \in Procs, NEW n \in Names, NEW c \in Contents,
         pc[p] \in {"build", "stream"}, held' = [held EXCEPT ![fd[p]][n] = c],
         todo' = [todo EXCEPT ![p] = @ \ {n}],
         UNCHANGED <<src, srcDirs, path, pc, job, fd, remove, late, want, edits>>,
         sent' \in [Procs -> Tree], \A q \in Procs \ {p} : sent'[q] = sent[q],
         garbled' \in 0..MaxGarbled,
         pc[p] = "build" => c = src[job[p]][n],
         pc[p] = "stream" => sent'[p] = [sent[p] EXCEPT ![n] = src[job[p]][n]]
  PROVE  IInv' /\ FinalStays
<1> USE DEF IInv
<1>1. /\ fd[p] = path[job[p]][Temp(p)] /\ fd[p] \in Inodes /\ job[p] \in Dirs /\ Temp(p) \in Paths
      /\ Temp(p) \notin Finals /\ Finals \subseteq Paths /\ Temp(p) \in Own(p) /\ fd[p] # NoFile
  BY DEF Mine, Opened, TypeOK, Temp, Own, Paths, Finals
<1>2. held' \in [Inodes -> Tree] /\ \A j \in Inodes \ {fd[p]} : held'[j] = held[j]
  BY <1>1 DEF TypeOK, Tree
<1>3. held'[fd[p]] = [held[fd[p]] EXCEPT ![n] = c]
  BY <1>1 DEF TypeOK
<1>4. TypeOK'
  BY <1>2 DEF TypeOK
<1>5. ASSUME NEW d \in Dirs, NEW x \in Paths, ~(d = job[p] /\ x = Temp(p))
      PROVE  Holds(d, x)' = Holds(d, x)
  <2>1. path[d][x] # fd[p]
    BY <1>1, <1>5 DEF Distinct
  <2>2. path[d][x] # NoFile => path[d][x] \in Inodes \ {fd[p]}
    BY <2>1 DEF TypeOK
  <2> QED
    BY <1>2, <2>2 DEF Holds
<1>6. NamesStay(p) /\ FinalStays /\ Distinct'
  BY <1>1, <1>5 DEF NamesStay, FinalStays, Distinct
<1>7. OthersStay(p) /\ todo'[p] = todo[p] \ {n}
  BY DEF OthersStay, TypeOK
<1>8. Staged(p)' /\ Opened(p)' /\ FinalFree(p)'
  BY DEF Mine, Staged, Opened, FinalFree
<1>9. Copied(p)'
  <2>1. Holds(job[p], Temp(p))' = [Holds(job[p], Temp(p)) EXCEPT ![n] = c]
    BY <1>1, <1>3 DEF Holds
  <2>2. Holds(job[p], Temp(p)) \in Tree /\ sent[p] \in Tree
    BY <1>1 DEF Holds, TypeOK
  <2>3. ASSUME NEW m \in Reads(p), pc[p] = "build", m \notin todo'[p]
        PROVE  Safe(p, m, Holds(job[p], Temp(p)))'
    <3>0. m \in Names
      BY DEF Reads
    <3>1. CASE m = n
      <4> Holds(job[p], Temp(p))'[m] = src[job[p]][m]
        BY <2>1, <2>2, <2>3, <3>0, <3>1 DEF Tree
      <4> QED
        BY DEF Safe
    <3>2. CASE m # n
      <4>1. Holds(job[p], Temp(p))'[m] = Holds(job[p], Temp(p))[m]
        BY <2>1, <2>2, <3>0, <3>2 DEF Tree
      <4>2. Safe(p, m, Holds(job[p], Temp(p)))
        BY <1>7, <2>3, <3>2 DEF Mine, Copied
      <4> QED
        BY <4>1, <4>2 DEF Safe
    <3> QED
      BY <3>1, <3>2
  <2>4. ASSUME NEW m \in Reads(p), pc[p] = "stream", m \notin todo'[p]
        PROVE  Safe(p, m, sent[p])'
    <3>0. m \in Names
      BY DEF Reads
    <3>1. CASE m = n
      <4> sent'[p][m] = src[job[p]][m]
        BY <2>2, <2>4, <3>0, <3>1 DEF Tree
      <4> QED
        BY DEF Safe
    <3>2. CASE m # n
      <4>1. sent'[p][m] = sent[p][m]
        BY <2>2, <2>4, <3>0, <3>2 DEF Tree
      <4>2. Safe(p, m, sent[p])
        BY <1>7, <2>4, <3>2 DEF Mine, Copied
      <4> QED
        BY <4>1, <4>2 DEF Safe
    <3> QED
      BY <3>1, <3>2
  <2>5. pc'[p] = pc[p] /\ Reads(p)' = Reads(p)
    BY DEF Reads
  <2> QED
    BY <2>3, <2>4, <2>5 DEF Copied
<1> QED
  BY <1>4, <1>6, <1>7, <1>8, <1>9, StepKeeps DEF Mine

LEMMA AddMemberKeeps ==
  ASSUME OneOfEach, IInv, NEW p \in Sweepers, NEW n \in Names, AddMember(p, n)
  PROVE  IInv' /\ FinalStays
<1>1. p \in Procs /\ job[p] \in Dirs
  BY DEF Procs, IInv, TypeOK
<1>2. src[job[p]][n] \in Contents
  BY <1>1 DEF AddMember, IInv, TypeOK, Tree
<1>3. sent' \in [Procs -> Tree] /\ garbled' \in 0..MaxGarbled
  BY DEF AddMember, IInv, TypeOK, env
<1> QED
  BY <1>1, <1>2, <1>3, WriteKeeps DEF AddMember, env

LEMMA SendEntryKeeps ==
  ASSUME OneOfEach, IInv, NEW p \in Streamers, NEW n \in Names, NEW stored \in Contents, SendEntry(p, n, stored)
  PROVE  IInv' /\ FinalStays
<1>1. p \in Procs /\ job[p] \in Dirs
  BY DEF Procs, IInv, TypeOK
<1>2. src[job[p]][n] \in Contents
  BY <1>1 DEF SendEntry, IInv, TypeOK, Tree
<1>3. sent' = [sent EXCEPT ![p] = [sent[p] EXCEPT ![n] = src[job[p]][n]]] /\ sent \in [Procs -> Tree]
  BY DEF SendEntry, IInv, TypeOK
<1>4. sent' \in [Procs -> Tree] /\ sent'[p] = [sent[p] EXCEPT ![n] = src[job[p]][n]]
      /\ \A q \in Procs \ {p} : sent'[q] = sent[q]
  BY <1>1, <1>2, <1>3 DEF Tree
<1>5. garbled' \in 0..MaxGarbled
  BY SweepBounds DEF SendEntry, IInv, TypeOK
<1>6. pc[p] = "stream"
  BY DEF SendEntry
<1> QED
  BY <1>1, <1>4, <1>5, <1>6, WriteKeeps DEF SendEntry

-----------------------------------------------------------------------------
(* Putting the temporary file under its final name. *)
LEMMA RenamedKeeps ==
  ASSUME OneOfEach, IInv, NEW p \in Procs, Renamed(p), pc[p] \in {"rename", "publish"}, Goto(p, "remove"),
         UNCHANGED <<src, srcDirs, held, job, fd, todo, sent, remove, late, env>>
  PROVE  IInv' /\ FinalStays
<1> USE DEF IInv
<1>1. /\ path' \in [Dirs -> [Paths -> Inodes \cup {NoFile}]] /\ Distinct'
      /\ \A d \in Dirs, x \in Paths \ Own(p) : path'[d][x] = path[d][x]
      /\ \A d \in Dirs, x \in Finals : path[d][x] # NoFile => path'[d][x] = path[d][x]
      /\ path'[job[p]][Final(p)] = path[job[p]][Temp(p)]
  BY NamesAfter
<1>2. TypeOK'
  BY <1>1 DEF TypeOK, Goto, Steps, env
<1>3. NamesStay(p) /\ FinalStays
  BY <1>1 DEF NamesStay, FinalStays, Holds
<1>4. OthersStay(p) /\ pc'[p] = "remove"
  BY DEF OthersStay, TypeOK, Goto
<1>5. Holds(job[p], Final(p))' = Holds(job[p], Temp(p))
  BY <1>1 DEF Holds, Final
<1>6. Staged(p)' /\ Opened(p)' /\ FinalFree(p)'
  BY <1>4 DEF Mine, Staged, Opened, FinalFree
<1>7. Copied(p)'
  BY <1>4, <1>5 DEF Mine, Copied, Safe
<1> QED
  BY <1>1, <1>2, <1>3, <1>4, <1>6, <1>7, StepKeeps DEF Mine, env

LEMMA RenameTarKeeps ==
  ASSUME OneOfEach, IInv, NEW p \in Sweepers, RenameTar(p)
  PROVE  IInv' /\ FinalStays
<1>1. p \in Procs /\ Temp(p) = "sweeping" /\ Final(p) = "tar" /\ pc[p] = "rename"
  BY DEF Procs, Temp, Final, RenameTar
<1>2. CASE path[job[p]]["sweeping"] = NoFile
  BY <1>1, <1>2, LeaveKeeps DEF RenameTar, env
<1>3. CASE path[job[p]]["sweeping"] # NoFile
  <2>1. path[job[p]][Final(p)] = NoFile
    BY <1>1 DEF IInv, Mine, FinalFree
  <2>2. Renamed(p)
    BY <1>1, <1>3, <2>1 DEF Renamed, RenameTar
  <2> QED
    BY <1>1, <1>3, <2>2, RenamedKeeps DEF RenameTar
<1> QED
  BY <1>2, <1>3

LEMMA PublishKeeps ==
  ASSUME OneOfEach, IInv, NEW p \in Streamers, NEW acked \in BOOLEAN, Publish(p, acked)
  PROVE  IInv' /\ FinalStays
<1>1. p \in Procs /\ Temp(p) = "streaming" /\ Final(p) = "remote" /\ pc[p] = "publish"
  BY DEF Procs, Temp, Final, Publish, OneOfEach
<1>2. path[job[p]][Final(p)] = NoFile
  BY <1>1 DEF IInv, Mine, FinalFree
<1>3. CASE Leave(p)
  <2>1. UNCHANGED path \/ Renamed(p)
    BY <1>1, <1>2 DEF Renamed, Publish
  <2> QED
    BY <1>1, <1>3, <2>1, LeaveKeeps DEF Publish, env
<1>4. CASE ~Leave(p)
  <2>1. Renamed(p) /\ Goto(p, "remove") /\ UNCHANGED <<src, srcDirs, held, job, fd, todo, sent, remove, late, env>>
    BY <1>1, <1>2, <1>4 DEF Renamed, Publish
  <2> QED
    BY <1>1, <2>1, RenamedKeeps
<1> QED
  BY <1>3, <1>4

LEMMA GivingUpKeeps ==
  ASSUME OneOfEach, IInv, NEW p \in Procs,
         \/ p \in Sweepers /\ BuildFails(p)
         \/ p \in Streamers /\ StreamFails(p)
         \/ RemoveDir(p)
         \/ Stop(p)
  PROVE  IInv' /\ FinalStays
<1>1. Leave(p) /\ UNCHANGED <<src, env>> /\ srcDirs' \subseteq srcDirs
  BY DEF BuildFails, StreamFails, RemoveDir, Stop
<1>2. UNCHANGED path \/ Dropped(p)
  BY DEF BuildFails, StreamFails, RemoveDir, Stop, Dropped, Temp, OneOfEach
<1> QED
  BY <1>1, <1>2, LeaveKeeps DEF env

-----------------------------------------------------------------------------
(* Entries that go or change. *)
LEMMA UnlinkKeeps ==
  ASSUME OneOfEach, IInv, NEW p \in Procs, NEW n \in Names, Unlink(p, n)
  PROVE  IInv' /\ FinalStays
<1> USE DEF IInv
<1>1. /\ job[p] \in Dirs /\ pc[p] = "unlink" /\ todo' = [todo EXCEPT ![p] = @ \ {n}]
      /\ src' = [src EXCEPT ![job[p]][n] = NoEntry]
      /\ want' = [want EXCEPT ![job[p]][n] = IF n \in late[p] THEN NoEntry ELSE @]
      /\ UNCHANGED <<srcDirs, path, held, pc, job, fd, sent, remove, late, edits, garbled>>
  BY DEF Unlink, TypeOK
<1>2. src' \in [Dirs -> Tree] /\ want' \in [Dirs -> Tree]
  BY <1>1 DEF TypeOK, Tree
<1>3. TypeOK'
  BY <1>1, <1>2 DEF TypeOK
<1>4. \A d \in Dirs, m \in Names :
        /\ src'[d][m] = IF d = job[p] /\ m = n THEN NoEntry ELSE src[d][m]
        /\ want'[d][m] = IF d = job[p] /\ m = n THEN IF n \in late[p] THEN NoEntry ELSE want[d][m] ELSE want[d][m]
  BY <1>1 DEF TypeOK, Tree
<1>5. Distinct' /\ FinalStays /\ NamesStay(p) /\ \A d \in Dirs, x \in Paths : Holds(d, x)' = Holds(d, x)
  BY <1>1 DEF Distinct, FinalStays, NamesStay, Holds
<1>6. OthersStay(p)
  BY <1>1 DEF OthersStay, TypeOK
<1>7. \A q \in Procs \ {p} : Mine(q)'
  <2> TAKE q \in Procs \ {p}
  <2>1. \A m \in Names : src'[job[q]][m] \in {src[job[q]][m], NoEntry}
    BY <1>4 DEF TypeOK
  <2> QED
    BY <1>5, <1>6, <2>1, OthersKeepTheirs
<1>8. Mine(p)'
  <2>1. Staged(p)' /\ Opened(p)' /\ FinalFree(p)'
    BY <1>1 DEF Mine, Staged, Opened, FinalFree
  <2>2. \A m \in Reads(p) : Safe(p, m, Holds(job[p], Final(p)))
    BY <1>1 DEF Mine, Copied
  <2>3. \A m \in Reads(p) : Safe(p, m, Holds(job[p], Final(p)))'
    BY <1>1, <1>4, <1>5, <2>2 DEF Safe, Reads, Final, Paths
  <2>4. Copied(p)'
    BY <1>1, <2>3 DEF Copied, Reads
  <2> QED
    BY <2>1, <2>4 DEF Mine
<1>9. NoFileLost'
  <2> SUFFICES ASSUME NEW d \in Dirs, NEW m \in Names \ DirLinks PROVE Kept(d, m)'
    BY DEF NoFileLost
  <2>1. Kept(d, m) /\ Holds(d, "tar")' = Holds(d, "tar") /\ Holds(d, "remote")' = Holds(d, "remote")
    BY <1>5 DEF NoFileLost, Paths
  <2>2. CASE ~(d = job[p] /\ m = n)
    BY <1>4, <2>1, <2>2 DEF Kept
  <2>3. CASE d = job[p] /\ m = n
    <3>1. CASE n \in late[p]
      BY <1>4, <2>3, <3>1 DEF Kept
    <3>2. CASE n \notin late[p]
      <4>1. m \in Reads(p)
        BY DEF Reads
      <4>2. src[d][m] \in {NoEntry, Holds(d, Final(p))[m]}
        BY <1>1, <2>3, <3>2, <4>1 DEF Mine, Copied, Safe
      <4>3. want'[d][m] = want[d][m]
        BY <1>4, <2>3, <3>2
      <4> QED
        BY <2>1, <4>2, <4>3 DEF Kept, Final
    <3> QED
      BY <3>1, <3>2
  <2> QED
    BY <2>2, <2>3
<1> QED
  BY <1>3, <1>5, <1>7, <1>8, <1>9

LEMMA EditKeeps ==
  ASSUME IInv, NEW d \in Dirs, NEW n \in Names, NEW c \in Contents \cup {NoEntry}, Edit(d, n, c)
  PROVE  IInv' /\ FinalStays
<1> USE DEF IInv
<1>1. /\ src' = [src EXCEPT ![d][n] = c] /\ want' = [want EXCEPT ![d][n] = c]
      /\ late' = [p \in Procs |-> IF TooLate(p, d, n) THEN late[p] \cup {n} ELSE late[p]]
      /\ UNCHANGED <<path, held, pc, job, fd, todo, sent>>
  BY DEF Edit, own
<1>2. src' \in [Dirs -> Tree] /\ want' \in [Dirs -> Tree] /\ late' \in [Procs -> SUBSET Names]
  BY <1>1 DEF TypeOK, Tree
<1>3. edits' \in 0..MaxEdits
  BY SweepBounds DEF Edit, TypeOK
<1>4. TypeOK'
  BY <1>2, <1>3 DEF TypeOK, Edit, own
<1>5. \A e \in Dirs, m \in Names :
        /\ src'[e][m] = IF e = d /\ m = n THEN c ELSE src[e][m]
        /\ want'[e][m] = IF e = d /\ m = n THEN c ELSE want[e][m]
  BY <1>1 DEF TypeOK, Tree
<1>6. Distinct' /\ FinalStays /\ \A e \in Dirs, x \in Paths : Holds(e, x)' = Holds(e, x)
  BY <1>1 DEF Distinct, FinalStays, Holds
<1>7. ASSUME NEW p \in Procs PROVE Mine(p)'
  <2>1. Staged(p)' /\ Opened(p)' /\ FinalFree(p)'
    BY <1>1 DEF Mine, Staged, Opened, FinalFree
  <2>2. job[p] \in Dirs /\ late'[p] = (IF TooLate(p, d, n) THEN late[p] \cup {n} ELSE late[p])
    BY <1>1 DEF TypeOK
  <2>3. Holds(job[p], Temp(p))' = Holds(job[p], Temp(p)) /\ Holds(job[p], Final(p))' = Holds(job[p], Final(p))
    BY <1>1, <1>6, <2>2 DEF Temp, Final, Paths
  <2>4. Copied(p)'
    <3> SUFFICES ASSUME NEW m \in Reads(p)
                 PROVE  /\ pc[p] = "build" => m \in todo[p] \/ Safe(p, m, Holds(job[p], Temp(p)))'
                        /\ pc[p] = "stream" => m \in todo[p] \/ Safe(p, m, sent[p])'
                        /\ pc[p] = "readback" => Safe(p, m, sent[p])'
                        /\ pc[p] \in {"rename", "publish"} => Safe(p, m, Holds(job[p], Temp(p)))'
                        /\ pc[p] \in {"remove", "unlink"} => Safe(p, m, Holds(job[p], Final(p)))'
      BY <1>1 DEF Copied, Reads
    <3>1. m \in Names /\ (late[p] \subseteq late'[p])
      BY <2>2 DEF Reads
    <3>2. CASE ~(job[p] = d /\ m = n)
      <4> src'[job'[p]][m] = src[job[p]][m]
        BY <1>1, <1>5, <2>2, <3>1, <3>2
      <4> QED
        BY <1>1, <2>3, <3>1 DEF Mine, Copied, Safe
    <3>3. CASE job[p] = d /\ m = n /\ TooLate(p, d, n)
      <4> m \in late'[p]
        BY <2>2, <3>3
      <4> QED
        BY DEF Safe
    <3>4. CASE job[p] = d /\ m = n /\ ~TooLate(p, d, n)
      BY <3>4 DEF TooLate
    <3> QED
      BY <3>2, <3>3, <3>4
  <2> QED
    BY <2>1, <2>4 DEF Mine
<1>8. NoFileLost'
  <2> SUFFICES ASSUME NEW e \in Dirs, NEW m \in Names \ DirLinks PROVE Kept(e, m)'
    BY DEF NoFileLost
  <2>1. Kept(e, m) /\ Holds(e, "tar")' = Holds(e, "tar") /\ Holds(e, "remote")' = Holds(e, "remote")
    BY <1>6 DEF NoFileLost, Paths
  <2> QED
    BY <1>5, <2>1 DEF Kept
<1> QED
  BY <1>4, <1>6, <1>7, <1>8

-----------------------------------------------------------------------------
LEMMA InitHolds == Init => IInv
<1> SUFFICES ASSUME Init PROVE IInv
  OBVIOUS
<1>1. AnyDir \in Dirs
  BY DirsAssumption DEF AnyDir
<1>2. TypeOK
  BY <1>1, SweepBounds DEF Init, TypeOK, Steps, Tree, Empty
<1>3. Distinct /\ NoFileLost
  BY DEF Init, Distinct, NoFileLost, Kept
<1>4. \A p \in Procs : Mine(p)
  BY DEF Init, Mine, Staged, Opened, FinalFree, Copied
<1> QED
  BY <1>2, <1>3, <1>4 DEF IInv

LEMMA StutterKeeps == IInv /\ UNCHANGED vars => IInv' /\ FinalStays
<1> SUFFICES ASSUME IInv, UNCHANGED vars PROVE IInv' /\ FinalStays
  OBVIOUS
<1> USE DEF vars, store, own, env
<1>1. TypeOK' /\ Distinct' /\ FinalStays
  BY DEF IInv, TypeOK, Distinct, FinalStays, Holds
<1>2. NoFileLost'
  BY DEF IInv, NoFileLost, Kept, Holds
<1>3. ASSUME NEW p \in Procs PROVE Mine(p)'
  <2>1. Staged(p)' /\ Opened(p)' /\ FinalFree(p)'
    BY DEF IInv, Mine, Staged, Opened, FinalFree
  <2>2. Copied(p)'
    BY DEF IInv, Mine, Copied, Safe, Holds, Reads
  <2> QED
    BY <2>1, <2>2 DEF Mine
<1> QED
  BY <1>1, <1>2, <1>3 DEF IInv

LEMMA NextKeeps ==
  ASSUME OneOfEach, IInv, [Next]_vars
  PROVE  IInv' /\ FinalStays
<1>1. ASSUME NEW p \in Sweepers, SweepStep(p) PROVE IInv' /\ FinalStays
  <2> p \in Procs
    BY DEF Procs
  <2>1. CASE \E d \in Dirs : ConfirmSweep(p, d)
    BY <2>1, ConfirmKeeps
  <2>2. CASE \E free \in FreeBytes : Preflight(p, free)
    BY <2>2, PreflightKeeps
  <2>3. CASE \E n \in Names : AddMember(p, n)
    BY <2>3, AddMemberKeeps
  <2>4. CASE BuildFails(p)
    BY <2>4, GivingUpKeeps
  <2> QED
    BY <1>1, <2>1, <2>2, <2>3, <2>4, OpenTarKeeps, CloseTarKeeps, RenameTarKeeps DEF SweepStep
<1>2. ASSUME NEW p \in Streamers, StreamStep(p) PROVE IInv' /\ FinalStays
  <2> p \in Procs
    BY DEF Procs
  <2> QED
    BY <1>2, ConfirmKeeps, PreflightKeeps, OpenStreamKeeps, SendEntryKeeps, GivingUpKeeps, StreamDoneKeeps,
       ReadBackKeeps, PublishKeeps
    DEF StreamStep
<1>3. ASSUME NEW p \in Procs, RemovalStep(p) \/ Stop(p) PROVE IInv' /\ FinalStays
  BY <1>3, StartRemovalKeeps, UnlinkKeeps, GivingUpKeeps DEF RemovalStep
<1> QED
  BY <1>1, <1>2, <1>3, EditKeeps, StutterKeeps DEF Next

LEMMA Inductive ==
  ASSUME OneOfEach
  PROVE  Spec => []IInv
<1>1. IInv /\ [Next]_vars => IInv'
  BY NextKeeps
<1> QED
  BY <1>1, InitHolds, PTL DEF Spec

(* The types of the state of `sweep`, local and streamed. *)
THEOREM SweepTypes ==
  ASSUME OneOfEach
  PROVE  Spec => []TypeOK
<1>1. IInv => TypeOK
  BY DEF IInv
<1> QED
  BY <1>1, Inductive, PTL

(* A local sweep and a streamed one of the same directory, killed or failing *)
(* at any step and started again, whatever arrives altered and whatever is   *)
(* edited meanwhile, lose no file: apply_sweep and sweep_to_remote.          *)
THEOREM NothingIsEverLost ==
  ASSUME OneOfEach
  PROVE  Spec => []NoFileLost
<1>1. IInv => NoFileLost
  BY DEF IInv
<1> QED
  BY <1>1, Inductive, PTL

(* What stands under a final name is finished: no step of apply_sweep or     *)
(* sweep_to_remote writes to it, replaces it or takes it away.               *)
THEOREM FinalIsFinal ==
  ASSUME OneOfEach
  PROVE  Spec => PublishedIsFinal
<1>1. IInv /\ [Next]_vars => FinalStays
  BY NextKeeps
<1>2. FinalStays => \A d \in Dirs, name \in {"tar", "remote"} :
       path[d][name] # NoFile =>
         path'[d][name] = path[d][name] /\ Holds(d, name)' = Holds(d, name)
  BY DEF FinalStays, Finals
<1> QED
  BY <1>1, <1>2, Inductive, PTL DEF Spec, PublishedIsFinal
=============================================================================
