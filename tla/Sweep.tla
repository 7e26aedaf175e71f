-------------------------------- MODULE Sweep -------------------------------
(***************************************************************************)
(* `sweep`: turn a directory of many small files into one tar and remove   *)
(* the directory.  _transfer/_sweep.py builds the tar beside it;           *)
(* _transfer/_sweep_stream.py streams it to a remote host.  Both write a   *)
(* temporary name, rename it to the final one and only then remove the     *)
(* original.  Commands may run side by side on the same directory, fail or *)
(* be killed at any step, and the directory may be edited meanwhile.       *)
(*                                                                         *)
(* A tar is an inode holding a tree; a path names an inode or nothing, and *)
(* a command goes on writing to the inode it opened whatever the path says.*)
(***************************************************************************)
EXTENDS Verify

CONSTANTS
  Sweepers,   \* processes that run the local sweep
  Streamers,  \* processes that stream to the remote host
  Dirs,       \* candidate directories
  DirLinks,   \* the names that are symlinks to directories
  Threshold,  \* plan_sweep's threshold_files
  FreeBytes,  \* answers of statvfs and of the remote df (None: unanswered)
  Inodes,     \* enough for every path and every open file
  NoFile,     \* the path does not exist, or no file is open
  MaxEdits,   \* bound: edits of the directories
  MaxGarbled  \* bound: entries that reach the remote altered

ASSUME DirLinksAssumption == DirLinks \subseteq Names
ASSUME DirsAssumption     == Dirs # {}
ASSUME NoFileAssumption   == NoFile \notin Inodes
ASSUME SweepBounds        == MaxEdits \in Nat /\ MaxGarbled \in Nat /\ Threshold \in Nat

VARIABLES
  src, srcDirs,  \* the directories' entries, and which directories exist
  path,          \* path[d]: the inodes of the four names a sweep of d uses
  held,          \* held[i]: the entries inode i holds
  pc, job,       \* each process: where it is, on which directory
  fd,            \* the inode it has open
  todo,          \* the entries its walk, tar or rmtree has listed and not reached
  sent,          \* what a streamer has hashed: the bytes that left this host
  remove,        \* remove_source
  late,          \* history: entries edited after it read or missed them
  want,          \* history: what must not be lost
  edits, garbled

store == <<src, srcDirs, path, held>>
own   == <<pc, job, fd, todo, sent, remove>>
env   == <<want, edits, garbled>>
vars  == <<store, own, late, env>>

Procs == Sweepers \cup Streamers
(* <name>.tar, .<name>.tar.sweeping, and on the remote host <name>.tar and   *)
(* .<name>.tar.streaming.                                                    *)
Paths == {"tar", "sweeping", "remote", "streaming"}
Steps == {"idle", "planned", "open", "build", "rename", "stream", "readback",
          "publish", "remove", "unlink"}
AnyDir == CHOOSE d \in Dirs : TRUE
Files(t) == Entries(t) \ DirLinks
Holds(d, name) ==
  IF path[d][name] = NoFile THEN Empty ELSE held[path[d][name]]

TypeOK ==
  /\ src \in [Dirs -> Tree] /\ srcDirs \subseteq Dirs
  /\ path \in [Dirs -> [Paths -> Inodes \cup {NoFile}]]
  /\ held \in [Inodes -> Tree]
  /\ pc \in [Procs -> Steps] /\ job \in [Procs -> Dirs]
  /\ fd \in [Procs -> Inodes \cup {NoFile}]
  /\ todo \in [Procs -> SUBSET Names] /\ sent \in [Procs -> Tree]
  /\ remove \in [Procs -> BOOLEAN]
  /\ late \in [Procs -> SUBSET Names] /\ want \in [Dirs -> Tree]
  /\ edits \in 0..MaxEdits /\ garbled \in 0..MaxGarbled

Init ==
  /\ src \in [Dirs -> Tree] /\ srcDirs = Dirs
  /\ path = [d \in Dirs |-> [name \in Paths |-> NoFile]]
  /\ held = [i \in Inodes |-> Empty]
  /\ pc = [p \in Procs |-> "idle"] /\ job = [p \in Procs |-> AnyDir]
  /\ fd = [p \in Procs |-> NoFile] /\ todo = [p \in Procs |-> {}]
  /\ sent = [p \in Procs |-> Empty] /\ remove = [p \in Procs |-> FALSE]
  /\ late = [p \in Procs |-> {}] /\ want = src /\ edits = 0 /\ garbled = 0

-----------------------------------------------------------------------------
Goto(p, step) == pc' = [pc EXCEPT ![p] = step]

(* Inodes a path names or a process has open; the others are gone. *)
Live(paths, files) ==
  {paths[d][name] : d \in Dirs, name \in Paths} \cup {files[p] : p \in Procs}
FreshInode == CHOOSE i \in Inodes : i \notin Live(path, fd)

(* As long as a name is free, and every open file has one, an inode is left. *)
ASSUME InodesAssumption ==
  \A paths \in [Dirs -> [Paths -> Inodes \cup {NoFile}]], files \in [Procs -> Inodes \cup {NoFile}] :
    (/\ \E d \in Dirs, name \in Paths : paths[d][name] = NoFile
     /\ \A p \in Procs : files[p] = NoFile \/ \E d \in Dirs, name \in Paths : paths[d][name] = files[p])
    => \E i \in Inodes : i \notin Live(paths, files)

(* The command returns, raises or is killed: what it had open is closed. *)
Leave(p) ==
  /\ Goto(p, "idle")
  /\ job' = [job EXCEPT ![p] = AnyDir]
  /\ fd' = [fd EXCEPT ![p] = NoFile]
  /\ held' = [i \in Inodes |-> IF i \in Live(path', fd') THEN held[i] ELSE Empty]
  /\ todo' = [todo EXCEPT ![p] = {}]
  /\ sent' = [sent EXCEPT ![p] = Empty]
  /\ remove' = [remove EXCEPT ![p] = FALSE]
  /\ late' = [late EXCEPT ![p] = {}]

Unlinked(d, name)    == path' = [path EXCEPT ![d][name] = NoFile]
Moved(d, from, to)   == path' = [path EXCEPT ![d][to] = path[d][from], ![d][from] = NoFile]
Opens(p, d, name, i) ==
  /\ path' = [path EXCEPT ![d][name] = i]
  /\ held' = [held EXCEPT ![i] = Empty]
  /\ fd' = [fd EXCEPT ![p] = i]

-----------------------------------------------------------------------------
(* _sweep.py: the tar beside the directory *)

(* plan_sweep found enough files, apply_sweep runs inside an allocation with *)
(* time left, and a human named the directory.                               *)
ConfirmSweep(p, d) ==
  /\ pc[p] = "idle" /\ d \in srcDirs
  /\ Cardinality(Files(src[d])) >= Threshold
  /\ Goto(p, "planned")
  /\ job' = [job EXCEPT ![p] = d]
  /\ UNCHANGED <<store, fd, todo, sent, remove, late, env>>

(* Fault: the final name is not looked at first. *)
PreflightBlind(p, free) ==
  /\ pc[p] = "planned"
  /\ CheckSpace(Bytes(src[job[p]]), free) = "room"
  /\ Goto(p, "open")
  /\ UNCHANGED <<store, job, fd, todo, sent, remove, late, env>>

(* An existing tar, or no known room for one, refuses the sweep. *)
Preflight(p, free) ==
  LET d == job[p] IN
  /\ pc[p] = "planned"
  /\ path[d]["tar"] = NoFile
  /\ CheckSpace(Bytes(src[d]), free) = "room"
  /\ Goto(p, "open")
  /\ UNCHANGED <<store, job, fd, todo, sent, remove, late, env>>

(* A leftover temporary file is unlinked, a new one opened, and the walk     *)
(* lists the directory: symlinks to directories are dropped from the walk.   *)
OpenTar(p) ==
  LET d == job[p] IN
  /\ pc[p] = "open" /\ p \in Sweepers
  /\ Opens(p, d, "sweeping", FreshInode)
  /\ todo' = [todo EXCEPT ![p] = Files(src[d])]
  /\ Goto(p, "build")
  /\ UNCHANGED <<src, srcDirs, job, sent, remove, late, env>>

(* tar.add of one file, which is opened by name. *)
AddMember(p, n) ==
  LET d == job[p] IN
  /\ pc[p] = "build" /\ n \in todo[p] /\ src[d][n] # NoEntry
  /\ held' = [held EXCEPT ![fd[p]][n] = src[d][n]]
  /\ todo' = [todo EXCEPT ![p] = @ \ {n}]
  /\ UNCHANGED <<src, srcDirs, path, pc, job, fd, sent, remove, late, env>>

(* A file that vanished, or any other OSError: the temporary name is         *)
(* unlinked, whosever file it is, and the error raised.                     *)
BuildFails(p) ==
  /\ pc[p] = "build"
  /\ Unlinked(job[p], "sweeping")
  /\ Leave(p)
  /\ UNCHANGED <<src, srcDirs, env>>

(* The tar is closed; with no member in it the sweep is refused. *)
CloseTar(p) ==
  /\ pc[p] = "build" /\ todo[p] = {}
  /\ IF Entries(held[fd[p]]) = {}
     THEN Unlinked(job[p], "sweeping") /\ Leave(p)
     ELSE /\ fd' = [fd EXCEPT ![p] = NoFile]
          /\ Goto(p, "rename")
          /\ UNCHANGED <<path, held, job, todo, sent, remove, late>>
  /\ UNCHANGED <<src, srcDirs, env>>

(* tmp_path.rename(tar_path): whatever the temporary name is by now becomes  *)
(* the tar; a missing one raises.                                            *)
RenameTar(p) ==
  LET d == job[p] IN
  /\ pc[p] = "rename"
  /\ IF path[d]["sweeping"] = NoFile
     THEN UNCHANGED path /\ Leave(p)
     ELSE /\ Moved(d, "sweeping", "tar")
          /\ Goto(p, "remove")
          /\ UNCHANGED <<held, job, fd, todo, sent, remove, late>>
  /\ UNCHANGED <<src, srcDirs, env>>

-----------------------------------------------------------------------------
(* _sweep_stream.py: the tar on the remote host *)

(* _count_members is asked before anything is sent. *)
StartStream(p, d, remove_source) ==
  /\ pc[p] = "idle" /\ d \in srcDirs /\ Files(src[d]) # {}
  /\ Goto(p, "planned")
  /\ job' = [job EXCEPT ![p] = d]
  /\ remove' = [remove EXCEPT ![p] = remove_source]
  /\ UNCHANGED <<store, fd, todo, sent, late, env>>

(* Only a destination that answered "absent", with known room, is written. *)
RemotePreflight(p, free) ==
  LET d == job[p] IN
  /\ pc[p] = "planned"
  /\ path[d]["remote"] = NoFile
  /\ CheckSpace(Bytes(src[d]), free) = "room"
  /\ Goto(p, "open")
  /\ UNCHANGED <<store, job, fd, todo, sent, remove, late, env>>

(* `cat > tmp` truncates what the name already is; tar lists every entry. *)
OpenStream(p) ==
  LET d == job[p] IN
  /\ pc[p] = "open" /\ p \in Streamers
  /\ Opens(p, d, "streaming",
           IF path[d]["streaming"] = NoFile THEN FreshInode ELSE path[d]["streaming"])
  /\ todo' = [todo EXCEPT ![p] = Entries(src[d])]
  /\ Goto(p, "stream")
  /\ UNCHANGED <<src, srcDirs, job, sent, remove, late, env>>

(* One entry is hashed as it is sent, and may reach the remote altered. *)
SendEntry(p, n, stored) ==
  LET d == job[p] IN
  /\ pc[p] = "stream" /\ n \in todo[p] /\ src[d][n] # NoEntry
  /\ sent' = [sent EXCEPT ![p][n] = src[d][n]]
  /\ held' = [held EXCEPT ![fd[p]][n] = stored]
  /\ garbled' = garbled + (IF stored = src[d][n] THEN 0 ELSE 1)
  /\ garbled' <= MaxGarbled
  /\ todo' = [todo EXCEPT ![p] = @ \ {n}]
  /\ UNCHANGED <<src, srcDirs, path, pc, job, fd, remove, late, want, edits>>

(* tar or ssh exited non-zero, an entry having vanished for one: the         *)
(* temporary file is removed, as far as the remote can be reached.           *)
StreamFails(p) ==
  /\ pc[p] = "stream"
  /\ Unlinked(job[p], "streaming") \/ UNCHANGED path
  /\ Leave(p)
  /\ UNCHANGED <<src, srcDirs, env>>

StreamDone(p) ==
  /\ pc[p] = "stream" /\ todo[p] = {}
  /\ Goto(p, "readback")
  /\ fd' = [fd EXCEPT ![p] = NoFile]
  /\ UNCHANGED <<store, job, todo, sent, remove, late, env>>

(* Fault: only the exit codes vouch for what was stored. *)
ReadBackUnasked(p, answered) ==
  /\ pc[p] = "readback" /\ answered
  /\ Goto(p, "publish")
  /\ sent' = [sent EXCEPT ![p] = Empty]
  /\ UNCHANGED <<store, job, fd, todo, remove, late, env>>

(* Fault: a digest nobody answered is kept as null. *)
ReadBackNull(p, answered) ==
  /\ pc[p] = "readback"
  /\ Goto(p, "publish")
  /\ sent' = [sent EXCEPT ![p] = IF answered THEN Empty ELSE [n \in Names |-> None]]
  /\ UNCHANGED <<store, job, fd, todo, remove, late, env>>

(* sha256sum of the temporary file: no answer and another digest both end    *)
(* the command, after the same best-effort cleanup.                          *)
ReadBack(p, answered) ==
  LET d == job[p]
      agrees == answered /\ path[d]["streaming"] # NoFile /\ Holds(d, "streaming") = sent[p]
  IN
  /\ pc[p] = "readback"
  /\ IF agrees
     THEN /\ Goto(p, "publish")
          /\ sent' = [sent EXCEPT ![p] = Empty]
          /\ UNCHANGED <<path, held, job, fd, todo, remove, late>>
     ELSE /\ Unlinked(d, "streaming") \/ UNCHANGED path
          /\ Leave(p)
  /\ UNCHANGED <<src, srcDirs, env>>

(* `mv tmp final` on the remote.  A call that fails or times out may have    *)
(* moved it all the same, and raises.                                        *)
Publish(p, acked) ==
  LET d == job[p]
      moves == path[d]["streaming"] # NoFile /\ Moved(d, "streaming", "remote")
  IN
  /\ pc[p] = "publish"
  /\ IF acked
     THEN /\ moves
          /\ IF remove[p]
             THEN Goto(p, "remove") /\ UNCHANGED <<held, job, fd, todo, sent, remove, late>>
             ELSE Leave(p)
     ELSE (moves \/ UNCHANGED path) /\ Leave(p)
  /\ UNCHANGED <<src, srcDirs, env>>

-----------------------------------------------------------------------------
(* shutil.rmtree, for both: list, unlink whatever is there by now, rmdir. *)
StartRemoval(p) ==
  /\ pc[p] = "remove" /\ job[p] \in srcDirs
  /\ todo' = [todo EXCEPT ![p] = Entries(src[job[p]])]
  /\ Goto(p, "unlink")
  /\ UNCHANGED <<store, job, fd, sent, remove, late, env>>

(* An entry edited too late for the command is not promised to anybody. *)
Unlink(p, n) ==
  LET d == job[p] IN
  /\ pc[p] = "unlink" /\ n \in todo[p]
  /\ src' = [src EXCEPT ![d][n] = NoEntry]
  /\ want' = [want EXCEPT ![d][n] = IF n \in late[p] THEN NoEntry ELSE @]
  /\ todo' = [todo EXCEPT ![p] = @ \ {n}]
  /\ UNCHANGED <<srcDirs, path, held, pc, job, fd, sent, remove, late, edits, garbled>>

RemoveDir(p) ==
  LET d == job[p] IN
  /\ pc[p] = "unlink" /\ todo[p] = {}
  /\ srcDirs' = IF Entries(src[d]) = {} THEN srcDirs \ {d} ELSE srcDirs
  /\ UNCHANGED <<src, path, env>>
  /\ Leave(p)

(* A refusal, an error nothing cleans up after, or a kill. *)
Stop(p) ==
  /\ pc[p] # "idle"
  /\ UNCHANGED <<src, srcDirs, path, env>>
  /\ Leave(p)

(* Somebody writes or deletes an entry.  It is late for a command that has   *)
(* read it already, or whose listing did not have it.                        *)
TooLate(p, d, n) ==
  /\ job[p] = d /\ pc[p] \notin {"idle", "planned", "open"}
  /\ pc[p] \in {"build", "stream"} => n \notin todo[p]

Edit(d, n, c) ==
  /\ edits < MaxEdits /\ d \in srcDirs /\ c # src[d][n]
  /\ src' = [src EXCEPT ![d][n] = c]
  /\ want' = [want EXCEPT ![d][n] = c]
  /\ late' = [p \in Procs |-> IF TooLate(p, d, n) THEN late[p] \cup {n} ELSE late[p]]
  /\ edits' = edits + 1
  /\ UNCHANGED <<srcDirs, path, held, own, garbled>>

-----------------------------------------------------------------------------
SweepStep(p) ==
  \/ \E d \in Dirs : ConfirmSweep(p, d)
  \/ \E free \in FreeBytes : Preflight(p, free)
  \/ OpenTar(p)
  \/ \E n \in Names : AddMember(p, n)
  \/ BuildFails(p)
  \/ CloseTar(p)
  \/ RenameTar(p)

StreamStep(p) ==
  \/ \E d \in Dirs, remove_source \in BOOLEAN : StartStream(p, d, remove_source)
  \/ \E free \in FreeBytes : RemotePreflight(p, free)
  \/ OpenStream(p)
  \/ \E n \in Names, stored \in Contents : SendEntry(p, n, stored)
  \/ StreamFails(p)
  \/ StreamDone(p)
  \/ \E answered \in BOOLEAN : ReadBack(p, answered)
  \/ \E acked \in BOOLEAN : Publish(p, acked)

RemovalStep(p) ==
  \/ StartRemoval(p)
  \/ \E n \in Names : Unlink(p, n)
  \/ RemoveDir(p)

Next ==
  \/ \E p \in Sweepers : SweepStep(p)
  \/ \E p \in Streamers : StreamStep(p)
  \/ \E p \in Procs : RemovalStep(p) \/ Stop(p)
  \/ \E d \in Dirs, n \in Names, c \in Contents \cup {NoEntry} : Edit(d, n, c)

Spec == Init /\ [][Next]_vars

(* Properties *)

Kept(d, n) == want[d][n] \in {NoEntry, src[d][n], Holds(d, "tar")[n], Holds(d, "remote")[n]}

(* Sweeping the same directory locally and to a remote at once, killing      *)
(* either anywhere and starting again, with entries arriving altered and an  *)
(* owner who goes on editing, never loses a file: it is in the directory, in *)
(* the tar or in the remote tar, unless it was edited after the command that *)
(* removes it had read it.                                                   *)
NoFileLost == \A d \in Dirs : \A n \in Names \ DirLinks : Kept(d, n)

(* "zero content loss": the same of every entry of the directory. *)
NothingLost == \A d \in Dirs, n \in Names : Kept(d, n)

(* What stands under a final name is finished: nobody writes to it, replaces *)
(* it or takes it away again, so an interrupted sweep is never mistaken for  *)
(* a completed one.                                                          *)
PublishedIsFinal ==
  [][\A d \in Dirs, name \in {"tar", "remote"} :
       path[d][name] # NoFile =>
         path'[d][name] = path[d][name] /\ Holds(d, name)' = Holds(d, name)]_vars

=============================================================================
