------------------------------- MODULE Archive ------------------------------
(***************************************************************************)
(* `archive` and `restore` (_transfer/_archive.py, _transfer/_restore.py): *)
(* commands that push a directory to a NAS, read the destination back,     *)
(* record a manifest and only then remove the original, and that pull it   *)
(* back.  Several commands may run at once, nothing locks the directory,   *)
(* and other programs may edit the source or alter the destination while   *)
(* they do.  rsync copies, tallies and digests read, and rmtree removes    *)
(* one entry at a time.                                                    *)
(***************************************************************************)
EXTENDS Verify

CONSTANTS
  Archivers,    \* processes that may run `archive`
  Restorers,    \* processes that may run `restore` (they may overlap)
  Sources,      \* directories that get archived
  Destinations, \* hosts they are archived to, each under _default_remote_path
  ManifestKey,  \* ManifestKey[s]: the manifest file name _manifest_path gives s
  Options,      \* the flags `archive` is called with
  FreeBytes,    \* answers of the destination's df (None when it failed)
  LiveEdits,    \* TRUE: the source may be edited while a command runs
  LiveRestores, \* TRUE: `restore` may be run over entries that differ locally
  Redirects,    \* TRUE: what is half archived may be archived to another host
  MaxEdits,     \* bound: edits of the sources
  MaxRots       \* bound: alterations of the destination by anything else

ASSUME KeyAssumption ==
  DOMAIN ManifestKey = Sources
ASSUME OptionsAssumption ==
  Sources # {} /\ Destinations # {} /\ Options # {} /\ Options \subseteq [checksum : BOOLEAN, exclude : SUBSET Names, content : BOOLEAN]
ASSUME FlagsAssumption ==
  LiveEdits \in BOOLEAN /\ LiveRestores \in BOOLEAN /\ Redirects \in BOOLEAN
ASSUME BoundsAssumption ==
  MaxEdits \in Nat /\ MaxRots \in Nat

VARIABLES
  src, srcDirs,   \* the local trees, and which of the directories exist
  dst, dstDirs,   \* the remote trees, and which of the directories exist
  manifest,       \* the manifest files
  pc, job, to, opt, \* each process: where it is, from and to where, its flags
  planned,        \* plan.size_bytes
  todo,           \* the entries its rsync, walk or rmtree listed and has to do
  tally,          \* what its tallies have counted so far
  hashed, digest, \* the ContentManifests it has of the source and destination
  verdict,        \* its TransferVerdict
  purge,          \* restore --delete-remote
  late,           \* history: entries changed since it last saw both sides equal
  want,           \* history: what the user last stored under each name
  astray,         \* history: entries already gone when their manifest was opened
  edits, rots

files == <<src, srcDirs, dst, dstDirs, manifest>>
memory == <<planned, todo, tally, hashed, digest, verdict, purge>>
local == <<pc, job, to, opt, memory>>
env   == <<want, astray, edits, rots>>
vars  == <<files, local, late, env>>

Procs  == Archivers \cup Restorers
Keys   == {ManifestKey[s] : s \in Sources}
Places == Destinations \X Sources
Steps  == {"idle", "preflight", "push", "baseline", "measure", "weigh", "digest",
           "hash", "compare", "record", "recording", "remove", "unlink", "pull", "purge"}
AnySource      == CHOOSE s \in Sources : TRUE
AnyDestination == CHOOSE d \in Destinations : TRUE
AnyOptions     == CHOOSE o \in Options : TRUE
ManifestFile ==
  [state : {"none", "torn", "whole"}, source : Sources, destination : Destinations]
NoManifest   == [state |-> "none", source |-> AnySource, destination |-> AnyDestination]
TornManifest == [NoManifest EXCEPT !.state = "torn"]

(* A tally under way: the names the local walk listed, the bytes it has      *)
(* added up, and the names `find` counted at the destination.                *)
Tally   == [listed : SUBSET Names, bytes : Nat, found : SUBSET Names]
NoCount == [listed |-> {}, bytes |-> 0, found |-> {}]

TypeOK ==
  /\ src \in [Sources -> Tree] /\ srcDirs \subseteq Sources
  /\ dst \in [Places -> Tree] /\ dstDirs \subseteq Places
  /\ manifest \in [Keys -> ManifestFile]
  /\ pc \in [Procs -> Steps] /\ job \in [Procs -> Sources]
  /\ to \in [Procs -> Destinations] /\ opt \in [Procs -> Options]
  /\ planned \in [Procs -> Nat]
  /\ todo \in [Procs -> SUBSET Names]
  /\ tally \in [Procs -> Tally]
  /\ hashed \in [Procs -> ContentManifest] /\ digest \in [Procs -> ContentManifest]
  /\ verdict \in [Procs -> Verdicts]
  /\ purge \in [Procs -> BOOLEAN]
  /\ late \in [Procs -> SUBSET Names]
  /\ want \in [Sources -> Tree]
  /\ astray \in [Sources -> SUBSET Names]
  /\ edits \in 0..MaxEdits /\ rots \in 0..MaxRots

Init ==
  /\ src \in [Sources -> Tree \ {Empty}] /\ srcDirs = Sources
  /\ dst = [place \in Places |-> Empty] /\ dstDirs = {}
  /\ manifest = [k \in Keys |-> NoManifest]
  /\ pc = [p \in Procs |-> "idle"]
  /\ job = [p \in Procs |-> AnySource] /\ to = [p \in Procs |-> AnyDestination]
  /\ opt = [p \in Procs |-> AnyOptions]
  /\ planned = [p \in Procs |-> 0] /\ todo = [p \in Procs |-> {}]
  /\ tally = [p \in Procs |-> NoCount]
  /\ hashed = [p \in Procs |-> MissingRoot] /\ digest = [p \in Procs |-> MissingRoot]
  /\ verdict = [p \in Procs |-> COULD_NOT_LOOK] /\ purge = [p \in Procs |-> FALSE]
  /\ late = [p \in Procs |-> {}]
  /\ want = src /\ astray = [s \in Sources |-> {}] /\ edits = 0 /\ rots = 0

-----------------------------------------------------------------------------
Goto(p, step) == pc' = [pc EXCEPT ![p] = step]

(* The command returns, raises or is killed; what it held in memory is gone. *)
Leave(p) ==
  /\ Goto(p, "idle")
  /\ planned' = [planned EXCEPT ![p] = 0]
  /\ todo' = [todo EXCEPT ![p] = {}]
  /\ tally' = [tally EXCEPT ![p] = NoCount]
  /\ hashed' = [hashed EXCEPT ![p] = MissingRoot]
  /\ digest' = [digest EXCEPT ![p] = MissingRoot]
  /\ verdict' = [verdict EXCEPT ![p] = COULD_NOT_LOOK]
  /\ purge' = [purge EXCEPT ![p] = FALSE]
  /\ late' = [late EXCEPT ![p] = {}]
  /\ job' = [job EXCEPT ![p] = AnySource]
  /\ to' = [to EXCEPT ![p] = AnyDestination]
  /\ opt' = [opt EXCEPT ![p] = AnyOptions]

(* Where p copies to, or from. *)
Place(p) == <<to[p], job[p]>>

(* What the owner stored and the directory does not hold (any more). *)
Stranded(s) == {n \in Names : want[s][n] # NoEntry /\ src[s][n] # want[s][n]}
HeldAt(d, s) == \A n \in Stranded(s) : dst[<<d, s>>][n] = want[s][n]

(* The archives under way from s, or to a place: a change there makes what   *)
(* they have seen of it stale.                                               *)
Watching == {q \in Procs : pc[q] \notin {"idle", "preflight", "pull", "purge"}}
From(s)  == {q \in Watching : job[q] = s}
At(place) == {q \in Watching : Place(q) = place}
Touched(who, names) ==
  [q \in Procs |-> IF q \in who THEN late[q] \cup names ELSE late[q]]
Changed(t, u) == {n \in Names : t[n] # u[n]}

-----------------------------------------------------------------------------
(* archive *)

(* plan_archive measures the source, which must be an existing directory.    *)
PlanArchive(p, s, d, o) ==
  /\ pc[p] = "idle" /\ s \in srcDirs
  /\ Redirects \/ HeldAt(d, s)
  /\ Goto(p, "preflight")
  /\ job' = [job EXCEPT ![p] = s] /\ to' = [to EXCEPT ![p] = d]
  /\ opt' = [opt EXCEPT ![p] = o]
  /\ planned' = [planned EXCEPT ![p] = Bytes(src[s])]
  /\ UNCHANGED <<files, todo, tally, hashed, digest, verdict, purge, late, env>>

(* mkdir -p of the remote parent answered, and df reported room for what was *)
(* planned or could not be asked: rsync starts and lists what it will send.  *)
StartPush(p, free) ==
  LET s == job[p] IN
  /\ pc[p] = "preflight" /\ s \in srcDirs
  /\ CheckSpace(planned[p], free) # "no-room"
  /\ Goto(p, "push")
  /\ planned' = [planned EXCEPT ![p] = 0]
  /\ todo' = [todo EXCEPT ![p] = Entries(src[s]) \ opt[p].exclude]
  /\ dstDirs' = dstDirs \cup {Place(p)}
  /\ UNCHANGED <<src, srcDirs, dst, manifest, job, to, opt, tally, hashed, digest, verdict, purge, late, env>>

(* rsync -a --checksum compares every byte; without it an entry of the same  *)
(* length (and mtime) already there is left as it is.                        *)
QuickCheckSkips(o, there, here) ==
  ~o.checksum /\ there # NoEntry /\ Length[there] = Length[here]

PushEntry(p, n) ==
  LET here == src[job[p]][n]
      there == dst[Place(p)]
  IN
  /\ pc[p] = "push" /\ n \in todo[p] /\ here # NoEntry /\ Place(p) \in dstDirs
  /\ \/ dst' = [dst EXCEPT ![Place(p)][n] = here]
     \/ QuickCheckSkips(opt[p], there[n], here) /\ dst' = dst
  /\ todo' = [todo EXCEPT ![p] = @ \ {n}]
  /\ late' = [Touched(At(Place(p)), Changed(there, dst'[Place(p)])) EXCEPT ![p] = late[p] \ {n}]
  /\ UNCHANGED <<src, srcDirs, dstDirs, manifest, pc, job, to, opt, planned, tally, hashed, digest, verdict, purge, env>>

(* Fault: rsync's exit code is not looked at. *)
PushDoneUnchecked(p) ==
  /\ pc[p] = "push"
  /\ Goto(p, "baseline")
  /\ todo' = [todo EXCEPT ![p] = {}]
  /\ UNCHANGED <<files, job, to, opt, planned, tally, hashed, digest, verdict, purge, late, env>>

(* rsync exited 0: everything it listed was sent. *)
PushDone(p) ==
  /\ pc[p] = "push" /\ todo[p] = {}
  /\ Goto(p, "baseline")
  /\ UNCHANGED <<files, job, to, opt, memory, late, env>>

(* expected = local_tally(source), after the push and before the read-back:  *)
(* the walk lists the entries (none, if the source has vanished) ...         *)
StartTally(p) ==
  LET listed == Entries(src[job[p]]) IN
  /\ pc[p] = "baseline"
  /\ tally' = [tally EXCEPT ![p] = [NoCount EXCEPT !.listed = listed]]
  /\ todo' = [todo EXCEPT ![p] = listed]
  /\ Goto(p, "measure")
  /\ UNCHANGED <<files, job, to, opt, planned, hashed, digest, verdict, purge, late, env>>

(* ... and asks each for its size. *)
MeasureEntry(p, n) ==
  /\ pc[p] = "measure" /\ n \in todo[p]
  /\ tally' = [tally EXCEPT ![p].bytes = @ + SizeNow(src[job[p]][n])]
  /\ todo' = [todo EXCEPT ![p] = @ \ {n}]
  /\ UNCHANGED <<files, pc, job, to, opt, planned, hashed, digest, verdict, purge, late, env>>

(* REMOTE_TALLY_CMD: find counts what the destination holds ... *)
CountRemote(p) ==
  /\ pc[p] = "measure" /\ todo[p] = {}
  /\ tally' = [tally EXCEPT ![p].found = Entries(dst[Place(p)])]
  /\ Goto(p, "weigh")
  /\ UNCHANGED <<files, job, to, opt, planned, todo, hashed, digest, verdict, purge, late, env>>

(* The tally of the destination against the baseline; a probe that failed,   *)
(* and du on a directory that is not there, answer nothing.                  *)
TallyVerdict(p, answered) ==
  VerifyTransfer(LocalTally(tally[p].listed, tally[p].bytes), 0,
                 IF answered /\ Place(p) \in dstDirs
                 THEN ReadTally(tally[p].found, dst[Place(p)])
                 ELSE NoTally)

(* Fault: a verified source is removed before its manifest is written. *)
ReadBackThenRemove(p, answered) ==
  LET v == TallyVerdict(p, answered) IN
  /\ pc[p] = "weigh"
  /\ verdict' = [verdict EXCEPT ![p] = v]
  /\ Goto(p, IF MayRemoveSource(v) THEN "remove" ELSE "record")
  /\ tally' = [tally EXCEPT ![p] = NoCount]
  /\ UNCHANGED <<files, job, to, opt, planned, todo, hashed, digest, purge, late, env>>

(* ... and du weighs it: the verdict.  The second gate is reached only       *)
(* through the first.                                                        *)
ReadBack(p, answered) ==
  LET v == TallyVerdict(p, answered) IN
  /\ pc[p] = "weigh"
  /\ verdict' = [verdict EXCEPT ![p] = v]
  /\ Goto(p, IF opt[p].content /\ MayRemoveSource(v) THEN "digest" ELSE "record")
  /\ tally' = [tally EXCEPT ![p] = NoCount]
  /\ UNCHANGED <<files, job, to, opt, planned, todo, hashed, digest, purge, late, env>>

(* The remote digests are taken first: the command lists the directory ...   *)
ListRemote(p) ==
  LET there == Place(p) \in dstDirs IN
  /\ pc[p] = "digest"
  /\ digest' = [digest EXCEPT ![p] = Begun(there)]
  /\ todo' = [todo EXCEPT ![p] = Entries(dst[Place(p)])]
  /\ late' = [late EXCEPT ![p] = @ \cap Entries(dst[Place(p)])]
  /\ Goto(p, "hash")
  /\ UNCHANGED <<files, job, to, opt, planned, tally, hashed, verdict, purge, env>>

(* ... and hashes one entry after the other. *)
HashRemote(p, n, readable) ==
  /\ pc[p] = "hash" /\ n \in todo[p]
  /\ digest' = [digest EXCEPT ![p] = Hashed(@, n, dst[Place(p)][n], readable)]
  /\ todo' = [todo EXCEPT ![p] = @ \ {n}]
  /\ late' = [late EXCEPT ![p] = @ \ {n}]
  /\ UNCHANGED <<files, pc, job, to, opt, planned, tally, hashed, verdict, purge, env>>

(* The remote command has answered, or not; digest_tree lists the source ... *)
ListSource(p, answered) ==
  LET s == job[p] IN
  /\ pc[p] = "hash" /\ todo[p] = {}
  /\ digest' = [digest EXCEPT ![p] = RemoteManifest(@, answered)]
  /\ hashed' = [hashed EXCEPT ![p] = Begun(s \in srcDirs)]
  /\ todo' = [todo EXCEPT ![p] = Entries(src[s])]
  /\ Goto(p, "compare")
  /\ UNCHANGED <<files, job, to, opt, planned, tally, verdict, purge, late, env>>

HashSource(p, n, readable) ==
  /\ pc[p] = "compare" /\ n \in todo[p]
  /\ hashed' = [hashed EXCEPT ![p] = Hashed(@, n, src[job[p]][n], readable)]
  /\ todo' = [todo EXCEPT ![p] = @ \ {n}]
  /\ UNCHANGED <<files, pc, job, to, opt, planned, tally, digest, verdict, purge, late, env>>

(* ... and the stricter verdict replaces the tally's. *)
CompareContent(p) ==
  /\ pc[p] = "compare" /\ todo[p] = {}
  /\ verdict' = [verdict EXCEPT ![p] = VerifyContent(hashed[p], digest[p])]
  /\ hashed' = [hashed EXCEPT ![p] = MissingRoot]
  /\ digest' = [digest EXCEPT ![p] = MissingRoot]
  /\ Goto(p, "record")
  /\ UNCHANGED <<files, job, to, opt, planned, todo, tally, purge, late, env>>

(* manifest_path.write_text: the file is truncated, and with it goes what    *)
(* led to the entries some archive has already taken ...                     *)
OpenManifest(p) ==
  /\ pc[p] = "record"
  /\ manifest' = [manifest EXCEPT ![ManifestKey[job[p]]] = TornManifest]
  /\ astray' = [s \in Sources |->
                  IF ManifestKey[s] = ManifestKey[job[p]] THEN Stranded(s) ELSE astray[s]]
  /\ Goto(p, "recording")
  /\ UNCHANGED <<src, srcDirs, dst, dstDirs, job, to, opt, memory, late, want, edits, rots>>

(* ... then written, whatever the verdict; without a VERIFIED one            *)
(* ArchiveNotVerifiedError ends the command.                                 *)
WriteManifest(p) ==
  LET s == job[p] IN
  /\ pc[p] = "recording"
  /\ manifest' = [manifest EXCEPT ![ManifestKey[s]] =
                    [state |-> "whole", source |-> s, destination |-> to[p]]]
  /\ astray' = [astray EXCEPT ![s] = {n \in Stranded(s) : dst[Place(p)][n] # want[s][n]}]
  /\ IF MayRemoveSource(verdict[p])
     THEN Goto(p, "remove") /\ UNCHANGED <<job, to, opt, memory, late>>
     ELSE Leave(p)
  /\ UNCHANGED <<src, srcDirs, dst, dstDirs, want, edits, rots>>

(* shutil.rmtree lists the directory ... *)
StartRemoval(p) ==
  /\ pc[p] = "remove" /\ job[p] \in srcDirs
  /\ todo' = [todo EXCEPT ![p] = Entries(src[job[p]])]
  /\ Goto(p, "unlink")
  /\ UNCHANGED <<files, job, to, opt, planned, tally, hashed, digest, verdict, purge, late, env>>

(* ... unlinks what it listed, whatever it holds by now ... *)
Unlink(p, n) ==
  /\ pc[p] = "unlink" /\ n \in todo[p]
  /\ src' = [src EXCEPT ![job[p]][n] = NoEntry]
  /\ todo' = [todo EXCEPT ![p] = @ \ {n}]
  /\ UNCHANGED <<srcDirs, dst, dstDirs, manifest, pc, job, to, opt, planned, tally, hashed, digest, verdict, purge, late, env>>

(* ... and removes the directory, which fails if something new is in it. *)
RemoveDir(p) ==
  /\ pc[p] = "unlink" /\ todo[p] = {}
  /\ srcDirs' = IF Entries(src[job[p]]) = {} THEN srcDirs \ {job[p]} ELSE srcDirs
  /\ Leave(p)
  /\ UNCHANGED <<src, dst, dstDirs, manifest, env>>

(* restore *)

(* plan_restore reads the manifest filed under s and takes the directory and *)
(* the destination it names, verified or not; rsync lists what is there.     *)
StartRestore(p, s, delete_remote) ==
  LET found  == manifest[ManifestKey[s]]
      source == found.source
      place  == <<found.destination, source>>
  IN
  /\ pc[p] = "idle" /\ found.state = "whole" /\ place \in dstDirs
  /\ LiveRestores \/ \A n \in Names : src[source][n] \in {NoEntry, dst[place][n]}
  /\ Goto(p, "pull")
  /\ job' = [job EXCEPT ![p] = source] /\ to' = [to EXCEPT ![p] = found.destination]
  /\ todo' = [todo EXCEPT ![p] = Entries(dst[place])]
  /\ purge' = [purge EXCEPT ![p] = delete_remote]
  /\ srcDirs' = srcDirs \cup {source}
  /\ UNCHANGED <<src, dst, dstDirs, manifest, opt, planned, tally, hashed, digest, verdict, late, env>>

(* rsync -a, without --checksum. *)
PullEntry(p, n) ==
  LET here == src[job[p]]
      there == dst[Place(p)][n]
  IN
  /\ pc[p] = "pull" /\ n \in todo[p] /\ there # NoEntry /\ job[p] \in srcDirs
  /\ \/ src' = [src EXCEPT ![job[p]][n] = there]
     \/ QuickCheckSkips([checksum |-> FALSE], here[n], there) /\ src' = src
  /\ todo' = [todo EXCEPT ![p] = @ \ {n}]
  /\ late' = Touched(From(job[p]), Changed(here, src'[job[p]]))
  /\ UNCHANGED <<srcDirs, dst, dstDirs, manifest, pc, job, to, opt, planned, tally, hashed, digest, verdict, purge, env>>

(* Fault: --delete-remote without looking at rsync's exit code. *)
PullDoneUnchecked(p) ==
  /\ pc[p] = "pull"
  /\ IF purge[p]
     THEN /\ Goto(p, "purge")
          /\ todo' = [todo EXCEPT ![p] = Entries(dst[Place(p)])]
          /\ UNCHANGED <<job, to, opt, planned, tally, hashed, digest, verdict, purge, late>>
     ELSE Leave(p)
  /\ UNCHANGED <<files, env>>

(* rsync exited 0: with --delete-remote, rm -rf lists the remote copy. *)
PullDone(p) ==
  /\ pc[p] = "pull" /\ todo[p] = {}
  /\ IF purge[p]
     THEN /\ Goto(p, "purge")
          /\ todo' = [todo EXCEPT ![p] = Entries(dst[Place(p)])]
          /\ UNCHANGED <<job, to, opt, planned, tally, hashed, digest, verdict, purge, late>>
     ELSE Leave(p)
  /\ UNCHANGED <<files, env>>

UnlinkRemote(p, n) ==
  /\ pc[p] = "purge" /\ n \in todo[p]
  /\ dst' = [dst EXCEPT ![Place(p)][n] = NoEntry]
  /\ todo' = [todo EXCEPT ![p] = @ \ {n}]
  /\ late' = Touched(At(Place(p)), {n})
  /\ UNCHANGED <<src, srcDirs, dstDirs, manifest, pc, job, to, opt, planned, tally, hashed, digest, verdict, purge, env>>

RemoveRemoteDir(p) ==
  /\ pc[p] = "purge" /\ todo[p] = {}
  /\ dstDirs' = IF Entries(dst[Place(p)]) = {} THEN dstDirs \ {Place(p)} ELSE dstDirs
  /\ Leave(p)
  /\ UNCHANGED <<src, srcDirs, dst, manifest, env>>

-----------------------------------------------------------------------------
(* The environment *)

(* A command raises (mkdir or df refused, rsync exited non-zero, rmtree or   *)
(* the manifest's write met an OSError, rm failed) or is killed.             *)
Stop(p) ==
  /\ pc[p] # "idle"
  /\ Leave(p)
  /\ UNCHANGED <<files, env>>

(* Somebody stores, replaces or deletes an entry of a source. *)
Edit(s, n, c) ==
  /\ edits < MaxEdits /\ c # src[s][n]
  /\ LiveEdits \/ \A p \in Procs : pc[p] = "idle"
  /\ src' = [src EXCEPT ![s][n] = c]
  /\ srcDirs' = srcDirs \cup {s}
  /\ want' = [want EXCEPT ![s][n] = c]
  /\ late' = Touched(From(s), {n})
  /\ edits' = edits + 1
  /\ UNCHANGED <<dst, dstDirs, manifest, local, astray, rots>>

(* An entry of a destination is altered, truncated or lost. *)
Rot(place, n, c) ==
  /\ rots < MaxRots /\ dst[place][n] # NoEntry /\ c # dst[place][n]
  /\ dst' = [dst EXCEPT ![place][n] = c]
  /\ late' = Touched(At(place), {n})
  /\ rots' = rots + 1
  /\ UNCHANGED <<src, srcDirs, dstDirs, manifest, local, want, astray, edits>>

-----------------------------------------------------------------------------
ArchiveStep(p) ==
  \/ \E s \in Sources, d \in Destinations, o \in Options : PlanArchive(p, s, d, o)
  \/ \E free \in FreeBytes : StartPush(p, free)
  \/ \E n \in Names : PushEntry(p, n)
  \/ PushDone(p)
  \/ StartTally(p)
  \/ \E n \in Names : MeasureEntry(p, n)
  \/ CountRemote(p)
  \/ \E answered \in BOOLEAN : ReadBack(p, answered)
  \/ ListRemote(p)
  \/ \E n \in Names, readable \in BOOLEAN : HashRemote(p, n, readable)
  \/ \E answered \in BOOLEAN : ListSource(p, answered)
  \/ \E n \in Names, readable \in BOOLEAN : HashSource(p, n, readable)
  \/ CompareContent(p)
  \/ OpenManifest(p)
  \/ WriteManifest(p)
  \/ StartRemoval(p)
  \/ \E n \in Names : Unlink(p, n)
  \/ RemoveDir(p)

RestoreStep(p) ==
  \/ \E s \in Sources, delete_remote \in BOOLEAN : StartRestore(p, s, delete_remote)
  \/ \E n \in Names : PullEntry(p, n)
  \/ PullDone(p)
  \/ \E n \in Names : UnlinkRemote(p, n)
  \/ RemoveRemoteDir(p)

Environment ==
  \E n \in Names, c \in Contents \cup {NoEntry} :
    \/ \E s \in Sources : Edit(s, n, c)
    \/ \E place \in Places : Rot(place, n, c)

Next ==
  \/ \E p \in Archivers : ArchiveStep(p)
  \/ \E p \in Restorers : RestoreStep(p)
  \/ \E p \in Procs : Stop(p)
  \/ Environment

Spec == Init /\ [][Next]_vars

(* Properties *)

(* No entry is lost when nobody edits a directory while a command works on   *)
(* it, nothing else writes to the destination, and what one archive has half *)
(* removed goes on to the same host: whatever step a command fails or is     *)
(* killed at, and however often archive and restore are retried, what the    *)
(* owner last stored under a name is held locally or at a destination, and a *)
(* local copy that exists is never an older version.                         *)
NoLoss ==
  \A s \in Sources, n \in Names :
    n \in Stranded(s) =>
      src[s][n] = NoEntry /\ \E d \in Destinations : dst[<<d, s>>][n] = want[s][n]

(* Under the same circumstances what exists only remotely is found again:    *)
(* the manifest of its directory can be read, and names a destination that   *)
(* holds it.  "Manifest before delete" (_archive.py:50) fails safe; what it  *)
(* does not save are entries that an earlier archive, killed in its rmtree,  *)
(* had taken before the manifest was opened again, until it is written.      *)
StrandedIsFound ==
  \A s \in Sources, n \in Names :
    n \in Stranded(s) \ astray[s] =>
      LET found == manifest[ManifestKey[s]] IN
      /\ found.state = "whole" /\ found.source = s
      /\ dst[<<found.destination, s>>][n] = want[s][n]

(* The window in which a change is not noticed.  rmtree may only unlink what *)
(* is held at the destination, except for entries changed on either side     *)
(* since the command last compared them: when rsync --checksum sent them, or *)
(* when their sha256 at the destination was read.  It holds with any number  *)
(* of commands, edits and alterations, at any step.                          *)
Held(p, n) == src[job[p]][n] \in {NoEntry, dst[Place(p)][n]}
Exact(o)   == o.content \/ (o.checksum /\ o.exclude = {})
LossOnlyInWindow ==
  \A p \in Procs :
    pc[p] = "unlink" /\ Exact(opt[p]) => \A n \in todo[p] \ late[p] : Held(p, n)

(* The read-back is not fooled by a destination that lost entries: if find   *)
(* counted no name the source's walk had not listed, a VERIFIED tally means  *)
(* that it missed none of them, and that what the destination held when du   *)
(* weighed it is as long as what the walk measured, give or take what the    *)
(* directories add to du.                                                    *)
ReadBackSeesLostEntries ==
  [][\A p \in Procs :
       /\ pc[p] = "weigh" /\ verdict'[p] = VERIFIED
       /\ tally[p].found \subseteq tally[p].listed
       => /\ tally[p].found = tally[p].listed
          /\ Bytes(dst[Place(p)]) + DirBytes >= tally[p].bytes]_vars


(* Under the assumptions of NoLoss, archive and restore implement Mover: no  *)
(* step but the owner's changes what is wanted, and each of the others is a  *)
(* copy, a drop of what the destination holds, a fetch of what is missing or *)
(* a discard of what is held locally, one entry at a time.                   *)
Abstract == INSTANCE Mover WITH local <- src, remote <- dst, wanted <- want
MovesSafely == Abstract!Spec

=============================================================================
