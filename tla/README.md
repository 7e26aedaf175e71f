# A verification project for scitex-storage

TLA+ models of the parts of `scitex-storage` that move, pack, remove and watch
over users' files, TLC runs that check them on small instances, and TLAPS
proofs for every size.  All paths below are relative to
`src/src/scitex_storage/` unless they start with `src/`.

The program is a set of commands and a small web application, each a separate
process.  There is no server that serialises them and no lock: a user, a timer
and a SLURM job may run commands on the same directory at the same time, while
other programs go on writing there.  What protects the data is only the *order*
in which a command copies, looks, records and removes, so this order, cut into
its smallest steps and interleaved with everything else, is what the models are
about.

## Inventory

| Component | Source | State | Operations | What is hard, what makes it correct |
|---|---|---|---|---|
| Archive, restore | `_transfer/_archive.py`, `_restore.py` | a local tree, a remote tree, a manifest per directory | push (rsync), tally, digest, manifest, rmtree; pull, `--delete-remote` | rsync and rmtree take time, the source lives, the NAS lies or goes silent, a kill at any step. Nothing may be removed that is not held elsewhere; what is only remote can be found again |
| Transfer verification | `_transfer/_verify.py`, `_space.py` | none | tallies, content manifests, verdicts, room | "unknown" must never pass as "verified"; 0, missing and unanswered are three things |
| Sweep | `_transfer/_sweep.py`, `_sweep_stream.py` | a directory, a temporary and a final tar, local or remote | plan, build or stream, read back, rename, rmtree | a leftover temporary file, two sweeps sharing one name, an edit after the file was read, an ssh call that times out but took effect. A final name always means a finished tar |
| Reclaim | `_transfer/_reclaim.py` | paths, `.old/<run>` and archive roots, a manifest per run | move aside, record, move back, count | a move is a rename or a copy and a removal; replaced originals, one destination twice, a run that fails half-way |
| Alarm | `_alarm/`, `_cli/_alarm_cmd.py`, `_fleet_status.py` | filesystems, last level and unknown streak, what the reader was told | gather, evaluate, decide, push, record | it speaks of changes only, so a transition missed once is missed for good: silence must mean "told already" |
| Observation | `_observe/`, `_fleet_status.py` | a snapshot and the three pages made of it | ask each host in turn over ssh, assemble rows, publish by three renames | any call fails, `df` answers in part, levels change between two calls; what was not looked at must not come out green, the pages must not disagree |
| GUI project files | `_django/project_files.py`, `views.py` | a project tree, private staging names in it | list, read, write, rename, delete | path components swapped between check and use, a tree that grows while it is deleted: nothing is seen half deleted, nothing stays hidden |
| GUI volumes, organise | `_django/volumes.py`, `organize.py` | worker threads with deadlines | measure, list, duplicates, move | a mount that does not answer: a thread given up on, a call in the request's own thread. A page says only what was so, and is answered |
| Document pipeline | `_document_pipeline/` | inbox, archive, filed copies, index | classify, file, archive, index | crash between copy, move and index; names that collide; a scanner still writing. A filed document is recoverable, the index stays true |
| Images | `_images.py` | image files, symlinks, open handles | plan, prune | a symlink turned, or an image opened, after the plan: nothing live is removed, and enough stays |
| Survey | `_measure/_survey.py`, `_classify.py`, `_open_handles.py` | none of its own; the tree, `/proc` | walk, probe, combine | the tree is read, written, mounted and opened while it is looked at; what was not seen must not pass for cold or free |
| Find-recipe | `_measure/_regenerable.py` | none of its own | detect a cache or an environment, climb for its recipe | a recipe for something else, or beyond the boundary, must not be credited; the only copy must be called so |
| Broker contracts | `_broker.py` | none here; policy, directories and quotas at the executor | plan, digest, validate a readback | an answer to another request, another policy or another directory must not be taken for the one asked |
| Scan, plan of a sweep | `_measure/_scan.py`, `_transfer/_sweep.py` | none | two searches and an `lstat` of each file per child, one reading of the clock | jobs write while the walk is on its way, a subdirectory cannot be read: what is in use must not be offered |
| Redundancy coverage | `_measure/_redundancy.py` | an inventory with verification times, policies | count the copies that prove something, report gaps | copies decay after they were read back, clocks differ: "covered" must be worth something |
| Find-duplicates | `_measure/_duplicates.py`, `_cli/_duplicates_cmd.py` | none | group by size, group by content (`fclones`), size the groups, overlap | files change between the stages, roots nest: what is reported must be true of what was left alone |
| GUI server | `_cli/_gui_cmd.py`, `_django/_server.py` | a state file, a port, a process | serve, open, status, stop | several commands at once; the record is written before the port is bound and removed by whoever ends: a server that listens must be known |
| Other measurement | `_measure/_accounting.py`, `_inodes.py` | none | compare, sum | three-valued verdicts: not measured is not zero |
| Reports, renderers, CLI | `_report.py`, `_render/`, `_cli/` | none | formatting, argument parsing | - |

The components share three things: the filesystem, the manifest files under the
user's state directory, and the pure deciders of `_verify.py`, `_space.py` and
`_alarm/_decide.py`.  `PROJECT.json` lists the hazards of this code at the lines
where they bite, with the properties that cover them.

## Modules

| Module | Models | Used by |
|---|---|---|
| `Verify` | entries and trees; `local_tally`, `REMOTE_TALLY_CMD`, `verify_transfer`, content manifests and `verify_content`, `may_remove_source`, `check_space` | `Archive`, `Sweep` |
| `Mover` | the promise of archive and restore: only the owner changes what is wanted, a local entry is dropped only where a destination holds it, a missing one is fetched but never an older version, a remote one is discarded only where it is held locally | `Archive` (refinement) |
| `Archive` | `apply_archive` and `apply_restore`, any number of processes, directories, entries | `MCArchive`, proofs |
| `Sweep` | both sweeps on the same directories | `MCSweep` |
| `Reclaim` | reclaim and its restore | `MCReclaim` |
| `AlarmDecide` | `evaluate_row`, `evaluate_snapshot`, `next_unknown_streak`, `should_notify` | `Alarm` |
| `Alarm` | `alarm_cmd` with its gather, state file and rail | `MCAlarm` |
| `ProjectFiles` | `write_file`, `make_directory`, `rename_file`, `delete_file` over inodes and paths | `MCProjectFiles` |
| `Images` | `plan_prune`, `apply_prune` | `Commands` |
| `DocumentPipeline` | `process_inbox`, `process_document` | `Commands` |
| `Volumes` | `measure_all`, `list_dir`, the organise pages | `Commands` |
| `Observe` | `observe_fleet`, `write_fleet_snapshot` | `Commands` |
| `Survey` | `survey` with `stat_tree`, `iter_open_paths`, its signals and `combine` | `Commands` |
| `Recipe` | `is_regenerable`, `detect_cache`, `detect_environment`, `find_spec` | `Commands` |
| `Broker` | `plan_storage`, `_plan_digest`, `validate_readback` and an executor | `Commands`, proofs |
| `Gui` | `serve`, `open`, `status`, `stop` and the port | `Commands`, proofs |
| `Redundancy` | `Copy.counts`, `assess`, `assess_all` over copies that live on | `Commands`, proofs |
| `Duplicates` | `size_groups`, `candidate_bytes`, `find_duplicates`, `reclaimable_bytes`, `duplicates_signal`, `overlap_bytes` | `Commands` |
| `PlanSweep` | `scan`, `_measure_dir`, `_fd_search` and `plan_sweep` | `Commands`, proofs |
| `Commands` | the eleven above, from `Images` on, side by side: they share no state, so a behaviour is one of any of them (`focus`) | `MCCommands` |
| `ArchiveProofs` | theorems about `Archive` | - |
| `AlarmProofs` | theorems about `Alarm` and `AlarmDecide` | - |
| `SweepProofs` | theorems about `Sweep` | - |
| `ReclaimProofs` | theorems about `Reclaim` | - |
| `FilesProofs` | theorems about `ProjectFiles` | - |
| `SumProofs` | lemmas about sums over finite sets, which `du` and duplicate counts are | `ArchiveProofs`, `VerdictProofs` |
| `VerdictProofs` | theorems about `Recipe`, `Redundancy`, `Survey`, `PlanSweep`, `Duplicates` | `CommandProofs` |
| `CommandProofs` | theorems about `Images`, `DocumentPipeline`, `Gui`, `Volumes`, `Observe`, `Broker`, and about `Commands` | - |
| `MC*` | constants for the runs | - |

Definitions whose comment starts with `Fault:` are not part of a specification.
Each is a plausible mistake in one of the modelled functions (a dropped guard, a
swapped order, a skipped read-back); substituting it for the definition beside
it breaks a property, which is how we know the property says something about
the code.  `PROJECT.json` pairs them.

### How state and actions correspond to the code

*Trees.* A directory is a function from entry names to contents or `NoEntry`.
`Length` gives a content's size; two contents of one length are what rsync's
quick check cannot tell apart (the modification times of such a pair may be
equal, so that the skip is a possibility, not a certainty).  `DirBytes` is what
directories add to `du -sb`.

*Processes.* `pc[p]` names the call the command is about to make.  One action
per call: `rsync`, `rmtree`, a tally's walk and the hashing of a tree list their
entries when they begin and then take one entry per step, `write_text` is a truncation and a write, an ssh question
may go unanswered, and `mv` on a remote host may have happened although the call
timed out.  `Stop` is every exception without a clean-up and every kill; what
the process held in memory disappears, what is on disk stays.

*Archive.* `PlanArchive` is `plan_archive`, which measures the source; `StartPush`
the `mkdir -p`, the space check on what was planned (only a certain "no-room"
refuses) and rsync's listing; then `PushEntry`, `PushDone`, `StartTally` and
`MeasureEntry` (`local_tally` *after* the push), `CountRemote` and `ReadBack` (the
`find` and the `du` of the read-back), `ListRemote`, `HashRemote`, `ListSource`,
`HashSource` and `CompareContent` (`--verify-content`), `OpenManifest`,
`WriteManifest`, `StartRemoval`, `Unlink`, `RemoveDir`.  The manifest names the
source and the destination, is written for every verdict, and only
`may_remove_source` opens the way to rmtree.  `StartRestore` takes the directory
and the destination from a manifest that can be read; with `PullEntry`,
`PullDone`, `UnlinkRemote` and `RemoveRemoteDir` it is `apply_restore`.  `late[p]`
is history: entries that changed on either side since p last knew both sides
equal.  So is `astray`: entries that an earlier archive, killed in its rmtree, had
taken when the manifest was opened again.  Opening truncates it, so that for
these, and these only, a kill before it is written leaves no manifest that leads
to them, until the rest of the directory is archived again.

*Sweep.* Tars are inodes, and names point at inodes, because the processes share
the temporary names: a sweep that unlinks a "leftover" may take the file another
one is still writing, and `cat >` truncates a file another stream has open.

*Reclaim.* A place is a directory, a run id (0: not archived) and a base name,
which is all `_archive_destination` keeps of a path.  A place holds items whole
or in part, so that a crash inside a cross-device copy, or inside the removal
after it, is visible.  A move by copy takes two steps, a restore's look at the
place and its move two more; an owner or another process may act in between.
`disturbed` is history: the processes whose place somebody else has changed since
they began to move an entry from or to it.  `took` and `laid` are history: what a
run took from a place, and what it laid *whole* into the archive.  A restore that was
killed in its removal leaves a remnant there, which is not what the run laid.

*Alarm.* A measure is GiB free and percent inodes used; `Rows` keeps the figures
`_probe_local_path` really fills in, by two `statvfs` one after the other, and each
of them may not return while the filesystem is down (`Hangs`).  `alarming` is the
filesystems whose rows are in alarm, which the message names.  `told` is the level of
the last message that reached the reader, `named` the filesystems that the last push
named, `gap` why `told` and the state file may have come apart.

*Project files.* Paths lead to inodes, and a request holds the inodes it opened,
as the code holds directory descriptors: what it does next is done to that inode
wherever it has gone meanwhile.  A delete moves the entry into a private stage
(`MakeStage`, `MoveToStage`), looks whether it moved what it had opened
(`VerifyMoved`), and only then empties it (`ListEntries`, `DeleteChild`,
`RemoveTarget`, `RemoveStage`).  Users are assumed not to name the random private
names, and the project's root to stay.

*Images.* Images are numbered as they are built.  `ReadLink` reads one symlink,
`Plan` computes the removals, `Look` and `UnlinkImage` are the two calls
`apply_prune` makes per image; builds, swaps, processes go on in between.
`taken` is history: images linked since the links were read, opened since the
last look.

*Document pipeline.* The content of a document is its version, the number of
times the scanner wrote to it.  `Hash`, `PickArchived`, `CopyPart`/`Copy`,
`PickSorted`, `MoveByRename` or `MoveByCopy` and `UnlinkScan`, `AppendIndex` are
the calls of `process_document`; `StopRun` a kill or an exception at any of them.

*Volumes.* Each request starts a thread for every volume, with a box of its own for
the answer (`box`).  The thread asks whether there is a directory (`IsDir`) and then
measures it (`Measures`); the page takes the answer of its own probe (`Take`) or gives
up on it (`GiveUp`), and the thread goes on and answers when the mount returns,
perhaps during a later request.  A volume is mounted, not mounted with its mount
point left (`"bare"`), gone, or stale; for a bare mount point the code answers
"reachable" with the figures of the filesystem beneath, which the model keeps apart as
`BENEATH`.  Once all have been told of, the page works in a bounded thread (`Bounded`)
or in its own (`Direct`, `Results`), where a stale mount does not return.  `been` is
history: what was at a volume's path while the request waited to be told of it.

*Observe.* One action per call of the runner; what `df` prints of a host is one
reading of its mounts without the stale ones, and of those any part, since a `df`
that fails counts by what it printed, and lines that do not parse are dropped.
`InodeColumns` is what `parse_df_posix` makes of the columns.  `steady` is history:
what was full and readable since the gather began; so is `unshown`: what a `df -P`
that answered left out.

*Survey.* `ListTree`, `StatFile` and `ListNested` are `os.walk` and its `lstat`s,
`ListProcs`, `ReadFds` and `ReadMaps` the scan of `/proc`, one process at a time.
Around them files are written and read, with access times as `relatime` keeps
them, filesystems are attached and detached, processes start, inherit, open and
end.  `unlisted` and `heldOn` are history: what no listing could show, and what
was held throughout.

*Find-recipe.* One action per `listdir`, `exists` and level of the climb.
`candidate.has` abstracts the names in the directory to the markers the code
looks for; `beenThere` and `stillThere` are history.

*Broker.* `Blockers` is `validate_readback`, `MayPlan` and `PlanDigest` the plan it
derives anew.  `Provision`, `Chown`, `SetQuota` and `ReadBackTarget` are the
executor, which the source only declares (`NasExecutor`): a directory is made or
adopted, given its owner, mode and quota, and read back, with a failure at any
point.  Answers stay in `readbacks` and may be compared with any request at any
later time.

*GUI server.* One action per call of each command: `OpenLooks` (is one running?),
`WriteGuiState`, `CheckPort`, `BindPort`, then the server listens until it is
interrupted (`InterruptGui`, `ClearGuiState`, the `finally`) or killed; `gui stop`
reads, signals and clears.  `GuiRuntime` comes from another package and is
modelled by what its callers rely on.  `crowded` is history: servers whose start
another command fell into.

*Redundancy.* The inventory is a tuple of entries, and nothing keeps two of them from
being one copy; `Facts[e].copy` is the copy an entry lists.  `ReadCopyBack` reads a
copy back and notes the time by the clock of its host, or that it did not come back,
at the entries that host knows of; `Spoil` is what happens to a copy afterwards,
`AssessAll` the report, by the clock of the host that makes it.  `provenAt` is history:
when a copy last came back sound, and nothing once it did not; so is `unnoted`: proofs
that a later reading refuted without its being noted at the entry.

*Duplicates.* `StatEntry`, `ReadEntry` and `Length1` look at one file each, in three
passes; between any two files are rewritten, made and removed.  `altered` is
history: what changed since it was stat-ed, and since it was read.

*Plan of a sweep.* `SearchFiles` and `SearchLinks` are the two searches of `fd`,
`StatNode` the `lstat` of one file (with `isdir` for a symlink), `MeasuredChild`
the end of a child, `MakePlan` the reading of the clock and the choice.
`stirred` is history: what changed since its child's walk began and was not looked
at since; `blind` what no search could show.

## Runs

Runs that pass:

| Run | Instance | Question |
|---|---|---|
| `archive_quiet` | one process that archives and restores, one directory, 2 hosts, 2 names, 3 contents (2 of one length), 3 sets of flags, 2 edits between commands | `NoLoss`, `StrandedIsFound`, and that `Archive` implements `Mover`, over kills and failures at any step, unanswered probes, retries |
| `archive_race` | an archiver, a restorer, 2 names, 2 contents of one length, 2 sets of flags, 1 edit and 1 alteration at any moment | `LossOnlyInWindow`: the only entries rmtree may lose are those changed after the last comparison; `ReadBackSeesLostEntries` |
| `sweeps` | a local sweep and a stream of one directory of 2 names, 1 edit, 1 garbled entry, 4 inodes | `NoFileLost`, `PublishedIsFinal` |
| `reclaim_apart` | a reclaimer and a restorer, 2 places of different names, a file, a directory and a third item, 3 roots, one of them far; 2 runs of at most 2 paths; the owner and the two processes at any moment | `ManifestIsPrecise`, `NothingUnlinked`, `RestoreReturnsWhatWasTaken` |
| `alarm` | 2 filesystems, 3 kinds of measures and "cannot be read", refused pushes, a kill, lost state | `AlarmIsTold`, `RecoveryIsTold`, `BlindnessIsTold`, and `FullDiskIsNamed` (liveness) |
| `project_files` | 2 workers: one delete, and two requests of any kind; 2 names, 4 paths, 7 inodes, 1 symlink | `NothingHidden`, `NeverHalfDeleted` |
| `commands` | 3 images, keep 2, 2 prunes, 2 swaps, 1 open; 2 documents of one title, 2 versions, 3 runs; 2 volumes, one of them a mount, 2 requests, 2 changes of it; 3 hosts (GNU, HPC, macOS) with 4 filesystems, 2 gathers, 2 changes; a tree of a file and a nested filesystem of another, 3 processes, 2 doings; 6 markers, 2 kinds of recipe on 3 levels, 1 change; 1 resource, 2 requests of one id, 3 policies, 2 changes; 3 gui commands on overlapping addresses and a stop; 3 copies in 4 entries, 2 hours, clocks 1 apart, 3 changes; 3 files of 3 contents, 2 of one length, under 3 roots, one of them inside another, 1 rewrite; 2 children, one of them with 2 files, one file deeper, the other empty, 2 ticks, 2 changes | `LiveIsRemovedOnlyInWindow`, `KeepsEnough`; `IndexIsTrue`, `FiledIsRecoverable`; `StatusIsHonest`, `OnlyDirectCallsHang` (liveness); `FullIsNeverGreen`, `PagesAgree`; `MovableIsCold`, `HolderIsSeen`; `RecipeIsTrue`; `ReadyIsApplied`; `ServerIsKnown`; `CoveredIsProven`; `FindingIsTrue`, `StakeCoversFinding`; `OfferedIsLeftAlone` |

Runs that show a disagreement between the code and what the repository says of it
(details in "Findings"): `tally_truncation`, `sweep_links`,
`reclaim_same_names`, `alarm_floor`, `images_outside_link`.

*Bounds.* Two names are enough for a partial copy or removal, one entry done and
one not; two contents of one length plus a longer one for each way contents can
differ (size, bytes only); one edit and one alteration for every race that needs
one change, at every point; two hosts for an archive that is done again to another
one.  Four inodes cover two final names, two temporary
ones and the files still open.  Two reclaim runs of two paths are enough for a
run that stops between two entries, and for a second generation at the same
place.  In `project_files` a directory with one entry, deleted while two other
requests run, is the least in which an entry can arrive, leave or be replaced at
every step; the fourth path gives a rename somewhere to go.  Keep 2 of 3 images
is the least with one kept by its age and one removed; three document runs are
one that is killed, one that repeats and one that meets both leftovers.  A
survey of two files on two filesystems shows a walk that is cut off between
them; three processes are a holder, one that may inherit from it and one of
another user; the clock reaches one beyond the threshold, with the relatime lag
as long as the threshold, the worst the assumption allows.  Three levels are
below, at and above the boundary.  Two requests with the same id and different
terms are a retry with other terms, and two changes one before and one after the
answer.  Three gui commands are a server that listens, one that opens and one that
is refused.  One volume that comes and goes beside one that stays, and two requests, let
a probe of the first answer during the second.  Three copies on two media, one of them
listed twice, two hours and clocks one apart reach every
gap, and a time of verification in the future.  Three files of which two may be
one, under roots one of which is in another, are the least with a group of three
and an overlap that counts twice.  The figures of the first child grow old while
the second, empty one is walked.  The streak cap is one above the streak that
is announced.

*Symmetry.* The two contents of one length are interchangeable in the
specifications (`Permutations({a, b})`), and no run with liveness properties uses it.

*Deadlock.* Where edits are bounded and a directory may end up swept or archived
for good, nothing is left to do; these runs say `CHECK_DEADLOCK FALSE`.
`archive_quiet` and the alarm runs are checked for deadlock.

*Assumptions built into constants.* `LiveEdits = FALSE` in `archive_quiet` says
that nobody edits while a command works, and `LiveRestores = FALSE` that a
restore is not aimed at entries that differ; without them entries are lost, and
`archive_race` says exactly how.  `Redirects = FALSE` says that a directory which an
archive has half removed is archived to a host that holds the rest: archived to
another one, its manifest is overwritten and no longer leads to what only the first
one holds; nothing in the code prevents it.  In `reclaim_apart` anybody may fill, empty or
reclaim a place while it is being moved from or to: restore looks whether the
place is free and then moves, and a file put there in between is replaced.  The
properties say that only such a `disturbed` move loses anything.  `SameNames = FALSE` leaves out the collision that
`reclaim_same_names` exhibits.  `Runs` has one element in `commands`: two
overlapping document-sorter runs pick the same free name and one document
replaces the other, since `_unique_path` only looks; the same goes for two
gathers, whose renames interleave.  Nothing in the code prevents either.

*Fairness.* `Alarm` and `Volumes` have it.  A timer starts a run again and again and the
operating system runs it, unless it is in a `statvfs` on a filesystem that is down,
which has no time limit and may not return: `WF_vars(~Hangs(r) /\ Step(r))` for each run.
Nothing is assumed of filesystems, rail, kills or the state file.  A thread of the web server
runs and a deadline passes, `WF_volVars(PageStep(w))`; a call into a stale mount
is a disabled step, so fairness does not answer it, and mounts need not come back;
the threads of the probes have none.  The transfer commands
are started by people, may be killed, and promise safety only: no fairness.

## Proofs

`ArchiveProofs` proves `ArchiveTypes`, `Spec => []TypeOK`.

It proves `LossIsConfinedToTheWindow`, `Spec => []LossOnlyInWindow`, for any number of processes, directories, names, edits and alterations.
`LossOnlyInWindow` speaks of the moment of unlinking and is not inductive.  The
invariant `Windows` carries the comparison forward: from the moment an entry was
sent with `--checksum`, or its digest was taken at the destination, each entry that is not
`late` is equal on both sides, through read-back, comparison, manifest and
listing; while entries are being hashed it holds of those that are done, and says of
which version the digests are.  Every action that changes either side adds the entry to `late` of all
processes watching that directory.

Its last part adds the assumption `Alone`: one process, no live edits or
restores over differing entries, no change of host half-way, a destination nobody
else writes, exact flags.
`Calm` says that then nothing is ever late, that a pull only fills what is
missing, and that a purge finds every remote entry present here.  `Led` says that
what is stranded is held by each destination that matters, the one that a readable
manifest names and the one a command works on, that without a readable manifest it is
`astray`, and that rmtree begins only when the manifest names its destination.  From these
follow `ArchiveLosesNothing`, `StrandedIsAlwaysFound` and `ArchiveImplementsMover`: every
step is a step of `Mover` or a stutter, and `Mover` lets nobody but the owner change what
is wanted, so that a removal of what no destination holds is no step of it.

`LostEntriesAreAlwaysSeen` (`Spec => ReadBackSeesLostEntries`) needs no such assumption.
Before the read-back nothing is verified (`Unjudged`), so that a verdict is the one just
made; equal counts of entries, of which one set is in the other, make the sets equal,
and bytes compare as the tally compares them (`TallySays`).

`SumProofs` holds what this and find-duplicates need of sums.  `SumFunction` is a fold
that takes out one chosen element after the other; that the function it recurses
through exists is proved a size at a time (`TablesAreThere`), each time by the least
counterexample, since the induction theorems of the library cannot be used.  From
there any element may be taken out (`SumOut`), and sums are natural, grow with
their terms, add up, and split into those of parts.

`AlarmProofs` proves `AlarmTypes`, `Spec => []TypeOK`, for overlapping runs as well, and
with `OneRun` (the timer starts no run before the last one ended) `AlarmsAreTold`,
`RecoveriesAreTold` and `BlindnessIsAlwaysTold`.  The properties speak of settled
states; the invariant carries them over a push that is not yet recorded:
`PushIsTold` says that such a push is what the reader has, `LevelsAreTold` and
`StreaksAreTold` relate record, reader and `gap` in between.

`SweepProofs` proves `SweepTypes`, `NothingIsEverLost` (`[]NoFileLost`) and `FinalIsFinal`
(`PublishedIsFinal`) with `OneOfEach`: one local sweep and one stream at a time, on
any directories, the same one included; and `InodesAssumption`, that a file can
always be created.  The invariant adds to the types that no two names are one
inode (`Distinct`), and for each process that it has open only its own temporary
name (`Opened`), that the final name is free until it renames (`FinalFree`) and
that what it has copied is what the directory holds, but for late edits
(`Copied`).  `NamesAfter` says once what any step may do to the names.

`ReclaimProofs` proves `ReclaimTypeCorrect` and `ManifestsArePrecise` for any places,
roots, runs and processes: a process knows that what it is past was moved, or in a
restore emptied (`Knowing`), and alone knows the number of its run until the manifest
is whole (`Separate`).  With `~SameNames`, that no run is given two paths of one name
(`reclaim_same_names` shows what happens then), it proves `ReclaimOnlyMoves`
(`NothingUnlinked`) and `RestoreReturns` (`RestoreReturnsWhatWasTaken`: what comes back is
what the run took, and whole as far as it was laid into the archive whole).  Their invariant
says that the places a run will move to are empty (`Fresh`, `Unused`, from `Distinct`
names), that a place of a run holds what the run took or nothing (`Faithful`,
`ManifestsFaithful`), and that a process nobody has disturbed knows both ends of its
move (`Careful`).

`CommandProofs` proves `EnoughIsAlwaysKept` (`KeepsEnough`) and `LiveImagesAreSpared`
(`LiveIsRemovedOnlyInWindow`) for any images, links, processes and `--keep`.  The invariant
says that what is *not* to be removed is enough already (`Enough`), which holds when
the plan is made by `RemovalsLeaveEnough`: take the newest image that goes; the newer
ones and the referenced ones stay, and they are two disjoint sets.  `Spared` says that
what goes and is named was named after the links were read.  With `OneRun`, it proves
`IndexIsAlwaysTrue` and `FiledIsAlwaysRecoverable` of document-sorter: what has left the
inbox never comes back (`Gone`), no step touches its copies (`KeepsTheGone`), and the
document in hand has what its stage says (`Handled`), above all a place in the sorted
tree that no other document has, since `_unique_path` finds a free name
(`UniqueNameIsFree`).

`VerdictProofs` proves what six commands say of a tree they only look at, while it
changes.  `RecipeIsAlwaysTrue` carries where the climb stands and what was there
(`Climbing`).  `CoveredIsAlwaysProven` carries that a time noted at an entry is, but for the
clocks, no later than when its copy last came back sound, or than a proof that was refuted
and not noted there (`Backed`); that fewer lost copies than counted entries leave one, if each is
listed once, is an injection of entries into copies.  `HolderIsAlwaysSeen`
carries who is still to be looked at (`Seeing`); `MovableIsAlwaysCold` that what
was stat-ed is as old as it looked (`Statted`), that what is not is still to do or
missed (`Walked`), and that an unmissed, unsuspicious tree was left alone
(`Judged`).  `OfferedIsAlwaysLeftAlone` carries that each name of a child that was
passed is no newer than the child's figure (`Passed`), and of the child being
walked than the newest so far, unless it is still listed (`Passing`).

`CommandProofs` goes on with `ServerIsAlwaysKnown` (what starts alone writes the state and
keeps it, `StartsAlone`, `ListensKnown`), `StatusIsAlwaysHonest`, whose invariant says of
the thread of a request that waits what it has found so far, while those that were
given up on run on, `PagesAlwaysAgree` and `FullIsNeverShownGreen`, whose invariant says that a filesystem that stayed
full is still to be asked for, has been told of, has just been read or was left out of
an answer (`ToBeAsked`, `Telling`, `Reading`), and that no row of it is green.  Of the broker it proves `ReadyIsAlwaysApplied`,
`BrokerSpec => []ReadyIsApplied`, for any resources, requests, policies and bounds.
The invariant adds `Answered` to the property: an answer's key was made of its own
request, and an answer that fulfils its request left a record in `made`.
`NoBlockerMeansEqual` takes a verdict without blockers apart, and every change of the
policy or of a directory's identity leaves no verdict standing.

`FilesProofs` proves `FilesStayTree` (`Spec => []TypeOK`, whose part `IsTree` says that no
two entries of a directory have one name and that nothing is in a directory that is
gone) and `StagesArePrivate`, for any workers, requests, links and deaths, on any
trees.  The invariant says that a temporary name is of files only (`OwnsTemp`), so that
`os.replace` replaces no directory and orphans nothing; that a delete has an inode for
each entry it is in the middle of, and all but the innermost are down to their
children (`KnowsEntries`); and that the stage it is about to move into is its own and
empty (`OwnsStage`, `StagesApart`).  What the others know survives any step that only
adds public, fresh or one's own staged names (`QuietTree`, `OthersStay`).

The rest of `FilesProofs` is about what can be seen.  `Visible` is a recursion up the tree
that on a ring of directories says nothing, so first no public names ever go round
(`NoRounds`), for which `TreesAssumption` wants the trees at first to be rooted; then it
is what every set that is closed downwards holds (`SeenIsReached`), and no
recursion is left.  `NeverSeenHalfDeleted` (`Spec => NeverHalfDeleted`) says that the stage
of a delete, and what it has moved there, are hidden directories, and each of its
frames is in that of the one before (`HoldsTucked`); so what it removes, and what
slips into its hands meanwhile, is out of sight (`StagedIsUnseen`).
`NothingStaysHidden` (`[]NothingHidden`) is the reverse, and assumes `Tidy`: at first every
entry has a public name, as in a project on which no request has failed yet.  Its
invariant, a theorem of its own (`HiddenIsInHand`), says whose each hidden entry is: until
a request fails, it is the temporary file, the stage or the staged target of one that
is under way (`HiddenInUse`), and a random name is of one entry (`PrivateOnce`), so that
who replaces or removes his own leaves none.

The last of `VerdictProofs` is find-duplicates: `FindingIsAlwaysTrue` (`[]FindingIsTrue`) and
`StakeAlwaysCovers` (`[]StakeCoversFinding`).  `FindIInv` says of each of the three passes what
it knows of files left alone (`Stated`, `WasRead`, `Measured2`) and what the groups are
(`Grouped`).  The answers are sums: those of a group, all of one length, are its number
of files times that (`PartsMean`), and the first stage, which counts by size, covers the
groups of one size together (`OneSizeCovered`) and so all of them (`StakeFollows`).
`DuplicatesAssumption` has finitely many files and directories, as a walk finds.

The last of `CommandProofs` is `Commands` itself.  Each part gets an inductive invariant
that implies its types (`DocTIInv` to `PlanTIInv`), a step of `Commands` is a step of one
part and leaves the variables of the others alone (`PartsGoOn`), and so `TypesAreKept`
(`Spec => []TypeOK`).  `PromisesAreKept`, `IndexIsAlwaysKept` (with `OneRun`) and
`ImagesAreAlwaysSpared` state the promises of the parts of this `Spec`, which is the
one that TLC runs.

*Assumptions.* Besides those on constants, which TLC evaluates in every run, the theorems
name the ones that the code does not enforce: `Alone` (one archive process, edits
between commands, one host per directory), `OneRun` (alarm, document-sorter), `OneOfEach` (sweeps), `~SameNames`
(reclaim), `Tidy` (project files).  `archive_race` and `reclaim_same_names` show what
happens without the first and the fourth.  Two sweeps of one kind, two timer runs
or two document-sorters race for a name or the record; nothing in the code prevents
it, and nothing is claimed of it.

Model-checked only: `FullDiskIsNamed` and `OnlyDirectCallsHang`, since liveness under
fairness and `ENABLED` are out of the prover's reach.  The five runs with a violation
have no theorem.  Every other property of the passing runs is proved.

## Findings

1. *Truncation within the directories' bytes passes the tally* (`tally_truncation`):
   `du -sb` counts directories, `local_tally` does not, and the check is `<`.
   `--verify-content` catches it; the default does not.
2. *Symlinks to directories are swept away* (`sweep_links`): the walk drops them, no
   tar holds them, rmtree removes them.
3. *One basename twice in a reclaim run* (`reclaim_same_names`): the second move
   replaces the first file in the archive.
4. *CRITICAL is unreachable for the alarm command* (`alarm_floor`): its gather never
   fills `avail_bytes`, so the absolute floors do not apply.
5. *A live image is pruned* (`images_outside_link`): only symlinks inside the pruned
   directory are read, while the layout in `_images.py:10-11` has the live one beside it.

More are visible in the modules and have no run of their own:

- `OpenManifest`: an archive of a half-removed directory first truncates the manifest that
  led to what is gone, so that a kill right then leaves one that `plan_restore` cannot
  read, until the directory is archived again; `_archive.py:50-53` says that a crash
  around the manifest fails safe.  `StrandedIsFound` leaves these entries out (`astray`).
- `NotifyIfNeeded`: an unchanged level is silent, whichever filesystems are behind it: one
  that fills while another's alarm is recorded is never named if the level stays what
  it is, though the first one drains.  A push that was refused is not made again.
  `FullDiskIsNamed` speaks of filesystems that are full while the fleet is recorded as
  healthy.
- `ReadSpace`: a `df -P` that fails with some output counts as an answer, and lines that do not
  parse are dropped: a filesystem missing from it has no row, and nothing says that
  it was not looked at (`unshown`).
- `Measures`: a mount point whose volume is not mounted is a directory, so that it is called
  reachable, with the figures of the filesystem beneath it.
- A restore replaces what was edited since the archive (`PullEntry`); `rsync -a`
  means it, `_restore.py:9` says that restore "deliberately destroys nothing".
- `InodeColumns`: on macOS the first three numbers of a line of `df -Pi` are blocks,
  so the inode percentage shown is the space percentage; `_df.py:80-82` says that
  they hold for both variants.  `FullIsNeverGreen` leaves these inodes out.
- `Direct`: `contained_dir` and the `is_dir` of `duplicates` call into the mount in
  the request's own thread, so that a page can hang on a stale one;
  `volumes.py:12-13` says that it must not.  `OnlyDirectCallsHang` says which.
- `Climb` starts in the directory itself: an environment whose recipe is inside it
  (`package.json` beside `node_modules`) is REGENERABLE, though discarding the
  directory discards the recipe.
- `Entries` leaves hidden names out: a directory with `pkgs` and hidden data is a
  cache, though `detect_cache` says "ONLY `pkgs/`".
- `bound`: a `stop_at` that is not above the path leaves the climb without a
  boundary, up to the root.
- `Marker` takes the first marker: a directory that is two environments needs a
  recipe for the first only.
- `unlisted`: a filesystem inside a surveyed tree that is away when its mount point
  is listed is an empty directory; the tree may be called movable without it.

- `ClearGuiState`: a `gui serve` while a server listens writes its own pid into the
  state, is refused the port, and its `finally` clears the state: the first server
  goes on listening, `gui status` says that none runs and `gui stop` finds none.
  Two `gui open` at once can do the same, though `_gui_cmd.py:136` says "never
  starts a second instance".  `crowded` confines `ServerIsKnown` to the other orders.
- `Counts`: a copy's inventory has a time of verification and no outcome, so a
  restore test that failed cannot be told from one never made, and one that was not
  noted leaves the old time standing (`unnoted`); a time from a
  clock that is ahead stays fresh longer (`Spread`); a copy listed twice counts twice,
  though `_redundancy.py:40-43` asks for one (`ListedOnce`).
- `Owner`: of nested directories, files count for the first one given, so the later
  one shows no overlap, while `overlap_bytes` says bytes "under root A that also
  exist under root B"; `size_groups` walks what lies under both twice.
- `MakePlan`: `plan_sweep` does not look at the error count of `scan`, so that a
  directory with an unreadable subdirectory may be offered while a job writes
  there; `apply_sweep` does not look at the ages again; files that keep an old
  modification time (`cp -p`, `tar x`) count as old.
- `CheckBack`, `FinishCopy`: between a restore's look and its move, and during a move
  by copy, what another program puts there is replaced or removed with the rest;
  there is no lock, and only a `disturbed` move is excused.
- `_measure/_accounting.py`: a filesystem that reports zero used bytes has the
  residual 0.0 and is called movable however much was measured on it, though
  a negative residual "is not silently treated as fine" (lines 99-100); only
  tests call `accounting_signal`.

## Not modelled

Reports, renderers, argument parsing, lazy imports and the start-up of the web
server: formatting and wiring with no state a model would tell apart.  The
parsing of `find`, `du`, `df`, `sha256sum` output is represented by what it
yields: an answer, a part of one, or none.  A line of `df` that is cut off inside its
mount point, and so names another, is left out.  `find` and `du` each look at the
destination at one moment.  Directory entries are flat: a nested tree adds
paths, not new orders of steps (in `ProjectFiles` trees do nest).

Of the measurements, accounting and inodes are sums over figures taken elsewhere,
and no command acts on them (`accounting_signal`, `destination_signal`,
`free_space_signal` and `clustering_signal` are called by tests only).
Of `fclones`, `fd`, `GuiRuntime` and the executor of the broker only what the code
relies on is modelled: `fd` lists what it can read at one moment, `fclones` reads
file by file, hard links and empty files left out.  Depth limits, the browser, the
auto-reloader and children of a scanned directory that are no directories are left out.
`os.walk` in the local sweep silently skips a subdirectory it cannot list; trees
being flat there, this is not in `Sweep`.

Smaller simplifications, module by module.  `Sweep`: the space check of a sweep uses
the size measured for its plan, the model what is there now.  `Reclaim`: places are
not inside one another.  `ProjectFiles`: the requests that only read are not
modelled; `Visible` is what is seen under the names that users give, and
`list_files` also lists the random names of stages and temporary files, while they
exist; in `RemoveTarget` the look and the `rmdir` are one step.  `Survey`: the
descriptors of one process are read in one step, and its maps in the next; no file
is made or renamed during the walk.  `DocumentPipeline`: the scanner opens a
document anew for each write, so that one which still has it open when it is
renamed, and writes to the filed copy, is left out. `Broker`: inode numbers are not
used again.  `PlanSweep`: no depth limit, which the CLI never gives.  `Duplicates`:
no hard links, which the code counts as reclaimable. `Alarm`: a run that never ends
keeps the timer from starting the next one.

`validate_storage_contract` has no path on which it answers ready.  Owners and
modes are left out except in `Broker`, timestamps except in `Survey`, `PlanSweep` and `Redundancy`.

## Plan

1. `Archive` with `Verify` and `Mover`, and their proofs: done.
2. `Sweep`, `Reclaim`, `Alarm`, `ProjectFiles`: modelled, checked and proved.
3. `Images`, `DocumentPipeline`, `Volumes`, `Observe`, `Survey`, `Recipe`, `Broker`,
   `Gui`, `Redundancy`, `Duplicates`, `PlanSweep`, side by side in `Commands`: modelled,
   checked and proved, one by one and together.
4. Left, instances: two local sweepers, overlapping timer runs and document-sorter runs,
   of which the code promises nothing.
5. Left, proofs: of `Sweep` and `Alarm`, what still holds of two sweepers or two timer runs.
