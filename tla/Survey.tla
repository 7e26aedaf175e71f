------------------------------- MODULE Survey -------------------------------
(***************************************************************************)
(* survey (_measure/_survey.py and the signals it runs): may this tree     *)
(* move?  The tree is walked, then the processes that hold its files are   *)
(* looked for in /proc, and each probe gives one of three verdicts.  While *)
(* it runs files are read and written, mounts come and go, and processes   *)
(* start, end, open and close files.                                       *)
(***************************************************************************)
EXTENDS Integers, FiniteSets, FiniteSetsExt

CONSTANTS
  TreeFiles,    \* the files on the tree's own filesystem
  NestedFiles,  \* the files on a filesystem mounted inside the tree
  Procs,        \* processes
  Foreign,      \* the processes of other users
  Running,      \* the processes that run at first
  ColdAfter,    \* cold_after_seconds
  AtimeLag,     \* relatime: an access time this old is brought up to date
  MaxTick,      \* bound: the clock
  MaxDoings     \* bound: what the files, mounts and processes do

ASSUME SurveyAssumption ==
  /\ TreeFiles # {} /\ TreeFiles \cap NestedFiles = {}
  /\ Foreign \cup Running \subseteq Procs
  /\ AtimeLag \in Nat \ {0} /\ ColdAfter \in Nat /\ AtimeLag <= ColdAfter
ASSUME SurveyBounds == MaxTick \in Nat /\ MaxDoings \in Nat

CorpusFiles == TreeFiles \cup NestedFiles

VARIABLES
  tick,       \* the time
  written, readAt,   \* when each file was last written and last read
  atime,      \* what lstat says of the last read
  attached,   \* the filesystems that are mounted: "tree", "nested"
  alive,      \* the processes that run
  holds,      \* [process, file, how]: by a descriptor or a mapping
  scan,       \* the survey
  doings,
  unlisted,   \* history: files of a filesystem that was away when its directory was listed
  heldOn      \* history: what was held when the processes were listed, and ever since

surveyVars == <<tick, written, readAt, atime, attached, alive, holds, scan,
                doings, unlisted, heldOn>>
surveyWorld == <<tick, written, readAt, atime, attached, alive, holds, doings>>

Handles == Procs \X CorpusFiles \X {"fd", "map"}
NoScan  == [at |-> "begin", since |-> 0, todo |-> {}, deeper |-> FALSE, missed |-> FALSE,
            stats |-> <<>>, signals |-> {}, control |-> FALSE, pids |-> {}, maps |-> {}, observed |-> {},
            verdict |-> "none"]
TreeVerdicts == {"movable", "not-movable", "could-not-look"}

SurveyTypes ==
  /\ tick \in 0..MaxTick /\ doings \in 0..MaxDoings
  /\ written \in [CorpusFiles -> 0..tick] /\ readAt \in [CorpusFiles -> 0..tick]
  /\ \A f \in CorpusFiles : atime[f] \in 0..readAt[f] /\ readAt[f] - atime[f] < AtimeLag
  /\ attached \subseteq {"tree", "nested"}
  /\ alive \subseteq Procs /\ holds \subseteq Handles /\ \A h \in holds : h[1] \in alive
  /\ scan.at \in {"begin", "list", "stat", "probe", "pids", "fds", "maps", "done"}
  /\ scan.todo \cup DOMAIN scan.stats \subseteq CorpusFiles /\ scan.signals \subseteq TreeVerdicts
  /\ scan.pids \cup scan.maps \subseteq Procs /\ scan.observed \subseteq CorpusFiles
  /\ scan.verdict \in TreeVerdicts \cup {"none"} /\ scan.verdict # "none" <=> scan.at = "done"
  /\ unlisted \subseteq NestedFiles /\ heldOn \subseteq holds

SurveyInit ==
  /\ tick = 0 /\ doings = 0
  /\ written = [f \in CorpusFiles |-> 0] /\ readAt = written /\ atime = written
  /\ attached \in {{}, {"tree"}, {"tree", "nested"}}
  /\ alive = Running /\ holds = {}
  /\ scan = NoScan /\ unlisted = {} /\ heldOn = {}

-----------------------------------------------------------------------------
(* What goes on in and around the tree. *)
Mounted(f) == "tree" \in attached /\ (f \in NestedFiles => "nested" \in attached)

Tick ==
  /\ tick < MaxTick /\ tick' = tick + 1
  /\ UNCHANGED <<written, readAt, atime, attached, alive, holds, scan, doings, unlisted, heldOn>>

Does1 == doings < MaxDoings /\ doings' = doings + 1

Write(f) ==
  /\ Mounted(f) /\ written' = [written EXCEPT ![f] = tick] /\ Does1
  /\ UNCHANGED <<tick, readAt, atime, attached, alive, holds, scan, unlisted, heldOn>>

(* relatime: the access time follows a read if it is not after the last *)
(* write, or is old.                                                    *)
ReadFile(f) ==
  /\ Mounted(f) /\ readAt' = [readAt EXCEPT ![f] = tick] /\ Does1
  /\ atime' = IF atime[f] <= written[f] \/ tick - atime[f] >= AtimeLag
              THEN [atime EXCEPT ![f] = tick] ELSE atime
  /\ UNCHANGED <<tick, written, attached, alive, holds, scan, unlisted, heldOn>>

Attach(fs) ==
  /\ fs \notin attached /\ attached' = attached \cup {fs} /\ Does1
  /\ UNCHANGED <<tick, written, readAt, atime, alive, holds, scan, unlisted, heldOn>>

(* A filesystem that is in use is busy. *)
Detach(fs) ==
  /\ fs \in attached /\ attached' = attached \ {fs} /\ Does1
  /\ \A h \in holds : fs = "nested" /\ h[2] \in TreeFiles
  /\ UNCHANGED <<tick, written, readAt, atime, alive, holds, scan, unlisted, heldOn>>

HoldsBecome(set) == holds' = set /\ heldOn' = heldOn \cap set

Hold(p, f, how) ==
  /\ p \in alive /\ Mounted(f) /\ <<p, f, how>> \notin holds /\ Does1
  /\ HoldsBecome(holds \cup {<<p, f, how>>})
  /\ UNCHANGED <<tick, written, readAt, atime, attached, alive, scan, unlisted>>

(* A process starts: with nothing, or from one of the same user, whose open *)
(* files and mappings it inherits.                                          *)
Start(q) ==
  /\ q \notin alive /\ Does1
  /\ alive' = alive \cup {q}
  /\ \/ UNCHANGED <<holds, heldOn>>
     \/ \E p \in alive :
          /\ p \in Foreign <=> q \in Foreign
          /\ HoldsBecome(holds \cup {<<q, h[2], h[3]>> : h \in {h \in holds : h[1] = p}})
  /\ UNCHANGED <<tick, written, readAt, atime, attached, scan, unlisted>>

End(p) ==
  /\ p \in alive /\ alive' = alive \ {p} /\ Does1
  /\ HoldsBecome({h \in holds : h[1] # p})
  /\ UNCHANGED <<tick, written, readAt, atime, attached, scan, unlisted>>

-----------------------------------------------------------------------------
(* survey: the time is taken, and the path must be a directory.  A mount     *)
(* point with nothing mounted is one, unless it went with the mount.         *)
Begin ==
  /\ scan.at = "begin"
  /\ \/ scan' = [scan EXCEPT !.since = tick, !.at = "list"]
     \/ /\ "tree" \notin attached
        /\ scan' = [scan EXCEPT !.since = tick, !.at = "done", !.verdict = "could-not-look"]
  /\ UNCHANGED <<surveyWorld, unlisted, heldOn>>

(* A directory that cannot be listed: _onerror counts it. *)
Miss == scan' = [scan EXCEPT !.at = "stat", !.todo = {}, !.deeper = FALSE, !.missed = TRUE]

Lists(files, deeper) ==
  scan' = [scan EXCEPT !.at = "stat", !.todo = files, !.deeper = deeper]

(* stat_tree: the tree's own directory is listed, if this user may. *)
ListTree ==
  /\ scan.at = "list"
  /\ \/ Miss
     \/ IF "tree" \in attached THEN Lists(TreeFiles, TRUE) ELSE Lists({}, FALSE)
  /\ UNCHANGED <<surveyWorld, unlisted, heldOn>>

(* lstat of a listed file; what cannot be stat'ed is counted.  used is what  *)
(* only the file's owner knows.                                              *)
StatFile(f) ==
  /\ scan.at = "stat" /\ f \in scan.todo
  /\ scan' = [scan EXCEPT !.todo = @ \ {f}, !.missed = @ \/ ~Mounted(f),
       !.stats = IF Mounted(f)
                 THEN [g \in DOMAIN @ \cup {f} |->
                        IF g = f THEN [mtime |-> written[f], atime |-> atime[f], used |-> readAt[f]] ELSE @[g]]
                 ELSE @]
  /\ UNCHANGED <<surveyWorld, unlisted, heldOn>>

(* Then the walk goes down into the directory that another filesystem is *)
(* mounted on, or was.                                                   *)
ListNested ==
  /\ scan.at = "stat" /\ scan.todo = {} /\ scan.deeper
  /\ \/ Miss
     \/ "tree" \in attached /\ Lists({f \in NestedFiles : Mounted(f)}, FALSE)
  /\ unlisted' = IF "nested" \in attached THEN {} ELSE NestedFiles
  /\ UNCHANGED <<surveyWorld, heldOn>>

(* coverage_signal *)
CoverageSignal == IF scan.missed \/ DOMAIN scan.stats = {} THEN "could-not-look" ELSE "movable"

Newest(times) == Max({times[f] : f \in DOMAIN times})
Cold(time) == scan.since - time >= ColdAfter

(* Fault: a reader leaves no mtime, and is not asked for. *)
ColdnessOfWrites ==
  IF DOMAIN scan.stats = {} THEN "could-not-look"
  ELSE IF Cold(Newest([f \in DOMAIN scan.stats |-> scan.stats[f].mtime])) THEN "movable"
  ELSE "not-movable"

(* coldness_signal: cold if the newest write and the newest read both are. *)
ColdnessSignal ==
  IF DOMAIN scan.stats = {} THEN "could-not-look"
  ELSE IF /\ Cold(Newest([f \in DOMAIN scan.stats |-> scan.stats[f].atime]))
          /\ Cold(Newest([f \in DOMAIN scan.stats |-> scan.stats[f].mtime])) THEN "movable"
  ELSE "not-movable"

(* readability_signal, then what the walk said; then the control is opened. *)
Probes ==
  /\ scan.at = "stat" /\ scan.todo = {} /\ ~scan.deeper
  /\ \E readability \in {"movable", "could-not-look"} :
       scan' = [scan EXCEPT !.at = "pids",
                            !.signals = {readability, CoverageSignal, ColdnessSignal}]
  /\ UNCHANGED <<surveyWorld, unlisted, heldOn>>

(* iter_open_paths: the processes are listed once, or /proc shows nothing. *)
ListProcs ==
  /\ scan.at = "pids"
  /\ \E shows \in BOOLEAN :
       scan' = [scan EXCEPT !.at = "fds", !.control = shows, !.pids = {p \in alive : shows}]
  /\ heldOn' = holds
  /\ UNCHANGED <<surveyWorld, unlisted>>

(* What this user may read of a process, if it still runs. *)
Shown(p, how) == {f \in CorpusFiles : p \notin Foreign /\ <<p, f, how>> \in holds}

ReadFds(p) ==
  /\ scan.at = "fds" /\ p \in scan.pids
  /\ scan' = [scan EXCEPT !.at = "maps", !.pids = @ \ {p}, !.maps = {p},
                          !.observed = @ \cup Shown(p, "fd")]
  /\ UNCHANGED <<surveyWorld, unlisted, heldOn>>

ReadMaps(p) ==
  /\ scan.at = "maps" /\ p \in scan.maps
  /\ scan' = [scan EXCEPT !.at = "fds", !.maps = {}, !.observed = @ \cup Shown(p, "map")]
  /\ UNCHANGED <<surveyWorld, unlisted, heldOn>>

(* Fault: a scan that saw nothing says that nothing is held. *)
OpenHandlesUnchecked == IF scan.observed # {} THEN "not-movable" ELSE "movable"

(* open_handle_signal: a scan that does not see the control, which this *)
(* process holds, proves nothing.                                       *)
OpenHandleSignal ==
  IF ~scan.control THEN "could-not-look" ELSE IF scan.observed # {} THEN "not-movable" ELSE "movable"

(* combine: one probe that did not see outweighs all, then one holder. *)
Combine(signals) ==
  IF signals = {} \/ "could-not-look" \in signals THEN "could-not-look"
  ELSE IF "not-movable" \in signals THEN "not-movable"
  ELSE "movable"

(* classify: the survey answers. *)
Answer ==
  /\ scan.at = "fds" /\ scan.pids = {}
  /\ scan' = [scan EXCEPT !.at = "done", !.verdict = Combine(scan.signals \cup {OpenHandleSignal})]
  /\ UNCHANGED <<surveyWorld, unlisted, heldOn>>

SurveyStep ==
  \/ Begin \/ ListTree \/ ListNested \/ Probes \/ ListProcs \/ Answer
  \/ \E f \in CorpusFiles : StatFile(f)
  \/ \E p \in Procs : ReadFds(p) \/ ReadMaps(p)

Doing ==
  \/ \E f \in CorpusFiles : Write(f) \/ ReadFile(f)
  \/ \E fs \in {"tree", "nested"} : Attach(fs) \/ Detach(fs)
  \/ \E p \in Procs : Start(p) \/ End(p)
  \/ \E p \in Procs, f \in CorpusFiles, how \in {"fd", "map"} : Hold(p, f, how)

SurveyNext == SurveyStep \/ (scan.at # "done" /\ (Doing \/ Tick))

SurveySpec == SurveyInit /\ [][SurveyNext]_surveyVars

-----------------------------------------------------------------------------
(* A tree is called movable only if every file in it was looked at and had   *)
(* then been left alone for the threshold: not written, and not read but for *)
(* what relatime hides.  A mount that is away, a directory that cannot be    *)
(* read, a file that goes while the walk is on its way are never passed over *)
(* (_measure/_survey.py:94); what nothing shows is a filesystem inside the   *)
(* tree that was away when its mount point was listed.                       *)
MovableIsCold ==
  scan.verdict = "movable" =>
    \A f \in CorpusFiles \ unlisted :
      /\ f \in DOMAIN scan.stats
      /\ scan.since - scan.stats[f].mtime >= ColdAfter
      /\ scan.since - scan.stats[f].used > ColdAfter - AtimeLag

(* A tree is called movable only if no process of this user has held one of  *)
(* its files, open or mapped, from before the processes were listed until    *)
(* the answer: a blind scan is not an unused tree.  A file handed to a       *)
(* process that starts after the listing is not seen.                        *)
HolderIsSeen == scan.verdict = "movable" => \A h \in heldOn : h[1] \in Foreign
=============================================================================
