-------------------------------- MODULE Alarm --------------------------------
(***************************************************************************)
(* `alarm` (_cli/_alarm_cmd.py, _alarm/): a timer runs it to gather the    *)
(* filesystems, compare the level with the one the last run recorded, tell *)
(* a human of a transition, and record the level.  The filesystems change  *)
(* meanwhile, a push may be refused, a run may die, the record may be lost.*)
(***************************************************************************)
EXTENDS AlarmDecide, Sequences

CONSTANTS
  Runs,             \* the timer's processes
  Paths,            \* the sequence of paths a gather probes
  Sizes,            \* each path's filesystem: GiB
  Measures,         \* what may be measured of each: GiB free, inodes used in percent
  MayRefuse,        \* TRUE: the rail may refuse a push
  MaxKills,         \* bound: runs that die
  StreakCap         \* bound: streaks are counted up to it

ASSUME AlarmBounds ==
  /\ Paths \in Seq(STRING) \ {<<>>} /\ MaxKills \in Nat /\ StreakCap \in Nat /\ StreakCap > UNKNOWN_STREAK_ALERT
  /\ MayRefuse \in BOOLEAN
ASSUME SizesAssumption ==
  DOMAIN Sizes = DOMAIN Paths /\ \A i \in DOMAIN Paths : Sizes[i] \in Nat \ {0}
ASSUME MeasuresAssumption ==
  /\ DOMAIN Measures = DOMAIN Paths
  /\ \A i \in DOMAIN Paths : \A d \in Measures[i] :
       /\ DOMAIN d = {"state", "free", "inodes"}
       /\ d.state = "up" /\ d.inodes \in 0..100 /\ d.free \in 0..Sizes[i]

VARIABLES
  disk,             \* the filesystem under each path
  recorded,         \* the state file: the last level and the unknown streak
  pc, at,           \* each run: where it is, which path it probes
  seen,             \* the rows its gather has filled in
  level, alarming,  \* the level of them, and the paths that are in alarm
  previous, streak, \* what it read of the state file, its own streak
  pushed,           \* whether it got a message out
  told,             \* history: the last message that got out
  named,            \* history: the paths in alarm that the last push named, taken or refused
  gap,              \* history: why told and recorded may have come apart
  kills

runs    == <<pc, at, seen, level, alarming, previous, streak, pushed>>
history == <<told, named, gap>>
vars    == <<disk, recorded, runs, history, kills>>

Down        == [state |-> "down"]   \* statvfs fails, or does not return while it is so
Readings(i) == {Down} \cup Measures[i]
Unread   == [free |-> {}, used |-> {}, inodes |-> {}]
Rows     == [free : {{}}, used : SUBSET Int, inodes : SUBSET Int]
Lost     == [level |-> NoLevel, streak |-> 0]

TypeOK ==
  /\ DOMAIN disk = DOMAIN Paths /\ \A i \in DOMAIN Paths : disk[i] \in Readings(i)
  /\ recorded \in [level : Levels \cup {NoLevel}, streak : 0..StreakCap]
  /\ pc \in [Runs -> {"idle", "probe", "space", "evaluate", "read", "count", "notify", "write"}]
  /\ at \in [Runs -> DOMAIN Paths]
  /\ seen \in [Runs -> [DOMAIN Paths -> Rows]]
  /\ alarming \in [Runs -> SUBSET DOMAIN Paths] /\ named \subseteq DOMAIN Paths
  /\ level \in [Runs -> Levels \cup {NoLevel}]
  /\ previous \in [Runs -> Levels \cup {NoLevel}] /\ streak \in [Runs -> 0..StreakCap]
  /\ pushed \in [Runs -> BOOLEAN]
  /\ told \in Levels \cup {NoLevel} /\ gap \subseteq {"push", "lost"}
  /\ kills \in 0..MaxKills

Init ==
  /\ disk = [i \in DOMAIN Paths |-> Down]
  /\ recorded = Lost
  /\ pc = [r \in Runs |-> "idle"] /\ at = [r \in Runs |-> 1]
  /\ seen = [r \in Runs |-> [i \in DOMAIN Paths |-> Unread]]
  /\ level = [r \in Runs |-> NoLevel] /\ alarming = [r \in Runs |-> {}]
  /\ previous = [r \in Runs |-> NoLevel] /\ streak = [r \in Runs |-> 0]
  /\ pushed = [r \in Runs |-> FALSE]
  /\ told = NoLevel /\ named = {} /\ gap = {} /\ kills = 0

-----------------------------------------------------------------------------
UsedPercent(i, d) == ((Sizes[i] - d.free) * 100) \div Sizes[i]

Goto(r, step) == pc' = [pc EXCEPT ![r] = step]
Finish(r) ==
  /\ Goto(r, "idle")
  /\ at' = [at EXCEPT ![r] = 1]
  /\ seen' = [seen EXCEPT ![r] = [i \in DOMAIN Paths |-> Unread]]
  /\ level' = [level EXCEPT ![r] = NoLevel] /\ alarming' = [alarming EXCEPT ![r] = {}]
  /\ previous' = [previous EXCEPT ![r] = NoLevel]
  /\ streak' = [streak EXCEPT ![r] = 0]
  /\ pushed' = [pushed EXCEPT ![r] = FALSE]

Start(r) ==
  /\ pc[r] = "idle"
  /\ Goto(r, "probe")
  /\ UNCHANGED <<disk, recorded, at, seen, level, alarming, previous, streak, pushed, history, kills>>

(* gather_fleet_snapshot, one path after the other; _probe_local_path asks   *)
(* for the inodes and then for the space, leaving avail_bytes unset.         *)
ProbeInodes(r) ==
  LET d == disk[at[r]] IN
  /\ pc[r] = "probe"
  /\ seen' = [seen EXCEPT ![r][at[r]].inodes = IF d = Down THEN {} ELSE {d.inodes}]
  /\ Goto(r, "space")
  /\ UNCHANGED <<disk, recorded, at, level, alarming, previous, streak, pushed, history, kills>>

ProbeSpace(r) ==
  LET d == disk[at[r]] IN
  /\ pc[r] = "space"
  /\ seen' = [seen EXCEPT ![r][at[r]].used = IF d = Down THEN {} ELSE {UsedPercent(at[r], d)}]
  /\ IF at[r] < Len(Paths)
     THEN at' = [at EXCEPT ![r] = @ + 1] /\ Goto(r, "probe")
     ELSE Goto(r, "evaluate") /\ UNCHANGED at
  /\ UNCHANGED <<disk, recorded, level, alarming, previous, streak, pushed, history, kills>>

Evaluate(r) ==
  /\ pc[r] = "evaluate"
  /\ level' = [level EXCEPT ![r] =
       EvaluateSnapshot({seen[r][i] : i \in DOMAIN Paths})]
  /\ alarming' = [alarming EXCEPT ![r] = {i \in DOMAIN Paths : EvaluateRow(seen[r][i]) \in Alarming}]
  /\ at' = [at EXCEPT ![r] = 1]
  /\ seen' = [seen EXCEPT ![r] = [i \in DOMAIN Paths |-> Unread]]
  /\ Goto(r, "read")
  /\ UNCHANGED <<disk, recorded, previous, streak, pushed, history, kills>>

ReadPreviousLevel(r) ==
  /\ pc[r] = "read"
  /\ previous' = [previous EXCEPT ![r] = recorded.level]
  /\ Goto(r, "count")
  /\ UNCHANGED <<disk, recorded, at, seen, level, alarming, streak, pushed, history, kills>>

ReadUnknownStreak(r) ==
  /\ pc[r] = "count"
  /\ streak' = [streak EXCEPT ![r] = NextUnknownStreak(recorded.streak, level[r], StreakCap)]
  /\ Goto(r, "notify")
  /\ UNCHANGED <<disk, recorded, at, seen, level, alarming, previous, pushed, history, kills>>

(* notify_if_needed: a rail that raises counts as one that refused, and the  *)
(* message is not sent again; what it takes is told.                         *)
NotifyIfNeeded(r) ==
  /\ pc[r] = "notify"
  /\ IF ShouldNotify(previous[r], level[r], streak[r])
     THEN /\ named' = alarming[r]
          /\ \/ /\ told' = level[r] /\ pushed' = [pushed EXCEPT ![r] = TRUE]
                /\ UNCHANGED gap
             \/ /\ MayRefuse
                /\ gap' = gap \cup {"push"}
                /\ UNCHANGED <<told, pushed>>
     ELSE UNCHANGED <<history, pushed>>
  /\ Goto(r, "write")
  /\ UNCHANGED <<disk, recorded, at, seen, level, alarming, previous, streak, kills>>

(* Fault: the arguments in another order. *)
WriteLevelSwapped(r) ==
  /\ pc[r] = "write"
  /\ recorded' = [level |-> streak[r], streak |-> level[r]]
  /\ gap' = IF pushed[r] THEN {} ELSE gap
  /\ Finish(r)
  /\ UNCHANGED <<disk, told, named, kills>>

(* write_level: a temporary file and a rename, whatever the push came to. *)
WriteLevel(r) ==
  /\ pc[r] = "write"
  /\ recorded' = [level |-> level[r], streak |-> streak[r]]
  /\ gap' = IF pushed[r] THEN {} ELSE gap
  /\ Finish(r)
  /\ UNCHANGED <<disk, told, named, kills>>

(* The run dies, or its write fails on the disk that is full. *)
Kill(r) ==
  /\ pc[r] # "idle" /\ kills < MaxKills
  /\ kills' = kills + 1
  /\ gap' = IF pushed[r] THEN gap \cup {"push"} ELSE gap
  /\ Finish(r)
  /\ UNCHANGED <<disk, recorded, told, named>>

(* The filesystems fill, drain, go away and come back. *)
Change(i, d) ==
  /\ disk' = [disk EXCEPT ![i] = d]
  /\ UNCHANGED <<recorded, runs, history, kills>>

(* The state file is deleted, or unreadable. *)
LoseRecord ==
  /\ recorded' = Lost /\ gap' = gap \cup {"lost"}
  /\ UNCHANGED <<disk, runs, told, named, kills>>

-----------------------------------------------------------------------------
Step(r) ==
  \/ Start(r) \/ ProbeInodes(r) \/ ProbeSpace(r) \/ Evaluate(r) \/ ReadPreviousLevel(r) \/ ReadUnknownStreak(r)
  \/ NotifyIfNeeded(r) \/ WriteLevel(r)

Next ==
  \/ \E r \in Runs : Step(r) \/ Kill(r)
  \/ \E i \in DOMAIN Paths : \E d \in Readings(i) : Change(i, d)
  \/ LoseRecord

(* Run from a timer: runs keep coming, and one that is under way goes on,    *)
(* unless it asks a filesystem that is down, which may not answer: statvfs   *)
(* has no time limit.                                                        *)
Hangs(r) == pc[r] \in {"probe", "space"} /\ disk[at[r]] = Down
Fairness == \A r \in Runs : WF_vars(~Hangs(r) /\ Step(r))

Spec == Init /\ [][Next]_vars
FairSpec == Spec /\ Fairness

(* Properties *)

(* What is recorded as alarming was told, at that severity or above, though  *)
(* an unchanged level is never told again: silence about an alarm means that *)
(* the reader has it, unless a push was refused or a run died before it      *)
(* recorded what it pushed.  Losing the state file does not excuse it.       *)
Settled == \A r \in Runs : ~pushed[r]   \* no push waits to be recorded

AlarmIsTold ==
  Settled /\ recorded.level \in Alarming /\ "push" \notin gap
  => told \in Alarming /\ Severity[told] >= Severity[recorded.level]

(* What is recorded as healthy does not leave the reader with an alarm: the  *)
(* last message is not one, by whatever levels the fleet recovered.          *)
RecoveryIsTold == Settled /\ recorded.level = OK /\ gap = {} => told \notin Alarming

(* Sustained blindness was announced, though it is announced at one streak   *)
(* length only, and nothing was told since.                                  *)
BlindnessIsTold ==
  Settled /\ recorded.streak >= UNKNOWN_STREAK_ALERT /\ "push" \notin gap
  => told = UNKNOWN

(* A filesystem that is full when the fleet is recorded as healthy, and      *)
(* stays so, is in the end named in a push, whatever the others do, whenever *)
(* the runs come, and over a lost record or a dead run.  It is promised      *)
(* nothing while another's alarm is recorded, nor from a run under way: an   *)
(* unchanged level is silent, whichever filesystems are behind it.  Nor while*)
(* statvfs hangs on any of them, which keeps the run.  Full is full of the   *)
(* same thing, since the two are not read at once; and the push may be       *)
(* refused: it is made once, and the run exits 30.                           *)
ShortOf(i, what) ==
  /\ disk[i] \in Measures[i]
  /\ (IF what = "space" THEN UsedPercent(i, disk[i]) ELSE disk[i].inodes) >= FLAG_PERCENT

Answering == \A i \in DOMAIN Paths : disk[i] # Down

Quiet == recorded.level \notin Alarming /\ \A r \in Runs : pc[r] = "idle"

FullDiskIsNamed ==
  \A i \in DOMAIN Paths, what \in {"space", "inodes"} :
    Quiet /\ ShortOf(i, what) /\ Answering ~> i \in named \/ ~ShortOf(i, what) \/ ~Answering

(* A gather that reads a filesystem at or under 5 GiB free has the level     *)
(* critical.                                                                 *)
CriticalIsRaised ==
  [][\A r \in Runs : pc[r] = "evaluate" /\ pc'[r] = "read" =>
       \A i \in DOMAIN Paths : \A u \in seen[r][i].used :
         Sizes[i] * (100 - u) <= 100 * CRITICAL_FREE => level'[r] = CRITICAL]_vars

=============================================================================
