----------------------------- MODULE AlarmProofs -----------------------------
(***************************************************************************)
(* Silence means that the reader knows, for any filesystems, measures and  *)
(* streak caps, refused pushes, killed runs and lost state files, when     *)
(* one run goes on at a time.                                              *)
(***************************************************************************)
EXTENDS Alarm, TLAPS

(* The assumption about the timer: no two runs overlap. *)
OneRun == \A r, q \in Runs : r = q

-----------------------------------------------------------------------------
(* The deciders stay within their levels and streaks.                      *)

(* Of any levels there is a worst, which is one of them. *)
LEMMA WorstIsOne ==
  ASSUME NEW S \in SUBSET Levels, S # {} PROVE Worst(S) \in S
<1>1. PICK l \in S : \A m \in S : Severity[m] <= Severity[l]
  <2>1. CASE CRITICAL \in S
    BY <2>1 DEF Levels, Severity, OK, UNKNOWN, WARN, CRITICAL
  <2>2. CASE CRITICAL \notin S /\ WARN \in S
    BY <2>2 DEF Levels, Severity, OK, UNKNOWN, WARN, CRITICAL
  <2>3. CASE CRITICAL \notin S /\ WARN \notin S /\ UNKNOWN \in S
    BY <2>3 DEF Levels, Severity, OK, UNKNOWN, WARN, CRITICAL
  <2>4. CASE CRITICAL \notin S /\ WARN \notin S /\ UNKNOWN \notin S
    <3>1. \A m \in S : m = OK
      BY <2>4 DEF Levels
    <3> QED
      BY <3>1 DEF Severity, OK
  <2> QED
    BY <2>1, <2>2, <2>3, <2>4
<1> QED
  BY <1>1 DEF Worst

LEMMA RowHasLevel == \A row : EvaluateRow(row) \in Levels
<1> SUFFICES ASSUME NEW row PROVE EvaluateRow(row) \in Levels
  OBVIOUS
<1> DEFINE S == {OK} \cup {CRITICAL : f \in {f \in row.free : f <= CRITICAL_FREE}}
                  \cup {WARN : f \in {f \in row.free : f <= WARN_FREE}}
                  \cup {WARN : u \in {u \in row.used \cup row.inodes : u >= FLAG_PERCENT}}
<1>1. S \in SUBSET Levels /\ S # {}
  BY DEF Levels
<1>2. Worst(S) \in Levels
  <2> HIDE DEF S
  <2> QED
    BY <1>1, WorstIsOne
<1> QED
  BY <1>2 DEF EvaluateRow, Levels

LEMMA SnapshotHasLevel == \A rows : EvaluateSnapshot(rows) \in Levels
<1> SUFFICES ASSUME NEW rows, rows # {} PROVE Worst({EvaluateRow(row) : row \in rows}) \in Levels
  BY DEF EvaluateSnapshot, Levels
<1>1. {EvaluateRow(row) : row \in rows} \in SUBSET Levels
  BY RowHasLevel
<1> QED
  BY <1>1, WorstIsOne

LEMMA StreakIsCapped ==
  ASSUME NEW s \in 0..StreakCap, NEW l PROVE NextUnknownStreak(s, l, StreakCap) \in 0..StreakCap
  BY AlarmBounds DEF NextUnknownStreak, UNKNOWN_STREAK_ALERT

-----------------------------------------------------------------------------
(* Types. A run that has evaluated has a level.                            *)
Typed ==
  /\ TypeOK
  /\ \A r \in Runs : pc[r] \in {"read", "count", "notify", "write"} => level[r] \in Levels

LEMMA UnreadIsARow == Unread \in Rows
BY DEF Unread, Rows

(* What a probe fills in keeps a row a row. *)
LEMMA ProbesFillRows ==
  ASSUME Typed, NEW r \in Runs
  PROVE  /\ at[r] \in DOMAIN Paths
         /\ \A inodes \in SUBSET Int :
              [seen EXCEPT ![r][at[r]].inodes = inodes] \in [Runs -> [DOMAIN Paths -> Rows]]
         /\ \A used \in SUBSET Int :
              [seen EXCEPT ![r][at[r]].used = used] \in [Runs -> [DOMAIN Paths -> Rows]]
         /\ disk[at[r]] # Down =>
              {disk[at[r]].inodes} \in SUBSET Int /\ {UsedPercent(at[r], disk[at[r]])} \in SUBSET Int
<1>1. at[r] \in DOMAIN Paths /\ seen \in [Runs -> [DOMAIN Paths -> Rows]] /\ disk[at[r]] \in Readings(at[r])
  BY DEF Typed, TypeOK
<1>2. ASSUME disk[at[r]] # Down
      PROVE  {disk[at[r]].inodes} \in SUBSET Int /\ {UsedPercent(at[r], disk[at[r]])} \in SUBSET Int
  <2>1. disk[at[r]] \in Measures[at[r]]
    BY <1>1, <1>2 DEF Readings
  <2>2. disk[at[r]].inodes \in Int /\ disk[at[r]].free \in Int /\ Sizes[at[r]] \in Nat \ {0}
    BY <1>1, <2>1, MeasuresAssumption, SizesAssumption
  <2>3. UsedPercent(at[r], disk[at[r]]) \in Int
    BY <2>2 DEF UsedPercent
  <2> QED
    BY <2>2, <2>3
<1>3. ASSUME NEW row \in Rows, NEW figures \in SUBSET Int
      PROVE  [row EXCEPT !.inodes = figures] \in Rows /\ [row EXCEPT !.used = figures] \in Rows
  BY DEF Rows
<1>4. seen[r][at[r]] \in Rows
  BY <1>1
<1>5. ASSUME NEW row \in Rows PROVE [seen EXCEPT ![r][at[r]] = row] \in [Runs -> [DOMAIN Paths -> Rows]]
  BY <1>1
<1>6. ASSUME NEW inodes \in SUBSET Int
      PROVE  [seen EXCEPT ![r][at[r]].inodes = inodes] \in [Runs -> [DOMAIN Paths -> Rows]]
  <2>1. PICK row \in Rows : row = [seen[r][at[r]] EXCEPT !.inodes = inodes]
    BY <1>3, <1>4
  <2>2. [seen EXCEPT ![r][at[r]].inodes = inodes] = [seen EXCEPT ![r][at[r]] = row]
    BY <1>1, <2>1
  <2> QED
    BY <1>5, <2>2
<1>7. ASSUME NEW used \in SUBSET Int
      PROVE  [seen EXCEPT ![r][at[r]].used = used] \in [Runs -> [DOMAIN Paths -> Rows]]
  <2>1. PICK row \in Rows : row = [seen[r][at[r]] EXCEPT !.used = used]
    BY <1>3, <1>4
  <2>2. [seen EXCEPT ![r][at[r]].used = used] = [seen EXCEPT ![r][at[r]] = row]
    BY <1>1, <2>1
  <2> QED
    BY <1>5, <2>2
<1> QED
  BY <1>1, <1>2, <1>6, <1>7

LEMMA TypedAtFirst == Init => Typed
<1> SUFFICES ASSUME Init PROVE Typed
  OBVIOUS
<1>1. 1 \in DOMAIN Paths
  BY AlarmBounds
<1> QED
  BY <1>1, UnreadIsARow, AlarmBounds DEF Init, Typed, TypeOK, Lost, Readings, UNKNOWN_STREAK_ALERT

LEMMA FinishKeepsTypes ==
  ASSUME Typed, NEW r \in Runs, Finish(r),
         disk' = disk, recorded' \in [level : Levels \cup {NoLevel}, streak : 0..StreakCap],
         told' = told, named' = named, gap' \subseteq {"push", "lost"}, kills' \in 0..MaxKills
  PROVE  Typed'
<1>1. 1 \in DOMAIN Paths
  BY AlarmBounds
<1> QED
  BY <1>1, UnreadIsARow, AlarmBounds DEF Typed, TypeOK, Finish, Goto, UNKNOWN_STREAK_ALERT

LEMMA TypedKept == Typed /\ [Next]_vars => Typed'
<1> SUFFICES ASSUME Typed, [Next]_vars PROVE Typed'
  OBVIOUS
<1> USE DEF Typed
<1>1. ASSUME NEW r \in Runs, Start(r) PROVE Typed'
  BY <1>1 DEF Start, TypeOK, Goto, history
<1>2. ASSUME NEW r \in Runs, ProbeInodes(r) PROVE Typed'
  <2>1. seen' \in [Runs -> [DOMAIN Paths -> Rows]]
    <3>1. PICK inodes \in SUBSET Int : seen' = [seen EXCEPT ![r][at[r]].inodes = inodes]
      BY <1>2, ProbesFillRows DEF ProbeInodes
    <3> QED
      BY <3>1, ProbesFillRows
  <2> QED
    BY <1>2, <2>1 DEF ProbeInodes, TypeOK, Goto, history
<1>12. ASSUME NEW r \in Runs, ProbeSpace(r) PROVE Typed'
  <2>1. seen' \in [Runs -> [DOMAIN Paths -> Rows]]
    <3>1. PICK used \in SUBSET Int : seen' = [seen EXCEPT ![r][at[r]].used = used]
      BY <1>12, ProbesFillRows DEF ProbeSpace
    <3> QED
      BY <3>1, ProbesFillRows
  <2>2. at' \in [Runs -> DOMAIN Paths] /\ \E step \in {"probe", "evaluate"} : Goto(r, step)
    <3>1. CASE at[r] < Len(Paths)
      <4>1. at[r] + 1 \in DOMAIN Paths
        BY <3>1, AlarmBounds DEF TypeOK
      <4> QED
        BY <1>12, <3>1, <4>1 DEF ProbeSpace, TypeOK
    <3>2. CASE ~(at[r] < Len(Paths))
      BY <1>12, <3>2 DEF ProbeSpace, TypeOK
    <3> QED
      BY <3>1, <3>2
  <2> QED
    BY <1>12, <2>1, <2>2 DEF ProbeSpace, TypeOK, Goto, history
<1>3. ASSUME NEW r \in Runs, Evaluate(r) PROVE Typed'
  <2>1. 1 \in DOMAIN Paths
    BY AlarmBounds
  <2> QED
    BY <1>3, <2>1, SnapshotHasLevel, UnreadIsARow DEF Evaluate, TypeOK, Goto, history
<1>4. ASSUME NEW r \in Runs, ReadPreviousLevel(r) PROVE Typed'
  BY <1>4 DEF ReadPreviousLevel, TypeOK, Goto, history
<1>5. ASSUME NEW r \in Runs, ReadUnknownStreak(r) PROVE Typed'
  BY <1>5, StreakIsCapped DEF ReadUnknownStreak, TypeOK, Goto, history
<1>6. ASSUME NEW r \in Runs, NotifyIfNeeded(r) PROVE Typed'
  <2>1. /\ named' \subseteq DOMAIN Paths /\ told' \in Levels \cup {NoLevel} /\ gap' \subseteq {"push", "lost"}
        /\ pushed' \in [Runs -> BOOLEAN]
    <3>1. CASE ShouldNotify(previous[r], level[r], streak[r])
      <4>1. pc[r] = "notify" /\ level[r] \in Levels /\ alarming[r] \subseteq DOMAIN Paths
        BY <1>6 DEF NotifyIfNeeded, TypeOK
      <4>2. named' = alarming[r]
        BY <1>6, <3>1 DEF NotifyIfNeeded
      <4>3. CASE told' = level[r] /\ pushed' = [pushed EXCEPT ![r] = TRUE] /\ UNCHANGED gap
        BY <4>1, <4>2, <4>3 DEF TypeOK
      <4>4. CASE gap' = gap \cup {"push"} /\ UNCHANGED <<told, pushed>>
        BY <4>1, <4>2, <4>4 DEF TypeOK
      <4> QED
        BY <1>6, <3>1, <4>3, <4>4 DEF NotifyIfNeeded
    <3>2. CASE ~ShouldNotify(previous[r], level[r], streak[r])
      BY <1>6, <3>2 DEF NotifyIfNeeded, TypeOK, history
    <3> QED
      BY <3>1, <3>2
  <2>2. /\ pc[r] = "notify" /\ pc' = [pc EXCEPT ![r] = "write"]
        /\ UNCHANGED <<disk, recorded, at, seen, level, alarming, previous, streak, kills>>
    BY <1>6 DEF NotifyIfNeeded, Goto
  <2> QED
    BY <2>1, <2>2 DEF TypeOK
<1>7. ASSUME NEW r \in Runs, WriteLevel(r) PROVE Typed'
  BY <1>7, FinishKeepsTypes DEF WriteLevel, TypeOK
<1>8. ASSUME NEW r \in Runs, Kill(r) PROVE Typed'
  BY <1>8, FinishKeepsTypes, AlarmBounds DEF Kill, TypeOK
<1>9. ASSUME NEW i \in DOMAIN Paths, NEW d \in Readings(i), Change(i, d) PROVE Typed'
  BY <1>9 DEF Change, TypeOK, runs, history
<1>10. ASSUME LoseRecord PROVE Typed'
  BY <1>10, AlarmBounds DEF LoseRecord, TypeOK, runs, Lost, UNKNOWN_STREAK_ALERT
<1>11. ASSUME UNCHANGED vars PROVE Typed'
  BY <1>11 DEF vars, runs, history, TypeOK
<1> QED
  BY <1>1, <1>2, <1>3, <1>4, <1>5, <1>6, <1>7, <1>8, <1>9, <1>10, <1>11, <1>12 DEF Next, Step

(* Every reachable state of the alarm is well typed, however many runs       *)
(* overlap (_cli/_alarm_cmd.py).                                             *)
THEOREM AlarmTypes == Spec => []TypeOK
<1>1. Typed => TypeOK
  BY DEF Typed
<1> QED
  BY <1>1, TypedAtFirst, TypedKept, PTL DEF Spec

-----------------------------------------------------------------------------
(* The inductive invariant: what each stage of the run leaves the reader     *)
(* with, about the level that is recorded, was read, or will be recorded.    *)
Clean     == "push" \notin gap
Knows(l)  == l \in Alarming => told \in Alarming /\ Severity[told] >= Severity[l]
KnowsOf(l) == (Clean => Knows(l)) /\ (gap = {} /\ l \notin Alarming => told \notin Alarming)

PushIsTold == \A r \in Runs : pushed[r] => pc[r] = "write" /\ told = level[r]

LevelsAreTold ==
  /\ Settled => KnowsOf(recorded.level)
  /\ \A r \in Runs : pc[r] \in {"count", "notify"} => KnowsOf(previous[r])
  /\ \A r \in Runs : pc[r] = "write" => KnowsOf(level[r])

(* A streak is of gathers that measured nothing, the last one included. *)
StreaksAreTold ==
  /\ recorded.streak > 0 => recorded.level = UNKNOWN
  /\ Settled /\ Clean /\ recorded.streak >= UNKNOWN_STREAK_ALERT => told = UNKNOWN
  /\ \A r \in Runs : /\ pc[r] \in {"notify", "write"} /\ streak[r] > 0 => level[r] = UNKNOWN
                     /\ pc[r] = "notify" /\ Clean /\ streak[r] > UNKNOWN_STREAK_ALERT => told = UNKNOWN
                     /\ pc[r] = "write" /\ Clean /\ streak[r] >= UNKNOWN_STREAK_ALERT => told = UNKNOWN

IInv == Typed /\ PushIsTold /\ LevelsAreTold /\ StreaksAreTold

LEMMA InitIsGood == Init => IInv
<1> SUFFICES ASSUME Init PROVE IInv
  OBVIOUS
<1>1. Typed
  BY TypedAtFirst
<1>2. PushIsTold /\ LevelsAreTold /\ StreaksAreTold
  BY DEF Init, PushIsTold, LevelsAreTold, StreaksAreTold, KnowsOf, Knows, Lost, NoLevel, Alarming,
         WARN, CRITICAL, UNKNOWN_STREAK_ALERT
<1> QED
  BY <1>1, <1>2 DEF IInv

(* Every stage of the run, and everything around it, keeps what it says.     *)
LEMMA StepKeepsIt == ASSUME OneRun, IInv, [Next]_vars PROVE IInv'
<1> DEFINE Told == PushIsTold /\ LevelsAreTold /\ StreaksAreTold
<1>0. Typed /\ Typed'
  BY TypedKept DEF IInv
<1> USE <1>0 DEF IInv, OneRun, Typed, TypeOK, PushIsTold, LevelsAreTold, StreaksAreTold,
                KnowsOf, Knows, Clean, Settled, Goto, history
<1>1. ASSUME NEW r \in Runs, Start(r) PROVE Told'
  BY <1>1 DEF Start
<1>2. ASSUME NEW r \in Runs, ProbeInodes(r) \/ ProbeSpace(r) PROVE Told'
  <2>1. /\ UNCHANGED <<recorded, level, previous, streak, pushed, history>>
        /\ pc[r] \in {"probe", "space"} /\ \E step \in {"probe", "space", "evaluate"} : Goto(r, step)
    BY <1>2 DEF ProbeInodes, ProbeSpace
  <2> QED
    BY <2>1
<1>3. ASSUME NEW r \in Runs, Evaluate(r) PROVE Told'
  BY <1>3 DEF Evaluate
<1>4. ASSUME NEW r \in Runs, ReadPreviousLevel(r) PROVE Told'
  BY <1>4 DEF ReadPreviousLevel
<1>5. ASSUME NEW r \in Runs, ReadUnknownStreak(r) PROVE Told'
  BY <1>5, AlarmBounds DEF ReadUnknownStreak, NextUnknownStreak, UNKNOWN_STREAK_ALERT
<1>6. ASSUME NEW r \in Runs, NotifyIfNeeded(r) PROVE Told'
  <2> USE DEF NotifyIfNeeded, ShouldNotify, Levels, NoLevel, Alarming, OK, UNKNOWN, WARN, CRITICAL
  <2>1. PushIsTold'
    BY <1>6
  <2>2. LevelsAreTold'
    BY <1>6 DEF Severity
  <2>3. StreaksAreTold'
    BY <1>6, AlarmBounds DEF UNKNOWN_STREAK_ALERT
  <2> QED
    BY <2>1, <2>2, <2>3
<1>7. ASSUME NEW r \in Runs, WriteLevel(r) PROVE Told'
  <2> USE DEF WriteLevel, Finish
  <2>1. PushIsTold'
    BY <1>7
  <2>2. LevelsAreTold'
    BY <1>7 DEF Severity, Alarming, Levels, NoLevel, OK, UNKNOWN, WARN, CRITICAL
  <2>3. StreaksAreTold'
    BY <1>7 DEF UNKNOWN_STREAK_ALERT
  <2> QED
    BY <2>1, <2>2, <2>3
<1>8. ASSUME NEW r \in Runs, Kill(r) PROVE Told'
  BY <1>8 DEF Kill, Finish
<1>9. ASSUME NEW i \in DOMAIN Paths, NEW d \in Readings(i), Change(i, d) PROVE Told'
  BY <1>9 DEF Change, runs
<1>10. ASSUME LoseRecord PROVE Told'
  BY <1>10 DEF LoseRecord, Lost, NoLevel, Alarming, WARN, CRITICAL, UNKNOWN_STREAK_ALERT, runs
<1>11. ASSUME UNCHANGED vars PROVE Told'
  BY <1>11 DEF vars, runs
<1> QED
  BY <1>1, <1>2, <1>3, <1>4, <1>5, <1>6, <1>7, <1>8, <1>9, <1>10, <1>11 DEF Next, Step

(* What is recorded as alarming was told, at that severity or above          *)
(* (_alarm/_decide.py:312: an unchanged level is silent).                    *)
THEOREM AlarmsAreTold == ASSUME OneRun PROVE Spec => []AlarmIsTold
<1>1. IInv => AlarmIsTold
  BY DEF IInv, LevelsAreTold, KnowsOf, Knows, Clean, AlarmIsTold
<1> QED
  BY <1>1, InitIsGood, StepKeepsIt, PTL DEF Spec

(* What is recorded as healthy leaves the reader with no alarm.              *)
THEOREM RecoveriesAreTold == ASSUME OneRun PROVE Spec => []RecoveryIsTold
<1>1. IInv => RecoveryIsTold
  BY DEF IInv, LevelsAreTold, KnowsOf, RecoveryIsTold, Alarming, OK, WARN, CRITICAL
<1> QED
  BY <1>1, InitIsGood, StepKeepsIt, PTL DEF Spec

(* Sustained blindness was announced, though at one streak length only       *)
(* (_alarm/_decide.py:307).                                                  *)
THEOREM BlindnessIsAlwaysTold == ASSUME OneRun PROVE Spec => []BlindnessIsTold
<1>1. IInv => BlindnessIsTold
  BY DEF IInv, StreaksAreTold, Clean, BlindnessIsTold
<1> QED
  BY <1>1, InitIsGood, StepKeepsIt, PTL DEF Spec
=============================================================================
