---------------------------- MODULE AlarmDecide -----------------------------
(***************************************************************************)
(* The pure half of `alarm` (_alarm/_decide.py): a filesystem's level, the *)
(* fleet's, and whether a gather is worth telling a human.                 *)
(***************************************************************************)
EXTENDS Integers

OK == "ok"
UNKNOWN == "unknown"
WARN == "warn"
CRITICAL == "critical"

Levels   == {OK, UNKNOWN, WARN, CRITICAL}
Alarming == {WARN, CRITICAL}
NoLevel  == "none"           \* nothing was recorded
Severity == [ok |-> 0, unknown |-> 1, warn |-> 2, critical |-> 3]

WARN_FREE     == 20          \* GiB
CRITICAL_FREE == 5
FLAG_PERCENT  == 85
UNKNOWN_STREAK_ALERT == 3

(* A row holds three figures, each as the set of what was measured: {} is    *)
(* None, never a number.                                                     *)
Worst(levels) == CHOOSE l \in levels : \A m \in levels : Severity[m] <= Severity[l]

(* evaluate_row: the worst of the rules that apply, unknown if nothing was   *)
(* measured.                                                                 *)
EvaluateRow(row) ==
  IF row.free \cup row.used \cup row.inodes = {} THEN UNKNOWN
  ELSE Worst({OK} \cup {CRITICAL : f \in {f \in row.free : f <= CRITICAL_FREE}}
                  \cup {WARN : f \in {f \in row.free : f <= WARN_FREE}}
                  \cup {WARN : u \in {u \in row.used \cup row.inodes : u >= FLAG_PERCENT}})

EvaluateSnapshot(rows) ==
  IF rows = {} THEN UNKNOWN ELSE Worst({EvaluateRow(row) : row \in rows})

(* Fault: the streak survives a gather that measured something. *)
NextUnknownStreakKept(before, level, cap) ==
  IF level = UNKNOWN /\ before < cap THEN before + 1 ELSE before

(* Fault: a gather that measured something takes one off. *)
NextUnknownStreakDecays(before, level, cap) ==
  IF level # UNKNOWN THEN before - 1 ELSE IF before < cap THEN before + 1 ELSE cap

(* next_unknown_streak, up to the cap of the model. *)
NextUnknownStreak(before, level, cap) ==
  IF level # UNKNOWN THEN 0 ELSE IF before < cap THEN before + 1 ELSE cap

(* Fault: what is not known to have changed is not told. *)
ShouldNotifyIfKnown(previous, current, streak) ==
  \/ current = UNKNOWN /\ streak = UNKNOWN_STREAK_ALERT
  \/ /\ previous \notin {current, NoLevel}
     /\ IF current \in Alarming
        THEN previous \notin Alarming \/ Severity[current] > Severity[previous]
        ELSE previous \in Alarming

(* Fault: unknown ranked with the other levels, the code's own first version. *)
ShouldNotifyRanked(previous, current, streak) ==
  \/ current = UNKNOWN /\ streak = UNKNOWN_STREAK_ALERT
  \/ /\ previous # current
     /\ previous = NoLevel \/ Severity[current] > Severity[previous]

(* should_notify: transitions, not states. *)
ShouldNotify(previous, current, streak) ==
  \/ current = UNKNOWN /\ streak = UNKNOWN_STREAK_ALERT
  \/ /\ previous # current
     /\ IF current \in Alarming
        THEN previous \notin Alarming \/ Severity[current] > Severity[previous]
        ELSE previous \in Alarming

=============================================================================
