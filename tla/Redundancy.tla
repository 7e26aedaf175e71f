----------------------------- MODULE Redundancy -----------------------------
(***************************************************************************)
(* Redundancy coverage (_measure/_redundancy.py): is this data protected,  *)
(* as its class demands?  Only a copy that was read back counts, and only  *)
(* while that is fresh enough.  The copies are written, read back, spoilt  *)
(* and lost by the hosts that hold them, each with a clock of its own; a   *)
(* copy's time of verification is what that host's clock said.  A dataset  *)
(* holds a tuple of entries, and nothing keeps two of them from being one  *)
(* copy: listed twice, or a mirror of it, or a snapshot beside it.         *)
(***************************************************************************)
EXTENDS Integers, FiniteSets

CONSTANTS
  Listed,      \* the entries of the inventory: the copies, as its datasets list them
  Facts,       \* of each entry: its dataset, medium, whether offsite, immutable, and the copy it is
  ClassOf,     \* the class of each dataset
  Tables,      \* tables of policies by class that the operator may have written
  Skews,       \* how far the clocks of the hosts are off
  MaxNow,      \* bound: time
  MaxTouches   \* bound: what happens to the copies

Inventory    == DOMAIN ClassOf
Unlimited    == -1           \* max_verify_age_seconds = None
Replicas     == {Facts[e].copy : e \in Listed}
EntriesOf(c) == {e \in Listed : Facts[e].copy = c}

ASSUME ListedAssumption ==
  /\ DOMAIN Facts = Listed /\ IsFiniteSet(Listed)
  /\ \A e \in Listed : Facts[e].dataset \in Inventory /\ {Facts[e].offsite, Facts[e].immutable} \subseteq BOOLEAN
ASSUME TablesAssumption ==
  \A policies \in Tables : \A class \in DOMAIN policies :
    policies[class] \in [copies : Nat, media : Nat, offsite : BOOLEAN, immutable : BOOLEAN,
                          age : Nat \cup {Unlimited}]
ASSUME SkewsAssumption == Skews \subseteq Int /\ IsFiniteSet(Skews) /\ Skews # {}
ASSUME RedundancyBounds == MaxNow \in Nat /\ MaxTouches \in Nat

VARIABLES
  hour,        \* the time, as no host knows it
  sound,       \* the copies that can be restored
  verifiedAt,  \* restore_verified_at of each entry: {} or the time that was noted
  table,       \* the policies
  report,      \* the report, once it is made
  touches,
  provenAt,    \* history: when each copy was last read back, {} for never or when it did not come back
  unnoted      \* history: of each entry, the proofs that a later reading refuted and nobody noted there

redundancyVars == <<hour, sound, verifiedAt, table, report, touches, provenAt, unnoted>>

NoReport == [is |-> "none", gaps |-> <<>>]
Gaps     == {"copies", "media", "offsite", "immutable"}

RedundancyTypes ==
  /\ hour \in 0..MaxNow /\ sound \subseteq Replicas
  /\ verifiedAt \in [Listed -> SUBSET Int] /\ unnoted \in [Listed -> SUBSET (0..hour)]
  /\ provenAt \in [Replicas -> SUBSET (0..hour)]
  /\ \A e \in Listed : \A t \in verifiedAt[e] : \E s \in Skews : t - s \in 0..hour
  /\ table \in Tables
  /\ report.is \in {"none", "refused", "made"} /\ touches \in 0..MaxTouches
  /\ report.is = "made" => report.gaps \in [Inventory -> SUBSET Gaps]

RedundancyInit ==
  /\ hour = 0 /\ sound = Replicas /\ table \in Tables
  /\ verifiedAt = [e \in Listed |-> {}] /\ unnoted = verifiedAt
  /\ provenAt = [c \in Replicas |-> {}]
  /\ report = NoReport /\ touches = 0

-----------------------------------------------------------------------------
Pass ==
  /\ hour < MaxNow /\ hour' = hour + 1
  /\ UNCHANGED <<sound, verifiedAt, table, report, touches, provenAt, unnoted>>

Touch == touches < MaxTouches /\ touches' = touches + 1

(* A copy decays, is overwritten by something that cannot be restored, or is *)
(* lost, and the inventory is none the wiser; or it is written anew.         *)
Spoil(c) ==
  /\ Touch /\ sound' = IF c \in sound THEN sound \ {c} ELSE sound \cup {c}
  /\ UNCHANGED <<hour, verifiedAt, table, report, provenAt, unnoted>>

(* A host reads a copy back, and notes what its clock says, or that the copy *)
(* did not come back, at the entries it knows of: at all, some or none.      *)
ReadCopyBack(c, skew, told) ==
  /\ Touch
  /\ verifiedAt' = [e \in Listed |-> IF e \notin told THEN verifiedAt[e]
                                    ELSE IF c \in sound THEN {hour + skew} ELSE {}]
  /\ provenAt' = [provenAt EXCEPT ![c] = IF c \in sound THEN {hour} ELSE {}]
  /\ unnoted' = [e \in Listed |-> IF e \notin EntriesOf(c) THEN unnoted[e]
                                 ELSE IF c \in sound \/ e \in told THEN {}
                                 ELSE unnoted[e] \cup provenAt[c]]
  /\ UNCHANGED <<hour, sound, table, report>>

(* Fault: a copy that was verified once goes on counting. *)
CountsOnce(e, policy, now) == policy.age = Unlimited \/ verifiedAt[e] # {}

(* Copy.counts *)
Counts(e, policy, now) ==
  policy.age = Unlimited \/ \E t \in verifiedAt[e] : now - t <= policy.age

MediaOf(entries) == {Facts[e].medium : e \in entries}

(* assess: what the policy demands and the counted entries do not give; an   *)
(* entry counts for one, whatever copy it is.                                *)
Unmet(dataset, policy, now) ==
  LET counted == {e \in Listed : Facts[e].dataset = dataset /\ Counts(e, policy, now)} IN
  {gap \in Gaps :
     \/ gap = "copies" /\ Cardinality(counted) < policy.copies
     \/ gap = "media" /\ Cardinality(MediaOf(counted)) < policy.media
     \/ gap = "offsite" /\ policy.offsite /\ \A e \in counted : ~Facts[e].offsite
     \/ gap = "immutable" /\ policy.immutable /\ \A e \in counted : ~Facts[e].immutable}

(* assess_all: a class without a policy refuses the whole report; its order, *)
(* worst first, is left out.  The clock of the host that asks gives now.     *)
AssessAll(skew) ==
  /\ report.is = "none"
  /\ report' =
       IF \E d \in Inventory : ClassOf[d] \notin DOMAIN table THEN [NoReport EXCEPT !.is = "refused"]
       ELSE [is |-> "made", gaps |-> [d \in Inventory |-> Unmet(d, table[ClassOf[d]], hour + skew)]]
  /\ UNCHANGED <<hour, sound, verifiedAt, table, touches, provenAt, unnoted>>

RedundancyNext ==
  /\ report.is = "none"
  /\ \/ Pass
     \/ \E c \in Replicas :
          Spoil(c) \/ \E skew \in Skews, told \in SUBSET EntriesOf(c) : ReadCopyBack(c, skew, told)
     \/ \E skew \in Skews : AssessAll(skew)

RedundancySpec == RedundancyInit /\ [][RedundancyNext]_redundancyVars

-----------------------------------------------------------------------------
(* How far two clocks may be apart. *)
Spread(d) == \E s, r \in Skews : d <= s - r

(* Each copy of a dataset is one entry, as callers are asked to list it:     *)
(* "model those as ONE copy" (_redundancy.py:40-43).                         *)
ListedOnce(dataset) ==
  \A e, f \in Listed : /\ Facts[e].dataset = dataset /\ Facts[f].dataset = dataset
                       /\ Facts[e].copy = Facts[f].copy
                       => e = f

(* The entries whose copy was sound when it was last read back, which is no  *)
(* longer ago than the policy's age, give or take what the clocks are apart; *)
(* or was sound until a reading that was not noted at the entry: that one    *)
(* nobody who has only the inventory can know.                               *)
Proven(dataset, age) ==
  {e \in Listed : /\ Facts[e].dataset = dataset
                  /\ \/ age = Unlimited
                     \/ \E t \in provenAt[Facts[e].copy] \cup unnoted[e] : Spread(hour - t - age)}

(* A dataset without gaps outlives what its policy is about, counting only   *)
(* copies that were sound when they were last read back, not longer ago than *)
(* the policy allows but for the clocks, as far as the readings were noted:  *)
(* all copies but one less than it demands may go, if each was listed once,  *)
(* or all media but one less, the site, or all that can be overwritten, and  *)
(* one is left.  Copies never read back, or too long ago, or known not to    *)
(* have come back, are beliefs (_redundancy.py:23-29, 98-107).               *)
CoveredIsProven ==
  report.is = "made" =>
    \A d \in Inventory :
      LET policy == table[ClassOf[d]]
          proven == Proven(d, policy.age)
      IN report.gaps[d] = {} =>
           /\ ListedOnce(d) =>
                \A lost \in SUBSET Replicas :
                  Cardinality(lost) < policy.copies => \E e \in proven : Facts[e].copy \notin lost
           /\ \A gone \in SUBSET MediaOf(proven) :
                Cardinality(gone) < policy.media => \E e \in proven : Facts[e].medium \notin gone
           /\ policy.offsite => \E e \in proven : Facts[e].offsite
           /\ policy.immutable => \E e \in proven : Facts[e].immutable
=============================================================================
