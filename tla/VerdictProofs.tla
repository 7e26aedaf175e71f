---------------------------- MODULE VerdictProofs ----------------------------
(***************************************************************************)
(* What find-recipe, redundancy, survey, plan_sweep and find-duplicates    *)
(* say is right, for any trees, recipes, copies, clocks, processes, files  *)
(* and sizes, any bounds, and whatever changes while they look.            *)
(***************************************************************************)
EXTENDS Recipe, Redundancy, Survey, PlanSweep, Duplicates, SumProofs, Sequences

(* The environment that was seen, and what the climb has found out so far. *)
Climbing ==
  /\ look.at = "ask" \/ Seen \subseteq beenThere
  /\ stillThere \subseteq recipes
  /\ look.at \in {"climb", "supplied"} => <<0, look.marker>> \in beenThere
  /\ look.at \in {"ask", "list", "tag", "entries", "marker"} => look.marker = "none"
  /\ look.at = "climb" =>
       /\ look.next \in 0..bound
       /\ \A r \in stillThere : r[2] = Serves[look.marker] => r[1] >= look.next
  /\ look.at = "supplied" =>
       \A r \in stillThere : r[2] = Serves[look.marker] => r[1] > bound

(* Of the types, what the steps need. *)
Stages   == {"ask", "list", "tag", "entries", "marker", "climb", "supplied", "answered"}
Verdicts == {"regenerable", "cache", "not-regenerable", "could-not-look", "none"}
Origins  == {<<>>, Given} \cup Places
Looks    == [at : Stages, next : Int, marker : Marks \cup {"none"}, verdict : Verdicts, from : Origins]

Shaped ==
  /\ candidate \in [is : {"absent", "file", "unreadable", "directory"}, has : SUBSET Marks, named : BOOLEAN]
  /\ recipes \subseteq Places /\ bound \in 0..RootLevel
  /\ look \in Looks
  /\ look.at # "answered" => look.verdict = "none"

RecipeIInv == Shaped /\ Climbing /\ RecipeIsTrue

LEMMA RecipeInitIsGood == RecipeInit => RecipeIInv
<1> SUFFICES ASSUME RecipeInit PROVE RecipeIInv
  OBVIOUS
<1>1. Shaped
  BY DEF RecipeInit, Shaped, NoLook, Looks, Stages, Verdicts, Origins
<1>2. Climbing /\ RecipeIsTrue
  BY DEF RecipeInit, Climbing, RecipeIsTrue, NoLook
<1> QED
  BY <1>1, <1>2 DEF RecipeIInv

(* The next step, or the answer, and what is not said of it is as it was. *)
LEMMA StepsOn ==
  ASSUME Shaped, NEW step \in Stages \ {"answered"}, NEW next \in Int, Steps(step, next), look.at # "answered"
  PROVE  /\ look' \in Looks /\ look'.at = step /\ look'.next = next
         /\ look'.marker = look.marker /\ look'.verdict = "none"
  BY DEF Shaped, Looks, Steps

LEMMA AnswersSo ==
  ASSUME Shaped, NEW verdict \in Verdicts, NEW from \in Origins, Answers(verdict, from)
  PROVE  /\ look' \in Looks /\ look'.at = "answered" /\ look'.marker = look.marker
         /\ look'.verdict = verdict /\ look'.from = from
  BY DEF Shaped, Looks, Answers, Stages

LEMMA SeesIt ==
  ASSUME Shaped, look.at = "marker", NEW m \in Marks, NEW next \in Int,
         look' = [look EXCEPT !.at = "climb", !.next = next, !.marker = m]
  PROVE  /\ look' \in Looks /\ look'.at = "climb" /\ look'.next = next /\ look'.marker = m
         /\ look'.verdict = "none"
<1>1. look \in Looks /\ look.verdict = "none"
  BY DEF Shaped
<1>2. "climb" \in Stages /\ m \in Marks \cup {"none"}
  BY DEF Stages
<1> QED
  BY <1>1, <1>2 DEF Looks

LEMMA AreOrigins == Given \in Origins /\ <<>> \in Origins /\ Places \subseteq Origins
  BY DEF Origins

LEMMA RecipeStepKeepsIt == RecipeIInv /\ [RecipeNext]_recipeVars => RecipeIInv'
<1> SUFFICES ASSUME RecipeIInv, [RecipeNext]_recipeVars PROVE RecipeIInv'
  OBVIOUS
<1> USE AreOrigins, RecipeAssumption DEF RecipeIInv
<1>1. ASSUME Moves PROVE RecipeIInv'
  <2>1. Shaped'
    BY <1>1 DEF Moves, Shaped
  <2>2. Climbing'
    BY <1>1 DEF Moves, Climbing
  <2>3. RecipeIsTrue'
    BY <1>1 DEF Moves, Shaped, RecipeIsTrue
  <2> QED
    BY <2>1, <2>2, <2>3
<1>2. ASSUME Ask PROVE RecipeIInv'
  <2>1. \/ Answers("could-not-look", <<>>) \/ Steps("list", 1)
    BY <1>2 DEF Ask
  <2>2. /\ look' \in Looks /\ look'.at \in {"list", "answered"} /\ look'.marker = "none"
        /\ look'.verdict \in {"none", "could-not-look"} /\ (look'.at = "list" => look'.verdict = "none")
    BY <1>2, <2>1, AnswersSo, StepsOn DEF Ask, Climbing, Stages, Verdicts
  <2>3. Shaped'
    BY <1>2, <2>2 DEF Ask, Shaped
  <2>4. Climbing'
    BY <1>2, <2>2 DEF Ask, Climbing, Seen
  <2>5. RecipeIsTrue'
    BY <2>2 DEF RecipeIsTrue
  <2> QED
    BY <2>3, <2>4, <2>5
<1>3. ASSUME List \/ Tag \/ Entries PROVE RecipeIInv'
  <2>1. /\ \/ Answers("could-not-look", <<>>) \/ Answers("cache", <<>>)
           \/ Steps("tag", 1) \/ Steps("entries", 1) \/ Steps("marker", 1)
        /\ look.at \in {"list", "tag", "entries"} /\ Looking
    BY <1>3 DEF List, Tag, Entries
  <2>2. /\ look' \in Looks /\ look'.at \in {"tag", "entries", "marker", "answered"} /\ look'.marker = "none"
        /\ look'.verdict \in {"none", "could-not-look", "cache"}
        /\ look'.at # "answered" => look'.verdict = "none"
    BY <2>1, AnswersSo, StepsOn DEF Climbing, Stages, Verdicts
  <2>3. Shaped'
    BY <2>1, <2>2 DEF Looking, Shaped
  <2>4. Climbing'
    BY <2>1, <2>2 DEF Looking, Climbing, Seen
  <2>5. RecipeIsTrue'
    BY <2>2 DEF RecipeIsTrue
  <2> QED
    BY <2>3, <2>4, <2>5
<1>4. ASSUME Marker PROVE RecipeIInv'
  <2> DEFINE m == MarkerOrder[look.next]
  <2>1. CASE look.next > Len(MarkerOrder) \/ ~Has(m)
    <3>1. /\ look.at = "marker" /\ Looking
          /\ Answers("not-regenerable", <<>>) \/ Steps("marker", look.next + 1)
      BY <1>4, <2>1 DEF Marker
    <3>2. look.next + 1 \in Int
      BY DEF Shaped, Looks
    <3>3. /\ look' \in Looks /\ look'.at \in {"marker", "answered"} /\ look'.marker = "none"
          /\ look'.verdict \in {"none", "not-regenerable"} /\ (look'.at # "answered" => look'.verdict = "none")
      BY <3>1, <3>2, AnswersSo, StepsOn DEF Climbing, Stages, Verdicts
    <3>4. Shaped'
      BY <3>1, <3>3 DEF Looking, Shaped
    <3>5. Climbing'
      BY <3>1, <3>3 DEF Looking, Climbing, Seen
    <3>6. RecipeIsTrue'
      BY <3>3 DEF RecipeIsTrue
    <3> QED
      BY <3>4, <3>5, <3>6
  <2>2. CASE ~(look.next > Len(MarkerOrder)) /\ Has(m)
    <3>1. /\ look.at = "marker" /\ Looking
          /\ look' = [look EXCEPT !.at = "climb", !.next = 0, !.marker = m]
      BY <1>4, <2>2 DEF Marker
    <3>2. m \in Marks /\ <<0, m>> \in beenThere
      BY <2>2, <3>1 DEF Has, Shaped, Climbing, Seen
    <3>3. /\ look' \in Looks /\ look'.at = "climb" /\ look'.next = 0 /\ look'.marker = m
          /\ look'.verdict = "none"
      <4> HIDE DEF m
      <4>1. Shaped /\ 0 \in Int
        OBVIOUS
      <4> QED
        BY <3>1, <3>2, <4>1, SeesIt
    <3>4. Shaped'
      BY <3>1, <3>3 DEF Looking, Shaped
    <3>5. \A r \in stillThere : r[1] >= 0
      BY DEF Climbing, Shaped, Places
    <3>6. Climbing'
      BY <3>1, <3>2, <3>3, <3>5 DEF Looking, Climbing, Seen, Shaped
    <3>7. RecipeIsTrue'
      BY <3>3 DEF RecipeIsTrue
    <3> QED
      BY <3>4, <3>6, <3>7
  <2> QED
    BY <2>1, <2>2
<1>5. ASSUME Climb PROVE RecipeIInv'
  <2>0. look.at = "climb" /\ Looking /\ look.next \in 0..bound /\ bound \in Nat
    BY <1>5 DEF Climb, Climbing, Shaped
  <2>1. CASE Here \in recipes
    <3>1. Answers("regenerable", Here) /\ Here \in Origins
      BY <1>5, <2>1 DEF Climb, Shaped
    <3>2. /\ look' \in Looks /\ look'.at = "answered" /\ look'.marker = look.marker
          /\ look'.verdict = "regenerable" /\ look'.from = Here
      BY <3>1, AnswersSo DEF Verdicts
    <3>3. Shaped'
      BY <2>0, <3>2 DEF Looking, Shaped
    <3>4. Climbing'
      BY <2>0, <3>2 DEF Looking, Climbing, Seen
    <3>5. RecipeIsTrue'
      BY <2>0, <2>1, <3>2 DEF Looking, Climbing, Seen, Here, RecipeIsTrue
    <3> QED
      BY <3>3, <3>4, <3>5
  <2>2. CASE Here \notin recipes
    <3>1. \A r \in stillThere : r[2] = Serves[look.marker] => r[1] > look.next
      BY <2>0, <2>2 DEF Climbing, Shaped, Places, Here
    <3>2. (look.next + 1 \in Int /\ look.next + 1 \in 0..bound) \/ look.next = bound
      BY <2>0
    <3>3. \/ look.next = bound /\ Steps("supplied", 0)
          \/ look.next # bound /\ Steps("climb", look.next + 1)
      BY <1>5, <2>2 DEF Climb
    <3>4. /\ look' \in Looks /\ look'.marker = look.marker /\ look'.verdict = "none"
          /\ \/ look'.at = "supplied" /\ look.next = bound
             \/ look'.at = "climb" /\ look'.next = look.next + 1 /\ look'.next \in 0..bound
      BY <2>0, <3>2, <3>3, StepsOn DEF Stages
    <3>5. Shaped'
      BY <2>0, <3>4 DEF Looking, Shaped
    <3>6. \A r \in stillThere : r[1] \in Nat
      BY DEF Climbing, Shaped, Places
    <3>7. Climbing'
      BY <2>0, <3>1, <3>4, <3>6 DEF Looking, Climbing, Seen
    <3>8. RecipeIsTrue'
      BY <3>4 DEF RecipeIsTrue
    <3> QED
      BY <3>5, <3>7, <3>8
  <2> QED
    BY <2>1, <2>2
<1>6. ASSUME Supplied PROVE RecipeIInv'
  <2>1. /\ look.at = "supplied" /\ Looking
        /\ \/ supplied = "there" /\ Answers("regenerable", Given)
           \/ Answers("not-regenerable", <<>>)
    BY <1>6 DEF Supplied
  <2>2. /\ look' \in Looks /\ look'.at = "answered" /\ look'.marker = look.marker
        /\ \/ look'.verdict = "regenerable" /\ look'.from = Given /\ supplied = "there"
           \/ look'.verdict = "not-regenerable"
    BY <2>1, AnswersSo DEF Verdicts
  <2>3. Shaped'
    BY <2>1, <2>2 DEF Looking, Shaped
  <2>4. Climbing'
    BY <2>1, <2>2 DEF Looking, Climbing, Seen
  <2>5. RecipeIsTrue'
    BY <2>1, <2>2 DEF Looking, Climbing, Seen, RecipeIsTrue
  <2> QED
    BY <2>3, <2>4, <2>5
<1>7. ASSUME UNCHANGED recipeVars PROVE RecipeIInv'
  BY <1>7 DEF recipeVars, Shaped, Climbing, RecipeIsTrue, Seen
<1> QED
  BY <1>1, <1>2, <1>3, <1>4, <1>5, <1>6, <1>7 DEF RecipeNext

(* Both ways, whatever changes while it looks: the recipe in the answer was  *)
(* there and rebuilds what was seen, and no recipe that stood all the while  *)
(* within the boundary is passed over (_measure/_regenerable.py:309).        *)
THEOREM RecipeIsAlwaysTrue == RecipeSpec => []RecipeIsTrue
<1>1. RecipeIInv => RecipeIsTrue
  BY DEF RecipeIInv
<1> QED
  BY <1>1, RecipeInitIsGood, RecipeStepKeepsIt, PTL DEF RecipeSpec

-----------------------------------------------------------------------------
(* What was noted at an entry is no later than its copy was last read back   *)
(* and was sound, by the clock of a host, nor than the proof which a reading *)
(* refuted that was not noted there.                                         *)
Backed ==
  \A e \in Listed : \A t \in verifiedAt[e] :
    \E p \in provenAt[Facts[e].copy] \cup unnoted[e], s \in Skews : t <= p + s

Timed ==
  /\ hour \in Nat /\ table \in Tables
  /\ verifiedAt \in [Listed -> SUBSET Int]
  /\ provenAt \in [Replicas -> SUBSET (0..hour)] /\ unnoted \in [Listed -> SUBSET (0..hour)]

RedundancyIInv == Timed /\ Backed /\ CoveredIsProven

(* The media of some entries are finitely many, and so are their copies. *)
LEMMA MediaAreFinite ==
  ASSUME NEW entries \in SUBSET Listed
  PROVE  IsFiniteSet(MediaOf(entries))
<1> DEFINE f == [e \in entries |-> Facts[e].medium]
<1>1. f \in Surjection(entries, MediaOf(entries))
  BY DEF Surjection, MediaOf
<1>2. IsFiniteSet(entries)
  BY ListedAssumption, FS_Subset
<1> HIDE DEF f
<1> QED
  BY <1>1, <1>2, FS_Surjection

LEMMA ReplicasAreFinite == IsFiniteSet(Replicas)
<1> DEFINE f == [e \in Listed |-> Facts[e].copy]
<1>1. f \in Surjection(Listed, Replicas)
  BY DEF Surjection, Replicas
<1> HIDE DEF f
<1> QED
  BY <1>1, ListedAssumption, FS_Surjection

(* Entries that are one copy each are no more than their copies. *)
LEMMA EachACopy ==
  ASSUME NEW dataset, ListedOnce(dataset), NEW counted \in SUBSET Listed,
         \A e \in counted : Facts[e].dataset = dataset,
         NEW lost \in SUBSET Replicas, \A e \in counted : Facts[e].copy \in lost
  PROVE  Cardinality(counted) <= Cardinality(lost) /\ Cardinality(counted) \in Nat /\ Cardinality(lost) \in Nat
<1> DEFINE taken == {Facts[e].copy : e \in counted}
           f == [e \in counted |-> Facts[e].copy]
<1>1. f \in Bijection(counted, taken)
  <2>1. f \in [counted -> taken] /\ \A t \in taken : \E e \in counted : f[e] = t
    OBVIOUS
  <2>2. ASSUME NEW e1 \in counted, NEW e2 \in counted, f[e1] = f[e2] PROVE e1 = e2
    <3>1. Facts[e1].copy = Facts[e2].copy /\ Facts[e1].dataset = dataset /\ Facts[e2].dataset = dataset
      BY <2>2
    <3> QED
      BY <3>1 DEF ListedOnce
  <2> HIDE DEF f, taken
  <2>3. f \in Injection(counted, taken)
    BY <2>1, <2>2 DEF Injection, IsInjective
  <2>4. f \in Surjection(counted, taken)
    BY <2>1 DEF Surjection
  <2> QED
    BY <2>3, <2>4 DEF Bijection
<1>2. taken \subseteq lost
  OBVIOUS
<1>3. IsFiniteSet(counted) /\ IsFiniteSet(lost)
  BY ListedAssumption, ReplicasAreFinite, FS_Subset
<1> HIDE DEF f, taken
<1>4. Cardinality(taken) = Cardinality(counted)
  BY <1>1, <1>3, FS_Bijection DEF ExistsBijection
<1>5. Cardinality(taken) <= Cardinality(lost)
  BY <1>2, <1>3, FS_Subset
<1> QED
  BY <1>3, <1>4, <1>5, FS_CardinalityType

(* An entry that counts for a host, whatever its clock says, is a proven one. *)
LEMMA CountedIsProven ==
  ASSUME Timed, Backed, NEW policy \in [copies : Nat, media : Nat, offsite : BOOLEAN, immutable : BOOLEAN,
                                        age : Nat \cup {Unlimited}],
         NEW dataset, NEW skew \in Skews, NEW e \in Listed,
         Facts[e].dataset = dataset, Counts(e, policy, hour + skew)
  PROVE  e \in Proven(dataset, policy.age)
<1>1. CASE policy.age = Unlimited
  BY <1>1 DEF Proven
<1>2. CASE policy.age # Unlimited
  <2>1. PICK t \in verifiedAt[e] : (hour + skew) - t <= policy.age
    BY <1>2 DEF Counts
  <2>2. PICK p \in provenAt[Facts[e].copy] \cup unnoted[e], s \in Skews : t <= p + s
    BY DEF Backed
  <2>3. /\ hour \in Int /\ skew \in Int /\ s \in Int /\ p \in Int /\ policy.age \in Int /\ t \in Int
    BY SkewsAssumption DEF Timed, Unlimited, Replicas
  <2>4. hour - p - policy.age <= s - skew
    BY <2>1, <2>2, <2>3
  <2>5. Spread(hour - p - policy.age)
    BY <2>4 DEF Spread
  <2> QED
    BY <2>5 DEF Proven
<1> QED
  BY <1>1, <1>2

LEMMA NoGapIsProven ==
  ASSUME Timed, Backed, NEW d \in Inventory, NEW skew \in Skews,
         ClassOf[d] \in DOMAIN table, Unmet(d, table[ClassOf[d]], hour + skew) = {}
  PROVE  LET policy == table[ClassOf[d]]
             proven == Proven(d, policy.age)
         IN  /\ ListedOnce(d) =>
                  \A lost \in SUBSET Replicas :
                    Cardinality(lost) < policy.copies => \E e \in proven : Facts[e].copy \notin lost
             /\ \A gone \in SUBSET MediaOf(proven) :
                  Cardinality(gone) < policy.media => \E e \in proven : Facts[e].medium \notin gone
             /\ policy.offsite => \E e \in proven : Facts[e].offsite
             /\ policy.immutable => \E e \in proven : Facts[e].immutable
<1> DEFINE policy  == table[ClassOf[d]]
           proven  == Proven(d, policy.age)
           counted == {e \in Listed : Facts[e].dataset = d /\ Counts(e, policy, hour + skew)}
<1>1. policy \in [copies : Nat, media : Nat, offsite : BOOLEAN, immutable : BOOLEAN, age : Nat \cup {Unlimited}]
  BY TablesAssumption DEF Timed
<1>2. counted \subseteq proven
  BY <1>1, CountedIsProven
<1>3. proven \subseteq Listed
  BY DEF Proven
<1>4. /\ ~(Cardinality(counted) < policy.copies)
      /\ ~(Cardinality(MediaOf(counted)) < policy.media)
      /\ ~(policy.offsite /\ \A e \in counted : ~Facts[e].offsite)
      /\ ~(policy.immutable /\ \A e \in counted : ~Facts[e].immutable)
  BY DEF Unmet, Gaps
<1>5. policy.copies \in Nat /\ policy.media \in Nat
  BY <1>1
<1>a. counted \subseteq Listed /\ \A e \in counted : Facts[e].dataset = d
  OBVIOUS
<1> HIDE DEF policy, proven, counted
<1>6. ASSUME ListedOnce(d), NEW lost \in SUBSET Replicas, Cardinality(lost) < policy.copies,
             \A e \in proven : Facts[e].copy \in lost PROVE FALSE
  <2>1. \A e \in counted : Facts[e].copy \in lost
    BY <1>2, <1>6
  <2>2. Cardinality(counted) <= Cardinality(lost) /\ Cardinality(counted) \in Nat /\ Cardinality(lost) \in Nat
    BY <1>a, <1>6, <2>1, EachACopy
  <2> QED
    BY <2>2, <1>4, <1>5, <1>6
<1>7. ASSUME NEW gone \in SUBSET MediaOf(proven), Cardinality(gone) < policy.media,
             \A e \in proven : Facts[e].medium \in gone PROVE FALSE
  <2>1. MediaOf(counted) \subseteq gone
    BY <1>2, <1>7 DEF MediaOf
  <2>2. IsFiniteSet(gone)
    BY <1>3, MediaAreFinite, FS_Subset
  <2>3. /\ Cardinality(MediaOf(counted)) <= Cardinality(gone)
        /\ Cardinality(MediaOf(counted)) \in Nat /\ Cardinality(gone) \in Nat
    BY <2>1, <2>2, FS_Subset, FS_CardinalityType
  <2> QED
    BY <2>3, <1>4, <1>5, <1>7
<1>8. (policy.offsite => \E e \in proven : Facts[e].offsite) /\ (policy.immutable => \E e \in proven : Facts[e].immutable)
  BY <1>2, <1>4
<1> QED
  BY <1>6, <1>7, <1>8 DEF policy, proven

LEMMA RedundancyInitIsGood == RedundancyInit => RedundancyIInv
  BY DEF RedundancyInit, RedundancyIInv, Timed, Backed, CoveredIsProven, NoReport

LEMMA RedundancyStepKeepsIt == RedundancyIInv /\ [RedundancyNext]_redundancyVars => RedundancyIInv'
<1> SUFFICES ASSUME RedundancyIInv, [RedundancyNext]_redundancyVars PROVE RedundancyIInv'
  OBVIOUS
<1> USE DEF RedundancyIInv
<1>1. CASE UNCHANGED redundancyVars
  BY <1>1 DEF redundancyVars, Timed, Backed, CoveredIsProven, Proven, MediaOf, Spread
<1>2. CASE RedundancyNext
  <2>0. report.is = "none" /\ Skews \subseteq Int
    BY <1>2, SkewsAssumption DEF RedundancyNext
  <2>1. ASSUME Pass PROVE RedundancyIInv'
    <3>1. hour' = hour + 1 /\ UNCHANGED <<verifiedAt, table, report, provenAt, unnoted>>
      BY <2>1 DEF Pass
    <3>2. \A p \in 0..hour : p \in 0..hour'
      BY <3>1 DEF Timed
    <3>3. Timed'
      BY <3>1, <3>2 DEF Timed
    <3> QED
      BY <2>0, <3>1, <3>3 DEF Backed, CoveredIsProven
  <2>2. ASSUME NEW c \in Replicas, Spoil(c) PROVE RedundancyIInv'
    BY <2>0, <2>2 DEF Spoil, Timed, Backed, CoveredIsProven
  <2>3. ASSUME NEW c \in Replicas, NEW skew \in Skews, NEW told \in SUBSET EntriesOf(c),
               ReadCopyBack(c, skew, told) PROVE RedundancyIInv'
    <3>1. CoveredIsProven'
      BY <2>0, <2>3 DEF ReadCopyBack, CoveredIsProven
    <3>2. /\ verifiedAt' = [e \in Listed |-> IF e \notin told THEN verifiedAt[e]
                                            ELSE IF c \in sound THEN {hour + skew} ELSE {}]
          /\ provenAt' = [provenAt EXCEPT ![c] = IF c \in sound THEN {hour} ELSE {}]
          /\ unnoted' = [e \in Listed |-> IF e \notin EntriesOf(c) THEN unnoted[e]
                                         ELSE IF c \in sound \/ e \in told THEN {}
                                         ELSE unnoted[e] \cup provenAt[c]]
          /\ UNCHANGED <<hour, table>>
      BY <2>3 DEF ReadCopyBack
    <3>3. hour \in Int /\ hour + skew \in Int /\ hour \in 0..hour
      BY <2>0 DEF Timed
    <3>4. verifiedAt' \in [Listed -> SUBSET Int] /\ provenAt' \in [Replicas -> SUBSET (0..hour)]
      BY <3>2, <3>3 DEF Timed
    <3>5. unnoted' \in [Listed -> SUBSET (0..hour)]
      BY <3>2 DEF Timed
    <3>6. Timed'
      BY <3>2, <3>4, <3>5 DEF Timed
    <3>7. ASSUME NEW e \in Listed, NEW t \in verifiedAt'[e]
          PROVE \E p \in provenAt'[Facts[e].copy] \cup unnoted'[e], s \in Skews : t <= p + s
      <4>0. Facts[e].copy \in Replicas /\ (e \in EntriesOf(c) <=> Facts[e].copy = c)
        BY DEF Replicas, EntriesOf
      <4>1. CASE e \notin EntriesOf(c)
        <5>1. t \in verifiedAt[e] /\ unnoted'[e] = unnoted[e] /\ provenAt'[Facts[e].copy] = provenAt[Facts[e].copy]
          BY <3>2, <3>7, <4>0, <4>1 DEF Timed
        <5> QED
          BY <5>1 DEF Backed
      <4>2. CASE e \in EntriesOf(c) /\ c \in sound
        <5>1. hour \in provenAt'[Facts[e].copy]
          BY <3>2, <4>0, <4>2 DEF Timed
        <5>2. \E s \in Skews : t <= hour + s
          <6>1. CASE e \in told
            <7>1. t = hour + skew
              BY <3>2, <3>7, <4>2, <6>1
            <7> QED
              BY <7>1, <3>3
          <6>2. CASE e \notin told
            <7>1. t \in verifiedAt[e]
              BY <3>2, <3>7, <6>2
            <7>2. PICK p \in provenAt[Facts[e].copy] \cup unnoted[e], s \in Skews : t <= p + s
              BY <7>1 DEF Backed
            <7>3. p \in 0..hour /\ s \in Int /\ t \in Int
              BY <2>0, <4>0, <7>1 DEF Timed
            <7> QED
              BY <3>3, <7>2, <7>3
          <6> QED
            BY <6>1, <6>2
        <5> QED
          BY <5>1, <5>2
      <4>3. CASE e \in EntriesOf(c) /\ c \notin sound
        <5>1. e \notin told /\ t \in verifiedAt[e]
          BY <3>2, <3>7, <4>3
        <5>2. unnoted'[e] = unnoted[e] \cup provenAt[Facts[e].copy]
          BY <3>2, <4>0, <4>3, <5>1
        <5> QED
          BY <5>1, <5>2 DEF Backed
      <4> QED
        BY <4>1, <4>2, <4>3
    <3>8. Backed'
      BY <3>7 DEF Backed
    <3> QED
      BY <3>1, <3>6, <3>8
  <2>4. ASSUME NEW skew \in Skews, AssessAll(skew) PROVE RedundancyIInv'
    <3>1. UNCHANGED <<hour, verifiedAt, table, provenAt, unnoted>>
      BY <2>4 DEF AssessAll
    <3>2. Timed' /\ Backed'
      BY <3>1 DEF Timed, Backed
    <3>3. CASE \E d \in Inventory : ClassOf[d] \notin DOMAIN table
      <4>1. report'.is = "refused"
        BY <2>4, <3>3 DEF AssessAll, NoReport
      <4> QED
        BY <3>2, <4>1 DEF CoveredIsProven
    <3>4. CASE \A d \in Inventory : ClassOf[d] \in DOMAIN table
      <4>1. \A d \in Inventory : report'.gaps[d] = Unmet(d, table[ClassOf[d]], hour + skew)
        BY <2>4, <3>4 DEF AssessAll
      <4>2. CoveredIsProven'
        BY <3>1, <3>4, <4>1, NoGapIsProven DEF CoveredIsProven, Proven, Spread
      <4> QED
        BY <3>2, <4>2
    <3> QED
      BY <3>3, <3>4
  <2> QED
    BY <1>2, <2>1, <2>2, <2>3, <2>4 DEF RedundancyNext
<1> QED
  BY <1>1, <1>2

(* A report of redundancy without gaps counts on nothing but copies that     *)
(* were sound when they were last read back, and recently, but for what the  *)
(* clocks are apart and for failures that nobody noted; a dataset that lists *)
(* each copy once outlives the loss of as many of them as its policy says,   *)
(* and any dataset that of as many media (_measure/_redundancy.py:107).      *)
THEOREM CoveredIsAlwaysProven == RedundancySpec => []CoveredIsProven
<1>1. RedundancyIInv => CoveredIsProven
  BY DEF RedundancyIInv
<1> QED
  BY <1>1, RedundancyInitIsGood, RedundancyStepKeepsIt, PTL DEF RedundancySpec

-----------------------------------------------------------------------------
(* What is known of the survey, the processes and their files at any time. *)
ScanFields == {"at", "since", "todo", "deeper", "missed", "stats", "signals", "control", "pids", "maps",
               "observed", "verdict"}

Scanning ==
  /\ DOMAIN scan = ScanFields
  /\ scan.at # "done" => scan.verdict = "none"

Holding ==
  /\ holds \subseteq Handles /\ heldOn \subseteq holds
  /\ \A h \in holds : h[1] \in alive

(* Of what is held since the processes were listed, what the scan has yet to *)
(* come to is held by a process that it is going to read; the rest it saw.   *)
Ahead(h) == h[1] \in scan.pids \/ (h[1] \in scan.maps /\ h[3] = "map")

Seeing ==
  /\ scan.at \notin {"fds", "maps", "done"} => heldOn = {}
  /\ scan.at # "maps" => scan.maps = {}
  /\ \A p, q \in scan.maps : p = q
  /\ scan.at \in {"fds", "maps"} /\ scan.control =>
       \A h \in heldOn : h[1] \in Foreign \/ Ahead(h) \/ h[2] \in scan.observed

HolderIInv == Scanning /\ Holding /\ Seeing /\ HolderIsSeen

LEMMA HolderInitIsGood == SurveyInit => HolderIInv
  BY DEF SurveyInit, HolderIInv, Scanning, Holding, Seeing, HolderIsSeen, NoScan, ScanFields

(* Whatever goes on around the tree, nothing that was let go is held on. *)
LEMMA DoingHolds ==
  ASSUME Holding, Doing \/ Tick
  PROVE  Holding' /\ UNCHANGED scan /\ heldOn' \subseteq heldOn
<1>1. CASE Tick
  BY <1>1 DEF Tick, Holding
<1>2. ASSUME NEW f \in CorpusFiles, Write(f) \/ ReadFile(f) PROVE Holding' /\ UNCHANGED scan /\ heldOn' \subseteq heldOn
  BY <1>2 DEF Write, ReadFile, Holding
<1>3. ASSUME NEW fs \in {"tree", "nested"}, Attach(fs) \/ Detach(fs)
      PROVE  Holding' /\ UNCHANGED scan /\ heldOn' \subseteq heldOn
  BY <1>3 DEF Attach, Detach, Holding
<1>4. ASSUME NEW p \in Procs, Start(p) PROVE Holding' /\ UNCHANGED scan /\ heldOn' \subseteq heldOn
  <2>1. CASE UNCHANGED <<holds, heldOn>>
    BY <1>4, <2>1 DEF Start, Holding
  <2>2. ASSUME NEW q \in alive,
               HoldsBecome(holds \cup {<<p, h[2], h[3]>> : h \in {h \in holds : h[1] = q}})
        PROVE  Holding' /\ UNCHANGED scan /\ heldOn' \subseteq heldOn
    <3> DEFINE new == {<<p, h[2], h[3]>> : h \in {h \in holds : h[1] = q}}
    <3>1. new \subseteq Handles /\ \A h \in new : h[1] = p
      BY DEF Holding, Handles
    <3>2. holds' = holds \cup new /\ heldOn' = heldOn \cap holds' /\ alive' = alive \cup {p} /\ UNCHANGED scan
      BY <1>4, <2>2 DEF Start, HoldsBecome
    <3> HIDE DEF new
    <3> QED
      BY <3>1, <3>2 DEF Holding
  <2> QED
    BY <1>4, <2>1, <2>2 DEF Start
<1>5. ASSUME NEW p \in Procs, End(p) PROVE Holding' /\ UNCHANGED scan /\ heldOn' \subseteq heldOn
  BY <1>5 DEF End, HoldsBecome, Holding
<1>6. ASSUME NEW p \in Procs, NEW f \in CorpusFiles, NEW how \in {"fd", "map"}, Hold(p, f, how)
      PROVE  Holding' /\ UNCHANGED scan /\ heldOn' \subseteq heldOn
  BY <1>6 DEF Hold, HoldsBecome, Holding, Handles
<1> QED
  BY <1>1, <1>2, <1>3, <1>4, <1>5, <1>6 DEF Doing

LEMMA HolderStepKeepsIt == HolderIInv /\ [SurveyNext]_surveyVars => HolderIInv'
<1> SUFFICES ASSUME HolderIInv, [SurveyNext]_surveyVars PROVE HolderIInv'
  OBVIOUS
<1> USE DEF HolderIInv
<1>1. CASE UNCHANGED surveyVars
  BY <1>1 DEF surveyVars, Scanning, Holding, Seeing, Ahead, HolderIsSeen
<1>2. ASSUME scan.at # "done", Doing \/ Tick PROVE HolderIInv'
  <2>1. Holding' /\ UNCHANGED scan /\ heldOn' \subseteq heldOn
    BY <1>2, DoingHolds
  <2> QED
    BY <1>2, <2>1 DEF Scanning, Seeing, Ahead, HolderIsSeen
<1>3. ASSUME Begin \/ ListTree \/ ListNested \/ Probes \/ \E f \in CorpusFiles : StatFile(f) PROVE HolderIInv'
  <2>1. scan.at \in {"begin", "list", "stat"} /\ UNCHANGED <<holds, alive, heldOn>>
    BY <1>3 DEF Begin, ListTree, ListNested, Probes, StatFile, surveyWorld
  <2>2. DOMAIN scan' = ScanFields /\ scan'.maps = scan.maps
    BY <1>3 DEF Begin, ListTree, ListNested, Probes, StatFile, Miss, Lists, Scanning, ScanFields
  <2>3. \/ scan'.at \in {"list", "stat", "pids"} /\ scan'.verdict = "none"
        \/ scan'.verdict = "could-not-look" /\ scan'.at = "done"
    <3>1. CASE Begin
      BY <2>1, <3>1 DEF Begin, Scanning, ScanFields
    <3>2. CASE ListTree \/ ListNested
      BY <2>1, <3>2 DEF ListTree, ListNested, Miss, Lists, Scanning, ScanFields
    <3>3. CASE Probes
      BY <2>1, <3>3 DEF Probes, Scanning, ScanFields
    <3>4. ASSUME NEW f \in CorpusFiles, StatFile(f) PROVE scan'.at = "stat" /\ scan'.verdict = "none"
      BY <2>1, <3>4 DEF StatFile, Scanning, ScanFields
    <3> QED
      BY <1>3, <3>1, <3>2, <3>3, <3>4
  <2> QED
    BY <2>1, <2>2, <2>3 DEF Scanning, Holding, Seeing, HolderIsSeen
<1>4. ASSUME ListProcs PROVE HolderIInv'
  <2>1. PICK shows \in BOOLEAN :
          scan' = [scan EXCEPT !.at = "fds", !.control = shows, !.pids = {p \in alive : shows}]
    BY <1>4 DEF ListProcs
  <2>2. /\ heldOn' = holds /\ UNCHANGED <<holds, alive>> /\ scan.at = "pids"
    BY <1>4 DEF ListProcs, surveyWorld
  <2>3. /\ DOMAIN scan' = ScanFields /\ scan'.at = "fds" /\ scan'.verdict = "none" /\ scan'.maps = scan.maps
        /\ scan'.control = shows /\ scan'.pids = {p \in alive : shows}
    BY <2>1, <2>2 DEF Scanning, ScanFields
  <2>4. Scanning' /\ Holding' /\ HolderIsSeen'
    BY <2>2, <2>3 DEF Scanning, Holding, HolderIsSeen
  <2>5. scan'.control => scan'.pids = alive
    BY <2>3
  <2>6. Seeing'
    <3>1. scan'.control => \A h \in heldOn' : h[1] \in scan'.pids
      BY <2>2, <2>5 DEF Holding
    <3>2. scan.maps = {}
      BY <2>2 DEF Seeing
    <3> QED
      BY <2>3, <3>1, <3>2 DEF Seeing, Ahead
  <2> QED
    BY <2>4, <2>6
<1>5. ASSUME NEW p \in Procs, ReadFds(p) PROVE HolderIInv'
  <2>1. /\ scan' = [scan EXCEPT !.at = "maps", !.pids = @ \ {p}, !.maps = {p}, !.observed = @ \cup Shown(p, "fd")]
        /\ scan.at = "fds" /\ UNCHANGED <<holds, alive, heldOn>>
    BY <1>5 DEF ReadFds, surveyWorld
  <2>2. /\ DOMAIN scan' = ScanFields /\ scan'.at = "maps" /\ scan'.pids = scan.pids \ {p} /\ scan'.maps = {p}
        /\ scan'.observed = scan.observed \cup Shown(p, "fd") /\ scan'.verdict = "none" /\ scan'.control = scan.control
    BY <2>1 DEF Scanning, ScanFields
  <2>3. \A h \in holds : h[1] = p /\ h[3] = "fd" /\ p \notin Foreign => h[2] \in Shown(p, "fd")
    BY DEF Holding, Handles, Shown
  <2>4. \A h \in holds : h[3] \in {"fd", "map"}
    BY DEF Holding, Handles
  <2>5. Scanning' /\ Holding' /\ HolderIsSeen'
    BY <2>1, <2>2 DEF Scanning, Holding, HolderIsSeen
  <2>6. Seeing'
    BY <2>1, <2>2, <2>3, <2>4 DEF Seeing, Ahead, Holding
  <2> QED
    BY <2>5, <2>6
<1>6. ASSUME NEW p \in Procs, ReadMaps(p) PROVE HolderIInv'
  <2>1. /\ scan' = [scan EXCEPT !.at = "fds", !.maps = {}, !.observed = @ \cup Shown(p, "map")]
        /\ scan.at = "maps" /\ p \in scan.maps /\ UNCHANGED <<holds, alive, heldOn>>
    BY <1>6 DEF ReadMaps, surveyWorld
  <2>2. /\ DOMAIN scan' = ScanFields /\ scan'.at = "fds" /\ scan'.pids = scan.pids /\ scan'.maps = {}
        /\ scan'.observed = scan.observed \cup Shown(p, "map") /\ scan'.verdict = "none" /\ scan'.control = scan.control
    BY <2>1 DEF Scanning, ScanFields
  <2>3. \A h \in holds : h[1] = p /\ h[3] = "map" /\ p \notin Foreign => h[2] \in Shown(p, "map")
    BY DEF Holding, Handles, Shown
  <2>5. Scanning' /\ Holding' /\ HolderIsSeen'
    BY <2>1, <2>2 DEF Scanning, Holding, HolderIsSeen
  <2>6. Seeing'
    BY <2>1, <2>2, <2>3 DEF Seeing, Ahead, Holding
  <2> QED
    BY <2>5, <2>6
<1>7. ASSUME Answer PROVE HolderIInv'
  <2>1. /\ scan' = [scan EXCEPT !.at = "done", !.verdict = Combine(scan.signals \cup {OpenHandleSignal})]
        /\ scan.at = "fds" /\ scan.pids = {} /\ UNCHANGED <<holds, alive, heldOn>>
    BY <1>7 DEF Answer, surveyWorld
  <2>2. /\ DOMAIN scan' = ScanFields /\ scan'.at = "done" /\ scan'.maps = scan.maps
        /\ scan'.verdict = Combine(scan.signals \cup {OpenHandleSignal})
    BY <2>1 DEF Scanning, ScanFields
  <2>3. scan'.verdict = "movable" => scan.control /\ scan.observed = {}
    BY <2>2 DEF Combine, OpenHandleSignal
  <2> QED
    BY <2>1, <2>2, <2>3 DEF Scanning, Holding, Seeing, Ahead, HolderIsSeen
<1> QED
  BY <1>1, <1>2, <1>3, <1>4, <1>5, <1>6, <1>7 DEF SurveyNext, SurveyStep

(* No tree is called movable over the head of a process of this user that    *)
(* held one of its files from the listing of the processes to the answer     *)
(* (_measure/_open_handles.py), whichever start, end, open and inherit       *)
(* meanwhile.                                                                *)
THEOREM HolderIsAlwaysSeen == SurveySpec => []HolderIsSeen
<1>1. HolderIInv => HolderIsSeen
  BY DEF HolderIInv
<1> QED
  BY <1>1, HolderInitIsGood, HolderStepKeepsIt, PTL DEF SurveySpec

(* Access times lag behind the reads by less than relatime lets them, for    *)
(* the files and for what was seen of them.                                  *)
Clocks ==
  /\ tick \in 0..MaxTick /\ scan.since \in 0..MaxTick
  /\ written \in [CorpusFiles -> 0..MaxTick] /\ readAt \in [CorpusFiles -> 0..MaxTick]
  /\ atime \in [CorpusFiles -> 0..MaxTick]
  /\ \A f \in CorpusFiles : readAt[f] - atime[f] < AtimeLag

Stats == {s \in [mtime : 0..MaxTick, atime : 0..MaxTick, used : 0..MaxTick] : s.used - s.atime < AtimeLag}
SeenFiles == DOMAIN scan.stats
Statted ==
  /\ SeenFiles \subseteq CorpusFiles
  /\ \A f \in SeenFiles : scan.stats[f] \in Stats

(* Unless something was missed, or the tree was not there, every file that a *)
(* listing shows is looked at, or is still to be.                            *)
Walked ==
  /\ scan.at \in {"begin", "list"} => SeenFiles = {}
  /\ scan.at = "stat" /\ ~scan.missed =>
       \/ scan.todo = {} /\ ~scan.deeper /\ SeenFiles = {}
       \/ /\ TreeFiles \subseteq scan.todo \cup SeenFiles
          /\ ~scan.deeper => NestedFiles \ unlisted \subseteq scan.todo \cup SeenFiles

LeftAlone(f) ==
  /\ f \in DOMAIN scan.stats
  /\ scan.since - scan.stats[f].mtime >= ColdAfter
  /\ scan.since - scan.stats[f].used > ColdAfter - AtimeLag

Judged ==
  scan.at \in {"pids", "fds", "maps"} /\ scan.signals \cap {"could-not-look", "not-movable"} = {} =>
    \A f \in CorpusFiles \ unlisted : LeftAlone(f)

ColdIInv == Scanning /\ Clocks /\ Statted /\ Walked /\ Judged /\ MovableIsCold

(* A set of times has a last one. *)
LEMMA NewestIsNewest ==
  ASSUME NEW times, NEW f \in DOMAIN times, \A g \in DOMAIN times : times[g] \in 0..MaxTick
  PROVE  Newest(times) \in 0..MaxTick /\ Newest(times) >= times[f]
<1> DEFINE all  == {times[g] : g \in DOMAIN times}
           left == {MaxTick - t : t \in all}
<1>0. MaxTick \in Nat /\ all \subseteq 0..MaxTick /\ times[f] \in all
  BY SurveyBounds
<1>1. left \subseteq Nat /\ left # {}
  BY <1>0
<1>3. PICK n \in left : \A m \in left : n <= m
  <2> HIDE DEF left
  <2> QED
    BY <1>1, LeastIsThere
<1>4. PICK t \in all : n = MaxTick - t
  OBVIOUS
<1>5. \A u \in all : t >= u
  <2> TAKE u \in all
  <2>1. n <= MaxTick - u
    BY <1>3
  <2> QED
    BY <2>1, <1>0, <1>4
<1>6. Max(all) \in all /\ \A u \in all : Max(all) >= u
  <2> HIDE DEF all
  <2> QED
    BY <1>4, <1>5 DEF Max
<1> QED
  BY <1>0, <1>6 DEF Newest

LEMMA ColdInitIsGood == SurveyInit => ColdIInv
<1> SUFFICES ASSUME SurveyInit PROVE ColdIInv
  OBVIOUS
<1>1. DOMAIN <<>> = {}
  OBVIOUS
<1>2. scan = NoScan /\ Scanning
  BY DEF SurveyInit, Scanning, NoScan, ScanFields
<1>3. Clocks
  BY <1>2, SurveyBounds, SurveyAssumption DEF SurveyInit, Clocks, NoScan
<1>4. SeenFiles = {}
  BY <1>1, <1>2 DEF SeenFiles, NoScan
<1> QED
  BY <1>2, <1>3, <1>4 DEF NoScan, ColdIInv, Statted, Walked, Judged, MovableIsCold

LEMMA DoingKeepsTime ==
  ASSUME Clocks, Doing \/ Tick
  PROVE  Clocks' /\ UNCHANGED <<scan, unlisted>>
<1> USE SurveyAssumption, SurveyBounds
<1>1. CASE Tick
  BY <1>1 DEF Tick, Clocks
<1>2. ASSUME NEW f \in CorpusFiles, Write(f) PROVE Clocks' /\ UNCHANGED <<scan, unlisted>>
  BY <1>2 DEF Write, Clocks
<1>3. ASSUME NEW f \in CorpusFiles, ReadFile(f) PROVE Clocks' /\ UNCHANGED <<scan, unlisted>>
  <2>1. /\ readAt' = [readAt EXCEPT ![f] = tick] /\ UNCHANGED <<tick, written, scan, unlisted>>
        /\ atime' = IF atime[f] <= written[f] \/ tick - atime[f] >= AtimeLag
                    THEN [atime EXCEPT ![f] = tick] ELSE atime
    BY <1>3 DEF ReadFile
  <2>2. CASE atime[f] <= written[f] \/ tick - atime[f] >= AtimeLag
    BY <2>1, <2>2 DEF Clocks
  <2>3. CASE ~(atime[f] <= written[f] \/ tick - atime[f] >= AtimeLag)
    BY <2>1, <2>3 DEF Clocks
  <2> QED
    BY <2>2, <2>3
<1>4. CASE UNCHANGED <<tick, written, readAt, atime, scan, unlisted>>
  BY <1>4 DEF Clocks
<1>5. ASSUME NEW fs \in {"tree", "nested"}, Attach(fs) \/ Detach(fs) PROVE UNCHANGED <<tick, written, readAt, atime, scan, unlisted>>
  BY <1>5 DEF Attach, Detach
<1>6. ASSUME NEW p \in Procs, Start(p) \/ End(p) PROVE UNCHANGED <<tick, written, readAt, atime, scan, unlisted>>
  BY <1>6 DEF Start, End
<1>7. ASSUME NEW p \in Procs, NEW f \in CorpusFiles, NEW how \in {"fd", "map"}, Hold(p, f, how)
      PROVE  UNCHANGED <<tick, written, readAt, atime, scan, unlisted>>
  BY <1>7 DEF Hold
<1> QED
  BY <1>1, <1>2, <1>3, <1>4, <1>5, <1>6, <1>7 DEF Doing

LEMMA ColdStepKeepsIt == ColdIInv /\ [SurveyNext]_surveyVars => ColdIInv'
<1> SUFFICES ASSUME ColdIInv, [SurveyNext]_surveyVars PROVE ColdIInv'
  OBVIOUS
<1> USE DEF ColdIInv
<1>1. CASE UNCHANGED surveyVars
  BY <1>1 DEF surveyVars, Scanning, Clocks, Statted, SeenFiles, Walked, Judged, LeftAlone, MovableIsCold
<1>2. ASSUME Doing \/ Tick PROVE ColdIInv'
  <2>1. Clocks' /\ UNCHANGED <<scan, unlisted>>
    BY <1>2, DoingKeepsTime
  <2> QED
    BY <2>1 DEF Scanning, Statted, SeenFiles, Walked, Judged, LeftAlone, MovableIsCold
<1>3. ASSUME Begin PROVE ColdIInv'
  <2>1. /\ DOMAIN scan' = ScanFields /\ scan'.since = tick /\ scan'.stats = scan.stats
        /\ scan.at = "begin" /\ UNCHANGED <<surveyWorld, unlisted>>
        /\ \/ scan'.at = "list" /\ scan'.verdict = "none"
           \/ scan'.at = "done" /\ scan'.verdict = "could-not-look"
    BY <1>3 DEF Begin, Scanning, ScanFields
  <2> QED
    BY <2>1 DEF surveyWorld, Scanning, Clocks, Statted, SeenFiles, Walked, Judged, MovableIsCold
<1>4. ASSUME ListTree PROVE ColdIInv'
  <2>0. /\ scan.at = "list" /\ UNCHANGED <<surveyWorld, unlisted>>
        /\ Miss \/ Lists(TreeFiles, TRUE) \/ Lists({}, FALSE)
    BY <1>4 DEF ListTree
  <2>1. /\ DOMAIN scan' = ScanFields /\ scan'.since = scan.since /\ scan'.stats = scan.stats
        /\ scan'.at = "stat" /\ scan'.verdict = "none"
    BY <2>0 DEF Miss, Lists, Scanning, ScanFields
  <2>2. \/ scan'.missed
        \/ scan'.todo = TreeFiles /\ scan'.deeper
        \/ scan'.todo = {} /\ ~scan'.deeper
    BY <2>0 DEF Miss, Lists, Scanning, ScanFields
  <2>3. SeenFiles' = {} /\ SeenFiles = {}
    BY <2>0, <2>1 DEF Walked, SeenFiles
  <2>4. Walked'
    BY <2>1, <2>2, <2>3 DEF Walked
  <2> QED
    BY <2>0, <2>1, <2>3, <2>4 DEF surveyWorld, Scanning, Clocks, Statted, Judged, MovableIsCold
<1>5. ASSUME NEW f \in CorpusFiles, StatFile(f) PROVE ColdIInv'
  <2>0. scan.at = "stat" /\ f \in scan.todo /\ UNCHANGED <<surveyWorld, unlisted>>
    BY <1>5 DEF StatFile
  <2>1. /\ DOMAIN scan' = ScanFields /\ scan'.since = scan.since /\ scan'.todo = scan.todo \ {f}
        /\ scan'.at = "stat" /\ scan'.verdict = "none" /\ scan'.deeper = scan.deeper
        /\ scan'.missed = (scan.missed \/ ~Mounted(f))
    BY <1>5 DEF StatFile, Scanning, ScanFields
  <2>2. CASE Mounted(f)
    <3>1. scan'.stats = [g \in DOMAIN scan.stats \cup {f} |->
                 IF g = f THEN [mtime |-> written[f], atime |-> atime[f], used |-> readAt[f]] ELSE scan.stats[g]]
      BY <1>5, <2>2 DEF StatFile, Scanning, ScanFields
    <3>2. [mtime |-> written[f], atime |-> atime[f], used |-> readAt[f]] \in Stats
      BY DEF Clocks, Stats
    <3>3. SeenFiles' = SeenFiles \cup {f} /\ Statted'
      BY <3>1, <3>2 DEF Statted, SeenFiles
    <3>4. Walked'
      BY <2>0, <2>1, <3>3 DEF Walked
    <3> QED
      BY <2>0, <2>1, <3>3, <3>4 DEF surveyWorld, Scanning, Clocks, Judged, MovableIsCold
  <2>3. CASE ~Mounted(f)
    <3>1. scan'.stats = scan.stats /\ scan'.missed
      BY <1>5, <2>1, <2>3 DEF StatFile, Scanning, ScanFields
    <3> QED
      BY <2>0, <2>1, <3>1 DEF surveyWorld, Scanning, Clocks, Statted, SeenFiles, Walked, Judged, MovableIsCold
  <2> QED
    BY <2>2, <2>3
<1>6. ASSUME ListNested PROVE ColdIInv'
  <2>0. /\ scan.at = "stat" /\ scan.todo = {} /\ scan.deeper /\ UNCHANGED surveyWorld
        /\ unlisted' = (IF "nested" \in attached THEN {} ELSE NestedFiles)
        /\ \/ Miss
           \/ "tree" \in attached /\ Lists({g \in NestedFiles : Mounted(g)}, FALSE)
    BY <1>6 DEF ListNested
  <2>1. /\ DOMAIN scan' = ScanFields /\ scan'.since = scan.since /\ scan'.stats = scan.stats
        /\ scan'.at = "stat" /\ scan'.verdict = "none"
    BY <2>0 DEF Miss, Lists, Scanning, ScanFields
  <2>2. \/ scan'.missed
        \/ "tree" \in attached /\ scan'.todo = {g \in NestedFiles : Mounted(g)} /\ scan'.missed = scan.missed
    BY <2>0 DEF Miss, Lists, Scanning, ScanFields
  <2>3. SeenFiles' = SeenFiles
    BY <2>1 DEF SeenFiles
  <2>4. "tree" \in attached => NestedFiles \ unlisted' \subseteq {g \in NestedFiles : Mounted(g)}
    BY <2>0 DEF Mounted
  <2>5. Walked'
    BY <2>0, <2>1, <2>2, <2>3, <2>4 DEF Walked
  <2> QED
    BY <2>0, <2>1, <2>3, <2>5 DEF surveyWorld, Scanning, Clocks, Statted, Judged, MovableIsCold
<1>7. ASSUME Probes PROVE ColdIInv'
  <2>0. PICK readability \in {"movable", "could-not-look"} :
          scan' = [scan EXCEPT !.at = "pids", !.signals = {readability, CoverageSignal, ColdnessSignal}]
    BY <1>7 DEF Probes
  <2>1. scan.at = "stat" /\ scan.todo = {} /\ ~scan.deeper /\ UNCHANGED <<surveyWorld, unlisted>>
    BY <1>7 DEF Probes
  <2>2. /\ DOMAIN scan' = ScanFields /\ scan'.since = scan.since /\ scan'.stats = scan.stats
        /\ scan'.at = "pids" /\ scan'.verdict = "none"
        /\ scan'.signals = {readability, CoverageSignal, ColdnessSignal}
    BY <2>0, <2>1 DEF Scanning, ScanFields
  <2>3. ASSUME scan'.signals \cap {"could-not-look", "not-movable"} = {}, NEW f \in CorpusFiles \ unlisted
        PROVE  LeftAlone(f)
    <3>1. CoverageSignal = "movable" /\ ColdnessSignal = "movable"
      BY <2>2, <2>3 DEF CoverageSignal, ColdnessSignal
    <3>2. ~scan.missed /\ SeenFiles # {} /\ f \in SeenFiles
      BY <2>1, <3>1 DEF CoverageSignal, SeenFiles, Walked, CorpusFiles
    <3>3. /\ Cold(Newest([g \in DOMAIN scan.stats |-> scan.stats[g].atime]))
          /\ Cold(Newest([g \in DOMAIN scan.stats |-> scan.stats[g].mtime]))
      BY <3>1 DEF ColdnessSignal
    <3>4. \A g \in DOMAIN scan.stats : scan.stats[g].atime \in 0..MaxTick /\ scan.stats[g].mtime \in 0..MaxTick
      BY DEF Statted, Stats, SeenFiles
    <3>5. /\ Newest([g \in DOMAIN scan.stats |-> scan.stats[g].atime]) \in 0..MaxTick
          /\ Newest([g \in DOMAIN scan.stats |-> scan.stats[g].atime]) >= scan.stats[f].atime
      BY <3>2, <3>4, NewestIsNewest DEF SeenFiles
    <3>6. /\ Newest([g \in DOMAIN scan.stats |-> scan.stats[g].mtime]) \in 0..MaxTick
          /\ Newest([g \in DOMAIN scan.stats |-> scan.stats[g].mtime]) >= scan.stats[f].mtime
      BY <3>2, <3>4, NewestIsNewest DEF SeenFiles
    <3>7. /\ scan.since \in Int /\ ColdAfter \in Int /\ AtimeLag \in Int
          /\ scan.stats[f].used \in Int /\ scan.stats[f].used - scan.stats[f].atime < AtimeLag
      BY <3>2, SurveyAssumption DEF Clocks, Statted, Stats, SeenFiles
    <3>8. scan.since - scan.stats[f].mtime >= ColdAfter
      BY <3>3, <3>4, <3>6, <3>7, <3>2 DEF Cold, SeenFiles
    <3>9. scan.since - scan.stats[f].used > ColdAfter - AtimeLag
      BY <3>3, <3>4, <3>5, <3>7, <3>2 DEF Cold, SeenFiles
    <3> QED
      BY <3>2, <3>8, <3>9 DEF LeftAlone, SeenFiles
  <2>4. Judged'
    BY <2>1, <2>2, <2>3 DEF Judged, LeftAlone
  <2> QED
    BY <2>1, <2>2, <2>4 DEF surveyWorld, Scanning, Clocks, Statted, SeenFiles, Walked, MovableIsCold
<1>8. ASSUME ListProcs \/ \E p \in Procs : ReadFds(p) \/ ReadMaps(p) PROVE ColdIInv'
  <2>1. /\ DOMAIN scan' = ScanFields /\ scan'.since = scan.since /\ scan'.stats = scan.stats
        /\ scan'.verdict = "none" /\ scan'.signals = scan.signals
        /\ scan.at \in {"pids", "fds", "maps"} /\ scan'.at \in {"fds", "maps"}
        /\ UNCHANGED <<surveyWorld, unlisted>>
    BY <1>8 DEF ListProcs, ReadFds, ReadMaps, Scanning, ScanFields
  <2> QED
    BY <2>1 DEF surveyWorld, Scanning, Clocks, Statted, SeenFiles, Walked, Judged, LeftAlone, MovableIsCold
<1>9. ASSUME Answer PROVE ColdIInv'
  <2>1. /\ DOMAIN scan' = ScanFields /\ scan'.since = scan.since /\ scan'.stats = scan.stats
        /\ scan'.verdict = Combine(scan.signals \cup {OpenHandleSignal})
        /\ scan.at = "fds" /\ scan'.at = "done" /\ UNCHANGED <<surveyWorld, unlisted>>
    BY <1>9 DEF Answer, Scanning, ScanFields
  <2>2. scan'.verdict = "movable" => scan.signals \cap {"could-not-look", "not-movable"} = {}
    BY <2>1 DEF Combine
  <2> QED
    BY <2>1, <2>2 DEF surveyWorld, Scanning, Clocks, Statted, SeenFiles, Walked, Judged, LeftAlone, MovableIsCold
<1> QED
  BY <1>1, <1>2, <1>3, <1>4, <1>5, <1>6, <1>7, <1>8, <1>9 DEF SurveyNext, SurveyStep

(* No tree is called movable unless each of its files that the walk could    *)
(* come to was left alone for the threshold, but for reads that relatime     *)
(* hides (_measure/_survey.py:94).                                           *)
THEOREM MovableIsAlwaysCold == SurveySpec => []MovableIsCold
<1>1. ColdIInv => MovableIsCold
  BY DEF ColdIInv
<1> QED
  BY <1>1, ColdInitIsGood, ColdStepKeepsIt, PTL DEF SurveySpec

-----------------------------------------------------------------------------
(* Of the types, what the steps need. *)
WalkFields == {"at", "child", "listed", "count", "newest", "measured", "now", "offers", "fresh"}
Planned ==
  /\ DOMAIN walk = WalkFields
  /\ clock \in Nat /\ is \in [Nodes -> NodeKinds] /\ mtime \in [Nodes -> Nat]
  /\ dirTime \in [1..Children -> Nat]
  /\ walk.child \in 1..Children + 1 /\ walk.newest \in Int /\ walk.newest >= -1
  /\ walk.listed \subseteq Inside(walk.child)
  /\ \A c \in 1..walk.child - 1 : walk.measured[c].newest \in Int
  /\ walk.at \in {"start", "files", "stat", "readlink"} => walk.child \in 1..Children
  /\ walk.at = "plan" => walk.child = Children + 1
  /\ walk.at # "answered" => walk.offers = {}

(* What is vouched for is no younger than the walk has found, or still to be *)
(* looked at; symlinks are searched for after the files.                     *)
Vouched(n) == is[n] \in {"file", "link"} /\ n \notin stirred \cup blind
Passed ==
  \A c \in 1..walk.child - 1 : \A n \in Inside(c) : Vouched(n) => mtime[n] <= walk.measured[c].newest
Passing ==
  \A n \in Inside(walk.child) :
    Vouched(n) /\ (walk.at = "readlink" \/ (walk.at = "stat" /\ is[n] = "file")) =>
      n \in walk.listed \/ mtime[n] <= walk.newest

PlanIInv == Planned /\ Passed /\ Passing /\ OfferedIsLeftAlone

LEMMA PlanInitIsGood == PlanInit => PlanIInv
<1> SUFFICES ASSUME PlanInit PROVE PlanIInv
  OBVIOUS
<1>1. walk = NoWalk
  BY DEF PlanInit
<1>2. Planned
  BY <1>1, PlanSweepAssumption DEF PlanInit, Planned, NoWalk, WalkFields
<1>3. Passed /\ Passing /\ OfferedIsLeftAlone
  BY <1>1 DEF Passed, Passing, OfferedIsLeftAlone, NoWalk
<1> QED
  BY <1>2, <1>3 DEF PlanIInv

LEMMA PlanStepKeepsIt == PlanIInv /\ [PlanNext]_planVars => PlanIInv'
<1> SUFFICES ASSUME PlanIInv, [PlanNext]_planVars PROVE PlanIInv'
  OBVIOUS
<1> USE DEF PlanIInv
<1>0. Children \in Nat \ {0} /\ ChildOf \in [Nodes -> 1..Children] /\ MinAge \in Nat
  BY PlanSweepAssumption
<1>1. CASE UNCHANGED planVars
  BY <1>1 DEF planVars, Planned, Passed, Passing, OfferedIsLeftAlone, Vouched
<1>2. ASSUME ClockTicks, walk.at # "answered" PROVE PlanIInv'
  <2>1. UNCHANGED <<is, mtime, dirTime, walk, stirred, blind>> /\ clock' = clock + 1
    BY <1>2 DEF ClockTicks
  <2> QED
    BY <1>2, <2>1 DEF Planned, Passed, Passing, OfferedIsLeftAlone, Vouched
<1>3. ASSUME NEW n \in Nodes, NEW kind \in NodeKinds, Stir(n, kind), walk.at # "answered" PROVE PlanIInv'
  <2>1. /\ UNCHANGED <<clock, walk, blind>> /\ stirred' = stirred \cup {n}
        /\ is' = [is EXCEPT ![n] = kind] /\ mtime' = [mtime EXCEPT ![n] = clock]
    BY <1>3 DEF Stir
  <2>2. dirTime' \in [1..Children -> Nat]
    BY <1>0, <1>3 DEF Stir, Planned
  <2>3. Planned'
    <3>1. is' \in [Nodes -> NodeKinds] /\ mtime' \in [Nodes -> Nat]
      BY <2>1 DEF Planned
    <3> QED
      BY <1>3, <2>1, <2>2, <3>1 DEF Planned, Inside
  <2>4. \A m \in Nodes : Vouched(m)' => Vouched(m) /\ mtime'[m] = mtime[m] /\ is'[m] = is[m]
    BY <2>1 DEF Vouched, Planned
  <2>5. Passed' /\ Passing'
    BY <2>1, <2>4 DEF Passed, Passing, Inside
  <2>6. OfferedIsLeftAlone'
    BY <1>3, <2>1 DEF Planned, OfferedIsLeftAlone
  <2> QED
    BY <2>3, <2>5, <2>6
<1>4. ASSUME StartWalk \/ WalkFails PROVE PlanIInv'
  <2>1. PICK at \in {"files", "failed"} : walk' = [walk EXCEPT !.at = at]
    BY <1>4 DEF StartWalk, WalkFails
  <2>2. UNCHANGED <<clock, is, mtime, dirTime, stirred, blind>> /\ walk.at \in {"start", "files", "stat"}
    BY <1>4 DEF StartWalk, WalkFails
  <2>3. /\ DOMAIN walk' = WalkFields /\ walk'.at \in {"files", "failed"} /\ walk'.child = walk.child
        /\ walk'.listed = walk.listed /\ walk'.newest = walk.newest /\ walk'.measured = walk.measured
        /\ walk'.offers = walk.offers
    BY <2>1 DEF Planned, WalkFields
  <2> QED
    BY <2>2, <2>3 DEF Planned, Passed, Passing, OfferedIsLeftAlone, Vouched
<1>5. ASSUME SearchFiles PROVE PlanIInv'
  <2> DEFINE there == {n \in Inside(walk.child) : is[n] = "file"}
  <2>1. PICK unreadable \in {{}, DeepNodes} :
          /\ walk' = [walk EXCEPT !.at = "stat", !.listed = there \ unreadable]
          /\ blind' = blind \cup (there \cap unreadable)
    BY <1>5 DEF SearchFiles, Search
  <2>2. UNCHANGED <<clock, is, mtime, dirTime>> /\ stirred' = stirred \ Inside(walk.child) /\ walk.at = "files"
    BY <1>5 DEF SearchFiles
  <2>3. /\ DOMAIN walk' = WalkFields /\ walk'.at = "stat" /\ walk'.child = walk.child
        /\ walk'.listed = there \ unreadable /\ walk'.newest = walk.newest /\ walk'.measured = walk.measured
        /\ walk'.offers = walk.offers
    BY <2>1 DEF Planned, WalkFields
  <2>4. Planned' /\ OfferedIsLeftAlone'
    BY <2>2, <2>3 DEF Planned, OfferedIsLeftAlone
  <2>5. Passing'
    BY <2>1, <2>2, <2>3 DEF Passing, Vouched, Inside
  <2>6. Passed'
    <3> SUFFICES ASSUME NEW c \in 1..walk.child - 1, NEW n \in Inside(c), Vouched(n)'
                 PROVE  mtime[n] <= walk.measured[c].newest
      BY <2>2, <2>3 DEF Passed
    <3>1. n \notin Inside(walk.child)
      BY DEF Inside, Planned
    <3>2. Vouched(n)
      BY <2>1, <2>2, <3>1 DEF Vouched
    <3> QED
      BY <3>2 DEF Passed
  <2> QED
    BY <2>4, <2>5, <2>6
<1>6. ASSUME SearchLinks PROVE PlanIInv'
  <2> DEFINE there == {n \in Inside(walk.child) : is[n] \in {"link", "dirlink"}}
  <2>1. PICK unreadable \in {{}, DeepNodes} :
          /\ walk' = [walk EXCEPT !.at = "readlink", !.listed = there \ unreadable]
          /\ blind' = blind \cup (there \cap unreadable)
    BY <1>6 DEF SearchLinks, Search
  <2>2. UNCHANGED <<clock, is, mtime, dirTime, stirred>> /\ walk.at = "stat" /\ walk.listed = {}
    BY <1>6 DEF SearchLinks
  <2>3. /\ DOMAIN walk' = WalkFields /\ walk'.at = "readlink" /\ walk'.child = walk.child
        /\ walk'.listed = there \ unreadable /\ walk'.newest = walk.newest /\ walk'.measured = walk.measured
        /\ walk'.offers = walk.offers
    BY <2>1 DEF Planned, WalkFields
  <2>4. Planned' /\ OfferedIsLeftAlone'
    BY <2>2, <2>3 DEF Planned, OfferedIsLeftAlone
  <2>5. \A n \in Nodes : Vouched(n)' => Vouched(n)
    BY <2>1, <2>2 DEF Vouched
  <2>6. Passed'
    BY <2>2, <2>3, <2>5 DEF Passed, Inside
  <2>7. Passing'
    <3> SUFFICES ASSUME NEW n \in Inside(walk.child), Vouched(n)', n \notin there \ unreadable
                 PROVE  mtime[n] <= walk.newest
      BY <2>2, <2>3 DEF Passing
    <3>1. is[n] = "file"
      BY <2>1, <2>2 DEF Vouched
    <3> QED
      BY <2>2, <2>5, <3>1 DEF Passing, Inside
  <2> QED
    BY <2>4, <2>6, <2>7
<1>7. ASSUME NEW n \in Nodes, StatNode(n) PROVE PlanIInv'
  <2>1. /\ UNCHANGED <<clock, is, mtime, dirTime, blind>> /\ stirred' = stirred \ {n}
        /\ walk.at \in {"stat", "readlink"} /\ n \in walk.listed
    BY <1>7 DEF StatNode
  <2>2. /\ DOMAIN walk' = WalkFields /\ walk'.at = walk.at /\ walk'.child = walk.child
        /\ walk'.listed = walk.listed \ {n} /\ walk'.measured = walk.measured /\ walk'.offers = walk.offers
    BY <1>7 DEF StatNode, Seen1, Skipped, Planned, WalkFields
  <2>3. \/ walk'.newest = (IF mtime[n] > walk.newest THEN mtime[n] ELSE walk.newest)
        \/ /\ walk'.newest = walk.newest
           /\ is[n] = "gone" \/ (walk.at = "readlink" /\ is[n] = "dirlink")
    BY <1>7 DEF StatNode, Seen1, Skipped, Planned, WalkFields
  <2>4. /\ walk'.newest \in Int /\ walk'.newest >= -1 /\ walk'.newest >= walk.newest
        /\ is[n] \in {"file", "link"} => mtime[n] <= walk'.newest
    <3> mtime[n] \in Nat /\ walk.newest \in Int /\ walk.newest >= -1
      BY DEF Planned
    <3> QED
      BY <2>3
  <2>5. Planned' /\ OfferedIsLeftAlone'
    BY <2>1, <2>2, <2>4 DEF Planned, OfferedIsLeftAlone
  <2>6. \A m \in Nodes \ {n} : Vouched(m)' => Vouched(m)
    BY <2>1 DEF Vouched
  <2>7. Passed'
    <3> SUFFICES ASSUME NEW c \in 1..walk.child - 1, NEW m \in Inside(c), Vouched(m)'
                 PROVE  mtime[m] <= walk.measured[c].newest
      BY <2>1, <2>2 DEF Passed
    <3>1. m # n /\ m \in Nodes
      BY <2>1 DEF Inside, Planned
    <3> QED
      BY <2>6, <3>1 DEF Passed
  <2>8. Passing'
    <3> SUFFICES ASSUME NEW m \in Inside(walk.child), Vouched(m)', m \notin walk.listed \ {n},
                        walk.at = "readlink" \/ (walk.at = "stat" /\ is[m] = "file")
                 PROVE  mtime[m] <= walk'.newest
      BY <2>1, <2>2 DEF Passing
    <3>0. m \in Nodes /\ mtime[m] \in Nat /\ walk.newest \in Int
      BY DEF Inside, Planned
    <3>1. CASE m = n
      BY <2>1, <2>4, <3>1 DEF Vouched
    <3>2. CASE m # n
      <4>1. mtime[m] <= walk.newest
        BY <2>6, <3>0, <3>2 DEF Passing
      <4> QED
        BY <2>4, <3>0, <4>1
    <3> QED
      BY <3>1, <3>2
  <2> QED
    BY <2>5, <2>7, <2>8
<1>8. ASSUME MeasuredChild PROVE PlanIInv'
  <2> DEFINE here == walk.child
             time == IF walk.newest = -1 THEN dirTime[here] ELSE walk.newest
  <2>1. UNCHANGED <<clock, is, mtime, dirTime, stirred, blind>> /\ walk.at = "readlink" /\ walk.listed = {}
    BY <1>8 DEF MeasuredChild
  <2>2. here \in 1..Children /\ time \in Int
    BY <2>1 DEF Planned
  <2>3. /\ DOMAIN walk' = WalkFields
        /\ walk'.at = (IF here = Children THEN "plan" ELSE "files")
        /\ walk'.child = here + 1 /\ walk'.newest = -1 /\ walk'.offers = walk.offers /\ walk'.listed = {}
        /\ walk'.measured = [c \in 1..here |->
             IF c # here THEN walk.measured[c]
             ELSE [files |-> walk.count, newest |-> IF walk.newest = -1 THEN dirTime[c] ELSE walk.newest]]
    BY <1>8, <2>1 DEF MeasuredChild, Planned, WalkFields
  <2>4. \A c \in 1..here : walk'.measured[c].newest = IF c = here THEN time ELSE walk.measured[c].newest
    BY <2>3
  <2>5. walk'.child \in 1..Children + 1 /\ 1..walk'.child - 1 = 1..here
    BY <1>0, <2>2, <2>3
  <2> HIDE DEF here, time
  <2>6. \A c \in 1..here : c = here \/ c \in 1..walk.child - 1
    BY <2>2 DEF here
  <2>7. Planned'
    <3>1. \A c \in 1..walk'.child - 1 : walk'.measured[c].newest \in Int
      BY <2>2, <2>4, <2>5, <2>6 DEF Planned
    <3>2. /\ walk'.at \in {"start", "files", "stat", "readlink"} => walk'.child \in 1..Children
          /\ walk'.at = "plan" => walk'.child = Children + 1
      BY <1>0, <2>2, <2>3
    <3> QED
      BY <2>1, <2>3, <2>5, <3>1, <3>2 DEF Planned
  <2>8. Passed'
    <3> SUFFICES ASSUME NEW c \in 1..here, NEW n \in Inside(c), Vouched(n)
                 PROVE  mtime[n] <= walk'.measured[c].newest
      BY <2>1, <2>5 DEF Passed, Vouched
    <3>1. CASE c = here
      <4>1. mtime[n] <= walk.newest /\ mtime[n] \in Nat
        BY <2>1, <3>1 DEF Passing, Planned, Inside, here
      <4>2. time = walk.newest
        BY <4>1 DEF time, Planned
      <4> QED
        BY <2>4, <3>1, <4>1, <4>2
    <3>2. CASE c # here
      BY <2>4, <2>6, <3>2 DEF Passed
    <3> QED
      BY <3>1, <3>2
  <2>9. Passing' /\ OfferedIsLeftAlone'
    BY <2>1, <2>3 DEF Passing, OfferedIsLeftAlone, Planned
  <2> QED
    BY <2>7, <2>8, <2>9
<1>9. ASSUME MakePlan PROVE PlanIInv'
  <2>1. /\ UNCHANGED <<clock, is, mtime, dirTime, stirred, blind>> /\ walk.at = "plan"
        /\ walk'.now = clock /\ walk'.at = "answered" /\ DOMAIN walk' = WalkFields /\ walk'.child = walk.child
        /\ walk'.listed = walk.listed /\ walk'.newest = walk.newest /\ walk'.measured = walk.measured
        /\ \A c \in walk'.offers : c \in 1..Children /\ clock - walk.measured[c].newest >= MinAge
    BY <1>9 DEF MakePlan, Planned, WalkFields
  <2>2. Planned' /\ Passed' /\ Passing'
    BY <2>1 DEF Planned, Passed, Passing, Vouched
  <2>3. OfferedIsLeftAlone'
    <3> SUFFICES ASSUME NEW c \in walk'.offers, NEW n \in Inside(c), Vouched(n)
                 PROVE  clock - mtime[n] >= MinAge
      BY <2>1 DEF OfferedIsLeftAlone, Vouched
    <3>1. c \in 1..walk.child - 1 /\ clock - walk.measured[c].newest >= MinAge
      BY <1>0, <2>1 DEF Planned
    <3>2. mtime[n] <= walk.measured[c].newest
      BY <3>1 DEF Passed
    <3>3. mtime[n] \in Nat /\ walk.measured[c].newest \in Int /\ clock \in Nat
      BY <3>1 DEF Planned, Inside
    <3> QED
      BY <1>0, <3>1, <3>2, <3>3
  <2> QED
    BY <2>2, <2>3
<1> QED
  BY <1>1, <1>2, <1>3, <1>4, <1>5, <1>6, <1>7, <1>8, <1>9 DEF PlanNext

(* Whatever is written and removed while plan_sweep walks, it offers a       *)
(* directory only if everything it can vouch for was left alone for the      *)
(* minimum age (_transfer/_sweep.py:27).                                     *)
THEOREM OfferedIsAlwaysLeftAlone == PlanSpec => []OfferedIsLeftAlone
<1>1. PlanIInv => OfferedIsLeftAlone
  BY DEF PlanIInv
<1> QED
  BY <1>1, PlanInitIsGood, PlanStepKeepsIt, PTL DEF PlanSpec

(***************************************************************************)
(* find-duplicates                                                         *)
(***************************************************************************)

(* The least of some naturals is one of them. *)
LEMMA MinIsIn ==
  ASSUME NEW S \in SUBSET Nat, S # {}
  PROVE  Min(S) \in S /\ \A n \in S : Min(S) <= n
<1>1. \E n \in S : \A m \in S : n <= m
  BY LeastIsThere
<1> QED
  BY <1>1 DEF Min

LEMMA OwnersAreFound ==
  ASSUME NEW f \in Found
  PROVE  /\ Under[f] \subseteq Tops /\ Owner(f) \in Under[f]
         /\ Cardinality(Under[f]) \in Nat /\ Cardinality(Under[f]) >= 1
<1>0. Under \in [Found -> (SUBSET Tops) \ {{}}] /\ Tops \subseteq Nat
  BY DuplicatesAssumption
<1>1. Under[f] \in SUBSET Nat /\ Under[f] # {} /\ Under[f] \subseteq Tops
  <2>1. Under[f] \in (SUBSET Tops) \ {{}}
    BY <1>0
  <2>2. Under[f] \subseteq Tops /\ Under[f] # {}
    BY <2>1
  <2> QED
    BY <1>0, <2>2
<1>2. IsFiniteSet(Under[f])
  BY <1>1, DuplicatesAssumption, FS_Subset
<1>3. Cardinality(Under[f]) \in Nat /\ Cardinality(Under[f]) # 0
  BY <1>1, <1>2, FS_CardinalityType, FS_EmptySet
<1> QED
  BY <1>1, <1>3, MinIsIn DEF Owner

(* Of the types, what the steps need. *)
PartialTo(T) == UNION {[D -> T] : D \in SUBSET Found}
LengthMaps   == UNION {[D -> SUBSET Nat] : D \in SUBSET (SUBSET Found)}
Known1       == {{}} \cup {{n} : n \in Nat}
Searches ==
  [at : {"start", "stat", "read", "size", "answered"}, left : SUBSET Found,
   sizes : PartialTo(Nat), stake : Known1, read : PartialTo(Texts),
   groups : SUBSET (SUBSET Found), lengths : LengthMaps,
   signal : {"movable", "could-not-look", "none"}]

SearchShaped ==
  /\ text \in [Found -> Texts \cup {Missing}] /\ rewrites \in 0..MaxRewrites
  /\ search \in Searches /\ altered \in [{"stat", "read"} -> SUBSET Found]

LEMMA PartialMeans ==
  ASSUME NEW T, NEW r
  PROVE  r \in PartialTo(T) <=> r \in [DOMAIN r -> T] /\ DOMAIN r \in SUBSET Found
  BY DEF PartialTo

LEMMA PartialGrows ==
  ASSUME NEW T, NEW r \in PartialTo(T), NEW f \in Found, NEW D \in SUBSET {f}, NEW v,
         f \in DOMAIN r \cup D => v \in T
  PROVE  [g \in DOMAIN r \cup D |-> IF g = f THEN v ELSE r[g]] \in PartialTo(T)
<1> DEFINE grown == [g \in DOMAIN r \cup D |-> IF g = f THEN v ELSE r[g]]
<1>1. r \in [DOMAIN r -> T] /\ DOMAIN r \in SUBSET Found
  BY PartialMeans
<1>2. DOMAIN grown = DOMAIN r \cup D /\ DOMAIN grown \in SUBSET Found
  BY <1>1
<1>3. \A g \in DOMAIN grown : grown[g] \in T
  BY <1>1
<1>4. grown \in [DOMAIN grown -> T]
  BY <1>2, <1>3
<1> HIDE DEF grown
<1>5. grown \in PartialTo(T)
  BY <1>2, <1>4, PartialMeans
<1> QED
  BY <1>5 DEF grown

(* What the first stage holds of each size. *)
FilesOf(size) == {f \in DOMAIN search.sizes : search.sizes[f] = size}
Weight == [f \in Found |-> Cardinality(Under[f])]

LEMMA ListingsMean ==
  ASSUME SearchShaped, NEW size
  PROVE  /\ FilesOf(size) \in SUBSET Found /\ IsFiniteSet(FilesOf(size))
         /\ Listings(size) = SumFunctionOnSet(Weight, FilesOf(size))
         /\ Listings(size) \in Nat
         /\ Cardinality(FilesOf(size)) <= Listings(size)
<1>1. search.sizes \in PartialTo(Nat)
  BY DEF SearchShaped, Searches
<1>2. FilesOf(size) \in SUBSET Found
  BY <1>1, PartialMeans DEF FilesOf
<1>3. IsFiniteSet(FilesOf(size)) /\ Cardinality(FilesOf(size)) \in Nat
  BY <1>2, DuplicatesAssumption, FS_Subset, FS_CardinalityType
<1> DEFINE terms == [f \in FilesOf(size) |-> Cardinality(Under[f])]
           ones == [f \in FilesOf(size) |-> 1]
<1>4. \A f \in FilesOf(size) : Weight[f] \in Nat /\ terms[f] = Weight[f] /\ ones[f] = 1 /\ 1 <= Weight[f]
  BY <1>2, OwnersAreFound DEF Weight
<1>5. DOMAIN terms = FilesOf(size)
  OBVIOUS
<1>6. Listings(size) = SumFunction(terms)
  BY DEF Listings, FilesOf
<1> HIDE DEF terms, ones
<1>7. SumFunctionOnSet(terms, FilesOf(size)) = SumFunctionOnSet(Weight, FilesOf(size))
  BY <1>3, <1>4, SumSame
<1>8. SumFunctionOnSet(Weight, FilesOf(size)) \in Nat
  BY <1>3, <1>4, SumIsNat
<1>9. SumFunctionOnSet(ones, FilesOf(size)) = Cardinality(FilesOf(size)) * 1
  BY <1>3, <1>4, SumOfEqual
<1>10. SumFunctionOnSet(ones, FilesOf(size)) <= SumFunctionOnSet(Weight, FilesOf(size))
  <2>1. \A f \in FilesOf(size) : ones[f] \in Nat /\ Weight[f] \in Nat /\ ones[f] <= Weight[f]
    BY <1>4
  <2> QED
    BY <1>3, <2>1, SumAtMost
<1>11. SumFunction(terms) = SumFunctionOnSet(terms, FilesOf(size))
  BY <1>5 DEF SumFunction
<1> QED
  BY <1>2, <1>3, <1>6, <1>7, <1>8, <1>9, <1>10, <1>11

LEMMA SharedMeans ==
  ASSUME SearchShaped
  PROVE  /\ SharedSizes \in SUBSET Nat /\ IsFiniteSet(SharedSizes)
         /\ \A s \in SharedSizes : Listings(s) \in Nat /\ Listings(s) >= 2
<1>1. search.sizes \in PartialTo(Nat)
  BY DEF SearchShaped, Searches
<1>2. search.sizes \in [DOMAIN search.sizes -> Nat] /\ DOMAIN search.sizes \in SUBSET Found
  BY <1>1, PartialMeans
<1>3. IsFiniteSet(DOMAIN search.sizes)
  BY <1>2, DuplicatesAssumption, FS_Subset
<1> DEFINE all == {search.sizes[f] : f \in DOMAIN search.sizes}
<1>4. IsFiniteSet(all) /\ all \in SUBSET Nat
  BY <1>2, <1>3, ImageIsFinite
<1>5. SharedSizes \in SUBSET all
  BY DEF SharedSizes
<1>6. \A s \in SharedSizes : Listings(s) \in Nat /\ Listings(s) >= 2
  BY ListingsMean DEF SharedSizes
<1> HIDE DEF all
<1> QED
  BY <1>4, <1>5, <1>6, FS_Subset

(* What the first stage finds at stake, as a number. *)
AtStake == SumFunctionOnSet([s \in SharedSizes |-> (Listings(s) - 1) * s], SharedSizes)

LEMMA StakeMeans ==
  ASSUME SearchShaped
  PROVE  /\ AtStake \in Nat
         /\ SharedSizes # {} => CandidateBytes = {AtStake}
         /\ SharedSizes = {} => CandidateBytes = {}
<1> DEFINE terms == [s \in SharedSizes |-> (Listings(s) - 1) * s]
<1>1. DOMAIN terms = SharedSizes
  OBVIOUS
<1>2. \A s \in SharedSizes : terms[s] \in Nat
  <2> SUFFICES ASSUME NEW s \in SharedSizes PROVE terms[s] \in Nat
    OBVIOUS
  <2>1. s \in Nat /\ Listings(s) - 1 \in Nat
    BY SharedMeans
  <2>2. (Listings(s) - 1) * s \in Nat
    BY <2>1
  <2> QED
    BY <2>2
<1>3. AtStake = SumFunctionOnSet(terms, SharedSizes)
  BY DEF AtStake
<1>4. CandidateBytes = IF SharedSizes = {} THEN {} ELSE {SumFunction(terms)}
  BY DEF CandidateBytes, Unknown1
<1> HIDE DEF terms
<1>5. SumFunctionOnSet(terms, SharedSizes) \in Nat
  BY <1>2, SharedMeans, SumIsNat
<1>6. SumFunction(terms) = SumFunctionOnSet(terms, SharedSizes)
  BY <1>1 DEF SumFunction
<1> QED
  BY <1>3, <1>4, <1>5, <1>6

(* What the first stage knows. *)
Stated ==
  /\ search.at = "start" => DOMAIN search.sizes = {}
  /\ search.at = "stat" => search.left \cap DOMAIN search.sizes = {}
  /\ search.at = "stat" => Present \ altered["stat"] \subseteq DOMAIN search.sizes \cup search.left
  /\ search.at \in {"read", "size", "answered"} =>
       /\ Present \ altered["stat"] \subseteq DOMAIN search.sizes
       /\ search.stake = CandidateBytes
       /\ altered["read"] \subseteq altered["stat"]
  /\ \A f \in DOMAIN search.sizes \ altered["stat"] :
       text[f] # Missing /\ search.sizes[f] = SizeOf[text[f]]

(* What the second stage knows. *)
WasRead ==
  /\ search.at \in {"start", "stat"} => DOMAIN search.read = {}
  /\ search.at = "read" => search.left \cap DOMAIN search.read = {}
  /\ search.at = "read" => Present \ altered["read"] \subseteq DOMAIN search.read \cup search.left
  /\ search.at \in {"size", "answered"} => Present \ altered["read"] \subseteq DOMAIN search.read
  /\ \A f \in DOMAIN search.read \ altered["read"] : text[f] = search.read[f]

(* And what the groups are. *)
EqualFiles == {g \in {SameText(t) : t \in Texts} : Cardinality(g) >= 2}
Grouped ==
  /\ search.at \in {"start", "stat", "read"} => search.groups = {}
  /\ search.at = "size" \/ search.signal = "movable" \/ search.groups # {} => search.groups = EqualFiles
  /\ Finished => DOMAIN search.lengths = search.groups
  /\ DOMAIN search.lengths \subseteq search.groups
  /\ search.signal # "none" <=> search.at = "answered"

(* The files that nobody altered have the length that was found. *)
Measured2 == \A g \in DOMAIN search.lengths :
  g \cap altered["read"] = {} => search.lengths[g] = {SizeOf[text[Min(g)]]}

FindIInv == SearchShaped /\ Stated /\ WasRead /\ Grouped /\ Measured2

(* A group is some two files that are read and not in another group. *)
LEMMA GroupsMean ==
  ASSUME SearchShaped, Grouped
  PROVE  /\ IsFiniteSet(search.groups)
         /\ \A g \in search.groups :
              /\ g \in SUBSET Found /\ g \in SUBSET Nat /\ g # {} /\ IsFiniteSet(g)
              /\ Cardinality(g) \in Nat /\ Cardinality(g) >= 2
              /\ Min(g) \in g
              /\ g \subseteq DOMAIN search.read
              /\ \A f, h \in g : search.read[f] = search.read[h] /\ search.read[f] \in Texts
         /\ \A g, h \in search.groups : g # h => g \cap h = {}
<1>1. search.read \in [DOMAIN search.read -> Texts] /\ DOMAIN search.read \in SUBSET Found
  BY PartialMeans DEF SearchShaped, Searches
<1>2. search.groups \subseteq EqualFiles /\ search.groups \in SUBSET (SUBSET Found)
  BY DEF Grouped, SearchShaped, Searches
<1>3. IsFiniteSet(search.groups)
  <2>1. IsFiniteSet(SUBSET Found)
    BY DuplicatesAssumption, FS_SUBSET
  <2> QED
    BY <1>2, <2>1, FS_Subset
<1>4. ASSUME NEW g \in search.groups
      PROVE  /\ g \in SUBSET Found /\ g \in SUBSET Nat /\ g # {} /\ IsFiniteSet(g)
             /\ Cardinality(g) \in Nat /\ Cardinality(g) >= 2
             /\ Min(g) \in g
             /\ g \subseteq DOMAIN search.read
             /\ \A f, h \in g : search.read[f] = search.read[h] /\ search.read[f] \in Texts
  <2>1. g \in SUBSET Found /\ Found \in SUBSET Nat /\ IsFiniteSet(Found)
    BY <1>2, DuplicatesAssumption
  <2>2. PICK t \in Texts : g = SameText(t)
    BY <1>2 DEF EqualFiles
  <2>3. Cardinality(g) >= 2
    BY <1>2 DEF EqualFiles
  <2>4. IsFiniteSet(g) /\ Cardinality(g) \in Nat /\ g # {}
    <3>1. IsFiniteSet(g)
      BY <2>1, FS_Subset
    <3>2. Cardinality(g) \in Nat
      BY <3>1, FS_CardinalityType
    <3>3. g # {}
      BY <2>3, FS_EmptySet
    <3> QED
      BY <3>1, <3>2, <3>3
  <2>5. Min(g) \in g
    BY <2>1, <2>4, MinIsIn
  <2>6. g \subseteq DOMAIN search.read /\ \A f \in g : search.read[f] = t
    BY <2>2 DEF SameText
  <2> QED
    BY <2>1, <2>3, <2>4, <2>5, <2>6
<1>5. ASSUME NEW g \in search.groups, NEW h \in search.groups, NEW f \in g \cap h PROVE g = h
  <2>1. PICK t \in Texts : g = SameText(t)
    BY <1>2 DEF EqualFiles
  <2>2. PICK u \in Texts : h = SameText(u)
    BY <1>2 DEF EqualFiles
  <2>3. search.read[f] = t /\ search.read[f] = u
    BY <2>1, <2>2, <1>5 DEF SameText
  <2> QED
    BY <2>1, <2>2, <2>3
<1> QED
  BY <1>3, <1>4, <1>5

(* The files of a group that nobody altered still hold what was read. *)
LEMMA CalmMeans ==
  ASSUME FindIInv, NEW g \in search.groups, g \cap altered["read"] = {}
  PROVE  /\ \A f \in g : /\ text[f] = text[Min(g)] /\ text[f] \in Texts /\ text[f] # Missing
                         /\ SizeOf[text[f]] \in Nat
         /\ g \in SUBSET Present /\ g \in SUBSET Found /\ g # {} /\ Min(g) \in g
<1> USE DEF FindIInv
<1>1. \A f \in g : text[f] = search.read[f]
  BY GroupsMean DEF WasRead
<1>2. \A f \in g : text[f] = text[Min(g)] /\ text[f] \in Texts
  BY <1>1, GroupsMean
<1>3. Missing \notin Texts /\ \A t \in Texts : SizeOf[t] \in Nat
  <2>1. \A t \in Texts : SizeOf[t] \in Nat \ {0}
    BY DuplicatesAssumption
  <2> QED
    BY <2>1, DuplicatesAssumption
<1>4. g \in SUBSET Found /\ g # {} /\ Min(g) \in g
  BY GroupsMean
<1> QED
  BY <1>2, <1>3, <1>4 DEF Present

LEMMA FindInit == DuplicateInit => FindIInv
<1> SUFFICES ASSUME DuplicateInit PROVE FindIInv
  OBVIOUS
<1>1. \A T : <<>> \in PartialTo(T)
  <2> SUFFICES ASSUME NEW T PROVE <<>> \in PartialTo(T)
    OBVIOUS
  <2>1. <<>> \in [{} -> T]
    OBVIOUS
  <2> QED
    BY <2>1 DEF PartialTo
<1>2. <<>> \in LengthMaps
  <2>1. <<>> \in [{} -> SUBSET Nat]
    OBVIOUS
  <2> QED
    BY <2>1 DEF LengthMaps
<1>3. DOMAIN <<>> = {}
  OBVIOUS
<1>4. SearchShaped
  <2>1. search \in Searches
    BY <1>1, <1>2 DEF DuplicateInit, NoSearch, Searches, Unknown1, Known1
  <2> QED
    BY <2>1, DuplicatesAssumption DEF DuplicateInit, SearchShaped
<1>5. Stated /\ WasRead /\ Grouped /\ Measured2
  BY <1>3 DEF DuplicateInit, NoSearch, Stated, WasRead, Grouped, Measured2, Finished
<1> QED
  BY <1>4, <1>5 DEF FindIInv

LEMMA StakeStays ==
  ASSUME search'.sizes = search.sizes
  PROVE  CandidateBytes' = CandidateBytes
<1> DEFINE count(sizes, size) ==
             SumFunction([f \in {f \in DOMAIN sizes : sizes[f] = size} |-> Cardinality(Under[f])])
           shared(sizes) == {s \in {sizes[f] : f \in DOMAIN sizes} : count(sizes, s) >= 2}
           stake(sizes) ==
             IF shared(sizes) = {} THEN Unknown1
             ELSE {SumFunction([s \in shared(sizes) |-> (count(sizes, s) - 1) * s])}
<1>1. CandidateBytes = stake(search.sizes)
  BY DEF CandidateBytes, SharedSizes, Listings
<1>2. CandidateBytes' = stake(search'.sizes)
  BY DEF CandidateBytes, SharedSizes, Listings
<1> HIDE DEF stake
<1> QED
  BY <1>1, <1>2

LEMMA GroupsStay ==
  ASSUME search'.read = search.read
  PROVE  EqualFiles' = EqualFiles
<1>1. \A t : SameText(t)' = SameText(t)
  BY DEF SameText
<1> QED
  BY <1>1 DEF EqualFiles

(* Somebody writes, makes or removes a file. *)
LEMMA RewritesKeep ==
  ASSUME FindIInv, NEW f \in Found, NEW t \in Texts \cup {Missing}, Rewrite(f, t)
  PROVE  FindIInv'
<1> USE DEF FindIInv
<1>1. /\ search' = search /\ text' \in [Found -> Texts \cup {Missing}] /\ rewrites' \in 0..MaxRewrites
      /\ \A g \in Found \ {f} : text'[g] = text[g]
      /\ altered' \in [{"stat", "read"} -> SUBSET Found]
      /\ altered'["stat"] = altered["stat"] \cup {f} /\ altered'["read"] = altered["read"] \cup {f}
  BY DuplicatesAssumption DEF Rewrite, SearchShaped
<1>2. SearchShaped'
  BY <1>1 DEF SearchShaped
<1>3. Present' \ {f} = Present \ {f}
  BY <1>1 DEF Present
<1>4. search.sizes \in PartialTo(Nat) /\ search.read \in PartialTo(Texts)
  BY DEF SearchShaped, Searches
<1>5. DOMAIN search.sizes \subseteq Found /\ DOMAIN search.read \subseteq Found
  BY <1>4, PartialMeans
<1>6. Stated'
  <2>1. CandidateBytes' = CandidateBytes
    BY <1>1, StakeStays
  <2> QED
    BY <1>1, <1>3, <1>5, <2>1 DEF Stated
<1>7. WasRead'
  BY <1>1, <1>3, <1>5 DEF WasRead
<1>8. Grouped'
  <2>1. EqualFiles' = EqualFiles
    BY <1>1, GroupsStay
  <2> QED
    BY <1>1, <2>1 DEF Grouped, Finished
<1>9. Measured2'
  <2> SUFFICES ASSUME NEW g \in DOMAIN search.lengths, g \cap altered'["read"] = {}
               PROVE  search.lengths[g] = {SizeOf[text'[Min(g)]]}
    BY <1>1 DEF Measured2
  <2>1. g \in search.groups /\ g \cap altered["read"] = {} /\ f \notin g
    BY <1>1 DEF Grouped
  <2>2. Min(g) \in g /\ g \subseteq Found
    BY <2>1, GroupsMean
  <2>3. text'[Min(g)] = text[Min(g)]
    BY <1>1, <2>1, <2>2
  <2> QED
    BY <2>1, <2>3 DEF Measured2
<1> QED
  BY <1>2, <1>6, <1>7, <1>8, <1>9

LEMMA StartSizesKeeps ==
  ASSUME FindIInv, StartSizes
  PROVE  FindIInv'
<1> USE DEF FindIInv
<1>1. /\ search.at = "start" /\ search'.at = "stat" /\ search'.left = Present
      /\ search'.sizes = search.sizes /\ search'.read = search.read /\ search'.groups = search.groups
      /\ search'.lengths = search.lengths /\ search'.signal = search.signal
      /\ altered'["stat"] = {} /\ altered'["read"] = altered["read"]
      /\ UNCHANGED <<text, rewrites>>
  BY DEF StartSizes, Fresh, SearchShaped, Searches
<1>2. SearchShaped'
  BY DEF StartSizes, Fresh, SearchShaped, Searches, Present
<1>3. Present' = Present
  BY <1>1 DEF Present
<1>4. Stated'
  BY <1>1, <1>3 DEF Stated
<1>5. WasRead'
  BY <1>1, <1>3 DEF WasRead
<1>6. Grouped'
  BY <1>1 DEF Grouped, Finished
<1>7. Measured2'
  BY <1>1 DEF Measured2
<1> QED
  BY <1>2, <1>4, <1>5, <1>6, <1>7

LEMMA StatEntryKeeps ==
  ASSUME FindIInv, NEW f \in Found, StatEntry(f)
  PROVE  FindIInv'
<1> USE DEF FindIInv
<1> DEFINE added == {f} \cap Present
           sizes == [g \in DOMAIN search.sizes \cup added |-> IF g = f THEN SizeOf[text[f]] ELSE search.sizes[g]]
<1>1. /\ search.at = "stat" /\ f \in search.left
      /\ search' = [search EXCEPT !.left = search.left \ {f}, !.sizes = sizes]
      /\ UNCHANGED <<text, rewrites, altered>>
  BY DEF StatEntry
<1>2. sizes \in PartialTo(Nat)
  <2>1. search.sizes \in PartialTo(Nat)
    BY DEF SearchShaped, Searches
  <2>2. f \in DOMAIN search.sizes \cup added => SizeOf[text[f]] \in Nat
    <3>1. f \notin DOMAIN search.sizes
      BY <1>1 DEF Stated
    <3>2. \A t \in Texts : SizeOf[t] \in Nat \ {0}
      BY DuplicatesAssumption
    <3> QED
      BY <3>1, <3>2 DEF Present, SearchShaped
  <2>3. added \in SUBSET {f}
    OBVIOUS
  <2> HIDE DEF added
  <2> QED
    BY <2>1, <2>2, <2>3, PartialGrows
<1>3. /\ DOMAIN sizes = DOMAIN search.sizes \cup added
      /\ f \in Present => sizes[f] = SizeOf[text[f]]
      /\ \A g \in DOMAIN search.sizes : sizes[g] = search.sizes[g]
  BY <1>1 DEF Stated
<1> HIDE DEF sizes
<1>4. /\ search'.at = "stat" /\ search'.left = search.left \ {f}
      /\ search'.sizes = sizes /\ search'.read = search.read /\ search'.groups = search.groups
      /\ search'.lengths = search.lengths /\ search'.signal = search.signal
  BY <1>1 DEF SearchShaped, Searches
<1>5. SearchShaped'
  BY <1>1, <1>2 DEF SearchShaped, Searches
<1>6. Present' = Present
  BY <1>1 DEF Present
<1>7. Stated'
  BY <1>1, <1>3, <1>4, <1>6 DEF Stated, Present
<1>8. WasRead'
  BY <1>1, <1>4, <1>6 DEF WasRead
<1>9. Grouped'
  BY <1>1, <1>4 DEF Grouped, Finished
<1>10. Measured2'
  BY <1>1, <1>4 DEF Measured2
<1> QED
  BY <1>5, <1>7, <1>8, <1>9, <1>10

LEMMA StartReadingKeeps ==
  ASSUME FindIInv, StartReading
  PROVE  FindIInv'
<1> USE DEF FindIInv
<1>1. /\ search.at = "stat" /\ search.left = {}
      /\ search' = [search EXCEPT !.at = "read", !.left = Present, !.stake = CandidateBytes]
      /\ altered' = [altered EXCEPT !["read"] = {}]
      /\ UNCHANGED <<text, rewrites>>
  BY DEF StartReading, Fresh
<1>2. CandidateBytes \in Known1
  BY StakeMeans DEF Known1
<1>3. SearchShaped'
  BY <1>1, <1>2 DEF SearchShaped, Searches, Present
<1>4. /\ search'.at = "read" /\ search'.left = Present /\ search'.stake = CandidateBytes
      /\ search'.sizes = search.sizes /\ search'.read = search.read /\ search'.groups = search.groups
      /\ search'.lengths = search.lengths /\ search'.signal = search.signal
      /\ altered'["stat"] = altered["stat"] /\ altered'["read"] = {}
  BY <1>1 DEF SearchShaped, Searches
<1>5. Present' = Present
  BY <1>1 DEF Present
<1>6. CandidateBytes' = CandidateBytes
  BY <1>4, StakeStays
<1>7. Stated'
  BY <1>1, <1>4, <1>5, <1>6 DEF Stated
<1>8. WasRead'
  BY <1>1, <1>4, <1>5 DEF WasRead
<1>9. Grouped'
  BY <1>1, <1>4 DEF Grouped, Finished
<1>10. Measured2'
  BY <1>1, <1>4 DEF Measured2, Grouped
<1> QED
  BY <1>3, <1>7, <1>8, <1>9, <1>10

LEMMA ReadEntryKeeps ==
  ASSUME FindIInv, NEW f \in Found, ReadEntry(f)
  PROVE  FindIInv'
<1> USE DEF FindIInv
<1> DEFINE added == {f} \cap Present
           read == [g \in DOMAIN search.read \cup added |-> IF g = f THEN text[f] ELSE search.read[g]]
<1>1. /\ search.at = "read" /\ f \in search.left
      /\ search' = [search EXCEPT !.left = search.left \ {f}, !.read = read]
      /\ UNCHANGED <<text, rewrites, altered>>
  BY DEF ReadEntry
<1>2. read \in PartialTo(Texts)
  <2>1. search.read \in PartialTo(Texts)
    BY DEF SearchShaped, Searches
  <2>2. f \in DOMAIN search.read \cup added => text[f] \in Texts
    <3>1. f \notin DOMAIN search.read
      BY <1>1 DEF WasRead
    <3> QED
      BY <3>1 DEF Present, SearchShaped
  <2>3. added \in SUBSET {f}
    OBVIOUS
  <2> HIDE DEF added
  <2> QED
    BY <2>1, <2>2, <2>3, PartialGrows
<1>3. /\ DOMAIN read = DOMAIN search.read \cup added
      /\ f \in Present => read[f] = text[f]
      /\ \A g \in DOMAIN search.read : read[g] = search.read[g]
  BY <1>1 DEF WasRead
<1> HIDE DEF read
<1>4. /\ search'.at = "read" /\ search'.left = search.left \ {f} /\ search'.stake = search.stake
      /\ search'.sizes = search.sizes /\ search'.read = read /\ search'.groups = search.groups
      /\ search'.lengths = search.lengths /\ search'.signal = search.signal
  BY <1>1 DEF SearchShaped, Searches
<1>5. SearchShaped'
  BY <1>1, <1>2 DEF SearchShaped, Searches
<1>6. Present' = Present
  BY <1>1 DEF Present
<1>7. Stated'
  <2>1. CandidateBytes' = CandidateBytes
    BY <1>4, StakeStays
  <2> QED
    BY <1>1, <1>4, <1>6, <2>1 DEF Stated
<1>8. WasRead'
  BY <1>1, <1>3, <1>4, <1>6 DEF WasRead, Present
<1>9. Grouped'
  BY <1>1, <1>4 DEF Grouped, Finished
<1>10. Measured2'
  BY <1>1, <1>4 DEF Measured2
<1> QED
  BY <1>5, <1>7, <1>8, <1>9, <1>10

LEMMA GroupKeeps ==
  ASSUME FindIInv, Group
  PROVE  FindIInv'
<1> USE DEF FindIInv
<1>1. /\ search.at = "read" /\ search.left = {} /\ search.groups = {} /\ search.signal = "none"
      /\ UNCHANGED <<text, rewrites, altered>>
  BY DEF Group, Grouped
<1>2. Present' = Present
  BY <1>1 DEF Present
<1>3. EqualFiles \in SUBSET (SUBSET Found)
  <2>1. search.read \in PartialTo(Texts)
    BY DEF SearchShaped, Searches
  <2> QED
    BY <2>1, PartialMeans DEF EqualFiles, SameText
<1>4. \/ search' = [search EXCEPT !.at = "size", !.groups = EqualFiles]
      \/ search' = [search EXCEPT !.at = "answered", !.signal = "could-not-look"]
  BY DEF Group, EqualFiles
<1>5. SearchShaped'
  <2>1. search \in Searches
    BY DEF SearchShaped
  <2>2. CASE search' = [search EXCEPT !.at = "size", !.groups = EqualFiles]
    <3>1. search' \in Searches
      BY <1>3, <2>1, <2>2 DEF Searches
    <3> QED
      BY <1>1, <3>1 DEF SearchShaped
  <2>3. CASE search' = [search EXCEPT !.at = "answered", !.signal = "could-not-look"]
    <3>1. search' \in Searches
      BY <2>1, <2>3 DEF Searches
    <3> QED
      BY <1>1, <3>1 DEF SearchShaped
  <2> QED
    BY <1>4, <2>2, <2>3
<1>6. /\ search'.sizes = search.sizes /\ search'.read = search.read /\ search'.stake = search.stake
      /\ search'.lengths = search.lengths /\ search'.left = search.left
      /\ \/ search'.at = "size" /\ search'.groups = EqualFiles /\ search'.signal = "none"
         \/ search'.at = "answered" /\ search'.groups = {} /\ search'.signal = "could-not-look"
  <2>1. search \in Searches
    BY DEF SearchShaped
  <2>2. CASE search' = [search EXCEPT !.at = "size", !.groups = EqualFiles]
    BY <1>1, <2>1, <2>2 DEF Searches
  <2>3. CASE search' = [search EXCEPT !.at = "answered", !.signal = "could-not-look"]
    BY <1>1, <2>1, <2>3 DEF Searches
  <2> QED
    BY <1>4, <2>2, <2>3
<1>7. Stated'
  <2>1. CandidateBytes' = CandidateBytes
    BY <1>6, StakeStays
  <2> QED
    BY <1>1, <1>2, <1>6, <2>1 DEF Stated
<1>8. WasRead'
  BY <1>1, <1>2, <1>6 DEF WasRead
<1>9. Grouped'
  <2>1. EqualFiles' = EqualFiles
    BY <1>6, GroupsStay
  <2> QED
    BY <1>1, <1>6, <2>1 DEF Grouped, Finished
<1>10. Measured2'
  BY <1>1, <1>6 DEF Measured2
<1> QED
  BY <1>5, <1>7, <1>8, <1>9, <1>10

LEMMA SizeGroupKeeps ==
  ASSUME FindIInv, NEW g \in SUBSET Found, SizeGroup(g)
  PROVE  FindIInv'
<1> USE DEF FindIInv
<1> DEFINE found == IF g \cap Present = {} THEN Unknown1 ELSE {SizeOf[text[Min(g \cap Present)]]}
           lengths == [h \in DOMAIN search.lengths \cup {g} |-> IF h # g THEN search.lengths[h] ELSE found]
<1>1. /\ search.at = "size" /\ g \in search.groups /\ g \notin DOMAIN search.lengths
      /\ search' = [search EXCEPT !.lengths = lengths]
      /\ UNCHANGED <<text, rewrites, altered>>
  BY DEF SizeGroup
<1>2. found \in SUBSET Nat
  <2>1. CASE g \cap Present = {}
    BY <2>1 DEF Unknown1
  <2>2. CASE g \cap Present # {}
    <3>1. g \cap Present \in SUBSET Nat
      BY DuplicatesAssumption
    <3>2. Min(g \cap Present) \in g \cap Present
      BY <2>2, <3>1, MinIsIn
    <3>3. text[Min(g \cap Present)] \in Texts
      BY <3>2 DEF Present, SearchShaped
    <3>4. \A t \in Texts : SizeOf[t] \in Nat \ {0}
      BY DuplicatesAssumption
    <3>5. SizeOf[text[Min(g \cap Present)]] \in Nat
      BY <3>3, <3>4
    <3> QED
      BY <2>2, <3>5
  <2> QED
    BY <2>1, <2>2
<1>3. g \cap altered["read"] = {} => found = {SizeOf[text[Min(g)]]}
  <2> SUFFICES ASSUME g \cap altered["read"] = {} PROVE found = {SizeOf[text[Min(g)]]}
    OBVIOUS
  <2>1. g \in SUBSET Present /\ g # {}
    BY <1>1, CalmMeans
  <2>2. g \cap Present = g
    BY <2>1
  <2> QED
    BY <2>1, <2>2
<1> HIDE DEF found
<1>4. lengths \in LengthMaps
  <2>1. search.lengths \in LengthMaps
    BY DEF SearchShaped, Searches
  <2>2. PICK D \in SUBSET (SUBSET Found) : search.lengths \in [D -> SUBSET Nat]
    BY <2>1 DEF LengthMaps
  <2>3. lengths \in [D \cup {g} -> SUBSET Nat]
    BY <1>2, <2>2
  <2>4. D \cup {g} \in SUBSET (SUBSET Found)
    OBVIOUS
  <2> HIDE DEF lengths
  <2> QED
    BY <2>3, <2>4 DEF LengthMaps
<1>5. /\ DOMAIN lengths = DOMAIN search.lengths \cup {g} /\ lengths[g] = found
      /\ \A h \in DOMAIN search.lengths : lengths[h] = search.lengths[h]
  BY <1>1
<1> HIDE DEF lengths
<1>6. SearchShaped'
  BY <1>1, <1>4 DEF SearchShaped, Searches
<1>7. /\ search'.at = "size" /\ search'.left = search.left /\ search'.stake = search.stake
      /\ search'.sizes = search.sizes /\ search'.read = search.read /\ search'.groups = search.groups
      /\ search'.lengths = lengths /\ search'.signal = search.signal
  BY <1>1 DEF SearchShaped, Searches
<1>8. Present' = Present
  BY <1>1 DEF Present
<1>9. Stated'
  <2>1. CandidateBytes' = CandidateBytes
    BY <1>7, StakeStays
  <2> QED
    BY <1>1, <1>7, <1>8, <2>1 DEF Stated
<1>10. WasRead'
  BY <1>1, <1>7, <1>8 DEF WasRead
<1>11. Grouped'
  <2>1. EqualFiles' = EqualFiles
    BY <1>7, GroupsStay
  <2> QED
    BY <1>1, <1>5, <1>7, <2>1 DEF Grouped, Finished
<1>12. Measured2'
  BY <1>1, <1>3, <1>5, <1>7 DEF Measured2
<1> QED
  BY <1>6, <1>9, <1>10, <1>11, <1>12

LEMMA AnswerKeeps ==
  ASSUME FindIInv, AnswerDuplicates
  PROVE  FindIInv'
<1> USE DEF FindIInv
<1> DEFINE signal == IF search.groups # {} /\ ReclaimableBytes(Measured1) = Unknown1
                     THEN "could-not-look" ELSE "movable"
<1>1. /\ search.at = "size" /\ DOMAIN search.lengths = search.groups
      /\ search' = [search EXCEPT !.at = "answered", !.signal = signal]
      /\ UNCHANGED <<text, rewrites, altered>>
  BY DEF AnswerDuplicates
<1>2. signal \in {"movable", "could-not-look"}
  OBVIOUS
<1> HIDE DEF signal
<1>3. SearchShaped'
  BY <1>1, <1>2 DEF SearchShaped, Searches
<1>4. /\ search'.at = "answered" /\ search'.left = search.left /\ search'.stake = search.stake
      /\ search'.sizes = search.sizes /\ search'.read = search.read /\ search'.groups = search.groups
      /\ search'.lengths = search.lengths /\ search'.signal = signal
  BY <1>1 DEF SearchShaped, Searches
<1>5. Present' = Present
  BY <1>1 DEF Present
<1>6. Stated'
  <2>1. CandidateBytes' = CandidateBytes
    BY <1>4, StakeStays
  <2> QED
    BY <1>1, <1>4, <1>5, <2>1 DEF Stated
<1>7. WasRead'
  BY <1>1, <1>4, <1>5 DEF WasRead
<1>8. Grouped'
  <2>1. EqualFiles' = EqualFiles
    BY <1>4, GroupsStay
  <2> QED
    BY <1>1, <1>2, <1>4, <2>1 DEF Grouped, Finished
<1>9. Measured2'
  BY <1>1, <1>4 DEF Measured2
<1> QED
  BY <1>3, <1>6, <1>7, <1>8, <1>9

LEMMA FindNext == FindIInv /\ [DuplicateNext]_duplicateVars => FindIInv'
<1> SUFFICES ASSUME FindIInv, [DuplicateNext]_duplicateVars PROVE FindIInv'
  OBVIOUS
<1>1. CASE StartSizes \/ StartReading \/ Group \/ AnswerDuplicates
  BY <1>1, StartSizesKeeps, StartReadingKeeps, GroupKeeps, AnswerKeeps
<1>2. CASE \E f \in Found : StatEntry(f) \/ ReadEntry(f) \/ \E t \in Texts \cup {Missing} : Rewrite(f, t)
  BY <1>2, StatEntryKeeps, ReadEntryKeeps, RewritesKeep
<1>3. CASE \E g \in SUBSET Found : SizeGroup(g)
  BY <1>3, SizeGroupKeeps
<1>4. CASE UNCHANGED duplicateVars
  <2>1. CandidateBytes' = CandidateBytes /\ EqualFiles' = EqualFiles
    BY <1>4, StakeStays, GroupsStay DEF duplicateVars
  <2> QED
    BY <1>4, <2>1 DEF duplicateVars, FindIInv, SearchShaped, Stated, WasRead, Grouped, Measured2, Present, Finished
<1> QED
  BY <1>1, <1>2, <1>3, <1>4 DEF DuplicateNext

(* The least lengths of the groups, and the sizes of the files. *)
LengthIn(g) == SizeOf[text[Min(g)]]
FileSize == [f \in Found |-> SizeOf[text[f]]]
Spare(groups) == [g \in groups |-> (Cardinality(g) - 1) * LengthIn(g)]

(* What is reported of groups that nobody altered. *)
LEMMA ReclaimableMeans ==
  ASSUME FindIInv, Finished, NEW calm \in SUBSET search.groups, calm # {},
         \A g \in calm : g \cap altered["read"] = {}
  PROVE  /\ IsFiniteSet(calm)
         /\ \A g \in calm : LengthIn(g) \in Nat /\ Spare(calm)[g] \in Nat
         /\ ReclaimableBytes(calm) = {SumFunctionOnSet(Spare(calm), calm)}
<1> USE DEF FindIInv
<1>1. IsFiniteSet(calm)
  BY GroupsMean, FS_Subset
<1>2. \A g \in calm : LengthIn(g) \in Nat
  BY CalmMeans DEF LengthIn
<1>3. \A g \in calm : Length1(g) = LengthIn(g)
  <2> SUFFICES ASSUME NEW g \in calm PROVE Length1(g) = LengthIn(g)
    OBVIOUS
  <2>1. search.lengths[g] = {LengthIn(g)}
    BY DEF Measured2, Grouped, LengthIn
  <2> QED
    BY <2>1 DEF Length1
<1>4. \A g \in calm : Cardinality(g) - 1 \in Nat
  BY GroupsMean
<1>5. \A g \in calm : (Cardinality(g) - 1) * LengthIn(g) \in Nat
  BY <1>2, <1>4
<1> DEFINE terms == [g \in calm |-> (Cardinality(g) - 1) * Length1(g)]
<1>6. ReclaimableBytes(calm) = {SumFunction(terms)} /\ DOMAIN terms = calm
  BY DEF ReclaimableBytes
<1>7. \A g \in calm : terms[g] \in Nat /\ Spare(calm)[g] = terms[g]
  BY <1>3, <1>5 DEF Spare
<1> HIDE DEF terms
<1>8. SumFunction(terms) = SumFunctionOnSet(terms, calm)
  BY <1>6 DEF SumFunction
<1>9. SumFunctionOnSet(terms, calm) = SumFunctionOnSet(Spare(calm), calm)
  BY <1>1, <1>7, SumSame
<1> QED
  BY <1>1, <1>2, <1>6, <1>7, <1>8, <1>9

LEMMA BytesMean ==
  ASSUME FindIInv, NEW files \in SUBSET Present
  PROVE  /\ IsFiniteSet(files) /\ \A f \in files : FileSize[f] \in Nat /\ f \in Found
         /\ Bytes1(files) = SumFunctionOnSet(FileSize, files)
<1> USE DEF FindIInv
<1>1. IsFiniteSet(files) /\ files \subseteq Found
  BY DuplicatesAssumption, FS_Subset DEF Present
<1>2. \A f \in files : SizeOf[text[f]] \in Nat
  <2>1. \A t \in Texts : SizeOf[t] \in Nat \ {0}
    BY DuplicatesAssumption
  <2>2. \A f \in files : text[f] \in Texts
    BY DEF Present, SearchShaped
  <2> QED
    BY <2>1, <2>2
<1> DEFINE terms == [f \in files |-> SizeOf[text[f]]]
<1>3. Bytes1(files) = SumFunction(terms) /\ DOMAIN terms = files
  BY DEF Bytes1
<1>4. \A f \in files : terms[f] \in Nat /\ FileSize[f] = terms[f]
  BY <1>1, <1>2 DEF FileSize
<1> HIDE DEF terms
<1>5. SumFunction(terms) = SumFunctionOnSet(terms, files)
  BY <1>3 DEF SumFunction
<1>6. SumFunctionOnSet(terms, files) = SumFunctionOnSet(FileSize, files)
  BY <1>1, <1>4, SumSame
<1> QED
  BY <1>1, <1>3, <1>4, <1>5, <1>6

(* Each group holds its number of files times its length. *)
LEMMA PartsMean ==
  ASSUME FindIInv, NEW groups \in SUBSET search.groups,
         \A g \in groups : g \cap altered["read"] = {},
         NEW part, \A g \in groups : part[g] \in SUBSET g
  PROVE  /\ \A g \in groups : IsFiniteSet(part[g]) /\ Cardinality(part[g]) * LengthIn(g) \in Nat
         /\ UNION {part[g] : g \in groups} \in SUBSET Present
         /\ Bytes1(UNION {part[g] : g \in groups})
              = SumFunctionOnSet([g \in groups |-> Cardinality(part[g]) * LengthIn(g)], groups)
<1> USE DEF FindIInv
<1> DEFINE files == UNION {part[g] : g \in groups}
           terms == [g \in groups |-> Cardinality(part[g]) * LengthIn(g)]
<1>1. IsFiniteSet(groups)
  BY GroupsMean, FS_Subset
<1>2. ASSUME NEW g \in groups
      PROVE  /\ IsFiniteSet(part[g]) /\ Cardinality(part[g]) \in Nat /\ LengthIn(g) \in Nat
             /\ part[g] \in SUBSET Present
             /\ \A f \in part[g] : FileSize[f] = LengthIn(g)
  <2>1. g \in search.groups /\ g \cap altered["read"] = {} /\ part[g] \in SUBSET g
    OBVIOUS
  <2>2. g \in SUBSET Present /\ g \in SUBSET Found /\ \A f \in g : text[f] = text[Min(g)]
    BY <2>1, CalmMeans
  <2>3. LengthIn(g) \in Nat
    BY <2>1, CalmMeans DEF LengthIn
  <2>4. IsFiniteSet(part[g])
    BY <2>1, GroupsMean, FS_Subset
  <2>5. Cardinality(part[g]) \in Nat
    BY <2>4, FS_CardinalityType
  <2>6. \A f \in part[g] : FileSize[f] = LengthIn(g)
    BY <2>1, <2>2 DEF FileSize, LengthIn
  <2> QED
    BY <2>1, <2>2, <2>3, <2>4, <2>5, <2>6
<1>3. files \in SUBSET Present
  BY <1>2
<1>4. \A g \in groups : Cardinality(part[g]) * LengthIn(g) \in Nat
  BY <1>2
<1>5. \A g \in groups : terms[g] = SumFunctionOnSet(FileSize, part[g])
  <2> SUFFICES ASSUME NEW g \in groups PROVE terms[g] = SumFunctionOnSet(FileSize, part[g])
    OBVIOUS
  <2> DEFINE one == part[g]
             c == LengthIn(g)
  <2>1. IsFiniteSet(one) /\ c \in Nat /\ \A f \in one : FileSize[f] = c
    BY <1>2
  <2> HIDE DEF one, c
  <2>2. SumFunctionOnSet(FileSize, one) = Cardinality(one) * c
    BY <2>1, SumOfEqual
  <2> QED
    BY <2>2 DEF one, c
<1>6. \A g, h \in groups : g # h => part[g] \cap part[h] = {}
  <2>1. \A g, h \in groups : g # h => g \cap h = {}
    BY GroupsMean
  <2> QED
    BY <2>1
<1>7. \A g \in groups : \A f \in part[g] : FileSize[f] \in Nat
  BY <1>2
<1>8. SumFunctionOnSet(FileSize, files) = SumFunctionOnSet(terms, groups)
  <2>1. \A g \in groups : IsFiniteSet(part[g])
    BY <1>2
  <2> HIDE DEF terms
  <2> QED
    BY <1>1, <1>5, <1>6, <1>7, <2>1, SumOfParts
<1>9. Bytes1(files) = SumFunctionOnSet(FileSize, files)
  <2> HIDE DEF files
  <2> QED
    BY <1>3, BytesMean
<1> QED
  BY <1>2, <1>3, <1>4, <1>8, <1>9

(* "what find-duplicates says can be removed can", as its first three parts. *)
LEMMA CalmAreEqual ==
  ASSUME FindIInv, Finished, NEW calm, calm = {g \in search.groups : g \cap altered["read"] = {}}
  PROVE  \A g \in calm : \A f, h \in g : text[f] = text[h] /\ text[f] # Missing
  BY CalmMeans

LEMMA ReclaimableIsSpare ==
  ASSUME FindIInv, Finished, NEW calm, calm = {g \in search.groups : g \cap altered["read"] = {}}, calm # {}
  PROVE  ReclaimableBytes(calm) =
           {Bytes1(UNION calm) - SumFunction([g \in calm |-> SizeOf[text[Min(g)]]])}
<1>1. calm \in SUBSET search.groups /\ \A g \in calm : g \cap altered["read"] = {}
  OBVIOUS
<1> DEFINE part == [g \in calm |-> g]
           whole == [g \in calm |-> Cardinality(part[g]) * LengthIn(g)]
           kept == [g \in calm |-> SizeOf[text[Min(g)]]]
<1>2. IsFiniteSet(calm) /\ ReclaimableBytes(calm) = {SumFunctionOnSet(Spare(calm), calm)}
  BY <1>1, ReclaimableMeans
<1>3. UNION calm = UNION {part[g] : g \in calm}
  OBVIOUS
<1>4. Bytes1(UNION calm) = SumFunctionOnSet(whole, calm)
  <2>1. \A g \in calm : part[g] \in SUBSET g
    OBVIOUS
  <2> HIDE DEF part
  <2>2. Bytes1(UNION {part[g] : g \in calm}) = SumFunctionOnSet(whole, calm)
    BY <1>1, <2>1, PartsMean
  <2> QED
    BY <1>3, <2>2
<1>5. \A g \in calm : /\ Spare(calm)[g] \in Nat /\ kept[g] \in Nat
                      /\ whole[g] = Spare(calm)[g] + kept[g]
  <2> SUFFICES ASSUME NEW g \in calm
               PROVE  /\ Spare(calm)[g] \in Nat /\ kept[g] \in Nat
                      /\ whole[g] = Spare(calm)[g] + kept[g]
    OBVIOUS
  <2>1. LengthIn(g) \in Nat /\ Spare(calm)[g] \in Nat
    BY <1>1, ReclaimableMeans
  <2>2. Cardinality(g) \in Nat
    BY <1>1, GroupsMean DEF FindIInv
  <2>3. (Cardinality(g) - 1) * LengthIn(g) + LengthIn(g) = Cardinality(g) * LengthIn(g)
    BY <2>1, <2>2
  <2>4. kept[g] = LengthIn(g) /\ whole[g] = Cardinality(g) * LengthIn(g)
        /\ Spare(calm)[g] = (Cardinality(g) - 1) * LengthIn(g)
    BY DEF LengthIn, Spare
  <2> HIDE DEF kept, whole
  <2> QED
    BY <2>1, <2>3, <2>4
<1>6. DOMAIN kept = calm
  OBVIOUS
<1> HIDE DEF whole, kept
<1>7. SumFunctionOnSet(whole, calm) = SumFunctionOnSet(Spare(calm), calm) + SumFunctionOnSet(kept, calm)
  <2> DEFINE spare == Spare(calm)
  <2>1. \A g \in calm : spare[g] \in Nat /\ kept[g] \in Nat /\ whole[g] = spare[g] + kept[g]
    BY <1>5
  <2> HIDE DEF spare
  <2>2. SumFunctionOnSet(whole, calm) = SumFunctionOnSet(spare, calm) + SumFunctionOnSet(kept, calm)
    BY <1>2, <2>1, SumPlus
  <2> QED
    BY <2>2 DEF spare
<1>8. SumFunctionOnSet(Spare(calm), calm) \in Nat /\ SumFunctionOnSet(kept, calm) \in Nat
  BY <1>2, <1>5, SumIsNat
<1>9. SumFunction(kept) = SumFunctionOnSet(kept, calm)
  BY <1>6 DEF SumFunction
<1>10. SumFunctionOnSet(Spare(calm), calm) = Bytes1(UNION calm) - SumFunction(kept)
  BY <1>4, <1>7, <1>8, <1>9
<1>11. ReclaimableBytes(calm) = {Bytes1(UNION calm) - SumFunction(kept)}
  BY <1>2, <1>10
<1> QED
  BY <1>11 DEF kept

LEMMA EqualsAreGrouped ==
  ASSUME FindIInv, Finished, NEW f \in Present \ altered["read"], NEW h \in Present \ altered["read"],
         f # h, text[f] = text[h]
  PROVE  \E g \in search.groups : {f, h} \subseteq g
<1> USE DEF FindIInv
<1>1. search.at = "answered" /\ search.groups = EqualFiles
  BY DEF Finished, Grouped
<1>2. f \in DOMAIN search.read /\ h \in DOMAIN search.read
  BY <1>1 DEF WasRead
<1>3. search.read[f] = text[f] /\ search.read[h] = text[f] /\ text[f] \in Texts
  BY <1>2 DEF WasRead, Present, SearchShaped
<1> DEFINE g == SameText(text[f])
<1>4. {f, h} \subseteq g
  BY <1>2, <1>3 DEF SameText
<1>5. Cardinality(g) >= 2
  <2>1. search.read \in PartialTo(Texts)
    BY DEF SearchShaped, Searches
  <2>2. g \in SUBSET Found
    BY <2>1, PartialMeans DEF SameText
  <2>3. IsFiniteSet(g)
    BY <2>2, DuplicatesAssumption, FS_Subset
  <2> HIDE DEF g
  <2>4. Cardinality({f, h}) <= Cardinality(g)
    BY <1>4, <2>3, FS_Subset
  <2>5. Cardinality({f, h}) = 2
    <3>1. IsFiniteSet({f}) /\ Cardinality({f}) = 1 /\ h \notin {f} /\ {f} \cup {h} = {f, h}
      BY FS_Singleton
    <3>2. Cardinality({f} \cup {h}) = Cardinality({f}) + 1
      BY <3>1, FS_AddElement
    <3> QED
      BY <3>1, <3>2
  <2>6. Cardinality(g) \in Nat
    BY <2>3, FS_CardinalityType
  <2> QED
    BY <2>4, <2>5, <2>6
<1>6. g \in EqualFiles
  BY <1>3, <1>5 DEF EqualFiles
<1> QED
  BY <1>1, <1>4, <1>6

(* Without alterations the overlap of two directories is what is under one   *)
(* and also under the other.                                                 *)
LEMMA OverlapMeans ==
  ASSUME FindIInv, Finished, altered["read"] = {},
         NEW a \in Tops, NEW b \in Tops, a # b, OwnsAll(a), OwnsAll(b)
  PROVE  Overlap1(a, b) = Bytes1(AlsoIn(a, b))
<1> USE DEF FindIInv
<1> DEFINE groups == search.groups
           part == [g \in groups |-> IF OwnedIn(g, b) = {} THEN {} ELSE OwnedIn(g, a)]
           bytes == [g \in groups |-> Cardinality(part[g]) * LengthIn(g)]
           terms == [g \in groups |-> Length1(g) *
                       (IF a = b THEN Max({0, Cardinality(OwnedIn(g, a)) - 1})
                        ELSE IF OwnedIn(g, b) = {} THEN 0 ELSE Cardinality(OwnedIn(g, a)))]
<1>1. \A g \in groups : g \cap altered["read"] = {}
  OBVIOUS
<1>2. \A f \in Found : (Owner(f) = a <=> a \in Under[f]) /\ (Owner(f) = b <=> b \in Under[f])
  BY OwnersAreFound DEF OwnsAll
<1>3. \A g \in groups : /\ OwnedIn(g, a) = {f \in g : a \in Under[f]}
                        /\ OwnedIn(g, b) = {f \in g : b \in Under[f]}
  <2>1. \A g \in groups : g \in SUBSET Found
    BY GroupsMean
  <2> QED
    BY <1>2, <2>1 DEF OwnedIn
<1>4. UNION {part[g] : g \in groups} = AlsoIn(a, b)
  <2>1. ASSUME NEW g \in groups, NEW f \in part[g] PROVE f \in AlsoIn(a, b)
    <3>1. f \in OwnedIn(g, a) /\ OwnedIn(g, b) # {}
      BY <2>1
    <3>2. PICK h \in OwnedIn(g, b) : TRUE
      BY <3>1
    <3>3. f \in g /\ h \in g /\ a \in Under[f] /\ b \in Under[h]
      BY <1>3, <3>1, <3>2
    <3>4. g \in SUBSET Present /\ text[f] = text[h]
      <4>1. g \in search.groups /\ g \cap altered["read"] = {}
        OBVIOUS
      <4>2. text[f] = text[Min(g)] /\ text[h] = text[Min(g)] /\ g \in SUBSET Present
        BY <3>3, <4>1, CalmMeans
      <4> QED
        BY <4>2
    <3> QED
      BY <3>3, <3>4 DEF AlsoIn
  <2>2. ASSUME NEW f \in AlsoIn(a, b) PROVE \E g \in groups : f \in part[g]
    <3>1. f \in Present /\ a \in Under[f]
      BY DEF AlsoIn
    <3>2. PICK h \in Present : b \in Under[h] /\ text[h] = text[f]
      BY DEF AlsoIn
    <3>3. f # h
      BY <1>2, <3>1, <3>2 DEF Present
    <3>4. PICK g \in groups : {f, h} \subseteq g
      BY <3>1, <3>2, <3>3, EqualsAreGrouped
    <3>5. f \in OwnedIn(g, a) /\ h \in OwnedIn(g, b)
      BY <1>3, <3>1, <3>2, <3>4
    <3> QED
      BY <3>5
  <2> HIDE DEF part
  <2> QED
    BY <2>1, <2>2
<1>5. \A g \in groups : part[g] \in SUBSET g
  BY DEF OwnedIn
<1>6. Bytes1(AlsoIn(a, b)) = SumFunctionOnSet(bytes, groups)
  <2> DEFINE sets == groups
  <2>1. sets \in SUBSET search.groups /\ (\A g \in sets : g \cap altered["read"] = {})
        /\ \A g \in sets : part[g] \in SUBSET g
    BY <1>1, <1>5
  <2> HIDE DEF part, sets
  <2>2. Bytes1(UNION {part[g] : g \in sets})
          = SumFunctionOnSet([g \in sets |-> Cardinality(part[g]) * LengthIn(g)], sets)
    BY <2>1, PartsMean
  <2> QED
    BY <1>4, <2>2 DEF sets
<1>7. \A g \in groups : Cardinality(part[g]) \in Nat /\ LengthIn(g) \in Nat /\ bytes[g] \in Nat
  <2> SUFFICES ASSUME NEW g \in groups
               PROVE  Cardinality(part[g]) \in Nat /\ LengthIn(g) \in Nat /\ bytes[g] \in Nat
    OBVIOUS
  <2>1. IsFiniteSet(part[g])
    <3>1. IsFiniteSet(g)
      BY GroupsMean
    <3> QED
      BY <1>5, <3>1, FS_Subset
  <2>2. Cardinality(part[g]) \in Nat
    BY <2>1, FS_CardinalityType
  <2>3. LengthIn(g) \in Nat
    BY <1>1, CalmMeans DEF LengthIn
  <2> HIDE DEF part
  <2> QED
    BY <2>2, <2>3
<1>8. \A g \in groups : Length1(g) = LengthIn(g) /\ search.lengths[g] # Unknown1
  <2> SUFFICES ASSUME NEW g \in groups PROVE Length1(g) = LengthIn(g) /\ search.lengths[g] # Unknown1
    OBVIOUS
  <2>1. search.lengths[g] = {LengthIn(g)}
    BY DEF Measured2, Grouped, LengthIn
  <2> QED
    BY <2>1 DEF Length1, Unknown1
<1>9. Measured1 = groups
  BY <1>8 DEF Measured1, Grouped
<1>10. \A g \in groups : terms[g] = bytes[g]
  <2> SUFFICES ASSUME NEW g \in groups PROVE terms[g] = bytes[g]
    OBVIOUS
  <2>1. terms[g] = LengthIn(g) * (IF OwnedIn(g, b) = {} THEN 0 ELSE Cardinality(OwnedIn(g, a)))
    BY <1>8
  <2>2. Cardinality(part[g]) = IF OwnedIn(g, b) = {} THEN 0 ELSE Cardinality(OwnedIn(g, a))
    BY FS_EmptySet
  <2>3. LengthIn(g) \in Nat /\ Cardinality(part[g]) \in Nat
    BY <1>7
  <2> DEFINE n == Cardinality(part[g])
             c == LengthIn(g)
  <2>4. terms[g] = c * n /\ bytes[g] = n * c /\ n \in Nat /\ c \in Nat
    BY <2>1, <2>2, <2>3
  <2> HIDE DEF terms, bytes, n, c
  <2> QED
    BY <2>4
<1>11. Overlap1(a, b) = SumFunction(terms)
  BY <1>9 DEF Overlap1
<1>12. DOMAIN terms = groups
  OBVIOUS
<1> HIDE DEF terms, bytes
<1>13. SumFunction(terms) = SumFunctionOnSet(terms, groups)
  BY <1>12 DEF SumFunction
<1>14. SumFunctionOnSet(bytes, groups) = SumFunctionOnSet(terms, groups)
  BY <1>7, <1>10, GroupsMean, SumSame
<1> QED
  BY <1>6, <1>11, <1>13, <1>14

LEMMA FindingFollows ==
  ASSUME FindIInv
  PROVE  FindingIsTrue
<1> SUFFICES ASSUME Finished
             PROVE  LET calm == {g \in search.groups : g \cap altered["read"] = {}}
                        untouched == Present \ altered["read"]
                    IN /\ \A g \in calm : \A f, h \in g : text[f] = text[h] /\ text[f] # Missing
                       /\ calm # {} => ReclaimableBytes(calm) =
                            {Bytes1(UNION calm) - SumFunction([g \in calm |-> SizeOf[text[Min(g)]]])}
                       /\ \A f, h \in untouched : f # h /\ text[f] = text[h] => \E g \in search.groups : {f, h} \subseteq g
                       /\ altered["read"] = {} => \A a, b \in Tops :
                            a # b /\ OwnsAll(a) /\ OwnsAll(b) => Overlap1(a, b) = Bytes1(AlsoIn(a, b))
  BY DEF FindingIsTrue
<1> DEFINE calm == {g \in search.groups : g \cap altered["read"] = {}}
           untouched == Present \ altered["read"]
<1>1. \A g \in calm : \A f, h \in g : text[f] = text[h] /\ text[f] # Missing
  BY CalmAreEqual
<1>2. calm # {} => ReclaimableBytes(calm) =
        {Bytes1(UNION calm) - SumFunction([g \in calm |-> SizeOf[text[Min(g)]]])}
  <2> DEFINE some == calm
  <2>1. some = {g \in search.groups : g \cap altered["read"] = {}}
    OBVIOUS
  <2> HIDE DEF some
  <2>2. some # {} => ReclaimableBytes(some) =
          {Bytes1(UNION some) - SumFunction([g \in some |-> SizeOf[text[Min(g)]]])}
    BY <2>1, ReclaimableIsSpare
  <2> QED
    BY <2>2 DEF some
<1>3. \A f, h \in untouched : f # h /\ text[f] = text[h] => \E g \in search.groups : {f, h} \subseteq g
  BY EqualsAreGrouped
<1>4. altered["read"] = {} => \A a, b \in Tops :
        a # b /\ OwnsAll(a) /\ OwnsAll(b) => Overlap1(a, b) = Bytes1(AlsoIn(a, b))
  BY OverlapMeans
<1> QED
  BY <1>1, <1>2, <1>3, <1>4

(* What find-duplicates says can be removed can, whatever is written, made   *)
(* or removed while it looks.                                                *)
THEOREM FindingIsAlwaysTrue == DuplicateSpec => []FindingIsTrue
<1> QED
  BY FindInit, FindNext, FindingFollows, PTL DEF DuplicateSpec

(* The groups of files that nobody altered since the first stage are among   *)
(* those of the second, and the first knows the size of every file in them.  *)
LEMMA StatedCalm ==
  ASSUME FindIInv, search.at = "answered", NEW g \in search.groups, g \cap altered["stat"] = {}
  PROVE  /\ g \cap altered["read"] = {}
         /\ g \in SUBSET FilesOf(LengthIn(g))
         /\ LengthIn(g) \in Nat
<1> USE DEF FindIInv
<1>1. g \cap altered["read"] = {}
  BY DEF Stated
<1>2. g \in SUBSET Present /\ \A f \in g : text[f] = text[Min(g)]
  BY <1>1, CalmMeans
<1>3. \A f \in g : f \in DOMAIN search.sizes /\ f \notin altered["stat"]
  BY <1>2 DEF Stated
<1>4. \A f \in g : search.sizes[f] = LengthIn(g)
  BY <1>2, <1>3 DEF Stated, LengthIn
<1>5. LengthIn(g) \in Nat
  BY <1>1, CalmMeans DEF LengthIn
<1> QED
  BY <1>1, <1>3, <1>4, <1>5 DEF FilesOf

(* Of one size, all groups together leave at most what is listed but one. *)
LEMMA OneSizeCovered ==
  ASSUME FindIInv, search.at = "answered", NEW size \in Nat,
         NEW groups \in SUBSET search.groups, groups # {},
         \A g \in groups : g \cap altered["stat"] = {} /\ LengthIn(g) = size
  PROVE  /\ size \in SharedSizes
         /\ SumFunctionOnSet(Spare(groups), groups) <= (Listings(size) - 1) * size
<1> USE DEF FindIInv
<1> DEFINE files == UNION groups
           counts == [g \in groups |-> Cardinality(g)]
           others == [g \in groups |-> Cardinality(g) - 1]
           ones == [g \in groups |-> 1]
           each == [f \in files |-> 1]
           part == [g \in groups |-> g]
<1>1. /\ FilesOf(size) \in SUBSET Found /\ IsFiniteSet(FilesOf(size)) /\ Listings(size) \in Nat
      /\ Cardinality(FilesOf(size)) <= Listings(size)
  BY ListingsMean
<1>2. files \in SUBSET FilesOf(size)
  BY StatedCalm
<1>3. IsFiniteSet(files) /\ Cardinality(files) <= Cardinality(FilesOf(size)) /\ Cardinality(files) \in Nat
      /\ Cardinality(FilesOf(size)) \in Nat
  BY <1>1, <1>2, FS_Subset, FS_CardinalityType
<1>4. IsFiniteSet(groups)
  BY GroupsMean, FS_Subset
<1>5. \A g \in groups : IsFiniteSet(g) /\ Cardinality(g) \in Nat /\ Cardinality(g) >= 2
  BY GroupsMean
<1>6. Cardinality(files) = SumFunctionOnSet(counts, groups)
  <2>1. \A f \in files : each[f] = 1 /\ each[f] \in Nat
    OBVIOUS
  <2>2. \A g \in groups : IsFiniteSet(part[g]) /\ part[g] \in SUBSET files
    BY <1>5
  <2>3. \A g, h \in groups : g # h => part[g] \cap part[h] = {}
    BY GroupsMean
  <2> DEFINE united == UNION {part[g] : g \in groups}
  <2>4. united = files
    OBVIOUS
  <2>5. \A g \in groups : counts[g] = SumFunctionOnSet(each, part[g])
    <3> SUFFICES ASSUME NEW g \in groups PROVE counts[g] = SumFunctionOnSet(each, g)
      OBVIOUS
    <3>1. IsFiniteSet(g) /\ Cardinality(g) \in Nat /\ \A f \in g : each[f] = 1
      BY <1>5
    <3>2. counts[g] = Cardinality(g)
      OBVIOUS
    <3> HIDE DEF each, counts
    <3>3. SumFunctionOnSet(each, g) = Cardinality(g) * 1
      BY <3>1, SumOfEqual
    <3> QED
      BY <3>1, <3>2, <3>3
  <2> HIDE DEF each, counts, part, files
  <2>6. SumFunctionOnSet(each, united) = SumFunctionOnSet(counts, groups)
    <3>1. \A g \in groups : \A f \in part[g] : each[f] \in Nat
      BY <2>1, <2>2
    <3>2. \A g \in groups : IsFiniteSet(part[g])
      BY <2>2
    <3> QED
      BY <1>4, <2>3, <2>5, <3>1, <3>2, SumOfParts
  <2>7. SumFunctionOnSet(each, files) = Cardinality(files) * 1
    <3>1. IsFiniteSet(files) /\ 1 \in Nat /\ \A f \in files : each[f] = 1
      BY <1>3, <2>1
    <3> QED
      BY <3>1, SumOfEqual
  <2> HIDE DEF united
  <2> QED
    BY <1>3, <2>4, <2>6, <2>7
<1>7. \A g \in groups : counts[g] \in Nat /\ others[g] \in Nat /\ ones[g] \in Nat /\ ones[g] = 1
                        /\ counts[g] = others[g] + ones[g] /\ counts[g] >= 2
  BY <1>5
<1>8. Cardinality(groups) \in Nat /\ Cardinality(groups) >= 1
  BY <1>4, FS_CardinalityType, FS_EmptySet
<1>9. \A g \in groups : Spare(groups)[g] = others[g] * size
  BY DEF Spare
<1> HIDE DEF counts, others, ones, files
<1>10. /\ SumFunctionOnSet(counts, groups) = SumFunctionOnSet(others, groups) + SumFunctionOnSet(ones, groups)
       /\ SumFunctionOnSet(counts, groups) \in Nat /\ SumFunctionOnSet(others, groups) \in Nat
       /\ SumFunctionOnSet(ones, groups) = Cardinality(groups) * 1
  <2>1. SumFunctionOnSet(counts, groups) = SumFunctionOnSet(others, groups) + SumFunctionOnSet(ones, groups)
    BY <1>4, <1>7, SumPlus
  <2>2. SumFunctionOnSet(counts, groups) \in Nat /\ SumFunctionOnSet(others, groups) \in Nat
    BY <1>4, <1>7, SumIsNat
  <2>3. SumFunctionOnSet(ones, groups) = Cardinality(groups) * 1
    BY <1>4, <1>7, SumOfEqual
  <2> QED
    BY <2>1, <2>2, <2>3
<1>11. SumFunctionOnSet(others, groups) <= Listings(size) - 1
  BY <1>1, <1>3, <1>6, <1>8, <1>10
<1>12. SumFunctionOnSet(Spare(groups), groups) = SumFunctionOnSet(others, groups) * size
  <2> DEFINE spare == Spare(groups)
  <2>1. \A g \in groups : others[g] \in Nat /\ spare[g] = others[g] * size
    BY <1>7, <1>9
  <2> HIDE DEF spare
  <2>2. SumFunctionOnSet(spare, groups) = SumFunctionOnSet(others, groups) * size
    BY <1>4, <2>1, SumTimes
  <2> QED
    BY <2>2 DEF spare
<1>13. SumFunctionOnSet(others, groups) * size <= (Listings(size) - 1) * size
  <2> DEFINE m == SumFunctionOnSet(others, groups)
             n == Listings(size) - 1
  <2>1. m \in Nat /\ n \in Int /\ m <= n
    BY <1>1, <1>10, <1>11
  <2> HIDE DEF m, n
  <2>2. m * size <= n * size
    BY <2>1
  <2> QED
    BY <2>2 DEF m, n
<1>14. size \in SharedSizes
  <2>1. PICK g \in groups : TRUE
    OBVIOUS
  <2>2. g # {} /\ g \in SUBSET FilesOf(size)
    BY GroupsMean, StatedCalm
  <2>3. PICK f \in DOMAIN search.sizes : search.sizes[f] = size
    BY <2>2 DEF FilesOf
  <2>4. Cardinality(g) <= Cardinality(FilesOf(size))
    BY <1>1, <2>2, FS_Subset
  <2>5. Listings(size) >= 2
    BY <1>1, <1>3, <1>5, <2>4
  <2> QED
    BY <2>3, <2>5 DEF SharedSizes
<1> QED
  BY <1>12, <1>13, <1>14

(* The groups of each size leave at most what the first stage found of it. *)
LEMMA StakeFollows ==
  ASSUME FindIInv
  PROVE  StakeCoversFinding
<1> USE DEF FindIInv
<1> SUFFICES ASSUME Finished, {g \in search.groups : g \cap altered["stat"] = {}} # {}
             PROVE  \E stake \in search.stake,
                       found \in ReclaimableBytes({g \in search.groups : g \cap altered["stat"] = {}}) : found <= stake
  BY DEF StakeCoversFinding
<1> DEFINE calm == {g \in search.groups : g \cap altered["stat"] = {}}
           sizes == {LengthIn(g) : g \in calm}
           alike == [s \in sizes |-> {g \in calm : LengthIn(g) = s}]
           left == [s \in sizes |-> SumFunctionOnSet(Spare(calm), alike[s])]
           most == [s \in SharedSizes |-> (Listings(s) - 1) * s]
<1>1. search.at = "answered" /\ search.stake = CandidateBytes
  BY DEF Finished, Grouped, Stated
<1>2. \A g \in calm : /\ g \in search.groups /\ g \cap altered["stat"] = {} /\ g \cap altered["read"] = {}
                      /\ LengthIn(g) \in Nat
  BY <1>1, StatedCalm
<1>3. calm \in SUBSET search.groups /\ calm # {}
  OBVIOUS
<1> HIDE DEF calm
<1>4. IsFiniteSet(calm) /\ (\A g \in calm : Spare(calm)[g] \in Nat)
      /\ ReclaimableBytes(calm) = {SumFunctionOnSet(Spare(calm), calm)}
  BY <1>2, <1>3, ReclaimableMeans
<1>5. sizes \in SUBSET Nat /\ sizes # {} /\ IsFiniteSet(sizes)
  <2>1. sizes \in SUBSET Nat /\ sizes # {}
    BY <1>2, <1>3
  <2>2. IsFiniteSet(sizes)
    <3> DEFINE lengths == [g \in calm |-> LengthIn(g)]
               all == {lengths[g] : g \in calm}
    <3>1. sizes = all
      OBVIOUS
    <3>2. IsFiniteSet(all)
      <4> HIDE DEF lengths
      <4> QED
        BY <1>4, ImageIsFinite
    <3> QED
      BY <3>1, <3>2
  <2> QED
    BY <2>1, <2>2
<1>6. \A s \in sizes : alike[s] \in SUBSET calm /\ alike[s] # {} /\ IsFiniteSet(alike[s])
  <2> SUFFICES ASSUME NEW s \in sizes PROVE alike[s] \in SUBSET calm /\ alike[s] # {} /\ IsFiniteSet(alike[s])
    OBVIOUS
  <2>1. alike[s] \in SUBSET calm /\ alike[s] # {}
    OBVIOUS
  <2> HIDE DEF alike
  <2> QED
    BY <1>4, <2>1, FS_Subset
<1>7. \A s, t \in sizes : s # t => alike[s] \cap alike[t] = {}
  <2> SUFFICES ASSUME NEW s \in sizes, NEW t \in sizes, NEW g \in alike[s] \cap alike[t] PROVE s = t
    OBVIOUS
  <2>1. LengthIn(g) = s /\ LengthIn(g) = t
    OBVIOUS
  <2> QED
    BY <2>1
<1> DEFINE united == UNION {alike[s] : s \in sizes}
<1>8. united = calm
  <2>1. \A s \in sizes : alike[s] \subseteq calm
    BY <1>6
  <2>2. \A g \in calm : LengthIn(g) \in sizes /\ g \in alike[LengthIn(g)]
    OBVIOUS
  <2> HIDE DEF sizes, alike
  <2> QED
    BY <2>1, <2>2
<1>9. \A s \in sizes : \A g \in alike[s] : LengthIn(g) = s
  OBVIOUS
<1>10. \A s \in sizes : s \in SharedSizes /\ left[s] \in Nat /\ left[s] <= (Listings(s) - 1) * s
  <2> SUFFICES ASSUME NEW s \in sizes PROVE s \in SharedSizes /\ left[s] \in Nat /\ left[s] <= (Listings(s) - 1) * s
    OBVIOUS
  <2> DEFINE some == alike[s]
             spare == Spare(calm)
             own == Spare(some)
  <2>1. /\ some \in SUBSET calm /\ some # {} /\ IsFiniteSet(some) /\ s \in Nat
        /\ \A g \in some : LengthIn(g) = s
    BY <1>5, <1>6, <1>9
  <2>2. left[s] = SumFunctionOnSet(spare, some)
    OBVIOUS
  <2> HIDE DEF some, left, alike, sizes
  <2>3. s \in SharedSizes /\ SumFunctionOnSet(own, some) <= (Listings(s) - 1) * s
    <3>1. some \in SUBSET search.groups /\ \A g \in some : g \cap altered["stat"] = {} /\ LengthIn(g) = s
      BY <1>2, <1>3, <2>1
    <3> QED
      BY <1>1, <2>1, <3>1, OneSizeCovered
  <2>4. \A g \in some : spare[g] \in Nat /\ own[g] = spare[g]
    BY <1>4, <2>1 DEF Spare
  <2> HIDE DEF spare, own
  <2>5. SumFunctionOnSet(spare, some) = SumFunctionOnSet(own, some)
    BY <2>1, <2>4, SumSame
  <2>6. SumFunctionOnSet(spare, some) \in Nat
    BY <2>1, <2>4, SumIsNat
  <2> QED
    BY <2>2, <2>3, <2>5, <2>6
<1>11. SumFunctionOnSet(Spare(calm), calm) = SumFunctionOnSet(left, sizes)
  <2> DEFINE spare == Spare(calm)
  <2>1. \A s \in sizes : left[s] = SumFunctionOnSet(spare, alike[s])
    OBVIOUS
  <2>2. \A s \in sizes : IsFiniteSet(alike[s]) /\ \A g \in alike[s] : spare[g] \in Nat
    BY <1>4, <1>6
  <2> HIDE DEF spare, left, alike, sizes
  <2>3. SumFunctionOnSet(spare, UNION {alike[s] : s \in sizes}) = SumFunctionOnSet(left, sizes)
    <3>1. IsFiniteSet(sizes) /\ (\A s \in sizes : IsFiniteSet(alike[s]))
          /\ (\A s \in sizes : \A g \in alike[s] : spare[g] \in Nat)
      BY <1>5, <2>2
    <3> HIDE DEF united
    <3> QED
      BY <1>7, <2>1, <3>1, SumOfParts
  <2>4. SumFunctionOnSet(spare, united) = SumFunctionOnSet(left, sizes)
    BY <2>3
  <2> HIDE DEF united
  <2> QED
    BY <1>8, <2>4 DEF spare
<1>12. /\ SharedSizes \in SUBSET Nat /\ IsFiniteSet(SharedSizes)
       /\ \A s \in SharedSizes : most[s] \in Nat /\ most[s] = (Listings(s) - 1) * s
  <2> SUFFICES ASSUME NEW s \in SharedSizes PROVE most[s] \in Nat
    BY SharedMeans
  <2>1. s \in Nat /\ Listings(s) - 1 \in Nat
    BY SharedMeans
  <2>2. (Listings(s) - 1) * s \in Nat
    BY <2>1
  <2> QED
    BY <2>2
<1>13. AtStake = SumFunctionOnSet(most, SharedSizes)
  BY DEF AtStake
<1> HIDE DEF left, most, sizes, alike
<1>14. SumFunctionOnSet(left, sizes) <= SumFunctionOnSet(most, sizes)
  <2>1. \A s \in sizes : left[s] \in Nat /\ most[s] \in Nat /\ left[s] <= most[s]
    BY <1>10, <1>12
  <2> QED
    BY <1>5, <2>1, SumAtMost
<1>15. SumFunctionOnSet(most, sizes) <= SumFunctionOnSet(most, SharedSizes)
  <2>1. sizes \in SUBSET SharedSizes
    BY <1>10
  <2> QED
    BY <1>12, <2>1, SumOfPart
<1>16. /\ SumFunctionOnSet(left, sizes) \in Nat /\ SumFunctionOnSet(most, sizes) \in Nat
       /\ SumFunctionOnSet(most, SharedSizes) \in Nat
  <2>1. \A s \in sizes : left[s] \in Nat /\ most[s] \in Nat
    BY <1>10, <1>12
  <2>2. \A s \in SharedSizes : most[s] \in Nat
    BY <1>12
  <2> QED
    BY <1>5, <1>12, <2>1, <2>2, SumIsNat
<1>17. SumFunctionOnSet(Spare(calm), calm) <= AtStake
  BY <1>11, <1>13, <1>14, <1>15, <1>16
<1>18. search.stake = {AtStake}
  <2>1. SharedSizes # {}
    BY <1>5, <1>10
  <2> QED
    BY <1>1, <2>1, StakeMeans
<1>19. \E stake \in search.stake, found \in ReclaimableBytes(calm) : found <= stake
  BY <1>4, <1>17, <1>18
<1> QED
  BY <1>19 DEF calm

(* The first stage never finds less at stake than the second, in the files   *)
(* that nobody altered since.                                                *)
THEOREM StakeAlwaysCovers == DuplicateSpec => []StakeCoversFinding
<1> QED
  BY FindInit, FindNext, StakeFollows, PTL DEF DuplicateSpec

(* The types of find-duplicates. *)
LEMMA FindTypes ==
  ASSUME FindIInv
  PROVE  DuplicateTypes
<1> USE DEF FindIInv
<1>1. search.sizes \in PartialTo(Nat) /\ search.read \in PartialTo(Texts)
  BY DEF SearchShaped, Searches
<1>2. DOMAIN search.sizes \cup DOMAIN search.read \subseteq Found
  BY <1>1, PartialMeans
<1>3. search.stake \subseteq Nat /\ Cardinality(search.stake) <= 1
  <2>1. search.stake = {} \/ \E n \in Nat : search.stake = {n}
    BY DEF SearchShaped, Searches, Known1
  <2>2. Cardinality({}) = 0 /\ \A n \in Nat : Cardinality({n}) = 1
    BY FS_EmptySet, FS_Singleton
  <2>3. 0 <= 1 /\ 1 <= 1 /\ {} \subseteq Nat /\ \A n \in Nat : {n} \subseteq Nat
    OBVIOUS
  <2> QED
    BY <2>1, <2>2, <2>3
<1>4. search.groups \subseteq SUBSET Found /\ DOMAIN search.lengths \subseteq search.groups
  BY DEF SearchShaped, Searches, Grouped
<1> QED
  BY <1>2, <1>3, <1>4 DEF DuplicateTypes, SearchShaped, Searches, Grouped
=============================================================================
