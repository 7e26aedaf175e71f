----------------------------- MODULE Duplicates -----------------------------
(***************************************************************************)
(* find-duplicates (_measure/_duplicates.py, _cli/_duplicates_cmd.py): the *)
(* stat-only stage groups files by size, fclones reads them and groups     *)
(* them by content, then the groups are sized, a file at a time, while     *)
(* files are written, made and removed.                                    *)
(***************************************************************************)
EXTENDS Integers, FiniteSets, FiniteSetsExt, Functions

CONSTANTS
  Found,       \* the files, numbered in the order of their paths
  Tops,        \* the directories that are searched, numbered in the order given
  Under,       \* the Tops that each file is under: more than one if they nest
  Texts,       \* contents
  SizeOf,      \* the length of each
  MaxRewrites  \* bound: files written, made and removed

Missing == "missing"         \* no such file, or one that cannot be read

ASSUME DuplicatesAssumption ==
  /\ Found \subseteq Nat /\ Tops \subseteq Nat /\ IsFiniteSet(Found) /\ IsFiniteSet(Tops)
  /\ Missing \notin Texts
  /\ Under \in [Found -> (SUBSET Tops) \ {{}}]
  /\ SizeOf \in [Texts -> Nat \ {0}] /\ MaxRewrites \in Nat

VARIABLES
  text,       \* what each file holds
  search,     \* the command: the call it makes next, what is left of that stage, what it knows
  rewrites,
  altered     \* history: files written, made or removed since they were stat-ed, or were read

duplicateVars == <<text, search, rewrites, altered>>

Unknown1 == {}                \* None; a measured number is a set of one
NoSearch == [at |-> "start", left |-> {}, sizes |-> <<>>, stake |-> Unknown1,
             read |-> <<>>, groups |-> {}, lengths |-> <<>>, signal |-> "none"]
Present  == {f \in Found : text[f] # Missing}

DuplicateTypes ==
  /\ text \in [Found -> Texts \cup {Missing}] /\ rewrites \in 0..MaxRewrites
  /\ search.at \in {"start", "stat", "read", "size", "answered"}
  /\ search.left \subseteq Found /\ DOMAIN search.sizes \cup DOMAIN search.read \subseteq Found
  /\ search.groups \subseteq SUBSET Found /\ DOMAIN search.lengths \subseteq search.groups
  /\ search.stake \subseteq Nat /\ Cardinality(search.stake) <= 1
  /\ search.signal \in {"movable", "could-not-look", "none"}
  /\ search.signal # "none" <=> search.at = "answered"
  /\ altered \in [{"stat", "read"} -> SUBSET Found]

DuplicateInit ==
  /\ text \in [Found -> Texts \cup {Missing}]
  /\ search = NoSearch /\ rewrites = 0 /\ altered = [s \in {"stat", "read"} |-> {}]

-----------------------------------------------------------------------------
Rewrite(f, t) ==
  /\ rewrites < MaxRewrites /\ text[f] # t /\ search.at # "answered"
  /\ text' = [text EXCEPT ![f] = t] /\ rewrites' = rewrites + 1
  /\ altered' = [s \in {"stat", "read"} |-> altered[s] \cup {f}]
  /\ UNCHANGED search

(* A stage begins: what is altered from now on is altered since. *)
Fresh(stage) == altered' = [altered EXCEPT ![stage] = {}]

(* size_groups: the directories are listed. *)
StartSizes ==
  /\ search.at = "start"
  /\ search' = [search EXCEPT !.at = "stat", !.left = Present]
  /\ Fresh("stat") /\ UNCHANGED <<text, rewrites>>

StatEntry(f) ==
  /\ search.at = "stat" /\ f \in search.left
  /\ search' = [search EXCEPT !.left = @ \ {f},
       !.sizes = [g \in DOMAIN @ \cup ({f} \cap Present) |-> IF g = f THEN SizeOf[text[f]] ELSE @[g]]]
  /\ UNCHANGED <<text, rewrites, altered>>

(* Walks of nested directories list a file more than once. *)
Listings(size) ==
  SumFunction([f \in {f \in DOMAIN search.sizes : search.sizes[f] = size} |-> Cardinality(Under[f])])

(* Fault: a size counts from three files on. *)
SizesOfThree == {s \in {search.sizes[f] : f \in DOMAIN search.sizes} : Listings(s) > 2}

SharedSizes == {s \in {search.sizes[f] : f \in DOMAIN search.sizes} : Listings(s) >= 2}

(* candidate_bytes of the sizes that two files or more share. *)
CandidateBytes ==
  IF SharedSizes = {} THEN Unknown1
  ELSE {SumFunction([s \in SharedSizes |-> (Listings(s) - 1) * s])}

(* The second stage begins: fclones lists the files. *)
StartReading ==
  /\ search.at = "stat" /\ search.left = {}
  /\ search' = [search EXCEPT !.at = "read", !.left = Present, !.stake = CandidateBytes]
  /\ Fresh("read") /\ UNCHANGED <<text, rewrites>>

ReadEntry(f) ==
  /\ search.at = "read" /\ f \in search.left
  /\ search' = [search EXCEPT !.left = @ \ {f},
       !.read = [g \in DOMAIN @ \cup ({f} \cap Present) |-> IF g = f THEN text[f] ELSE @[g]]]
  /\ UNCHANGED <<text, rewrites, altered>>

SameText(t) == {f \in DOMAIN search.read : search.read[f] = t}

(* fclones group answers, or is missing or fails: duplicates_signal(None). *)
Group ==
  /\ search.at = "read" /\ search.left = {}
  /\ \/ search' = [search EXCEPT !.at = "size",
                     !.groups = {g \in {SameText(t) : t \in Texts} : Cardinality(g) >= 2}]
     \/ search' = [search EXCEPT !.at = "answered", !.signal = "could-not-look"]
  /\ UNCHANGED <<text, rewrites, altered>>

(* The first member that can be stat-ed gives a group its length. *)
SizeGroup(g) ==
  /\ search.at = "size" /\ g \in search.groups \ DOMAIN search.lengths
  /\ search' = [search EXCEPT !.lengths = [h \in DOMAIN @ \cup {g} |->
       IF h # g THEN @[h]
       ELSE IF g \cap Present = {} THEN Unknown1
       ELSE {SizeOf[text[Min(g \cap Present)]]}]]
  /\ UNCHANGED <<text, rewrites, altered>>

Measured1 == {g \in DOMAIN search.lengths : search.lengths[g] # Unknown1}
Length1(g) == CHOOSE n \in search.lengths[g] : TRUE

(* Fault: every copy is counted. *)
ReclaimableOfAll(groups) ==
  IF groups = {} THEN Unknown1
  ELSE {SumFunction([g \in groups |-> Cardinality(g) * Length1(g)])}

(* reclaimable_bytes of the groups that could be sized: one of each is kept. *)
ReclaimableBytes(groups) ==
  IF groups = {} THEN Unknown1
  ELSE {SumFunction([g \in groups |-> (Cardinality(g) - 1) * Length1(g)])}

(* duplicates_signal: never a holder; without a number, nothing is said. *)
AnswerDuplicates ==
  /\ search.at = "size" /\ DOMAIN search.lengths = search.groups
  /\ search' = [search EXCEPT !.at = "answered",
       !.signal = IF search.groups # {} /\ ReclaimableBytes(Measured1) = Unknown1
                  THEN "could-not-look" ELSE "movable"]
  /\ UNCHANGED <<text, rewrites, altered>>

DuplicateNext ==
  \/ StartSizes \/ StartReading \/ Group \/ AnswerDuplicates
  \/ \E f \in Found : StatEntry(f) \/ ReadEntry(f) \/ \E t \in Texts \cup {Missing} : Rewrite(f, t)
  \/ \E g \in SUBSET Found : SizeGroup(g)

DuplicateSpec == DuplicateInit /\ [][DuplicateNext]_duplicateVars

-----------------------------------------------------------------------------
(* overlap_bytes: a file belongs to the first of the directories that it is *)
(* under.                                                                   *)
Owner(f) == Min(Under[f])
OwnedIn(g, a) == {f \in g : Owner(f) = a}

Overlap1(a, b) ==
  SumFunction([g \in Measured1 |-> Length1(g) *
    (IF a = b THEN Max({0, Cardinality(OwnedIn(g, a)) - 1})
     ELSE IF OwnedIn(g, b) = {} THEN 0 ELSE Cardinality(OwnedIn(g, a)))])

OwnsAll(a) == \A f \in Found : a \in Under[f] => Owner(f) = a

Bytes1(files) == SumFunction([f \in files |-> SizeOf[text[f]]])

(* What is under a and also under b. *)
AlsoIn(a, b) == {f \in Present : a \in Under[f] /\ \E g \in Present : b \in Under[g] /\ text[g] = text[f]}
Finished == search.signal = "movable" \/ (search.at = "answered" /\ search.groups # {})

(* What find-duplicates says can be removed can: of the groups whose files   *)
(* nobody altered since fclones read them, one of each is left, and the rest *)
(* hold the bytes that are reported; and no file left alone that has an      *)
(* equal left alone is passed over.  Between directories that do not lie in  *)
(* one listed before them, the overlap is what is under one and also under   *)
(* the other.                                                                *)
FindingIsTrue ==
  Finished =>
    LET calm == {g \in search.groups : g \cap altered["read"] = {}}
        untouched == Present \ altered["read"]
    IN /\ \A g \in calm : \A f, h \in g : text[f] = text[h] /\ text[f] # Missing
       /\ calm # {} => ReclaimableBytes(calm) =
            {Bytes1(UNION calm) - SumFunction([g \in calm |-> SizeOf[text[Min(g)]]])}
       /\ \A f, h \in untouched : f # h /\ text[f] = text[h] => \E g \in search.groups : {f, h} \subseteq g
       /\ altered["read"] = {} => \A a, b \in Tops :
            a # b /\ OwnsAll(a) /\ OwnsAll(b) => Overlap1(a, b) = Bytes1(AlsoIn(a, b))

(* "the most the hashing stage could confirm as redundant"                   *)
(* (_duplicates.py:272-273): what the first stage finds at stake is never    *)
(* less than what the second finds, in the files nobody altered in between.  *)
StakeCoversFinding ==
  Finished =>
    LET calm == {g \in search.groups : g \cap altered["stat"] = {}} IN
    calm # {} => \E stake \in search.stake, found \in ReclaimableBytes(calm) : found <= stake
=============================================================================
