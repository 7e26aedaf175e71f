------------------------------- MODULE Recipe -------------------------------
(***************************************************************************)
(* find-recipe (_measure/_regenerable.py): may this directory be discarded *)
(* and rebuilt?  A cache may, an environment may if a recipe that rebuilds *)
(* it is found in it or above it, or is named by the caller.  The tree and *)
(* the recipes may change while they are looked at.                        *)
(***************************************************************************)
EXTENDS Integers, FiniteSets, Sequences, SequencesExt

CONSTANTS
  Marks,          \* what may be found in a directory
  RecipeKinds,    \* what a recipe may rebuild
  RootLevel,      \* how far up the filesystem's root is; the directory is at level 0
  MaxMarks,       \* bound: marks in the directory at first
  MaxMoves        \* bound: changes of the directory and the recipes

(* ENVIRONMENT_MARKERS, then site-packages, then dist-info, in the order in *)
(* which they are looked for, and SPEC_FILES: what a recipe must rebuild.   *)
MarkerOrder == <<"pyvenv.cfg", "conda-meta", "renv/library", "node_modules", "site-packages", "dist-info">>
Serves == [m \in Range(MarkerOrder) |->
  CASE m = "conda-meta" -> "conda" [] m = "renv/library" -> "r" [] m = "node_modules" -> "node"
    [] OTHER -> "python"]

ASSUME RecipeAssumption ==
  /\ Marks \subseteq Range(MarkerOrder) \cup {"CACHEDIR.TAG", "pkgs", "data", ".hidden", "x.pyc"}
  /\ RecipeKinds \subseteq {"python", "conda", "r", "node"}
  /\ {RootLevel, MaxMarks, MaxMoves} \subseteq Nat

VARIABLES
  candidate,   \* the path: what it is, what is in it, whether it is named __pycache__
  recipes,     \* [level, kind] of the recipes in it and above it
  supplied,    \* the recipes that the caller names: "none", "missing" or "there"
  bound,       \* the level of stop_at; RootLevel without one, or with one that is not above the path
  look,        \* the question
  moves,
  beenThere,   \* history: the recipes and marks that were there since the question was asked
  stillThere   \* history: the recipes that were there all the while

recipeVars == <<candidate, recipes, supplied, bound, look, moves, beenThere, stillThere>>

Places == (0..RootLevel) \X RecipeKinds
Given  == <<-1, "recipe">>    \* a recipe that the caller names
NoLook == [at |-> "ask", next |-> 1, marker |-> "none", verdict |-> "none", from |-> <<>>]

RecipeTypes ==
  /\ candidate \in [is : {"absent", "file", "unreadable", "directory"}, has : SUBSET Marks, named : BOOLEAN]
  /\ recipes \subseteq Places /\ supplied \in {"none", "missing", "there"} /\ bound \in 0..RootLevel
  /\ look.at \in {"ask", "list", "tag", "entries", "marker", "climb", "supplied", "answered"}
  /\ look.next \in 0..RootLevel \cup 1..Len(MarkerOrder) + 1 /\ look.marker \in Marks \cup {"none"}
  /\ look.verdict \in {"regenerable", "cache", "not-regenerable", "could-not-look", "none"}
  /\ look.verdict = "none" <=> look.at # "answered"
  /\ look.from \in {<<>>, Given} \cup Places
  /\ look.verdict = "regenerable" <=> look.from # <<>>
  /\ beenThere \subseteq Places \cup {Given} \cup ({0} \X Marks) /\ stillThere \subseteq recipes

RecipeInit ==
  /\ \E is \in {"absent", "file", "unreadable", "directory"}, has \in SUBSET Marks, named \in BOOLEAN :
       /\ candidate = [is |-> is, has |-> has, named |-> named]
       /\ Cardinality(has) <= IF is = "directory" THEN MaxMarks ELSE 0
       /\ named => "x.pyc" \in has
  /\ recipes \in SUBSET Places /\ Cardinality(recipes) <= 1
  /\ supplied \in {"none", "missing", "there"} /\ bound \in 0..RootLevel
  /\ look = NoLook /\ moves = 0 /\ beenThere = {} /\ stillThere = {}

-----------------------------------------------------------------------------
Seen == recipes \cup {<<0, m>> : m \in {m \in candidate.has : candidate.is = "directory"}}
                \cup {g \in {Given} : supplied = "there"}

(* What goes on in the tree and above it while it is looked at. *)
Moves ==
  /\ look.at # "answered" /\ moves < MaxMoves /\ moves' = moves + 1
  /\ \/ \E r \in Places :
          /\ recipes' = IF r \in recipes THEN recipes \ {r} ELSE recipes \cup {r}
          /\ UNCHANGED <<candidate, supplied>>
     \/ \E m \in Marks :
          /\ candidate.is = "directory"
          /\ candidate' = [candidate EXCEPT !.has = IF m \in @ THEN @ \ {m} ELSE @ \cup {m}]
          /\ UNCHANGED <<recipes, supplied>>
     \/ \E is \in {"absent", "unreadable"} :
          /\ candidate.is = "directory" /\ candidate' = [candidate EXCEPT !.is = is]
          /\ UNCHANGED <<recipes, supplied>>
     \/ /\ supplied # "none" /\ supplied' = IF supplied = "there" THEN "missing" ELSE "there"
        /\ UNCHANGED <<candidate, recipes>>
  /\ beenThere' = IF look.at = "ask" THEN {} ELSE beenThere \cup Seen'
  /\ stillThere' = stillThere \cap recipes'
  /\ UNCHANGED <<bound, look>>

Steps(step, next) == look' = [look EXCEPT !.at = step, !.next = next]
Answers(verdict, from) == look' = [look EXCEPT !.at = "answered", !.verdict = verdict, !.from = from]
Looking == UNCHANGED <<candidate, recipes, supplied, bound, moves, beenThere, stillThere>>

(* is_regenerable: what is not there, or is a file, is not looked into. *)
Ask ==
  /\ look.at = "ask"
  /\ IF candidate.is \in {"absent", "file"} THEN Answers("could-not-look", <<>>) ELSE Steps("list", 1)
  /\ beenThere' = Seen /\ stillThere' = recipes
  /\ UNCHANGED <<candidate, recipes, supplied, bound, moves>>

List ==
  /\ look.at = "list"
  /\ IF candidate.is = "directory" THEN Steps("tag", 1) ELSE Answers("could-not-look", <<>>)
  /\ Looking

Has(m) == candidate.is = "directory" /\ m \in candidate.has

(* detect_cache: the tag; or, without what is hidden, nothing but pkgs; or *)
(* a __pycache__ that holds a .pyc.                                        *)
Tag ==
  /\ look.at = "tag"
  /\ IF Has("CACHEDIR.TAG") THEN Answers("cache", <<>>) ELSE Steps("entries", 1)
  /\ Looking

Entries ==
  /\ look.at = "entries"
  /\ IF \/ candidate.is = "directory" /\ candidate.has \ {".hidden"} = {"pkgs"}
        \/ Has("x.pyc") /\ candidate.named
     THEN Answers("cache", <<>>)
     ELSE Steps("marker", 1)
  /\ Looking

(* detect_environment: the first marker that is found names the ecosystem. *)
Marker ==
  /\ look.at = "marker"
  /\ IF look.next > Len(MarkerOrder) THEN Answers("not-regenerable", <<>>)
     ELSE IF Has(MarkerOrder[look.next])
     THEN look' = [look EXCEPT !.at = "climb", !.next = 0, !.marker = MarkerOrder[look.next]]
     ELSE Steps("marker", look.next + 1)
  /\ Looking

Here == <<look.next, Serves[look.marker]>>

(* Fault: the boundary itself is not looked into. *)
ClimbShort ==
  /\ look.at = "climb"
  /\ IF look.next = bound THEN Steps("supplied", 0)
     ELSE IF Here \in recipes THEN Answers("regenerable", Here)
     ELSE Steps("climb", look.next + 1)
  /\ Looking

(* find_spec, one level at a time, up to and with the boundary. *)
Climb ==
  /\ look.at = "climb"
  /\ IF Here \in recipes THEN Answers("regenerable", Here)
     ELSE IF look.next = bound THEN Steps("supplied", 0)
     ELSE Steps("climb", look.next + 1)
  /\ Looking

(* extra_spec_paths: the first that is a file, whatever it rebuilds. *)
Supplied ==
  /\ look.at = "supplied"
  /\ IF supplied = "there" THEN Answers("regenerable", Given)
     ELSE Answers("not-regenerable", <<>>)
  /\ Looking

RecipeNext == Moves \/ Ask \/ List \/ Tag \/ Entries \/ Marker \/ Climb \/ Supplied

RecipeSpec == RecipeInit /\ [][RecipeNext]_recipeVars

-----------------------------------------------------------------------------
(* find-recipe is right both ways, whatever changes while it looks: a recipe *)
(* that it answers with was there, within the boundary, and rebuilds an      *)
(* environment whose marker was there; and an environment is called the only *)
(* copy only if no recipe for it stood within the boundary all the while.    *)
RecipeIsTrue ==
  /\ look.verdict = "regenerable" =>
       /\ {<<0, look.marker>>, look.from} \subseteq beenThere
       /\ look.from = Given \/ (look.from[1] <= bound /\ look.from[2] = Serves[look.marker])
  /\ look.verdict = "not-regenerable" /\ look.marker # "none" =>
       \A r \in stillThere : r[2] = Serves[look.marker] => r[1] > bound
=============================================================================
