------------------------------- MODULE Images -------------------------------
(***************************************************************************)
(* images prune (_images.py): a directory of versioned images is rotated   *)
(* down to the newest Keep, sparing what symlinks point to and what        *)
(* processes have open.  The plan is computed first and applied an image   *)
(* at a time, while builders add images, deployments swap symlinks and     *)
(* processes open what the symlinks point to.                              *)
(***************************************************************************)
EXTENDS Integers, FiniteSets, Functions

CONSTANTS
  Images,     \* images, numbered in the order they are built (their mtime)
  Aliases,    \* names of symlinks
  InDir,      \* the aliases that stand directly in the directory
  Users,      \* processes that run from an image
  Keep,       \* --keep
  MaxPrunes,  \* bound: prune commands
  MaxSwaps,   \* bound: symlink changes
  MaxOpens    \* bound: images opened

ASSUME ImagesAssumption == Images \subseteq Nat \ {0} /\ Keep \in Nat
ASSUME AliasAssumption  == InDir \subseteq Aliases
ASSUME ImageBounds == MaxPrunes \in Nat /\ MaxSwaps \in Nat /\ MaxOpens \in Nat

VARIABLES
  stored,     \* the images in the directory
  points,     \* what each alias names, an image that may be gone, or 0
  opened,     \* the image each process runs from, or 0
  prune,      \* the prune command under way
  built, swaps, opens, prunes,
  taken       \* history: images linked or opened since the prune looked for that

imageVars == <<stored, points, opened, prune, built, swaps, opens, prunes, taken>>

NoPrune == [at |-> "idle", unread |-> {}, referenced |-> {}, remove |-> {}]

ImageTypes ==
  /\ stored \subseteq Images /\ stored \subseteq 1..built
  /\ points \in [Aliases -> Images \cup {0}] /\ opened \in [Users -> Images \cup {0}]
  /\ prune \in [at : {"idle", "links", "look", "unlink"}, unread : SUBSET InDir,
                referenced : SUBSET Images, remove : SUBSET (1..built)]
  /\ prune.at = "unlink" => prune.remove # {}
  /\ built \in {0} \cup Images /\ swaps \in 0..MaxSwaps /\ opens \in 0..MaxOpens
  /\ prunes \in 0..MaxPrunes
  /\ taken \in [{"link", "open"} -> SUBSET Images]

ImageInit ==
  /\ stored = {} /\ built = 0
  /\ points = [a \in Aliases |-> 0] /\ opened = [u \in Users |-> 0]
  /\ prune = NoPrune
  /\ swaps = 0 /\ opens = 0 /\ prunes = 0
  /\ taken = [w \in {"link", "open"} |-> {}]

-----------------------------------------------------------------------------
(* The builder, the deployments and the processes *)

Build(i) ==
  /\ i = built + 1
  /\ built' = i
  /\ stored' = stored \cup {i}
  /\ UNCHANGED <<points, opened, prune, swaps, opens, prunes, taken>>

(* A symlink is made, swapped to an image that is there, or removed (0). *)
Swap(a, i) ==
  /\ swaps < MaxSwaps /\ i \in stored \cup {0} /\ points[a] # i
  /\ points' = [points EXCEPT ![a] = i]
  /\ swaps' = swaps + 1
  /\ taken' = [taken EXCEPT !["link"] = @ \cup ({i} \ {0})]
  /\ UNCHANGED <<stored, opened, prune, built, opens, prunes>>

(* A process starts from the image an alias names, or ends. *)
Boot(u, a) ==
  /\ opened[u] = 0 /\ opens < MaxOpens /\ points[a] \in stored
  /\ opened' = [opened EXCEPT ![u] = points[a]]
  /\ opens' = opens + 1
  /\ taken' = [taken EXCEPT !["open"] = @ \cup {points[a]}]
  /\ UNCHANGED <<stored, points, prune, built, swaps, prunes>>

Exit(u) ==
  /\ opened[u] # 0
  /\ opened' = [opened EXCEPT ![u] = 0]
  /\ UNCHANGED <<stored, points, prune, built, swaps, opens, prunes, taken>>

-----------------------------------------------------------------------------
(* images prune --apply *)

StartPrune ==
  /\ prune.at = "idle" /\ prunes < MaxPrunes
  /\ prune' = [NoPrune EXCEPT !.at = "links", !.unread = InDir]
  /\ prunes' = prunes + 1
  /\ taken' = [taken EXCEPT !["link"] = {}]
  /\ UNCHANGED <<stored, points, opened, built, swaps, opens>>

(* _referenced_targets: one symlink after the other is resolved. *)
ReadLink(a) ==
  /\ prune.at = "links" /\ a \in prune.unread
  /\ prune' = [prune EXCEPT !.unread = @ \ {a}, !.referenced = @ \cup ({points[a]} \ {0})]
  /\ UNCHANGED <<stored, points, opened, built, swaps, opens, prunes, taken>>

(* Fault: a symlink to an image that is gone is taken for a retained image. *)
RemovalsByTargets(referenced) ==
  LET unreferenced == stored \ referenced
  IN {i \in unreferenced :
        Cardinality({j \in unreferenced : j > i}) + Cardinality(referenced) >= Keep}

(* plan_prune: of the unreferenced images the newest are kept, as many as    *)
(* the referenced ones leave of Keep, and the others removed.                *)
Removals(referenced) ==
  LET unreferenced == stored \ referenced
  IN {i \in unreferenced :
        Cardinality({j \in unreferenced : j > i}) + Cardinality(referenced \cap stored) >= Keep}

Plan ==
  /\ prune.at = "links" /\ prune.unread = {}
  /\ prune' = [prune EXCEPT !.at = "look", !.remove = Removals(prune.referenced)]
  /\ UNCHANGED <<stored, points, opened, built, swaps, opens, prunes, taken>>

(* The newest is the next. *)
IsNext(i) == i \in prune.remove /\ \A j \in prune.remove : j <= i

(* Fault: what processes have open is not looked for. *)
LookAtNobody(i) ==
  /\ prune.at = "look" /\ IsNext(i)
  /\ prune' = IF i \notin stored THEN NoPrune ELSE [prune EXCEPT !.at = "unlink"]
  /\ taken' = [taken EXCEPT !["open"] = {}]
  /\ UNCHANGED <<stored, points, opened, built, swaps, opens, prunes>>

(* apply_prune: the image must still be there, or the command stops; one     *)
(* that a process has open is passed over.                                   *)
Look(i) ==
  /\ prune.at = "look" /\ IsNext(i)
  /\ prune' = IF i \notin stored THEN NoPrune
              ELSE IF i \in Range(opened) THEN [prune EXCEPT !.remove = @ \ {i}]
              ELSE [prune EXCEPT !.at = "unlink"]
  /\ taken' = [taken EXCEPT !["open"] = {}]
  /\ UNCHANGED <<stored, points, opened, built, swaps, opens, prunes>>

(* Fault: processes are looked for once, before the first removal. *)
UnlinkOnAndOn(i) ==
  /\ prune.at = "unlink" /\ IsNext(i)
  /\ stored' = stored \ {i}
  /\ prune' = [prune EXCEPT !.remove = @ \ {i}]
  /\ UNCHANGED <<points, opened, built, swaps, opens, prunes, taken>>

(* The image is unlinked, and the next one looked at. *)
UnlinkImage(i) ==
  /\ prune.at = "unlink" /\ IsNext(i)
  /\ stored' = stored \ {i}
  /\ prune' = [prune EXCEPT !.at = "look", !.remove = @ \ {i}]
  /\ UNCHANGED <<points, opened, built, swaps, opens, prunes, taken>>

(* All removed, or the command is stopped. *)
EndPrune ==
  /\ prune.at # "idle"
  /\ prune' = NoPrune
  /\ UNCHANGED <<stored, points, opened, built, swaps, opens, prunes, taken>>

PruneStep ==
  \/ StartPrune \/ (\E a \in Aliases : ReadLink(a)) \/ Plan
  \/ (\E i \in Images : Look(i) \/ UnlinkImage(i)) \/ EndPrune

ImageNext ==
  \/ PruneStep
  \/ \E i \in Images : Build(i)
  \/ \E a \in Aliases, i \in Images \cup {0} : Swap(a, i)
  \/ \E u \in Users : Exit(u) \/ \E a \in Aliases : Boot(u, a)

ImageSpec == ImageInit /\ [][ImageNext]_imageVars

-----------------------------------------------------------------------------
(* An image that an alias of the directory names, or a process runs from, is *)
(* removed only if it came to be named after the prune began to read the     *)
(* links, or was opened after the prune looked for processes that have it    *)
(* open: the windows the plan and the checks leave.                          *)
LiveIsRemovedOnlyInWindow ==
  [][\A i \in stored \ stored' :
       /\ (\E a \in InDir : points[a] = i) => i \in taken["link"]
       /\ (\E u \in Users : opened[u] = i) => i \in taken["open"]]_imageVars

(* Rotation never runs the directory dry: however builds, swaps, removals    *)
(* and prunes follow each other, at least Keep images stay, or all there     *)
(* have been.                                                                *)
KeepsEnough == Cardinality(stored) >= IF built < Keep THEN built ELSE Keep

(* "Rotation must never delete the file a live symlink resolves to"          *)
(* (_images.py:13): with no swap and no boot after the links were read, no   *)
(* image that any alias names is removed.                                    *)
LiveImageIsKept ==
  [][\A i \in stored \ stored' : (\E a \in Aliases : points[a] = i) => i \in taken["link"]]_imageVars
=============================================================================
