---------------------------- MODULE CommandProofs ---------------------------
(***************************************************************************)
(* Commands keeps its types and its promises, for any parameters: images   *)
(* prune, document-sorter (one run at a time), the GUI server, the volume  *)
(* pages, fleet-status and the storage broker one by one, and then all     *)
(* parts, with those of VerdictProofs, as the one system that Commands     *)
(* puts together.                                                          *)
(***************************************************************************)
EXTENDS Commands, VerdictProofs

(* A bounded set of naturals that is not empty has a greatest member. *)
LEMMA GreatestIsThere ==
  ASSUME NEW b \in Nat, NEW S \in SUBSET (1..b), S # {}
  PROVE  \E n \in S : \A m \in S : m <= n
<1> DEFINE left == {b - m : m \in S}
<1>0. ASSUME NEW m \in S PROVE b - m \in Nat
  <2>1. m \in 1..b
    OBVIOUS
  <2> QED
    BY <2>1
<1>1. left \in SUBSET Nat /\ left # {}
  BY <1>0
<1>2. PICK l \in left : \A m \in left : l <= m
  <2> HIDE DEF left
  <2> QED
    BY <1>1, LeastIsThere
<1>3. PICK n \in S : l = b - n
  OBVIOUS
<1>4. ASSUME NEW m \in S PROVE m <= n
  <2>1. b - n <= b - m
    BY <1>2, <1>3
  <2>2. m \in 1..b /\ n \in 1..b
    OBVIOUS
  <2> QED
    BY <2>1, <2>2
<1> QED
  BY <1>4

-----------------------------------------------------------------------------
(* images prune *)

Least == IF built < Keep THEN built ELSE Keep

(* What is not to be removed is enough. *)
Enough ==
  /\ prune.at \in {"idle", "links"} => prune.remove = {}
  /\ Cardinality(stored \ prune.remove) >= Least

(* What is to be removed and is named by a link was named after they were    *)
(* read; what is next and is open was opened after it was looked at.         *)
Spared ==
  /\ prune.at = "links" =>
       \A a \in InDir \ prune.unread : points[a] \in prune.referenced \cup {0} \cup taken["link"]
  /\ prune.at \in {"look", "unlink"} =>
       \A a \in InDir : points[a] \in prune.remove => points[a] \in taken["link"]
  /\ prune.at = "unlink" =>
       \A u \in Users : IsNext(opened[u]) => opened[u] \in taken["open"]

ImageIInv == ImageTypes /\ Enough /\ Spared

LEMMA StoredIsFinite ==
  ASSUME ImageTypes
  PROVE  /\ built \in Nat /\ IsFiniteSet(1..built) /\ IsFiniteSet(stored)
         /\ Least \in Nat /\ Least <= built /\ Least <= Keep
<1>1. built \in Nat
  BY ImagesAssumption DEF ImageTypes
<1>2. IsFiniteSet(1..built)
  BY <1>1, FS_Interval
<1>3. IsFiniteSet(stored)
  BY <1>2, FS_Subset DEF ImageTypes
<1> QED
  BY <1>1, <1>2, <1>3, ImagesAssumption DEF Least

(* A plan that removes anything leaves Keep: of the removed take the newest; *)
(* the newer ones and the referenced ones stay.                              *)
LEMMA RemovalsLeaveEnough ==
  ASSUME ImageTypes, NEW referenced, Removals(referenced) # {}
  PROVE  Cardinality(stored \ Removals(referenced)) >= Keep
<1> DEFINE out  == Removals(referenced)
           unreferenced == stored \ referenced
<1>1. out \subseteq unreferenced /\ out \subseteq 1..built /\ stored \subseteq Nat
  BY ImagesAssumption DEF Removals, ImageTypes
<1>2. PICK r \in out : \A j \in out : j <= r
  BY <1>1, GreatestIsThere, StoredIsFinite
<1> DEFINE newer == {j \in unreferenced : j > r}
           named == referenced \cap stored
<1>3. Cardinality(newer) + Cardinality(named) >= Keep
  BY <1>2 DEF Removals
<1>4. newer \cup named \subseteq stored \ out /\ newer \cap named = {}
  BY <1>1, <1>2
<1>5. IsFiniteSet(newer) /\ IsFiniteSet(named) /\ IsFiniteSet(stored \ out)
  BY StoredIsFinite, FS_Subset
<1> HIDE DEF out, unreferenced, newer, named
<1>6. Cardinality(newer \cup named) = Cardinality(newer) + Cardinality(named) - Cardinality({})
  BY <1>4, <1>5, FS_Union
<1>7. Cardinality(newer \cup named) <= Cardinality(stored \ out)
  BY <1>4, <1>5, FS_Subset
<1>8. /\ Cardinality(newer) \in Nat /\ Cardinality(named) \in Nat
      /\ Cardinality({}) = 0 /\ Cardinality(stored \ out) \in Nat
  BY <1>5, FS_CardinalityType, FS_EmptySet
<1>9. Cardinality(stored \ out) >= Keep
  BY <1>3, <1>6, <1>7, <1>8, ImagesAssumption
<1> QED
  BY <1>9 DEF out

LEMMA ImageInitIsGood == ImageInit => ImageIInv
<1> SUFFICES ASSUME ImageInit PROVE ImageIInv
  OBVIOUS
<1>1. ImageTypes
  BY ImageBounds DEF ImageInit, ImageTypes, NoPrune
<1>2. Enough
  <2>1. Cardinality({}) = 0 /\ stored \ prune.remove = {} /\ prune.remove = {}
    BY FS_EmptySet DEF ImageInit, NoPrune
  <2> QED
    BY <2>1, ImagesAssumption DEF Enough, ImageInit, Least
<1>3. Spared
  BY DEF ImageInit, Spared, NoPrune
<1> QED
  BY <1>1, <1>2, <1>3 DEF ImageIInv

LEMMA EnoughIsKept == ImageTypes /\ Enough => KeepsEnough
<1> SUFFICES ASSUME ImageTypes, Enough PROVE KeepsEnough
  OBVIOUS
<1>1. Cardinality(stored \ prune.remove) <= Cardinality(stored)
  BY StoredIsFinite, FS_Subset
<1>2. Cardinality(stored \ prune.remove) \in Nat /\ Cardinality(stored) \in Nat
  BY StoredIsFinite, FS_Subset, FS_CardinalityType
<1> QED
  BY <1>1, <1>2, StoredIsFinite DEF Enough, KeepsEnough, Least

(* If what is not to be removed stays and no image is built, enough stays. *)
LEMMA EnoughStays ==
  ASSUME ImageTypes, Enough, ImageTypes', built' = built,
         stored \ prune.remove \subseteq stored' \ prune'.remove,
         prune'.at \in {"idle", "links"} => prune'.remove = {}
  PROVE  Enough'
<1>1. IsFiniteSet(stored')
  BY StoredIsFinite, FS_Interval, FS_Subset DEF ImageTypes
<1>2. IsFiniteSet(stored' \ prune'.remove) /\ IsFiniteSet(stored \ prune.remove)
  BY <1>1, StoredIsFinite, FS_Subset
<1>3. Cardinality(stored \ prune.remove) <= Cardinality(stored' \ prune'.remove)
  BY <1>2, FS_Subset
<1>4. Cardinality(stored \ prune.remove) \in Nat /\ Cardinality(stored' \ prune'.remove) \in Nat
  BY <1>2, FS_CardinalityType
<1>5. Least' = Least
  BY DEF Least
<1> QED
  BY <1>3, <1>4, <1>5, StoredIsFinite DEF Enough

LEMMA BuildsAreGood ==
  ASSUME ImageIInv, NEW i \in Images, Build(i)
  PROVE  ImageIInv'
<1> USE DEF Build
<1>1. i \in Nat /\ built \in Nat /\ built' = built + 1
  BY ImagesAssumption, StoredIsFinite DEF ImageIInv
<1>2. ImageTypes'
  BY <1>1 DEF ImageIInv, ImageTypes
<1>3. Enough'
  <2> DEFINE kept == stored \ prune.remove
  <2>1. i \notin stored /\ i \notin prune.remove
    BY <1>1 DEF ImageIInv, ImageTypes
  <2>2. (stored \ prune.remove)' = kept \cup {i} /\ i \notin kept
    BY <2>1
  <2>3. IsFiniteSet(kept)
    BY StoredIsFinite, FS_Subset DEF ImageIInv
  <2> HIDE DEF kept
  <2>4. Cardinality(kept \cup {i}) = Cardinality(kept) + 1 /\ Cardinality(kept) \in Nat
    BY <2>2, <2>3, FS_AddElement, FS_CardinalityType
  <2>5. Cardinality(kept) >= Least /\ Least \in Nat /\ Least' <= Least + 1 /\ Least' \in Nat
    BY <1>1, ImagesAssumption DEF ImageIInv, Enough, kept, Least
  <2>6. Cardinality((stored \ prune.remove)') >= Least'
    <3>1. Cardinality(kept \cup {i}) >= Least'
      BY <2>4, <2>5
    <3> QED
      BY <2>2, <3>1
  <2>7. prune'.at \in {"idle", "links"} => prune'.remove = {}
    BY DEF ImageIInv, Enough
  <2> QED
    BY <2>6, <2>7 DEF Enough
<1>4. Spared'
  BY DEF ImageIInv, Spared, IsNext
<1> QED
  BY <1>2, <1>3, <1>4 DEF ImageIInv

LEMMA SwapsAreGood ==
  ASSUME ImageIInv, NEW a \in Aliases, NEW i \in Images \cup {0}, Swap(a, i)
  PROVE  ImageIInv'
<1> USE DEF Swap
<1>1. ImageTypes'
  BY ImageBounds DEF ImageIInv, ImageTypes
<1>2. Enough'
  BY <1>1, EnoughStays DEF ImageIInv, Enough
<1>3. Spared'
  <2>1. \A b \in Aliases : points'[b] = points[b] \/ points'[b] \in {0} \cup taken'["link"]
    BY DEF ImageIInv, ImageTypes
  <2>2. taken["link"] \subseteq taken'["link"] /\ taken'["open"] = taken["open"]
    BY DEF ImageIInv, ImageTypes
  <2>3. 0 \notin prune.remove
    BY StoredIsFinite DEF ImageIInv, ImageTypes
  <2>4. InDir \subseteq Aliases
    BY AliasAssumption
  <2> QED
    BY <2>1, <2>2, <2>3, <2>4 DEF ImageIInv, Spared, IsNext
<1> QED
  BY <1>1, <1>2, <1>3 DEF ImageIInv

LEMMA UsersAreGood ==
  ASSUME ImageIInv, NEW u \in Users, Exit(u) \/ \E a \in Aliases : Boot(u, a)
  PROVE  ImageIInv'
<1>1. ImageTypes'
  <2>1. CASE Exit(u)
    BY <2>1 DEF ImageIInv, ImageTypes, Exit
  <2>2. CASE \E a \in Aliases : Boot(u, a)
    <3> PICK a \in Aliases : Boot(u, a)
      BY <2>2
    <3>1. points[a] \in Images /\ opens' \in 0..MaxOpens
      BY ImageBounds DEF ImageIInv, ImageTypes, Boot
    <3>2. opened' \in [Users -> Images \cup {0}]
      BY <3>1 DEF ImageIInv, ImageTypes, Boot
    <3>3. taken' \in [{"link", "open"} -> SUBSET Images]
      BY <3>1 DEF ImageIInv, ImageTypes, Boot
    <3> QED
      BY <3>1, <3>2, <3>3 DEF ImageIInv, ImageTypes, Boot
  <2> QED
    BY <2>1, <2>2
<1>2. Enough'
  BY <1>1, EnoughStays DEF ImageIInv, Enough, Exit, Boot
<1>3. Spared'
  <2>1. \A v \in Users : opened'[v] = opened[v] \/ opened'[v] \in {0} \cup taken'["open"]
    BY DEF ImageIInv, ImageTypes, Exit, Boot
  <2>2. taken["open"] \subseteq taken'["open"] /\ taken'["link"] = taken["link"]
    BY DEF ImageIInv, ImageTypes, Exit, Boot
  <2>3. 0 \notin prune.remove
    BY StoredIsFinite DEF ImageIInv, ImageTypes
  <2> QED
    BY <2>1, <2>2, <2>3 DEF ImageIInv, Spared, IsNext, Exit, Boot
<1> QED
  BY <1>1, <1>2, <1>3 DEF ImageIInv

LEMMA PruneStepsAreGood ==
  ASSUME ImageIInv, PruneStep
  PROVE  ImageIInv'
<1>1. CASE StartPrune
  <2> USE <1>1 DEF StartPrune, NoPrune
  <2>1. ImageTypes'
    <3>1. prune' = [at |-> "links", unread |-> InDir, referenced |-> {}, remove |-> {}]
      OBVIOUS
    <3>2. prunes' \in 0..MaxPrunes /\ taken' \in [{"link", "open"} -> SUBSET Images]
      BY ImageBounds DEF ImageIInv, ImageTypes
    <3> QED
      BY <3>1, <3>2 DEF ImageIInv, ImageTypes
  <2>2. Enough'
    BY <2>1, EnoughStays DEF ImageIInv, Enough
  <2>3. Spared'
    BY DEF Spared
  <2> QED
    BY <2>1, <2>2, <2>3 DEF ImageIInv
<1>2. CASE \E a \in Aliases : ReadLink(a)
  <2> PICK a \in Aliases : ReadLink(a)
    BY <1>2
  <2> USE DEF ReadLink
  <2>1. ImageTypes'
    BY DEF ImageIInv, ImageTypes
  <2>2. prune'.at = "links" /\ prune'.remove = prune.remove /\ prune'.unread = prune.unread \ {a}
        /\ prune'.referenced = prune.referenced \cup ({points[a]} \ {0})
    BY DEF ImageIInv, ImageTypes
  <2>3. Enough'
    BY <2>1, <2>2, EnoughStays DEF ImageIInv, Enough
  <2>4. Spared'
    BY <2>2 DEF ImageIInv, Spared
  <2> QED
    BY <2>1, <2>3, <2>4 DEF ImageIInv
<1>3. CASE Plan
  <2> USE <1>3 DEF Plan
  <2> DEFINE out == Removals(prune.referenced)
  <2>1. out \subseteq stored \ prune.referenced
    BY DEF Removals
  <2>2. prune'.at = "look" /\ prune'.remove = out
    BY DEF ImageIInv, ImageTypes
  <2>3. out \subseteq 1..built /\ 0 \notin out
    BY <2>1, StoredIsFinite DEF ImageIInv, ImageTypes
  <2>4. out # {} => Cardinality(stored \ out) >= Keep
    BY RemovalsLeaveEnough DEF ImageIInv
  <2> HIDE DEF out
  <2>5. ImageTypes'
    <3>1. prune' = [prune EXCEPT !.at = "look", !.remove = out]
      BY DEF out
    <3> QED
      BY <2>2, <2>3, <3>1 DEF ImageIInv, ImageTypes
  <2>6. Enough'
    <3>1. CASE out = {}
      BY <2>2, <2>5, <3>1, EnoughStays DEF ImageIInv, Enough
    <3>2. CASE out # {}
      <4>1. Cardinality(stored \ out) \in Nat
        BY StoredIsFinite, FS_Subset, FS_CardinalityType DEF ImageIInv
      <4>2. Cardinality(stored \ out) >= Least
        BY <2>4, <3>2, <4>1, StoredIsFinite, ImagesAssumption DEF ImageIInv
      <4> QED
        BY <2>2, <4>2 DEF Enough, Least
    <3> QED
      BY <3>1, <3>2
  <2>7. Spared'
    BY <2>1, <2>2, <2>3 DEF ImageIInv, Spared
  <2> QED
    BY <2>5, <2>6, <2>7 DEF ImageIInv
<1>4. CASE \E i \in Images : Look(i)
  <2> PICK i \in Images : Look(i)
    BY <1>4
  <2> USE DEF Look
  <2>1. ImageTypes'
    BY DEF ImageIInv, ImageTypes, NoPrune, IsNext
  <2>2. /\ prune'.remove \subseteq prune.remove
        /\ prune'.at \in {"idle", "look", "unlink"}
        /\ prune'.at = "idle" => prune'.remove = {}
        /\ prune'.at = "unlink" => prune'.remove = prune.remove /\ i \notin Range(opened)
    BY DEF ImageIInv, ImageTypes, NoPrune
  <2>3. Enough'
    BY <2>1, <2>2, EnoughStays DEF ImageIInv
  <2>4. taken'["link"] = taken["link"]
    BY DEF ImageIInv, ImageTypes
  <2>5. ASSUME prune'.at = "unlink", NEW u \in Users PROVE ~IsNext(opened[u])'
    <3>1. opened[u] \in Range(opened)
      BY DEF ImageIInv, ImageTypes, Range
    <3>2. opened[u] # i
      BY <2>2, <2>5, <3>1
    <3>3. prune.remove \subseteq Nat
      BY StoredIsFinite DEF ImageIInv, ImageTypes
    <3> QED
      BY <2>2, <2>5, <3>2, <3>3 DEF IsNext
  <2>6. Spared'
    BY <2>2, <2>4, <2>5 DEF ImageIInv, Spared
  <2> QED
    BY <2>1, <2>3, <2>6 DEF ImageIInv
<1>5. CASE \E i \in Images : UnlinkImage(i)
  <2> PICK i \in Images : UnlinkImage(i)
    BY <1>5
  <2> USE DEF UnlinkImage
  <2>1. ImageTypes'
    BY DEF ImageIInv, ImageTypes
  <2>2. prune'.at = "look" /\ prune'.remove = prune.remove \ {i} /\ i \in prune.remove
    BY DEF ImageIInv, ImageTypes, IsNext
  <2>3. Enough'
    BY <2>1, <2>2, EnoughStays DEF ImageIInv
  <2>4. Spared'
    BY <2>2 DEF ImageIInv, Spared
  <2> QED
    BY <2>1, <2>3, <2>4 DEF ImageIInv
<1>6. CASE EndPrune
  <2> USE <1>6 DEF EndPrune, NoPrune
  <2>1. ImageTypes'
    BY DEF ImageIInv, ImageTypes
  <2>2. Enough'
    BY <2>1, EnoughStays DEF ImageIInv
  <2>3. Spared'
    BY DEF Spared
  <2> QED
    BY <2>1, <2>2, <2>3 DEF ImageIInv
<1> QED
  BY <1>1, <1>2, <1>3, <1>4, <1>5, <1>6 DEF PruneStep

LEMMA ImageStepKeepsIt == ImageIInv /\ [ImageNext]_imageVars => ImageIInv'
<1> SUFFICES ASSUME ImageIInv, [ImageNext]_imageVars PROVE ImageIInv'
  OBVIOUS
<1>1. CASE UNCHANGED imageVars
  BY <1>1 DEF imageVars, ImageIInv, ImageTypes, Enough, Least, Spared, IsNext
<1> QED
  BY <1>1, PruneStepsAreGood, BuildsAreGood, SwapsAreGood, UsersAreGood DEF ImageNext

LEMMA ImageIInvHolds == ImageSpec => []ImageIInv
<1> QED
  BY ImageInitIsGood, ImageStepKeepsIt, PTL DEF ImageSpec

(* Rotation never runs the directory dry, whatever is built, named, opened   *)
(* and pruned in whatever order (plan_prune and apply_prune of _images.py).  *)
THEOREM EnoughIsAlwaysKept == ImageSpec => []KeepsEnough
<1>1. ImageIInv => KeepsEnough
  BY EnoughIsKept DEF ImageIInv
<1> QED
  BY <1>1, ImageIInvHolds, PTL

(* An image that is removed was named, or opened, since it was looked for. *)
RemovedInWindow ==
  \A i \in stored \ stored' : /\ (\E a \in InDir : points[a] = i) => i \in taken["link"]
                              /\ (\E u \in Users : opened[u] = i) => i \in taken["open"]

LEMMA RemovalsAreInWindow == ImageIInv /\ [ImageNext]_imageVars => [RemovedInWindow]_imageVars
<1> SUFFICES ASSUME ImageIInv, ImageNext, NEW i \in stored \ stored'
             PROVE  /\ (\E a \in InDir : points[a] = i) => i \in taken["link"]
                    /\ (\E u \in Users : opened[u] = i) => i \in taken["open"]
  BY DEF RemovedInWindow
<1>1. \E j \in Images : UnlinkImage(j)
  BY DEF ImageNext, PruneStep, StartPrune, ReadLink, Plan, Look, EndPrune, Build, Swap, Exit, Boot
<1>2. prune.at = "unlink" /\ IsNext(i)
  BY <1>1 DEF UnlinkImage
<1> QED
  BY <1>2 DEF ImageIInv, Spared, IsNext

(* A removed image that a link of the directory names was named after the    *)
(* links were read, and one that a process runs from was opened after the    *)
(* processes were looked at (apply_prune of _images.py).                     *)
THEOREM LiveImagesAreSpared == ImageSpec => LiveIsRemovedOnlyInWindow
<1>1. ImageSpec => [][RemovedInWindow]_imageVars
  BY RemovalsAreInWindow, ImageIInvHolds, PTL DEF ImageSpec
<1> QED
  BY <1>1 DEF LiveIsRemovedOnlyInWindow, RemovedInWindow

-----------------------------------------------------------------------------
(* document-sorter *)

(* The assumption about the command: no two runs overlap. *)
OneRun == \A r, q \in Runs : r = q

(* A document that was there and has left the inbox never comes back. *)
Gone(d) == d \in arrived /\ inbox[d] = 0

InTheArchive(d, sha, n) ==
  \E c \in Copies(d, sha) : c.n = n /\ c.content # 0 /\ (d \notin late => c.content = sha)

InTheTree(d, sha, n) ==
  \E f \in Titled(TitleOf[d]) :
    f.n = n /\ f.doc = d /\ f.content # 0 /\ (d \notin late => f.content = sha)

Recoverable(d) ==
  \E c \in archive, f \in filed :
    /\ c.doc = d /\ f.doc = d /\ c.content # 0 /\ f.content # 0
    /\ d \notin late => c.content = f.content /\ c.content = c.sha

Phases == {"idle", "next", "archive", "copy", "sort", "move", "unlink", "index"}
RunRecords == [at : Phases, todo : SUBSET Docs, doc : Docs \cup {0}, sha : Nat,
               archived : Nat, sorted : Nat]

DocShapes ==
  /\ inbox \in [Docs -> Nat]
  /\ arrived \subseteq Docs
  /\ \A d \in Docs : inbox[d] # 0 => d \in arrived
  /\ run \in [Runs -> RunRecords]
  /\ IsFiniteSet(archive) /\ IsFiniteSet(filed)

(* The document in hand is still what was hashed, unless it was written to   *)
(* since; what has been done for it is done; no other stands in its place.   *)
Handled(r) ==
  /\ run[r].at \in {"archive", "copy", "sort", "move", "unlink"} =>
       /\ run[r].doc \in arrived /\ inbox[run[r].doc] # 0
       /\ run[r].doc \notin late => inbox[run[r].doc] = run[r].sha
  /\ run[r].at = "index" => Gone(run[r].doc)
  /\ run[r].at \in {"sort", "move", "unlink", "index"} =>
       InTheArchive(run[r].doc, run[r].sha, run[r].archived)
  /\ run[r].at = "move" =>
       \A f \in Titled(TitleOf[run[r].doc]) : f.n = run[r].sorted => f.doc = run[r].doc
  /\ run[r].at \in {"unlink", "index"} => InTheTree(run[r].doc, run[r].sha, run[r].sorted)

(* What is in the index has left the inbox. *)
Settled ==
  /\ \A x \in index :
       /\ Gone(x.doc)
       /\ InTheArchive(x.doc, x.sha, x.archived) /\ InTheTree(x.doc, x.sha, x.sorted)
  /\ \A d \in Docs : Gone(d) => Recoverable(d)

DocIInv == DocShapes /\ (\A r \in Runs : Handled(r)) /\ Settled

LEMMA NumbersAreFinite ==
  ASSUME NEW S, IsFiniteSet(S)
  PROVE  IsFiniteSet({x.n : x \in S})
<1> DEFINE T == {x.n : x \in S}
           f == [x \in S |-> x.n]
<1>1. f \in Surjection(S, T)
  BY DEF Surjection
<1> QED
  BY <1>1, FS_Surjection

(* Among one more than there are taken one is free, and the first is found.  *)
LEMMA UniqueNameIsFree ==
  ASSUME NEW names, IsFiniteSet(names)
  PROVE  UniqueName(names) \in Nat \ {0} /\ UniqueName(names) \notin names
<1> DEFINE all  == 1..(Cardinality(names) + 1)
           free == {n \in all : n \notin names}
<1>1. Cardinality(names) \in Nat
  BY FS_CardinalityType
<1>2. IsFiniteSet(all) /\ Cardinality(all) = Cardinality(names) + 1
  BY <1>1, FS_Interval
<1>3. free # {}
  <2>1. ASSUME all \subseteq names PROVE FALSE
    <3> HIDE DEF all
    <3> QED
      BY <1>1, <1>2, <2>1, FS_Subset
  <2> QED
    BY <2>1
<1>4. free \in SUBSET Nat /\ all \subseteq Nat \ {0}
  BY <1>1
<1>5. PICK n \in free : \A m \in free : n <= m
  <2> HIDE DEF free
  <2> QED
    BY <1>3, <1>4, LeastIsThere
<1>6. 1..(n - 1) \subseteq names
  <2> SUFFICES ASSUME NEW m \in 1..(n - 1), m \notin names PROVE FALSE
    OBVIOUS
  <2>1. n \in Nat /\ n <= Cardinality(names) + 1
    BY <1>1, <1>5
  <2>2. m \in free
    BY <1>1, <2>1
  <2>3. n <= m /\ m <= n - 1 /\ m \in Nat
    BY <1>5, <2>1, <2>2
  <2> QED
    BY <2>1, <2>3
<1>7. n \in all /\ n \notin names
  BY <1>5
<1> QED
  BY <1>4, <1>6, <1>7 DEF UniqueName

LEMMA NextIsToDo ==
  ASSUME NEW todo \in SUBSET Docs, todo # {}
  PROVE  Min(todo) \in todo
  BY MinIsIn, DocsAssumption

(* Nothing changes for a document that is gone. *)
KeepsTheGone ==
  \A d \in Docs : Gone(d) =>
    /\ Gone(d)'
    /\ d \in late => d \in late'
    /\ \A c \in archive : c.doc = d => c \in archive'
    /\ \A f \in filed : f.doc = d => f \in filed'

LEMMA GoneStays ==
  ASSUME DocShapes, Settled, KeepsTheGone
  PROVE  /\ \A x \in index : /\ Gone(x.doc)' /\ InTheArchive(x.doc, x.sha, x.archived)'
                             /\ InTheTree(x.doc, x.sha, x.sorted)'
         /\ \A d \in Docs : Gone(d) => Recoverable(d)'
<1>1. ASSUME NEW x \in index
      PROVE  /\ Gone(x.doc)' /\ InTheArchive(x.doc, x.sha, x.archived)'
             /\ InTheTree(x.doc, x.sha, x.sorted)'
  <2>1. Gone(x.doc) /\ x.doc \in Docs
    BY DEF Settled, Gone, DocShapes
  <2>2. InTheArchive(x.doc, x.sha, x.archived)'
    BY <2>1 DEF Settled, KeepsTheGone, InTheArchive, Copies
  <2>3. InTheTree(x.doc, x.sha, x.sorted)'
    BY <2>1 DEF Settled, KeepsTheGone, InTheTree, Titled
  <2> QED
    BY <2>1, <2>2, <2>3 DEF KeepsTheGone
<1>2. ASSUME NEW d \in Docs, Gone(d) PROVE Recoverable(d)'
  BY <1>2 DEF Settled, KeepsTheGone, Recoverable
<1> QED
  BY <1>1, <1>2

(* So if no document leaves the inbox and nothing is entered, all is well.   *)
LEMMA SettledStays ==
  ASSUME DocShapes, Settled, KeepsTheGone, index' = index,
         \A d \in Docs : Gone(d)' => Gone(d)
  PROVE  Settled'
  BY GoneStays DEF Settled

LEMMA DocInitIsGood == DocInit => DocIInv
<1> SUFFICES ASSUME DocInit PROVE DocIInv
  OBVIOUS
<1>1. DocShapes
  BY FS_EmptySet DEF DocInit, DocShapes, RunRecords, Phases, Resting
<1>2. \A r \in Runs : Handled(r)
  BY DEF DocInit, Handled, Resting
<1>3. Settled
  BY DEF DocInit, Settled, Gone
<1> QED
  BY <1>1, <1>2, <1>3 DEF DocIInv

LEMMA ScansAreGood ==
  ASSUME OneRun, DocIInv, NEW d \in Docs, Scan(d)
  PROVE  DocIInv'
<1> USE DEF Scan
<1>1. ~Gone(d) /\ inbox[d] \in Nat /\ inbox'[d] = inbox[d] + 1 /\ inbox'[d] # 0
      /\ \A e \in Docs : e # d => inbox'[e] = inbox[e]
  BY DocBounds DEF DocIInv, DocShapes, Gone
<1>2. DocShapes'
  BY <1>1 DEF DocIInv, DocShapes
<1>3. ASSUME NEW r \in Runs PROVE Handled(r)'
  <2>1. run[r].at \in Phases /\ run[r].doc \in Docs \cup {0}
    BY DEF DocIInv, DocShapes, RunRecords
  <2>2. run[r].at \notin {"idle", "next"} /\ run[r].doc = d => d \in late'
    BY DEF InHand
  <2>3. late \subseteq late' /\ late' \subseteq late \cup {d}
    OBVIOUS
  <2>4. Handled(r) /\ arrived \subseteq Docs
    BY DEF DocIInv, DocShapes
  <2>5. ASSUME InTheArchive(run[r].doc, run[r].sha, run[r].archived)
        PROVE  InTheArchive(run[r].doc, run[r].sha, run[r].archived)'
    BY <2>3, <2>5 DEF InTheArchive, Copies
  <2>6. ASSUME InTheTree(run[r].doc, run[r].sha, run[r].sorted)
        PROVE  InTheTree(run[r].doc, run[r].sha, run[r].sorted)'
    BY <2>3, <2>6 DEF InTheTree, Titled
  <2>7. Gone(run[r].doc) => Gone(run[r].doc)'
    BY <1>1, <2>4 DEF Gone
  <2>8. run[r].at \in {"archive", "copy", "sort", "move", "unlink"} =>
          /\ run[r].doc \in arrived' /\ inbox'[run[r].doc] # 0
          /\ run[r].doc \notin late' => inbox'[run[r].doc] = run[r].sha
    BY <1>1, <2>2, <2>3, <2>4 DEF Handled
  <2> QED
    BY <2>4, <2>5, <2>6, <2>7, <2>8 DEF Handled, Titled
<1>4. Settled'
  <2>1. KeepsTheGone
    BY <1>1 DEF KeepsTheGone, Gone
  <2>2. \A e \in Docs : Gone(e)' => Gone(e)
    BY <1>1 DEF Gone
  <2> QED
    BY <2>1, <2>2, SettledStays DEF DocIInv
<1> QED
  BY <1>2, <1>3, <1>4 DEF DocIInv

(* A step of the command that leaves the inbox, the trees and the index.     *)
LEMMA RestIsSettled ==
  ASSUME DocIInv, arrived' = arrived, inbox' = inbox, archive' = archive, filed' = filed,
         index' = index, \A d \in Docs : Gone(d) => (d \in late => d \in late')
  PROVE  Settled'
<1>1. KeepsTheGone
  BY DEF KeepsTheGone, Gone
<1>2. \A d \in Docs : Gone(d)' => Gone(d)
  BY DEF Gone
<1> QED
  BY <1>1, <1>2, SettledStays DEF DocIInv

LEMMA RunTurnsTo ==
  ASSUME DocShapes, NEW r \in Runs, NEW record \in RunRecords, run' = [run EXCEPT ![r] = record]
  PROVE  run' \in [Runs -> RunRecords] /\ run'[r] = record
  BY DEF DocShapes

LEMMA BetweenDocuments ==
  ASSUME OneRun, DocIInv, NEW r \in Runs, StartRun(r) \/ Hash(r) \/ EndRun(r) \/ StopRun(r)
  PROVE  DocIInv'
<1>1. CASE StartRun(r) \/ EndRun(r) \/ StopRun(r)
  <2> USE <1>1 DEF StartRun, EndRun, StopRun, Resting
  <2>1. run'[r].at \in {"idle", "next"} /\ run' \in [Runs -> RunRecords]
    <3>1. PICK at \in {"idle", "next"}, todo \in SUBSET Docs :
            run' = [run EXCEPT ![r] = [at |-> at, todo |-> todo, doc |-> 0, sha |-> 0,
                                       archived |-> 0, sorted |-> 0]]
      <4>1. CASE StartRun(r)
        <5> DEFINE listed == {d \in Docs : inbox[d] # 0}
        <5>1. listed \in SUBSET Docs
          OBVIOUS
        <5>2. run' = [run EXCEPT ![r] = [at |-> "next", todo |-> listed, doc |-> 0, sha |-> 0,
                                         archived |-> 0, sorted |-> 0]]
          BY <4>1
        <5> HIDE DEF listed
        <5> QED
          BY <5>1, <5>2
      <4>2. CASE EndRun(r) \/ StopRun(r)
        BY <4>2
      <4> QED
        BY <4>1, <4>2
    <3> DEFINE rec == [at |-> at, todo |-> todo, doc |-> 0, sha |-> 0, archived |-> 0, sorted |-> 0]
    <3>2. rec \in RunRecords /\ rec.at = at
      BY DEF RunRecords, Phases
    <3> HIDE DEF rec
    <3>3. run' = [run EXCEPT ![r] = rec]
      BY <3>1 DEF rec
    <3> QED
      BY <3>2, <3>3, RunTurnsTo DEF DocIInv
  <2>2. DocShapes'
    BY <2>1 DEF DocIInv, DocShapes
  <2>3. \A q \in Runs : Handled(q)'
    BY <2>1 DEF Handled, OneRun
  <2>4. Settled'
    BY RestIsSettled
  <2> QED
    BY <2>2, <2>3, <2>4 DEF DocIInv
<1>2. CASE Hash(r)
  <2> DEFINE d == Min(run[r].todo)
  <2>1. d \in run[r].todo /\ run[r].todo \subseteq Docs /\ run[r] \in RunRecords
    BY <1>2, NextIsToDo DEF Hash, DocIInv, DocShapes, RunRecords
  <2>2. d \in Docs /\ inbox[d] \in Nat
    BY <2>1 DEF DocIInv, DocShapes
  <2>3. /\ run[r].at = "next"
        /\ run' = IF inbox[d] = 0 THEN [run EXCEPT ![r].todo = @ \ {d}]
                   ELSE [run EXCEPT ![r].at = "archive", ![r].todo = @ \ {d},
                                    ![r].doc = d, ![r].sha = inbox[d]]
        /\ late' = IF inbox[d] = 0 THEN late ELSE late \ {d}
        /\ UNCHANGED <<inbox, archive, filed, index, arrived>>
    BY <1>2 DEF Hash
  <2> HIDE DEF d
  <2>4. CASE inbox[d] = 0
    <3>1. run' \in [Runs -> RunRecords] /\ run'[r].at = "next"
      <4> DEFINE rec == [run[r] EXCEPT !.todo = run[r].todo \ {d}]
      <4>1. rec \in RunRecords /\ rec.at = "next"
        BY <2>1, <2>3 DEF RunRecords
      <4>2. run' = [run EXCEPT ![r] = rec]
        BY <2>3, <2>4
      <4> HIDE DEF rec
      <4> QED
        BY <4>1, <4>2, RunTurnsTo DEF DocIInv
    <3>2. DocShapes'
      BY <2>3, <3>1 DEF DocIInv, DocShapes
    <3>3. \A q \in Runs : Handled(q)'
      BY <3>1 DEF Handled, OneRun
    <3>4. Settled'
      BY <2>3, <2>4, RestIsSettled
    <3> QED
      BY <3>2, <3>3, <3>4 DEF DocIInv
  <2>5. CASE inbox[d] # 0
    <3>1. run' \in [Runs -> RunRecords] /\ run'[r].at = "archive" /\ run'[r].doc = d
          /\ run'[r].sha = inbox[d]
      <4> DEFINE rec == [run[r] EXCEPT !.at = "archive", !.todo = run[r].todo \ {d}, !.doc = d,
                                       !.sha = inbox[d]]
      <4>1. rec \in RunRecords /\ rec.at = "archive" /\ rec.doc = d /\ rec.sha = inbox[d]
        BY <2>1, <2>2 DEF RunRecords, Phases
      <4>2. run' = [run EXCEPT ![r] = rec]
        BY <2>3, <2>5
      <4> HIDE DEF rec
      <4> QED
        BY <4>1, <4>2, RunTurnsTo DEF DocIInv
    <3>2. DocShapes'
      BY <2>3, <3>1 DEF DocIInv, DocShapes
    <3>3. d \in arrived
      BY <2>2, <2>5 DEF DocIInv, DocShapes
    <3>4. \A q \in Runs : Handled(q)'
      BY <2>3, <2>5, <3>1, <3>3 DEF Handled, OneRun
    <3>5. Settled'
      BY <2>3, <2>5, RestIsSettled DEF Gone
    <3> QED
      BY <3>2, <3>4, <3>5 DEF DocIInv
  <2> QED
    BY <2>4, <2>5
<1> QED
  BY <1>1, <1>2

LEMMA NamesAreFree ==
  ASSUME OneRun, DocIInv, NEW r \in Runs, PickArchived(r) \/ PickSorted(r)
  PROVE  DocIInv'
<1> DEFINE copies == {c.n : c \in Copies(run[r].doc, run[r].sha)}
           titled == {f.n : f \in Titled(TitleOf[run[r].doc])}
<1>0. run[r] \in RunRecords /\ Handled(r)
  BY DEF DocIInv, DocShapes
<1>1. UniqueName(copies) \in Nat
  <2>1. IsFiniteSet(Copies(run[r].doc, run[r].sha))
    BY FS_Subset DEF DocIInv, DocShapes, Copies
  <2> QED
    BY <2>1, NumbersAreFinite, UniqueNameIsFree
<1>2. UniqueName(titled) \in Nat /\ UniqueName(titled) \notin titled
  <2>1. IsFiniteSet(Titled(TitleOf[run[r].doc]))
    BY FS_Subset DEF DocIInv, DocShapes, Titled
  <2> QED
    BY <2>1, NumbersAreFinite, UniqueNameIsFree
<1>3. Settled'
  BY RestIsSettled DEF PickArchived, PickSorted
<1>4. CASE PickArchived(r)
  <2>1. run[r].at = "archive" /\ run' = [run EXCEPT ![r].at = "copy", ![r].archived = UniqueName(copies)]
        /\ UNCHANGED <<inbox, archive, filed, index, arrived, late>>
    BY <1>4 DEF PickArchived
  <2> HIDE DEF copies, titled
  <2>2. run' \in [Runs -> RunRecords] /\ run'[r].at = "copy" /\ run'[r].doc = run[r].doc
        /\ run'[r].sha = run[r].sha
    BY <1>0, <1>1, <2>1 DEF DocIInv, DocShapes, RunRecords, Phases
  <2>3. DocShapes'
    BY <2>1, <2>2 DEF DocIInv, DocShapes
  <2>4. \A q \in Runs : Handled(q)'
    BY <1>0, <2>1, <2>2 DEF Handled, OneRun
  <2> QED
    BY <1>3, <2>3, <2>4 DEF DocIInv
<1>5. CASE PickSorted(r)
  <2>1. run[r].at = "sort" /\ run' = [run EXCEPT ![r].at = "move", ![r].sorted = UniqueName(titled)]
        /\ UNCHANGED <<inbox, archive, filed, index, arrived, late>>
    BY <1>5 DEF PickSorted
  <2>2. \A f \in Titled(TitleOf[run[r].doc]) : f.n # UniqueName(titled)
    BY <1>2
  <2> HIDE DEF copies, titled
  <2>3. run' \in [Runs -> RunRecords] /\ run'[r].at = "move" /\ run'[r].doc = run[r].doc
        /\ run'[r].sha = run[r].sha /\ run'[r].archived = run[r].archived
        /\ run'[r].sorted = UniqueName(titled)
    BY <1>0, <1>2, <2>1 DEF DocIInv, DocShapes, RunRecords, Phases
  <2>4. DocShapes'
    BY <2>1, <2>3 DEF DocIInv, DocShapes
  <2>5. InTheArchive(run[r].doc, run[r].sha, run[r].archived)'
    BY <1>0, <2>1, <2>3 DEF Handled, InTheArchive, Copies
  <2>6. Handled(r)'
    BY <1>0, <2>1, <2>2, <2>3, <2>5 DEF Handled, Titled, InTheArchive, Copies
  <2> QED
    BY <1>3, <2>4, <2>6 DEF DocIInv, OneRun
<1> QED
  BY <1>4, <1>5

LEMMA CopiesAreGood ==
  ASSUME OneRun, DocIInv, NEW r \in Runs, CopyPart(r) \/ Copy(r)
  PROVE  DocIInv'
<1> DEFINE d == run[r].doc
           here(c) == c.doc = d /\ c.sha = run[r].sha /\ c.n = run[r].archived
<1>0. run[r] \in RunRecords /\ Handled(r) /\ run[r].at = "copy" /\ inbox[d] # 0 /\ d \in arrived
  BY DEF DocIInv, DocShapes, CopyPart, Copy, Handled
<1>1. PICK content : ArchiveAs(r, content) /\ (run' = run \/ (Goes(r, "sort") /\ content = inbox[d]))
                     /\ UNCHANGED <<inbox, filed, index, arrived, late>>
  BY DEF CopyPart, Copy
<1> DEFINE new == [doc |-> d, sha |-> run[r].sha, n |-> run[r].archived, content |-> content]
<1>2. archive' = {c \in archive : ~here(c)} \cup {new}
  BY <1>1 DEF ArchiveAs
<1>3. /\ new.doc = d /\ new.sha = run[r].sha /\ new.n = run[r].archived
      /\ new.content = content /\ new \in archive'
  BY <1>2
<1>4. IsFiniteSet(archive')
  <2>1. IsFiniteSet({c \in archive : ~here(c)})
    BY FS_Subset DEF DocIInv, DocShapes
  <2> HIDE DEF new, here
  <2> QED
    BY <1>2, <2>1, FS_AddElement
<1>5. run' \in [Runs -> RunRecords] /\ run'[r].doc = d /\ run'[r].sha = run[r].sha
      /\ run'[r].archived = run[r].archived
      /\ (run'[r].at = "copy" \/ (run'[r].at = "sort" /\ content = inbox[d]))
  BY <1>0, <1>1 DEF DocIInv, DocShapes, RunRecords, Phases, Goes
<1>6. DocShapes'
  BY <1>1, <1>4, <1>5 DEF DocIInv, DocShapes
<1>7. Settled'
  <2>1. ASSUME NEW e \in Docs, Gone(e), NEW c \in archive, c.doc = e PROVE c \in archive'
    BY <1>0, <1>2, <2>1 DEF Gone
  <2>2. KeepsTheGone
    BY <1>1, <2>1 DEF KeepsTheGone, Gone
  <2>3. \A e \in Docs : Gone(e)' => Gone(e)
    BY <1>1 DEF Gone
  <2> QED
    BY <1>1, <2>2, <2>3, SettledStays DEF DocIInv
<1>8. Handled(r)'
  <2> HIDE DEF new, here
  <2>1. d \notin late => inbox[d] = run[r].sha
    BY <1>0 DEF Handled
  <2>2. ASSUME run'[r].at = "sort" PROVE InTheArchive(run[r].doc, run[r].sha, run[r].archived)'
    <3>1. content # 0 /\ (d \notin late => content = run[r].sha)
      BY <1>0, <1>5, <2>1, <2>2
    <3>2. new \in Copies(d, run[r].sha)'
      BY <1>3, <1>5 DEF Copies
    <3> QED
      BY <1>1, <1>3, <1>5, <3>1, <3>2 DEF InTheArchive, Copies
  <2> QED
    BY <1>0, <1>1, <1>5, <2>1, <2>2 DEF Handled, InTheArchive, Copies
<1> QED
  BY <1>6, <1>7, <1>8 DEF DocIInv, OneRun

(* In the sorted tree: what is filed, and whose place it takes. *)
LEMMA FilesAs ==
  ASSUME DocShapes, NEW r \in Runs, NEW content, FileAs(r, content), Handled(r), run[r].at = "move"
  PROVE  /\ IsFiniteSet(filed')
         /\ \A f \in filed : f.doc # run[r].doc => f \in filed'
         /\ \A f \in filed' : f \in filed \/ f.doc = run[r].doc
         /\ \E f \in filed' : /\ f.title = TitleOf[run[r].doc] /\ f.n = run[r].sorted
                              /\ f.doc = run[r].doc /\ f.content = content
<1> DEFINE d == run[r].doc
           here(f) == f.title = TitleOf[d] /\ f.n = run[r].sorted
           new == [title |-> TitleOf[d], n |-> run[r].sorted, doc |-> d, content |-> content]
<1>1. filed' = {f \in filed : ~here(f)} \cup {new}
  BY DEF FileAs
<1>2. /\ new.title = TitleOf[d] /\ new.n = run[r].sorted /\ new.doc = d
      /\ new.content = content /\ new \in filed'
  BY <1>1
<1>3. IsFiniteSet(filed')
  <2>1. IsFiniteSet({f \in filed : ~here(f)})
    BY FS_Subset DEF DocShapes
  <2> HIDE DEF new, here
  <2> QED
    BY <1>1, <2>1, FS_AddElement
<1>4. \A f \in filed : here(f) => f.doc = d
  BY DEF Handled, Titled
<1> HIDE DEF new
<1> QED
  BY <1>1, <1>2, <1>3, <1>4

LEMMA MovesAreGood ==
  ASSUME OneRun, DocIInv, NEW r \in Runs, MoveByRename(r) \/ MoveByCopy(r)
  PROVE  DocIInv'
<1> PICK d, sha, n, m : d = run[r].doc /\ sha = run[r].sha /\ n = run[r].archived /\ m = run[r].sorted
  OBVIOUS
<1>0. /\ run[r] \in RunRecords /\ Handled(r) /\ run[r].at = "move" /\ DocShapes
      /\ inbox[d] # 0 /\ d \in arrived /\ d \in Docs
      /\ (d \notin late => inbox[d] = sha)
  BY DEF DocIInv, DocShapes, MoveByRename, MoveByCopy, Handled
<1>1. PICK content : FileAs(r, content)
  BY DEF MoveByRename, MoveByCopy
<1>2. /\ IsFiniteSet(filed')
      /\ \A f \in filed : f.doc # d => f \in filed'
      /\ \A f \in filed' : f \in filed \/ f.doc = d
  BY <1>0, <1>1, FilesAs
<1>3. \A f \in Titled(TitleOf[d])' : f.n = m => f.doc = d
  BY <1>0, <1>2 DEF Handled, Titled
<1>4. UNCHANGED <<archive, index, arrived, late>>
  BY DEF MoveByRename, MoveByCopy
<1>5. InTheArchive(d, sha, n)
  BY <1>0 DEF Handled
<1>6. KeepsTheGone
  <2>1. \A e \in Docs : Gone(e) => e # d /\ inbox'[e] = inbox[e]
    BY <1>0 DEF Gone, DocShapes, MoveByRename, MoveByCopy
  <2> QED
    BY <1>2, <1>4, <2>1 DEF KeepsTheGone, Gone
<1>7. CASE MoveByCopy(r) /\ run' = run
  <2>1. inbox' = inbox
    BY <1>7 DEF MoveByCopy
  <2>2. DocShapes'
    BY <1>0, <1>2, <1>4, <1>7, <2>1 DEF DocShapes
  <2>3. Handled(r)'
    BY <1>0, <1>3, <1>4, <1>5, <1>7, <2>1 DEF Handled, InTheArchive, Copies, Titled
  <2>4. Settled'
    BY <1>4, <1>6, <2>1, SettledStays DEF DocIInv, Gone
  <2> QED
    BY <2>2, <2>3, <2>4 DEF DocIInv, OneRun
<1>8. CASE ~(MoveByCopy(r) /\ run' = run)
  <2>1. PICK step \in {"unlink", "index"} :
          /\ FileAs(r, inbox[d]) /\ Goes(r, step)
          /\ step = "unlink" => inbox' = inbox
          /\ step = "index" => inbox' = [inbox EXCEPT ![d] = 0]
    BY <1>8 DEF MoveByRename, MoveByCopy
  <2> DEFINE rec == [run[r] EXCEPT !.at = step]
  <2>2. /\ rec \in RunRecords /\ rec.at = step /\ rec.doc = d /\ rec.sha = sha
        /\ rec.archived = n /\ rec.sorted = m
    BY <1>0 DEF RunRecords, Phases
  <2>3. run' = [run EXCEPT ![r] = rec]
    BY <2>1 DEF Goes
  <2> HIDE DEF rec
  <2>4. run' \in [Runs -> RunRecords] /\ run'[r] = rec
    BY <1>0, <2>2, <2>3, RunTurnsTo
  <2>5. DocShapes'
    BY <1>0, <1>2, <1>4, <2>1, <2>4 DEF DocShapes
  <2>6. PICK f \in filed' : /\ f.title = TitleOf[d] /\ f.n = m
                            /\ f.doc = d /\ f.content = inbox[d]
    BY <1>0, <2>1, FilesAs
  <2>7. f \in Titled(TitleOf[d])'
    BY <2>6 DEF Titled
  <2>8. InTheTree(d, sha, m)'
    <3>1. run'[r].doc = d /\ run'[r].sha = sha /\ run'[r].sorted = m
      BY <2>2, <2>4
    <3> QED
      BY <1>0, <1>4, <2>6, <2>7, <3>1 DEF InTheTree, Titled
  <2>9. InTheArchive(d, sha, n)'
    BY <1>4, <1>5, <2>2, <2>4 DEF InTheArchive, Copies
  <2>10. step = "index" => Gone(d)'
    BY <1>0, <1>4, <2>1, <2>2, <2>4 DEF Gone, DocShapes
  <2>11. Handled(r)'
    BY <1>0, <1>4, <2>1, <2>2, <2>4, <2>8, <2>9, <2>10 DEF Handled
  <2>12. step = "index" => Recoverable(d)'
    <3>1. PICK c \in archive : /\ c.doc = d /\ c.sha = sha /\ c.content # 0
                               /\ d \notin late => c.content = sha
      BY <1>5 DEF InTheArchive, Copies
    <3>2. /\ c \in archive' /\ c.doc = d /\ f.doc = d /\ c.content # 0 /\ f.content # 0
          /\ d \notin late' => c.content = f.content /\ c.content = c.sha
      <4>1. archive' = archive /\ late' = late
        BY <1>4
      <4>2. f.doc = d /\ f.content = inbox[d] /\ inbox[d] # 0
        BY <1>0, <2>6
      <4>3. d \notin late => inbox[d] = sha
        BY <1>0
      <4> QED
        BY <3>1, <4>1, <4>2, <4>3
    <3> QED
      BY <2>6, <3>2 DEF Recoverable
  <2>13. Settled'
    <3>1. \A e \in Docs : Gone(e)' => Gone(e) \/ (e = d /\ step = "index")
      BY <1>0, <1>4, <2>1 DEF Gone, DocShapes
    <3>2. run'[r].doc = d
      BY <2>2, <2>4
    <3> QED
      BY <1>0, <1>4, <1>6, <2>12, <3>1, <3>2, GoneStays DEF Settled, DocIInv
  <2> QED
    BY <2>5, <2>11, <2>13 DEF DocIInv, OneRun
<1> QED
  BY <1>7, <1>8

LEMMA LeavesTheInbox ==
  ASSUME OneRun, DocIInv, NEW r \in Runs, UnlinkScan(r)
  PROVE  DocIInv'
<1> PICK d, sha, n, m : d = run[r].doc /\ sha = run[r].sha /\ n = run[r].archived /\ m = run[r].sorted
  OBVIOUS
<1>0. /\ run[r] \in RunRecords /\ Handled(r) /\ run[r].at = "unlink" /\ DocShapes
      /\ inbox[d] # 0 /\ d \in arrived /\ d \in Docs
  BY DEF DocIInv, DocShapes, UnlinkScan, Handled
<1>1. inbox' = [inbox EXCEPT ![d] = 0] /\ Goes(r, "index") /\ UNCHANGED <<archive, filed, index, arrived, late>>
  BY DEF UnlinkScan
<1> DEFINE rec == [run[r] EXCEPT !.at = "index"]
<1>2. /\ rec \in RunRecords /\ rec.at = "index" /\ rec.doc = d /\ rec.sha = sha
      /\ rec.archived = n /\ rec.sorted = m
  BY <1>0 DEF RunRecords, Phases
<1>3. run' = [run EXCEPT ![r] = rec]
  BY <1>1 DEF Goes
<1> HIDE DEF rec
<1>4. run' \in [Runs -> RunRecords] /\ run'[r] = rec
  BY <1>0, <1>2, <1>3, RunTurnsTo
<1>5. DocShapes'
  BY <1>0, <1>1, <1>4 DEF DocShapes
<1>6. InTheArchive(d, sha, n) /\ InTheTree(d, sha, m)
  BY <1>0 DEF Handled
<1>7. InTheArchive(d, sha, n)' /\ InTheTree(d, sha, m)'
  BY <1>1, <1>6 DEF InTheArchive, Copies, InTheTree, Titled
<1>8. Gone(d)'
  BY <1>0, <1>1 DEF Gone, DocShapes
<1>9. Handled(r)'
  BY <1>2, <1>4, <1>7, <1>8 DEF Handled
<1>10. Recoverable(d)'
  <2>1. PICK c \in archive : /\ c.doc = d /\ c.sha = sha /\ c.content # 0
                             /\ d \notin late => c.content = sha
    BY <1>6 DEF InTheArchive, Copies
  <2>2. PICK f \in filed : /\ f.doc = d /\ f.content # 0
                           /\ d \notin late => f.content = sha
    BY <1>6 DEF InTheTree, Titled
  <2> QED
    BY <1>1, <2>1, <2>2 DEF Recoverable
<1>11. Settled'
  <2>1. KeepsTheGone
    BY <1>0, <1>1 DEF KeepsTheGone, Gone, DocShapes
  <2>2. \A e \in Docs : Gone(e)' => Gone(e) \/ e = d
    BY <1>0, <1>1 DEF Gone, DocShapes
  <2> QED
    BY <1>0, <1>1, <1>10, <2>1, <2>2, GoneStays DEF Settled, DocIInv
<1> QED
  BY <1>5, <1>9, <1>11 DEF DocIInv, OneRun

LEMMA EntersTheIndex ==
  ASSUME OneRun, DocIInv, NEW r \in Runs, AppendIndex(r)
  PROVE  DocIInv'
<1> PICK d, sha, n, m : d = run[r].doc /\ sha = run[r].sha /\ n = run[r].archived /\ m = run[r].sorted
  OBVIOUS
<1>0. run[r] \in RunRecords /\ Handled(r) /\ run[r].at = "index" /\ DocShapes /\ Settled
  BY DEF DocIInv, DocShapes, AppendIndex
<1> DEFINE new == [doc |-> d, sha |-> sha, archived |-> n, sorted |-> m]
           rec == [run[r] EXCEPT !.at = "next"]
<1>1. index' = index \cup {new} /\ Goes(r, "next") /\ UNCHANGED <<inbox, archive, filed, arrived, late>>
  BY DEF AppendIndex
<1>2. rec \in RunRecords /\ rec.at = "next"
  BY <1>0 DEF RunRecords, Phases
<1>3. run' = [run EXCEPT ![r] = rec]
  BY <1>1 DEF Goes
<1>4. new.doc = d /\ new.sha = sha /\ new.archived = n /\ new.sorted = m
  OBVIOUS
<1> HIDE DEF rec, new
<1>5. run' \in [Runs -> RunRecords] /\ run'[r] = rec
  BY <1>0, <1>2, <1>3, RunTurnsTo
<1>6. DocShapes'
  BY <1>0, <1>1, <1>5 DEF DocShapes
<1>7. Handled(r)'
  BY <1>2, <1>5 DEF Handled
<1>8. Gone(d) /\ InTheArchive(d, sha, n) /\ InTheTree(d, sha, m)
  BY <1>0 DEF Handled
<1>9. Gone(d)' /\ InTheArchive(d, sha, n)' /\ InTheTree(d, sha, m)'
  BY <1>1, <1>8 DEF Gone, InTheArchive, Copies, InTheTree, Titled
<1>10. Settled'
  <2>1. KeepsTheGone
    BY <1>1 DEF KeepsTheGone, Gone
  <2>2. \A e \in Docs : Gone(e)' => Gone(e)
    BY <1>1 DEF Gone
  <2>3. \A x \in index : /\ Gone(x.doc)' /\ InTheArchive(x.doc, x.sha, x.archived)'
                         /\ InTheTree(x.doc, x.sha, x.sorted)'
    BY <1>0, <2>1, GoneStays
  <2>4. \A e \in Docs : Gone(e) => Recoverable(e)'
    BY <1>0, <2>1, GoneStays
  <2>5. \A x \in index' : x \in index \/ x = new
    BY <1>1
  <2>6. Gone(new.doc)' /\ InTheArchive(new.doc, new.sha, new.archived)'
        /\ InTheTree(new.doc, new.sha, new.sorted)'
    BY <1>4, <1>9 DEF new
  <2>7. ASSUME NEW x \in index'
        PROVE  /\ Gone(x.doc)' /\ InTheArchive(x.doc, x.sha, x.archived)'
               /\ InTheTree(x.doc, x.sha, x.sorted)'
    BY <2>3, <2>5, <2>6
  <2> QED
    BY <2>2, <2>4, <2>7 DEF Settled
<1> QED
  BY <1>6, <1>7, <1>10 DEF DocIInv, OneRun

LEMMA DocStepKeepsIt == ASSUME OneRun PROVE DocIInv /\ [DocNext]_docVars => DocIInv'
<1> SUFFICES ASSUME DocIInv, [DocNext]_docVars PROVE DocIInv'
  OBVIOUS
<1>1. CASE UNCHANGED docVars
  BY <1>1 DEF docVars, DocIInv, DocShapes, Handled, Settled, Gone, InTheArchive, InTheTree,
              Recoverable, Copies, Titled
<1>2. CASE \E d \in Docs : Scan(d)
  BY <1>2, ScansAreGood
<1>3. ASSUME NEW r \in Runs, FileStep(r) PROVE DocIInv'
  BY <1>3, BetweenDocuments, NamesAreFree, CopiesAreGood, MovesAreGood, LeavesTheInbox,
     EntersTheIndex DEF FileStep
<1> QED
  BY <1>1, <1>2, <1>3 DEF DocNext

LEMMA DocIInvHolds == ASSUME OneRun PROVE DocSpec => []DocIInv
<1> QED
  BY DocInitIsGood, DocStepKeepsIt, PTL DEF DocSpec

(* With one run at a time a record of the index stays true, however often    *)
(* runs are killed and whatever later runs file under the same names         *)
(* (process_document and _unique_path of _document_pipeline/_pipeline.py).   *)
THEOREM IndexIsAlwaysTrue == ASSUME OneRun PROVE DocSpec => []IndexIsTrue
<1>1. DocIInv => IndexIsTrue
  BY DEF DocIInv, Settled, IndexIsTrue, InTheArchive, InTheTree
<1> QED
  BY <1>1, DocIInvHolds, PTL

(* With one run at a time a document that has left the inbox is whole in the *)
(* archive and in the sorted tree (_pipeline.py:9-12).                       *)
THEOREM FiledIsAlwaysRecoverable == ASSUME OneRun PROVE DocSpec => []FiledIsRecoverable
<1>1. DocIInv => FiledIsRecoverable
  BY DEF DocIInv, DocShapes, Settled, Gone, Recoverable, FiledIsRecoverable
<1> QED
  BY <1>1, DocIInvHolds, PTL

-----------------------------------------------------------------------------
GuiShaped ==
  /\ server \in [Servers ->
       [at : {"unstarted", "status", "write", "check", "bind", "listen", "clear", "ended"},
        verb : {"serve", "open"}]]
  /\ state \in Servers \cup {NoState}
  /\ stopping \in [Stops -> [at : {"unstarted", "read", "signal", "clear", "ended"},
                             pid : Servers \cup {0}]]

StopUnderWay(s) == stopping[s].at \notin {"unstarted", "ended"}

(* A server whose start nothing fell into, until it listens: no stop is      *)
(* under way, and beside it at most the server that the state file names and *)
(* that it is about to find.                                                 *)
StartsAlone ==
  \A p \in Servers \ crowded :
    server[p].at \in {"status", "write", "check", "bind"} =>
      /\ \A s \in Stops : ~StopUnderWay(s)
      /\ \A q \in Servers \ {p} : RunningServer(q) =>
           server[p].at = "status" /\ server[q].at \in {"listen", "clear"} /\ state = q
      /\ server[p].at \in {"check", "bind"} => state = p

(* And then: the others only look, and a stop that has read the state means it. *)
ListensKnown ==
  \A p \in Servers \ crowded :
    server[p].at = "listen" =>
      /\ state = p
      /\ \A q \in Servers \ {p} : RunningServer(q) => server[q].at = "status"
      /\ \A s \in Stops : /\ stopping[s].at = "signal" => stopping[s].pid = p
                          /\ stopping[s].at # "clear"

GuiIInv == GuiShaped /\ StartsAlone /\ ListensKnown

LEMMA GuiInitIsGood == GuiInit => GuiIInv
  BY DEF GuiInit, GuiIInv, GuiShaped, StartsAlone, ListensKnown, Unstarted, NoState

LEMMA GuiStepKeepsIt == GuiIInv /\ [GuiNext]_guiVars => GuiIInv'
<1> SUFFICES ASSUME GuiIInv, [GuiNext]_guiVars PROVE GuiIInv'
  OBVIOUS
<1> USE DEF GuiIInv
<1>0. \A p \in Servers : p # NoState
  BY GuiAssumption DEF Servers, NoState
<1>1. CASE UNCHANGED guiVars
  BY <1>1 DEF guiVars, GuiShaped, StartsAlone, ListensKnown, RunningServer, StopUnderWay
<1>2. ASSUME NEW p \in Servers, NEW verb \in {"serve", "open"}, LaunchGui(p, verb) PROVE GuiIInv'
  <2>1. /\ server[p].at = "unstarted" /\ UNCHANGED <<state, stopping>>
        /\ server' = [server EXCEPT ![p] = [at |-> IF verb = "open" THEN "status" ELSE "write", verb |-> verb]]
    BY <1>2 DEF LaunchGui
  <2>2. GuiShaped'
    BY <2>1 DEF GuiShaped
  <2>3. CASE UnderWay(verb) = {} /\ \A s \in Stops : stopping[s].at \in {"unstarted", "ended"}
    <3>1. UNCHANGED crowded
      BY <1>2, <2>3 DEF LaunchGui
    <3>2. \A q \in Servers : RunningServer(q) => verb = "open" /\ server[q].at = "listen" /\ q \notin crowded
      BY <2>3 DEF UnderWay
    <3>3. StartsAlone' /\ ListensKnown'
      BY <2>1, <2>3, <3>1, <3>2 DEF GuiShaped, StartsAlone, ListensKnown, RunningServer, StopUnderWay
    <3> QED
      BY <2>2, <3>3
  <2>4. CASE ~(UnderWay(verb) = {} /\ \A s \in Stops : stopping[s].at \in {"unstarted", "ended"})
    <3>1. crowded' = crowded \cup UnderWay(verb) \cup {p}
      BY <1>2, <2>4 DEF LaunchGui
    <3>2. \A q \in Servers \ crowded' : RunningServer(q) => verb = "open" /\ server[q].at = "listen"
      BY <3>1 DEF UnderWay
    <3>3. StartsAlone' /\ ListensKnown'
      BY <2>1, <3>1, <3>2 DEF GuiShaped, StartsAlone, ListensKnown, RunningServer, StopUnderWay
    <3> QED
      BY <2>2, <3>3
  <2> QED
    BY <2>3, <2>4
<1>3. ASSUME NEW p \in Servers, OpenLooks(p) PROVE GuiIInv'
  <2>1. /\ server[p].at = "status" /\ UNCHANGED <<state, stopping, crowded>>
        /\ server' = [server EXCEPT ![p].at = IF Recorded THEN "ended" ELSE "write"]
    BY <1>3 DEF OpenLooks, Proceeds
  <2>2. \A q \in Servers : state = q /\ RunningServer(q) => Recorded
    BY <1>0 DEF Recorded
  <2> QED
    BY <2>1, <2>2 DEF GuiShaped, StartsAlone, ListensKnown, RunningServer, StopUnderWay
<1>4. ASSUME NEW p \in Servers, WriteGuiState(p) PROVE GuiIInv'
  BY <1>4 DEF WriteGuiState, Proceeds, GuiShaped, StartsAlone, ListensKnown, RunningServer, StopUnderWay
<1>5. ASSUME NEW p \in Servers, CheckPort(p) PROVE GuiIInv'
  BY <1>5 DEF CheckPort, Proceeds, GuiShaped, StartsAlone, ListensKnown, RunningServer, StopUnderWay
<1>6. ASSUME NEW p \in Servers, BindPort(p) PROVE GuiIInv'
  BY <1>6 DEF BindPort, Proceeds, GuiShaped, StartsAlone, ListensKnown, RunningServer, StopUnderWay
<1>7. ASSUME NEW p \in Servers, InterruptGui(p) \/ KillGui(p) PROVE GuiIInv'
  BY <1>7 DEF InterruptGui, KillGui, Proceeds, GuiShaped, StartsAlone, ListensKnown, RunningServer, StopUnderWay
<1>8. ASSUME NEW p \in Servers, ClearGuiState(p) PROVE GuiIInv'
  BY <1>0, <1>8 DEF ClearGuiState, Proceeds, GuiShaped, StartsAlone, ListensKnown, RunningServer, StopUnderWay
<1>9. ASSUME NEW s \in Stops, StartStop(s) PROVE GuiIInv'
  BY <1>9 DEF StartStop, StopProceeds, GuiShaped, StartsAlone, ListensKnown, RunningServer, StopUnderWay
<1>10. ASSUME NEW s \in Stops, ReadGuiState(s) PROVE GuiIInv'
  <2>1. /\ stopping[s].at = "read" /\ UNCHANGED <<server, state, crowded>>
        /\ stopping' = [stopping EXCEPT ![s] =
             IF Recorded THEN [at |-> "signal", pid |-> state] ELSE [at |-> "ended", pid |-> 0]]
    BY <1>10 DEF ReadGuiState
  <2>2. Recorded => state \in Servers
    BY DEF Recorded, GuiShaped
  <2>3. GuiShaped'
    BY <2>1, <2>2 DEF GuiShaped
  <2>4. /\ stopping'[s].at \in {"signal", "ended"} /\ (stopping'[s].at = "signal" => stopping'[s].pid = state)
        /\ \A t \in Stops \ {s} : stopping'[t] = stopping[t]
    BY <2>1 DEF GuiShaped
  <2>5. StartsAlone'
    BY <2>1, <2>4 DEF StartsAlone, RunningServer, StopUnderWay
  <2>6. ListensKnown'
    BY <2>1, <2>4 DEF ListensKnown, RunningServer
  <2> QED
    BY <2>3, <2>5, <2>6
<1>11. ASSUME NEW s \in Stops, SignalGui(s) PROVE GuiIInv'
  <2>1. stopping[s].at = "signal" /\ UNCHANGED <<state, crowded>>
    BY <1>11 DEF SignalGui
  <2>2. CASE StopProceeds(s, "ended") /\ UNCHANGED server
    BY <2>1, <2>2 DEF StopProceeds, GuiShaped, StartsAlone, ListensKnown, RunningServer, StopUnderWay
  <2>3. ASSUME RunningServer(stopping[s].pid), StopProceeds(s, "clear"),
               NEW call \in {"ended", "clear"}, Proceeds(stopping[s].pid, call)
        PROVE  GuiIInv'
    <3>1. /\ stopping' = [stopping EXCEPT ![s].at = "clear"]
          /\ server' = [server EXCEPT ![stopping[s].pid].at = call]
      BY <2>3 DEF Proceeds, StopProceeds
    <3>2. GuiShaped'
      BY <2>1, <3>1 DEF GuiShaped
    <3>3. StartsAlone'
      BY <2>1, <3>1 DEF GuiShaped, StartsAlone, RunningServer, StopUnderWay
    <3>4. ListensKnown'
      BY <2>1, <3>1 DEF GuiShaped, ListensKnown, RunningServer
    <3> QED
      BY <3>2, <3>3, <3>4
  <2> QED
    BY <1>11, <2>2, <2>3 DEF SignalGui
<1>12. ASSUME NEW s \in Stops, ForgetGui(s) PROVE GuiIInv'
  BY <1>12 DEF ForgetGui, StopProceeds, GuiShaped, StartsAlone, ListensKnown, RunningServer, StopUnderWay
<1> QED
  BY <1>1, <1>2, <1>3, <1>4, <1>5, <1>6, <1>7, <1>8, <1>9, <1>10, <1>11, <1>12 DEF GuiNext

(* A server that listens is the one that the state file names, for any       *)
(* number of launches and stops, on whichever addresses, as long as nothing  *)
(* falls into a start (_cli/_gui_cmd.py:136).                                *)
THEOREM ServerIsAlwaysKnown == GuiSpec => []ServerIsKnown
<1>1. GuiIInv => ServerIsKnown
  BY DEF GuiIInv, ListensKnown, ServerIsKnown, RunningServer
<1> QED
  BY <1>1, GuiInitIsGood, GuiStepKeepsIt, PTL DEF GuiSpec

-----------------------------------------------------------------------------
(* The types of the volume pages. *)
VolTIInv ==
  /\ mount \in [Vols -> Mounts] /\ page \in [Workers -> PageRecords]
  /\ status \in [Workers -> [Vols -> Statuses \cup {Asked}]]
  /\ box \in [Threads -> Statuses \cup {NoProbe, Asked, There}]
  /\ pages \in [Workers -> 0..MaxPages] /\ outages \in 0..MaxOutages
  /\ been \in [Workers -> [Vols -> SUBSET Mounts]]
  /\ \A w \in Workers :
       /\ page[w].at = "results" => page[w].name = "duplicates"
       /\ page[w].at = "measure" => pages[w] > 0

LEMMA VolRequestsTyped == VolTIInv => VolTypes
  BY DEF VolTIInv, VolTypes, PageRecords

LEMMA StatusesDiffer ==
  /\ Asked \notin Statuses /\ There \notin Statuses /\ NoProbe \notin Statuses
  /\ UNREACHABLE \notin {REACHABLE, BENEATH, NOT_MOUNTED}
  /\ REACHABLE # NOT_MOUNTED /\ REACHABLE # BENEATH /\ BENEATH # NOT_MOUNTED
  BY DEF Asked, There, NoProbe, Statuses, REACHABLE, BENEATH, NOT_MOUNTED, UNREACHABLE

LEMMA VolInitTyped == VolInit => VolTIInv
  BY VolumeBounds DEF VolInit, VolTIInv, NoPage, PageRecords, Mounts, Pages

(* What a worker waits with is one of its own probes. *)
LEMMA OwnProbe ==
  ASSUME VolTIInv, NEW w \in Workers, page[w].at = "measure", NEW v \in Vols
  PROVE  <<w, pages[w], v>> \in Threads
<1>1. pages[w] \in 1..MaxPages
  BY VolumeBounds DEF VolTIInv
<1> QED
  BY <1>1 DEF Threads

LEMMA VolStepTyped == VolTIInv /\ [VolNext]_volVars => VolTIInv'
<1> SUFFICES ASSUME VolTIInv, [VolNext]_volVars PROVE VolTIInv'
  OBVIOUS
<1> USE VolumeBounds DEF VolTIInv
<1>0. ASSUME NEW w \in Workers, NEW to \in PageRecords, TurnsTo(w, to), UNCHANGED <<mount, outages>>, to.at # "measure",
             to.at = "results" => to.name = "duplicates",
             pages' \in [Workers -> 0..MaxPages], \A x \in Workers \ {w} : pages'[x] = pages[x],
             box' = box
      PROVE  VolTIInv'
  <2>1. page' \in [Workers -> PageRecords] /\ page'[w] = to /\ \A x \in Workers \ {w} : page'[x] = page[x]
    BY <1>0 DEF TurnsTo
  <2>2. status' \in [Workers -> [Vols -> Statuses \cup {Asked}]] /\ been' \in [Workers -> [Vols -> SUBSET Mounts]]
    BY <1>0 DEF TurnsTo
  <2> QED
    BY <1>0, <2>1, <2>2
<1>1. CASE UNCHANGED volVars
  BY <1>1 DEF volVars
<1>2. ASSUME NEW v \in Vols, NEW to \in Mounts, Change(v, to) PROVE VolTIInv'
  <2>1. been' \in [Workers -> [Vols -> SUBSET Mounts]]
    BY <1>2 DEF Change
  <2>2. mount' \in [Vols -> Mounts] /\ outages' \in 0..MaxOutages
    BY <1>2 DEF Change
  <2> QED
    BY <1>2, <2>1, <2>2 DEF Change
<1>3. ASSUME NEW w \in Workers, Open(w) PROVE VolTIInv'
  <2>1. [NoPage EXCEPT !.at = "measure"] \in PageRecords /\ [NoPage EXCEPT !.at = "measure"].at = "measure"
    BY DEF NoPage, PageRecords, Pages
  <2>2. page' \in [Workers -> PageRecords] /\ page'[w].at = "measure" /\ \A x \in Workers \ {w} : page'[x] = page[x]
    <3> DEFINE to == [NoPage EXCEPT !.at = "measure"]
    <3>1. page' = [page EXCEPT ![w] = to] /\ to \in PageRecords /\ to.at = "measure"
      BY <1>3, <2>1 DEF Open
    <3> HIDE DEF to
    <3> QED
      BY <3>1
  <2>3. pages' \in [Workers -> 0..MaxPages] /\ pages'[w] > 0 /\ \A x \in Workers \ {w} : pages'[x] = pages[x]
    BY <1>3 DEF Open
  <2>4. /\ been' \in [Workers -> [Vols -> SUBSET Mounts]] /\ UNCHANGED <<mount, outages>>
        /\ status' \in [Workers -> [Vols -> Statuses \cup {Asked}]]
    BY <1>3 DEF Open
  <2>5. box' \in [Threads -> Statuses \cup {NoProbe, Asked, There}]
    BY <1>3 DEF Open
  <2> QED
    BY <2>2, <2>3, <2>4, <2>5
<1>4. ASSUME NEW w \in Workers, NEW v \in Vols, ListDir(w, v) PROVE VolTIInv'
  <2>1. [name |-> "browse", at |-> "direct", vols |-> {v}] \in PageRecords
    BY DEF PageRecords, Pages
  <2> QED
    BY <1>0, <1>4, <2>1 DEF ListDir, Does
<1>5. ASSUME NEW p \in Threads, IsDir(p) \/ Measures(p) PROVE VolTIInv'
  <2>1. /\ UNCHANGED <<mount, page, status, pages, outages, been>>
        /\ \E answer \in Statuses \cup {There} : box' = [box EXCEPT ![p] = answer]
    BY <1>5 DEF IsDir, Measures, Statuses
  <2> QED
    BY <2>1
<1>6. ASSUME NEW w \in Workers, NEW v \in Vols, Take(w, v) \/ GiveUp(w, v) PROVE VolTIInv'
  <2>1. /\ UNCHANGED <<mount, page, pages, outages, been>>
        /\ \E answer \in Statuses : status' = [status EXCEPT ![w][v] = answer]
        /\ \/ box' = box
           \/ box' = [box EXCEPT ![<<w, pages[w], v>>] = NoProbe]
    BY <1>6 DEF Take, GiveUp, Statuses
  <2>2. status' \in [Workers -> [Vols -> Statuses \cup {Asked}]]
    BY <2>1
  <2>3. box' \in [Threads -> Statuses \cup {NoProbe, Asked, There}]
    BY <2>1
  <2> QED
    BY <2>1, <2>2, <2>3
<1>7. ASSUME NEW w \in Workers, Measured(w) \/ Direct(w) \/ Bounded(w) \/ Results(w) PROVE VolTIInv'
  <2>1. UNCHANGED <<mount, box, pages, outages>>
    BY <1>7 DEF Measured, Direct, Bounded, Results
  <2>2. Reachable(w) \in SUBSET Vols /\ page[w].vols \in SUBSET Vols /\ page[w].name \in Pages
    BY DEF Reachable, PageRecords
  <2>3. \/ Respond(w)
        \/ \E name \in Pages, step \in {"direct", "bounded"}, vols \in SUBSET Vols : Does(w, name, step, vols)
        \/ \E vols \in SUBSET Vols : Does(w, "duplicates", "results", vols)
    <3>1. CASE Measured(w)
      <4>1. \/ \E v \in Vols : Does(w, "usage", "bounded", {v}) \/ Does(w, "move", "direct", {v})
            \/ Does(w, "duplicates", "direct", Reachable(w))
            \/ Respond(w)
        BY <3>1 DEF Measured
      <4>2. CASE \E v \in Vols : Does(w, "usage", "bounded", {v}) \/ Does(w, "move", "direct", {v})
        BY <4>2 DEF Pages
      <4>3. CASE Does(w, "duplicates", "direct", Reachable(w))
        BY <4>3, <2>2 DEF Pages
      <4> QED
        BY <4>1, <4>2, <4>3
    <3>2. CASE Direct(w)
      <4>1. \/ \E roots \in SUBSET Vols : Does(w, page[w].name, "bounded", roots)
            \/ Respond(w)
        BY <2>2, <3>2 DEF Direct
      <4> QED
        BY <2>2, <4>1
    <3>3. CASE Bounded(w) \/ Results(w)
      BY <2>2, <3>3 DEF Bounded, Results
    <3> QED
      BY <1>7, <3>1, <3>2, <3>3
  <2>4. CASE Respond(w)
    <3>1. NoPage \in PageRecords /\ NoPage.at = "idle"
      BY DEF NoPage, PageRecords, Pages
    <3> QED
      BY <1>0, <2>1, <2>4, <3>1 DEF Respond
  <2>5. ASSUME NEW name \in Pages, NEW step \in {"direct", "bounded"}, NEW vols \in SUBSET Vols,
               Does(w, name, step, vols)
        PROVE  VolTIInv'
    <3>1. [name |-> name, at |-> step, vols |-> vols] \in PageRecords
      BY DEF PageRecords
    <3> QED
      BY <1>0, <2>1, <2>5, <3>1 DEF Does
  <2>6. ASSUME NEW vols \in SUBSET Vols, Does(w, "duplicates", "results", vols) PROVE VolTIInv'
    <3>1. [name |-> "duplicates", at |-> "results", vols |-> vols] \in PageRecords
      BY DEF PageRecords, Pages
    <3> QED
      BY <1>0, <2>1, <2>6, <3>1 DEF Does
  <2> QED
    BY <2>3, <2>4, <2>5, <2>6
<1> QED
  BY <1>1, <1>2, <1>3, <1>4, <1>5, <1>6, <1>7 DEF VolNext, PageStep

(* What a volume is now counts among what it has been while the request      *)
(* waits, and what that request's own probe has answered is one of those.    *)
VolIInv ==
  /\ VolTIInv
  /\ \A w \in Workers, v \in Vols : Measuring(w, v) =>
       mount[v] \in been[w][v] /\ Honest(box[<<w, pages[w], v>>], been[w][v])
  /\ StatusIsHonest

LEMMA VolInitIsGood == VolInit => VolIInv
<1> SUFFICES ASSUME VolInit PROVE VolIInv
  OBVIOUS
<1> QED
  BY VolInitTyped, StatusesDiffer DEF VolInit, VolIInv, StatusIsHonest, Honest, Measuring, NoPage, Statuses

LEMMA VolStepKeepsIt == VolIInv /\ [VolNext]_volVars => VolIInv'
<1> SUFFICES ASSUME VolIInv, [VolNext]_volVars PROVE VolIInv'
  OBVIOUS
<1> USE VolumeBounds
<1>0. VolTIInv /\ VolTIInv'
  BY VolStepTyped DEF VolIInv
<1>a. ASSUME NEW w \in Workers, NEW v \in Vols, Measuring(w, v)
      PROVE  mount[v] \in been[w][v] /\ Honest(box[<<w, pages[w], v>>], been[w][v]) /\ <<w, pages[w], v>> \in Threads
  BY <1>a, <1>0, OwnProbe DEF VolIInv, Measuring
<1>b. \A w \in Workers, v \in Vols : Honest(status[w][v], been[w][v])
  BY DEF VolIInv, StatusIsHonest
<1>c. ASSUME NEW w \in Workers, NEW was PROVE Honest(Asked, was) /\ Honest(There, was) /\ Honest(UNREACHABLE, was)
  BY StatusesDiffer DEF Honest, Statuses
<1>1. ASSUME UNCHANGED volVars, NEW x \in Workers, NEW u \in Vols
      PROVE  /\ Measuring(x, u)' =>
                  mount'[u] \in been'[x][u] /\ Honest(box'[<<x, pages'[x], u>>], been'[x][u])
             /\ Honest(status'[x][u], been'[x][u])
  BY <1>1, <1>a, <1>b DEF volVars, Measuring
<1>2. ASSUME NEW v \in Vols, NEW to \in Mounts, Change(v, to), NEW x \in Workers, NEW u \in Vols
      PROVE  /\ Measuring(x, u)' =>
                  mount'[u] \in been'[x][u] /\ Honest(box'[<<x, pages'[x], u>>], been'[x][u])
             /\ Honest(status'[x][u], been'[x][u])
  <2>1. mount' = [mount EXCEPT ![v] = to] /\ UNCHANGED <<page, status, box, pages>>
        /\ been'[x] = IF Measuring(x, v) THEN [been[x] EXCEPT ![v] = @ \cup {to}] ELSE been[x]
    BY <1>2 DEF Change
  <2>2. been[x][u] \subseteq been'[x][u] /\ (Measuring(x, u) /\ u = v => to \in been'[x][u])
    BY <1>0, <2>1 DEF VolTIInv
  <2>3. Measuring(x, u)' <=> Measuring(x, u)
    BY <2>1 DEF Measuring
  <2>4. Honest(status'[x][u], been'[x][u])
    BY <1>b, <2>1, <2>2 DEF Honest
  <2>5. ASSUME Measuring(x, u) PROVE mount'[u] \in been'[x][u] /\ Honest(box'[<<x, pages'[x], u>>], been'[x][u])
    <3>1. mount[u] \in been[x][u] /\ Honest(box[<<x, pages[x], u>>], been[x][u])
      BY <1>a, <2>5
    <3>2. mount'[u] \in been'[x][u]
      BY <1>0, <2>1, <2>2, <2>5, <3>1 DEF VolTIInv
    <3> QED
      BY <2>1, <2>2, <3>1, <3>2 DEF Honest
  <2> QED
    BY <2>3, <2>4, <2>5
<1>3. ASSUME NEW w \in Workers, Open(w), NEW x \in Workers, NEW u \in Vols
      PROVE  /\ Measuring(x, u)' =>
                  mount'[u] \in been'[x][u] /\ Honest(box'[<<x, pages'[x], u>>], been'[x][u])
             /\ Honest(status'[x][u], been'[x][u])
  <2>1. /\ UNCHANGED mount /\ pages' = [pages EXCEPT ![w] = @ + 1]
        /\ status' = [status EXCEPT ![w] = [v \in Vols |-> Asked]]
        /\ page' = [page EXCEPT ![w] = [NoPage EXCEPT !.at = "measure"]]
        /\ box' = [p \in Threads |-> IF p[1] = w /\ p[2] = pages'[w] THEN Asked ELSE box[p]]
        /\ been' = [been EXCEPT ![w] = [v \in Vols |-> {mount[v]}]]
    BY <1>3 DEF Open
  <2>2. CASE x # w
    <3>1. page'[x] = page[x] /\ pages'[x] = pages[x] /\ been'[x] = been[x] /\ status'[x] = status[x]
      BY <1>0, <2>1, <2>2 DEF VolTIInv
    <3>2. Measuring(x, u)' => Measuring(x, u) /\ box'[<<x, pages'[x], u>>] = box[<<x, pages[x], u>>]
      BY <1>a, <2>1, <2>2, <3>1 DEF Measuring, Threads
    <3> QED
      BY <1>a, <1>b, <2>1, <3>1, <3>2
  <2>3. CASE x = w
    <3>1. been'[x][u] = {mount[u]} /\ pages'[x] \in 1..MaxPages
      BY <1>0, <1>3, <2>1, <2>3 DEF VolTIInv, Open
    <3>2. box'[<<x, pages'[x], u>>] = Asked
      BY <2>1, <2>3, <3>1 DEF Threads
    <3>3. status'[x][u] = Asked
      BY <1>0, <2>1, <2>3 DEF VolTIInv
    <3> QED
      BY <1>c, <2>1, <3>1, <3>2, <3>3
  <2> QED
    BY <2>2, <2>3
<1>4. ASSUME NEW w \in Workers, NEW to, TurnsTo(w, to), to.at # "measure", mount' = mount, box' = box,
             \A y \in Workers \ {w} : pages'[y] = pages[y], NEW x \in Workers, NEW u \in Vols
      PROVE  /\ Measuring(x, u)' =>
                  mount'[u] \in been'[x][u] /\ Honest(box'[<<x, pages'[x], u>>], been'[x][u])
             /\ Honest(status'[x][u], been'[x][u])
  <2>1. CASE x # w
    <3>1. page'[x] = page[x] /\ pages'[x] = pages[x] /\ been'[x] = been[x] /\ status'[x] = status[x]
      BY <1>0, <1>4, <2>1 DEF VolTIInv, TurnsTo
    <3>2. Measuring(x, u)' => Measuring(x, u)
      BY <3>1 DEF Measuring
    <3> QED
      BY <1>a, <1>b, <1>4, <3>1, <3>2
  <2>2. CASE x = w
    <3>1. page'[x].at # "measure" /\ status'[x][u] = Asked
      BY <1>0, <1>4, <2>2 DEF VolTIInv, TurnsTo
    <3> QED
      BY <1>c, <3>1 DEF Measuring
  <2> QED
    BY <2>1, <2>2
<1>5. ASSUME NEW p \in Threads, IsDir(p) \/ Measures(p), NEW x \in Workers, NEW u \in Vols
      PROVE  /\ Measuring(x, u)' =>
                  mount'[u] \in been'[x][u] /\ Honest(box'[<<x, pages'[x], u>>], been'[x][u])
             /\ Honest(status'[x][u], been'[x][u])
  <2>1. /\ UNCHANGED <<mount, page, status, pages, been>>
        /\ \E answer : /\ box' = [box EXCEPT ![p] = answer]
                       /\ Honest(answer, {mount[p[3]]})
    <3>1. CASE IsDir(p)
      <4>1. CASE mount[p[3]] = "absent"
        BY <3>1, <4>1, StatusesDiffer DEF IsDir, Honest
      <4>2. CASE mount[p[3]] # "absent"
        BY <3>1, <4>2, <1>c DEF IsDir
      <4> QED
        BY <4>1, <4>2
    <3>2. CASE Measures(p)
      BY <3>2, StatusesDiffer DEF Measures, Honest
    <3> QED
      BY <1>5, <3>1, <3>2
  <2>2. Measuring(x, u)' <=> Measuring(x, u)
    BY <2>1 DEF Measuring
  <2>3. ASSUME Measuring(x, u) PROVE mount[u] \in been[x][u] /\ Honest(box'[<<x, pages[x], u>>], been[x][u])
    <3>1. mount[u] \in been[x][u] /\ Honest(box[<<x, pages[x], u>>], been[x][u]) /\ <<x, pages[x], u>> \in Threads
      BY <1>a, <2>3
    <3>2. PICK answer : box' = [box EXCEPT ![p] = answer] /\ Honest(answer, {mount[p[3]]})
      BY <2>1
    <3>3. CASE p = <<x, pages[x], u>>
      <4>1. box'[<<x, pages[x], u>>] = answer /\ p[3] = u
        BY <1>0, <3>1, <3>2, <3>3 DEF VolTIInv
      <4> QED
        BY <3>1, <3>2, <4>1 DEF Honest
    <3>4. CASE p # <<x, pages[x], u>>
      <4>1. box'[<<x, pages[x], u>>] = box[<<x, pages[x], u>>]
        BY <1>0, <3>1, <3>2, <3>4 DEF VolTIInv
      <4> QED
        BY <3>1, <4>1
    <3> QED
      BY <3>3, <3>4
  <2> QED
    BY <1>b, <2>1, <2>2, <2>3
<1>6. ASSUME NEW w \in Workers, NEW v \in Vols, Take(w, v) \/ GiveUp(w, v), NEW x \in Workers, NEW u \in Vols
      PROVE  /\ Measuring(x, u)' =>
                  mount'[u] \in been'[x][u] /\ Honest(box'[<<x, pages'[x], u>>], been'[x][u])
             /\ Honest(status'[x][u], been'[x][u])
  <2>1. PICK answer \in Statuses :
          /\ UNCHANGED <<mount, page, pages, been>>
          /\ status' = [status EXCEPT ![w][v] = answer]
          /\ Honest(answer, been[w][v])
          /\ box' = box \/ box' = [box EXCEPT ![<<w, pages[w], v>>] = NoProbe]
    BY <1>6, <1>a, <1>c DEF Take, GiveUp, Statuses
  <2>2. CASE x = w /\ u = v
    <3>1. status'[x][u] = answer
      BY <1>0, <2>1, <2>2 DEF VolTIInv
    <3> QED
      BY <2>1, <2>2, <3>1, StatusesDiffer DEF Measuring
  <2>3. CASE ~(x = w /\ u = v)
    <3>1. status'[x][u] = status[x][u]
      BY <1>0, <2>1, <2>3 DEF VolTIInv
    <3>2. Measuring(x, u)' <=> Measuring(x, u)
      BY <2>1, <3>1 DEF Measuring
    <3>3. ASSUME Measuring(x, u) PROVE box'[<<x, pages[x], u>>] = box[<<x, pages[x], u>>]
      <4>1. <<x, pages[x], u>> \in Threads /\ <<x, pages[x], u>> # <<w, pages[w], v>>
        BY <1>a, <2>3, <3>3
      <4> QED
        BY <1>0, <2>1, <4>1 DEF VolTIInv
    <3> QED
      BY <1>a, <1>b, <2>1, <3>1, <3>2, <3>3
  <2> QED
    BY <2>2, <2>3
<1>7. ASSUME NEW w \in Workers, Measured(w) \/ Direct(w) \/ Bounded(w) \/ Results(w) \/ \E v \in Vols : ListDir(w, v)
      PROVE  \E to : /\ TurnsTo(w, to) /\ to.at # "measure" /\ mount' = mount /\ box' = box
                     /\ \A y \in Workers \ {w} : pages'[y] = pages[y]
  <2>1. mount' = mount /\ box' = box /\ \A y \in Workers \ {w} : pages'[y] = pages[y]
    BY <1>7, <1>0 DEF Measured, Direct, Bounded, Results, ListDir, VolTIInv
  <2>2. \/ Respond(w)
        \/ \E name, vols : \E step \in {"bounded", "direct", "results"} : Does(w, name, step, vols)
    BY <1>7 DEF Measured, Direct, Bounded, Results, ListDir
  <2>3. CASE Respond(w)
    BY <2>1, <2>3 DEF Respond, NoPage
  <2>4. ASSUME NEW name, NEW vols, NEW step \in {"bounded", "direct", "results"}, Does(w, name, step, vols)
        PROVE  \E to : TurnsTo(w, to) /\ to.at # "measure"
    BY <2>4 DEF Does
  <2> QED
    BY <2>1, <2>2, <2>3, <2>4
<1>8. ASSUME NEW w \in Workers, Measured(w) \/ Direct(w) \/ Bounded(w) \/ Results(w) \/ \E v \in Vols : ListDir(w, v),
             NEW x \in Workers, NEW u \in Vols
      PROVE  /\ Measuring(x, u)' =>
                  mount'[u] \in been'[x][u] /\ Honest(box'[<<x, pages'[x], u>>], been'[x][u])
             /\ Honest(status'[x][u], been'[x][u])
  BY <1>4, <1>7, <1>8
<1>9. \A x \in Workers, u \in Vols :
        /\ Measuring(x, u)' =>
             mount'[u] \in been'[x][u] /\ Honest(box'[<<x, pages'[x], u>>], been'[x][u])
        /\ Honest(status'[x][u], been'[x][u])
  BY <1>1, <1>2, <1>3, <1>5, <1>6, <1>8 DEF VolNext, PageStep
<1> QED
  BY <1>0, <1>9 DEF VolIInv, StatusIsHonest

(* Whatever the mounts do, however many requests there are and whenever      *)
(* their probes answer, a page says of a volume what was at its path while   *)
(* that request asked (_django/volumes.py).                                  *)
THEOREM StatusIsAlwaysHonest == VolSpec => []StatusIsHonest
<1>1. VolIInv => StatusIsHonest
  BY DEF VolIInv
<1> QED
  BY <1>1, VolInitIsGood, VolStepKeepsIt, PTL DEF VolSpec

-----------------------------------------------------------------------------
GatherFields == {"at", "todo", "left", "space", "rows"}

(* While the pages are published, those that are out are of this gather. *)
PagesIInv ==
  /\ DOMAIN gather = GatherFields /\ DOMAIN published = PageNames
  /\ gather.at \in {"bubbles", "sunburst"} => published["table"] = gathers
  /\ gather.at = "sunburst" => published["bubbles"] = gathers
  /\ PagesAgree

LEMMA PagesInitIsGood == FleetInit => PagesIInv
  BY DEF FleetInit, PagesIInv, PagesAgree, NoGather, GatherFields

LEMMA OtherStepsKeepThePages ==
  ASSUME PagesIInv, UNCHANGED <<published, torn>>, DOMAIN gather' = GatherFields,
         gather'.at \notin {"bubbles", "sunburst"}, gather.at \notin {"bubbles", "sunburst"}
  PROVE  PagesIInv'
  BY DEF PagesIInv, PagesAgree

LEMMA PagesStepKeepsIt == PagesIInv /\ [FleetNext]_fleetVars => PagesIInv'
<1> SUFFICES ASSUME PagesIInv, [FleetNext]_fleetVars PROVE PagesIInv'
  OBVIOUS
<1>1. CASE UNCHANGED fleetVars
  BY <1>1 DEF fleetVars, PagesIInv, PagesAgree
<1>2. CASE FilesystemsChange
  BY <1>2 DEF FilesystemsChange, Hang, Fill, PagesIInv, PagesAgree
<1>3. CASE StartGather
  <2>1. /\ DOMAIN gather' = GatherFields /\ gather'.at \in {"host", "publish"} /\ gather.at = "idle"
        /\ UNCHANGED <<published, torn>>
    BY <1>3 DEF StartGather, NoGather, GatherFields
  <2> QED
    BY <2>1, OtherStepsKeepThePages
<1>4. CASE HostFails \/ ReadInodes \/ ReadProjectInodes
  <2>1. PICK rows, left : Adds(rows, left)
    BY <1>4 DEF HostFails, ReadInodes, ReadProjectInodes
  <2>2. DOMAIN gather' = GatherFields /\ gather'.at \in {"host", "project", "publish"}
    BY <2>1 DEF Adds, GatherFields
  <2>3. gather.at \notin {"bubbles", "sunburst"} /\ UNCHANGED <<published, torn>>
    BY <1>4 DEF HostFails, ReadInodes, ReadProjectInodes, Asks
  <2> QED
    BY <2>2, <2>3, OtherStepsKeepThePages
<1>5. CASE ReadSpace \/ ReadGroups \/ ReadProjectSpace
  <2>1. /\ DOMAIN gather' = GatherFields /\ gather'.at \notin {"bubbles", "sunburst"}
        /\ gather.at \notin {"bubbles", "sunburst"} /\ UNCHANGED <<published, torn>>
    BY <1>5 DEF ReadSpace, ReadGroups, ReadProjectSpace, Asks, GatherFields, PagesIInv
  <2> QED
    BY <2>1, OtherStepsKeepThePages
<1>6. CASE PublishTable
  BY <1>6 DEF PublishTable, PagesIInv, PagesAgree, GatherFields, PageNames, NoGather
<1>7. CASE PublishBubbles
  BY <1>7 DEF PublishBubbles, PagesIInv, PagesAgree, GatherFields, PageNames
<1>8. CASE PublishSunburst
  BY <1>8 DEF PublishSunburst, PagesIInv, PagesAgree, GatherFields, PageNames, NoGather
<1>9. CASE EndGather
  BY <1>9 DEF EndGather, PagesIInv, PagesAgree, GatherFields, PageNames, NoGather
<1> QED
  BY <1>1, <1>2, <1>3, <1>4, <1>5, <1>6, <1>7, <1>8, <1>9 DEF FleetNext, GatherStep

(* The three pages are of one gather, but while one is being published or    *)
(* after one was killed between them (_observe/__init__.py:269-270).         *)
THEOREM PagesAlwaysAgree == FleetSpec => []PagesAgree
<1>1. PagesIInv => PagesAgree
  BY DEF PagesIInv
<1> QED
  BY <1>1, PagesInitIsGood, PagesStepKeepsIt, PTL DEF FleetSpec

(* What FullIsNeverGreen leaves out, and what it asks for the rest. *)
Exempt(full) == full[1] \in Structural \/ (full[2] = "inodes" /\ KindOf[HostOf[full[1]]] = "mac")
Told(full)   == full[1] \in unshown \/ \E row \in ShownFor(full[1]) : Tells(row)
NotGreen(full) == \A row \in gather.rows : row.fs = full[1] => Tells(row)

OfProjects == {"project", "projectInodes"}

Gathering ==
  /\ DOMAIN gather = GatherFields /\ gather.todo \subseteq Machines
  /\ disk \in [Disks -> [space : {"free", "full"}, inodes : {"free", "full"}]]
  /\ steady \subseteq FullNow
  /\ gather.at \in {"host", "inodes"} \cup OfProjects => gather.todo # {}
  /\ gather.at \in OfProjects => gather.left # {} /\ gather.left \subseteq On(Host)
  /\ gather.at \in {"publish", "bubbles", "sunburst"} => gather.todo = {}

(* A filesystem that has been full and readable all the while is told of, or *)
(* is on a host, and of its projects, that the gather has yet to ask.        *)
ToBeAsked(f) ==
  /\ HostOf[f] \in gather.todo
  /\ HostOf[f] = Host /\ gather.at \in OfProjects => f \in gather.left

Telling ==
  gather.at # "idle" =>
    \A full \in steady : Exempt(full) \/ (NotGreen(full) /\ (Told(full) \/ ToBeAsked(full[1])))

(* And df -P, if it has answered, has shown it as it is, or left it out. *)
SpaceRead(full) ==
  full[1] \in DOMAIN gather.space => (full[2] = "space" => gather.space[full[1]] = "full")

Reading ==
  /\ gather.at \in {"inodes", "projectInodes"} => \A full \in steady : SpaceRead(full)
  /\ gather.at = "inodes" =>
       \A full \in steady : HostOf[full[1]] = Host => full[1] \in DOMAIN gather.space \cup unshown
  /\ gather.at = "projectInodes" =>
       gather.space = <<>> \/ \A full \in steady : full[1] = Project => full[1] \in DOMAIN gather.space

FleetIInv == Gathering /\ Telling /\ Reading

LEMMA HostIsToDo == Gathering /\ gather.at \in {"host", "inodes"} \cup OfProjects => Host \in gather.todo
  BY MinIsIn, MachinesAssumption DEF Gathering, Host

LEMMA ProjectIsLeft == Gathering /\ gather.at \in OfProjects => Project \in gather.left /\ HostOf[Project] = Host
  BY MinIsIn, DisksAssumption DEF Gathering, Project, On

(* Every row of df -P and df -Pi for what is full tells of it, and there is  *)
(* one if df -P has shown it.                                                *)
LEMMA RowsTell ==
  ASSUME Gathering, NEW read \in SUBSET Disks, NEW full \in steady, ~Exempt(full), SpaceRead(full)
  PROVE  /\ \A row \in RowsWith(read) : row.fs = full[1] => Tells(row)
         /\ full[1] \in DOMAIN gather.space => \E row \in RowsWith(read) : row.fs = full[1]
<1> DEFINE f == full[1]
<1>1. f \notin Structural /\ full[2] \in {"space", "inodes"} /\ disk[f][full[2]] = "full"
  BY DEF Gathering, FullNow, Exempt
<1>2. ASSUME NEW row \in RowsWith(read), row.fs = f PROVE Tells(row)
  <2>1. PICK g \in DOMAIN gather.space :
          row = IF g \in Structural THEN Row(Host, g, NOT_APPLICABLE, "unknown", "unknown")
                ELSE IF g \in read THEN Row(Host, g, MEASURED, gather.space[g], InodeColumns(g))
                ELSE Row(Host, g, COULD_NOT_LOOK, gather.space[g], "unknown")
    BY <1>2 DEF RowsWith
  <2>2. g = f
    BY <1>2, <2>1 DEF Row
  <2>3. CASE f \notin read
    BY <1>1, <2>1, <2>2, <2>3 DEF Row, Tells
  <2>4. CASE f \in read
    <3>1. row = Row(Host, f, MEASURED, gather.space[f], InodeColumns(f))
      BY <1>1, <2>1, <2>2, <2>4
    <3>2. full[2] = "space" => row.space = "full"
      BY <2>1, <2>2, <3>1 DEF SpaceRead, Row
    <3>3. full[2] = "inodes" => row.inodes = "full"
      BY <1>1, <3>1 DEF Exempt, Row, InodeColumns
    <3> QED
      BY <1>1, <3>2, <3>3 DEF Flagged, Tells
  <2> QED
    BY <2>3, <2>4
<1>3. ASSUME f \in DOMAIN gather.space PROVE \E row \in RowsWith(read) : row.fs = f
  <2> DEFINE row == IF f \in read THEN Row(Host, f, MEASURED, gather.space[f], InodeColumns(f))
                    ELSE Row(Host, f, COULD_NOT_LOOK, gather.space[f], "unknown")
  <2>1. row \in RowsWith(read)
    BY <1>1, <1>3 DEF RowsWith
  <2>2. row.fs = f
    BY DEF Row
  <2> HIDE DEF row
  <2> QED
    BY <2>1, <2>2
<1> QED
  BY <1>2, <1>3

(* What is added to the rows takes nothing away, and the gather goes on. *)
LEMMA AddsGoesOn ==
  ASSUME FleetIInv, NEW rows, NEW left \in SUBSET gather.left, Adds(rows, left),
         gather.at \in {"host", "inodes"} => left = {}, gather.at \in {"host", "inodes"} \cup OfProjects,
         UNCHANGED <<disk, stale, steady, unshown>>,
         \A full \in steady : Exempt(full) \/ \A row \in rows : row.fs = full[1] => Tells(row),
         \A full \in steady :
           HostOf[full[1]] = Host /\ (gather.at \in OfProjects => full[1] \in gather.left \ left)
             => \/ Exempt(full) \/ full[1] \in unshown
                \/ \E row \in rows : Tells(row) /\ (row.fs = full[1] \/ (row.fs = 0 /\ row.host = Host))
  PROVE  FleetIInv'
<1> USE DEF FleetIInv
<1>0. Host \in gather.todo
  BY HostIsToDo
<1>1. /\ DOMAIN gather' = GatherFields /\ gather'.rows = gather.rows \cup rows /\ gather'.left = left
      /\ left # {} => gather'.at = "project" /\ gather'.todo = gather.todo
      /\ left = {} => /\ gather'.todo = gather.todo \ {Host}
                     /\ gather'.at = IF gather'.todo # {} THEN "host" ELSE "publish"
  BY DEF Adds, GatherFields
<1>2. FullNow' = FullNow
  BY DEF FullNow
<1>3. left # {} => Host' = Host /\ On(Host)' = On(Host) /\ left \subseteq On(Host)
  BY <1>1 DEF Host, On, Gathering
<1>4. Gathering'
  BY <1>1, <1>2, <1>3 DEF Gathering, OfProjects
<1>5. Telling'
  <2>0. \A full \in steady : Exempt(full) \/ NotGreen(full)'
    BY <1>1 DEF Telling, NotGreen, OfProjects
  <2> SUFFICES ASSUME NEW full \in steady, ~Exempt(full), ~Told(full)' PROVE ToBeAsked(full[1])'
    BY <2>0 DEF Telling, Exempt
  <2>1. ~Told(full)
    BY <1>1 DEF Told, ShownFor
  <2>2. ToBeAsked(full[1])
    BY <2>1 DEF Telling, OfProjects
  <2>3. ~(HostOf[full[1]] = Host /\ (gather.at \in OfProjects => full[1] \in gather.left \ left))
    BY <1>1 DEF Told, ShownFor
  <2> QED
    BY <1>1, <1>3, <2>2, <2>3 DEF ToBeAsked, OfProjects
<1>6. Reading'
  BY <1>1 DEF Reading
<1> QED
  BY <1>4, <1>5, <1>6

LEMMA FleetInitIsGood == FleetInit => FleetIInv
  BY DEF FleetInit, FleetIInv, Gathering, Telling, Reading, NoGather, GatherFields, OfProjects

LEMMA ChangesKeepTelling ==
  ASSUME FleetIInv, FilesystemsChange
  PROVE  FleetIInv'
<1>1. UNCHANGED <<gather, unshown>>
  BY DEF FilesystemsChange, Hang, Fill
<1>2. /\ disk' \in [Disks -> [space : {"free", "full"}, inodes : {"free", "full"}]]
      /\ steady' \subseteq steady /\ steady' \subseteq FullNow'
  <2>1. ASSUME NEW f \in Disks, Hang(f)
        PROVE  UNCHANGED disk /\ steady' \subseteq steady /\ steady' \subseteq FullNow'
    BY <2>1 DEF Hang, FleetIInv, Gathering, FullNow
  <2>2. ASSUME NEW f \in Disks, NEW of \in {"space", "inodes"}, NEW level \in {"free", "full"}, Fill(f, of, level)
        PROVE  /\ disk' \in [Disks -> [space : {"free", "full"}, inodes : {"free", "full"}]]
               /\ steady' \subseteq steady /\ steady' \subseteq FullNow'
    <3>1. /\ disk' = [disk EXCEPT ![f][of] = level] /\ UNCHANGED stale
          /\ steady' = IF level = "free" THEN steady \ {<<f, of>>} ELSE steady
      BY <2>2 DEF Fill
    <3>2. disk' \in [Disks -> [space : {"free", "full"}, inodes : {"free", "full"}]]
      BY <3>1 DEF FleetIInv, Gathering
    <3>3. ASSUME NEW full \in steady' PROVE full \in FullNow'
      <4>1. /\ full \in (Disks \ stale) \X {"space", "inodes"} /\ disk[full[1]][full[2]] = "full"
            /\ level = "free" => full # <<f, of>>
        BY <3>1, <3>3 DEF FleetIInv, Gathering, FullNow
      <4>2. CASE full[1] = f /\ full[2] = of
        <5>1. full = <<f, of>>
          BY <4>1, <4>2
        <5>2. level = "full"
          BY <4>1, <5>1
        <5>3. disk'[f][of] = "full"
          BY <3>1, <5>2 DEF FleetIInv, Gathering
        <5> QED
          BY <3>1, <4>1, <4>2, <5>3 DEF FullNow
      <4>3. CASE ~(full[1] = f /\ full[2] = of)
        <5>1. disk'[full[1]][full[2]] = disk[full[1]][full[2]]
          BY <3>1, <4>1, <4>3 DEF FleetIInv, Gathering
        <5> QED
          BY <3>1, <4>1, <5>1 DEF FullNow
      <4> QED
        BY <4>2, <4>3
    <3> QED
      BY <3>1, <3>2, <3>3
  <2> QED
    BY <2>1, <2>2 DEF FilesystemsChange, FleetIInv, Gathering
<1>3. Gathering' /\ Reading'
  BY <1>1, <1>2 DEF FleetIInv, Gathering, Reading, Host, On, Project, SpaceRead
<1>4. Telling'
  BY <1>1, <1>2 DEF FleetIInv, Telling, Exempt, Told, NotGreen, ShownFor, ToBeAsked, Host
<1> QED
  BY <1>3, <1>4 DEF FleetIInv

LEMMA FleetStepKeepsIt == FleetIInv /\ [FleetNext]_fleetVars => FleetIInv'
<1> SUFFICES ASSUME FleetIInv, [FleetNext]_fleetVars PROVE FleetIInv'
  OBVIOUS
<1>1. CASE UNCHANGED fleetVars
  BY <1>1 DEF fleetVars, FleetIInv, Gathering, FullNow, Host, On, Telling, Exempt, Told, NotGreen, ShownFor,
              ToBeAsked, Reading, SpaceRead, Project
<1>2. CASE StartGather
  <2>1. /\ steady' = FullNow /\ UNCHANGED <<disk, stale>> /\ FullNow' = FullNow
        /\ DOMAIN gather' = GatherFields
        /\ \/ gather'.at = "host" /\ gather'.todo = Machines
           \/ gather'.at = "publish" /\ gather'.todo = {} /\ gather'.rows = {Unseen(0, 0)}
        /\ gather'.rows \in {{}, {Unseen(0, 0)}}
    BY <1>2 DEF StartGather, FullNow, NoGather, GatherFields
  <2>2. Gathering' /\ Reading'
    BY <2>1, MachinesAssumption DEF FleetIInv, Gathering, Reading, OfProjects
  <2>0. \A full \in FullNow : NotGreen(full)'
    BY <2>1 DEF NotGreen, Unseen, Row, Tells
  <2>3. \A full \in FullNow : HostOf[full[1]] \in Machines
    BY DisksAssumption DEF FullNow
  <2>4. gather'.rows = {Unseen(0, 0)} => \A full \in FullNow : Told(full)'
    <3>1. Unseen(0, 0).fs = 0 /\ Unseen(0, 0).host = 0 /\ Unseen(0, 0).verdict = COULD_NOT_LOOK
      BY DEF Unseen, Row
    <3>2. gather'.rows = {Unseen(0, 0)} => Unseen(0, 0) \in gather'.rows
      OBVIOUS
    <3> QED
      BY <3>1, <3>2 DEF Told, ShownFor, Tells
  <2>5. Telling'
    BY <2>1, <2>0, <2>3, <2>4 DEF Telling, ToBeAsked, OfProjects
  <2> QED
    BY <2>2, <2>5 DEF FleetIInv
<1>3. CASE HostFails
  <2>1. gather.at = "host" /\ Adds({Unseen(Host, 0)}, {}) /\ UNCHANGED <<disk, stale, steady, unshown>>
    BY <1>3 DEF HostFails, Asks
  <2>2. Unseen(Host, 0).fs = 0 /\ Unseen(Host, 0).host = Host /\ Unseen(Host, 0).verdict = COULD_NOT_LOOK
    BY DEF Unseen, Row
  <2>3. \A row \in {Unseen(Host, 0)} : Tells(row)
    BY <2>2 DEF Tells
  <2> QED
    BY <2>1, <2>2, <2>3, AddsGoesOn
<1>4. CASE ReadInodes
  <2>1. PICK read \in SUBSET (On(Host) \ stale) : Adds(RowsWith(read), {})
    BY <1>4 DEF ReadInodes
  <2>2. gather.at = "inodes" /\ UNCHANGED <<disk, stale, steady, unshown>> /\ read \in SUBSET Disks
    BY <1>4 DEF ReadInodes, Asks, On
  <2>3. \A full \in steady : Exempt(full) \/ \A row \in RowsWith(read) : row.fs = full[1] => Tells(row)
    BY <2>2, RowsTell DEF FleetIInv, Reading
  <2>4. \A full \in steady : HostOf[full[1]] = Host =>
          Exempt(full) \/ full[1] \in unshown \/ \E row \in RowsWith(read) : row.fs = full[1] /\ Tells(row)
    BY <2>2, RowsTell DEF FleetIInv, Reading
  <2> QED
    BY <2>1, <2>2, <2>3, <2>4, AddsGoesOn
<1>5. CASE ReadSpace
  <2>1. PICK shown \in SUBSET (On(Host) \ stale) :
          /\ gather' = [gather EXCEPT !.at = "inodes", !.space = [f \in shown |-> disk[f].space]]
          /\ unshown' = unshown \cup ((On(Host) \ stale) \ shown)
    BY <1>5 DEF ReadSpace
  <2>2. /\ DOMAIN gather' = GatherFields /\ gather.at = "host" /\ gather'.at = "inodes"
        /\ gather'.todo = gather.todo /\ gather'.rows = gather.rows
        /\ gather'.space = [f \in shown |-> disk[f].space] /\ UNCHANGED <<disk, stale, steady>>
    BY <1>5, <2>1 DEF ReadSpace, FleetIInv, Gathering, GatherFields
  <2>3. FullNow' = FullNow /\ Host' = Host
    BY <2>2 DEF FullNow, Host
  <2>4. Gathering' /\ Telling'
    BY <2>1, <2>2, <2>3 DEF FleetIInv, Gathering, Telling, Exempt, Told, NotGreen, ShownFor, ToBeAsked, OfProjects
  <2>5. \A full \in steady : SpaceRead(full)'
    BY <2>2 DEF FleetIInv, Gathering, FullNow, SpaceRead, On
  <2>6. \A full \in steady : HostOf[full[1]] = Host => full[1] \in (DOMAIN gather.space)' \cup unshown'
    BY <2>1, <2>2 DEF FleetIInv, Gathering, FullNow, On
  <2>7. Reading'
    BY <2>2, <2>3, <2>5, <2>6 DEF Reading
  <2> QED
    BY <2>4, <2>7 DEF FleetIInv
<1>6. CASE ReadGroups
  <2>1. /\ DOMAIN gather' = GatherFields /\ gather.at = "host" /\ gather'.at = "project"
        /\ gather'.todo = gather.todo /\ gather'.rows = gather.rows
        /\ gather'.left = On(Host) /\ On(Host) # {} /\ UNCHANGED <<disk, stale, steady, unshown>>
    BY <1>6 DEF ReadGroups, Asks, FleetIInv, Gathering, GatherFields
  <2>2. FullNow' = FullNow /\ Host' = Host /\ On(Host)' = On(Host)
    BY <2>1 DEF FullNow, Host, On
  <2>3. \A full \in steady : HostOf[full[1]] = Host => full[1] \in On(Host)
    BY DEF FleetIInv, Gathering, FullNow, On
  <2>4. Gathering' /\ Reading'
    BY <2>1, <2>2 DEF FleetIInv, Gathering, Reading, OfProjects
  <2>5. Telling'
    BY <2>1, <2>2, <2>3 DEF FleetIInv, Telling, Exempt, Told, NotGreen, ShownFor, ToBeAsked, OfProjects
  <2> QED
    BY <2>4, <2>5 DEF FleetIInv
<1>7. CASE ReadProjectSpace
  <2>1. PICK shown \in SUBSET ({Project} \ stale) :
          gather' = [gather EXCEPT !.at = "projectInodes", !.space = [f \in shown |-> disk[f].space]]
    BY <1>7 DEF ReadProjectSpace
  <2>2. gather.at = "project" /\ UNCHANGED <<disk, stale, steady, unshown>>
    BY <1>7 DEF ReadProjectSpace, Asks
  <2>3. /\ DOMAIN gather' = GatherFields /\ gather'.at = "projectInodes"
        /\ gather'.todo = gather.todo /\ gather'.rows = gather.rows /\ gather'.left = gather.left
        /\ gather'.space = [f \in shown |-> disk[f].space]
    BY <2>1 DEF FleetIInv, Gathering, GatherFields
  <2>4. FullNow' = FullNow /\ Host' = Host /\ On(Host)' = On(Host) /\ Project' = Project
    BY <2>2, <2>3 DEF FullNow, Host, On, Project
  <2>5. Gathering' /\ Telling'
    BY <2>2, <2>3, <2>4 DEF FleetIInv, Gathering, Telling, Exempt, Told, NotGreen, ShownFor, ToBeAsked, OfProjects
  <2>6. shown = {} => gather'.space = <<>>
    BY <2>3
  <2>7. shown # {} => \A full \in steady : full[1] = Project => full[1] \in (DOMAIN gather.space)'
    BY <2>2, <2>3 DEF FleetIInv, Gathering, FullNow
  <2>9. \A full \in steady : SpaceRead(full)'
    BY <2>2, <2>3 DEF FleetIInv, Gathering, FullNow, SpaceRead
  <2>8. Reading'
    BY <2>2, <2>3, <2>4, <2>6, <2>7, <2>9 DEF Reading
  <2> QED
    BY <2>5, <2>8 DEF FleetIInv
<1>8. CASE ReadProjectInodes
  <2> DEFINE rows(read) == IF gather.space = <<>> THEN {Unseen(Host, Project)} ELSE RowsWith(read)
             left == gather.left \ {Project}
  <2>1. PICK read \in SUBSET ({Project} \ stale) : Adds(rows(read), left)
    BY <1>8 DEF ReadProjectInodes
  <2>2. gather.at = "projectInodes" /\ UNCHANGED <<disk, stale, steady, unshown>>
    BY <1>8 DEF ReadProjectInodes, Asks
  <2>3. Project \in gather.left /\ Project \in Disks
    BY <2>2, ProjectIsLeft DEF FleetIInv, Gathering, On, OfProjects
  <2>4. ASSUME NEW full \in steady, ~Exempt(full)
        PROVE  /\ \A row \in rows(read) : row.fs = full[1] => Tells(row)
               /\ full[1] = Project => \E row \in rows(read) : row.fs = full[1] /\ Tells(row)
    <3>1. CASE gather.space = <<>>
      BY <2>4, <3>1 DEF Unseen, Row, Tells
    <3>2. CASE gather.space # <<>>
      <4>1. SpaceRead(full) /\ read \in SUBSET Disks
        BY <2>2, <2>3 DEF FleetIInv, Reading
      <4>2. full[1] = Project => full[1] \in DOMAIN gather.space
        BY <2>2, <3>2 DEF FleetIInv, Reading
      <4> QED
        BY <2>4, <3>2, <4>1, <4>2, RowsTell DEF FleetIInv
    <3> QED
      BY <3>1, <3>2
  <2>5. \A full \in steady : full[1] \in gather.left \ left => full[1] = Project
    OBVIOUS
  <2> HIDE DEF rows, left
  <2>6. left \in SUBSET gather.left
    BY DEF left
  <2> QED
    BY <2>1, <2>2, <2>4, <2>5, <2>6, AddsGoesOn DEF OfProjects
<1>9. CASE PublishBubbles
  <2>1. /\ DOMAIN gather' = GatherFields /\ gather'.todo = gather.todo /\ gather'.rows = gather.rows
        /\ gather.at = "bubbles" /\ gather'.at = "sunburst"
        /\ UNCHANGED <<disk, stale, steady, unshown>>
    BY <1>9 DEF PublishBubbles, FleetIInv, Gathering, GatherFields
  <2>2. FullNow' = FullNow
    BY <2>1 DEF FullNow
  <2> QED
    BY <2>1, <2>2 DEF FleetIInv, Gathering, Telling, Exempt, Told, NotGreen, ShownFor, ToBeAsked, Reading, OfProjects
<1>10. CASE PublishTable \/ PublishSunburst \/ EndGather
  <2>1. /\ DOMAIN gather' = GatherFields /\ gather'.todo = {} /\ gather'.at \in {"idle", "bubbles"}
        /\ steady' = {} /\ UNCHANGED <<disk, stale>>
    BY <1>10 DEF PublishTable, PublishSunburst, EndGather, Forget, NoGather, GatherFields
  <2> QED
    BY <2>1 DEF FleetIInv, Gathering, Telling, Reading, OfProjects
<1>11. CASE FilesystemsChange
  BY <1>11, ChangesKeepTelling
<1> QED
  BY <1>1, <1>2, <1>3, <1>4, <1>5, <1>6, <1>7, <1>8, <1>9, <1>10, <1>11 DEF FleetNext, GatherStep

(* For any registry of hosts, whichever calls fail: what was full and        *)
(* readable all the while is flagged, or the snapshot says that it could not *)
(* be looked at.                                                             *)
THEOREM FullIsNeverShownGreen == FleetSpec => []FullIsNeverGreen
<1>1. FleetIInv => FullIsNeverGreen
  BY DEF FleetIInv, Gathering, Telling, Exempt, Told, NotGreen, ToBeAsked, FullIsNeverGreen
<1> QED
  BY <1>1, FleetInitIsGood, FleetStepKeepsIt, PTL DEF FleetSpec

-----------------------------------------------------------------------------
(* Ready is said only of what was carried out, for any number of resources,  *)
(* requests, policies, answers and changes.                                  *)

Directories ==
  [is : {"nothing", "directory", "symlink"}, inode : 0..MaxInode,
   owner : Owners \cup {"none"}, mode : Modes \cup {"none"}]

(* An answer's terms, as far as they are what was asked. *)
Fulfilled(b) == b.owner = b.request.owner /\ b.mode = b.request.mode /\ b.quota = b.request.quota

(* What the executor works on it derived the key of, and of each answer that *)
(* fulfils its request there is a record.                                    *)
Answered ==
  /\ job.at # "idle" => job.request \in Requests /\ job.key.request = job.request
  /\ \A b \in readbacks :
       /\ b.key.request = b.request
       /\ Fulfilled(b) => [request |-> b.request, policy |-> b.key.policy, inode |-> b.inode] \in made
  /\ \A c \in checked : c[1] \in Requests

Placed == target \in [Resources -> Directories] /\ inodes \in 0..MaxInode

BrokerIInv == Placed /\ Answered /\ ReadyIsApplied

(* A request names a resource, and an owner and a mode that are known. *)
LEMMA RequestsAreKnown ==
  \A req \in Requests : req.resource \in Resources /\ req.owner \in Owners /\ req.mode \in Modes
  BY DEF Requests, Asked1, Owners, Modes

(* Ready stays true while what was made and the policy stay, and every      *)
(* directory stays the directory that it is.                                *)
LEMMA ReadyIsKept ==
  ASSUME BrokerIInv, made \subseteq made', UNCHANGED <<policy, checked>>,
         \A r \in Resources : target[r].is = "directory" =>
           target'[r].is = "directory" /\ target'[r].inode = target[r].inode
  PROVE  ReadyIsApplied'
<1> SUFFICES ASSUME NEW c \in checked, c[3]
             PROVE  \E m \in made' : /\ m.request = c[1] /\ m.policy = policy'
                                     /\ m.inode = target'[c[1].resource].inode
                                     /\ target'[c[1].resource].is = "directory"
  BY DEF ReadyIsApplied
<1>1. PICK m \in made : /\ m.request = c[1] /\ m.policy = policy
                        /\ m.inode = target[c[1].resource].inode
                        /\ target[c[1].resource].is = "directory"
  BY DEF BrokerIInv, ReadyIsApplied
<1>2. c[1].resource \in Resources
  BY RequestsAreKnown DEF BrokerIInv, Answered
<1> QED
  BY <1>1, <1>2

(* Nothing is ready when nothing is compared. *)
LEMMA NothingIsReady == ASSUME checked' = {} PROVE ReadyIsApplied'
  BY DEF ReadyIsApplied

(* Without a blocker every comparison came out right. *)
LEMMA NoBlockerMeansEqual ==
  ASSUME NEW req, NEW b, Blockers(req, b) = {}
  PROVE  /\ b.owner = req.owner /\ b.mode = req.mode /\ b.quota = req.quota
         /\ b.key = PlanDigest(req, policy)
         /\ target[req.resource].inode = b.inode
         /\ target[req.resource].is = "directory"
<1> DEFINE O == Observed(req, b)
<1>1. \A check \in DOMAIN O : O[check]
  BY DEF Blockers
<1>2. DOMAIN O = {"resource", "owner", "mode", "quota", "audit", "key", "identity", "metadata"}
  BY DEF Observed
<1>3. O.owner /\ O.mode /\ O.quota /\ O.key /\ O.identity /\ O.metadata
  BY <1>1, <1>2
<1> QED
  BY <1>3 DEF Observed

LEMMA BrokerInitIsGood == BrokerInit => BrokerIInv
<1> SUFFICES ASSUME BrokerInit PROVE BrokerIInv
  OBVIOUS
<1>1. Placed
  <2>1. Nothing \in Directories
    BY BrokerAssumption DEF Nothing, Directories
  <2> QED
    BY <2>1, BrokerAssumption DEF BrokerInit, Placed
<1>2. Answered
  BY DEF BrokerInit, Answered, Resting1
<1>3. ReadyIsApplied
  BY DEF BrokerInit, ReadyIsApplied
<1> QED
  BY <1>1, <1>2, <1>3 DEF BrokerIInv

(* Every step of the executor, of the caller and of everybody else keeps it. *)
LEMMA BrokerStepKeepsIt == BrokerIInv /\ [BrokerNext]_brokerVars => BrokerIInv'
<1> SUFFICES ASSUME BrokerIInv, [BrokerNext]_brokerVars PROVE BrokerIInv'
  OBVIOUS
<1> USE DEF BrokerIInv
<1>1. ASSUME NEW req \in Requests, Provision(req) PROVE BrokerIInv'
  <2> DEFINE r == req.resource
  <2>1. r \in Resources /\ req.mode \in Modes
    BY RequestsAreKnown
  <2>2. CASE target[r].is = "directory"
    <3>1. UNCHANGED <<policy, target, inodes, readbacks, checked, made>>
      BY <1>1, <2>2 DEF Provision
    <3>2. Answered'
      BY <1>1, <3>1 DEF Provision, Answered, PlanDigest, Fulfilled
    <3> QED
      BY <3>1, <3>2, ReadyIsKept DEF Placed
  <2>3. CASE target[r].is # "directory"
    <3> DEFINE new == [is |-> "directory", inode |-> inodes + 1, owner |-> "other", mode |-> req.mode]
    <3>1. /\ inodes < MaxInode /\ inodes' = inodes + 1
          /\ target' = [target EXCEPT ![r] = new]
          /\ UNCHANGED <<policy, readbacks, checked, made>>
      BY <1>1, <2>3 DEF Provision
    <3>2. new \in Directories /\ inodes + 1 \in 0..MaxInode
      BY <2>1, <3>1, BrokerAssumption DEF Placed, Directories, Owners
    <3>3. Placed'
      BY <3>1, <3>2 DEF Placed
    <3>4. Answered'
      BY <1>1, <3>1 DEF Provision, Answered, PlanDigest, Fulfilled
    <3>5. \A x \in Resources : target[x].is = "directory" => target'[x] = target[x]
      BY <2>3, <3>1 DEF Placed
    <3> QED
      BY <3>1, <3>3, <3>4, <3>5, ReadyIsKept
  <2> QED
    BY <2>2, <2>3
<1>2. ASSUME Chown PROVE BrokerIInv'
  <2> DEFINE r == job.request.resource
             new == [target[r] EXCEPT !.owner = job.request.owner, !.mode = job.request.mode]
  <2>1. r \in Resources /\ job.request.owner \in Owners /\ job.request.mode \in Modes
    BY <1>2, RequestsAreKnown DEF Chown, Answered
  <2>2. target' = [target EXCEPT ![r] = new] /\ UNCHANGED <<policy, inodes, readbacks, checked, made>>
    BY <1>2 DEF Chown, Placed, Directories
  <2>3. new \in Directories /\ new.is = target[r].is /\ new.inode = target[r].inode
    <3>1. target[r] \in Directories
      BY <2>1 DEF Placed
    <3> HIDE DEF BrokerIInv
    <3> QED
      BY <2>1, <3>1 DEF Directories
  <2>4. Placed'
    BY <2>2, <2>3 DEF Placed
  <2>5. Answered'
    BY <1>2, <2>2 DEF Chown, Answered, Fulfilled
  <2>6. \A x \in Resources : target'[x].is = target[x].is /\ target'[x].inode = target[x].inode
    BY <2>2, <2>3 DEF Placed
  <2> QED
    BY <2>2, <2>4, <2>5, <2>6, ReadyIsKept
<1>3. ASSUME SetQuota PROVE BrokerIInv'
  <2>1. UNCHANGED <<policy, target, inodes, readbacks, checked, made>>
    BY <1>3 DEF SetQuota
  <2>2. Answered'
    BY <1>3, <2>1 DEF SetQuota, Answered, Fulfilled
  <2> QED
    BY <2>1, <2>2, ReadyIsKept DEF Placed
<1>4. ASSUME ReadBackTarget PROVE BrokerIInv'
  <2>1. UNCHANGED <<policy, target, inodes, checked>> /\ made \subseteq made'
    BY <1>4 DEF ReadBackTarget
  <2>2. Answered'
    BY <1>4, <2>1 DEF ReadBackTarget, Answered, Fulfilled, Resting1
  <2> QED
    BY <2>1, <2>2, ReadyIsKept DEF Placed
<1>5. ASSUME GiveUpJob PROVE BrokerIInv'
  <2>1. UNCHANGED <<policy, target, inodes, readbacks, checked, made>>
    BY <1>5 DEF GiveUpJob
  <2>2. Answered'
    BY <1>5, <2>1 DEF GiveUpJob, Answered, Fulfilled, Resting1
  <2> QED
    BY <2>1, <2>2, ReadyIsKept DEF Placed
<1>6. ASSUME NEW pol \in Policies, Configure(pol) PROVE BrokerIInv'
  BY <1>6, NothingIsReady DEF Configure, Tampered, Placed, Answered, Fulfilled
<1>7. ASSUME NEW r \in Resources, Replace(r) PROVE BrokerIInv'
  <2>1. checked' = {} /\ UNCHANGED <<job, readbacks, made>>
    BY <1>7 DEF Replace, Tampered
  <2>2. Answered'
    BY <2>1 DEF Answered, Fulfilled
  <2>3. Nothing \in Directories
    BY BrokerAssumption DEF Nothing, Directories
  <2>4. Placed'
    BY <1>7, <2>3, BrokerAssumption DEF Replace, Placed, Directories
  <2> QED
    BY <2>1, <2>2, <2>4, NothingIsReady
<1>8. ASSUME NEW r \in Resources, Alter(r) PROVE BrokerIInv'
  <2>1. checked' = {} /\ UNCHANGED <<job, inodes, readbacks, made>>
    BY <1>8 DEF Alter, Tampered
  <2>2. Answered'
    BY <2>1 DEF Answered, Fulfilled
  <2>3. Placed'
    BY <1>8, <2>1 DEF Alter, Placed, Directories
  <2> QED
    BY <2>1, <2>2, <2>3, NothingIsReady
<1>9. ASSUME NEW req \in Requests, NEW b \in readbacks, Validate(req, b) PROVE BrokerIInv'
  <2>1. /\ checked' = {<<req, b, Blockers(req, b) = {}>>}
        /\ UNCHANGED <<policy, target, inodes, job, readbacks, made>>
    BY <1>9 DEF Validate
  <2>2. Answered'
    BY <2>1 DEF Answered, Fulfilled
  <2>3. ASSUME Blockers(req, b) = {}
        PROVE  /\ [request |-> req, policy |-> policy, inode |-> b.inode] \in made
               /\ target[req.resource].inode = b.inode /\ target[req.resource].is = "directory"
    <3>1. b.key = PlanDigest(req, policy) /\ b.key.request = b.request
      BY <2>3, NoBlockerMeansEqual DEF Answered
    <3>2. b.request = req /\ b.key.policy = policy
      BY <3>1 DEF PlanDigest
    <3>3. Fulfilled(b)
      BY <2>3, <3>2, NoBlockerMeansEqual DEF Fulfilled
    <3> QED
      BY <2>3, <3>2, <3>3, NoBlockerMeansEqual DEF Answered
  <2>4. ReadyIsApplied'
    <3> SUFFICES ASSUME NEW c \in checked', c[3]
                 PROVE  \E m \in made' : /\ m.request = c[1] /\ m.policy = policy'
                                         /\ m.inode = target'[c[1].resource].inode
                                         /\ target'[c[1].resource].is = "directory"
      BY DEF ReadyIsApplied
    <3>1. c = <<req, b, Blockers(req, b) = {}>>
      BY <2>1
    <3>2. c[1] = req
      BY <3>1
    <3>3. Blockers(req, b) = {}
      BY <3>1, Zenon
    <3> QED
      BY <2>1, <2>3, <3>2, <3>3
  <2> QED
    BY <2>1, <2>2, <2>4 DEF Placed
<1>10. CASE UNCHANGED brokerVars
  BY <1>10 DEF brokerVars, Placed, Answered, Fulfilled, ReadyIsApplied
<1> QED
  BY <1>1, <1>2, <1>3, <1>4, <1>5, <1>6, <1>7, <1>8, <1>9, <1>10 DEF BrokerNext

(* Whatever is late, comes twice, is asked again or is changed: what is      *)
(* called ready was carried out, under the policy in force, on the directory *)
(* that is there.                                                            *)
THEOREM ReadyIsAlwaysApplied == BrokerSpec => []ReadyIsApplied
<1>1. BrokerIInv => ReadyIsApplied
  BY DEF BrokerIInv
<1> QED
  BY <1>1, BrokerInitIsGood, BrokerStepKeepsIt, PTL DEF BrokerSpec

-----------------------------------------------------------------------------
(* The types of document-sorter.                                           *)

(* What has a type whatever the runs do, and what is known of each run. *)
DocThings ==
  /\ inbox \in [Docs -> Versions] /\ near \in BOOLEAN /\ starts \in 0..MaxStarts
  /\ \A c \in archive : c \in [doc : Docs, sha : Versions \ {0}, n : Nat \ {0}, content : Versions]
  /\ \A f \in filed : f \in [title : Titles, n : Nat \ {0}, doc : Docs, content : Versions]
  /\ \A c, e \in archive : c.doc = e.doc /\ c.sha = e.sha /\ c.n = e.n => c = e
  /\ \A f, g \in filed : f.title = g.title /\ f.n = g.n => f = g
  /\ \A x \in index : x \in [doc : Docs, sha : Versions \ {0}, archived : Nat \ {0}, sorted : Nat \ {0}]
  /\ IsFiniteSet(archive) /\ IsFiniteSet(filed)
  /\ arrived \subseteq Docs /\ late \subseteq arrived
  /\ \A d \in Docs : d \notin arrived => inbox[d] = 0

(* A run has a document in hand that has arrived, under names that are     *)
(* numbered.                                                               *)
TypedRun(rec) ==
  /\ rec \in [at : Phases, todo : SUBSET Docs, doc : Docs \cup {0}, sha : Versions, archived : Nat, sorted : Nat]
  /\ rec.at \notin {"idle", "next"} => rec.doc \in arrived /\ rec.sha # 0
  /\ rec.at \in {"copy", "sort", "move", "unlink", "index"} => rec.archived # 0
  /\ rec.at \in {"move", "unlink", "index"} => rec.sorted # 0
DocRuns == DOMAIN run = Runs /\ \A r \in Runs : TypedRun(run[r])

DocTIInv == DocThings /\ DocRuns

LEMMA DocRecordsTyped == DocTIInv => DocTypes
  BY DEF DocTIInv, DocThings, DocRuns, TypedRun, DocTypes, Phases

LEMMA DocInitTyped == DocInit => DocTIInv
  BY FS_EmptySet, DocBounds DEF DocInit, DocTIInv, DocThings, DocRuns, TypedRun, Versions, Resting, Phases

(* A run that becomes another typed run.                                   *)
LEMMA RunsStayTyped ==
  ASSUME DocRuns, NEW r \in Runs, NEW rec, TypedRun(rec), run' = [run EXCEPT ![r] = rec],
         arrived \subseteq arrived'
  PROVE  DocRuns'
<1>1. ASSUME NEW q \in Runs PROVE TypedRun(run[q])' /\ DOMAIN run' = Runs
  <2>1. run'[q] = rec \/ run'[q] = run[q]
    BY DEF DocRuns
  <2> QED
    BY <2>1 DEF DocRuns, TypedRun
<1>2. DOMAIN run' = Runs
  BY DEF DocRuns
<1> QED
  BY <1>1, <1>2 DEF DocRuns

LEMMA DocStepTyped == DocTIInv /\ [DocNext]_docVars => DocTIInv'
<1> SUFFICES ASSUME DocTIInv, [DocNext]_docVars PROVE DocTIInv'
  OBVIOUS
<1> USE DEF DocTIInv
<1>1. CASE UNCHANGED docVars
  BY <1>1 DEF docVars, DocThings, DocRuns, TypedRun
<1>2. ASSUME NEW d \in Docs, Scan(d) PROVE DocTIInv'
  <2>1. inbox' \in [Docs -> Versions] /\ \A e \in Docs : e \notin arrived' => inbox'[e] = 0
    BY <1>2, DocBounds DEF Scan, DocThings, Versions
  <2>2. DocThings'
    BY <1>2, <2>1 DEF Scan, DocThings
  <2>3. DocRuns'
    BY <1>2 DEF Scan, DocRuns, TypedRun
  <2> QED
    BY <2>2, <2>3
<1>3. ASSUME NEW r \in Runs, FileStep(r) PROVE DocTIInv'
  <2> DEFINE at == run[r].at
             doc == run[r].doc
  <2>0. TypedRun(run[r])
    BY DEF DocRuns
  <2>rest. ASSUME NEW todo \in SUBSET Docs, NEW step \in {"idle", "next"},
                  run' = [run EXCEPT ![r] = [Resting EXCEPT !.at = step, !.todo = todo]],
                  arrived' = arrived
           PROVE  DocRuns'
    <3> DEFINE rec == [Resting EXCEPT !.at = step, !.todo = todo]
    <3>1. TypedRun(Resting)
      BY DocBounds DEF TypedRun, Resting, Phases, Versions
    <3>2. TypedRun(rec)
      BY <2>rest, <3>1 DEF TypedRun, Phases
    <3> HIDE DEF rec
    <3>3. run' = [run EXCEPT ![r] = rec]
      BY <2>rest DEF rec
    <3> QED
      BY <2>rest, <3>2, <3>3, RunsStayTyped
  <2>1. CASE StartRun(r)
    <3> DEFINE listed == {d \in Docs : inbox[d] # 0}
    <3>1. listed \in SUBSET Docs
      OBVIOUS
    <3>2. run' = [run EXCEPT ![r] = [Resting EXCEPT !.at = "next", !.todo = listed]]
      BY <2>1 DEF StartRun
    <3> HIDE DEF listed
    <3>3. DocRuns'
      BY <3>1, <3>2, <2>1, <2>rest DEF StartRun
    <3>4. DocThings'
      BY <2>1, DocBounds DEF StartRun, DocThings
    <3> QED
      BY <3>3, <3>4
  <2>2. CASE EndRun(r) \/ StopRun(r)
    <3>1. TypedRun(Resting)
      BY DocBounds DEF TypedRun, Resting, Phases, Versions
    <3>2. DocRuns'
      BY <3>1, <2>2, RunsStayTyped DEF EndRun, StopRun
    <3>3. DocThings'
      BY <2>2 DEF EndRun, StopRun, DocThings
    <3> QED
      BY <3>2, <3>3
  <2>3. CASE Hash(r)
    <3> DEFINE next == Min(run[r].todo)
               skip == [run[r] EXCEPT !.todo = @ \ {next}]
               hash == [run[r] EXCEPT !.at = "archive", !.todo = @ \ {next}, !.doc = next, !.sha = inbox[next]]
    <3>1. next \in Docs
      BY <2>0, <2>3, NextIsToDo DEF TypedRun, Hash
    <3>2. run' = IF inbox[next] = 0 THEN [run EXCEPT ![r] = skip] ELSE [run EXCEPT ![r] = hash]
      BY <2>3 DEF Hash
    <3>3. late' \subseteq late /\ run[r].at = "next" /\ UNCHANGED <<inbox, archive, filed, index, near, starts, arrived>>
      BY <2>3 DEF Hash
    <3> HIDE DEF next
    <3>4. DocThings'
      BY <3>3 DEF DocThings
    <3>5. TypedRun(skip) /\ (inbox[next] # 0 => TypedRun(hash))
      BY <3>1, <3>3, <2>0 DEF TypedRun, Phases, DocThings, Versions
    <3> HIDE DEF skip, hash
    <3>6. DocRuns'
      BY <3>2, <3>3, <3>5, RunsStayTyped
    <3> QED
      BY <3>4, <3>6
  <2>4. CASE PickArchived(r)
    <3> DEFINE copies == {c.n : c \in Copies(doc, run[r].sha)}
               rec == [run[r] EXCEPT !.at = "copy", !.archived = UniqueName(copies)]
    <3>1. UniqueName(copies) \in Nat \ {0}
      <4>1. IsFiniteSet(Copies(doc, run[r].sha))
        BY FS_Subset DEF DocThings, Copies
      <4> QED
        BY <4>1, NumbersAreFinite, UniqueNameIsFree
    <3>2. run' = [run EXCEPT ![r] = rec] /\ run[r].at = "archive"
          /\ UNCHANGED <<inbox, archive, filed, index, near, starts, arrived, late>>
      BY <2>4 DEF PickArchived
    <3> HIDE DEF copies
    <3>3. TypedRun(rec)
      BY <3>1, <3>2, <2>0 DEF TypedRun, Phases
    <3> HIDE DEF rec
    <3>4. DocRuns'
      BY <3>2, <3>3, RunsStayTyped
    <3> QED
      BY <3>2, <3>4 DEF DocThings
  <2>5. CASE PickSorted(r)
    <3> DEFINE names == {f.n : f \in Titled(TitleOf[doc])}
               rec == [run[r] EXCEPT !.at = "move", !.sorted = UniqueName(names)]
    <3>1. UniqueName(names) \in Nat \ {0}
      <4>1. IsFiniteSet(Titled(TitleOf[doc]))
        BY FS_Subset DEF DocThings, Titled
      <4> QED
        BY <4>1, NumbersAreFinite, UniqueNameIsFree
    <3>2. run' = [run EXCEPT ![r] = rec] /\ run[r].at = "sort"
          /\ UNCHANGED <<inbox, archive, filed, index, near, starts, arrived, late>>
      BY <2>5 DEF PickSorted
    <3> HIDE DEF names
    <3>3. TypedRun(rec)
      BY <3>1, <3>2, <2>0 DEF TypedRun, Phases
    <3> HIDE DEF rec
    <3>4. DocRuns'
      BY <3>2, <3>3, RunsStayTyped
    <3> QED
      BY <3>2, <3>4 DEF DocThings
  <2>goes. ASSUME NEW step \in Phases \ {"idle"}, Goes(r, step), arrived' = arrived,
                  step # "next" => at \notin {"idle", "next"},
                  step \in {"copy", "sort", "move", "unlink", "index"} => run[r].archived # 0,
                  step \in {"move", "unlink", "index"} => run[r].sorted # 0
           PROVE  DocRuns'
    <3> DEFINE rec == [run[r] EXCEPT !.at = step]
    <3>1. TypedRun(rec)
      BY <2>goes, <2>0 DEF TypedRun
    <3>2. run' = [run EXCEPT ![r] = rec]
      BY <2>goes DEF Goes
    <3> HIDE DEF rec
    <3> QED
      BY <2>goes, <3>1, <3>2, RunsStayTyped
  <2>copy. ASSUME NEW content \in Versions, ArchiveAs(r, content), at = "copy",
                  UNCHANGED <<inbox, filed, index, near, starts, arrived, late>>
           PROVE  DocThings'
    <3> DEFINE new == [doc |-> doc, sha |-> run[r].sha, n |-> run[r].archived, content |-> content]
               kept == {c \in archive : ~(c.doc = doc /\ c.sha = run[r].sha /\ c.n = run[r].archived)}
    <3>1. new \in [doc : Docs, sha : Versions \ {0}, n : Nat \ {0}, content : Versions]
      BY <2>copy, <2>0 DEF TypedRun, DocThings
    <3>2. IsFiniteSet(kept \cup {new})
      <4>1. IsFiniteSet(kept)
        BY FS_Subset DEF DocThings
      <4> HIDE DEF kept, new
      <4> QED
        BY <4>1, FS_AddElement
    <3>3. archive' = kept \cup {new}
      BY <2>copy DEF ArchiveAs
    <3>4. \A c \in kept : c \in archive /\ ~(c.doc = new.doc /\ c.sha = new.sha /\ c.n = new.n)
      OBVIOUS
    <3> HIDE DEF new, kept
    <3>5. \A c, e \in archive' : c.doc = e.doc /\ c.sha = e.sha /\ c.n = e.n => c = e
      BY <3>3, <3>4 DEF DocThings
    <3>6. \A c \in archive' : c \in [doc : Docs, sha : Versions \ {0}, n : Nat \ {0}, content : Versions]
      BY <3>1, <3>3, <3>4 DEF DocThings
    <3>7. IsFiniteSet(archive')
      BY <3>2, <3>3
    <3> QED
      BY <3>5, <3>6, <3>7, <2>copy DEF DocThings
  <2>file. ASSUME NEW content \in Versions, FileAs(r, content), at = "move",
                  UNCHANGED <<archive, index, near, starts, arrived, late>>,
                  inbox' \in [Docs -> Versions], \A e \in Docs : inbox'[e] \in {0, inbox[e]}
           PROVE  DocThings'
    <3> DEFINE new == [title |-> TitleOf[doc], n |-> run[r].sorted, doc |-> doc, content |-> content]
               kept == {f \in filed : ~(f.title = TitleOf[doc] /\ f.n = run[r].sorted)}
    <3>1. new \in [title : Titles, n : Nat \ {0}, doc : Docs, content : Versions]
      BY <2>file, <2>0, DocsAssumption DEF TypedRun, DocThings
    <3>2. IsFiniteSet(kept \cup {new})
      <4>1. IsFiniteSet(kept)
        BY FS_Subset DEF DocThings
      <4> HIDE DEF kept, new
      <4> QED
        BY <4>1, FS_AddElement
    <3>3. filed' = kept \cup {new}
      BY <2>file DEF FileAs
    <3>4. \A f \in kept : f \in filed /\ ~(f.title = new.title /\ f.n = new.n)
      OBVIOUS
    <3> HIDE DEF new, kept
    <3>5. \A f, g \in filed' : f.title = g.title /\ f.n = g.n => f = g
      BY <3>3, <3>4 DEF DocThings
    <3>6. \A f \in filed' : f \in [title : Titles, n : Nat \ {0}, doc : Docs, content : Versions]
      BY <3>1, <3>3, <3>4 DEF DocThings
    <3>7. IsFiniteSet(filed')
      BY <3>2, <3>3
    <3> QED
      BY <3>5, <3>6, <3>7, <2>file DEF DocThings
  <2>typed. 0 \in Versions /\ (at \notin {"idle", "next"} => inbox[doc] \in Versions /\ doc \in Docs)
    BY <2>0, DocBounds DEF TypedRun, Versions, DocThings
  <2>6. CASE CopyPart(r) \/ Copy(r)
    <3>1. DocThings'
      BY <2>6, <2>copy, <2>typed DEF CopyPart, Copy
    <3>2. DocRuns'
      <4>1. CASE CopyPart(r)
        BY <4>1 DEF CopyPart, DocRuns, TypedRun
      <4>2. CASE Copy(r)
        BY <4>2, <2>0, <2>goes DEF Copy, TypedRun, Phases
      <4> QED
        BY <2>6, <4>1, <4>2
    <3> QED
      BY <3>1, <3>2
  <2>7. CASE MoveByRename(r)
    <3>1. DocThings'
      BY <2>7, <2>file, <2>typed DEF MoveByRename, DocThings
    <3>2. DocRuns'
      BY <2>7, <2>0, <2>goes DEF MoveByRename, TypedRun, Phases
    <3> QED
      BY <3>1, <3>2
  <2>8. CASE MoveByCopy(r)
    <3>1. DocThings'
      BY <2>8, <2>file, <2>typed DEF MoveByCopy, DocThings
    <3>2. DocRuns'
      <4>1. CASE UNCHANGED run
        BY <2>8, <4>1 DEF MoveByCopy, DocRuns, TypedRun
      <4>2. CASE Goes(r, "unlink")
        BY <2>8, <4>2, <2>0, <2>goes DEF MoveByCopy, TypedRun, Phases
      <4> QED
        BY <2>8, <4>1, <4>2 DEF MoveByCopy
    <3> QED
      BY <3>1, <3>2
  <2>9. CASE UnlinkScan(r)
    <3>1. DocThings'
      BY <2>9, <2>typed DEF UnlinkScan, DocThings
    <3>2. DocRuns'
      BY <2>9, <2>0, <2>goes DEF UnlinkScan, TypedRun, Phases
    <3> QED
      BY <3>1, <3>2
  <2>10. CASE AppendIndex(r)
    <3>1. [doc |-> doc, sha |-> run[r].sha, archived |-> run[r].archived, sorted |-> run[r].sorted]
            \in [doc : Docs, sha : Versions \ {0}, archived : Nat \ {0}, sorted : Nat \ {0}]
      BY <2>10, <2>0, <2>typed DEF AppendIndex, TypedRun
    <3>2. DocThings'
      BY <2>10, <3>1 DEF AppendIndex, DocThings
    <3>3. DocRuns'
      BY <2>10, <2>0, <2>goes DEF AppendIndex, TypedRun, Phases
    <3> QED
      BY <3>2, <3>3
  <2> QED
    BY <1>3, <2>1, <2>2, <2>3, <2>4, <2>5, <2>6, <2>7, <2>8, <2>9, <2>10 DEF FileStep
<1> QED
  BY <1>1, <1>2, <1>3 DEF DocNext

-----------------------------------------------------------------------------
(* The types of fleet-status.                                              *)

(* What a filesystem is, and what is said of one.                          *)
DiskLevels == {"free", "full"}
RowRecords == [host : Machines \cup {0}, fs : Disks \cup {0}, space : Levels, inodes : Levels,
               verdict : {MEASURED, NOT_APPLICABLE, COULD_NOT_LOOK}]

(* What the gather holds, besides what FleetIInv says of it. *)
Gathered ==
  /\ stale \subseteq Disks /\ gather.at \in Calls /\ gather.left \subseteq Disks
  /\ DOMAIN gather.space \subseteq Disks /\ \A f \in DOMAIN gather.space : gather.space[f] \in DiskLevels
  /\ gather.rows \subseteq RowRecords
Counted ==
  /\ published \in [PageNames -> 0..MaxGathers] /\ gathers \in 0..MaxGathers
  /\ changes \in 0..MaxChanges /\ torn \in BOOLEAN /\ unshown \subseteq Disks

LEMMA FleetRecordsTyped == FleetIInv /\ Gathered /\ Counted => FleetTypes
<1> SUFFICES ASSUME FleetIInv, Gathered, Counted PROVE FleetTypes
  OBVIOUS
<1>1. steady \subseteq Disks \X {"space", "inodes"}
  BY DEF FleetIInv, Gathering, FullNow
<1> QED
  BY <1>1 DEF FleetIInv, Gathering, GatherFields, Gathered, Counted, FleetTypes, Levels, DiskLevels, RowRecords

LEMMA FleetInitTyped == FleetInit => Gathered /\ Counted
<1> SUFFICES ASSUME FleetInit PROVE Gathered /\ Counted
  OBVIOUS
<1>1. gather.at = "idle" /\ gather.left = {} /\ gather.space = <<>> /\ gather.rows = {} /\ stale = {}
  BY DEF FleetInit, NoGather
<1>2. Gathered
  BY <1>1 DEF Gathered, Calls
<1>3. published \in [PageNames -> 0..MaxGathers] /\ gathers \in 0..MaxGathers /\ changes \in 0..MaxChanges
  BY ObserveBounds DEF FleetInit
<1>4. torn \in BOOLEAN /\ unshown \subseteq Disks
  BY DEF FleetInit
<1> QED
  BY <1>2, <1>3, <1>4 DEF Counted

LEMMA CountsStayTyped == FleetIInv /\ Gathered /\ Counted /\ [FleetNext]_fleetVars => Counted'
<1> SUFFICES ASSUME FleetIInv, Gathered, Counted, [FleetNext]_fleetVars PROVE Counted'
  OBVIOUS
<1> USE ObserveBounds DEF Counted
<1>1. CASE UNCHANGED fleetVars
  BY <1>1 DEF fleetVars
<1>2. CASE FilesystemsChange
  BY <1>2 DEF FilesystemsChange, Hang, Fill
<1>3. CASE StartGather
  BY <1>3 DEF StartGather
<1>6. CASE ReadSpace
  BY <1>6 DEF ReadSpace, On
<1>4. CASE HostFails \/ ReadInodes \/ ReadGroups \/ ReadProjectSpace \/ ReadProjectInodes
  BY <1>4 DEF HostFails, ReadInodes, ReadGroups, ReadProjectSpace, ReadProjectInodes, Asks
<1>5. CASE PublishTable \/ PublishBubbles \/ PublishSunburst \/ EndGather
  BY <1>5 DEF PublishTable, PublishBubbles, PublishSunburst, EndGather, Forget, PageNames
<1> QED
  BY <1>1, <1>2, <1>3, <1>4, <1>5, <1>6 DEF FleetNext, GatherStep

(* What a host answers is a row for each of its filesystems.               *)
LEMMA RowsTyped ==
  ASSUME Gathering, Gathered, gather.todo # {}, NEW read
  PROVE  Host \in Machines /\ RowsWith(read) \subseteq RowRecords
<1>1. Host \in Machines
  BY MinIsIn, MachinesAssumption DEF Host, Gathering
<1>2. ASSUME NEW f \in DOMAIN gather.space
      PROVE  /\ gather.space[f] \in Levels /\ f \in Disks /\ InodeColumns(f) \in Levels /\ "unknown" \in Levels
             /\ {MEASURED, NOT_APPLICABLE, COULD_NOT_LOOK} = {MEASURED, NOT_APPLICABLE, COULD_NOT_LOOK}
  BY DEF Gathered, Gathering, DiskLevels, Levels, InodeColumns
<1>3. ASSUME NEW f \in Disks, NEW v \in {MEASURED, NOT_APPLICABLE, COULD_NOT_LOOK}, NEW s \in Levels, NEW i \in Levels
      PROVE  Row(Host, f, v, s, i) \in RowRecords
  BY <1>1 DEF Row, RowRecords
<1>4. ASSUME NEW row \in RowsWith(read) PROVE row \in RowRecords
  <2>1. PICK f \in DOMAIN gather.space :
          row = IF f \in Structural THEN Row(Host, f, NOT_APPLICABLE, "unknown", "unknown")
                ELSE IF f \in read THEN Row(Host, f, MEASURED, gather.space[f], InodeColumns(f))
                ELSE Row(Host, f, COULD_NOT_LOOK, gather.space[f], "unknown")
    BY DEF RowsWith
  <2> QED
    BY <1>2, <1>3, <2>1
<1> QED
  BY <1>1, <1>4

LEMMA GatherStaysTyped == FleetIInv /\ Gathered /\ Counted /\ [FleetNext]_fleetVars => Gathered'
<1> SUFFICES ASSUME FleetIInv, Gathered, Counted, [FleetNext]_fleetVars PROVE Gathered'
  OBVIOUS
<1> USE DEF Gathered
<1>0. Gathering /\ DOMAIN gather = GatherFields
  BY DEF FleetIInv, Gathering
<1>1. CASE UNCHANGED fleetVars
  BY <1>1 DEF fleetVars
<1>2. CASE FilesystemsChange
  BY <1>2 DEF FilesystemsChange, Hang, Fill
<1>unseen. ASSUME NEW h \in Machines \cup {0}, NEW f \in Disks \cup {0} PROVE Unseen(h, f) \in RowRecords
  BY DEF Unseen, Row, RowRecords, Levels
<1>3. CASE StartGather
  <2>1. /\ gather'.at \in Calls /\ gather'.left = {} /\ gather'.space = <<>> /\ gather'.rows \subseteq {Unseen(0, 0)}
        /\ stale' = stale
    BY <1>3 DEF StartGather, NoGather, Calls
  <2> QED
    BY <2>1, <1>unseen
<1>adds. ASSUME NEW rows, rows \subseteq RowRecords, NEW left, left \subseteq gather.left, Adds(rows, left), stale' = stale
         PROVE  Gathered'
  <2>1. /\ gather'.at \in Calls /\ gather'.left = left /\ gather'.space = <<>>
        /\ gather'.rows = gather.rows \cup rows
    BY <1>adds DEF Adds, Calls
  <2> QED
    BY <2>1, <1>adds
<1>4. CASE HostFails
  <2>1. Host \in Machines
    BY <1>0, <1>4, RowsTyped DEF Gathering, HostFails
  <2> QED
    BY <1>4, <1>adds, <1>unseen, <2>1 DEF HostFails, Asks
<1>5. CASE ReadSpace
  <2>1. PICK shown \in SUBSET (On(Host) \ stale) :
          gather' = [gather EXCEPT !.at = "inodes", !.space = [f \in shown |-> disk[f].space]]
    BY <1>5 DEF ReadSpace
  <2>0. stale' = stale /\ shown \subseteq Disks
    BY <1>5 DEF ReadSpace, On
  <2>2. /\ gather'.at = "inodes" /\ gather'.left = gather.left /\ gather'.rows = gather.rows
        /\ gather'.space = [f \in shown |-> disk[f].space]
    BY <1>0, <2>1 DEF GatherFields
  <2>3. \A f \in shown : disk[f].space \in DiskLevels
    BY <1>0, <2>0 DEF Gathering, DiskLevels
  <2> QED
    BY <2>0, <2>2, <2>3 DEF Calls
<1>6. CASE ReadInodes
  <2>1. PICK read \in SUBSET (On(Host) \ stale) : Adds(RowsWith(read), {})
    BY <1>6 DEF ReadInodes
  <2>2. RowsWith(read) \subseteq RowRecords
    BY <1>0, <1>6, RowsTyped DEF Gathering, ReadInodes
  <2> QED
    BY <1>6, <1>adds, <2>1, <2>2 DEF ReadInodes, Asks
<1>7. CASE ReadGroups
  BY <1>0, <1>7 DEF ReadGroups, Asks, On, GatherFields, Calls
<1>8. CASE ReadProjectSpace
  <2>1. PICK shown \in SUBSET ({Project} \ stale) :
          gather' = [gather EXCEPT !.at = "projectInodes", !.space = [f \in shown |-> disk[f].space]]
    BY <1>8 DEF ReadProjectSpace
  <2>2. Project \in Disks /\ stale' = stale
    BY <1>0, <1>8, ProjectIsLeft DEF ReadProjectSpace, Asks, OfProjects
  <2>3. /\ gather'.at = "projectInodes" /\ gather'.left = gather.left /\ gather'.rows = gather.rows
        /\ gather'.space = [f \in shown |-> disk[f].space]
    BY <1>0, <2>1 DEF GatherFields
  <2>4. shown \subseteq Disks /\ \A f \in shown : disk[f].space \in DiskLevels
    BY <1>0, <2>2 DEF Gathering, DiskLevels
  <2> QED
    BY <2>2, <2>3, <2>4 DEF Calls
<1>9. CASE ReadProjectInodes
  <2> DEFINE rows(read) == IF gather.space = <<>> THEN {Unseen(Host, Project)} ELSE RowsWith(read)
             left == gather.left \ {Project}
  <2>1. PICK read \in SUBSET ({Project} \ stale) : Adds(rows(read), left)
    BY <1>9 DEF ReadProjectInodes
  <2>2. Project \in Disks /\ stale' = stale
    BY <1>0, <1>9, ProjectIsLeft DEF ReadProjectInodes, Asks, OfProjects
  <2>3. rows(read) \subseteq RowRecords
    <3>1. Host \in Machines /\ RowsWith(read) \subseteq RowRecords
      BY <1>0, <1>9, RowsTyped DEF Gathering, ReadProjectInodes, OfProjects
    <3> QED
      BY <1>unseen, <2>2, <3>1
  <2>4. left \subseteq gather.left
    OBVIOUS
  <2> HIDE DEF rows, left
  <2> QED
    BY <2>1, <2>2, <2>3, <2>4, <1>adds
<1>10. CASE PublishBubbles
  BY <1>0, <1>10 DEF PublishBubbles, GatherFields, Calls
<1>11. CASE PublishTable \/ PublishSunburst \/ EndGather
  BY <1>11 DEF PublishTable, PublishSunburst, EndGather, NoGather, GatherFields, Calls
<1> QED
  BY <1>1, <1>2, <1>3, <1>4, <1>5, <1>6, <1>7, <1>8, <1>9, <1>10, <1>11 DEF FleetNext, GatherStep

FleetTIInv == FleetIInv /\ Gathered /\ Counted

LEMMA FleetStepTyped == FleetTIInv /\ [FleetNext]_fleetVars => FleetTIInv'
  BY FleetStepKeepsIt, GatherStaysTyped, CountsStayTyped DEF FleetTIInv

-----------------------------------------------------------------------------
(* The types of survey.                                                    *)

(* Nothing is later than now, and access times lag as relatime lets them.  *)
SurveyTimes ==
  /\ tick \in 0..MaxTick /\ doings \in 0..MaxDoings
  /\ written \in [CorpusFiles -> 0..tick] /\ readAt \in [CorpusFiles -> 0..tick]
  /\ atime \in [CorpusFiles -> Nat]
  /\ \A f \in CorpusFiles : atime[f] <= readAt[f] /\ readAt[f] - atime[f] < AtimeLag
  /\ attached \subseteq {"tree", "nested"} /\ alive \subseteq Procs /\ unlisted \subseteq NestedFiles

(* What the survey has looked at.                                          *)
ScanSteps == {"begin", "list", "stat", "probe", "pids", "fds", "maps", "done"}
Scanned ==
  /\ scan.at \in ScanSteps
  /\ scan.todo \subseteq CorpusFiles /\ DOMAIN scan.stats \subseteq CorpusFiles /\ scan.signals \subseteq TreeVerdicts
  /\ scan.pids \subseteq Procs /\ scan.maps \subseteq Procs /\ scan.observed \subseteq CorpusFiles
  /\ scan.verdict \in TreeVerdicts \cup {"none"} /\ scan.verdict # "none" <=> scan.at = "done"

SurveyTIInv == HolderIInv /\ SurveyTimes /\ Scanned

LEMMA SurveyRecordsTyped == SurveyTIInv => SurveyTypes
<1> SUFFICES ASSUME SurveyTIInv PROVE SurveyTypes
  OBVIOUS
<1>1. \A f \in CorpusFiles : atime[f] \in 0..readAt[f]
  BY SurveyBounds DEF SurveyTIInv, SurveyTimes
<1> QED
  BY <1>1 DEF SurveyTIInv, HolderIInv, Holding, SurveyTimes, Scanned, ScanSteps, SurveyTypes

LEMMA SurveyInitTyped == SurveyInit => SurveyTIInv
<1> SUFFICES ASSUME SurveyInit PROVE SurveyTIInv
  OBVIOUS
<1>1. SurveyTimes
  BY SurveyBounds, SurveyAssumption DEF SurveyInit, SurveyTimes
<1>2. Scanned
  BY DEF SurveyInit, Scanned, NoScan, ScanSteps, TreeVerdicts
<1> QED
  BY <1>1, <1>2, HolderInitIsGood DEF SurveyTIInv

LEMMA TimesStayTyped == SurveyTIInv /\ [SurveyNext]_surveyVars => SurveyTimes'
<1> SUFFICES ASSUME SurveyTIInv, [SurveyNext]_surveyVars PROVE SurveyTimes'
  OBVIOUS
<1> USE SurveyBounds, SurveyAssumption DEF SurveyTIInv, SurveyTimes
<1>1. CASE UNCHANGED surveyVars
  BY <1>1 DEF surveyVars
<1>2. CASE Tick
  <2>1. /\ tick' = tick + 1 /\ tick < MaxTick
        /\ UNCHANGED <<written, readAt, atime, attached, alive, doings, unlisted>>
    BY <1>2 DEF Tick
  <2>2. \A t \in 0..tick : t \in 0..tick'
    BY <2>1
  <2> QED
    BY <2>1, <2>2
<1>3. ASSUME NEW f \in CorpusFiles, Write(f) PROVE SurveyTimes'
  <2>1. tick \in 0..tick
    OBVIOUS
  <2> QED
    BY <1>3, <2>1 DEF Write, Does1
<1>4. ASSUME NEW f \in CorpusFiles, ReadFile(f) PROVE SurveyTimes'
  <2>1. /\ readAt' = [readAt EXCEPT ![f] = tick] /\ tick' = tick /\ Does1
        /\ atime' = IF atime[f] <= written[f] \/ tick - atime[f] >= AtimeLag
                    THEN [atime EXCEPT ![f] = tick] ELSE atime
        /\ UNCHANGED <<written, attached, alive, unlisted>>
    BY <1>4 DEF ReadFile
  <2>2. /\ readAt' \in [CorpusFiles -> 0..tick] /\ atime' \in [CorpusFiles -> Nat]
        /\ readAt'[f] = tick
        /\ \A g \in CorpusFiles \ {f} : readAt'[g] = readAt[g] /\ atime'[g] = atime[g]
    BY <2>1
  <2>3. atime'[f] = tick \/ (atime'[f] = atime[f] /\ tick - atime[f] < AtimeLag)
    BY <2>1
  <2>4. atime[f] <= tick
    OBVIOUS
  <2>5. \A g \in CorpusFiles : atime'[g] <= readAt'[g] /\ readAt'[g] - atime'[g] < AtimeLag
    BY <2>2, <2>3, <2>4
  <2> QED
    BY <2>1, <2>2, <2>5 DEF Does1
<1>5. ASSUME NEW fs \in {"tree", "nested"}, Attach(fs) \/ Detach(fs) PROVE SurveyTimes'
  <2>1. /\ UNCHANGED <<tick, written, readAt, atime, alive, unlisted>>
        /\ doings < MaxDoings /\ doings' = doings + 1 /\ attached' \subseteq {"tree", "nested"}
    BY <1>5 DEF Attach, Detach, Does1
  <2> QED
    BY <2>1
<1>6. ASSUME NEW p \in Procs, Start(p) \/ End(p) PROVE SurveyTimes'
  <2>1. /\ UNCHANGED <<tick, written, readAt, atime, attached, unlisted>>
        /\ doings < MaxDoings /\ doings' = doings + 1 /\ alive' \subseteq Procs
    BY <1>6 DEF Start, End, Does1
  <2> QED
    BY <2>1
<1>7. ASSUME NEW p \in Procs, NEW f \in CorpusFiles, NEW how \in {"fd", "map"}, Hold(p, f, how) PROVE SurveyTimes'
  <2>1. /\ UNCHANGED <<tick, written, readAt, atime, attached, alive, unlisted>>
        /\ doings < MaxDoings /\ doings' = doings + 1
    BY <1>7 DEF Hold, Does1
  <2> QED
    BY <2>1
<1>8. CASE SurveyStep
  <2>1. CASE Begin \/ ListTree \/ Probes \/ Answer
    BY <2>1 DEF Begin, ListTree, Probes, Answer, surveyWorld
  <2>2. CASE ListNested \/ ListProcs
    BY <2>2 DEF ListNested, ListProcs, surveyWorld
  <2>3. ASSUME NEW f \in CorpusFiles, StatFile(f) PROVE SurveyTimes'
    BY <2>3 DEF StatFile, surveyWorld
  <2>4. ASSUME NEW p \in Procs, ReadFds(p) \/ ReadMaps(p) PROVE SurveyTimes'
    BY <2>4 DEF ReadFds, ReadMaps, surveyWorld
  <2> QED
    BY <1>8, <2>1, <2>2, <2>3, <2>4 DEF SurveyStep
<1> QED
  BY <1>1, <1>2, <1>3, <1>4, <1>5, <1>6, <1>7, <1>8 DEF SurveyNext, Doing

LEMMA ScanStaysTyped == SurveyTIInv /\ [SurveyNext]_surveyVars => Scanned'
<1> SUFFICES ASSUME SurveyTIInv, [SurveyNext]_surveyVars PROVE Scanned'
  OBVIOUS
<1> USE DEF SurveyTIInv, HolderIInv, Scanning, ScanFields, Scanned, ScanSteps, TreeVerdicts
<1>1. CASE UNCHANGED surveyVars \/ Doing \/ Tick
  <2>1. scan' = scan
    BY <1>1, DoingHolds DEF surveyVars
  <2> QED
    BY <2>1
<1>2. CASE Begin
  BY <1>2 DEF Begin
<1>3. CASE ListTree
  BY <1>3 DEF ListTree, Miss, Lists, CorpusFiles
<1>4. CASE ListNested
  <2>1. CASE Miss
    BY <1>4, <2>1 DEF ListNested, Miss
  <2>2. CASE Lists({f \in NestedFiles : Mounted(f)}, FALSE)
    <3> DEFINE listed == {f \in NestedFiles : Mounted(f)}
    <3>1. listed \subseteq CorpusFiles
      BY DEF CorpusFiles
    <3>2. Lists(listed, FALSE)
      BY <2>2
    <3> HIDE DEF listed
    <3> QED
      BY <1>4, <3>1, <3>2 DEF ListNested, Lists
  <2> QED
    BY <1>4, <2>1, <2>2 DEF ListNested
<1>5. ASSUME NEW f \in CorpusFiles, StatFile(f) PROVE Scanned'
  <2> DEFINE with == [g \in DOMAIN scan.stats \cup {f} |->
                        IF g = f THEN [mtime |-> written[f], atime |-> atime[f], used |-> readAt[f]] ELSE scan.stats[g]]
             stats == IF Mounted(f) THEN with ELSE scan.stats
             missed == scan.missed \/ ~Mounted(f)
  <2>0. scan' = [scan EXCEPT !.todo = scan.todo \ {f}, !.missed = missed, !.stats = stats] /\ scan.at = "stat"
    BY <1>5 DEF StatFile
  <2>2. DOMAIN stats \subseteq CorpusFiles
    OBVIOUS
  <2> HIDE DEF stats, missed
  <2>1. /\ scan'.at = "stat" /\ scan'.todo = scan.todo \ {f}
        /\ scan'.stats = stats
        /\ scan'.signals = scan.signals /\ scan'.pids = scan.pids /\ scan'.maps = scan.maps
        /\ scan'.observed = scan.observed /\ scan'.verdict = scan.verdict
    BY <2>0
  <2> QED
    BY <2>0, <2>1, <2>2
<1>6. CASE Probes
  <2>1. CoverageSignal \in TreeVerdicts /\ ColdnessSignal \in TreeVerdicts
    BY DEF CoverageSignal, ColdnessSignal
  <2>2. PICK readability \in {"movable", "could-not-look"} :
          scan' = [scan EXCEPT !.at = "pids", !.signals = {readability, CoverageSignal, ColdnessSignal}]
    BY <1>6 DEF Probes
  <2>3. scan.at = "stat"
    BY <1>6 DEF Probes
  <2> QED
    BY <2>1, <2>2, <2>3
<1>7. CASE ListProcs
  <2>1. PICK shows \in BOOLEAN :
          scan' = [scan EXCEPT !.at = "fds", !.control = shows, !.pids = {p \in alive : shows}]
    BY <1>7 DEF ListProcs
  <2>2. scan.at = "pids" /\ {p \in alive : shows} \subseteq Procs
    BY <1>7 DEF ListProcs, SurveyTimes
  <2> QED
    BY <2>1, <2>2
<1>8. ASSUME NEW p \in Procs, ReadFds(p) PROVE Scanned'
  BY <1>8 DEF ReadFds, Shown
<1>9. ASSUME NEW p \in Procs, ReadMaps(p) PROVE Scanned'
  BY <1>9 DEF ReadMaps, Shown
<1>10. CASE Answer
  <2>1. Combine(scan.signals \cup {OpenHandleSignal}) \in TreeVerdicts
    BY DEF Combine
  <2> QED
    BY <1>10, <2>1 DEF Answer
<1> QED
  BY <1>1, <1>2, <1>3, <1>4, <1>5, <1>6, <1>7, <1>8, <1>9, <1>10 DEF SurveyNext, SurveyStep

LEMMA SurveyStepTyped == SurveyTIInv /\ [SurveyNext]_surveyVars => SurveyTIInv'
  BY HolderStepKeepsIt, TimesStayTyped, ScanStaysTyped DEF SurveyTIInv

-----------------------------------------------------------------------------
(* The types of find-recipe.                                               *)

(* Of an answer, what RecipeIInv does not say. *)
Noted ==
  /\ supplied \in {"none", "missing", "there"}
  /\ look.next \in (0..RootLevel) \cup (1..(Len(MarkerOrder) + 1))
  /\ look.at = "marker" => look.next \in 1..(Len(MarkerOrder) + 1)
  /\ look.at = "answered" => look.verdict # "none"
  /\ look.verdict = "regenerable" <=> look.from # <<>>
  /\ beenThere \subseteq Places \cup {Given} \cup ({0} \X Marks)

RecipeTIInv == RecipeIInv /\ Noted

LEMMA RecipeRecordsTyped == RecipeTIInv => RecipeTypes
  BY DEF RecipeTIInv, RecipeIInv, Shaped, Climbing, Noted, RecipeTypes, Looks, Stages, Verdicts, Origins

LEMMA RecipeInitTyped == RecipeInit => RecipeTIInv
<1> SUFFICES ASSUME RecipeInit PROVE Noted
  BY RecipeInitIsGood DEF RecipeTIInv
<1>1. Len(MarkerOrder) = 6
  BY DEF MarkerOrder
<1> QED
  BY <1>1 DEF RecipeInit, Noted, NoLook

LEMMA SeenIsTyped == ASSUME Shaped PROVE Seen \subseteq Places \cup {Given} \cup ({0} \X Marks)
  BY DEF Shaped, Seen

LEMMA RecipeStepTyped == RecipeTIInv /\ [RecipeNext]_recipeVars => RecipeTIInv'
<1> SUFFICES ASSUME RecipeTIInv, [RecipeNext]_recipeVars PROVE Noted'
  BY RecipeStepKeepsIt DEF RecipeTIInv
<1> USE DEF RecipeTIInv, RecipeIInv
<1>0. Len(MarkerOrder) = 6
  BY DEF MarkerOrder
<1>seen. Seen' \subseteq Places \cup {Given} \cup ({0} \X Marks) /\ Seen \subseteq Places \cup {Given} \cup ({0} \X Marks)
  <2>1. RecipeIInv'
    BY RecipeStepKeepsIt
  <2>2. (Shaped => Seen \subseteq Places \cup {Given} \cup ({0} \X Marks))'
    BY SeenIsTyped, PTL
  <2> QED
    BY <2>1, <2>2, SeenIsTyped
<1>1. CASE UNCHANGED recipeVars
  BY <1>1 DEF recipeVars, Noted
<1>2. CASE Moves
  <2>1. look' = look /\ supplied' \in {"none", "missing", "there"}
    BY <1>2 DEF Moves, Noted
  <2>2. beenThere' = {} \/ beenThere' = beenThere \cup Seen'
    BY <1>2 DEF Moves
  <2> QED
    BY <1>seen, <2>1, <2>2 DEF Noted
<1>3. CASE Ask
  <2>1. beenThere' = Seen /\ supplied' = supplied /\ look.at = "ask"
        /\ (Answers("could-not-look", <<>>) \/ Steps("list", 1))
    BY <1>3 DEF Ask
  <2>2. look.from = <<>> /\ look.verdict = "none"
    BY <2>1 DEF Shaped, Noted
  <2>3. /\ look'.from = <<>> /\ look'.next \in {1, look.next}
        /\ \/ look'.at = "answered" /\ look'.verdict = "could-not-look"
           \/ look'.at = "list" /\ look'.verdict = "none"
    <3>1. CASE Answers("could-not-look", <<>>)
      BY <3>1 DEF Answers, Shaped, Looks
    <3>2. CASE Steps("list", 1)
      BY <2>2, <3>2 DEF Steps, Shaped, Looks
    <3> QED
      BY <2>1, <3>1, <3>2
  <2> QED
    BY <1>0, <1>seen, <2>1, <2>3 DEF Noted
<1>same. ASSUME Looking PROVE supplied' = supplied /\ beenThere' = beenThere
  BY <1>same DEF Looking
<1>answer. ASSUME Looking, NEW verdict \in {"cache", "not-regenerable", "could-not-look"}, Answers(verdict, <<>>)
           PROVE  Noted'
  <2>1. look'.at = "answered" /\ look'.verdict = verdict /\ look'.from = <<>> /\ look'.next = look.next
    BY <1>answer DEF Answers, Shaped, Looks
  <2> QED
    BY <2>1, <1>answer, <1>same DEF Noted
<1>step. ASSUME Looking, NEW step \in {"tag", "entries", "marker", "supplied", "climb"}, NEW next,
                next \in (0..RootLevel) \cup (1..(Len(MarkerOrder) + 1)), look.at # "answered",
                step = "marker" => next \in 1..(Len(MarkerOrder) + 1),
                \E m : look' = [look EXCEPT !.at = step, !.next = next, !.marker = m]
         PROVE  Noted'
  <2>1. look'.at = step /\ look'.verdict = look.verdict /\ look'.from = look.from /\ look'.next = next
    BY <1>step DEF Shaped, Looks
  <2> QED
    BY <2>1, <1>step, <1>same DEF Noted, Shaped
<1>steps. ASSUME NEW step, NEW next, Steps(step, next)
          PROVE  \E m : look' = [look EXCEPT !.at = step, !.next = next, !.marker = m]
  <2>1. look' = [look EXCEPT !.at = step, !.next = next, !.marker = look.marker]
    BY <1>steps DEF Steps, Shaped, Looks
  <2> QED
    BY <2>1
<1>4. CASE List \/ Tag \/ Entries
  <2>1. Looking /\ look.at # "answered"
    BY <1>4 DEF List, Tag, Entries
  <2>2. \/ Steps("tag", 1) \/ Steps("entries", 1) \/ Steps("marker", 1)
        \/ Answers("could-not-look", <<>>) \/ Answers("cache", <<>>)
    BY <1>4 DEF List, Tag, Entries
  <2>3. 1 \in 1..(Len(MarkerOrder) + 1)
    BY <1>0
  <2>4. CASE Answers("could-not-look", <<>>) \/ Answers("cache", <<>>)
    BY <2>1, <2>4, <1>answer
  <2>5. ASSUME NEW step \in {"tag", "entries", "marker"}, Steps(step, 1) PROVE Noted'
    <3>1. \E m : look' = [look EXCEPT !.at = step, !.next = 1, !.marker = m]
      BY <2>5, <1>steps
    <3>2. step \in {"tag", "entries", "marker", "supplied", "climb"} /\ 1 \in (0..RootLevel) \cup (1..(Len(MarkerOrder) + 1))
      BY <2>3, <2>5
    <3> QED
      BY <2>1, <2>3, <3>1, <3>2, <1>step
  <2> QED
    BY <2>2, <2>4, <2>5
<1>5. CASE Marker
  <2>1. Looking /\ look.at = "marker" /\ look.next \in 1..(Len(MarkerOrder) + 1) /\ 0 \in 0..RootLevel
    BY <1>5, RecipeAssumption DEF Marker, Noted
  <2>2. CASE look.next > Len(MarkerOrder)
    BY <1>5, <2>1, <2>2, <1>answer DEF Marker
  <2>3. CASE look' = [look EXCEPT !.at = "climb", !.next = 0, !.marker = MarkerOrder[look.next]]
    BY <2>1, <2>3, <1>step
  <2>4. CASE ~(look.next > Len(MarkerOrder)) /\ Steps("marker", look.next + 1)
    <3>1. look.next + 1 \in 1..(Len(MarkerOrder) + 1)
      BY <1>0, <2>1, <2>4
    <3> QED
      BY <2>1, <2>4, <3>1, <1>step, <1>steps
  <2> QED
    BY <1>5, <2>2, <2>3, <2>4 DEF Marker
<1>found. ASSUME Looking, NEW from, from # <<>>, Answers("regenerable", from) PROVE Noted'
  <2>1. look'.at = "answered" /\ look'.verdict = "regenerable" /\ look'.from = from /\ look'.next = look.next
    BY <1>found DEF Answers, Shaped, Looks
  <2> QED
    BY <2>1, <1>found, <1>same DEF Noted
<1>6. CASE Climb
  <2>1. Looking /\ look.at = "climb" /\ look.next \in 0..bound /\ bound \in 0..RootLevel /\ RootLevel \in Nat
    BY <1>6, RecipeAssumption DEF Climb, Climbing, Shaped
  <2>2. CASE Answers("regenerable", Here)
    <3>1. Here # <<>>
      BY DEF Here
    <3> QED
      BY <2>1, <2>2, <3>1, <1>found
  <2>3. CASE Steps("supplied", 0)
    <3>1. 0 \in 0..RootLevel
      BY <2>1
    <3> QED
      BY <2>1, <2>3, <3>1, <1>step, <1>steps
  <2>4. CASE look.next # bound /\ Steps("climb", look.next + 1)
    <3>1. look.next + 1 \in (0..RootLevel) \cup (1..(Len(MarkerOrder) + 1))
      BY <2>1, <2>4
    <3>2. \E m : look' = [look EXCEPT !.at = "climb", !.next = look.next + 1, !.marker = m]
      BY <2>4, <1>steps
    <3> QED
      BY <2>1, <3>1, <3>2, <1>step
  <2>5. CASE Here \in recipes
    <3>1. Answers("regenerable", Here)
      BY <1>6, <2>5 DEF Climb
    <3> QED
      BY <2>2, <3>1
  <2>6. CASE Here \notin recipes /\ look.next = bound
    BY <1>6, <2>3, <2>6 DEF Climb
  <2>7. CASE Here \notin recipes /\ look.next # bound
    BY <1>6, <2>4, <2>7 DEF Climb
  <2> QED
    BY <2>5, <2>6, <2>7
<1>7. CASE Supplied
  <2>1. Looking /\ (Answers("regenerable", Given) \/ Answers("not-regenerable", <<>>))
    BY <1>7 DEF Supplied
  <2>2. Given # <<>>
    BY DEF Given
  <2> QED
    BY <2>1, <2>2, <1>found, <1>answer
<1> QED
  BY <1>1, <1>2, <1>3, <1>4, <1>5, <1>6, <1>7 DEF RecipeNext

-----------------------------------------------------------------------------
(* The types of the storage broker.                                        *)

Quotas == {t.quota : t \in Terms} \cup {"none"}

(* Of the directories, the job, the answers and the records, what            *)
(* BrokerIInv does not say.                                                  *)
Provisioned ==
  /\ policy \in Policies /\ quotas \in [Resources -> Quotas]
  /\ applied \in 0..MaxApplied /\ tampering \in 0..MaxTampering
  /\ \A r \in Resources : target[r].is # "nothing" => target[r].inode \in 1..inodes
Working ==
  /\ job.at \in {"idle", "chown", "quota", "readback"}
  /\ job.at # "idle" => /\ DOMAIN job = {"at", "request", "key"} /\ job.request \in Requests
                        /\ job.key.policy \in Policies
OnRecord ==
  /\ \A b \in readbacks : b.inode \in 1..inodes /\ b.request \in Requests
  /\ \A m \in made : m.request \in Requests /\ m.policy \in Policies /\ m.inode \in 1..inodes
  /\ checked = {} \/ \E req \in Requests, b \in readbacks, ready \in BOOLEAN : checked = {<<req, b, ready>>}

BrokerTIInv == BrokerIInv /\ Provisioned /\ Working /\ OnRecord

LEMMA BrokerRecordsTyped == BrokerTIInv => BrokerTypes
  BY DEF BrokerTIInv, BrokerIInv, Placed, Directories, Provisioned, Working, OnRecord, BrokerTypes, Quotas

LEMMA BrokerInitTyped == BrokerInit => BrokerTIInv
<1> SUFFICES ASSUME BrokerInit PROVE Provisioned /\ Working /\ OnRecord
  BY BrokerInitIsGood DEF BrokerTIInv
<1>1. Provisioned
  BY BrokerAssumption DEF BrokerInit, Provisioned, Nothing, Quotas
<1> QED
  BY <1>1 DEF BrokerInit, Working, OnRecord, Resting1

LEMMA RequestsAreTyped ==
  \A req \in Requests : req.resource \in Resources /\ req.owner \in Owners /\ req.mode \in Modes /\ req.quota \in Quotas
  BY DEF Requests, Asked1, Owners, Modes, Quotas

LEMMA BrokerStepTyped == BrokerTIInv /\ [BrokerNext]_brokerVars => BrokerTIInv'
<1> SUFFICES ASSUME BrokerTIInv, [BrokerNext]_brokerVars PROVE Provisioned' /\ Working' /\ OnRecord'
  BY BrokerStepKeepsIt DEF BrokerTIInv
<1> USE BrokerAssumption DEF BrokerTIInv, BrokerIInv, Placed, Directories
<1>1. CASE UNCHANGED brokerVars
  BY <1>1 DEF brokerVars, Provisioned, Working, OnRecord
<1>2. ASSUME NEW req \in Requests, Provision(req) PROVE Provisioned' /\ Working' /\ OnRecord'
  <2>1. /\ applied < MaxApplied /\ applied' = applied + 1
        /\ job' = [at |-> "chown", request |-> req, key |-> PlanDigest(req, policy)]
        /\ UNCHANGED <<policy, quotas, readbacks, checked, tampering, made>>
    BY <1>2 DEF Provision
  <2>2. \/ UNCHANGED <<target, inodes>>
        \/ /\ inodes' = inodes + 1
           /\ target' = [target EXCEPT ![req.resource] =
                [is |-> "directory", inode |-> inodes + 1, owner |-> "other", mode |-> req.mode]]
    BY <1>2 DEF Provision
  <2>3. /\ \A r \in Resources : target'[r].is # "nothing" => target'[r].inode \in 1..inodes'
        /\ inodes <= inodes' /\ inodes' \in Nat
    BY <2>2 DEF Provisioned
  <2>4. Provisioned'
    BY <2>1, <2>3 DEF Provisioned
  <2>5. Working'
    BY <2>1 DEF Working, PlanDigest, Provisioned
  <2>6. OnRecord'
    BY <2>1, <2>3 DEF OnRecord
  <2> QED
    BY <2>4, <2>5, <2>6
<1>3. CASE Chown
  <2> DEFINE res == job.request.resource
  <2>1. /\ target' = [target EXCEPT ![res].owner = job.request.owner, ![res].mode = job.request.mode]
        /\ job.at = "chown" /\ job' = [job EXCEPT !.at = "quota"]
        /\ UNCHANGED <<policy, quotas, readbacks, checked, inodes, applied, tampering, made>>
    BY <1>3 DEF Chown
  <2>2. Provisioned'
    BY <2>1 DEF Provisioned
  <2>3. Working'
    BY <2>1 DEF Working
  <2>4. OnRecord'
    BY <2>1 DEF OnRecord
  <2> QED
    BY <2>2, <2>3, <2>4
<1>4. CASE SetQuota
  <2>1. /\ quotas' = [quotas EXCEPT ![job.request.resource] = job.request.quota]
        /\ job.at = "quota" /\ job' = [job EXCEPT !.at = "readback"]
        /\ UNCHANGED <<policy, target, readbacks, checked, inodes, applied, tampering, made>>
    BY <1>4 DEF SetQuota
  <2>2. job.request \in Requests
    BY <2>1 DEF Working
  <2>3. Provisioned'
    BY <2>1, <2>2, RequestsAreTyped DEF Provisioned
  <2>4. Working'
    BY <2>1 DEF Working
  <2>5. OnRecord'
    BY <2>1 DEF OnRecord
  <2> QED
    BY <2>3, <2>4, <2>5
<1>5. CASE ReadBackTarget
  <2> DEFINE now == target[job.request.resource]
             new == [request |-> job.request, key |-> job.key, inode |-> now.inode,
                     owner |-> now.owner, mode |-> now.mode, quota |-> quotas[job.request.resource]]
             did == [request |-> job.request, policy |-> job.key.policy, inode |-> now.inode]
  <2>1. /\ job.at = "readback" /\ now.is = "directory" /\ job' = Resting1
        /\ readbacks' = readbacks \cup {new} /\ made' \subseteq made \cup {did}
        /\ UNCHANGED <<policy, target, quotas, checked, inodes, applied, tampering>>
    BY <1>5 DEF ReadBackTarget
  <2>2. job.request \in Requests /\ job.key.policy \in Policies /\ now.inode \in 1..inodes
    BY <2>1, RequestsAreTyped DEF Working, Provisioned
  <2>3. /\ new.inode \in 1..inodes /\ new.request \in Requests
        /\ did.request \in Requests /\ did.policy \in Policies /\ did.inode \in 1..inodes
    BY <2>2
  <2> HIDE DEF new, did, now
  <2>4. OnRecord'
    BY <2>1, <2>3 DEF OnRecord
  <2>5. Provisioned' /\ Working'
    BY <2>1 DEF Provisioned, Working, Resting1
  <2> QED
    BY <2>4, <2>5
<1>6. CASE GiveUpJob
  BY <1>6 DEF GiveUpJob, Provisioned, Working, OnRecord, Resting1
<1>7. ASSUME NEW pol \in Policies, Configure(pol) PROVE Provisioned' /\ Working' /\ OnRecord'
  BY <1>7 DEF Configure, Tampered, Provisioned, Working, OnRecord
<1>8. ASSUME NEW r \in Resources, Replace(r) PROVE Provisioned' /\ Working' /\ OnRecord'
  <2>1. /\ tampering < MaxTampering /\ tampering' = tampering + 1 /\ checked' = {}
        /\ UNCHANGED <<policy, quotas, job, readbacks, applied, made>>
    BY <1>8 DEF Replace, Tampered
  <2>2. \/ target' = [target EXCEPT ![r] = Nothing] /\ UNCHANGED inodes
        \/ /\ inodes' = inodes + 1
           /\ \E is1 \in {"directory", "symlink"}, owner \in Owners, mode \in Modes :
                target' = [target EXCEPT ![r] = [is |-> is1, inode |-> inodes + 1, owner |-> owner, mode |-> mode]]
    BY <1>8 DEF Replace
  <2>3. /\ \A q \in Resources : target'[q].is # "nothing" => target'[q].inode \in 1..inodes'
        /\ inodes <= inodes' /\ inodes' \in Nat
    BY <2>2 DEF Provisioned, Nothing
  <2>4. Provisioned'
    BY <2>1, <2>3 DEF Provisioned
  <2>5. Working' /\ OnRecord'
    BY <2>1, <2>3 DEF Working, OnRecord
  <2> QED
    BY <2>4, <2>5
<1>9. ASSUME NEW r \in Resources, Alter(r) PROVE Provisioned' /\ Working' /\ OnRecord'
  <2>1. /\ tampering < MaxTampering /\ tampering' = tampering + 1 /\ checked' = {}
        /\ UNCHANGED <<policy, job, readbacks, inodes, applied, made>>
    BY <1>9 DEF Alter, Tampered
  <2>2. \A q \in Resources : target'[q].is = target[q].is /\ target'[q].inode = target[q].inode
    BY <1>9 DEF Alter
  <2>3. quotas' \in [Resources -> Quotas]
    BY <1>9 DEF Alter, Provisioned, Quotas
  <2>4. Provisioned'
    BY <2>1, <2>2, <2>3 DEF Provisioned
  <2>5. Working' /\ OnRecord'
    BY <2>1 DEF Working, OnRecord
  <2> QED
    BY <2>4, <2>5
<1>10. ASSUME NEW req \in Requests, NEW b \in readbacks, Validate(req, b) PROVE Provisioned' /\ Working' /\ OnRecord'
  <2>1. checked' = {<<req, b, Blockers(req, b) = {}>>} /\ (Blockers(req, b) = {}) \in BOOLEAN
        /\ UNCHANGED <<policy, target, quotas, job, readbacks, inodes, applied, tampering, made>>
    BY <1>10 DEF Validate
  <2>2. \E ready \in BOOLEAN : checked' = {<<req, b, ready>>}
    BY <2>1
  <2> QED
    BY <2>1, <2>2 DEF Provisioned, Working, OnRecord
<1> QED
  BY <1>1, <1>2, <1>3, <1>4, <1>5, <1>6, <1>7, <1>8, <1>9, <1>10 DEF BrokerNext

-----------------------------------------------------------------------------
(* The types of the redundancy report.                                     *)

(* What is noted of a copy is within what the clocks are apart of a time     *)
(* that has been.                                                            *)
RedundancyTIInv ==
  /\ hour \in 0..MaxNow /\ sound \subseteq Replicas
  /\ verifiedAt \in [Listed -> SUBSET Int] /\ unnoted \in [Listed -> SUBSET (0..hour)]
  /\ provenAt \in [Replicas -> SUBSET (0..hour)]
  /\ \A e \in Listed : \A t \in verifiedAt[e] : \E s \in Skews : t - s \in 0..hour
  /\ table \in Tables /\ touches \in 0..MaxTouches
  /\ report.is \in {"none", "refused", "made"}
  /\ report.is = "made" => report.gaps \in [Inventory -> SUBSET Gaps]

LEMMA RedundancyRecordsTyped == RedundancyTIInv => RedundancyTypes
  BY DEF RedundancyTIInv, RedundancyTypes

LEMMA RedundancyInitTyped == RedundancyInit => RedundancyTIInv
  BY RedundancyBounds DEF RedundancyInit, RedundancyTIInv, NoReport

LEMMA RedundancyStepTyped == RedundancyTIInv /\ [RedundancyNext]_redundancyVars => RedundancyTIInv'
<1> SUFFICES ASSUME RedundancyTIInv, [RedundancyNext]_redundancyVars PROVE RedundancyTIInv'
  OBVIOUS
<1> USE RedundancyBounds DEF RedundancyTIInv
<1>1. CASE UNCHANGED redundancyVars
  BY <1>1 DEF redundancyVars
<1>2. CASE Pass
  <2>1. /\ hour' = hour + 1 /\ hour < MaxNow
        /\ UNCHANGED <<sound, verifiedAt, table, report, touches, provenAt, unnoted>>
    BY <1>2 DEF Pass
  <2>2. \A t \in 0..hour : t \in 0..hour'
    BY <2>1
  <2>3. provenAt' \in [Replicas -> SUBSET (0..hour')] /\ unnoted' \in [Listed -> SUBSET (0..hour')]
    BY <2>1, <2>2
  <2>4. \A e \in Listed : \A t \in verifiedAt'[e] : \E s \in Skews : t - s \in 0..hour'
    BY <2>1, <2>2
  <2> QED
    BY <2>1, <2>3, <2>4
<1>3. ASSUME NEW c \in Replicas, Spoil(c) PROVE RedundancyTIInv'
  BY <1>3 DEF Spoil, Touch
<1>4. ASSUME NEW c \in Replicas, NEW skew \in Skews, NEW told \in SUBSET EntriesOf(c),
             ReadCopyBack(c, skew, told) PROVE RedundancyTIInv'
  <2>0. skew \in Int /\ hour \in 0..hour /\ hour \in Int /\ hour + skew \in Int /\ (hour + skew) - skew = hour
    BY SkewsAssumption
  <2>1. /\ touches' \in 0..MaxTouches /\ UNCHANGED <<hour, sound, table, report>>
        /\ verifiedAt' = [e \in Listed |-> IF e \notin told THEN verifiedAt[e]
                                          ELSE IF c \in sound THEN {hour + skew} ELSE {}]
        /\ provenAt' = [provenAt EXCEPT ![c] = IF c \in sound THEN {hour} ELSE {}]
        /\ unnoted' = [e \in Listed |-> IF e \notin EntriesOf(c) THEN unnoted[e]
                                       ELSE IF c \in sound \/ e \in told THEN {}
                                       ELSE unnoted[e] \cup provenAt[c]]
    BY <1>4 DEF ReadCopyBack, Touch
  <2>2. verifiedAt' \in [Listed -> SUBSET Int] /\ provenAt' \in [Replicas -> SUBSET (0..hour)]
    BY <2>0, <2>1
  <2>3. unnoted' \in [Listed -> SUBSET (0..hour)]
    BY <2>1
  <2>4. ASSUME NEW e \in Listed, NEW t \in verifiedAt'[e] PROVE \E s \in Skews : t - s \in 0..hour
    <3>1. t \in verifiedAt[e] \/ t = hour + skew
      BY <2>1, <2>4
    <3> QED
      BY <2>0, <3>1
  <2> QED
    BY <2>1, <2>2, <2>3, <2>4
<1>5. ASSUME NEW skew \in Skews, AssessAll(skew) PROVE RedundancyTIInv'
  <2>1. UNCHANGED <<hour, sound, verifiedAt, table, touches, provenAt, unnoted>>
    BY <1>5 DEF AssessAll
  <2>2. CASE \E d \in Inventory : ClassOf[d] \notin DOMAIN table
    <3>1. report'.is = "refused"
      BY <1>5, <2>2 DEF AssessAll, NoReport
    <3> QED
      BY <2>1, <3>1
  <2>3. CASE \A d \in Inventory : ClassOf[d] \in DOMAIN table
    <3>1. report' = [is |-> "made", gaps |-> [d \in Inventory |-> Unmet(d, table[ClassOf[d]], hour + skew)]]
      BY <1>5, <2>3 DEF AssessAll
    <3>2. \A d \in Inventory : Unmet(d, table[ClassOf[d]], hour + skew) \subseteq Gaps
      BY DEF Unmet
    <3>3. report'.is = "made" /\ report'.gaps \in [Inventory -> SUBSET Gaps]
      BY <3>1, <3>2
    <3> QED
      BY <2>1, <3>3
  <2> QED
    BY <2>2, <2>3
<1> QED
  BY <1>1, <1>2, <1>3, <1>4, <1>5 DEF RedundancyNext

-----------------------------------------------------------------------------
(* The types of the plan of a sweep.                                       *)

WalkSteps == {"start", "files", "stat", "readlink", "plan", "answered", "failed"}

(* Nothing that is, or was found, is younger than the clock. *)
PlanTimes ==
  /\ clock \in 0..MaxClock /\ stirs \in 0..MaxStirs
  /\ is \in [Nodes -> NodeKinds] /\ mtime \in [Nodes -> 0..clock] /\ dirTime \in [1..Children -> 0..clock]
  /\ walk.newest \in -1..clock /\ stirred \subseteq Nodes /\ blind \subseteq Nodes
(* What the walk has measured, child by child.                             *)
WalkTyped ==
  /\ DOMAIN walk = WalkFields
  /\ walk.at \in WalkSteps /\ walk.child \in 1..(Children + 1)
  /\ walk.at \in {"start", "files", "stat", "readlink"} => walk.child \in 1..Children
  /\ walk.listed \subseteq Inside(walk.child) /\ walk.count \in Nat
  /\ DOMAIN walk.measured = 1..(walk.child - 1)
  /\ walk.offers \subseteq 1..Children /\ walk.fresh \subseteq 1..Children /\ walk.offers \cap walk.fresh = {}

PlanTIInv == PlanTimes /\ WalkTyped

LEMMA PlanRecordsTyped == PlanTIInv => PlanTypes
  BY DEF PlanTIInv, PlanTimes, WalkTyped, WalkSteps, PlanTypes

LEMMA PlanInitTyped == PlanInit => PlanTIInv
<1> SUFFICES ASSUME PlanInit PROVE PlanTIInv
  OBVIOUS
<1>1. walk = NoWalk
  BY DEF PlanInit
<1>2. WalkTyped
  BY <1>1, PlanSweepAssumption DEF WalkTyped, NoWalk, WalkFields, WalkSteps
<1>3. PlanTimes
  BY <1>1, PlanSweepAssumption DEF PlanInit, PlanTimes, NoWalk
<1> QED
  BY <1>2, <1>3 DEF PlanTIInv

LEMMA PlanStepTyped == PlanTIInv /\ [PlanNext]_planVars => PlanTIInv'
<1> SUFFICES ASSUME PlanTIInv, [PlanNext]_planVars PROVE PlanTIInv'
  OBVIOUS
<1> USE PlanSweepAssumption DEF PlanTIInv
<1>1. CASE UNCHANGED planVars
  BY <1>1 DEF planVars, PlanTimes, WalkTyped, Inside
<1>2. CASE ClockTicks
  <2>1. clock' = clock + 1 /\ clock < MaxClock /\ UNCHANGED <<is, mtime, dirTime, walk, stirs, stirred, blind>>
    BY <1>2 DEF ClockTicks
  <2>2. clock \in Nat /\ clock' \in 0..MaxClock /\ \A t \in Int : t \in 0..clock => t \in 0..clock'
    BY <2>1 DEF PlanTimes
  <2>3. mtime' \in [Nodes -> 0..clock'] /\ dirTime' \in [1..Children -> 0..clock'] /\ walk'.newest \in -1..clock'
    BY <2>1, <2>2 DEF PlanTimes
  <2>4. PlanTimes'
    BY <2>1, <2>2, <2>3 DEF PlanTimes
  <2> QED
    BY <2>1, <2>4 DEF WalkTyped, Inside
<1>3. ASSUME NEW n \in Nodes, NEW kind \in NodeKinds, Stir(n, kind) PROVE PlanTIInv'
  <2>1. /\ stirs < MaxStirs /\ stirs' = stirs + 1
        /\ is' = [is EXCEPT ![n] = kind] /\ mtime' = [mtime EXCEPT ![n] = clock]
        /\ dirTime' = [dirTime EXCEPT ![ChildOf[n]] = clock] \/ dirTime' = dirTime
        /\ stirred' = stirred \cup {n} /\ UNCHANGED <<clock, walk, blind>>
    BY <1>3 DEF Stir
  <2>2. clock \in 0..clock
    BY DEF PlanTimes
  <2>3. dirTime' \in [1..Children -> 0..clock]
    BY <2>1, <2>2 DEF PlanTimes
  <2>4. mtime' \in [Nodes -> 0..clock] /\ is' \in [Nodes -> NodeKinds] /\ stirs' \in 0..MaxStirs
    BY <2>1, <2>2 DEF PlanTimes
  <2>5. PlanTimes'
    BY <2>1, <2>3, <2>4 DEF PlanTimes
  <2> QED
    BY <2>1, <2>5 DEF WalkTyped, Inside
<1>4. CASE StartWalk \/ WalkFails
  <2>1. UNCHANGED <<clock, is, mtime, dirTime, stirs, stirred, blind>>
    BY <1>4 DEF StartWalk, WalkFails
  <2>0. ASSUME NEW at \in {"files", "failed"}, walk' = [walk EXCEPT !.at = at], at = "files" => walk.at = "start"
        PROVE  WalkTyped' /\ walk'.newest = walk.newest
    <3>1. /\ walk'.at = at /\ walk'.child = walk.child /\ walk'.listed = walk.listed
          /\ walk'.count = walk.count /\ walk'.newest = walk.newest /\ walk'.measured = walk.measured
          /\ walk'.offers = walk.offers /\ walk'.fresh = walk.fresh /\ DOMAIN walk' = WalkFields
      BY <2>0 DEF WalkTyped, WalkFields
    <3> QED
      BY <2>0, <3>1 DEF WalkTyped, WalkSteps, Inside
  <2>2. WalkTyped' /\ walk'.newest = walk.newest
    <3>1. CASE StartWalk
      BY <2>0, <3>1 DEF StartWalk
    <3>2. CASE WalkFails
      BY <2>0, <3>2 DEF WalkFails
    <3> QED
      BY <1>4, <3>1, <3>2
  <2> QED
    BY <2>1, <2>2 DEF PlanTimes
<1>5. CASE SearchFiles \/ SearchLinks
  <2>1. PICK next \in {"stat", "readlink"}, kinds \in SUBSET NodeKinds : Search(kinds, next) /\ walk.at \in {"files", "stat"}
    <3>1. CASE SearchFiles
      <4>1. Search({"file"}, "stat") /\ walk.at = "files" /\ {"file"} \in SUBSET NodeKinds
        BY <3>1 DEF SearchFiles, NodeKinds
      <4> QED
        BY <4>1
    <3>2. CASE SearchLinks
      <4>1. /\ Search({"link", "dirlink"}, "readlink") /\ walk.at = "stat"
            /\ {"link", "dirlink"} \in SUBSET NodeKinds
        BY <3>2 DEF SearchLinks, NodeKinds
      <4> QED
        BY <4>1
    <3> QED
      BY <1>5, <3>1, <3>2
  <2>2. UNCHANGED <<clock, is, mtime, dirTime, stirs>> /\ stirred' \subseteq stirred
    BY <1>5 DEF SearchFiles, SearchLinks
  <2>3. PICK listed \in SUBSET Inside(walk.child) : walk' = [walk EXCEPT !.at = next, !.listed = listed]
    <3> DEFINE there == {n \in Inside(walk.child) : is[n] \in kinds}
    <3>1. PICK unreadable \in {{}, DeepNodes} : walk' = [walk EXCEPT !.at = next, !.listed = there \ unreadable]
      BY <2>1 DEF Search
    <3>2. there \ unreadable \in SUBSET Inside(walk.child)
      OBVIOUS
    <3> HIDE DEF there
    <3> QED
      BY <3>1, <3>2
  <2>4. blind' \subseteq Nodes
    BY <2>1 DEF Search, PlanTimes, Inside
  <2>5. WalkTyped' /\ walk'.newest = walk.newest
    BY <2>1, <2>3 DEF WalkTyped, WalkFields, WalkSteps, Inside
  <2> QED
    BY <2>2, <2>4, <2>5 DEF PlanTimes
<1>6. ASSUME NEW n \in Nodes, StatNode(n) PROVE PlanTIInv'
  <2>1. PICK count \in {walk.count, walk.count + 1}, newest \in {walk.newest, mtime[n]} :
          walk' = [walk EXCEPT !.listed = walk.listed \ {n}, !.count = count, !.newest = newest]
    <3>1. CASE Skipped(n)
      <4>1. walk' = [walk EXCEPT !.listed = walk.listed \ {n}, !.count = walk.count, !.newest = walk.newest]
        BY <3>1 DEF Skipped, WalkTyped, WalkFields
      <4> QED
        BY <4>1
    <3>2. CASE Seen1(n)
      BY <3>2 DEF Seen1
    <3> QED
      BY <1>6, <3>1, <3>2 DEF StatNode
  <2>2. UNCHANGED <<clock, is, mtime, dirTime, stirs, blind>> /\ stirred' \subseteq stirred
    BY <1>6 DEF StatNode
  <2>3. /\ walk'.at = walk.at /\ walk'.child = walk.child /\ walk'.listed = walk.listed \ {n}
        /\ walk'.count = count /\ walk'.newest = newest /\ walk'.measured = walk.measured
        /\ walk'.offers = walk.offers /\ walk'.fresh = walk.fresh /\ DOMAIN walk' = WalkFields
    BY <2>1 DEF WalkTyped, WalkFields
  <2>4. WalkTyped'
    BY <2>3 DEF WalkTyped, Inside
  <2>5. newest \in -1..clock
    BY DEF PlanTimes
  <2> QED
    BY <2>2, <2>3, <2>4, <2>5 DEF PlanTimes
<1>7. CASE MeasuredChild
  <2>1. PICK measured : /\ DOMAIN measured = 1..walk.child
                        /\ walk' = [walk EXCEPT !.at = IF walk.child = Children THEN "plan" ELSE "files",
                                      !.child = walk.child + 1, !.count = 0, !.newest = -1, !.measured = measured]
    <3> DEFINE found == [c \in 1..walk.child |->
                 IF c # walk.child THEN walk.measured[c]
                 ELSE [files |-> walk.count, newest |-> IF walk.newest = -1 THEN dirTime[c] ELSE walk.newest]]
    <3>1. /\ DOMAIN found = 1..walk.child
          /\ walk' = [walk EXCEPT !.at = IF walk.child = Children THEN "plan" ELSE "files",
                        !.child = walk.child + 1, !.count = 0, !.newest = -1, !.measured = found]
      BY <1>7 DEF MeasuredChild
    <3> HIDE DEF found
    <3> QED
      BY <3>1
  <2>2. /\ walk.at = "readlink" /\ walk.listed = {}
        /\ UNCHANGED <<clock, is, mtime, dirTime, stirs, stirred, blind>>
    BY <1>7 DEF MeasuredChild
  <2>3. /\ walk'.at = (IF walk.child = Children THEN "plan" ELSE "files") /\ walk'.child = walk.child + 1
        /\ walk'.count = 0 /\ walk'.newest = -1 /\ walk'.measured = measured /\ walk'.listed = {}
        /\ walk'.offers = walk.offers /\ walk'.fresh = walk.fresh /\ DOMAIN walk' = WalkFields
    BY <2>1, <2>2 DEF WalkTyped, WalkFields
  <2>4. WalkTyped'
    BY <2>1, <2>2, <2>3 DEF WalkTyped, WalkSteps
  <2>5. -1 \in -1..clock
    BY DEF PlanTimes
  <2> QED
    BY <2>2, <2>3, <2>4, <2>5 DEF PlanTimes
<1>8. CASE MakePlan
  <2> DEFINE many == {c \in 1..Children : walk.measured[c].files >= MinFiles}
             old  == {c \in 1..Children : clock - walk.measured[c].newest >= MinAge}
  <2>1. walk' = [walk EXCEPT !.at = "answered", !.now = clock, !.offers = many \cap old, !.fresh = many \ old]
        /\ UNCHANGED <<clock, is, mtime, dirTime, stirs, stirred, blind>>
    BY <1>8 DEF MakePlan
  <2>2. many \subseteq 1..Children
    OBVIOUS
  <2> HIDE DEF many, old
  <2>3. /\ walk'.at = "answered" /\ walk'.child = walk.child /\ walk'.listed = walk.listed
        /\ walk'.count = walk.count /\ walk'.newest = walk.newest /\ walk'.measured = walk.measured
        /\ walk'.offers = many \cap old /\ walk'.fresh = many \ old /\ DOMAIN walk' = WalkFields
    BY <2>1 DEF WalkTyped, WalkFields
  <2>4. WalkTyped'
    BY <2>2, <2>3 DEF WalkTyped, WalkSteps, Inside
  <2> QED
    BY <2>1, <2>3, <2>4 DEF PlanTimes
<1> QED
  BY <1>1, <1>2, <1>3, <1>4, <1>5, <1>6, <1>7, <1>8 DEF PlanNext

-----------------------------------------------------------------------------
(* The types of the GUI server. *)

GuiTIInv == GuiIInv /\ crowded \subseteq Servers

LEMMA GuiRecordsTyped == GuiTIInv => GuiTypes
  BY DEF GuiTIInv, GuiIInv, GuiShaped, GuiTypes

LEMMA GuiInitTyped == GuiInit => GuiTIInv
  BY GuiInitIsGood DEF GuiTIInv, GuiInit

LEMMA GuiStepTyped == GuiTIInv /\ [GuiNext]_guiVars => GuiTIInv'
<1> SUFFICES ASSUME GuiTIInv, [GuiNext]_guiVars PROVE (crowded \subseteq Servers)'
  BY GuiStepKeepsIt DEF GuiTIInv
<1>1. crowded' \subseteq crowded \cup Servers
  BY DEF GuiNext, guiVars, LaunchGui, UnderWay, OpenLooks, WriteGuiState, CheckPort, BindPort, InterruptGui,
         ClearGuiState, KillGui, StartStop, ReadGuiState, SignalGui, ForgetGui
<1> QED
  BY <1>1 DEF GuiTIInv

-----------------------------------------------------------------------------
(* The parts together.  What is invariant of each part is invariant of the   *)
(* whole, whose steps are steps of one part and leave the others alone.      *)

AllTyped ==
  /\ ImageIInv /\ DocTIInv /\ VolTIInv /\ FleetTIInv /\ SurveyTIInv /\ RecipeTIInv
  /\ BrokerTIInv /\ GuiTIInv /\ RedundancyTIInv /\ FindIInv /\ PlanTIInv

(* And what the promises need that the types do not. *)
AllKept == VolIInv /\ PagesIInv /\ ColdIInv /\ RedundancyIInv /\ PlanIInv

LEMMA AllTypedMeans == AllTyped => TypeOK
<1> SUFFICES ASSUME AllTyped PROVE TypeOK
  OBVIOUS
<1>1. ImageTypes
  BY DEF AllTyped, ImageIInv
<1> QED
  BY <1>1, DocRecordsTyped, VolRequestsTyped, FleetRecordsTyped, SurveyRecordsTyped, RecipeRecordsTyped,
     BrokerRecordsTyped, GuiRecordsTyped, RedundancyRecordsTyped, FindTypes, PlanRecordsTyped
  DEF AllTyped, TypeOK, FleetTIInv

LEMMA AllInitIsGood == Init => AllTyped /\ AllKept
<1> SUFFICES ASSUME Init PROVE AllTyped /\ AllKept
  OBVIOUS
<1>1. AllTyped
  BY ImageInitIsGood, DocInitTyped, VolInitTyped, FleetInitIsGood, FleetInitTyped, SurveyInitTyped,
     RecipeInitTyped, BrokerInitTyped, GuiInitTyped, RedundancyInitTyped, FindInit, PlanInitTyped
  DEF Init, AllTyped, FleetTIInv
<1>2. AllKept
  BY VolInitIsGood, PagesInitIsGood, ColdInitIsGood, RedundancyInitIsGood, PlanInitIsGood DEF Init, AllKept
<1> QED
  BY <1>1, <1>2

LEMMA PartsGoOn ==
  ASSUME [Next]_vars
  PROVE  /\ [ImageNext]_imageVars /\ [DocNext]_docVars /\ [VolNext]_volVars /\ [FleetNext]_fleetVars
         /\ [SurveyNext]_surveyVars /\ [RecipeNext]_recipeVars /\ [BrokerNext]_brokerVars /\ [GuiNext]_guiVars
         /\ [RedundancyNext]_redundancyVars /\ [DuplicateNext]_duplicateVars /\ [PlanNext]_planVars
<1>1. CASE UNCHANGED vars
  BY <1>1 DEF vars
<1>2. CASE Next
  BY <1>2 DEF Next, Rotating, Sorting, Browsing, Watching, Surveying, Finding, Brokering, Serving, Assessing,
              Comparing, Planning
<1> QED
  BY <1>1, <1>2

LEMMA AllStepKeepsIt == AllTyped /\ AllKept /\ [Next]_vars => AllTyped' /\ AllKept'
<1> SUFFICES ASSUME AllTyped, AllKept, [Next]_vars PROVE AllTyped' /\ AllKept'
  OBVIOUS
<1>1. AllTyped'
  BY PartsGoOn, ImageStepKeepsIt, DocStepTyped, VolStepTyped, FleetStepTyped, SurveyStepTyped, RecipeStepTyped,
     BrokerStepTyped, GuiStepTyped, RedundancyStepTyped, FindNext, PlanStepTyped DEF AllTyped
<1>2. AllKept'
  BY PartsGoOn, VolStepKeepsIt, PagesStepKeepsIt, ColdStepKeepsIt, RedundancyStepKeepsIt, PlanStepKeepsIt DEF AllKept
<1> QED
  BY <1>1, <1>2

LEMMA AllHolds == Spec => [](AllTyped /\ AllKept)
<1> QED
  BY AllInitIsGood, AllStepKeepsIt, PTL DEF Spec

(* Every part keeps its types, whichever part a behaviour is about. *)
THEOREM TypesAreKept == Spec => []TypeOK
<1> QED
  BY AllHolds, AllTypedMeans, PTL

(* The promises of the parts hold of the one system as well: what rotation   *)
(* keeps, what the pages show, what the commands answer, what the broker     *)
(* calls ready and what the state file names.                                *)
THEOREM PromisesAreKept ==
  Spec => [](/\ KeepsEnough /\ StatusIsHonest /\ FullIsNeverGreen /\ PagesAgree /\ MovableIsCold
             /\ HolderIsSeen /\ RecipeIsTrue /\ ReadyIsApplied /\ ServerIsKnown /\ CoveredIsProven
             /\ FindingIsTrue /\ StakeCoversFinding /\ OfferedIsLeftAlone)
<1> DEFINE Promises ==
             /\ KeepsEnough /\ StatusIsHonest /\ FullIsNeverGreen /\ PagesAgree /\ MovableIsCold
             /\ HolderIsSeen /\ RecipeIsTrue /\ ReadyIsApplied /\ ServerIsKnown /\ CoveredIsProven
             /\ FindingIsTrue /\ StakeCoversFinding /\ OfferedIsLeftAlone
<1>1. AllTyped /\ AllKept => Promises
  <2> SUFFICES ASSUME AllTyped, AllKept PROVE Promises
    OBVIOUS
  <2>1. KeepsEnough
    BY EnoughIsKept DEF AllTyped, ImageIInv
  <2>2. StatusIsHonest /\ PagesAgree /\ MovableIsCold /\ CoveredIsProven /\ OfferedIsLeftAlone
    BY DEF AllKept, VolIInv, PagesIInv, ColdIInv, RedundancyIInv, PlanIInv
  <2>3. HolderIsSeen /\ RecipeIsTrue /\ ReadyIsApplied
    BY DEF AllTyped, SurveyTIInv, HolderIInv, RecipeTIInv, RecipeIInv, BrokerTIInv, BrokerIInv
  <2>4. FullIsNeverGreen
    BY DEF AllTyped, FleetTIInv, FleetIInv, Gathering, Telling, Exempt, Told, NotGreen, ToBeAsked, FullIsNeverGreen
  <2>5. ServerIsKnown
    BY DEF AllTyped, GuiTIInv, GuiIInv, ListensKnown, ServerIsKnown, RunningServer
  <2>6. FindingIsTrue /\ StakeCoversFinding
    BY FindingFollows, StakeFollows DEF AllTyped
  <2> QED
    BY <2>1, <2>2, <2>3, <2>4, <2>5, <2>6
<1> QED
  BY <1>1, AllHolds, PTL

(* And with one run of document-sorter at a time, those of its index. *)
THEOREM IndexIsAlwaysKept == ASSUME OneRun PROVE Spec => [](IndexIsTrue /\ FiledIsRecoverable)
<1>1. Init => DocIInv
  BY DocInitIsGood DEF Init
<1>2. DocIInv /\ [Next]_vars => DocIInv'
  BY PartsGoOn, DocStepKeepsIt
<1>3. DocIInv => IndexIsTrue /\ FiledIsRecoverable
  BY DEF DocIInv, DocShapes, Settled, Gone, Recoverable, InTheArchive, InTheTree, IndexIsTrue, FiledIsRecoverable
<1> QED
  BY <1>1, <1>2, <1>3, PTL DEF Spec

(* Nor does the whole remove an image that is in use but in those windows. *)
THEOREM ImagesAreAlwaysSpared == Spec => LiveIsRemovedOnlyInWindow
<1>1. ImageIInv /\ [Next]_vars => [RemovedInWindow]_imageVars
  BY PartsGoOn, RemovalsAreInWindow
<1>2. AllTyped => ImageIInv
  BY DEF AllTyped
<1>3. Spec => [][RemovedInWindow]_imageVars
  BY <1>1, <1>2, AllHolds, PTL DEF Spec
<1> QED
  BY <1>3 DEF LiveIsRemovedOnlyInWindow, RemovedInWindow
=============================================================================
