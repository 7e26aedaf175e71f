----------------------------- MODULE FilesProofs ----------------------------
(***************************************************************************)
(* Requests on a project's files leave a tree, whatever runs together and  *)
(* wherever it ends; a delete's staging directory is its own.              *)
(***************************************************************************)
EXTENDS ProjectFiles, SequenceTheorems, TLAPS

LEMMA PathShape ==
  ASSUME NEW names \in Paths
  PROVE  /\ names \in Seq(Public) /\ Len(names) \in {1, 2}
         /\ Head(names) \in Public /\ Last(names) \in Public
         /\ names[1] \in Public
<1>1. PICK m \in 0..2 : names \in [1..m -> Public]
  BY PathsAssumption DEF BoundedSeq, SeqOf
<1>2. names # <<>>
  BY PathsAssumption
<1>3. names \in Seq(Public) /\ Len(names) = m
  BY <1>1
<1>4. m # 0
  BY <1>2, <1>3, EmptySeq
<1>5. m \in {1, 2}
  BY <1>4
<1>6. names[1] \in Public /\ names[m] \in Public
  BY <1>1, <1>5
<1> QED
  BY <1>3, <1>5, <1>6 DEF Last

LEMMA FollowedIsPath ==
  ASSUME NEW names \in Paths
  PROVE  Followed(names) \in Paths
  BY PathShape, LinksAssumption DEF Followed

(* What an entry name leads to. *)
LEMMA AtIsEntry ==
  ASSUME NEW d, NEW n
  PROVE  /\ At(d, n) \in Inodes \cup {None}
         /\ At(d, n) # None => dir[At(d, n)] = d /\ name[At(d, n)] = n
         /\ At(d, n) = None => \A i \in Inodes : dir[i] # d \/ name[i] # n
<1>1. CASE \E i \in Inodes : dir[i] = d /\ name[i] = n
  <2>1. At(d, n) \in Inodes /\ dir[At(d, n)] = d /\ name[At(d, n)] = n
    BY <1>1 DEF At
  <2> QED
    BY <2>1, InodesAssumption
<1>2. CASE ~\E i \in Inodes : dir[i] = d /\ name[i] = n
  BY <1>2 DEF At
<1> QED
  BY <1>1, <1>2

LEMMA ParentIsInode ==
  ASSUME NEW names
  PROVE  Parent(names) \in Inodes \cup {None}
  BY AtIsEntry, InodesAssumption DEF Parent, Follow

Grown == IsTree(kind, dir, name)

LEMMA NewGrows ==
  ASSUME Grown, NEW i \in Inodes \ {Root}, kind[i] = "free", NEW what \in {"dir", "file", "link"},
         NEW d \in Inodes, IsDir(d), NEW n \in Names, At(d, n) = None, New(i, what, d, n)
  PROVE  Grown'
<1>1. \A j \in Inodes : dir[j] # i
  BY InodesAssumption DEF Grown, IsTree
<1>2. \A j \in Inodes : dir[j] # d \/ name[j] # n
  BY AtIsEntry
<1>3. /\ kind' = [kind EXCEPT ![i] = what] /\ dir' = [dir EXCEPT ![i] = d]
      /\ name' = [name EXCEPT ![i] = n]
  BY DEF New, Put
<1> QED
  BY <1>1, <1>2, <1>3, InodesAssumption DEF Grown, IsTree, IsDir

LEMMA DropGrows ==
  ASSUME Grown, NEW i, i \in Inodes => dir[i] # None /\ Within(i) = {}, Drop(i)
  PROVE  Grown'
<1>1. /\ kind' = [kind EXCEPT ![i] = "free"] /\ dir' = [dir EXCEPT ![i] = None]
      /\ name' = [name EXCEPT ![i] = None]
  BY DEF Drop, New, Put
<1>2. CASE i \in Inodes
  <2>1. \A j \in Inodes : dir[j] # i
    BY <1>2 DEF Within
  <2>2. i # Root
    BY <1>2, InodesAssumption DEF Grown, IsTree
  <2> QED
    BY <1>1, <1>2, <2>1, <2>2, InodesAssumption DEF Grown, IsTree
<1>3. CASE i \notin Inodes
  BY <1>1, <1>3 DEF Grown, IsTree
<1> QED
  BY <1>2, <1>3

LEMMA PutGrows ==
  ASSUME Grown, NEW i \in Inodes, dir[i] # None, NEW d \in Inodes, IsDir(d), NEW n \in Names,
         At(d, n) = None, Put(i, d, n), kind' = kind
  PROVE  Grown'
<1>1. \A j \in Inodes : dir[j] # d \/ name[j] # n
  BY AtIsEntry
<1>2. dir' = [dir EXCEPT ![i] = d] /\ name' = [name EXCEPT ![i] = n]
  BY DEF Put
<1> QED
  BY <1>1, <1>2, InodesAssumption DEF Grown, IsTree, IsDir

LEMMA FileIsChildless ==
  ASSUME Grown, NEW i \in Inodes, kind[i] # "dir"
  PROVE  Within(i) = {}
  BY InodesAssumption DEF Grown, IsTree, Within

(* The last entry in hand goes, or changes. *)
LEMMA TopGoes ==
  ASSUME NEW S, NEW s \in Seq(S), s # <<>>
  PROVE  /\ Len(s) \in Nat \ {0}
         /\ Front(s) \in Seq(S) /\ Len(Front(s)) = Len(s) - 1
         /\ \A k \in 1..(Len(s) - 1) : Front(s)[k] = s[k]
<1> DEFINE m == Len(s) - 1
<1>0. Len(s) \in Nat \ {0}
  BY EmptySeq
<1>1. m \in Nat /\ 1 \in Int /\ m \in Int /\ m - 1 + 1 = m
  BY <1>0
<1>2. \A i \in 1..m : s[i] \in S
  BY <1>0, ElementOfSeq
<1> HIDE DEF m
<1>3. /\ SubSeq(s, 1, m) \in Seq(S)
      /\ Len(SubSeq(s, 1, m)) = IF 1 <= m THEN m - 1 + 1 ELSE 0
      /\ \A i \in 1..(m - 1 + 1) : SubSeq(s, 1, m)[i] = s[1 + i - 1]
  BY <1>1, <1>2, SubSeqProperties
<1>4. Len(SubSeq(s, 1, m)) = m /\ \A i \in 1..m : SubSeq(s, 1, m)[i] = s[i]
  BY <1>1, <1>3
<1> QED
  BY <1>0, <1>3, <1>4 DEF Front, m

LEMMA TopChanges ==
  ASSUME NEW S, NEW s \in Seq(S), s # <<>>, NEW f \in S
  PROVE  LET t == Append(Front(s), f) IN
         /\ t \in Seq(S) /\ Len(t) = Len(s) /\ t[Len(s)] = f /\ t # <<>>
         /\ \A k \in 1..(Len(s) - 1) : t[k] = s[k]
<1>1. Len(s) \in Nat \ {0} /\ Front(s) \in Seq(S) /\ Len(Front(s)) = Len(s) - 1
      /\ \A k \in 1..(Len(s) - 1) : Front(s)[k] = s[k]
  BY TopGoes
<1> QED
  BY <1>1, AppendProperties

-----------------------------------------------------------------------------
(* The invariant *)

LocalTypes ==
  /\ pc \in [Procs -> {"idle", "check", "parents", "mkstemp", "replace", "make",
                       "rename", "anchor", "delete"}]
  /\ op \in [Procs -> Ops]
  /\ path \in [Procs -> Paths] /\ to \in [Procs -> Paths]
  /\ tmp \in [Procs -> Private \cup {None}]
  /\ frames \in [Procs -> Seq(Frame)]
  /\ requests \in [Procs -> Nat] /\ (\A p \in Procs : requests[p] <= MaxRequests[p])
  /\ links \in 0..MaxLinks /\ failed \in BOOLEAN

(* A temporary name is of files only, so that no directory is replaced. *)
OwnsTemp(p) ==
  pc[p] = "replace" =>
    /\ tmp[p] \in Private
    /\ \A i \in Inodes : dir[i] # None /\ name[i] = tmp[p] => kind[i] = "file"

(* A delete knows the inodes of the entries it is in the middle of, and only *)
(* the innermost is not yet down to its children.                            *)
Sure(f) ==
  /\ f.at # "stat" => f.ino \in Inodes
  /\ f.at \in {"move", "verify", "list", "children", "unstage"} => f.stage \in Inodes

KnowsEntries(p) ==
  /\ pc[p] = "delete" => frames[p] # <<>>
  /\ \A k \in 1..Len(frames[p]) : Sure(frames[p][k])
  /\ \A k \in 1..(Len(frames[p]) - 1) : frames[p][k].at = "children"

(* Its staging directory is its own, and has no target yet. *)
AtMove(p) == pc[p] = "delete" /\ Top(p).at = "move"

OwnsStage(p) ==
  AtMove(p) => \A i \in Inodes : dir[i] # Top(p).stage \/ name[i] # "target"

Mine(p) == OwnsTemp(p) /\ KnowsEntries(p) /\ OwnsStage(p)

StagesApart ==
  \A p, q \in Procs : p # q /\ AtMove(p) /\ AtMove(q) => Top(p).stage # Top(q).stage

FileIInv == Grown /\ LocalTypes /\ (\A p \in Procs : Mine(p)) /\ StagesApart

(* What a step of p may do to the tree, as the others see it. *)
QuietTree(p) ==
  \A i \in Inodes : dir'[i] # None =>
    \/ dir'[i] = dir[i] /\ name'[i] = name[i] /\ kind'[i] = kind[i]
    \/ name'[i] \in Public \cup FreshNames
    \/ name'[i] = "target" /\ AtMove(p) /\ dir'[i] = Top(p).stage

OthersSame(p) ==
  \A q \in Procs \ {p} : pc'[q] = pc[q] /\ tmp'[q] = tmp[q] /\ frames'[q] = frames[q]

LEMMA OthersStay ==
  ASSUME FileIInv, NEW p \in Procs, QuietTree(p), OthersSame(p), NEW q \in Procs \ {p}
  PROVE  Mine(q)' /\ (AtMove(q)' <=> AtMove(q)) /\ Top(q)' = Top(q)
<1>1. Mine(q) /\ pc'[q] = pc[q] /\ tmp'[q] = tmp[q] /\ frames'[q] = frames[q]
  BY DEF FileIInv, OthersSame
<1>2. Top(q)' = Top(q) /\ (AtMove(q)' <=> AtMove(q))
  BY <1>1 DEF Top, Last, AtMove
<1>3. OwnsTemp(q)'
  <2> SUFFICES ASSUME pc[q] = "replace"
               PROVE  /\ tmp[q] \in Private
                      /\ \A i \in Inodes : dir'[i] # None /\ name'[i] = tmp[q] => kind'[i] = "file"
    BY <1>1 DEF OwnsTemp
  <2>1. tmp[q] \in Private /\ \A i \in Inodes : dir[i] # None /\ name[i] = tmp[q] => kind[i] = "file"
    BY <1>1 DEF Mine, OwnsTemp
  <2>2. tmp[q] \notin Public \cup FreshNames \cup {"target"}
    BY <2>1, NamesAssumption DEF FreshNames
  <2> QED
    BY <2>1, <2>2 DEF QuietTree
<1>4. KnowsEntries(q)'
  BY <1>1 DEF Mine, KnowsEntries
<1>5. OwnsStage(q)'
  <2> SUFFICES ASSUME AtMove(q), NEW i \in Inodes, dir'[i] = Top(q).stage, name'[i] = "target"
               PROVE  FALSE
    BY <1>2 DEF OwnsStage
  <2>1. Top(q).stage \in Inodes
    <3>1. frames[q] \in Seq(Frame) /\ frames[q] # <<>>
      BY <1>1 DEF Mine, KnowsEntries, AtMove, FileIInv, LocalTypes
    <3>2. Len(frames[q]) \in 1..Len(frames[q])
      BY <3>1, EmptySeq
    <3> QED
      BY <1>1, <3>2 DEF Mine, KnowsEntries, AtMove, Top, Last, Sure
  <2>2. "target" \notin Public \cup FreshNames
    BY NamesAssumption DEF FreshNames
  <2>3. AtMove(p) => Top(p).stage # Top(q).stage
    BY DEF FileIInv, StagesApart
  <2>4. dir[i] # Top(q).stage \/ name[i] # "target"
    BY <1>1 DEF Mine, OwnsStage
  <2> QED
    BY <2>1, <2>2, <2>3, <2>4, InodesAssumption DEF QuietTree
<1> QED
  BY <1>1, <1>2, <1>3, <1>4, <1>5 DEF Mine

(* So a step of p has to show what it does itself. *)
LEMMA StepIsGood ==
  ASSUME FileIInv, NEW p \in Procs, QuietTree(p), OthersSame(p), Grown', LocalTypes', Mine(p)',
         AtMove(p)' => \A q \in Procs \ {p} : AtMove(q) => Top(q).stage # Top(p)'.stage
  PROVE  FileIInv'
<1>1. \A q \in Procs : Mine(q)'
  BY OthersStay
<1>2. StagesApart'
  <2> SUFFICES ASSUME NEW q \in Procs, NEW r \in Procs, q # r, AtMove(q)', AtMove(r)'
               PROVE  Top(q)'.stage # Top(r)'.stage
    BY DEF StagesApart
  <2>1. CASE q # p /\ r # p
    BY <2>1, OthersStay DEF FileIInv, StagesApart
  <2>2. CASE q = p
    <3>1. r \in Procs \ {p} /\ AtMove(r) /\ Top(r)' = Top(r)
      BY <2>2, OthersStay
    <3> QED
      BY <2>2, <3>1
  <2>3. CASE r = p
    <3>1. q \in Procs \ {p} /\ AtMove(q) /\ Top(q)' = Top(q)
      BY <2>3, OthersStay
    <3> QED
      BY <2>3, <3>1
  <2> QED
    BY <2>1, <2>2, <2>3
<1> QED
  BY <1>1, <1>2 DEF FileIInv

LEMMA SameTreeIsQuiet == ASSUME NEW p, UNCHANGED tree PROVE QuietTree(p) /\ (Grown => Grown')
  BY DEF tree, QuietTree, Grown, IsTree

(* A request that is answered, or fails, is forgotten. *)
LEMMA AnswersAreGood ==
  ASSUME FileIInv, NEW p \in Procs, Forget(p), failed' \in BOOLEAN, UNCHANGED <<requests, links>>,
         QuietTree(p), Grown'
  PROVE  FileIInv'
<1>1. LocalTypes'
  <2>1. AnyPath \in Paths /\ AnyOp \in Ops /\ <<>> \in Seq(Frame)
    BY PathsAssumption DEF AnyPath, AnyOp, Ops
  <2> QED
    BY <2>1 DEF FileIInv, LocalTypes, Forget, Goto
<1>2. OthersSame(p)
  BY DEF FileIInv, LocalTypes, OthersSame, Forget, Goto
<1>3. pc'[p] = "idle" /\ frames'[p] = <<>>
  BY DEF FileIInv, LocalTypes, Forget, Goto
<1>4. Mine(p)' /\ ~AtMove(p)'
  BY <1>3 DEF Mine, OwnsTemp, KnowsEntries, OwnsStage, AtMove
<1> QED
  BY <1>1, <1>2, <1>4, StepIsGood

(* An entry is made, or goes. *)
LEMMA NewIsQuiet ==
  ASSUME Grown, NEW p, NEW i \in Inodes, NEW what, NEW d, NEW n \in Public \cup FreshNames, New(i, what, d, n)
  PROVE  QuietTree(p)
<1>1. /\ kind' = [kind EXCEPT ![i] = what] /\ dir' = [dir EXCEPT ![i] = d]
      /\ name' = [name EXCEPT ![i] = n]
  BY DEF New, Put
<1> QED
  BY <1>1 DEF QuietTree, Grown, IsTree

LEMMA DropIsQuiet ==
  ASSUME Grown, NEW p, NEW i, Drop(i)
  PROVE  QuietTree(p)
<1>1. /\ kind' = [kind EXCEPT ![i] = "free"] /\ dir' = [dir EXCEPT ![i] = None]
      /\ name' = [name EXCEPT ![i] = None]
  BY DEF Drop, New, Put
<1> QED
  BY <1>1 DEF QuietTree, Grown, IsTree

LEMMA RoomIsThere ==
  ASSUME Room
  PROVE  /\ AnInode \in Inodes \ {Root} /\ kind[AnInode] = "free" /\ \A p \in Procs : AnInode \notin Held(p)
         /\ AName \in FreshNames /\ AName \in Names
         /\ \A d : At(d, AName) = None
<1>1. AnInode \in FreshInodes /\ AName \in FreshNames
  BY DEF Room, AnInode, AName
<1>2. \A i \in Inodes : name[i] # AName
  BY <1>1 DEF FreshNames
<1>3. \A d : At(d, AName) = None
  BY <1>2 DEF At
<1> QED
  BY <1>1, <1>3 DEF FreshInodes, FreshNames, Names

LEMMA RootIsDir == Grown => IsDir(Root) /\ Root \in Inodes
  BY InodesAssumption DEF Grown, IsTree, IsDir

(* A request goes on to its next call, before it holds anything. *)
LEMMA GoesOnWell ==
  ASSUME FileIInv, NEW p \in Procs, NEW step \in {"check", "parents", "mkstemp", "make", "rename", "anchor"},
         Goto(p, step), path' \in [Procs -> Paths], UNCHANGED <<op, to, tmp, frames, failed, requests, links>>,
         QuietTree(p), Grown'
  PROVE  FileIInv'
<1>1. LocalTypes'
  BY DEF FileIInv, LocalTypes, Goto
<1>2. OthersSame(p) /\ pc'[p] = step
  BY DEF FileIInv, LocalTypes, OthersSame, Goto
<1>3. Mine(p)' /\ ~AtMove(p)'
  BY <1>2 DEF FileIInv, Mine, OwnsTemp, KnowsEntries, OwnsStage, AtMove
<1> QED
  BY <1>1, <1>2, <1>3, StepIsGood

LEMMA RequestsAreGood ==
  ASSUME FileIInv, NEW p \in Procs, NEW what \in Ops, NEW from \in Paths, NEW dest \in Paths,
         Request(p, what, from, dest)
  PROVE  FileIInv'
<1> USE DEF Request
<1>1. LocalTypes'
  <2>1. requests' \in [Procs -> Nat] /\ \A q \in Procs : requests'[q] <= MaxRequests[q]
    <3>1. requests \in [Procs -> Nat] /\ requests[p] \in Nat /\ MaxRequests[p] \in Nat
      BY RequestBounds DEF FileIInv, LocalTypes
    <3>2. requests' = [requests EXCEPT ![p] = requests[p] + 1] /\ requests[p] + 1 <= MaxRequests[p]
      BY <3>1
    <3> QED
      BY <3>1, <3>2 DEF FileIInv, LocalTypes
  <2> QED
    BY <2>1 DEF FileIInv, LocalTypes, Goto
<1>2. OthersSame(p) /\ pc'[p] \in {"anchor", "check"}
  BY DEF FileIInv, LocalTypes, OthersSame, Goto
<1>3. Mine(p)' /\ ~AtMove(p)'
  BY <1>2 DEF FileIInv, Mine, OwnsTemp, KnowsEntries, OwnsStage, AtMove
<1>4. QuietTree(p) /\ Grown'
  BY SameTreeIsQuiet DEF FileIInv
<1> QED
  BY <1>1, <1>2, <1>3, <1>4, StepIsGood

LEMMA FailuresAreGood ==
  ASSUME FileIInv, NEW p \in Procs, Answer(p) \/ Fail(p), UNCHANGED <<requests, links>>, QuietTree(p), Grown'
  PROVE  FileIInv'
<1>1. Forget(p) /\ failed' \in BOOLEAN
  BY DEF Answer, Fail, FileIInv, LocalTypes
<1> QED
  BY <1>1, AnswersAreGood

LEMMA EditsAreGood ==
  ASSUME FileIInv, NEW p \in Procs, EditStep(p)
  PROVE  FileIInv'
<1>0. Grown /\ path[p] \in Paths /\ to[p] \in Paths /\ Public \subseteq Names /\ Mine(p)
  BY DEF FileIInv, LocalTypes, Names
<1>1. CASE CheckTarget(p)
  <2> DEFINE full == Followed(path[p])
  <2>1. full \in Paths
    BY <1>0, FollowedIsPath
  <2>2. UNCHANGED tree /\ UNCHANGED <<requests, links>>
    BY <1>1 DEF CheckTarget
  <2>3. QuietTree(p) /\ Grown'
    BY <1>0, <2>2, SameTreeIsQuiet
  <2>4. CASE Fail(p)
    BY <2>2, <2>3, <2>4, FailuresAreGood
  <2>5. CASE /\ path' = [path EXCEPT ![p] = full] /\ Goto(p, "parents")
             /\ UNCHANGED <<op, to, tmp, frames, failed>>
    <3>1. path' \in [Procs -> Paths]
      BY <2>1, <2>5 DEF FileIInv, LocalTypes
    <3> QED
      BY <2>2, <2>3, <2>5, <3>1, GoesOnWell
  <2> QED
    BY <1>1, <2>4, <2>5 DEF CheckTarget
<1>2. CASE MakeParents(p)
  <2>1. UNCHANGED <<requests, links>>
    BY <1>2 DEF MakeParents
  <2>2. CASE Fail(p) /\ UNCHANGED tree
    BY <1>0, <2>1, <2>2, SameTreeIsQuiet, FailuresAreGood
  <2>3. ASSUME NEW step \in {"mkstemp", "make"}, Goto(p, step), UNCHANGED <<op, path, to, tmp, frames, failed>>,
               QuietTree(p), Grown'
        PROVE  FileIInv'
    <3>1. path' \in [Procs -> Paths]
      BY <2>3 DEF FileIInv, LocalTypes
    <3> QED
      BY <2>1, <2>3, <3>1, GoesOnWell
  <2>4. PICK step \in {"mkstemp", "make"} : step = IF op[p] = "write" THEN "mkstemp" ELSE "make"
    OBVIOUS
  <2>5. CASE UNCHANGED tree /\ Goto(p, step) /\ UNCHANGED <<op, path, to, tmp, frames, failed>>
    BY <1>0, <2>3, <2>5, SameTreeIsQuiet
  <2>6. CASE /\ At(Root, Head(path[p])) = None /\ Room /\ New(AnInode, "dir", Root, Head(path[p]))
             /\ Goto(p, step) /\ UNCHANGED <<op, path, to, tmp, frames, failed>>
    <3>1. Head(path[p]) \in Public
      BY <1>0, PathShape
    <3>2. Grown'
      BY <1>0, <2>6, <3>1, RoomIsThere, RootIsDir, NewGrows
    <3>3. QuietTree(p)
      BY <1>0, <2>6, <3>1, RoomIsThere, NewIsQuiet
    <3> QED
      BY <2>3, <2>6, <3>2, <3>3
  <2> QED
    BY <1>2, <2>2, <2>4, <2>5, <2>6 DEF MakeParents
<1>3. CASE MakeTemp(p)
  <2> DEFINE d == Parent(path[p])
  <2>1. UNCHANGED <<requests, links>> /\ d \in Inodes \cup {None}
    BY <1>3, ParentIsInode DEF MakeTemp
  <2>2. CASE Fail(p) /\ UNCHANGED tree
    BY <1>0, <2>1, <2>2, SameTreeIsQuiet, FailuresAreGood
  <2>3. CASE /\ IsDir(d) /\ Room /\ New(AnInode, "file", d, AName) /\ tmp' = [tmp EXCEPT ![p] = AName]
             /\ Goto(p, "replace") /\ UNCHANGED <<op, path, to, frames, failed>>
    <3>1. d \in Inodes
      BY <2>1, <2>3 DEF IsDir
    <3> HIDE DEF d
    <3>2. Grown' /\ QuietTree(p)
      BY <1>0, <2>3, <3>1, RoomIsThere, NewGrows, NewIsQuiet
    <3>3. AName \in Private /\ \A i \in Inodes : name[i] # AName
      BY <2>3, RoomIsThere DEF FreshNames
    <3>4. LocalTypes'
      BY <2>1, <2>3, <3>3 DEF FileIInv, LocalTypes, Goto
    <3>5. OthersSame(p) /\ pc'[p] = "replace" /\ tmp'[p] = AName
      BY <2>3 DEF FileIInv, LocalTypes, OthersSame, Goto
    <3>6. \A i \in Inodes : name'[i] = AName => kind'[i] = "file"
      <4>1. name' = [name EXCEPT ![AnInode] = AName] /\ kind' = [kind EXCEPT ![AnInode] = "file"]
        BY <2>3 DEF New, Put
      <4> QED
        BY <1>0, <3>3, <4>1 DEF Grown, IsTree
    <3>7. Mine(p)' /\ ~AtMove(p)'
      BY <1>0, <2>3, <3>3, <3>5, <3>6 DEF Mine, OwnsTemp, KnowsEntries, OwnsStage, AtMove
    <3> QED
      BY <3>2, <3>4, <3>5, <3>7, StepIsGood
  <2> QED
    BY <1>3, <2>2, <2>3 DEF MakeTemp
<1>4. CASE ReplaceTarget(p)
  <2> DEFINE d == Parent(path[p])
             t == IF IsDir(d) THEN At(d, tmp[p]) ELSE None
             old == IF IsDir(d) THEN At(d, Last(path[p])) ELSE None
  <2>1. UNCHANGED <<requests, links>> /\ d \in Inodes \cup {None} /\ Last(path[p]) \in Public
    BY <1>0, <1>4, ParentIsInode, PathShape DEF ReplaceTarget
  <2>2. tmp[p] \in Private /\ tmp[p] \notin Public
        /\ \A i \in Inodes : dir[i] # None /\ name[i] = tmp[p] => kind[i] = "file"
    BY <1>0, <1>4, NamesAssumption DEF ReplaceTarget, Mine, OwnsTemp
  <2>3. t # None => t \in Inodes /\ IsDir(d) /\ d \in Inodes /\ dir[t] = d /\ name[t] = tmp[p] /\ kind[t] = "file"
    BY <2>1, <2>2, AtIsEntry, InodesAssumption DEF IsDir
  <2>4. old # None => old \in Inodes /\ dir[old] = d /\ name[old] = Last(path[p])
    BY <2>1, AtIsEntry
  <2>5. old = None /\ IsDir(d) => \A i \in Inodes : dir[i] # d \/ name[i] # Last(path[p])
    BY AtIsEntry
  <2>6. t # None => t # old
    BY <2>1, <2>2, <2>3, <2>4
  <2>7. CASE /\ t # None /\ ~IsDir(old)
             /\ kind' = [i \in Inodes |-> IF i = old THEN "free" ELSE kind[i]]
             /\ dir' = [i \in Inodes |-> IF i = t THEN d ELSE IF i = old THEN None ELSE dir[i]]
             /\ name' = [i \in Inodes |-> IF i = t THEN Last(path[p]) ELSE IF i = old THEN None ELSE name[i]]
             /\ Answer(p)
    <3>1. PICK l \in Public : l = Last(path[p])
      BY <2>1
    <3>2. old \in Inodes => kind[old] # "dir"
      BY <2>7, InodesAssumption DEF IsDir
    <3>3. t # Root /\ old # Root /\ d # old
      BY <1>0, <2>3, <2>4, <2>7, <3>2, InodesAssumption DEF Grown, IsTree, IsDir
    <3> HIDE DEF d, t, old
    <3>4. \A i \in Inodes : dir[i] # None => dir[i] # old
      BY <1>0, <3>2, InodesAssumption DEF Grown, IsTree
    <3>5. \A i \in Inodes : i # old => dir[i] # d \/ name[i] # l
      BY <1>0, <2>3, <2>4, <2>5, <2>7, <3>1, InodesAssumption DEF Grown, IsTree
    <3>6. Grown'
      BY <1>0, <2>3, <2>6, <2>7, <3>1, <3>2, <3>3, <3>4, <3>5, InodesAssumption DEF Grown, IsTree, IsDir
    <3>7. QuietTree(p)
      BY <2>6, <2>7, <3>1 DEF QuietTree
    <3> QED
      BY <2>1, <2>7, <3>6, <3>7, FailuresAreGood
  <2>8. CASE (IF t = None THEN UNCHANGED tree ELSE Drop(t)) /\ Fail(p)
    <3>1. CASE t = None
      BY <1>0, <2>1, <2>8, <3>1, SameTreeIsQuiet, FailuresAreGood
    <3>2. CASE t # None
      <4>1. Within(t) = {} /\ dir[t] # None
        BY <1>0, <2>3, <3>2, FileIsChildless, InodesAssumption
      <4> HIDE DEF t
      <4>2. Grown' /\ QuietTree(p)
        BY <1>0, <2>8, <3>2, <4>1, DropGrows, DropIsQuiet
      <4> QED
        BY <2>1, <2>8, <4>2, FailuresAreGood
    <3> QED
      BY <3>1, <3>2
  <2> QED
    BY <1>4, <2>7, <2>8 DEF ReplaceTarget
<1>5. CASE MakeDir(p)
  <2> DEFINE d == Parent(path[p])
  <2>1. UNCHANGED <<requests, links>> /\ d \in Inodes \cup {None} /\ Last(path[p]) \in Public
    BY <1>0, <1>5, ParentIsInode, PathShape DEF MakeDir
  <2>2. CASE Fail(p) /\ UNCHANGED tree
    BY <1>0, <2>1, <2>2, SameTreeIsQuiet, FailuresAreGood
  <2>3. CASE /\ IsDir(d) /\ At(d, Last(path[p])) = None /\ Room
             /\ New(AnInode, "dir", d, Last(path[p])) /\ Answer(p)
    <3>1. d \in Inodes
      BY <2>1, <2>3 DEF IsDir
    <3> HIDE DEF d
    <3>2. Grown' /\ QuietTree(p)
      BY <1>0, <2>1, <2>3, <3>1, RoomIsThere, NewGrows, NewIsQuiet
    <3> QED
      BY <2>1, <2>3, <3>2, FailuresAreGood
  <2> QED
    BY <1>5, <2>2, <2>3 DEF MakeDir
<1>6. CASE CheckRename(p)
  <2>1. UNCHANGED tree /\ UNCHANGED <<requests, links>>
    BY <1>6 DEF CheckRename
  <2>2. QuietTree(p) /\ Grown'
    BY <1>0, <2>1, SameTreeIsQuiet
  <2>3. CASE Fail(p)
    BY <2>1, <2>2, <2>3, FailuresAreGood
  <2>4. CASE Goto(p, "rename") /\ UNCHANGED <<op, path, to, tmp, frames, failed>>
    <3>1. path' \in [Procs -> Paths]
      BY <2>4 DEF FileIInv, LocalTypes
    <3> QED
      BY <2>1, <2>2, <2>4, <3>1, GoesOnWell
  <2> QED
    BY <1>6, <2>3, <2>4 DEF CheckRename
<1>7. CASE Rename(p)
  <2> DEFINE from == Parent(path[p])
             dest == Parent(to[p])
             i == IF IsDir(from) THEN At(from, Last(path[p])) ELSE None
  <2>1. UNCHANGED <<requests, links>> /\ dest \in Inodes \cup {None} /\ from \in Inodes \cup {None}
        /\ Last(to[p]) \in Public
    BY <1>0, <1>7, ParentIsInode, PathShape DEF Rename
  <2>2. CASE Fail(p) /\ UNCHANGED tree
    BY <1>0, <2>1, <2>2, SameTreeIsQuiet, FailuresAreGood
  <2>3. CASE /\ i # None /\ IsDir(dest) /\ At(dest, Last(to[p])) = None
             /\ Put(i, dest, Last(to[p])) /\ UNCHANGED kind /\ Answer(p)
    <3>1. dest \in Inodes /\ i \in Inodes /\ dir[i] # None
      BY <2>1, <2>3, AtIsEntry, InodesAssumption DEF IsDir
    <3> HIDE DEF from, dest, i
    <3>2. Grown'
      BY <1>0, <2>1, <2>3, <3>1, PutGrows
    <3>3. QuietTree(p)
      <4>1. dir' = [dir EXCEPT ![i] = dest] /\ name' = [name EXCEPT ![i] = Last(to[p])]
        BY <2>3 DEF Put
      <4> QED
        BY <1>0, <2>1, <2>3, <3>1, <4>1 DEF QuietTree, Grown, IsTree
    <3> QED
      BY <2>1, <2>3, <3>2, <3>3, FailuresAreGood
  <2> QED
    BY <1>7, <2>2, <2>3 DEF Rename
<1> QED
  BY <1>1, <1>2, <1>3, <1>4, <1>5, <1>6, <1>7 DEF EditStep

-----------------------------------------------------------------------------
(* Deletes *)

LEMMA TopIsFrame ==
  ASSUME FileIInv, NEW p \in Procs, pc[p] = "delete"
  PROVE  /\ frames[p] \in Seq(Frame) /\ frames[p] # <<>> /\ Len(frames[p]) \in Nat \ {0}
         /\ Top(p) = frames[p][Len(frames[p])] /\ Top(p) \in Frame /\ Sure(Top(p))
<1>1. frames[p] \in Seq(Frame) /\ frames[p] # <<>> /\ Mine(p)
  BY DEF FileIInv, LocalTypes, Mine, KnowsEntries
<1>2. Len(frames[p]) \in 1..Len(frames[p])
  BY <1>1, EmptySeq
<1>3. frames[p][Len(frames[p])] \in Frame
  BY <1>1, <1>2, ElementOfSeq
<1> QED
  BY <1>1, <1>2, <1>3 DEF Top, Last, Mine, KnowsEntries

(* What a delete holds now it goes on holding: entries above, and this one. *)
LEMMA HoldingsAreGood ==
  ASSUME FileIInv, NEW p \in Procs, pc[p] = "delete", NEW s \in Seq(Frame), s # <<>>,
         \A k \in 1..Len(s) : Sure(s[k]), \A k \in 1..(Len(s) - 1) : s[k].at = "children",
         LET f == s[Len(s)] IN
           f.at = "move" => /\ \A i \in Inodes : dir'[i] # f.stage \/ name'[i] # "target"
                            /\ \A q \in Procs \ {p} : AtMove(q) => Top(q).stage # f.stage,
         frames' = [frames EXCEPT ![p] = s], UNCHANGED <<pc, op, path, to, tmp, failed, requests, links>>,
         QuietTree(p), Grown'
  PROVE  FileIInv'
<1>1. frames'[p] = s /\ LocalTypes'
  BY DEF FileIInv, LocalTypes
<1>2. OthersSame(p)
  BY DEF FileIInv, LocalTypes, OthersSame
<1>3. Top(p)' = s[Len(s)] /\ (AtMove(p)' => s[Len(s)].at = "move")
  BY <1>1 DEF AtMove, Top, Last
<1>4. Mine(p)'
  BY <1>1, <1>3 DEF Mine, OwnsTemp, KnowsEntries, OwnsStage
<1>5. AtMove(p)' => \A q \in Procs \ {p} : AtMove(q) => Top(q).stage # Top(p)'.stage
  BY <1>3
<1> QED
  BY <1>1, <1>2, <1>4, <1>5, StepIsGood

LEMMA AdvancesAreGood ==
  ASSUME FileIInv, NEW p \in Procs, pc[p] = "delete", NEW f \in Frame, Sure(f),
         f.at = "move" => /\ \A i \in Inodes : dir'[i] # f.stage \/ name'[i] # "target"
                          /\ \A q \in Procs \ {p} : AtMove(q) => Top(q).stage # f.stage,
         Advance(p, f), UNCHANGED <<requests, links>>, QuietTree(p), Grown'
  PROVE  FileIInv'
<1> DEFINE s == Append(Front(frames[p]), f)
<1>1. frames[p] \in Seq(Frame) /\ frames[p] # <<>> /\ Len(frames[p]) \in Nat \ {0}
  BY TopIsFrame
<1>2. /\ s \in Seq(Frame) /\ Len(s) = Len(frames[p]) /\ s[Len(s)] = f /\ s # <<>>
      /\ \A k \in 1..(Len(s) - 1) : s[k] = frames[p][k]
  BY <1>1, TopChanges
<1>3. /\ \A k \in 1..Len(frames[p]) : Sure(frames[p][k])
      /\ \A k \in 1..(Len(frames[p]) - 1) : frames[p][k].at = "children"
  BY DEF FileIInv, Mine, KnowsEntries
<1>4. frames' = [frames EXCEPT ![p] = s] /\ UNCHANGED <<pc, op, path, to, tmp, failed, requests, links>>
  BY DEF Advance, FileIInv, LocalTypes
<1> HIDE DEF s
<1>5. \A k \in 1..Len(s) : Sure(s[k])
  <2> SUFFICES ASSUME NEW k \in 1..Len(s) PROVE Sure(s[k])
    OBVIOUS
  <2>1. CASE k = Len(s)
    BY <1>2, <2>1
  <2>2. CASE k # Len(s)
    <3>1. k \in 1..(Len(s) - 1) /\ k \in 1..Len(frames[p])
      BY <1>1, <1>2, <2>2
    <3> QED
      BY <1>2, <1>3, <3>1
  <2> QED
    BY <2>1, <2>2
<1>6. \A k \in 1..(Len(s) - 1) : s[k].at = "children"
  BY <1>2, <1>3
<1> QED
  BY <1>2, <1>4, <1>5, <1>6, HoldingsAreGood

(* An entry that is done leaves the one above at its children. *)
LEMMA DonesAreGood ==
  ASSUME FileIInv, NEW p \in Procs, pc[p] = "delete", Done(p),
         UNCHANGED <<requests, links>>, QuietTree(p), Grown'
  PROVE  FileIInv'
<1>1. frames[p] \in Seq(Frame) /\ frames[p] # <<>> /\ Len(frames[p]) \in Nat \ {0}
  BY TopIsFrame
<1>2. CASE Len(frames[p]) = 1
  BY <1>2, FailuresAreGood DEF Done
<1>3. CASE Len(frames[p]) # 1
  <2> DEFINE s == Front(frames[p])
  <2>1. /\ s \in Seq(Frame) /\ Len(s) = Len(frames[p]) - 1
        /\ \A k \in 1..Len(s) : s[k] = frames[p][k]
    BY <1>1, TopGoes
  <2>2. /\ \A k \in 1..Len(frames[p]) : Sure(frames[p][k])
        /\ \A k \in 1..(Len(frames[p]) - 1) : frames[p][k].at = "children"
    BY DEF FileIInv, Mine, KnowsEntries
  <2>3. frames' = [frames EXCEPT ![p] = s] /\ UNCHANGED <<pc, op, path, to, tmp, failed, requests, links>>
    BY <1>3 DEF Done, FileIInv, LocalTypes
  <2> HIDE DEF s
  <2>4. Len(s) \in 1..Len(s) /\ s # <<>>
    <3>0. \A m \in Nat \ {0} : m # 1 => m - 1 \in 1..(m - 1)
      OBVIOUS
    <3>1. Len(s) \in 1..Len(s)
      BY <1>1, <1>3, <2>1, <3>0, Zenon
    <3>2. Len(<<>>) = 0
      OBVIOUS
    <3> QED
      BY <3>1, <3>2
  <2>5. \A k \in 1..Len(s) : Sure(s[k]) /\ s[k].at = "children"
    <3> SUFFICES ASSUME NEW k \in 1..Len(s) PROVE Sure(s[k]) /\ s[k].at = "children"
      OBVIOUS
    <3>1. k \in 1..Len(frames[p]) /\ k \in 1..(Len(frames[p]) - 1)
      BY <1>1, <2>1
    <3> QED
      BY <2>1, <2>2, <3>1
  <2>6. s[Len(s)].at # "move"
    BY <2>4, <2>5
  <2>7. \A k \in 1..(Len(s) - 1) : s[k].at = "children"
    BY <2>1, <2>5, <1>1
  <2> QED
    BY <2>1, <2>3, <2>4, <2>5, <2>6, <2>7, HoldingsAreGood
<1> QED
  BY <1>2, <1>3

(* The next step of a delete, within the entry in hand. *)
LEMMA SameTreeAdvances ==
  ASSUME FileIInv, NEW p \in Procs, pc[p] = "delete", NEW f \in Frame, Sure(f), f.at # "move",
         Advance(p, f), UNCHANGED <<tree, requests, links>>
  PROVE  FileIInv'
<1>1. QuietTree(p) /\ Grown'
  BY SameTreeIsQuiet DEF FileIInv
<1> QED
  BY <1>1, AdvancesAreGood

LEMMA SameTreeFails ==
  ASSUME FileIInv, NEW p \in Procs, Fail(p), UNCHANGED <<tree, requests, links>>
  PROVE  FileIInv'
<1>1. QuietTree(p) /\ Grown'
  BY SameTreeIsQuiet DEF FileIInv
<1> QED
  BY <1>1, FailuresAreGood

LEMMA DeletesAreGood ==
  ASSUME FileIInv, NEW p \in Procs, DeleteStep(p)
  PROVE  FileIInv'
<1> DEFINE f == Top(p)
<1>0. Grown /\ path[p] \in Paths /\ Public \subseteq Names /\ Mine(p)
  BY DEF FileIInv, LocalTypes, Names
<1>f. pc[p] = "delete" => f \in Frame /\ Sure(f)
  BY TopIsFrame
<1>1. CASE Anchor(p)
  <2> DEFINE d == IF Len(path[p]) = 1 THEN Root ELSE At(Root, Head(path[p]))
  <2>1. UNCHANGED <<tree, requests, links>>
    BY <1>1 DEF Anchor
  <2>2. CASE Fail(p)
    BY <2>1, <2>2, SameTreeFails
  <2>3. CASE /\ IsDir(d) /\ Goto(p, "delete")
             /\ frames' = [frames EXCEPT ![p] = <<Enter(d, Last(path[p]))>>]
             /\ UNCHANGED <<op, path, to, tmp, failed>>
    <3>1. d \in Inodes /\ Last(path[p]) \in Names
      BY <1>0, <2>3, AtIsEntry, InodesAssumption, PathShape DEF IsDir
    <3> HIDE DEF d
    <3> DEFINE e == Enter(d, Last(path[p]))
    <3>2. e \in Frame /\ e.at = "stat"
      BY <3>1 DEF Frame, Enter
    <3>3. frames' = [frames EXCEPT ![p] = <<e>>]
      BY <2>3
    <3> HIDE DEF e
    <3>4. LocalTypes'
      BY <2>1, <2>3, <3>2, <3>3 DEF FileIInv, LocalTypes, Goto
    <3>5. OthersSame(p) /\ pc'[p] = "delete" /\ frames'[p] = <<e>>
      BY <2>3, <3>3 DEF FileIInv, LocalTypes, OthersSame, Goto
    <3>6. Len(<<e>>) = 1 /\ <<e>>[1] = e /\ <<e>> # <<>>
      OBVIOUS
    <3>7. ~AtMove(p)'
      BY <3>2, <3>5, <3>6 DEF AtMove, Top, Last
    <3>8. Mine(p)'
      BY <3>2, <3>5, <3>6, <3>7 DEF Mine, OwnsTemp, KnowsEntries, OwnsStage, Sure
    <3>9. QuietTree(p) /\ Grown'
      BY <1>0, <2>1, SameTreeIsQuiet
    <3> QED
      BY <3>4, <3>5, <3>7, <3>8, <3>9, StepIsGood
  <2> QED
    BY <1>1, <2>2, <2>3 DEF Anchor
<1>2. CASE StatEntry(p)
  <2> DEFINE i == At(f.dir, f.name)
             g == [f EXCEPT !.ino = i, !.at = IF IsDir(i) THEN "open" ELSE "unlink"]
  <2>1. UNCHANGED <<tree, requests, links>> /\ pc[p] = "delete"
    BY <1>2 DEF StatEntry, Deleting
  <2>2. CASE Fail(p)
    BY <2>1, <2>2, SameTreeFails
  <2>3. CASE i # None /\ Advance(p, g)
    <3>1. i \in Inodes
      BY <2>3, AtIsEntry
    <3> HIDE DEF i
    <3>2. g \in Frame /\ Sure(g) /\ g.at # "move"
      BY <1>f, <2>1, <3>1 DEF Frame, Sure
    <3> HIDE DEF g
    <3> QED
      BY <2>1, <2>3, <3>2, SameTreeAdvances
  <2> QED
    BY <1>2, <2>2, <2>3 DEF StatEntry
<1>3. CASE UnlinkEntry(p)
  <2> DEFINE i == At(f.dir, f.name)
  <2>1. UNCHANGED <<requests, links>> /\ pc[p] = "delete"
    BY <1>3 DEF UnlinkEntry, Deleting
  <2>2. CASE Fail(p) /\ UNCHANGED tree
    BY <2>1, <2>2, SameTreeFails
  <2>3. CASE i # None /\ ~IsDir(i) /\ Drop(i) /\ Done(p)
    <3>1. i \in Inodes /\ dir[i] = f.dir
      BY <2>3, AtIsEntry
    <3>2. f.dir # None /\ kind[i] # "dir"
      BY <1>f, <2>1, <2>3, InodesAssumption DEF Frame, IsDir
    <3> HIDE DEF i
    <3>3. Within(i) = {}
      BY <1>0, <3>1, <3>2, FileIsChildless
    <3>4. Grown' /\ QuietTree(p)
      BY <1>0, <2>3, <3>1, <3>2, <3>3, DropGrows, DropIsQuiet
    <3> QED
      BY <2>1, <2>3, <3>4, DonesAreGood
  <2> QED
    BY <1>3, <2>2, <2>3 DEF UnlinkEntry
<1>4. CASE OpenEntry(p)
  <2> DEFINE g == [f EXCEPT !.at = "stage"]
  <2>1. UNCHANGED <<tree, requests, links>> /\ pc[p] = "delete" /\ f.at = "open"
    BY <1>4 DEF OpenEntry, Deleting
  <2>2. CASE Fail(p)
    BY <2>1, <2>2, SameTreeFails
  <2>3. CASE Advance(p, g)
    <3>1. g \in Frame /\ Sure(g) /\ g.at # "move"
      BY <1>f, <2>1 DEF Frame, Sure
    <3> HIDE DEF g
    <3> QED
      BY <2>1, <2>3, <3>1, SameTreeAdvances
  <2> QED
    BY <1>4, <2>2, <2>3 DEF OpenEntry
<1>5. CASE MakeStage(p)
  <2> DEFINE g == [f EXCEPT !.stage = AnInode, !.at = "move"]
  <2>1. UNCHANGED <<requests, links>> /\ pc[p] = "delete" /\ f.at = "stage"
    BY <1>5 DEF MakeStage, Deleting
  <2>2. CASE Fail(p) /\ UNCHANGED tree
    BY <2>1, <2>2, SameTreeFails
  <2>3. CASE IsDir(f.dir) /\ Room /\ New(AnInode, "dir", f.dir, AName) /\ Advance(p, g)
    <3>1. f.dir \in Inodes /\ g \in Frame /\ Sure(g) /\ g.stage = AnInode
      BY <1>f, <2>1, <2>3, RoomIsThere DEF Frame, Sure
    <3>2. Grown' /\ QuietTree(p)
      BY <1>0, <2>3, <3>1, RoomIsThere, NewGrows, NewIsQuiet
    <3>3. \A i \in Inodes : dir'[i] # AnInode \/ name'[i] # "target"
      <4>1. dir' = [dir EXCEPT ![AnInode] = f.dir] /\ name' = [name EXCEPT ![AnInode] = AName]
        BY <2>3 DEF New, Put
      <4>2. AName # "target" /\ AnInode \in Inodes /\ kind[AnInode] = "free"
        BY <2>3, RoomIsThere, NamesAssumption DEF FreshNames
      <4> QED
        BY <1>0, <4>1, <4>2, InodesAssumption DEF Grown, IsTree
    <3>4. \A q \in Procs \ {p} : AtMove(q) => Top(q).stage # AnInode
      <4> SUFFICES ASSUME NEW q \in Procs, AtMove(q) PROVE Top(q).stage # AnInode
        OBVIOUS
      <4>1. Len(frames[q]) \in Nat \ {0} /\ Top(q) = frames[q][Len(frames[q])] /\ frames[q] \in Seq(Frame)
        BY TopIsFrame DEF AtMove
      <4>2. Len(frames[q]) \in DOMAIN frames[q]
        BY <4>1
      <4>3. Top(q).stage \in Held(q)
        BY <4>1, <4>2 DEF Held
      <4> QED
        BY <2>3, <4>3, RoomIsThere
    <3> HIDE DEF g
    <3> QED
      BY <2>1, <2>3, <3>1, <3>2, <3>3, <3>4, AdvancesAreGood
  <2> QED
    BY <1>5, <2>2, <2>3 DEF MakeStage
<1>6. CASE MoveToStage(p)
  <2> DEFINE i == At(f.dir, f.name)
             g == [f EXCEPT !.at = "verify"]
  <2>1. UNCHANGED <<requests, links>> /\ pc[p] = "delete" /\ f.at = "move" /\ AtMove(p)
    BY <1>6 DEF MoveToStage, Deleting, AtMove
  <2>2. CASE Fail(p) /\ UNCHANGED tree
    BY <2>1, <2>2, SameTreeFails
  <2>3. CASE i # None /\ IsDir(f.stage) /\ Put(i, f.stage, "target") /\ UNCHANGED kind /\ Advance(p, g)
    <3>1. i \in Inodes /\ dir[i] = f.dir
      BY <2>3, AtIsEntry
    <3>2. f.dir # None /\ f.stage \in Inodes /\ g \in Frame /\ Sure(g) /\ g.at = "verify"
      BY <1>f, <2>1, InodesAssumption DEF Frame, Sure
    <3>3. At(f.stage, "target") = None
      BY <1>0, <2>1, AtIsEntry, InodesAssumption DEF Mine, OwnsStage
    <3> HIDE DEF i, g
    <3>4. "target" \in Names
      BY DEF Names
    <3>5. Grown'
      BY <1>0, <2>3, <3>1, <3>2, <3>3, <3>4, PutGrows
    <3>6. QuietTree(p)
      <4>1. dir' = [dir EXCEPT ![i] = f.stage] /\ name' = [name EXCEPT ![i] = "target"]
        BY <2>3 DEF Put
      <4> QED
        BY <1>0, <2>1, <2>3, <3>1, <4>1 DEF QuietTree, Grown, IsTree
    <3> QED
      BY <2>1, <2>3, <3>2, <3>5, <3>6, AdvancesAreGood
  <2> QED
    BY <1>6, <2>2, <2>3 DEF MoveToStage
<1>7. CASE VerifyMoved(p)
  <2> DEFINE g == [f EXCEPT !.at = "list"]
  <2>1. UNCHANGED <<tree, requests, links>> /\ pc[p] = "delete" /\ f.at = "verify"
    BY <1>7 DEF VerifyMoved, Deleting
  <2>2. CASE Fail(p)
    BY <2>1, <2>2, SameTreeFails
  <2>3. CASE Advance(p, g)
    <3>1. g \in Frame /\ Sure(g) /\ g.at # "move"
      BY <1>f, <2>1 DEF Frame, Sure
    <3> HIDE DEF g
    <3> QED
      BY <2>1, <2>3, <3>1, SameTreeAdvances
  <2> QED
    BY <1>7, <2>2, <2>3 DEF VerifyMoved
<1>8. CASE ListEntries(p)
  <2> DEFINE g == [f EXCEPT !.todo = Entries(f.ino), !.at = "children"]
  <2>1. UNCHANGED <<tree, requests, links>> /\ pc[p] = "delete" /\ f.at = "list" /\ Advance(p, g)
    BY <1>8 DEF ListEntries, Deleting
  <2>2. f \in Frame /\ Sure(f) /\ f.ino \in Inodes
    BY <1>f, <2>1 DEF Sure
  <2>3. Entries(f.ino) \subseteq Names
    BY <1>0, <2>2, InodesAssumption DEF Entries, Within, Grown, IsTree
  <2>4. g \in Frame /\ Sure(g) /\ g.at # "move"
    BY <2>1, <2>2, <2>3 DEF Frame, Sure
  <2> HIDE DEF g
  <2> QED
    BY <2>1, <2>4, SameTreeAdvances
<1>9. CASE \E n \in Names : DeleteChild(p, n)
  <2>0. PICK n \in Names : DeleteChild(p, n)
    BY <1>9
  <2> DEFINE g == [f EXCEPT !.todo = f.todo \ {n}]
             e == Enter(f.ino, n)
             t == Append(Front(frames[p]), g)
             s == Append(t, e)
  <2>1. /\ UNCHANGED <<tree, requests, links>> /\ UNCHANGED <<pc, op, path, to, tmp, failed>>
        /\ pc[p] = "delete" /\ f.at = "children"
    BY <2>0 DEF DeleteChild, Deleting
  <2>2. frames' = [frames EXCEPT ![p] = s]
    BY <2>0 DEF DeleteChild
  <2>3. f \in Frame /\ Sure(f) /\ f.ino \in Inodes
    BY <1>f, <2>1 DEF Sure
  <2>4. g \in Frame /\ Sure(g) /\ g.at = "children"
    BY <2>1, <2>3 DEF Frame, Sure
  <2>5. e \in Frame /\ Sure(e) /\ e.at = "stat"
    BY <2>3 DEF Frame, Sure, Enter
  <2> HIDE DEF g, e
  <2>6. frames[p] \in Seq(Frame) /\ frames[p] # <<>> /\ Len(frames[p]) \in Nat \ {0}
    BY <2>1, TopIsFrame
  <2>7. /\ t \in Seq(Frame) /\ Len(t) = Len(frames[p]) /\ t[Len(frames[p])] = g
        /\ \A k \in 1..(Len(frames[p]) - 1) : t[k] = frames[p][k]
    BY <2>4, <2>6, TopChanges
  <2>8. /\ \A k \in 1..Len(frames[p]) : Sure(frames[p][k])
        /\ \A k \in 1..(Len(frames[p]) - 1) : frames[p][k].at = "children"
    BY <1>0 DEF Mine, KnowsEntries
  <2> HIDE DEF t
  <2>9. \A k \in 1..Len(t) : Sure(t[k]) /\ t[k].at = "children"
    <3> SUFFICES ASSUME NEW k \in 1..Len(t) PROVE Sure(t[k]) /\ t[k].at = "children"
      OBVIOUS
    <3>1. CASE k = Len(frames[p])
      BY <2>4, <2>7, <3>1
    <3>2. CASE k # Len(frames[p])
      <4>1. k \in 1..(Len(frames[p]) - 1) /\ k \in 1..Len(frames[p])
        BY <2>6, <2>7, <3>2
      <4> QED
        BY <2>7, <2>8, <4>1
    <3> QED
      BY <3>1, <3>2
  <2>10. /\ s \in Seq(Frame) /\ Len(s) = Len(t) + 1 /\ s[Len(s)] = e
         /\ \A k \in 1..Len(t) : s[k] = t[k]
    BY <2>5, <2>7, AppendProperties
  <2>11. Len(t) \in Nat /\ s # <<>>
    BY <2>6, <2>7, <2>5, AppendProperties
  <2> HIDE DEF s
  <2>12. \A k \in 1..(Len(s) - 1) : s[k].at = "children"
    BY <2>9, <2>10, <2>11
  <2>13. \A k \in 1..Len(s) : Sure(s[k])
    <3> SUFFICES ASSUME NEW k \in 1..Len(s) PROVE Sure(s[k])
      OBVIOUS
    <3>1. k = Len(s) \/ k \in 1..Len(t)
      BY <2>10, <2>11
    <3> QED
      BY <2>5, <2>9, <2>10, <3>1
  <2>14. QuietTree(p) /\ Grown'
    BY <1>0, <2>1, SameTreeIsQuiet
  <2>15. s[Len(s)].at # "move"
    BY <2>5, <2>10
  <2> QED
    BY <2>1, <2>2, <2>10, <2>11, <2>12, <2>13, <2>14, <2>15, HoldingsAreGood
<1>10. CASE RemoveTarget(p)
  <2> DEFINE g == [f EXCEPT !.at = "unstage"]
  <2>1. UNCHANGED <<requests, links>> /\ pc[p] = "delete" /\ f.at = "children"
    BY <1>10 DEF RemoveTarget, Deleting
  <2>2. CASE Fail(p) /\ UNCHANGED tree
    BY <2>1, <2>2, SameTreeFails
  <2>3. CASE At(f.stage, "target") = f.ino /\ Within(f.ino) = {} /\ Drop(f.ino) /\ Advance(p, g)
    <3>1. f.ino \in Inodes /\ f.stage \in Inodes /\ g \in Frame /\ Sure(g) /\ g.at # "move"
      BY <1>f, <2>1 DEF Frame, Sure
    <3>2. dir[f.ino] # None
      BY <2>3, <3>1, AtIsEntry, InodesAssumption
    <3>3. Grown' /\ QuietTree(p)
      BY <1>0, <2>3, <3>1, <3>2, DropGrows, DropIsQuiet
    <3> HIDE DEF g
    <3> QED
      BY <2>1, <2>3, <3>1, <3>3, AdvancesAreGood
  <2> QED
    BY <1>10, <2>2, <2>3 DEF RemoveTarget
<1>11. CASE RemoveStage(p)
  <2>1. UNCHANGED <<requests, links>> /\ pc[p] = "delete" /\ f.at = "unstage"
    BY <1>11 DEF RemoveStage, Deleting
  <2>2. CASE Fail(p) /\ UNCHANGED tree
    BY <2>1, <2>2, SameTreeFails
  <2>3. CASE At(f.dir, name[f.stage]) = f.stage /\ Within(f.stage) = {} /\ Drop(f.stage) /\ Done(p)
    <3>1. f.stage \in Inodes /\ f.dir \in Inodes
      BY <1>f, <2>1 DEF Frame, Sure
    <3>2. dir[f.stage] # None
      BY <2>3, <3>1, AtIsEntry, InodesAssumption
    <3>3. Grown' /\ QuietTree(p)
      BY <1>0, <2>3, <3>1, <3>2, DropGrows, DropIsQuiet
    <3> QED
      BY <2>1, <2>3, <3>3, DonesAreGood
  <2> QED
    BY <1>11, <2>2, <2>3 DEF RemoveStage
<1> QED
  BY <1>1, <1>2, <1>3, <1>4, <1>5, <1>6, <1>7, <1>8, <1>9, <1>10, <1>11 DEF DeleteStep

-----------------------------------------------------------------------------
(* Another program's link is no step of a worker: it is quiet for everyone. *)
LEMMA LinksAreGood ==
  ASSUME FileIInv, NEW n \in Public, Link(n)
  PROVE  FileIInv'
<1>1. Grown /\ Public \subseteq Names
  BY DEF FileIInv, Names
<1>2. /\ At(Root, n) = None /\ Room /\ New(AnInode, "link", Root, n)
      /\ links < MaxLinks /\ links' = links + 1
      /\ UNCHANGED <<pc, op, path, to, tmp, frames, requests, failed>>
  BY DEF Link, local
<1>3. Grown'
  BY <1>1, <1>2, RoomIsThere, RootIsDir, NewGrows
<1>4. LocalTypes'
  BY <1>2, RequestBounds DEF FileIInv, LocalTypes
<1>5. ASSUME NEW p \in Procs
      PROVE  Mine(p)' /\ (AtMove(p)' <=> AtMove(p)) /\ Top(p)' = Top(p)
  <2>1. Mine(p)
    BY DEF FileIInv
  <2>2. Top(p)' = Top(p) /\ (AtMove(p)' <=> AtMove(p))
    BY <1>2 DEF Top, Last, AtMove
  <2>3. KnowsEntries(p)'
    BY <1>2, <2>1 DEF Mine, KnowsEntries
  <2>4. /\ kind' = [kind EXCEPT ![AnInode] = "link"] /\ dir' = [dir EXCEPT ![AnInode] = Root]
        /\ name' = [name EXCEPT ![AnInode] = n]
    BY <1>2 DEF New, Put
  <2>5. n # "target" /\ n \notin Private
    BY NamesAssumption
  <2>6. OwnsTemp(p)'
    BY <1>1, <1>2, <2>1, <2>4, <2>5 DEF Mine, OwnsTemp, Grown, IsTree
  <2>7. OwnsStage(p)'
    BY <1>1, <2>1, <2>2, <2>4, <2>5 DEF Mine, OwnsStage, Grown, IsTree
  <2> QED
    BY <2>2, <2>3, <2>6, <2>7 DEF Mine
<1>6. StagesApart'
  BY <1>5 DEF FileIInv, StagesApart
<1> QED
  BY <1>3, <1>4, <1>5, <1>6 DEF FileIInv

LEMMA FilesInit == Init => FileIInv
<1> SUFFICES ASSUME Init PROVE FileIInv
  OBVIOUS
<1>1. Grown
  <2>1. PICK t \in Trees : kind = t.kind /\ dir = t.dir /\ name = t.name
    BY DEF Init
  <2> QED
    BY <2>1, TreesAssumption DEF Grown
<1>2. AnyPath \in Paths /\ AnyOp \in Ops /\ <<>> \in Seq(Frame)
  BY PathsAssumption DEF AnyPath, AnyOp, Ops
<1>3. LocalTypes
  <2>1. requests \in [Procs -> Nat] /\ links \in 0..MaxLinks /\ \A p \in Procs : requests[p] <= MaxRequests[p]
    <3>1. \A p \in Procs : MaxRequests[p] \in Nat /\ requests[p] = 0
      BY RequestBounds DEF Init
    <3> QED
      BY <3>1, RequestBounds DEF Init
  <2>2. /\ pc \in [Procs -> {"idle"}] /\ op \in [Procs -> Ops] /\ path \in [Procs -> Paths]
        /\ to \in [Procs -> Paths] /\ tmp \in [Procs -> {None}] /\ frames \in [Procs -> {<<>>}]
        /\ failed \in BOOLEAN
    BY <1>2 DEF Init
  <2>3. \A p \in Procs : frames[p] \in Seq(Frame)
    BY <1>2 DEF Init
  <2> QED
    BY <2>1, <2>2, <2>3 DEF LocalTypes
<1>4. \A p \in Procs : pc[p] = "idle" /\ frames[p] = <<>>
  BY DEF Init
<1> QED
  BY <1>1, <1>3, <1>4 DEF FileIInv, Mine, OwnsTemp, KnowsEntries, OwnsStage, AtMove, StagesApart

LEMMA FilesNext == FileIInv /\ [Next]_vars => FileIInv'
<1> SUFFICES ASSUME FileIInv, [Next]_vars PROVE FileIInv'
  OBVIOUS
<1>1. CASE \E p \in Procs, what \in Ops, from \in Paths, dest \in Paths : Request(p, what, from, dest)
  BY <1>1, RequestsAreGood
<1>2. CASE \E p \in Procs : DeleteStep(p) \/ EditStep(p) \/ Break(p)
  <2>1. PICK p \in Procs : DeleteStep(p) \/ EditStep(p) \/ Break(p)
    BY <1>2
  <2>2. Break(p) => FileIInv'
    BY SameTreeFails DEF Break
  <2> QED
    BY <2>1, <2>2, DeletesAreGood, EditsAreGood
<1>3. CASE \E n \in Public : Link(n)
  BY <1>3, LinksAreGood
<1>4. CASE UNCHANGED vars
  <2>1. UNCHANGED <<kind, dir, name, pc, op, path, to, tmp, frames, requests, links, failed>>
    BY <1>4 DEF vars, tree, local
  <2>2. Grown'
    BY <2>1 DEF FileIInv, Grown, IsTree
  <2>3. LocalTypes'
    BY <2>1 DEF FileIInv, LocalTypes
  <2>4. (\A p \in Procs : Mine(p)') /\ StagesApart'
    BY <2>1 DEF FileIInv, Mine, OwnsTemp, KnowsEntries, OwnsStage, AtMove, StagesApart, Top, Last
  <2> QED
    BY <2>2, <2>3, <2>4 DEF FileIInv
<1> QED
  BY <1>1, <1>2, <1>3, <1>4 DEF Next

(* Whatever requests run together, whatever links appear and wherever a      *)
(* worker dies, the project stays a tree: no two entries of a directory have *)
(* one name, and nothing is left in a directory that is gone or was replaced *)
(* by a file, os.replace included (project_files.py, every request).         *)
THEOREM FilesStayTree == Spec => []TypeOK
<1>1. FileIInv => TypeOK
  BY DEF FileIInv, Grown, LocalTypes, TypeOK
<1> QED
  BY <1>1, FilesInit, FilesNext, PTL DEF Spec

(* The staging directory that _stage_directory_at has made is in the hands   *)
(* of one delete, and has no entry "target" until that delete moves one in:  *)
(* its rename never meets, and never replaces, the entry of another delete.  *)
THEOREM StagesArePrivate == Spec => [](StagesApart /\ \A p \in Procs : OwnsStage(p))
<1>1. FileIInv => StagesApart /\ \A p \in Procs : OwnsStage(p)
  BY DEF FileIInv, Mine
<1> QED
  BY <1>1, FilesInit, FilesNext, PTL DEF Spec

-----------------------------------------------------------------------------
(* What a user sees: the inodes that public names lead down to.  Seen is      *)
(* recursive; that it says so of every inode is proved first.                *)
OneUp(i) == dir[i] # None /\ name[i] \in Public
Closed(S) == Root \in S /\ \A i \in Inodes : OneUp(i) /\ dir[i] \in S => i \in S
Reached == {i \in Inodes : \A S \in SUBSET Inodes : Closed(S) => i \in S}
LinesUp(f) == f = [i \in Inodes |-> i = Root \/ (OneUp(i) /\ f[dir[i]])]

LEMMA ReachedIsFixed ==
  ASSUME Grown
  PROVE \A i \in Inodes : i \in Reached <=> i = Root \/ (OneUp(i) /\ dir[i] \in Reached)
<1>0. \A i \in Inodes : OneUp(i) => dir[i] \in Inodes
  BY DEF Grown, IsTree, OneUp
<1>1. Closed(Reached) /\ Reached \in SUBSET Inodes
  BY <1>0, InodesAssumption DEF Reached, Closed
<1>2. ASSUME NEW i \in Reached, i # Root, ~(OneUp(i) /\ dir[i] \in Reached)
      PROVE  FALSE
  <2>1. Closed(Reached \ {i})
    BY <1>1, <1>2 DEF Closed
  <2> QED
    BY <1>1, <1>2, <2>1 DEF Reached
<1> QED
  BY <1>1, <1>2 DEF Closed

LEMMA SeenIsFixed ==
  ASSUME Grown
  PROVE  LinesUp(Seen)
<1>0. \A i \in Inodes : OneUp(i) => dir[i] \in Inodes
  BY DEF Grown, IsTree, OneUp
<1> DEFINE r == [i \in Inodes |-> IF i \in Reached THEN TRUE ELSE FALSE]
<1>1. LinesUp(r)
  <2>1. \A i \in Inodes : r[i] = (i = Root \/ (OneUp(i) /\ r[dir[i]]))
    <3> SUFFICES ASSUME NEW i \in Inodes PROVE r[i] = (i = Root \/ (OneUp(i) /\ r[dir[i]]))
      OBVIOUS
    <3>1. /\ r[i] = IF i \in Reached THEN TRUE ELSE FALSE
          /\ OneUp(i) => (r[dir[i]] <=> dir[i] \in Reached)
      BY <1>0
    <3>2. i \in Reached <=> i = Root \/ (OneUp(i) /\ dir[i] \in Reached)
      BY ReachedIsFixed
    <3> HIDE DEF r
    <3>3. CASE i \in Reached
      <4>1. r[i] = TRUE /\ (i = Root \/ (OneUp(i) /\ r[dir[i]]))
        BY <3>1, <3>2, <3>3
      <4> QED
        BY <4>1
    <3>4. CASE i \notin Reached
      <4>1. r[i] = FALSE
        BY <3>1, <3>4
      <4>2. i # Root /\ ~(OneUp(i) /\ r[dir[i]])
        BY <3>1, <3>2, <3>4, Zenon
      <4> QED
        BY <4>1, <4>2
    <3> QED
      BY <3>3, <3>4
  <2> HIDE DEF r
  <2>2. [i \in Inodes |-> i = Root \/ (OneUp(i) /\ r[dir[i]])] = [i \in Inodes |-> r[i]]
    BY <2>1
  <2>3. r = [i \in Inodes |-> r[i]]
    BY DEF r
  <2> QED
    BY <2>2, <2>3 DEF LinesUp
<1>2. \E f : LinesUp(f)
  BY <1>1
<1> QED
  BY <1>2, Zenon DEF Seen, LinesUp, OneUp

(* No public names go round in a circle, so that what is seen is determined. *)
NoRounds == \A S \in SUBSET Inodes : S # {} => \E i \in S : ~(OneUp(i) /\ dir[i] \in S)

LEMMA SeenIsReached ==
  ASSUME Grown, NoRounds
  PROVE  Visible = Reached
<1>0. \A i \in Inodes : OneUp(i) => dir[i] \in Inodes
  BY DEF Grown, IsTree, OneUp
<1>1. \A i \in Inodes : Seen[i] <=> i = Root \/ (OneUp(i) /\ Seen[dir[i]])
  BY SeenIsFixed DEF LinesUp
<1> DEFINE S == {i \in Inodes : ~(Seen[i] <=> i \in Reached)}
<1>2. ASSUME S # {} PROVE FALSE
  <2>1. PICK i \in S : ~(OneUp(i) /\ dir[i] \in S)
    BY <1>2 DEF NoRounds
  <2>2. i \in Reached <=> i = Root \/ (OneUp(i) /\ dir[i] \in Reached)
    BY ReachedIsFixed
  <2> QED
    BY <1>0, <1>1, <2>1, <2>2
<1> QED
  BY <1>2 DEF Visible, Reached

(* What is below what is hidden is hidden. *)
LEMMA Sight ==
  ASSUME Grown, NEW i \in Inodes
  PROVE  i \in Visible <=> i = Root \/ (OneUp(i) /\ dir[i] \in Visible)
<1>1. Seen[i] <=> i = Root \/ (OneUp(i) /\ Seen[dir[i]])
  BY SeenIsFixed DEF LinesUp
<1>2. OneUp(i) => dir[i] \in Inodes
  BY DEF Grown, IsTree, OneUp
<1> QED
  BY <1>1, <1>2 DEF Visible

LEMMA SightSees ==
  ASSUME Grown, NoRounds, NEW S \in SUBSET Inodes, Root \in S,
         \A i \in Inodes : OneUp(i) /\ dir[i] \in S => i \in S
  PROVE  Visible \subseteq S
<1>1. Closed(S)
  BY DEF Closed
<1> QED
  BY <1>1, SeenIsReached DEF Reached

(* Both facts, for this state and the next. *)
SightFacts ==
  /\ Visible \subseteq Inodes
  /\ \A i \in Inodes : i \in Visible <=> i = Root \/ (OneUp(i) /\ dir[i] \in Visible)
  /\ \A S \in SUBSET Inodes :
       Root \in S /\ (\A i \in Inodes : OneUp(i) /\ dir[i] \in S => i \in S) => Visible \subseteq S

LEMMA SightHolds == Grown /\ NoRounds => SightFacts
  BY Sight, SightSees DEF SightFacts, Visible

LEMMA SightHoldsNext == (Grown /\ NoRounds => SightFacts)'
  BY SightHolds, PTL

(* Where a request's path leads is the root or right below it, and is seen. *)
Near(d) == d = Root \/ (dir[d] = Root /\ name[d] \in Public)

LEMMA ParentIsNear ==
  ASSUME NEW names \in Paths, Parent(names) # None
  PROVE  Near(Parent(names))
<1>1. Head(names) \in Public /\ LinkTo \in Public
  BY PathShape, NamesAssumption
<1> QED
  BY <1>1, AtIsEntry DEF Parent, Follow, Near

LEMMA NearIsSeen ==
  ASSUME Grown, NEW d \in Inodes, Near(d)
  PROVE  d \in Visible
<1>1. Root \in Inodes /\ Root \in Visible /\ Root # None
  BY Sight, InodesAssumption
<1> QED
  BY <1>1, Sight DEF Near, OneUp

(* The ways the requests change the tree. *)
Replacing(t, d, n, old) ==
  /\ kind' = [i \in Inodes |-> IF i = old THEN "free" ELSE kind[i]]
  /\ dir'  = [i \in Inodes |-> IF i = t THEN d ELSE IF i = old THEN None ELSE dir[i]]
  /\ name' = [i \in Inodes |-> IF i = t THEN n ELSE IF i = old THEN None ELSE name[i]]

TreeChange ==
  \/ UNCHANGED tree
  \/ /\ Room
     /\ \E what \in {"dir", "file", "link"}, d \in Inodes, n \in Public \cup FreshNames :
          IsDir(d) /\ New(AnInode, what, d, n)
  \/ \E i \in Inodes : dir[i] # None /\ Drop(i)
  \/ \E i \in Visible, d \in Inodes, n \in Public :
       d # i /\ Near(d) /\ dir[i] # None /\ Put(i, d, n) /\ UNCHANGED kind
  \/ \E i, d \in Inodes : Put(i, d, "target") /\ UNCHANGED kind
  \/ \E t, d \in Inodes, n \in Public, old \in Inodes \cup {None} :
       t # old /\ d # t /\ kind[t] = "file" /\ Replacing(t, d, n, old)

(* A set in which everything goes up to a member has none of the changed. *)
LEMMA RoundsNeedOld ==
  ASSUME Grown, NoRounds, NEW x,
         \A i \in Inodes \ {x} : OneUp(i)' => OneUp(i) /\ dir'[i] = dir[i]
  PROVE  \A S \in SUBSET Inodes : S # {} /\ x \notin S => \E i \in S : ~(OneUp(i)' /\ dir'[i] \in S)
  BY DEF NoRounds

LEMMA NoRoundsWithLeaf ==
  ASSUME Grown, NoRounds, NEW x,
         \A i \in Inodes \ {x} : OneUp(i)' => OneUp(i) /\ dir'[i] = dir[i],
         \A i \in Inodes : OneUp(i)' => dir'[i] # x
  PROVE  NoRounds'
<1> SUFFICES ASSUME NEW S \in SUBSET Inodes, S # {}, \A i \in S : OneUp(i)' /\ dir'[i] \in S
             PROVE  FALSE
  BY DEF NoRounds
<1>1. S \ {x} # {} /\ \A i \in S \ {x} : OneUp(i)' /\ dir'[i] \in S \ {x}
  OBVIOUS
<1>2. S \ {x} \in SUBSET Inodes /\ x \notin S \ {x}
  OBVIOUS
<1> QED
  BY <1>1, <1>2, RoundsNeedOld

LEMMA NewShape ==
  ASSUME NEW i, NEW what, NEW d, NEW n, New(i, what, d, n)
  PROVE  /\ kind' = [kind EXCEPT ![i] = what] /\ dir' = [dir EXCEPT ![i] = d]
         /\ name' = [name EXCEPT ![i] = n]
  BY DEF New, Put

LEMMA TreeShape ==
  ASSUME Grown
  PROVE  /\ kind \in [Inodes -> {"free", "dir", "file", "link"}]
         /\ dir \in [Inodes -> Inodes \cup {None}] /\ name \in [Inodes -> Names \cup {None}]
         /\ kind[Root] = "dir" /\ dir[Root] = None /\ Root \in Inodes /\ None \notin Inodes
         /\ \A i \in Inodes : kind[i] = "free" => dir[i] = None
         /\ \A i \in Inodes : dir[i] # None => kind[dir[i]] = "dir"
  BY InodesAssumption DEF Grown, IsTree

LEMMA NoRoundsStays ==
  ASSUME Grown, NoRounds, TreeChange
  PROVE  NoRounds'
<1> USE TreeShape
<1>1. CASE UNCHANGED tree
  BY <1>1 DEF tree, NoRounds, OneUp
<1>2. ASSUME Room, NEW what \in {"dir", "file", "link"}, NEW d \in Inodes, NEW n \in Public \cup FreshNames,
             IsDir(d), New(AnInode, what, d, n)
      PROVE  NoRounds'
  <2>1. AnInode \in Inodes /\ kind[AnInode] = "free" /\ d # AnInode
    BY <1>2, RoomIsThere DEF IsDir
  <2>2. dir' = [dir EXCEPT ![AnInode] = d] /\ name' = [name EXCEPT ![AnInode] = n]
    BY <1>2, NewShape
  <2> QED
    BY <2>1, <2>2, NoRoundsWithLeaf DEF OneUp
<1>3. ASSUME NEW i \in Inodes, Drop(i)
      PROVE  NoRounds'
  <2>1. dir' = [dir EXCEPT ![i] = None] /\ name' = [name EXCEPT ![i] = None]
    BY <1>3, NewShape DEF Drop
  <2>2. \A j \in Inodes : OneUp(j)' => OneUp(j) /\ dir'[j] = dir[j]
    BY <2>1 DEF OneUp
  <2> QED
    BY <2>2 DEF NoRounds
<1>4. ASSUME NEW i \in Visible, NEW d \in Inodes, NEW n \in Public, d # i, Near(d), dir[i] # None, Put(i, d, n)
      PROVE  NoRounds'
  <2>1. i \in Inodes /\ dir' = [dir EXCEPT ![i] = d] /\ name' = [name EXCEPT ![i] = n]
    BY <1>4 DEF Put, Visible
  <2> SUFFICES ASSUME NEW S \in SUBSET Inodes, S # {}, \A j \in S : OneUp(j)' /\ dir'[j] \in S
               PROVE  FALSE
    BY DEF NoRounds
  <2>2. \A j \in Inodes \ {i} : OneUp(j)' => OneUp(j) /\ dir'[j] = dir[j]
    BY <2>1 DEF OneUp
  <2>3. i \in S
    BY <2>2, RoundsNeedOld
  <2>4. d \in S /\ dir'[d] = dir[d] /\ dir[d] \in S
    BY <1>4, <2>1, <2>3
  <2>5. dir'[Root] = None \/ i = Root
    BY <2>1
  <2> QED
    BY <1>4, <2>1, <2>4, <2>5 DEF Near, OneUp
<1>5. ASSUME NEW i \in Inodes, NEW d \in Inodes, Put(i, d, "target")
      PROVE  NoRounds'
  <2>1. dir' = [dir EXCEPT ![i] = d] /\ name' = [name EXCEPT ![i] = "target"]
    BY <1>5 DEF Put
  <2>2. \A j \in Inodes : OneUp(j)' => OneUp(j) /\ dir'[j] = dir[j]
    BY <2>1, NamesAssumption DEF OneUp
  <2> QED
    BY <2>2 DEF NoRounds
<1>6. ASSUME NEW t \in Inodes, NEW d \in Inodes, NEW n \in Public, NEW old \in Inodes \cup {None},
             t # old, d # t, kind[t] = "file", Replacing(t, d, n, old)
      PROVE  NoRounds'
  <2>1. \A j \in Inodes \ {t} : OneUp(j)' => OneUp(j) /\ dir'[j] = dir[j]
    BY <1>6 DEF OneUp, Replacing
  <2>2. \A j \in Inodes : OneUp(j)' => dir'[j] # t
    BY <1>6 DEF OneUp, Replacing
  <2> QED
    BY <2>1, <2>2, NoRoundsWithLeaf
<1> QED
  BY <1>1, <1>2, <1>3, <1>4, <1>5, <1>6 DEF TreeChange

(* What is hidden stays hidden, but for new entries and files. *)
LEMMA HiddenStays ==
  ASSUME Grown, NoRounds, Grown', NoRounds', TreeChange,
         NEW i \in Inodes \ Visible, kind[i] # "file", i \notin FreshInodes
  PROVE  i \notin Visible' /\ kind'[i] \in {kind[i], "free"}
<1> USE TreeShape
<1>0. /\ Root \in Visible /\ Visible \subseteq Inodes
      /\ \A j \in Inodes : OneUp(j) /\ dir[j] \in Visible => j \in Visible
  BY SightHolds DEF SightFacts
<1>s. ASSUME NEW S \in SUBSET Inodes, Root \in S, \A j \in Inodes : OneUp(j)' /\ dir'[j] \in S => j \in S
      PROVE  Visible' \subseteq S
  BY <1>s, SightHoldsNext DEF SightFacts
<1>1. CASE UNCHANGED tree
  <2>1. \A j \in Inodes : OneUp(j)' /\ dir'[j] \in Visible => j \in Visible
    BY <1>0, <1>1 DEF tree, OneUp
  <2> QED
    BY <1>0, <1>1, <1>s, <2>1 DEF tree
<1>2. ASSUME Room, NEW what \in {"dir", "file", "link"}, NEW d \in Inodes, NEW n \in Public \cup FreshNames,
             IsDir(d), New(AnInode, what, d, n)
      PROVE  i \notin Visible' /\ kind'[i] \in {kind[i], "free"}
  <2>1. AnInode \in FreshInodes /\ AnInode \in Inodes /\ kind[AnInode] = "free"
    BY <1>2, RoomIsThere DEF Room, AnInode
  <2>2. /\ kind' = [kind EXCEPT ![AnInode] = what] /\ dir' = [dir EXCEPT ![AnInode] = d]
        /\ name' = [name EXCEPT ![AnInode] = n]
    BY <1>2, NewShape
  <2> DEFINE S == Visible \cup {AnInode}
  <2>3. \A j \in Inodes : OneUp(j)' /\ dir'[j] \in S => j \in S
    BY <1>0, <1>2, <2>1, <2>2 DEF OneUp, IsDir
  <2>4. Visible' \subseteq S
    <3>1. S \in SUBSET Inodes /\ Root \in S
      BY <1>0, <2>1
    <3> HIDE DEF S
    <3> QED
      BY <1>s, <2>3, <3>1
  <2> QED
    BY <2>1, <2>2, <2>4
<1>3. ASSUME NEW x \in Inodes, Drop(x)
      PROVE  i \notin Visible' /\ kind'[i] \in {kind[i], "free"}
  <2>1. /\ kind' = [kind EXCEPT ![x] = "free"] /\ dir' = [dir EXCEPT ![x] = None]
        /\ name' = [name EXCEPT ![x] = None]
    BY <1>3, NewShape DEF Drop
  <2>2. \A j \in Inodes : OneUp(j)' /\ dir'[j] \in Visible => j \in Visible
    BY <1>0, <2>1 DEF OneUp
  <2> QED
    BY <1>0, <1>s, <2>1, <2>2
<1>4. ASSUME NEW x \in Visible, NEW d \in Inodes, NEW n \in Public, Put(x, d, n), UNCHANGED kind
      PROVE  i \notin Visible' /\ kind'[i] \in {kind[i], "free"}
  <2>1. x \in Inodes /\ dir' = [dir EXCEPT ![x] = d] /\ name' = [name EXCEPT ![x] = n]
    BY <1>0, <1>4 DEF Put
  <2>2. \A j \in Inodes : OneUp(j)' /\ dir'[j] \in Visible => j \in Visible
    BY <1>0, <2>1 DEF OneUp
  <2> QED
    BY <1>0, <1>s, <1>4, <2>1, <2>2
<1>5. ASSUME NEW x \in Inodes, NEW d \in Inodes, Put(x, d, "target"), UNCHANGED kind
      PROVE  i \notin Visible' /\ kind'[i] \in {kind[i], "free"}
  <2>1. dir' = [dir EXCEPT ![x] = d] /\ name' = [name EXCEPT ![x] = "target"]
    BY <1>5 DEF Put
  <2>2. \A j \in Inodes : OneUp(j)' /\ dir'[j] \in Visible => j \in Visible
    BY <1>0, <2>1, NamesAssumption DEF OneUp
  <2> QED
    BY <1>0, <1>s, <1>5, <2>1, <2>2
<1>6. ASSUME NEW t \in Inodes, NEW d \in Inodes, NEW n \in Public, NEW old \in Inodes \cup {None},
             t # old, d # t, kind[t] = "file", Replacing(t, d, n, old)
      PROVE  i \notin Visible' /\ kind'[i] \in {kind[i], "free"}
  <2> DEFINE S == Visible \cup {t}
  <2>1. \A j \in Inodes : OneUp(j)' /\ dir'[j] \in S => j \in S
    BY <1>0, <1>6 DEF OneUp, Replacing
  <2>2. Visible' \subseteq S
    <3>1. S \in SUBSET Inodes /\ Root \in S
      BY <1>0
    <3> HIDE DEF S
    <3> QED
      BY <1>s, <2>1, <3>1
  <2> QED
    BY <1>6, <2>2 DEF Replacing
<1> QED
  BY <1>1, <1>2, <1>3, <1>4, <1>5, <1>6 DEF TreeChange

(* And where only what is hidden changes, and stays hidden, nothing is seen. *)
LEMMA HiddenChangeIsUnseen ==
  ASSUME Grown, NoRounds, Grown', NoRounds', NEW x \in Inodes \ Visible,
         \A i \in Inodes \ {x} : kind'[i] = kind[i] /\ dir'[i] = dir[i] /\ name'[i] = name[i],
         OneUp(x)' => dir'[x] \in Inodes \ (Visible \cup {x})
  PROVE  UNCHANGED Shown
<1> USE TreeShape
<1>0. /\ Root \in Visible /\ Visible \subseteq Inodes /\ x # Root
      /\ \A j \in Inodes : j \in Visible <=> j = Root \/ (OneUp(j) /\ dir[j] \in Visible)
  BY SightHolds DEF SightFacts
<1>1. /\ Root \in Visible' /\ Visible' \subseteq Inodes
      /\ \A j \in Inodes : j \in Visible' <=> j = Root \/ (OneUp(j)' /\ dir'[j] \in Visible')
  BY SightHoldsNext DEF SightFacts
<1>2. \A j \in Inodes \ {x} : OneUp(j)' <=> OneUp(j)
  BY DEF OneUp
<1>3. Visible' \subseteq Visible
  <2>1. \A j \in Inodes : OneUp(j)' /\ dir'[j] \in Visible => j \in Visible
    BY <1>0, <1>2
  <2> QED
    BY <1>0, <2>1, SightHoldsNext DEF SightFacts
<1>4. Visible \subseteq Visible'
  <2> DEFINE S == Visible' \cup (Inodes \ Visible)
  <2>1. \A j \in Inodes : OneUp(j) /\ dir[j] \in S => j \in S
    BY <1>0, <1>1, <1>2
  <2>2. Visible \subseteq S
    BY <1>0, <1>1, <2>1, SightHolds DEF SightFacts
  <2> QED
    BY <2>2
<1>5. Visible' = Visible
  BY <1>3, <1>4
<1> QED
  BY <1>0, <1>5 DEF Shown

LEMMA NewIsChange ==
  ASSUME Room, NEW what \in {"dir", "file", "link"}, NEW d \in Inodes, NEW n \in Public \cup FreshNames,
         IsDir(d), New(AnInode, what, d, n)
  PROVE  TreeChange
  BY DEF TreeChange

LEMMA EditsChangeTree ==
  ASSUME FileIInv, NEW p \in Procs, EditStep(p)
  PROVE  TreeChange
<1>0. Grown /\ path[p] \in Paths /\ to[p] \in Paths /\ Mine(p)
  BY DEF FileIInv, LocalTypes
<1>n. ASSUME UNCHANGED tree PROVE TreeChange
  BY <1>n DEF TreeChange
<1>1. CASE CheckTarget(p) \/ CheckRename(p)
  BY <1>1, <1>n DEF CheckTarget, CheckRename
<1>2. CASE MakeParents(p)
  <2>1. CASE UNCHANGED tree
    BY <1>n, <2>1
  <2>2. CASE Room /\ New(AnInode, "dir", Root, Head(path[p]))
    <3>1. PICK n \in Public : n = Head(path[p])
      BY <1>0, PathShape
    <3> QED
      BY <1>0, <2>2, <3>1, RootIsDir, NewIsChange
  <2> QED
    BY <1>2, <2>1, <2>2 DEF MakeParents
<1>3. CASE MakeTemp(p)
  <2>1. CASE UNCHANGED tree
    BY <1>n, <2>1
  <2>2. CASE IsDir(Parent(path[p])) /\ Room /\ New(AnInode, "file", Parent(path[p]), AName)
    <3>1. PICK d \in Inodes : d = Parent(path[p])
      BY <2>2, ParentIsInode DEF IsDir
    <3>2. PICK n \in FreshNames : n = AName
      BY <2>2, RoomIsThere
    <3> QED
      BY <2>2, <3>1, <3>2, NewIsChange
  <2> QED
    BY <1>3, <2>1, <2>2 DEF MakeTemp
<1>4. CASE ReplaceTarget(p)
  <2> DEFINE d == Parent(path[p])
             t == IF IsDir(d) THEN At(d, tmp[p]) ELSE None
             old == IF IsDir(d) THEN At(d, Last(path[p])) ELSE None
  <2>1. d \in Inodes \cup {None} /\ Last(path[p]) \in Public
    BY <1>0, ParentIsInode, PathShape
  <2>2. tmp[p] \in Private /\ tmp[p] \notin Public
        /\ \A i \in Inodes : dir[i] # None /\ name[i] = tmp[p] => kind[i] = "file"
    BY <1>0, <1>4, NamesAssumption DEF ReplaceTarget, Mine, OwnsTemp
  <2>3. t # None => t \in Inodes /\ IsDir(d) /\ d \in Inodes /\ dir[t] = d /\ name[t] = tmp[p] /\ kind[t] = "file"
    BY <2>1, <2>2, AtIsEntry, InodesAssumption DEF IsDir
  <2>4. old \in Inodes \cup {None} /\ (old # None => name[old] = Last(path[p]))
    BY <2>1, AtIsEntry
  <2>5. CASE t # None /\ Replacing(t, d, Last(path[p]), old)
    <3>1. t # old /\ d # t /\ t \in Inodes /\ d \in Inodes /\ kind[t] = "file"
      BY <2>1, <2>2, <2>3, <2>4, <2>5 DEF IsDir
    <3> HIDE DEF d, t, old
    <3> QED
      BY <2>1, <2>4, <2>5, <3>1 DEF TreeChange
  <2>6. CASE IF t = None THEN UNCHANGED tree ELSE Drop(t)
    <3>1. t # None => dir[t] # None /\ t \in Inodes
      BY <2>3, InodesAssumption
    <3> HIDE DEF t
    <3> QED
      BY <1>n, <2>6, <3>1 DEF TreeChange
  <2> QED
    BY <1>4, <2>5, <2>6 DEF ReplaceTarget, Replacing
<1>5. CASE MakeDir(p)
  <2>1. CASE UNCHANGED tree
    BY <1>n, <2>1
  <2>2. CASE IsDir(Parent(path[p])) /\ Room /\ New(AnInode, "dir", Parent(path[p]), Last(path[p]))
    <3>1. PICK d \in Inodes : d = Parent(path[p])
      BY <2>2, ParentIsInode DEF IsDir
    <3>2. PICK n \in Public : n = Last(path[p])
      BY <1>0, PathShape
    <3> QED
      BY <2>2, <3>1, <3>2, NewIsChange
  <2> QED
    BY <1>5, <2>1, <2>2 DEF MakeDir
<1>6. CASE Rename(p)
  <2> DEFINE from == Parent(path[p])
             dest == Parent(to[p])
             i == IF IsDir(from) THEN At(from, Last(path[p])) ELSE None
  <2>1. CASE UNCHANGED tree
    BY <1>n, <2>1
  <2>2. CASE i # None /\ IsDir(dest) /\ dest # i /\ Put(i, dest, Last(to[p])) /\ UNCHANGED kind
    <3>1. dest \in Inodes /\ Near(dest) /\ Last(to[p]) \in Public
      BY <1>0, <2>2, ParentIsInode, ParentIsNear, PathShape DEF IsDir
    <3>2. i \in Inodes /\ from \in Inodes /\ Near(from) /\ dir[i] = from /\ name[i] \in Public
      BY <1>0, <2>2, AtIsEntry, ParentIsInode, ParentIsNear, PathShape DEF IsDir
    <3> HIDE DEF from, dest, i
    <3>3. i \in Visible /\ dir[i] # None
      BY <1>0, <3>2, NearIsSeen, Sight, InodesAssumption DEF OneUp
    <3> QED
      BY <2>2, <3>1, <3>3 DEF TreeChange
  <2> QED
    BY <1>6, <2>1, <2>2 DEF Rename
<1> QED
  BY <1>1, <1>2, <1>3, <1>4, <1>5, <1>6 DEF EditStep

LEMMA DeletesChangeTree ==
  ASSUME FileIInv, NEW p \in Procs, DeleteStep(p)
  PROVE  TreeChange
<1> DEFINE f == Top(p)
<1>n. ASSUME UNCHANGED tree PROVE TreeChange
  BY <1>n DEF TreeChange
<1>f. pc[p] = "delete" => f \in Frame /\ Sure(f)
  BY TopIsFrame
<1>d. ASSUME NEW i \in Inodes, dir[i] # None, Drop(i) PROVE TreeChange
  BY <1>d DEF TreeChange
<1>1. CASE \/ Anchor(p) \/ StatEntry(p) \/ OpenEntry(p) \/ VerifyMoved(p) \/ ListEntries(p)
           \/ \E n \in Names : DeleteChild(p, n)
  BY <1>1, <1>n DEF Anchor, StatEntry, OpenEntry, VerifyMoved, ListEntries, DeleteChild
<1>2. CASE UnlinkEntry(p)
  <2> DEFINE i == At(f.dir, f.name)
  <2>1. CASE UNCHANGED tree
    BY <1>n, <2>1
  <2>2. CASE i # None /\ Drop(i)
    <3>1. i \in Inodes /\ dir[i] = f.dir /\ f.dir # None
      BY <1>2, <1>f, <2>2, AtIsEntry, InodesAssumption DEF UnlinkEntry, Deleting, Frame
    <3> HIDE DEF i
    <3> QED
      BY <1>d, <2>2, <3>1
  <2> QED
    BY <1>2, <2>1, <2>2 DEF UnlinkEntry
<1>3. CASE MakeStage(p)
  <2>1. CASE UNCHANGED tree
    BY <1>n, <2>1
  <2>2. CASE IsDir(f.dir) /\ Room /\ New(AnInode, "dir", f.dir, AName)
    <3>1. PICK d \in Inodes : d = f.dir
      BY <1>3, <1>f DEF MakeStage, Deleting, Frame
    <3>2. PICK n \in FreshNames : n = AName
      BY <2>2, RoomIsThere
    <3> QED
      BY <2>2, <3>1, <3>2, NewIsChange
  <2> QED
    BY <1>3, <2>1, <2>2 DEF MakeStage
<1>4. CASE MoveToStage(p)
  <2> DEFINE i == At(f.dir, f.name)
  <2>1. CASE UNCHANGED tree
    BY <1>n, <2>1
  <2>2. CASE i # None /\ Put(i, f.stage, "target") /\ UNCHANGED kind
    <3>1. i \in Inodes /\ f.stage \in Inodes
      BY <1>4, <1>f, <2>2, AtIsEntry DEF MoveToStage, Deleting, Sure
    <3> HIDE DEF i, f
    <3> QED
      BY <2>2, <3>1 DEF TreeChange
  <2> QED
    BY <1>4, <2>1, <2>2 DEF MoveToStage
<1>5. CASE RemoveTarget(p)
  <2>1. CASE UNCHANGED tree
    BY <1>n, <2>1
  <2>2. CASE At(f.stage, "target") = f.ino /\ Drop(f.ino)
    <3>1. f.ino \in Inodes /\ dir[f.ino] # None
      BY <1>5, <1>f, <2>2, AtIsEntry, InodesAssumption DEF RemoveTarget, Deleting, Sure
    <3> QED
      BY <1>d, <2>2, <3>1
  <2> QED
    BY <1>5, <2>1, <2>2 DEF RemoveTarget
<1>6. CASE RemoveStage(p)
  <2>1. CASE UNCHANGED tree
    BY <1>n, <2>1
  <2>2. CASE At(f.dir, name[f.stage]) = f.stage /\ Drop(f.stage)
    <3>1. f.stage \in Inodes /\ dir[f.stage] # None
      BY <1>6, <1>f, <2>2, AtIsEntry, InodesAssumption DEF RemoveStage, Deleting, Sure, Frame
    <3> QED
      BY <1>d, <2>2, <3>1
  <2> QED
    BY <1>6, <2>1, <2>2 DEF RemoveStage
<1> QED
  BY <1>1, <1>2, <1>3, <1>4, <1>5, <1>6 DEF DeleteStep

LEMMA StepsChangeTree ==
  ASSUME FileIInv, [Next]_vars
  PROVE  TreeChange
<1>1. CASE \E p \in Procs : DeleteStep(p) \/ EditStep(p)
  BY <1>1, EditsChangeTree, DeletesChangeTree
<1>2. ASSUME NEW n \in Public, Link(n) PROVE TreeChange
  BY <1>2, RootIsDir, NewIsChange DEF Link, FileIInv
<1>3. CASE UNCHANGED tree
  BY <1>3 DEF TreeChange
<1> QED
  BY <1>1, <1>2, <1>3 DEF Next, Request, Break, vars

LEMMA KindStays ==
  ASSUME Grown, TreeChange, NEW i \in Inodes \ FreshInodes
  PROVE  kind'[i] \in {kind[i], "free"}
<1> USE TreeShape
<1>1. ASSUME Room, NEW what, NEW d, NEW n, New(AnInode, what, d, n)
      PROVE  kind'[i] \in {kind[i], "free"}
  <2>1. AnInode \in FreshInodes
    BY <1>1 DEF Room, AnInode
  <2> QED
    BY <1>1, <2>1, NewShape
<1>2. ASSUME NEW x \in Inodes, Drop(x)
      PROVE  kind'[i] \in {kind[i], "free"}
  BY <1>2, NewShape DEF Drop
<1> QED
  BY <1>1, <1>2 DEF TreeChange, Replacing, tree

(* The directories that a delete has in hand stay what they are: a staging  *)
(* directory is hidden, and so is what was moved into it.                   *)
Folder(i) == kind[i] \in {"dir", "free"}
Tucked(f) ==
  /\ f.at \notin {"stat", "unlink"} => Folder(f.ino)
  /\ f.at \in {"move", "verify", "list", "children", "unstage"} =>
       Folder(f.stage) /\ f.stage \notin Visible
  /\ f.at \in {"list", "children", "unstage"} => f.ino \notin Visible

HoldsTucked(p) ==
  /\ \A k \in 1..Len(frames[p]) : Tucked(frames[p][k])
  /\ \A k \in 2..Len(frames[p]) : frames[p][k].dir = frames[p][k-1].ino

SightIInv == FileIInv /\ NoRounds /\ \A p \in Procs : HoldsTucked(p)

LEMMA HeldIsNotFresh ==
  ASSUME NEW q \in Procs, NEW k \in DOMAIN frames[q]
  PROVE  /\ frames[q][k].ino \notin FreshInodes /\ frames[q][k].stage \notin FreshInodes
         /\ frames[q][k].dir \notin FreshInodes
<1>1. {frames[q][k].dir, frames[q][k].ino, frames[q][k].stage} \subseteq Held(q)
  BY DEF Held
<1> QED
  BY <1>1 DEF FreshInodes

LEMMA TuckedStays ==
  ASSUME Grown, NoRounds, Grown', NoRounds', TreeChange, NEW q \in Procs, NEW k \in DOMAIN frames[q],
         NEW f, f = frames[q][k], Tucked(f), Sure(f)
  PROVE  Tucked(f)'
<1>1. f.ino \notin FreshInodes /\ f.stage \notin FreshInodes
  BY HeldIsNotFresh
<1>2. ASSUME NEW i \in Inodes \ FreshInodes, Folder(i)
      PROVE  Folder(i)' /\ (i \notin Visible => i \notin Visible')
  BY <1>2, KindStays, HiddenStays DEF Folder
<1> QED
  BY <1>1, <1>2 DEF Tucked, Sure

(* A step that leaves the other workers' frames alone has to show its own. *)
LEMMA TuckedStep ==
  ASSUME SightIInv, NEW p \in Procs, OthersSame(p), FileIInv', TreeChange, HoldsTucked(p)'
  PROVE  SightIInv'
<1>1. Grown /\ NoRounds /\ Grown' /\ NoRounds'
  BY NoRoundsStays DEF SightIInv, FileIInv
<1>2. ASSUME NEW q \in Procs \ {p}
      PROVE  HoldsTucked(q)'
  <2>1. frames'[q] = frames[q] /\ frames[q] \in Seq(Frame) /\ HoldsTucked(q) /\ KnowsEntries(q)
    BY DEF OthersSame, SightIInv, FileIInv, LocalTypes, Mine
  <2>2. ASSUME NEW k \in 1..Len(frames[q]) PROVE Tucked(frames[q][k])'
    <3>1. k \in DOMAIN frames[q]
      BY <2>1
    <3>2. PICK f : f = frames[q][k]
      OBVIOUS
    <3>3. Tucked(f) /\ Sure(f)
      BY <2>1, <3>2 DEF HoldsTucked, KnowsEntries
    <3>4. Tucked(f)'
      BY <1>1, <3>1, <3>2, <3>3, TuckedStays
    <3> QED
      BY <2>1, <3>2, <3>4
  <2> QED
    BY <2>1, <2>2 DEF HoldsTucked
<1> QED
  BY <1>1, <1>2 DEF SightIInv

(* A delete's own frames: those above stay, the top becomes f. *)
LEMMA TuckedAdvance ==
  ASSUME SightIInv, NEW p \in Procs, pc[p] = "delete", FileIInv', TreeChange,
         NEW f \in Frame, Advance(p, f), f.dir = Top(p).dir, Tucked(f)'
  PROVE  SightIInv'
<1> DEFINE s == Append(Front(frames[p]), f)
<1>0. FileIInv /\ Grown /\ NoRounds /\ Grown' /\ NoRounds' /\ KnowsEntries(p) /\ HoldsTucked(p)
  BY NoRoundsStays DEF SightIInv, FileIInv, Mine
<1>1. frames[p] \in Seq(Frame) /\ frames[p] # <<>> /\ Len(frames[p]) \in Nat \ {0}
      /\ Top(p) = frames[p][Len(frames[p])]
  BY <1>0, TopIsFrame
<1>2. /\ s \in Seq(Frame) /\ Len(s) = Len(frames[p]) /\ s[Len(s)] = f
      /\ \A k \in 1..(Len(s) - 1) : s[k] = frames[p][k]
  BY <1>1, TopChanges
<1>3. frames'[p] = s /\ OthersSame(p)
  BY DEF Advance, FileIInv, LocalTypes, SightIInv, OthersSame
<1> HIDE DEF s
<1>4. ASSUME NEW k \in 1..Len(s) PROVE Tucked(frames[p][k])'
  <2>1. CASE k = Len(s)
    BY <1>2, <1>3, <2>1
  <2>2. CASE k # Len(s)
    <3>1. k \in 1..(Len(s) - 1) /\ k \in 1..Len(frames[p]) /\ k \in DOMAIN frames[p]
      BY <1>1, <1>2, <2>2
    <3>2. PICK g : g = frames[p][k]
      OBVIOUS
    <3>3. Tucked(g) /\ Sure(g)
      BY <1>0, <3>1, <3>2 DEF HoldsTucked, KnowsEntries
    <3>4. Tucked(g)'
      BY <1>0, <3>1, <3>2, <3>3, TuckedStays
    <3> QED
      BY <1>2, <1>3, <3>1, <3>2, <3>4
  <2> QED
    BY <2>1, <2>2
<1>5. ASSUME NEW k \in 2..Len(s) PROVE s[k].dir = s[k-1].ino
  <2>1. k \in 2..Len(frames[p]) /\ k - 1 \in 1..(Len(s) - 1) /\ (k = Len(s) \/ k \in 1..(Len(s) - 1))
    BY <1>1, <1>2
  <2>2. frames[p][k].dir = frames[p][k-1].ino
    BY <1>0, <2>1 DEF HoldsTucked
  <2> QED
    BY <1>1, <1>2, <2>1, <2>2
<1>6. HoldsTucked(p)'
  BY <1>3, <1>4, <1>5 DEF HoldsTucked
<1> QED
  BY <1>3, <1>6, TuckedStep

LEMMA TuckedFails ==
  ASSUME SightIInv, NEW p \in Procs, Answer(p) \/ Fail(p), FileIInv', TreeChange
  PROVE  SightIInv'
<1>1. OthersSame(p) /\ frames'[p] = <<>>
  BY DEF Answer, Fail, Forget, Goto, SightIInv, FileIInv, LocalTypes, OthersSame
<1>2. HoldsTucked(p)'
  BY <1>1 DEF HoldsTucked
<1> QED
  BY <1>1, <1>2, TuckedStep

LEMMA TuckedDone ==
  ASSUME SightIInv, NEW p \in Procs, pc[p] = "delete", FileIInv', TreeChange, Done(p)
  PROVE  SightIInv'
<1>0. FileIInv /\ Grown /\ NoRounds /\ Grown' /\ NoRounds' /\ KnowsEntries(p) /\ HoldsTucked(p)
  BY NoRoundsStays DEF SightIInv, FileIInv, Mine
<1>1. frames[p] \in Seq(Frame) /\ frames[p] # <<>> /\ Len(frames[p]) \in Nat \ {0}
  BY <1>0, TopIsFrame
<1>2. CASE Answer(p)
  BY <1>2, TuckedFails
<1>3. CASE frames' = [frames EXCEPT ![p] = Front(frames[p])] /\ UNCHANGED <<pc, op, path, to, tmp, failed>>
  <2> DEFINE s == Front(frames[p])
  <2>1. Len(s) = Len(frames[p]) - 1 /\ \A k \in 1..Len(s) : s[k] = frames[p][k]
    BY <1>1, TopGoes
  <2>2. frames'[p] = s /\ OthersSame(p)
    BY <1>3 DEF FileIInv, LocalTypes, SightIInv, OthersSame
  <2> HIDE DEF s
  <2>3. ASSUME NEW k \in 1..Len(s) PROVE Tucked(frames[p][k])'
    <3>1. k \in 1..Len(frames[p]) /\ k \in DOMAIN frames[p]
      BY <1>1, <2>1
    <3>2. PICK g : g = frames[p][k]
      OBVIOUS
    <3>3. Tucked(g) /\ Sure(g)
      BY <1>0, <3>1, <3>2 DEF HoldsTucked, KnowsEntries
    <3>4. Tucked(g)'
      BY <1>0, <3>1, <3>2, <3>3, TuckedStays
    <3> QED
      BY <2>1, <2>2, <3>2, <3>4
  <2>4. ASSUME NEW k \in 2..Len(s) PROVE s[k].dir = s[k-1].ino
    <3>1. k \in 2..Len(frames[p]) /\ k \in 1..Len(s) /\ k - 1 \in 1..Len(s)
      BY <1>1, <2>1
    <3> QED
      BY <1>0, <2>1, <3>1 DEF HoldsTucked
  <2>5. HoldsTucked(p)'
    BY <2>2, <2>3, <2>4 DEF HoldsTucked
  <2> QED
    BY <2>2, <2>5, TuckedStep
<1> QED
  BY <1>2, <1>3 DEF Done

(* Whatever a step does, what the delete in hand relies on stays.            *)
LEMMA TopStays ==
  ASSUME SightIInv, NEW p \in Procs, pc[p] = "delete", FileIInv', TreeChange, NEW f, f = Top(p)
  PROVE  f \in Frame /\ Sure(f) /\ Tucked(f) /\ Tucked(f)'
<1>0. FileIInv /\ Grown /\ NoRounds /\ Grown' /\ NoRounds' /\ KnowsEntries(p) /\ HoldsTucked(p)
  BY NoRoundsStays DEF SightIInv, FileIInv, Mine
<1>1. f = frames[p][Len(frames[p])] /\ Len(frames[p]) \in Nat \ {0} /\ f \in Frame /\ Sure(f)
      /\ frames[p] \in Seq(Frame)
  BY <1>0, TopIsFrame
<1>2. Len(frames[p]) \in 1..Len(frames[p]) /\ Len(frames[p]) \in DOMAIN frames[p]
  BY <1>1
<1>3. Tucked(f)
  BY <1>0, <1>1, <1>2 DEF HoldsTucked
<1> QED
  BY <1>0, <1>1, <1>2, <1>3, TuckedStays

(* One case per step of a delete: what the next frame relies on holds.       *)
LEMMA SightDeletes ==
  ASSUME SightIInv, NEW p \in Procs, DeleteStep(p)
  PROVE  SightIInv'
<1>0. FileIInv /\ Grown /\ NoRounds /\ FileIInv' /\ Grown' /\ NoRounds' /\ TreeChange /\ Mine(p)
  BY DeletesAreGood, DeletesChangeTree, NoRoundsStays DEF SightIInv, FileIInv
<1>f. PICK f : f = Top(p)
  OBVIOUS
<1>t. pc[p] = "delete" => f \in Frame /\ Sure(f) /\ Tucked(f) /\ Tucked(f)'
  BY <1>0, <1>f, TopStays
<1>x. ASSUME Answer(p) \/ Fail(p) PROVE SightIInv'
  BY <1>0, <1>x, TuckedFails
<1>a. ASSUME NEW g \in Frame, pc[p] = "delete", Advance(p, g), g.dir = f.dir, Tucked(g)' PROVE SightIInv'
  BY <1>0, <1>a, <1>f, TuckedAdvance
<1>u. ASSUME NEW i \in Inodes, UNCHANGED tree, pc[p] = "delete"
      PROVE  Folder(i)' <=> Folder(i)
  BY <1>u DEF tree, Folder
<1>1. CASE Anchor(p)
  <2> DEFINE d == IF Len(path[p]) = 1 THEN Root ELSE At(Root, Head(path[p]))
             e == Enter(d, Last(path[p]))
  <2>1. CASE Fail(p)
    BY <1>x, <2>1
  <2>2. CASE Goto(p, "delete") /\ frames' = [frames EXCEPT ![p] = <<e>>] /\ UNCHANGED tmp
    <3>1. e.at = "stat"
      BY DEF Enter
    <3> HIDE DEF e
    <3>2. frames'[p] = <<e>> /\ OthersSame(p)
      BY <1>0, <2>2 DEF FileIInv, LocalTypes, OthersSame, Goto
    <3>3. Len(<<e>>) = 1 /\ <<e>>[1] = e
      OBVIOUS
    <3>4. HoldsTucked(p)'
      BY <3>1, <3>2, <3>3 DEF HoldsTucked, Tucked
    <3> QED
      BY <1>0, <3>2, <3>4, TuckedStep
  <2> QED
    BY <1>1, <2>1, <2>2 DEF Anchor
<1>2. CASE StatEntry(p)
  <2>0. PICK i : i = At(f.dir, f.name)
    OBVIOUS
  <2> DEFINE h == IF IsDir(i) THEN "open" ELSE "unlink"
  <2>1. h \in {"open", "unlink"} /\ (h = "open" => IsDir(i))
    OBVIOUS
  <2> HIDE DEF h
  <2>2. PICK g : g = [f EXCEPT !.ino = i, !.at = h]
    OBVIOUS
  <2>3. CASE Fail(p)
    BY <1>x, <2>3
  <2>4. CASE i # None /\ Advance(p, g)
    <3>1. i \in Inodes /\ pc[p] = "delete" /\ UNCHANGED tree
      BY <1>2, <2>0, <2>4, AtIsEntry DEF StatEntry, Deleting
    <3>2. g \in Frame /\ g.dir = f.dir /\ g.ino = i /\ g.at \in {"open", "unlink"} /\ (g.at = "open" => kind[i] = "dir")
      BY <1>t, <2>1, <2>2, <3>1 DEF Frame, IsDir
    <3>3. Tucked(g)'
      BY <3>1, <3>2, <1>u DEF Tucked, Folder
    <3> QED
      BY <1>a, <2>4, <3>1, <3>2, <3>3
  <2> QED
    BY <1>2, <1>f, <2>0, <2>2, <2>3, <2>4 DEF StatEntry, h
<1>3. CASE UnlinkEntry(p)
  BY <1>0, <1>3, <1>x, TuckedDone DEF UnlinkEntry, Deleting
<1>4. CASE OpenEntry(p)
  <2>1. PICK g : g = [f EXCEPT !.at = "stage"]
    OBVIOUS
  <2>2. pc[p] = "delete" /\ f.at = "open"
    BY <1>4, <1>f DEF OpenEntry, Deleting
  <2>3. g \in Frame /\ g.dir = f.dir /\ g.ino = f.ino /\ g.at = "stage"
    BY <1>t, <2>1, <2>2 DEF Frame
  <2>4. Tucked(g)'
    BY <1>t, <2>2, <2>3 DEF Tucked
  <2> QED
    BY <1>4, <1>a, <1>f, <1>x, <2>1, <2>2, <2>3, <2>4 DEF OpenEntry
<1>5. CASE MakeStage(p)
  <2>0. PICK s : s = AnInode
    OBVIOUS
  <2>1. PICK g : g = [f EXCEPT !.stage = s, !.at = "move"]
    OBVIOUS
  <2>2. pc[p] = "delete" /\ f.at = "stage"
    BY <1>5, <1>f DEF MakeStage, Deleting
  <2>3. CASE Fail(p)
    BY <1>x, <2>3
  <2>4. CASE IsDir(f.dir) /\ Room /\ New(s, "dir", f.dir, AName) /\ Advance(p, g)
    <3>1. s \in Inodes \ {Root} /\ AName \in Private /\ AName \notin Public
      BY <2>0, <2>4, RoomIsThere, NamesAssumption DEF FreshNames
    <3>2. g \in Frame /\ g.dir = f.dir /\ g.ino = f.ino /\ g.stage = s /\ g.at = "move"
      BY <1>t, <2>1, <2>2, <3>1 DEF Frame
    <3>3. kind'[s] = "dir" /\ name'[s] = AName
      BY <1>0, <2>4, <3>1, NewShape, TreeShape
    <3>4. Folder(s)' /\ s \notin Visible'
      BY <1>0, <3>1, <3>3, SightHoldsNext DEF SightFacts, Folder, OneUp
    <3>5. Tucked(g)'
      BY <1>t, <2>2, <3>2, <3>4 DEF Tucked
    <3> QED
      BY <1>a, <2>2, <2>4, <3>2, <3>5
  <2> QED
    BY <1>5, <1>f, <2>0, <2>1, <2>3, <2>4 DEF MakeStage
<1>6. CASE MoveToStage(p)
  <2>1. PICK g : g = [f EXCEPT !.at = "verify"]
    OBVIOUS
  <2>2. pc[p] = "delete" /\ f.at = "move"
    BY <1>6, <1>f DEF MoveToStage, Deleting
  <2>3. g \in Frame /\ g.dir = f.dir /\ g.ino = f.ino /\ g.stage = f.stage /\ g.at = "verify"
    BY <1>t, <2>1, <2>2 DEF Frame
  <2>4. Tucked(g)'
    BY <1>t, <2>2, <2>3 DEF Tucked
  <2> QED
    BY <1>6, <1>a, <1>f, <1>x, <2>1, <2>2, <2>3, <2>4 DEF MoveToStage
<1>7. CASE VerifyMoved(p)
  <2>1. PICK g : g = [f EXCEPT !.at = "list"]
    OBVIOUS
  <2>2. pc[p] = "delete" /\ f.at = "verify" /\ UNCHANGED tree
    BY <1>7, <1>f DEF VerifyMoved, Deleting
  <2>3. g \in Frame /\ g.dir = f.dir /\ g.ino = f.ino /\ g.stage = f.stage /\ g.at = "list"
    BY <1>t, <2>1, <2>2 DEF Frame
  <2>4. CASE At(f.stage, "target") = f.ino /\ Advance(p, g)
    <3>1. f.ino \in Inodes /\ dir[f.ino] = f.stage /\ name[f.ino] = "target" /\ f.stage \in Inodes
      BY <1>t, <2>2, <2>4, AtIsEntry, InodesAssumption DEF Sure
    <3>2. f.ino \notin Visible'
      BY <1>0, <2>2, <3>1, SightHoldsNext, TreeShape, NamesAssumption DEF SightFacts, OneUp, tree
    <3>3. Tucked(g)'
      BY <1>t, <2>2, <2>3, <3>2 DEF Tucked
    <3> QED
      BY <1>a, <2>2, <2>3, <2>4, <3>3
  <2> QED
    BY <1>7, <1>f, <1>x, <2>1, <2>4 DEF VerifyMoved
<1>8. CASE ListEntries(p)
  <2>0. PICK names : names = Entries(f.ino)
    OBVIOUS
  <2>1. PICK g : g = [f EXCEPT !.todo = names, !.at = "children"]
    OBVIOUS
  <2>2. pc[p] = "delete" /\ f.at = "list" /\ Advance(p, g)
    BY <1>8, <1>f, <2>0, <2>1 DEF ListEntries, Deleting
  <2>3. names \subseteq Names
    <3>1. f.ino \in Inodes
      BY <1>t, <2>2 DEF Sure
    <3> QED
      BY <1>0, <2>0, <3>1, InodesAssumption DEF Entries, Within, Grown, IsTree
  <2>4. g \in Frame /\ g.dir = f.dir /\ g.ino = f.ino /\ g.stage = f.stage /\ g.at = "children"
    BY <1>t, <2>1, <2>2, <2>3 DEF Frame
  <2>5. Tucked(g)'
    BY <1>t, <2>2, <2>4 DEF Tucked
  <2> QED
    BY <1>a, <2>2, <2>4, <2>5
<1>9. CASE \E n \in Names : DeleteChild(p, n)
  <2>0. PICK n \in Names : DeleteChild(p, n)
    BY <1>9
  <2>1. PICK g : g = [f EXCEPT !.todo = f.todo \ {n}]
    OBVIOUS
  <2>2. PICK e : e = Enter(f.ino, n)
    OBVIOUS
  <2>t. PICK t : t = Append(Front(frames[p]), g)
    OBVIOUS
  <2>s. PICK s : s = Append(t, e)
    OBVIOUS
  <2>3. pc[p] = "delete" /\ f.at = "children" /\ frames' = [frames EXCEPT ![p] = s]
        /\ UNCHANGED <<pc, tmp>>
    BY <1>f, <2>0, <2>1, <2>2, <2>t, <2>s DEF DeleteChild, Deleting
  <2>4. g \in Frame /\ g.dir = f.dir /\ g.ino = f.ino /\ g.stage = f.stage /\ g.at = "children"
    BY <1>t, <2>1, <2>3 DEF Frame
  <2>5. e \in Frame /\ e.at = "stat" /\ e.dir = f.ino
    BY <1>t, <2>0, <2>2, <2>3 DEF Frame, Enter, Sure
  <2>6. frames[p] \in Seq(Frame) /\ frames[p] # <<>> /\ Len(frames[p]) \in Nat \ {0}
        /\ f = frames[p][Len(frames[p])]
    BY <1>0, <1>f, <2>3, TopIsFrame
  <2>7. /\ t \in Seq(Frame) /\ Len(t) = Len(frames[p]) /\ t[Len(t)] = g
        /\ \A k \in 1..(Len(t) - 1) : t[k] = frames[p][k]
    BY <2>4, <2>6, <2>t, TopChanges
  <2>8. /\ Len(s) = Len(t) + 1 /\ s[Len(s)] = e
        /\ \A k \in 1..Len(t) : s[k] = t[k]
    BY <2>5, <2>7, <2>s, AppendProperties
  <2>9. Tucked(e)' /\ Tucked(g)'
    BY <1>t, <2>3, <2>4, <2>5 DEF Tucked
  <2>10. frames'[p] = s /\ OthersSame(p)
    BY <1>0, <2>3 DEF FileIInv, LocalTypes, OthersSame
  <2>11. ASSUME NEW k \in 1..Len(s) PROVE Tucked(s[k])'
    <3>1. CASE k = Len(s)
      BY <2>8, <2>9, <2>10, <3>1
    <3>2. CASE k = Len(t)
      <4>1. s[k] = g
        BY <2>6, <2>7, <2>8, <3>2
      <4> QED
        BY <2>9, <4>1
    <3>3. CASE k # Len(s) /\ k # Len(t)
      <4>1. k \in 1..(Len(t) - 1) /\ k \in 1..Len(t) /\ k \in DOMAIN frames[p]
        BY <2>6, <2>7, <2>8, <3>3
      <4>2. PICK h : h = frames[p][k]
        OBVIOUS
      <4>3. Tucked(h) /\ Sure(h)
        BY <2>6, <2>7, <4>1, <4>2 DEF SightIInv, FileIInv, Mine, HoldsTucked, KnowsEntries
      <4>4. Tucked(h)'
        BY <1>0, <4>1, <4>2, <4>3, TuckedStays
      <4> QED
        BY <2>7, <2>8, <4>1, <4>2, <4>4
    <3> QED
      BY <3>1, <3>2, <3>3
  <2>12. ASSUME NEW k \in 2..Len(s) PROVE s[k].dir = s[k-1].ino
    <3>1. CASE k = Len(s)
      <4>1. k - 1 = Len(t) /\ k - 1 \in 1..Len(t)
        BY <2>6, <2>7, <2>8, <3>1
      <4>2. s[k-1] = g
        BY <2>7, <2>8, <4>1
      <4> QED
        BY <2>4, <2>5, <2>8, <3>1, <4>2
    <3>2. CASE k # Len(s)
      <4>1. k \in 2..Len(frames[p]) /\ k \in 1..Len(t) /\ k - 1 \in 1..Len(t) /\ k - 1 \in 1..(Len(t) - 1)
            /\ (k = Len(t) \/ k \in 1..(Len(t) - 1))
        BY <2>6, <2>7, <2>8, <3>2
      <4>2. frames[p][k].dir = frames[p][k-1].ino
        BY <4>1 DEF SightIInv, HoldsTucked
      <4>3. s[k] = t[k] /\ s[k-1] = t[k-1] /\ t[k-1] = frames[p][k-1] /\ t[k].dir = frames[p][k].dir
        BY <2>4, <2>6, <2>7, <2>8, <4>1
      <4> QED
        BY <4>2, <4>3
    <3> QED
      BY <3>1, <3>2
  <2>13. HoldsTucked(p)'
    BY <2>10, <2>11, <2>12 DEF HoldsTucked
  <2> QED
    BY <1>0, <2>10, <2>13, TuckedStep
<1>10. CASE RemoveTarget(p)
  <2>1. PICK g : g = [f EXCEPT !.at = "unstage"]
    OBVIOUS
  <2>2. pc[p] = "delete" /\ f.at = "children"
    BY <1>10, <1>f DEF RemoveTarget, Deleting
  <2>3. g \in Frame /\ g.dir = f.dir /\ g.ino = f.ino /\ g.stage = f.stage /\ g.at = "unstage"
    BY <1>t, <2>1, <2>2 DEF Frame
  <2>4. Tucked(g)'
    BY <1>t, <2>2, <2>3 DEF Tucked
  <2> QED
    BY <1>10, <1>a, <1>f, <1>x, <2>1, <2>2, <2>3, <2>4 DEF RemoveTarget
<1>11. CASE RemoveStage(p)
  BY <1>0, <1>11, <1>x, TuckedDone DEF RemoveStage, Deleting
<1> QED
  BY <1>1, <1>2, <1>3, <1>4, <1>5, <1>6, <1>7, <1>8, <1>9, <1>10, <1>11 DEF DeleteStep

LEMMA TuckedRest ==
  ASSUME SightIInv, FileIInv', TreeChange, UNCHANGED frames
  PROVE  SightIInv'
<1>1. Grown /\ NoRounds /\ Grown' /\ NoRounds'
  BY NoRoundsStays DEF SightIInv, FileIInv
<1>2. ASSUME NEW q \in Procs PROVE HoldsTucked(q)'
  <2>1. frames[q] \in Seq(Frame) /\ HoldsTucked(q) /\ KnowsEntries(q)
    BY DEF SightIInv, FileIInv, LocalTypes, Mine
  <2>2. ASSUME NEW k \in 1..Len(frames[q]) PROVE Tucked(frames[q][k])'
    <3>1. k \in DOMAIN frames[q]
      BY <2>1
    <3>2. PICK f : f = frames[q][k]
      OBVIOUS
    <3>3. Tucked(f) /\ Sure(f)
      BY <2>1, <3>2 DEF HoldsTucked, KnowsEntries
    <3>4. Tucked(f)'
      BY <1>1, <3>1, <3>2, <3>3, TuckedStays
    <3> QED
      BY <3>2, <3>4
  <2> QED
    BY <2>1, <2>2 DEF HoldsTucked
<1> QED
  BY <1>1, <1>2 DEF SightIInv

LEMMA SightNext == SightIInv /\ [Next]_vars => SightIInv'
<1> SUFFICES ASSUME SightIInv, [Next]_vars PROVE SightIInv'
  OBVIOUS
<1>1. FileIInv' /\ TreeChange
  BY FilesNext, StepsChangeTree DEF SightIInv
<1>2. ASSUME NEW p \in Procs, Answer(p) \/ Fail(p) PROVE SightIInv'
  BY <1>1, <1>2, TuckedFails
<1>3. ASSUME UNCHANGED frames PROVE SightIInv'
  BY <1>1, <1>3, TuckedRest
<1>4. ASSUME NEW p \in Procs, EditStep(p) PROVE SightIInv'
  <2>1. Answer(p) \/ Fail(p) \/ UNCHANGED frames
    BY <1>4 DEF EditStep, CheckTarget, MakeParents, MakeTemp, ReplaceTarget, MakeDir, CheckRename, Rename
  <2> QED
    BY <1>2, <1>3, <2>1
<1>5. CASE \E p \in Procs : DeleteStep(p) \/ EditStep(p) \/ Break(p)
  BY <1>2, <1>4, <1>5, SightDeletes DEF Break
<1>6. CASE \E p \in Procs, what \in Ops, from \in Paths, dest \in Paths : Request(p, what, from, dest)
  BY <1>3, <1>6 DEF Request
<1>7. CASE \E n \in Public : Link(n)
  BY <1>3, <1>7 DEF Link, local
<1>8. CASE UNCHANGED vars
  BY <1>3, <1>8 DEF vars, local
<1> QED
  BY <1>5, <1>6, <1>7, <1>8 DEF Next

LEMMA SightInit == Init => SightIInv
<1> SUFFICES ASSUME Init PROVE SightIInv
  OBVIOUS
<1>1. NoRounds
  <2>1. PICK t \in Trees : dir = t.dir
    BY DEF Init
  <2> QED
    BY <2>1, TreesAssumption DEF NoRounds
<1>2. ASSUME NEW p \in Procs PROVE HoldsTucked(p)
  <2>1. frames[p] = <<>>
    BY DEF Init
  <2> QED
    BY <2>1 DEF HoldsTucked
<1> QED
  BY <1>1, <1>2, FilesInit DEF SightIInv

(* The entry a staged delete changes is in a hidden directory, or its own    *)
(* hidden staging directory, and stays hidden.                               *)
LEMMA StagedIsUnseen ==
  ASSUME SightIInv, NEW p \in Procs, Staged(p), DeleteStep(p)
  PROVE  UNCHANGED Shown
<1>0. FileIInv /\ Grown /\ NoRounds /\ FileIInv' /\ Grown' /\ NoRounds' /\ TreeChange /\ Mine(p)
  BY DeletesAreGood, DeletesChangeTree, NoRoundsStays DEF SightIInv, FileIInv
<1>s. /\ \A i \in Inodes : i \in Visible <=> i = Root \/ (OneUp(i) /\ dir[i] \in Visible)
      /\ Visible \subseteq Inodes
  BY <1>0, SightHolds DEF SightFacts
<1>f. PICK f : f = Top(p)
  OBVIOUS
<1>t. pc[p] = "delete" => f \in Frame /\ Sure(f) /\ Tucked(f)
  BY <1>0, <1>f, TopStays
<1>n. ASSUME UNCHANGED tree PROVE UNCHANGED Shown
  <2>1. CASE Inodes = Visible
    <3>1. Visible' = Visible
      BY <1>n DEF tree, Visible, Seen
    <3> QED
      BY <1>n, <3>1 DEF tree, Shown
  <2>2. CASE Inodes # Visible
    <3>1. PICK x \in Inodes \ Visible : TRUE
      BY <1>s, <2>2
    <3>2. OneUp(x)' => dir'[x] \in Inodes \ (Visible \cup {x})
      <4>1. OneUp(x) => dir[x] \in Inodes \ Visible
        BY <1>0, <1>s, <3>1, TreeShape DEF OneUp
      <4>2. OneUp(x) => dir[x] # x
        <5>1. {x} \in SUBSET Inodes /\ {x} # {}
          BY <3>1
        <5> QED
          BY <1>0, <5>1 DEF NoRounds
      <4> QED
        BY <1>n, <4>1, <4>2 DEF tree, OneUp
    <3> QED
      BY <1>0, <1>n, <3>1, <3>2, HiddenChangeIsUnseen DEF tree
  <2> QED
    BY <2>1, <2>2
<1>x. ASSUME NEW x \in Inodes \ Visible, NEW what, NEW d, NEW n, n \notin Public, New(x, what, d, n)
      PROVE  UNCHANGED Shown
  <2>1. \A i \in Inodes \ {x} : kind'[i] = kind[i] /\ dir'[i] = dir[i] /\ name'[i] = name[i]
    BY <1>0, <1>x, NewShape, TreeShape
  <2>2. ~OneUp(x)'
    BY <1>0, <1>x, NewShape, TreeShape DEF OneUp
  <2> QED
    BY <1>0, <2>1, <2>2, HiddenChangeIsUnseen
<1>d. ASSUME NEW x \in Inodes \ Visible, Drop(x), dir[x] # None PROVE UNCHANGED Shown
  <2>1. \A i \in Inodes \ {x} : kind'[i] = kind[i] /\ dir'[i] = dir[i] /\ name'[i] = name[i]
    BY <1>0, <1>d, NewShape, TreeShape DEF Drop
  <2>2. ~OneUp(x)'
    BY <1>0, <1>d, NewShape, TreeShape DEF OneUp, Drop
  <2> QED
    BY <1>0, <2>1, <2>2, HiddenChangeIsUnseen
<1>b. ASSUME pc[p] = "delete", f.at \notin {"list", "children", "unstage"}
      PROVE  f.dir \notin Visible
  <2> DEFINE m == Len(frames[p])
  <2>1. frames[p] \in Seq(Frame) /\ m \in Nat \ {0} /\ f = frames[p][m] /\ m > 1
    BY <1>0, <1>b, <1>f, TopIsFrame DEF Staged
  <2> HIDE DEF m
  <2>2. m \in 2..m /\ m - 1 \in 1..(m - 1) /\ m - 1 \in 1..m
    BY <2>1
  <2>3. PICK g : g = frames[p][m - 1]
    OBVIOUS
  <2>4. f.dir = g.ino /\ g.at = "children" /\ Tucked(g)
    BY <1>0, <2>1, <2>2, <2>3 DEF SightIInv, HoldsTucked, Mine, KnowsEntries, m
  <2> QED
    BY <2>4 DEF Tucked
<1>i. ASSUME pc[p] = "delete", f.at \notin {"list", "children", "unstage"},
             NEW i, i = At(f.dir, f.name), i # None
      PROVE  i \in Inodes \ Visible /\ dir[i] # None
  <2>1. i \in Inodes /\ dir[i] = f.dir /\ f.dir \in Inodes
    BY <1>i, <1>t, AtIsEntry DEF Frame
  <2> QED
    BY <1>0, <1>b, <1>i, <1>s, <2>1, TreeShape
<1>1. CASE \/ Anchor(p) \/ StatEntry(p) \/ OpenEntry(p) \/ VerifyMoved(p) \/ ListEntries(p)
           \/ \E n \in Names : DeleteChild(p, n)
  BY <1>1, <1>n DEF Anchor, StatEntry, OpenEntry, VerifyMoved, ListEntries, DeleteChild
<1>2. CASE UnlinkEntry(p)
  <2>1. PICK i : i = At(f.dir, f.name)
    OBVIOUS
  <2> QED
    BY <1>2, <1>d, <1>f, <1>i, <1>n, <2>1 DEF UnlinkEntry, Deleting
<1>3. CASE MakeStage(p)
  <2>1. CASE Room /\ New(AnInode, "dir", f.dir, AName)
    <3>1. PICK x : x = AnInode
      OBVIOUS
    <3>2. x \in Inodes \ {Root} /\ kind[x] = "free" /\ AName \notin Public
      BY <2>1, <3>1, RoomIsThere, NamesAssumption DEF FreshNames
    <3>3. x \notin Visible
      BY <1>0, <1>s, <3>2, TreeShape DEF OneUp
    <3> QED
      BY <1>x, <2>1, <3>1, <3>2, <3>3
  <2> QED
    BY <1>3, <1>f, <1>n, <2>1 DEF MakeStage
<1>4. CASE MoveToStage(p)
  <2>1. PICK i : i = At(f.dir, f.name)
    OBVIOUS
  <2>2. CASE i # None /\ Put(i, f.stage, "target") /\ UNCHANGED kind
    <3>1. i \in Inodes \ Visible
      BY <1>4, <1>f, <1>i, <2>1, <2>2 DEF MoveToStage, Deleting
    <3>2. \A j \in Inodes \ {i} : kind'[j] = kind[j] /\ dir'[j] = dir[j] /\ name'[j] = name[j]
      BY <1>0, <2>2, <3>1, TreeShape DEF Put
    <3>3. ~OneUp(i)'
      BY <1>0, <2>2, <3>1, TreeShape, NamesAssumption DEF Put, OneUp
    <3> QED
      BY <1>0, <3>1, <3>2, <3>3, HiddenChangeIsUnseen
  <2> QED
    BY <1>4, <1>f, <1>n, <2>1, <2>2 DEF MoveToStage
<1>5. CASE RemoveTarget(p)
  <2>1. CASE At(f.stage, "target") = f.ino /\ Drop(f.ino)
    <3>1. f.ino \in Inodes /\ dir[f.ino] # None /\ f.ino \notin Visible
      BY <1>5, <1>f, <1>t, <2>1, AtIsEntry, InodesAssumption DEF RemoveTarget, Deleting, Sure, Tucked
    <3> QED
      BY <1>d, <2>1, <3>1
  <2> QED
    BY <1>5, <1>f, <1>n, <2>1 DEF RemoveTarget
<1>6. CASE RemoveStage(p)
  <2>1. CASE At(f.dir, name[f.stage]) = f.stage /\ Drop(f.stage)
    <3>1. f.stage \in Inodes /\ dir[f.stage] # None /\ f.stage \notin Visible
      BY <1>6, <1>f, <1>t, <2>1, AtIsEntry, InodesAssumption DEF RemoveStage, Deleting, Sure, Tucked, Frame
    <3> QED
      BY <1>d, <2>1, <3>1
  <2> QED
    BY <1>6, <1>f, <1>n, <2>1 DEF RemoveStage
<1> QED
  BY <1>1, <1>2, <1>3, <1>4, <1>5, <1>6 DEF DeleteStep

(* Once a delete has its directory staged, no step of it changes what a user *)
(* sees, whatever other deletes, renames, writes, links and deaths run with  *)
(* it: the removal below, the clean-up and a late step on a directory that   *)
(* was moved away all stay out of sight (project_files.py,                   *)
(* _delete_staged_directory).                                                *)
THEOREM NeverSeenHalfDeleted == Spec => NeverHalfDeleted
<1>1. SightIInv /\ [Next]_vars => [\A p \in Procs : Staged(p) /\ DeleteStep(p) => UNCHANGED Shown]_vars
  BY StagedIsUnseen
<1> QED
  BY <1>1, SightInit, SightNext, PTL DEF Spec, NeverHalfDeleted

-----------------------------------------------------------------------------
(* Nothing is left hidden.  Until a request fails, every temporary file,     *)
(* staging directory and undeleted target is in the hands of a request that  *)
(* goes on to remove it or to give it a public name.                         *)

(* At first there is nothing hidden: no leftovers of failed requests.        *)
Tidy == \A t \in Trees : \A i \in Inodes : t.dir[i] # None => t.name[i] \in Public

(* What a delete, or any request, has in hand: i is its temporary file, its  *)
(* staging directory, or the target in its staging directory.                *)
FrameKeeps(f, i) ==
  \/ f.at \in {"move", "verify", "list", "children", "unstage"} /\ f.stage = i
  \/ f.at \in {"verify", "list", "children"} /\ f.stage = dir[i] /\ name[i] = "target"

Keeps(p, i) ==
  \/ pc[p] = "replace" /\ name[i] = tmp[p]
  \/ pc[p] = "delete" /\ \E k \in 1..Len(frames[p]) : FrameKeeps(frames[p][k], i)

(* A random name is of one inode, so that who replaces it leaves none.       *)
PrivateOnce ==
  \A i, j \in Inodes : dir[i] # None /\ dir[j] # None /\ name[i] \in Private /\ name[j] = name[i] => i = j

HiddenInUse ==
  \A i \in Inodes : dir[i] # None => name[i] \in Public \/ \E p \in Procs : Keeps(p, i)

UseIInv == FileIInv /\ PrivateOnce /\ (~failed => HiddenInUse)

SamePlace(i) == dir'[i] = dir[i] /\ name'[i] = name[i]

LEMMA PrivateOnceStays ==
  ASSUME Grown, PrivateOnce, TreeChange
  PROVE  PrivateOnce'
<1> USE TreeShape
<1>1. ASSUME NEW x, \A i \in Inodes \ {x} : dir'[i] # None => SamePlace(i),
             x \in Inodes /\ dir'[x] # None =>
               name'[x] \notin Private \/ SamePlace(x) \/ name'[x] \in FreshNames
      PROVE  PrivateOnce'
  <2> SUFFICES ASSUME NEW i \in Inodes, NEW j \in Inodes, dir'[i] # None, dir'[j] # None,
                      name'[i] \in Private, name'[j] = name'[i], i # j
               PROVE  FALSE
    BY DEF PrivateOnce
  <2>1. \A k \in Inodes \ {x} : dir'[k] # None => name'[k] \notin FreshNames
    BY <1>1 DEF FreshNames, SamePlace
  <2>2. ~(SamePlace(i) /\ SamePlace(j))
    BY DEF PrivateOnce, SamePlace
  <2> QED
    BY <1>1, <2>1, <2>2
<1>2. CASE UNCHANGED tree
  BY <1>2 DEF tree, PrivateOnce
<1>3. ASSUME Room, NEW what \in {"dir", "file", "link"}, NEW d \in Inodes, NEW n \in Public \cup FreshNames,
             New(AnInode, what, d, n)
      PROVE  PrivateOnce'
  <2>1. PICK x : x = AnInode
    OBVIOUS
  <2>2. x \in Inodes /\ dir' = [dir EXCEPT ![x] = d] /\ name' = [name EXCEPT ![x] = n]
    BY <1>3, <2>1, RoomIsThere, NewShape
  <2> QED
    BY <1>1, <2>2, NamesAssumption DEF SamePlace
<1>4. ASSUME NEW i \in Inodes, Drop(i)
      PROVE  PrivateOnce'
  <2>1. dir' = [dir EXCEPT ![i] = None] /\ name' = [name EXCEPT ![i] = None]
    BY <1>4, NewShape DEF Drop
  <2> QED
    BY <1>1, <2>1 DEF SamePlace
<1>5. ASSUME NEW i \in Inodes, NEW d \in Inodes, NEW n \in Names, n \notin Private, Put(i, d, n)
      PROVE  PrivateOnce'
  <2>1. dir' = [dir EXCEPT ![i] = d] /\ name' = [name EXCEPT ![i] = n]
    BY <1>5 DEF Put
  <2> QED
    BY <1>1, <1>5, <2>1 DEF SamePlace
<1>6. ASSUME NEW t \in Inodes, NEW d \in Inodes, NEW n \in Public, NEW old \in Inodes \cup {None},
             t # old, Replacing(t, d, n, old)
      PROVE  PrivateOnce'
  BY <1>1, <1>6, NamesAssumption DEF SamePlace, Replacing
<1>7. ASSUME NEW i \in Visible, NEW d \in Inodes, NEW n \in Public, Put(i, d, n)
      PROVE  PrivateOnce'
  BY <1>5, <1>7, NamesAssumption DEF Visible, Names
<1>8. ASSUME NEW i \in Inodes, NEW d \in Inodes, Put(i, d, "target")
      PROVE  PrivateOnce'
  BY <1>5, <1>8, NamesAssumption DEF Names
<1>9. CASE \E t, d \in Inodes, n \in Public, old \in Inodes \cup {None} :
             t # old /\ d # t /\ kind[t] = "file" /\ Replacing(t, d, n, old)
  BY <1>6, <1>9
<1>10. CASE \E i \in Visible, d \in Inodes, n \in Public :
              d # i /\ Near(d) /\ dir[i] # None /\ Put(i, d, n) /\ UNCHANGED kind
  BY <1>7, <1>10
<1>11. CASE \E i, d \in Inodes : Put(i, d, "target") /\ UNCHANGED kind
  BY <1>8, <1>11
<1> QED
  BY <1>2, <1>3, <1>4, <1>9, <1>10, <1>11 DEF TreeChange

(* A step of p has to show that p still holds what it held, and what is new. *)
LEMMA UseStep ==
  ASSUME UseIInv, FileIInv', TreeChange, NEW p \in Procs, OthersSame(p),
         ~failed /\ ~failed' =>
           \A i \in Inodes : dir'[i] # None =>
             name'[i] \in Public \/ Keeps(p, i)' \/ (SamePlace(i) /\ (Keeps(p, i) => Keeps(p, i)')),
         failed => failed'
  PROVE  UseIInv'
<1>1. PrivateOnce'
  BY PrivateOnceStays DEF UseIInv, FileIInv
<1>2. ASSUME ~failed, ~failed', NEW i \in Inodes, dir'[i] # None, name'[i] \notin Public
      PROVE  \E q \in Procs : Keeps(q, i)'
  <2>1. CASE Keeps(p, i)'
    BY <2>1
  <2>2. CASE SamePlace(i) /\ ~Keeps(p, i)
    <3>1. PICK q \in Procs : Keeps(q, i)
      BY <1>2, <2>2 DEF UseIInv, HiddenInUse, SamePlace
    <3>2. q # p /\ pc'[q] = pc[q] /\ tmp'[q] = tmp[q] /\ frames'[q] = frames[q]
      BY <2>2, <3>1 DEF OthersSame
    <3>3. Keeps(q, i)'
      BY <2>2, <3>1, <3>2 DEF Keeps, FrameKeeps, SamePlace
    <3> QED
      BY <3>3
  <2> QED
    BY <1>2, <2>1, <2>2
<1> QED
  BY <1>1, <1>2 DEF UseIInv, HiddenInUse

LEMMA UseFails ==
  ASSUME UseIInv, FileIInv', TreeChange, NEW p, Fail(p)
  PROVE  UseIInv'
<1>1. PrivateOnce'
  BY PrivateOnceStays DEF UseIInv, FileIInv
<1> QED
  BY <1>1 DEF Fail, UseIInv

(* A delete that goes on holds what it held in the entries above.            *)
LEMMA KeepsAdvance ==
  ASSUME UseIInv, NEW p \in Procs, pc[p] = "delete", NEW g \in Frame, Advance(p, g), NEW f, f = Top(p)
  PROVE  /\ OthersSame(p)
         /\ \A i \in Inodes : FrameKeeps(g, i)' => Keeps(p, i)'
         /\ \A i \in Inodes : SamePlace(i) /\ Keeps(p, i) => Keeps(p, i)' \/ FrameKeeps(f, i)
<1>0. FileIInv
  BY DEF UseIInv
<1>1. PICK s : s = Append(Front(frames[p]), g)
  OBVIOUS
<1>2. frames[p] \in Seq(Frame) /\ frames[p] # <<>> /\ Len(frames[p]) \in Nat \ {0}
      /\ f = frames[p][Len(frames[p])]
  BY <1>0, TopIsFrame
<1>3. /\ s \in Seq(Frame) /\ Len(s) = Len(frames[p]) /\ s[Len(s)] = g
      /\ \A k \in 1..(Len(s) - 1) : s[k] = frames[p][k]
  BY <1>1, <1>2, TopChanges
<1>4. frames'[p] = s /\ pc'[p] = "delete" /\ OthersSame(p)
  BY <1>0, <1>1 DEF Advance, FileIInv, LocalTypes, OthersSame
<1>5. ASSUME NEW i \in Inodes, FrameKeeps(g, i)' PROVE Keeps(p, i)'
  <2>1. Len(s) \in 1..Len(s)
    BY <1>2, <1>3
  <2> QED
    BY <1>3, <1>4, <1>5, <2>1 DEF Keeps, FrameKeeps
<1>6. ASSUME NEW i \in Inodes, SamePlace(i), Keeps(p, i), ~FrameKeeps(f, i) PROVE Keeps(p, i)'
  <2>1. PICK k \in 1..Len(frames[p]) : FrameKeeps(frames[p][k], i)
    BY <1>6 DEF Keeps
  <2>2. k \in 1..(Len(s) - 1) /\ k \in 1..Len(s)
    BY <1>2, <1>3, <1>6, <2>1
  <2>3. FrameKeeps(s[k], i)
    BY <1>3, <2>1, <2>2
  <2> QED
    BY <1>4, <1>6, <2>2, <2>3 DEF Keeps, FrameKeeps, SamePlace
<1> QED
  BY <1>4, <1>5, <1>6

LEMMA KeepsDone ==
  ASSUME UseIInv, NEW p \in Procs, pc[p] = "delete", Done(p), NEW f, f = Top(p)
  PROVE  /\ OthersSame(p)
         /\ \A i \in Inodes : SamePlace(i) /\ Keeps(p, i) => Keeps(p, i)' \/ FrameKeeps(f, i)
         /\ failed' = failed
<1>0. FileIInv
  BY DEF UseIInv
<1>1. frames[p] \in Seq(Frame) /\ frames[p] # <<>> /\ Len(frames[p]) \in Nat \ {0}
      /\ f = frames[p][Len(frames[p])]
  BY <1>0, TopIsFrame
<1>2. OthersSame(p) /\ failed' = failed
  BY <1>0 DEF Done, Answer, Forget, Goto, FileIInv, LocalTypes, OthersSame
<1>3. ASSUME NEW i \in Inodes, SamePlace(i), Keeps(p, i), ~FrameKeeps(f, i) PROVE Keeps(p, i)'
  <2>1. PICK k \in 1..Len(frames[p]) : FrameKeeps(frames[p][k], i)
    BY <1>3 DEF Keeps
  <2>2. k \in 1..(Len(frames[p]) - 1) /\ Len(frames[p]) # 1
    BY <1>1, <1>3, <2>1
  <2>3. PICK s : s = Front(frames[p])
    OBVIOUS
  <2>4. Len(s) = Len(frames[p]) - 1 /\ s[k] = frames[p][k]
    BY <1>1, <2>2, <2>3, TopGoes
  <2>5. frames'[p] = s /\ pc'[p] = "delete"
    BY <1>0, <2>2, <2>3 DEF Done, FileIInv, LocalTypes
  <2> QED
    BY <1>3, <2>1, <2>2, <2>4, <2>5 DEF Keeps, FrameKeeps, SamePlace
<1> QED
  BY <1>2, <1>3

LEMMA UseAdvance ==
  ASSUME UseIInv, FileIInv', TreeChange, NEW p \in Procs, pc[p] = "delete",
         NEW g \in Frame, Advance(p, g), NEW f, f = Top(p),
         \A i \in Inodes : dir'[i] # None =>
           FrameKeeps(g, i)' \/ (SamePlace(i) /\ ~FrameKeeps(f, i))
  PROVE  UseIInv'
<1>1. failed' = failed
  BY DEF Advance
<1> QED
  BY <1>1, KeepsAdvance, UseStep

LEMMA UseDone ==
  ASSUME UseIInv, FileIInv', TreeChange, NEW p \in Procs, pc[p] = "delete", Done(p), NEW f, f = Top(p),
         \A i \in Inodes : dir'[i] # None => SamePlace(i) /\ ~FrameKeeps(f, i)
  PROVE  UseIInv'
  BY KeepsDone, UseStep

LEMMA NewPlaces ==
  ASSUME Grown, NEW x \in Inodes, NEW what, NEW d, NEW n, New(x, what, d, n)
  PROVE  (\A i \in Inodes \ {x} : SamePlace(i)) /\ dir'[x] = d /\ name'[x] = n
  BY NewShape, TreeShape DEF SamePlace

LEMMA UseDeletes ==
  ASSUME UseIInv, NEW p \in Procs, DeleteStep(p)
  PROVE  UseIInv'
<1>0. FileIInv /\ Grown /\ FileIInv' /\ TreeChange
  BY DeletesAreGood, DeletesChangeTree DEF UseIInv, FileIInv
<1>f. PICK f : f = Top(p)
  OBVIOUS
<1>t. pc[p] = "delete" => f \in Frame /\ Sure(f)
  BY <1>0, <1>f, TopIsFrame
<1>x. ASSUME Fail(p) PROVE UseIInv'
  BY <1>0, <1>x, UseFails
<1>a. ASSUME NEW g \in Frame, pc[p] = "delete", Advance(p, g),
             \A i \in Inodes : dir'[i] # None => FrameKeeps(g, i)' \/ (SamePlace(i) /\ ~FrameKeeps(f, i))
      PROVE  UseIInv'
  BY <1>0, <1>a, <1>f, UseAdvance
<1>d. ASSUME pc[p] = "delete", Done(p),
             \A i \in Inodes : dir'[i] # None => SamePlace(i) /\ ~FrameKeeps(f, i)
      PROVE  UseIInv'
  BY <1>0, <1>d, <1>f, UseDone
<1>s. ASSUME UNCHANGED tree PROVE \A i \in Inodes : SamePlace(i)
  BY <1>s DEF tree, SamePlace
<1>1. CASE Anchor(p)
  <2> DEFINE d == IF Len(path[p]) = 1 THEN Root ELSE At(Root, Head(path[p]))
             e == Enter(d, Last(path[p]))
  <2>1. CASE Goto(p, "delete") /\ frames' = [frames EXCEPT ![p] = <<e>>] /\ UNCHANGED <<tmp, failed>>
    <3> HIDE DEF e
    <3>1. OthersSame(p) /\ failed' = failed
      BY <1>0, <2>1 DEF FileIInv, LocalTypes, OthersSame, Goto
    <3>2. \A i \in Inodes : SamePlace(i) /\ ~Keeps(p, i)
      BY <1>1, <1>s DEF Anchor, Keeps
    <3> QED
      BY <1>0, <3>1, <3>2, UseStep
  <2> QED
    BY <1>1, <1>x, <2>1 DEF Anchor
<1>2. CASE StatEntry(p)
  <2>0. PICK i : i = At(f.dir, f.name)
    OBVIOUS
  <2> DEFINE h == IF IsDir(i) THEN "open" ELSE "unlink"
  <2>1. h \in {"open", "unlink"}
    OBVIOUS
  <2> HIDE DEF h
  <2>2. PICK g : g = [f EXCEPT !.ino = i, !.at = h]
    OBVIOUS
  <2>3. CASE i # None /\ Advance(p, g)
    <3>1. i \in Inodes /\ pc[p] = "delete" /\ f.at = "stat"
      BY <1>2, <1>f, <2>0, <2>3, AtIsEntry DEF StatEntry, Deleting
    <3>2. g \in Frame
      BY <1>t, <2>1, <2>2, <3>1 DEF Frame
    <3>3. \A j \in Inodes : SamePlace(j) /\ ~FrameKeeps(f, j)
      BY <1>2, <1>s, <3>1 DEF StatEntry, FrameKeeps
    <3> QED
      BY <1>a, <2>3, <3>1, <3>2, <3>3
  <2> QED
    BY <1>2, <1>f, <1>x, <2>0, <2>2, <2>3 DEF StatEntry, h
<1>3. CASE UnlinkEntry(p)
  <2>0. PICK i : i = At(f.dir, f.name)
    OBVIOUS
  <2>1. CASE i # None /\ Drop(i) /\ Done(p)
    <3>1. i \in Inodes /\ pc[p] = "delete" /\ f.at = "unlink"
      BY <1>3, <1>f, <2>0, <2>1, AtIsEntry DEF UnlinkEntry, Deleting
    <3>2. \A j \in Inodes : dir'[j] # None => SamePlace(j) /\ ~FrameKeeps(f, j)
      BY <1>0, <2>1, <3>1, NewPlaces DEF Drop, FrameKeeps
    <3> QED
      BY <1>d, <2>1, <3>1, <3>2
  <2> QED
    BY <1>3, <1>f, <1>x, <2>0, <2>1 DEF UnlinkEntry
<1>4. CASE OpenEntry(p)
  <2>1. PICK g : g = [f EXCEPT !.at = "stage"]
    OBVIOUS
  <2>2. pc[p] = "delete" /\ f.at = "open"
    BY <1>4, <1>f DEF OpenEntry, Deleting
  <2>3. g \in Frame
    BY <1>t, <2>1, <2>2 DEF Frame
  <2>4. \A j \in Inodes : SamePlace(j) /\ ~FrameKeeps(f, j)
    BY <1>4, <1>s, <2>2 DEF OpenEntry, FrameKeeps
  <2> QED
    BY <1>4, <1>a, <1>f, <1>x, <2>1, <2>2, <2>3, <2>4 DEF OpenEntry
<1>5. CASE MakeStage(p)
  <2>0. PICK s : s = AnInode
    OBVIOUS
  <2>1. PICK g : g = [f EXCEPT !.stage = s, !.at = "move"]
    OBVIOUS
  <2>2. pc[p] = "delete" /\ f.at = "stage"
    BY <1>5, <1>f DEF MakeStage, Deleting
  <2>3. CASE Room /\ New(s, "dir", f.dir, AName) /\ Advance(p, g)
    <3>1. s \in Inodes
      BY <2>0, <2>3, RoomIsThere
    <3>2. g \in Frame /\ g.stage = s /\ g.at = "move"
      BY <1>t, <2>1, <2>2, <3>1 DEF Frame
    <3>3. FrameKeeps(g, s)'
      BY <3>2 DEF FrameKeeps
    <3>4. \A j \in Inodes \ {s} : SamePlace(j) /\ ~FrameKeeps(f, j)
      BY <1>0, <2>2, <2>3, <3>1, NewPlaces DEF FrameKeeps
    <3> QED
      BY <1>a, <2>2, <2>3, <3>2, <3>3, <3>4
  <2> QED
    BY <1>5, <1>f, <1>x, <2>0, <2>1, <2>3 DEF MakeStage
<1>6. CASE MoveToStage(p)
  <2>0. PICK i : i = At(f.dir, f.name)
    OBVIOUS
  <2>1. PICK g : g = [f EXCEPT !.at = "verify"]
    OBVIOUS
  <2>2. pc[p] = "delete" /\ f.at = "move"
    BY <1>6, <1>f DEF MoveToStage, Deleting
  <2>3. g \in Frame /\ g.stage = f.stage /\ g.at = "verify"
    BY <1>t, <2>1, <2>2 DEF Frame
  <2>4. CASE i # None /\ Put(i, f.stage, "target") /\ Advance(p, g)
    <3>1. i \in Inodes
      BY <2>0, <2>4, AtIsEntry
    <3>2. dir'[i] = g.stage /\ name'[i] = "target" /\ \A j \in Inodes \ {i} : SamePlace(j)
      BY <1>0, <2>3, <2>4, <3>1, TreeShape DEF Put, SamePlace
    <3>3. FrameKeeps(g, i)'
      BY <2>3, <3>2 DEF FrameKeeps
    <3>4. \A j \in Inodes \ {i} : FrameKeeps(g, j)' \/ ~FrameKeeps(f, j)
      BY <2>2, <2>3 DEF FrameKeeps
    <3> QED
      BY <1>a, <2>2, <2>3, <2>4, <3>2, <3>3, <3>4
  <2> QED
    BY <1>6, <1>f, <1>x, <2>0, <2>1, <2>4 DEF MoveToStage
<1>7. CASE VerifyMoved(p)
  <2>1. PICK g : g = [f EXCEPT !.at = "list"]
    OBVIOUS
  <2>2. pc[p] = "delete" /\ f.at = "verify"
    BY <1>7, <1>f DEF VerifyMoved, Deleting
  <2>3. g \in Frame /\ g.stage = f.stage /\ g.at = "list"
    BY <1>t, <2>1, <2>2 DEF Frame
  <2>4. \A j \in Inodes : FrameKeeps(g, j)' \/ (SamePlace(j) /\ ~FrameKeeps(f, j))
    BY <1>7, <1>s, <2>2, <2>3 DEF VerifyMoved, FrameKeeps, SamePlace
  <2> QED
    BY <1>7, <1>a, <1>f, <1>x, <2>1, <2>2, <2>3, <2>4 DEF VerifyMoved
<1>8. CASE ListEntries(p)
  <2>0. PICK names : names = Entries(f.ino)
    OBVIOUS
  <2>1. PICK g : g = [f EXCEPT !.todo = names, !.at = "children"]
    OBVIOUS
  <2>2. pc[p] = "delete" /\ f.at = "list" /\ Advance(p, g)
    BY <1>8, <1>f, <2>0, <2>1 DEF ListEntries, Deleting
  <2>3. names \subseteq Names
    <3>1. f.ino \in Inodes
      BY <1>t, <2>2 DEF Sure
    <3> QED
      BY <1>0, <2>0, <3>1, InodesAssumption DEF Entries, Within, Grown, IsTree
  <2>4. g \in Frame /\ g.stage = f.stage /\ g.at = "children"
    BY <1>t, <2>1, <2>2, <2>3 DEF Frame
  <2>5. \A j \in Inodes : FrameKeeps(g, j)' \/ (SamePlace(j) /\ ~FrameKeeps(f, j))
    BY <1>8, <1>s, <2>2, <2>4 DEF ListEntries, FrameKeeps, SamePlace
  <2> QED
    BY <1>a, <2>2, <2>4, <2>5
<1>9. CASE \E n \in Names : DeleteChild(p, n)
  <2>0. PICK n \in Names : DeleteChild(p, n)
    BY <1>9
  <2>1. PICK g : g = [f EXCEPT !.todo = f.todo \ {n}]
    OBVIOUS
  <2>2. PICK e : e = Enter(f.ino, n)
    OBVIOUS
  <2>t. PICK t : t = Append(Front(frames[p]), g)
    OBVIOUS
  <2>s. PICK s : s = Append(t, e)
    OBVIOUS
  <2>3. pc[p] = "delete" /\ f.at = "children" /\ frames' = [frames EXCEPT ![p] = s]
        /\ UNCHANGED <<pc, tmp, failed>>
    BY <1>f, <2>0, <2>1, <2>2, <2>t, <2>s DEF DeleteChild, Deleting
  <2>4. g \in Frame /\ g.stage = f.stage /\ g.at = f.at
    BY <1>t, <2>1, <2>3 DEF Frame
  <2>5. frames[p] \in Seq(Frame) /\ frames[p] # <<>> /\ Len(frames[p]) \in Nat \ {0}
        /\ f = frames[p][Len(frames[p])]
    BY <1>0, <1>f, <2>3, TopIsFrame
  <2>6. /\ t \in Seq(Frame) /\ Len(t) = Len(frames[p]) /\ t[Len(t)] = g
        /\ \A k \in 1..(Len(t) - 1) : t[k] = frames[p][k]
    BY <2>4, <2>5, <2>t, TopChanges
  <2>7. e \in Frame
    BY <1>t, <2>0, <2>2, <2>3 DEF Frame, Enter, Sure
  <2>8. Len(s) = Len(t) + 1 /\ \A k \in 1..Len(t) : s[k] = t[k]
    BY <2>6, <2>7, <2>s, AppendProperties
  <2>9. frames'[p] = s /\ pc'[p] = "delete" /\ OthersSame(p) /\ failed' = failed
    BY <1>0, <2>3 DEF FileIInv, LocalTypes, OthersSame
  <2>10. ASSUME NEW i \in Inodes, Keeps(p, i) PROVE Keeps(p, i)'
    <3>1. PICK k \in 1..Len(frames[p]) : FrameKeeps(frames[p][k], i)
      BY <2>3, <2>10 DEF Keeps
    <3>2. k \in 1..Len(t) /\ k \in 1..Len(s) /\ (k = Len(t) \/ k \in 1..(Len(t) - 1))
      BY <2>5, <2>6, <2>8
    <3>3. s[k].at = frames[p][k].at /\ s[k].stage = frames[p][k].stage
      BY <2>4, <2>5, <2>6, <2>8, <3>2
    <3>4. SamePlace(i)
      BY <1>s, <2>0 DEF DeleteChild
    <3> QED
      BY <2>9, <3>1, <3>2, <3>3, <3>4 DEF Keeps, FrameKeeps, SamePlace
  <2>11. \A i \in Inodes : SamePlace(i)
    BY <1>s, <2>0 DEF DeleteChild
  <2> QED
    BY <1>0, <2>9, <2>10, <2>11, UseStep
<1>10. CASE RemoveTarget(p)
  <2>1. PICK g : g = [f EXCEPT !.at = "unstage"]
    OBVIOUS
  <2>2. pc[p] = "delete" /\ f.at = "children"
    BY <1>10, <1>f DEF RemoveTarget, Deleting
  <2>3. g \in Frame /\ g.stage = f.stage /\ g.at = "unstage"
    BY <1>t, <2>1, <2>2 DEF Frame
  <2>4. CASE At(f.stage, "target") = f.ino /\ Drop(f.ino) /\ Advance(p, g)
    <3>1. f.ino \in Inodes /\ f.stage \in Inodes /\ dir[f.ino] = f.stage /\ name[f.ino] = "target"
      BY <1>t, <2>2, <2>4, AtIsEntry, InodesAssumption DEF Sure
    <3>2. dir'[f.ino] = None /\ \A j \in Inodes \ {f.ino} : SamePlace(j)
      BY <1>0, <2>4, <3>1, NewPlaces DEF Drop
    <3>3. ASSUME NEW j \in Inodes \ {f.ino}, FrameKeeps(f, j) PROVE FrameKeeps(g, j)'
      <4>1. ~(dir[j] = f.stage /\ name[j] = "target")
        BY <1>0, <3>1, InodesAssumption DEF Grown, IsTree
      <4> QED
        BY <2>3, <3>3, <4>1 DEF FrameKeeps
    <3> QED
      BY <1>a, <2>2, <2>3, <2>4, <3>2, <3>3
  <2> QED
    BY <1>10, <1>f, <1>x, <2>1, <2>4 DEF RemoveTarget
<1>11. CASE RemoveStage(p)
  <2>1. CASE At(f.dir, name[f.stage]) = f.stage /\ Drop(f.stage) /\ Done(p)
    <3>1. pc[p] = "delete" /\ f.at = "unstage" /\ f.stage \in Inodes
      BY <1>11, <1>f, <1>t DEF RemoveStage, Deleting, Sure
    <3>2. \A j \in Inodes : dir'[j] # None => SamePlace(j) /\ ~FrameKeeps(f, j)
      BY <1>0, <2>1, <3>1, NewPlaces DEF Drop, FrameKeeps
    <3> QED
      BY <1>d, <2>1, <3>1, <3>2
  <2> QED
    BY <1>11, <1>f, <1>x, <2>1 DEF RemoveStage
<1> QED
  BY <1>1, <1>2, <1>3, <1>4, <1>5, <1>6, <1>7, <1>8, <1>9, <1>10, <1>11 DEF DeleteStep

LEMMA IdlesElsewhere ==
  ASSUME FileIInv, NEW p \in Procs, Answer(p)
  PROVE  OthersSame(p) /\ failed' = failed
  BY DEF Answer, Forget, Goto, FileIInv, LocalTypes, OthersSame

LEMMA GoesElsewhere ==
  ASSUME FileIInv, NEW p \in Procs, NEW step, Goto(p, step), UNCHANGED <<tmp, frames, failed>>
  PROVE  OthersSame(p) /\ failed' = failed /\ pc'[p] = step
  BY DEF Goto, FileIInv, LocalTypes, OthersSame

(* One case per step of the other requests.                                  *)
LEMMA UseEdits ==
  ASSUME UseIInv, NEW p \in Procs, EditStep(p)
  PROVE  UseIInv'
<1>0. /\ FileIInv /\ Grown /\ FileIInv' /\ TreeChange /\ Mine(p)
      /\ path[p] \in Paths /\ to[p] \in Paths
  BY EditsAreGood, EditsChangeTree DEF UseIInv, FileIInv, LocalTypes
<1>x. ASSUME Fail(p) PROVE UseIInv'
  BY <1>0, <1>x, UseFails
<1>g. ASSUME OthersSame(p), failed' = failed,
             \A i \in Inodes : dir'[i] # None =>
               name'[i] \in Public \/ Keeps(p, i)' \/ (SamePlace(i) /\ ~Keeps(p, i))
      PROVE  UseIInv'
  BY <1>0, <1>g, UseStep
<1>s. ASSUME UNCHANGED tree, OthersSame(p), failed' = failed, pc[p] \notin {"replace", "delete"}
      PROVE  UseIInv'
  <2>1. \A i \in Inodes : SamePlace(i) /\ ~Keeps(p, i)
    BY <1>s DEF tree, SamePlace, Keeps
  <2> QED
    BY <1>g, <1>s, <2>1
<1>n. ASSUME OthersSame(p), failed' = failed, pc[p] \notin {"replace", "delete"},
             NEW x \in Inodes, NEW what, NEW d, NEW n \in Public, New(x, what, d, n)
      PROVE  UseIInv'
  <2>1. name'[x] \in Public /\ \A i \in Inodes \ {x} : SamePlace(i) /\ ~Keeps(p, i)
    BY <1>0, <1>n, NewPlaces DEF Keeps
  <2> QED
    BY <1>g, <1>n, <2>1
<1>1. CASE CheckTarget(p)
  <2>1. CASE Goto(p, "parents") /\ UNCHANGED <<tmp, frames, failed>>
    BY <1>0, <1>1, <1>s, <2>1, GoesElsewhere DEF CheckTarget
  <2> QED
    BY <1>1, <1>x, <2>1 DEF CheckTarget
<1>2. CASE MakeParents(p)
  <2>1. PICK step : step = IF op[p] = "write" THEN "mkstemp" ELSE "make"
    OBVIOUS
  <2>2. CASE Goto(p, step) /\ UNCHANGED tree /\ UNCHANGED <<tmp, frames, failed>>
    BY <1>0, <1>2, <1>s, <2>2, GoesElsewhere DEF MakeParents
  <2>3. CASE /\ Room /\ New(AnInode, "dir", Root, Head(path[p])) /\ Goto(p, step)
             /\ UNCHANGED <<tmp, frames, failed>>
    <3>1. AnInode \in Inodes /\ Head(path[p]) \in Public
      BY <1>0, <2>3, RoomIsThere, PathShape
    <3> QED
      BY <1>0, <1>2, <1>n, <2>3, <3>1, GoesElsewhere DEF MakeParents
  <2> QED
    BY <1>2, <1>x, <2>1, <2>2, <2>3 DEF MakeParents
<1>3. CASE MakeTemp(p)
  <2>1. PICK d : d = Parent(path[p])
    OBVIOUS
  <2>2. PICK x : x = AnInode
    OBVIOUS
  <2>3. PICK n : n = AName
    OBVIOUS
  <2>4. CASE /\ Room /\ New(x, "file", d, n) /\ tmp' = [tmp EXCEPT ![p] = n] /\ Goto(p, "replace")
             /\ UNCHANGED failed /\ UNCHANGED frames
    <3>1. x \in Inodes
      BY <2>2, <2>4, RoomIsThere
    <3>2. OthersSame(p) /\ failed' = failed /\ pc'[p] = "replace" /\ tmp'[p] = n
      BY <1>0, <2>4 DEF Goto, FileIInv, LocalTypes, OthersSame
    <3>3. name'[x] = n /\ \A i \in Inodes \ {x} : SamePlace(i) /\ ~Keeps(p, i)
      BY <1>0, <1>3, <2>4, <3>1, NewPlaces DEF Keeps, MakeTemp
    <3>4. Keeps(p, x)'
      BY <3>2, <3>3 DEF Keeps
    <3> QED
      BY <1>g, <3>2, <3>3, <3>4
  <2> QED
    BY <1>3, <1>x, <2>1, <2>2, <2>3, <2>4 DEF MakeTemp
<1>4. CASE ReplaceTarget(p)
  <2> DEFINE d == Parent(path[p])
             t == IF IsDir(d) THEN At(d, tmp[p]) ELSE None
             old == IF IsDir(d) THEN At(d, Last(path[p])) ELSE None
  <2>1. CASE t # None /\ Replacing(t, d, Last(path[p]), old) /\ Answer(p)
    <3>1. d \in Inodes /\ Last(path[p]) \in Public /\ pc[p] = "replace" /\ tmp[p] \in Private
      BY <1>0, <1>4, <2>1, ParentIsInode, PathShape DEF IsDir, ReplaceTarget, Mine, OwnsTemp
    <3>2. t \in Inodes /\ dir[t] = d /\ name[t] = tmp[p]
      BY <2>1, AtIsEntry
    <3>3. OthersSame(p) /\ failed' = failed
      BY <1>0, <2>1, IdlesElsewhere
    <3> HIDE DEF d, t, old
    <3>4. ASSUME NEW i \in Inodes \ {t}, dir'[i] # None PROVE SamePlace(i) /\ ~Keeps(p, i)
      <4>1. SamePlace(i)
        BY <2>1, <3>4 DEF Replacing, SamePlace
      <4>2. name[i] # tmp[p]
        BY <3>1, <3>2, <3>4, <4>1, InodesAssumption DEF UseIInv, PrivateOnce, SamePlace
      <4> QED
        BY <3>1, <4>1, <4>2 DEF Keeps
    <3>5. name'[t] \in Public
      BY <2>1, <3>1, <3>2 DEF Replacing
    <3> QED
      BY <1>g, <3>3, <3>4, <3>5
  <2> QED
    BY <1>4, <1>x, <2>1 DEF ReplaceTarget, Replacing
<1>5. CASE MakeDir(p)
  <2>1. CASE /\ Room /\ New(AnInode, "dir", Parent(path[p]), Last(path[p])) /\ Answer(p)
    <3>1. AnInode \in Inodes /\ Last(path[p]) \in Public
      BY <1>0, <2>1, RoomIsThere, PathShape
    <3> QED
      BY <1>0, <1>5, <1>n, <2>1, <3>1, IdlesElsewhere DEF MakeDir
  <2> QED
    BY <1>5, <1>x, <2>1 DEF MakeDir
<1>6. CASE CheckRename(p)
  <2>1. CASE Goto(p, "rename") /\ UNCHANGED <<tmp, frames, failed>>
    BY <1>0, <1>6, <1>s, <2>1, GoesElsewhere DEF CheckRename
  <2> QED
    BY <1>6, <1>x, <2>1 DEF CheckRename
<1>7. CASE Rename(p)
  <2>1. PICK dest : dest = Parent(to[p])
    OBVIOUS
  <2>2. PICK i : i = IF IsDir(Parent(path[p])) THEN At(Parent(path[p]), Last(path[p])) ELSE None
    OBVIOUS
  <2>3. CASE i # None /\ Put(i, dest, Last(to[p])) /\ Answer(p)
    <3>1. i \in Inodes /\ Last(to[p]) \in Public
      BY <1>0, <2>2, <2>3, AtIsEntry, PathShape
    <3>2. name'[i] \in Public /\ \A j \in Inodes \ {i} : SamePlace(j) /\ ~Keeps(p, j)
      BY <1>0, <1>7, <2>3, <3>1, TreeShape DEF Put, SamePlace, Keeps, Rename
    <3> QED
      BY <1>0, <1>g, <2>3, <3>2, IdlesElsewhere
  <2> QED
    BY <1>7, <1>x, <2>1, <2>2, <2>3 DEF Rename
<1> QED
  BY <1>1, <1>2, <1>3, <1>4, <1>5, <1>6, <1>7 DEF EditStep

LEMMA UseNext == UseIInv /\ [Next]_vars => UseIInv'
<1> SUFFICES ASSUME UseIInv, [Next]_vars PROVE UseIInv'
  OBVIOUS
<1>1. FileIInv /\ Grown /\ FileIInv' /\ TreeChange /\ PrivateOnce'
  BY FilesNext, StepsChangeTree, PrivateOnceStays DEF UseIInv, FileIInv
<1>2. CASE \E p \in Procs : DeleteStep(p) \/ EditStep(p) \/ Break(p)
  BY <1>1, <1>2, UseDeletes, UseEdits, UseFails DEF Break
<1>3. CASE \E p \in Procs, what \in Ops, from \in Paths, dest \in Paths : Request(p, what, from, dest)
  <2>1. PICK p \in Procs, step \in {"anchor", "check"} :
          pc[p] = "idle" /\ Goto(p, step) /\ UNCHANGED <<tree, tmp, frames, failed>>
    BY <1>3 DEF Request
  <2>2. OthersSame(p) /\ failed' = failed
    BY <1>1, <2>1, GoesElsewhere
  <2>3. \A i \in Inodes : SamePlace(i) /\ ~Keeps(p, i)
    BY <2>1 DEF tree, SamePlace, Keeps
  <2> QED
    BY <1>1, <2>2, <2>3, UseStep
<1>4. CASE \E n \in Public : Link(n)
  <2>1. PICK n \in Public : Room /\ New(AnInode, "link", Root, n) /\ UNCHANGED <<pc, tmp, frames, failed>>
    BY <1>4 DEF Link, local
  <2>2. PICK x : x = AnInode
    OBVIOUS
  <2>3. x \in Inodes /\ name'[x] = n /\ \A i \in Inodes \ {x} : SamePlace(i)
    BY <1>1, <2>1, <2>2, RoomIsThere, NewPlaces
  <2>4. ASSUME NEW i \in Inodes \ {x}, NEW p \in Procs, Keeps(p, i) PROVE Keeps(p, i)'
    BY <2>1, <2>3, <2>4 DEF Keeps, FrameKeeps, SamePlace
  <2>5. HiddenInUse => HiddenInUse'
    BY <2>3, <2>4 DEF HiddenInUse, SamePlace
  <2> QED
    BY <1>1, <2>1, <2>5 DEF UseIInv
<1>5. CASE UNCHANGED vars
  <2>1. UNCHANGED <<kind, dir, name, pc, tmp, frames, failed>>
    BY <1>5 DEF vars, tree, local
  <2>2. \A p \in Procs, i \in Inodes : Keeps(p, i)' <=> Keeps(p, i)
    BY <2>1 DEF Keeps, FrameKeeps
  <2> QED
    BY <1>1, <2>1, <2>2 DEF UseIInv, HiddenInUse
<1> QED
  BY <1>2, <1>3, <1>4, <1>5 DEF Next

LEMMA UseInit == Init /\ Tidy => UseIInv
<1> SUFFICES ASSUME Init, Tidy PROVE UseIInv
  OBVIOUS
<1>1. \A i \in Inodes : dir[i] # None => name[i] \in Public
  BY DEF Init, Tidy
<1> QED
  BY <1>1, FilesInit, NamesAssumption DEF UseIInv, PrivateOnce, HiddenInUse

(* While every request has answered ok, all that a user cannot see is in the *)
(* hands of a request under way: a write's temporary file, a delete's        *)
(* staging directory or the directory it has moved into one                  *)
(* (project_files.py, write and _stage_directory_at).                        *)
THEOREM HiddenIsInHand == Tidy /\ Spec => [](~failed => HiddenInUse)
<1>1. UseIInv => (~failed => HiddenInUse)
  BY DEF UseIInv
<1> QED
  BY <1>1, UseInit, UseNext, PTL DEF Spec

(* So when all requests are done and all answered ok, everything there is    *)
(* can be seen and named: no temporary file, no staging directory and        *)
(* nothing undeleted is left behind (project_files.py, every request).       *)
THEOREM NothingStaysHidden == Tidy /\ Spec => []NothingHidden
<1>1. SightIInv /\ UseIInv => NothingHidden
  <2> SUFFICES ASSUME SightIInv, UseIInv, \A p \in Procs : pc[p] = "idle", ~failed,
                      NEW i \in Inodes, kind[i] # "free", i \notin Visible
               PROVE  FALSE
    BY DEF NothingHidden
  <2>1. Grown /\ NoRounds
    BY DEF SightIInv, FileIInv
  <2>2. \A j \in Inodes : j \in Visible <=> j = Root \/ (OneUp(j) /\ dir[j] \in Visible)
    BY <2>1, SightHolds DEF SightFacts
  <2>3. \A j \in Inodes : dir[j] # None => OneUp(j)
    BY DEF UseIInv, HiddenInUse, Keeps, OneUp
  <2>4. PICK S : S = {j \in Inodes : kind[j] # "free" /\ j \notin Visible}
    OBVIOUS
  <2>5. ASSUME NEW j \in S PROVE OneUp(j) /\ dir[j] \in S
    <3>1. j # Root /\ dir[j] # None /\ dir[j] \in Inodes /\ kind[dir[j]] = "dir"
      BY <2>1, <2>2, <2>4, <2>5, InodesAssumption DEF Grown, IsTree
    <3> QED
      BY <2>2, <2>3, <2>4, <2>5, <3>1
  <2>6. S \in SUBSET Inodes /\ S # {}
    BY <2>4
  <2> QED
    BY <2>1, <2>5, <2>6 DEF NoRounds
<1> QED
  BY <1>1, SightInit, SightNext, UseInit, UseNext, PTL DEF Spec
=============================================================================
