----------------------------- MODULE ProjectFiles ----------------------------
(***************************************************************************)
(* The GUI's file requests on one project (_django/project_files.py):      *)
(* write, mkdir, rename and delete, served by concurrent workers, while    *)
(* other programs work in the directory too.  A delete is anchored to open *)
(* descriptors: it moves a directory into a private staging directory,     *)
(* checks that it moved what it had looked at, and empties it there.       *)
(*                                                                         *)
(* An inode stands at one place, an entry name in a directory; paths are   *)
(* resolved name by name whenever the code uses one.                       *)
(***************************************************************************)
EXTENDS Integers, Sequences, FiniteSets, SequencesExt

CONSTANTS
  Procs,       \* workers serving requests
  Serves,      \* Serves[p]: the kinds of request p serves
  Public,      \* entry names users use
  Paths,       \* the paths requests name, of one or two names
  Private,     \* random names: of temporary files and of staging directories
  LinkTo,      \* the public name, in the root, that symlinks point to
  Inodes, Root,
  None,        \* no inode
  Trees,       \* the directory trees there may be at first
  MaxRequests, \* bound: requests each worker starts
  MaxLinks     \* bound: symlinks made by other programs

Ops   == {"write", "mkdir", "rename", "delete"}
Names == Public \cup Private \cup {"target"}

(* Every inode but the root and the free ones is one entry of a directory,   *)
(* and no two are the same.                                                  *)
IsTree(is, in, called) ==
  /\ is \in [Inodes -> {"free", "dir", "file", "link"}] /\ is[Root] = "dir"
  /\ in \in [Inodes -> Inodes \cup {None}] /\ called \in [Inodes -> Names \cup {None}]
  /\ \A i, j \in Inodes : i # j /\ in[i] # None => <<in[i], called[i]>> # <<in[j], called[j]>>
  /\ \A i \in Inodes : (in[i] = None) <=> (is[i] = "free" \/ i = Root)
  /\ \A i \in Inodes : in[i] # None => is[in[i]] = "dir" /\ called[i] \in Names

ASSUME InodesAssumption == Root \in Inodes /\ None \notin Inodes
ASSUME NamesAssumption  ==
  Public \cap Private = {} /\ "target" \notin Public \cup Private /\ LinkTo \in Public
ASSUME TreesAssumption  ==
  \A t \in Trees : /\ IsTree(t.kind, t.dir, t.name)
                   /\ \A S \in SUBSET Inodes : S # {} => \E i \in S : t.dir[i] \notin S
ASSUME PathsAssumption  == Paths # {} /\ Paths \subseteq BoundedSeq(Public, 2) \ {<<>>}
ASSUME LinksAssumption  ==
  \A names \in Paths : <<LinkTo>> \in Paths /\ (Len(names) = 2 => <<LinkTo, Last(names)>> \in Paths)
ASSUME ServesAssumption == Serves \in [Procs -> SUBSET Ops]
ASSUME RequestBounds    == MaxRequests \in [Procs -> Nat] /\ MaxLinks \in Nat

VARIABLES
  kind, dir, name, \* each inode: what it is, and its place
  pc, op,          \* each worker: its next call, for what request
  path, to,        \* the request's path, and rename's destination
  tmp,             \* its temporary file's name
  frames,          \* delete: the entries it is in the middle of, outermost first
  requests, links,
  failed           \* history: some request did not answer ok

tree  == <<kind, dir, name>>
local == <<pc, op, path, to, tmp, frames>>
vars  == <<tree, local, requests, links, failed>>

IsDir(i) == i # None /\ kind[i] = "dir"

(* A delete's hold on one entry: the descriptor and name it goes by, the     *)
(* inode it saw there, the staging directory, the names still to be deleted. *)
Frame ==
  [at : {"stat", "unlink", "open", "stage", "move", "verify", "list", "children", "unstage"},
   dir : Inodes, name : Names, ino : Inodes \cup {None}, stage : Inodes \cup {None},
   todo : SUBSET Names]

TypeOK ==
  /\ IsTree(kind, dir, name)
  /\ pc \in [Procs -> {"idle", "check", "parents", "mkstemp", "replace", "make",
                       "rename", "anchor", "delete"}]
  /\ op \in [Procs -> Ops]
  /\ path \in [Procs -> Paths] /\ to \in [Procs -> Paths]
  /\ tmp \in [Procs -> Private \cup {None}]
  /\ frames \in [Procs -> Seq(Frame)]
  /\ requests \in [Procs -> Nat] /\ (\A p \in Procs : requests[p] <= MaxRequests[p])
  /\ links \in 0..MaxLinks /\ failed \in BOOLEAN

-----------------------------------------------------------------------------
(* The filesystem *)

At(d, n) == IF \E i \in Inodes : dir[i] = d /\ name[i] = n
            THEN CHOOSE i \in Inodes : dir[i] = d /\ name[i] = n
            ELSE None
Within(d) == {i \in Inodes : dir[i] = d}
Entries(d) == {name[i] : i \in Within(d)}

(* Paths are followed through symlinks, which lead to one entry of the root. *)
IsLink(i) == i # None /\ kind[i] = "link"
Follow(i) ==
  LET t == At(Root, LinkTo) IN IF ~IsLink(i) THEN i ELSE IF IsLink(t) THEN None ELSE t
Parent(names) == IF Len(names) = 1 THEN Root ELSE Follow(At(Root, Head(names)))
Resolve(names) == IF IsDir(Parent(names)) THEN Follow(At(Parent(names), Last(names))) ELSE None

Put(i, d, n)  == dir' = [dir EXCEPT ![i] = d] /\ name' = [name EXCEPT ![i] = n]
New(i, what, d, n) == kind' = [kind EXCEPT ![i] = what] /\ Put(i, d, n)
Drop(i) == New(i, "free", None, None)

(* Inodes and random names nobody uses, or holds open. *)
Held(p) ==
  UNION {{frames[p][k].dir, frames[p][k].ino, frames[p][k].stage} : k \in DOMAIN frames[p]}
FreshInodes == {i \in Inodes \ {Root} : kind[i] = "free" /\ \A p \in Procs : i \notin Held(p)}
FreshNames  == {s \in Private : (\A i \in Inodes : name[i] # s) /\ \A p \in Procs : tmp[p] # s}
AnInode == CHOOSE i \in FreshInodes : TRUE
AName   == CHOOSE s \in FreshNames : TRUE
Room    == FreshInodes # {} /\ FreshNames # {}

(* What is seen of the project under the names that users give.  list_files  *)
(* also lists a private name, while there is one.                            *)
Seen[i \in Inodes] ==
  i = Root \/ (dir[i] # None /\ name[i] \in Public /\ Seen[dir[i]])
Visible == {i \in Inodes : Seen[i]}

AnyPath == CHOOSE q \in Paths : TRUE
AnyOp   == "delete"

Init ==
  /\ \E t \in Trees : kind = t.kind /\ dir = t.dir /\ name = t.name
  /\ pc = [p \in Procs |-> "idle"] /\ op = [p \in Procs |-> AnyOp]
  /\ path = [p \in Procs |-> AnyPath] /\ to = [p \in Procs |-> AnyPath]
  /\ tmp = [p \in Procs |-> None] /\ frames = [p \in Procs |-> <<>>]
  /\ requests = [p \in Procs |-> 0] /\ links = 0 /\ failed = FALSE

-----------------------------------------------------------------------------
Goto(p, step) == pc' = [pc EXCEPT ![p] = step]

Forget(p) ==
  /\ Goto(p, "idle")
  /\ op' = [op EXCEPT ![p] = AnyOp]
  /\ path' = [path EXCEPT ![p] = AnyPath] /\ to' = [to EXCEPT ![p] = AnyPath]
  /\ tmp' = [tmp EXCEPT ![p] = None] /\ frames' = [frames EXCEPT ![p] = <<>>]

Answer(p) == Forget(p) /\ UNCHANGED failed
Fail(p)   == Forget(p) /\ failed' = TRUE

(* A request comes in. *)
Request(p, what, from, dest) ==
  /\ pc[p] = "idle" /\ requests[p] < MaxRequests[p] /\ what \in Serves[p]
  /\ what # "rename" => dest = AnyPath
  /\ Goto(p, IF what = "delete" THEN "anchor" ELSE "check")
  /\ op' = [op EXCEPT ![p] = what]
  /\ path' = [path EXCEPT ![p] = from] /\ to' = [to EXCEPT ![p] = dest]
  /\ requests' = [requests EXCEPT ![p] = @ + 1]
  /\ UNCHANGED <<tree, tmp, frames, links, failed>>

(* _contained and _contained_for_write: symlinks in the path are resolved    *)
(* now; an ancestor that is there and no directory refuses the request.      *)
Followed(names) ==
  LET above == IF Len(names) = 2 /\ IsLink(At(Root, Head(names)))
               THEN <<LinkTo, Last(names)>> ELSE names
      parent == IF Len(above) = 1 THEN Root ELSE At(Root, Head(above))
  IN IF parent # None /\ IsLink(At(parent, Last(above))) THEN <<LinkTo>> ELSE above
Ancestors(names) == Len(names) = 2 => At(Root, Head(names)) = None \/ IsDir(At(Root, Head(names)))

CheckTarget(p) ==
  LET full == Followed(path[p]) IN
  /\ pc[p] = "check" /\ op[p] \in {"write", "mkdir"}
  /\ IF Ancestors(full) /\ (op[p] = "mkdir" => Resolve(full) = None)
     THEN /\ path' = [path EXCEPT ![p] = full]
          /\ Goto(p, "parents")
          /\ UNCHANGED <<op, to, tmp, frames, failed>>
     ELSE Fail(p)
  /\ UNCHANGED <<tree, requests, links>>

(* mkdir(parents=True, exist_ok=True) of the parent. *)
MakeParents(p) ==
  LET next == IF op[p] = "write" THEN "mkstemp" ELSE "make"
      parent == At(Root, Head(path[p]))
  IN
  /\ pc[p] = "parents"
  /\ \/ /\ IsDir(Parent(path[p]))
        /\ Goto(p, next)
        /\ UNCHANGED <<tree, op, path, to, tmp, frames, failed>>
     \/ /\ ~IsDir(Parent(path[p])) /\ parent # None
        /\ Fail(p)
        /\ UNCHANGED tree
     \/ /\ parent = None /\ Len(path[p]) = 2 /\ Room
        /\ New(AnInode, "dir", Root, Head(path[p]))
        /\ Goto(p, next)
        /\ UNCHANGED <<op, path, to, tmp, frames, failed>>
  /\ UNCHANGED <<requests, links>>

(* write: mkstemp makes a file of a random name in the target's directory. *)
MakeTemp(p) ==
  LET d == Parent(path[p]) IN
  /\ pc[p] = "mkstemp"
  /\ IF IsDir(d)
     THEN /\ Room
          /\ New(AnInode, "file", d, AName)
          /\ tmp' = [tmp EXCEPT ![p] = AName]
          /\ Goto(p, "replace")
          /\ UNCHANGED <<op, path, to, frames, failed>>
     ELSE Fail(p) /\ UNCHANGED tree
  /\ UNCHANGED <<requests, links>>

(* os.replace by path: the directory may be another one by now.  A full disk *)
(* or a failed replace unlinks the temporary file, if it is where it was.    *)
ReplaceTarget(p) ==
  LET d == Parent(path[p])
      t == IF IsDir(d) THEN At(d, tmp[p]) ELSE None
      old == IF IsDir(d) THEN At(d, Last(path[p])) ELSE None
  IN
  /\ pc[p] = "replace"
  /\ \/ /\ t # None /\ ~IsDir(old)
        /\ kind' = [i \in Inodes |-> IF i = old THEN "free" ELSE kind[i]]
        /\ dir' = [i \in Inodes |-> IF i = t THEN d ELSE IF i = old THEN None ELSE dir[i]]
        /\ name' = [i \in Inodes |-> IF i = t THEN Last(path[p]) ELSE IF i = old THEN None ELSE name[i]]
        /\ Answer(p)
     \/ /\ IF t = None THEN UNCHANGED tree ELSE Drop(t)
        /\ Fail(p)
  /\ UNCHANGED <<requests, links>>

(* mkdir: the last component, which must still be free. *)
MakeDir(p) ==
  LET d == Parent(path[p]) IN
  /\ pc[p] = "make"
  /\ IF IsDir(d) /\ At(d, Last(path[p])) = None
     THEN /\ Room
          /\ New(AnInode, "dir", d, Last(path[p]))
          /\ Answer(p)
     ELSE Fail(p) /\ UNCHANGED tree
  /\ UNCHANGED <<requests, links>>

(* rename: the source must be there and the destination not ... *)
CheckRename(p) ==
  /\ pc[p] = "check" /\ op[p] = "rename"
  /\ IF Resolve(path[p]) # None /\ Resolve(to[p]) = None
     THEN /\ Goto(p, "rename")
          /\ UNCHANGED <<op, path, to, tmp, frames, failed>>
     ELSE Fail(p)
  /\ UNCHANGED <<tree, requests, links>>

(* ... and the SDK renames the entry, or raises if there is no such source,  *)
(* an entry at the destination, or the destination is inside the source.     *)
Rename(p) ==
  LET from == Parent(path[p])
      dest == Parent(to[p])
      i == IF IsDir(from) THEN At(from, Last(path[p])) ELSE None
  IN
  /\ pc[p] = "rename"
  /\ IF i # None /\ IsDir(dest) /\ dest # i /\ dir[dest] # i /\ At(dest, Last(to[p])) = None
     THEN Put(i, dest, Last(to[p])) /\ UNCHANGED kind /\ Answer(p)
     ELSE UNCHANGED tree /\ Fail(p)
  /\ UNCHANGED <<requests, links>>

-----------------------------------------------------------------------------
(* delete *)

Top(p) == Last(frames[p])
Enter(d, n) ==
  [at |-> "stat", dir |-> d, name |-> n, ino |-> None, stage |-> None, todo |-> {}]
Advance(p, f) ==
  /\ frames' = [frames EXCEPT ![p] = Append(Front(@), f)]
  /\ UNCHANGED <<pc, op, path, to, tmp, failed>>

(* This entry is done: on to its siblings, or the answer. *)
Done(p) ==
  IF Len(frames[p]) = 1 THEN Answer(p)
  ELSE /\ frames' = [frames EXCEPT ![p] = Front(@)]
       /\ UNCHANGED <<pc, op, path, to, tmp, failed>>

Deleting(p, step) == pc[p] = "delete" /\ Top(p).at = step

(* The parents are opened one below the other, without following symlinks. *)
Anchor(p) ==
  LET d == IF Len(path[p]) = 1 THEN Root ELSE At(Root, Head(path[p])) IN
  /\ pc[p] = "anchor"
  /\ IF IsDir(d)
     THEN /\ Goto(p, "delete")
          /\ frames' = [frames EXCEPT ![p] = <<Enter(d, Last(path[p]))>>]
          /\ UNCHANGED <<op, path, to, tmp, failed>>
     ELSE Fail(p)
  /\ UNCHANGED <<tree, requests, links>>

(* _delete_entry_at: a directory is opened, anything else unlinked. *)
StatEntry(p) ==
  LET f == Top(p)
      i == At(f.dir, f.name)
  IN
  /\ Deleting(p, "stat")
  /\ IF i = None THEN Fail(p)
     ELSE Advance(p, [f EXCEPT !.ino = i, !.at = IF IsDir(i) THEN "open" ELSE "unlink"])
  /\ UNCHANGED <<tree, requests, links>>

(* Whatever has the name by now, unless it is a directory. *)
UnlinkEntry(p) ==
  LET i == At(Top(p).dir, Top(p).name) IN
  /\ Deleting(p, "unlink")
  /\ IF i = None \/ IsDir(i) THEN Fail(p) /\ UNCHANGED tree
     ELSE Drop(i) /\ Done(p)
  /\ UNCHANGED <<requests, links>>

(* _delete_directory_at: it must be the directory that was looked at. *)
OpenEntry(p) ==
  LET f == Top(p) IN
  /\ Deleting(p, "open")
  /\ IF At(f.dir, f.name) = f.ino THEN Advance(p, [f EXCEPT !.at = "stage"]) ELSE Fail(p)
  /\ UNCHANGED <<tree, requests, links>>

(* _stage_directory_at: a private directory beside it, if its directory is   *)
(* still one, ...                                                            *)
MakeStage(p) ==
  LET f == Top(p) IN
  /\ Deleting(p, "stage")
  /\ IF IsDir(f.dir)
     THEN /\ Room
          /\ New(AnInode, "dir", f.dir, AName)
          /\ Advance(p, [f EXCEPT !.stage = AnInode, !.at = "move"])
     ELSE Fail(p) /\ UNCHANGED tree
  /\ UNCHANGED <<requests, links>>

(* ... into which whatever has the name is moved, unless another delete has  *)
(* found the staging directory and removed it ...                            *)
MoveToStage(p) ==
  LET f == Top(p)
      i == At(f.dir, f.name)
  IN
  /\ Deleting(p, "move")
  /\ IF i = None \/ ~IsDir(f.stage) THEN Fail(p) /\ UNCHANGED tree
     ELSE /\ Put(i, f.stage, "target") /\ UNCHANGED kind
          /\ Advance(p, [f EXCEPT !.at = "verify"])
  /\ UNCHANGED <<requests, links>>

(* Fault: what was moved is not looked at. *)
VerifyMovedBlind(p) ==
  /\ Deleting(p, "verify")
  /\ Advance(p, [Top(p) EXCEPT !.at = "list"])
  /\ UNCHANGED <<tree, requests, links>>

(* ... and left there if it is not the directory that was opened. *)
VerifyMoved(p) ==
  LET f == Top(p) IN
  /\ Deleting(p, "verify")
  /\ IF At(f.stage, "target") = f.ino THEN Advance(p, [f EXCEPT !.at = "list"]) ELSE Fail(p)
  /\ UNCHANGED <<tree, requests, links>>

(* _delete_staged_directory: the entries are listed, deleted one by one, ... *)
ListEntries(p) ==
  LET f == Top(p) IN
  /\ Deleting(p, "list")
  /\ Advance(p, [f EXCEPT !.todo = Entries(f.ino), !.at = "children"])
  /\ UNCHANGED <<tree, requests, links>>

DeleteChild(p, n) ==
  LET f == Top(p) IN
  /\ Deleting(p, "children") /\ n \in f.todo
  /\ frames' = [frames EXCEPT ![p] =
       Append(Append(Front(@), [f EXCEPT !.todo = @ \ {n}]), Enter(f.ino, n))]
  /\ UNCHANGED <<tree, pc, op, path, to, tmp, requests, links, failed>>

(* Fault: whatever has come into the directory meanwhile is not looked at. *)
RemoveTargetUnlisted(p) ==
  LET f == Top(p) IN
  /\ Deleting(p, "children") /\ f.todo = {}
  /\ Drop(f.ino)
  /\ Advance(p, [f EXCEPT !.at = "unstage"])
  /\ UNCHANGED <<requests, links>>

(* ... the directory must still be the one in the stage, and empty, ... *)
RemoveTarget(p) ==
  LET f == Top(p) IN
  /\ Deleting(p, "children") /\ f.todo = {}
  /\ IF At(f.stage, "target") = f.ino /\ Within(f.ino) = {}
     THEN Drop(f.ino) /\ Advance(p, [f EXCEPT !.at = "unstage"])
     ELSE Fail(p) /\ UNCHANGED tree
  /\ UNCHANGED <<requests, links>>

(* Fault: the staging directory is not removed. *)
LeaveStage(p) ==
  /\ Deleting(p, "unstage")
  /\ Done(p)
  /\ UNCHANGED <<tree, requests, links>>

(* ... and the staging directory goes too. *)
RemoveStage(p) ==
  LET f == Top(p) IN
  /\ Deleting(p, "unstage")
  /\ IF At(f.dir, name[f.stage]) = f.stage /\ Within(f.stage) = {}
     THEN Drop(f.stage) /\ Done(p)
     ELSE Fail(p) /\ UNCHANGED tree
  /\ UNCHANGED <<requests, links>>

(* The worker dies, or a call meets an error of its own. *)
Break(p) ==
  /\ pc[p] # "idle"
  /\ Fail(p)
  /\ UNCHANGED <<tree, requests, links>>

(* Another program puts a symlink where nothing is. *)
Link(n) ==
  /\ links < MaxLinks /\ n # LinkTo /\ At(Root, n) = None /\ Room
  /\ New(AnInode, "link", Root, n)
  /\ links' = links + 1
  /\ UNCHANGED <<local, requests, failed>>

-----------------------------------------------------------------------------
DeleteStep(p) ==
  \/ Anchor(p) \/ StatEntry(p) \/ UnlinkEntry(p) \/ OpenEntry(p)
  \/ MakeStage(p) \/ MoveToStage(p) \/ VerifyMoved(p) \/ ListEntries(p)
  \/ (\E n \in Names : DeleteChild(p, n))
  \/ RemoveTarget(p) \/ RemoveStage(p)

EditStep(p) ==
  \/ CheckTarget(p) \/ MakeParents(p) \/ MakeTemp(p) \/ ReplaceTarget(p) \/ MakeDir(p)
  \/ CheckRename(p) \/ Rename(p)

Next ==
  \/ \E p \in Procs, what \in Ops, from \in Paths, dest \in Paths : Request(p, what, from, dest)
  \/ \E p \in Procs : DeleteStep(p) \/ EditStep(p) \/ Break(p)
  \/ \E n \in Public : Link(n)

Spec == Init /\ [][Next]_vars

(* Properties *)

(* Once a delete has a directory in its staging directory, nothing it does   *)
(* is seen under the names that users give: not the removal of what is       *)
(* below, not the clean-up, and neither a new entry of the old name nor the  *)
(* directory itself, moved away in time by another request, is touched.  So  *)
(* no directory of the project is ever half deleted.                         *)
Shown == {<<i, kind[i], dir[i], name[i]>> : i \in Visible}
Staged(p) ==
  Len(frames[p]) > 1 \/ (frames[p] # <<>> /\ Top(p).at \in {"list", "children", "unstage"})

NeverHalfDeleted ==
  [][\A p \in Procs : Staged(p) /\ DeleteStep(p) => UNCHANGED Shown]_vars

(* What is under no name of the users' is left by a request that failed, or  *)
(* in use by one under way: requests that answered ok leave no temporary     *)
(* file, no staging directory and nothing undeleted in one.                  *)
NothingHidden ==
  (\A p \in Procs : pc[p] = "idle") /\ ~failed =>
    \A i \in Inodes : kind[i] # "free" => i \in Visible

=============================================================================
