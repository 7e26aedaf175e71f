-------------------------- MODULE DocumentPipeline --------------------------
(***************************************************************************)
(* document-sorter run (_document_pipeline/_pipeline.py): each document of *)
(* the inbox is hashed, copied to the archive, moved to its place in the   *)
(* sorted tree and entered in the index.  Runs are killed and started      *)
(* again; the scanner may still be writing a document.                     *)
(*                                                                         *)
(* A document's content is its version, the number of times the scanner    *)
(* has written to it; 0 is a copy that is not whole.                       *)
(***************************************************************************)
EXTENDS Integers, FiniteSets, FiniteSetsExt

CONSTANTS
  Docs,       \* documents, numbered in the order the source yields them
  Titles,     \* file names the classifier gives
  TitleOf,    \* TitleOf[d]: the name that document d gets
  Runs,       \* document-sorter runs
  MaxVersion, \* bound: the scanner's writes to one document
  MaxStarts   \* bound: runs started

ASSUME DocsAssumption == Docs \subseteq Nat /\ TitleOf \in [Docs -> Titles]
ASSUME DocBounds == MaxVersion \in Nat \ {0} /\ MaxStarts \in Nat

VARIABLES
  inbox,   \* the version of each document that is in the inbox, or 0
  archive, \* the copies: [doc, sha, n] is the name, [content]
  filed,   \* the sorted tree: [title, n] is the name, [doc, content]
  index,   \* the records
  run,     \* each run: what it does, and to which document
  near,    \* whether the inbox and the sorted tree are on one filesystem
  starts,
  arrived, late \* history: documents there have been, and those written to since they were hashed

docVars == <<inbox, archive, filed, index, run, near, starts, arrived, late>>

Resting == [at |-> "idle", todo |-> {}, doc |-> 0, sha |-> 0, archived |-> 0, sorted |-> 0]

Versions == 0..MaxVersion

DocTypes ==
  /\ inbox \in [Docs -> Versions]
  /\ \A c \in archive : c \in [doc : Docs, sha : Versions \ {0}, n : Nat \ {0}, content : Versions]
  /\ \A f \in filed : f \in [title : Titles, n : Nat \ {0}, doc : Docs, content : Versions]
  /\ \A c, e \in archive : c.doc = e.doc /\ c.sha = e.sha /\ c.n = e.n => c = e
  /\ \A f, g \in filed : f.title = g.title /\ f.n = g.n => f = g
  /\ \A x \in index : x \in [doc : Docs, sha : Versions \ {0}, archived : Nat \ {0}, sorted : Nat \ {0}]
  /\ DOMAIN run = Runs
  /\ \A r \in Runs : run[r].at \in {"idle", "next", "archive", "copy", "sort", "move", "unlink", "index"}
  /\ \A r \in Runs : run[r].at \notin {"idle", "next"} => run[r].doc \in Docs /\ run[r].sha # 0
  /\ near \in BOOLEAN /\ starts \in 0..MaxStarts
  /\ arrived \subseteq Docs /\ late \subseteq arrived

DocInit ==
  /\ inbox = [d \in Docs |-> 0]
  /\ archive = {} /\ filed = {} /\ index = {}
  /\ run = [r \in Runs |-> Resting]
  /\ near \in BOOLEAN
  /\ starts = 0 /\ arrived = {} /\ late = {}

-----------------------------------------------------------------------------
InHand(d) == \E r \in Runs : run[r].at \notin {"idle", "next"} /\ run[r].doc = d

(* The scanner makes a document, or writes on. *)
Scan(d) ==
  /\ \/ d \notin arrived
     \/ inbox[d] \in 1..(MaxVersion - 1)
  /\ inbox' = [inbox EXCEPT ![d] = @ + 1]
  /\ arrived' = arrived \cup {d}
  /\ late' = IF InHand(d) THEN late \cup {d} ELSE late
  /\ UNCHANGED <<archive, filed, index, run, near, starts>>

Goes(r, step) == run' = [run EXCEPT ![r].at = step]

(* The source lists the inbox. *)
StartRun(r) ==
  /\ run[r].at = "idle" /\ starts < MaxStarts
  /\ run' = [run EXCEPT ![r] = [Resting EXCEPT !.at = "next", !.todo = {d \in Docs : inbox[d] # 0}]]
  /\ starts' = starts + 1
  /\ UNCHANGED <<inbox, archive, filed, index, near, arrived, late>>

(* The next document, unless it is gone, is read and hashed. *)
Hash(r) ==
  LET d == Min(run[r].todo) IN
  /\ run[r].at = "next" /\ run[r].todo # {}
  /\ run' = IF inbox[d] = 0 THEN [run EXCEPT ![r].todo = @ \ {d}]
             ELSE [run EXCEPT ![r].at = "archive", ![r].todo = @ \ {d},
                              ![r].doc = d, ![r].sha = inbox[d]]
  /\ late' = IF inbox[d] = 0 THEN late ELSE late \ {d}
  /\ UNCHANGED <<inbox, archive, filed, index, near, starts, arrived>>

EndRun(r) ==
  /\ run[r].at = "next" /\ run[r].todo = {}
  /\ run' = [run EXCEPT ![r] = Resting]
  /\ UNCHANGED <<inbox, archive, filed, index, near, starts, arrived, late>>

(* Fault: a file that is there does not count. *)
FirstName(taken) == 1

(* _unique_path: the bare name, then -2, -3, ... *)
UniqueName(taken) == CHOOSE n \in 1..(Cardinality(taken) + 1) : n \notin taken /\ 1..(n - 1) \subseteq taken

Copies(d, sha) == {c \in archive : c.doc = d /\ c.sha = sha}
Titled(title)  == {f \in filed : f.title = title}

(* The original is copied to the archive under a name that is free: the name *)
(* is chosen ...                                                             *)
PickArchived(r) ==
  /\ run[r].at = "archive"
  /\ run' = [run EXCEPT ![r].at = "copy",
                        ![r].archived = UniqueName({c.n : c \in Copies(run[r].doc, run[r].sha)})]
  /\ UNCHANGED <<inbox, archive, filed, index, near, starts, arrived, late>>

ArchiveAs(r, content) ==
  archive' = {c \in archive : ~(c.doc = run[r].doc /\ c.sha = run[r].sha /\ c.n = run[r].archived)}
             \cup {[doc |-> run[r].doc, sha |-> run[r].sha, n |-> run[r].archived, content |-> content]}

(* ... and written: part of it and all of it, if the document is still       *)
(* there; or the copy fails, and the run with it.                            *)
CopyPart(r) ==
  /\ run[r].at = "copy" /\ inbox[run[r].doc] # 0
  /\ ArchiveAs(r, 0)
  /\ UNCHANGED <<inbox, filed, index, run, near, starts, arrived, late>>

(* Fault: a copy cut short passes for one that is whole. *)
CopyCut(r) ==
  /\ run[r].at = "copy" /\ inbox[run[r].doc] # 0
  /\ ArchiveAs(r, 0)
  /\ Goes(r, "sort")
  /\ UNCHANGED <<inbox, filed, index, near, starts, arrived, late>>

Copy(r) ==
  /\ run[r].at = "copy" /\ inbox[run[r].doc] # 0
  /\ ArchiveAs(r, inbox[run[r].doc])
  /\ Goes(r, "sort")
  /\ UNCHANGED <<inbox, filed, index, near, starts, arrived, late>>

(* The place in the sorted tree: again the first free name. *)
PickSorted(r) ==
  /\ run[r].at = "sort"
  /\ run' = [run EXCEPT ![r].at = "move",
                        ![r].sorted = UniqueName({f.n : f \in Titled(TitleOf[run[r].doc])})]
  /\ UNCHANGED <<inbox, archive, filed, index, near, starts, arrived, late>>

FileAs(r, content) ==
  LET d == run[r].doc IN
  filed' = {f \in filed : ~(f.title = TitleOf[d] /\ f.n = run[r].sorted)}
           \cup {[title |-> TitleOf[d], n |-> run[r].sorted, doc |-> d, content |-> content]}

(* shutil.move: a rename, or a copy and the removal of the document. *)
MoveByRename(r) ==
  /\ run[r].at = "move" /\ near /\ inbox[run[r].doc] # 0
  /\ FileAs(r, inbox[run[r].doc])
  /\ inbox' = [inbox EXCEPT ![run[r].doc] = 0]
  /\ Goes(r, "index")
  /\ UNCHANGED <<archive, index, near, starts, arrived, late>>

MoveByCopy(r) ==
  /\ run[r].at = "move" /\ ~near /\ inbox[run[r].doc] # 0
  /\ \/ FileAs(r, 0) /\ UNCHANGED run
     \/ FileAs(r, inbox[run[r].doc]) /\ Goes(r, "unlink")
  /\ UNCHANGED <<inbox, archive, index, near, starts, arrived, late>>

UnlinkScan(r) ==
  /\ run[r].at = "unlink" /\ inbox[run[r].doc] # 0
  /\ inbox' = [inbox EXCEPT ![run[r].doc] = 0]
  /\ Goes(r, "index")
  /\ UNCHANGED <<archive, filed, index, near, starts, arrived, late>>

AppendIndex(r) ==
  /\ run[r].at = "index"
  /\ index' = index \cup {[doc |-> run[r].doc, sha |-> run[r].sha,
                           archived |-> run[r].archived, sorted |-> run[r].sorted]}
  /\ Goes(r, "next")
  /\ UNCHANGED <<inbox, archive, filed, near, starts, arrived, late>>

(* The run is killed, or a read, a copy or a write raises: it ends there. *)
StopRun(r) ==
  /\ run[r].at \notin {"idle", "next"}
  /\ run' = [run EXCEPT ![r] = Resting]
  /\ UNCHANGED <<inbox, archive, filed, index, near, starts, arrived, late>>

FileStep(r) ==
  \/ StartRun(r) \/ Hash(r) \/ EndRun(r) \/ PickArchived(r) \/ CopyPart(r) \/ Copy(r)
  \/ PickSorted(r) \/ MoveByRename(r) \/ MoveByCopy(r) \/ UnlinkScan(r) \/ AppendIndex(r)
  \/ StopRun(r)

DocNext == (\E r \in Runs : FileStep(r)) \/ (\E d \in Docs : Scan(d))

DocSpec == DocInit /\ [][DocNext]_docVars

-----------------------------------------------------------------------------
(* What a record of the index says stays true, whatever later runs file      *)
(* under the same names and however often runs are killed: the archive holds *)
(* under the recorded name a whole copy of what was hashed, and so does the  *)
(* sorted tree, if the scanner was not still writing.                        *)
IndexIsTrue ==
  \A x \in index :
    /\ \E c \in Copies(x.doc, x.sha) :
         c.n = x.archived /\ c.content # 0 /\ (x.doc \notin late => c.content = x.sha)
    /\ \E f \in Titled(TitleOf[x.doc]) :
         f.n = x.sorted /\ f.doc = x.doc /\ f.content # 0 /\ (x.doc \notin late => f.content = x.sha)

(* The archive copy exists before the source is moved (_pipeline.py:9-12): a *)
(* document that left the inbox is whole in the archive and whole in the     *)
(* sorted tree, and unless it was written to while it was being filed the    *)
(* two are the same.                                                         *)
FiledIsRecoverable ==
  \A d \in arrived : inbox[d] = 0 =>
    \E c \in archive, f \in filed :
      /\ c.doc = d /\ f.doc = d /\ c.content # 0 /\ f.content # 0
      /\ d \notin late => c.content = f.content /\ c.content = c.sha
=============================================================================
