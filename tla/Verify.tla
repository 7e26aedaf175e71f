------------------------------- MODULE Verify -------------------------------
(***************************************************************************)
(* The deciders that license, or refuse, the removal of an original:       *)
(*   _transfer/_verify.py          the tally (entry count + byte total)    *)
(*   _transfer/_content_verify.py  the comparison of sha256 manifests      *)
(*   _transfer/_remote_digest.py   the manifest read over ssh              *)
(*   _transfer/_sweep.py           check_space                             *)
(*                                                                         *)
(* A directory is a tree: a function from entry names to contents, with    *)
(* NoEntry where the name does not exist.  A content is an opaque value    *)
(* with a length; sha256 is taken to tell any two contents apart, so a     *)
(* digest is the content itself.                                           *)
(***************************************************************************)
EXTENDS Integers, FiniteSets, FiniteSetsExt, Functions

CONSTANTS
  Names,      \* relative paths of the non-directory entries of a tree
  Contents,   \* what such an entry may hold
  NoEntry,    \* the name is not in the tree
  Length,     \* Length[c] is st_size of an entry holding c
  DirBytes    \* what the directories themselves add to `du -sb`

ASSUME NamesAssumption    == IsFiniteSet(Names)
ASSUME NoEntryAssumption  == NoEntry \notin Contents
ASSUME LengthAssumption   == Length \in [Contents -> Nat]
ASSUME DirBytesAssumption == DirBytes \in Nat

Tree       == [Names -> Contents \cup {NoEntry}]
Empty      == [n \in Names |-> NoEntry]
Entries(t) == {n \in Names : t[n] # NoEntry}
Bytes(t)   == SumFunction([n \in Entries(t) |-> Length[t[n]]])

-----------------------------------------------------------------------------
(* Python's None: the question was not answered.  It is never zero.         *)
None == -1

VERIFIED       == "verified"
MISMATCH       == "mismatch"
COULD_NOT_LOOK == "could-not-look"
Verdicts       == {VERIFIED, MISMATCH, COULD_NOT_LOOK}

(* Fault: "could not look" is taken for permission. *)
MayRemoveSourceUnlessMismatch(verdict) == verdict # MISMATCH

(* TransferVerdict.may_remove_source. *)
MayRemoveSource(verdict) == verdict = VERIFIED

RemoteTally(count, size) == [count |-> count, size |-> size]

(* local_tally: the walk counts the names it lists, and adds up what lstat   *)
(* says of each when it comes to it; a name that is gone by then counts as   *)
(* an entry of no bytes.  A walk of an absent directory is None there and    *)
(* `or 0` in the caller: nothing listed.                                     *)
LocalTally(listed, size) == RemoteTally(Cardinality(listed), size)
SizeNow(c) == IF c = NoEntry THEN 0 ELSE Length[c]

(* REMOTE_TALLY_CMD and parse_remote_tally: two commands, one after the     *)
(* other.  `find ! -type d` counts the names it finds, `du -sb` then sums    *)
(* apparent sizes, the directories' own included.                            *)
ReadTally(found, t) == RemoteTally(Cardinality(found), Bytes(t) + DirBytes)
NoTally             == RemoteTally(None, None)

(* Fault: the byte totals alone decide. *)
VerifyTransferByBytes(expected, shortfall, observed) ==
  IF observed.count = None \/ observed.size = None
  THEN COULD_NOT_LOOK
  ELSE IF observed.size < expected.size THEN MISMATCH ELSE VERIFIED

(* verify_transfer, for an explained shortfall that came with its reason. *)
VerifyTransfer(expected, shortfall, observed) ==
  IF observed.count = None \/ observed.size = None
  THEN COULD_NOT_LOOK
  ELSE IF \/ observed.count # expected.count - shortfall
          \/ observed.size < expected.size
       THEN MISMATCH
       ELSE VERIFIED

-----------------------------------------------------------------------------
ContentManifest ==
  [digests : Tree, unreadable : BOOLEAN, root_missing : BOOLEAN]
Manifest(t)   == [digests |-> t, unreadable |-> FALSE, root_missing |-> FALSE]
MissingRoot   == [digests |-> Empty, unreadable |-> FALSE, root_missing |-> TRUE]
UnreadableOne == [digests |-> Empty, unreadable |-> TRUE, root_missing |-> FALSE]

(* A manifest is begun on a directory that is there or not ... *)
Begun(present) == IF present THEN Manifest(Empty) ELSE MissingRoot

(* Fault: an entry that could not be opened is filed under a null digest. *)
HashedWithNull(m, n, c, readable) ==
  [m EXCEPT !.digests[n] = IF readable /\ c # NoEntry THEN c ELSE None]

(* ... and each name that was listed is hashed in turn: digest_file and the  *)
(* loop of REMOTE_DIGEST_CMD.  One that cannot be read, or has gone since,   *)
(* settles the verdict; what else was hashed no longer matters.              *)
Hashed(m, n, c, readable) ==
  IF m.unreadable \/ ~readable \/ c = NoEntry
  THEN UnreadableOne
  ELSE [m EXCEPT !.digests[n] = c]

(* parse_remote_manifest: a probe that failed, or printed nothing, answered  *)
(* nothing; silence is not an empty tree.                                    *)
RemoteManifest(m, answered) ==
  IF ~answered \/ m = Manifest(Empty) THEN UnreadableOne ELSE m

(* verify_content: every could-not-look wins over a comparison. *)
VerifyContent(source, destination) ==
  IF \/ source.root_missing \/ destination.root_missing
     \/ source.unreadable   \/ destination.unreadable
     \/ Entries(source.digests) = {}
  THEN COULD_NOT_LOOK
  ELSE IF source.digests # destination.digests THEN MISMATCH ELSE VERIFIED

-----------------------------------------------------------------------------
(* check_space: SPACE_MARGIN is 5%, int() truncates. *)
CheckSpace(needed, available) ==
  IF needed = None \/ available = None
  THEN "unknown"
  ELSE IF available < (needed * 105) \div 100 THEN "no-room" ELSE "room"
=============================================================================
