---------------------------- MODULE ArchiveProofs ---------------------------
(***************************************************************************)
(* Proofs about Archive, for any number of commands, directories,          *)
(* destinations, entries, contents, edits and alterations.                 *)
(***************************************************************************)
EXTENDS Archive, SumProofs

LEMMA BytesAreCounted ==
  ASSUME NEW t \in Tree
  PROVE  /\ IsFiniteSet(Entries(t)) /\ Cardinality(Entries(t)) \in Nat
         /\ Bytes(t) \in Nat
<1>1. IsFiniteSet(Entries(t))
  BY NamesAssumption, FS_Subset DEF Entries
<1> DEFINE lengths == [n \in Entries(t) |-> Length[t[n]]]
<1>2. \A n \in Entries(t) : lengths[n] \in Nat
  BY LengthAssumption DEF Entries, Tree
<1>3. DOMAIN lengths = Entries(t)
  OBVIOUS
<1> HIDE DEF lengths
<1>4. SumFunction(lengths) \in Nat
  BY <1>1, <1>2, <1>3, SumIsNat DEF SumFunction
<1> QED
  BY <1>1, <1>4, FS_CardinalityType DEF Bytes, lengths

(* The deciders answer one of the three verdicts, or a manifest. *)
LEMMA DecidersTyped ==
  /\ \A e, f, o : VerifyTransfer(e, f, o) \in Verdicts
  /\ \A m, d : VerifyContent(m, d) \in Verdicts
  /\ \A present : Begun(present) \in ContentManifest
  /\ \A m \in ContentManifest, n \in Names, c \in Contents \cup {NoEntry}, readable \in BOOLEAN :
       Hashed(m, n, c, readable) \in ContentManifest
  /\ \A m \in ContentManifest, answered \in BOOLEAN : RemoteManifest(m, answered) \in ContentManifest
  /\ Empty \in Tree /\ MissingRoot \in ContentManifest
<1>1. \A e, f, o : VerifyTransfer(e, f, o) \in Verdicts
  BY DEF VerifyTransfer, Verdicts
<1>2. \A m, d : VerifyContent(m, d) \in Verdicts
  BY DEF VerifyContent, Verdicts
<1>3. Empty \in Tree
  BY DEF Empty, Tree
<1>4. /\ MissingRoot \in ContentManifest /\ UnreadableOne \in ContentManifest
      /\ Manifest(Empty) \in ContentManifest
  BY <1>3 DEF MissingRoot, UnreadableOne, Manifest, ContentManifest
<1>5. ASSUME NEW m \in ContentManifest, NEW n \in Names, NEW c \in Contents
      PROVE  [m EXCEPT !.digests[n] = c] \in ContentManifest
  <2>1. m.digests \in Tree
    BY DEF ContentManifest
  <2>2. [m.digests EXCEPT ![n] = c] \in Tree
    BY <2>1 DEF Tree
  <2> QED
    BY <2>2 DEF ContentManifest
<1> QED
  BY <1>1, <1>2, <1>3, <1>4, <1>5 DEF Begun, Hashed, RemoteManifest

(* What a command's variables are reset to has the right type. *)
LEMMA DefaultsTyped ==
  /\ AnySource \in Sources /\ AnyDestination \in Destinations /\ AnyOptions \in Options
  /\ NoManifest \in ManifestFile /\ TornManifest \in ManifestFile
  /\ COULD_NOT_LOOK \in Verdicts
  /\ NoCount \in Tally
  /\ \A s \in Sources : ManifestKey[s] \in Keys
<1>1. AnySource \in Sources /\ AnyDestination \in Destinations /\ AnyOptions \in Options
  BY OptionsAssumption DEF AnySource, AnyDestination, AnyOptions
<1>2. NoManifest \in ManifestFile
  BY <1>1 DEF NoManifest, ManifestFile
<1>3. TornManifest \in ManifestFile
  BY <1>1 DEF TornManifest, NoManifest, ManifestFile
<1> QED
  BY <1>1, <1>2, <1>3 DEF Verdicts, Keys, NoCount, Tally

(* A directory and its entries are well typed in every state. *)
LEMMA TreesTyped ==
  ASSUME TypeOK
  PROVE  /\ \A s \in Sources :
              /\ src[s] \in Tree /\ want[s] \in Tree
              /\ Entries(src[s]) \subseteq Names /\ Bytes(src[s]) \in Nat
              /\ Stranded(s) \subseteq Names
         /\ \A place \in Places : dst[place] \in Tree /\ Entries(dst[place]) \subseteq Names
         /\ \A p \in Procs : job[p] \in Sources /\ Place(p) \in Places
BY BytesAreCounted DEF TypeOK, Entries, Stranded, Place, Places

(* A tree with one entry written is a tree, wherever it is kept. *)
LEMMA SourceWritten ==
  ASSUME NEW f \in [Sources -> Tree], NEW s \in Sources, NEW n \in Names,
         NEW c \in Contents \cup {NoEntry}
  PROVE  [f EXCEPT ![s][n] = c] \in [Sources -> Tree]
<1>1. [f[s] EXCEPT ![n] = c] \in Tree
  BY DEF Tree
<1> QED
  BY <1>1

LEMMA PlaceWritten ==
  ASSUME NEW f \in [Places -> Tree], NEW place \in Places, NEW n \in Names,
         NEW c \in Contents \cup {NoEntry}
  PROVE  [f EXCEPT ![place][n] = c] \in [Places -> Tree]
<1>1. [f[place] EXCEPT ![n] = c] \in Tree
  BY DEF Tree
<1> QED
  BY <1>1

LEMMA TallyCounted ==
  ASSUME NEW t \in Tally, NEW size \in Nat, NEW names \in SUBSET Names
  PROVE  /\ [t EXCEPT !.bytes = @ + size] \in Tally
         /\ [t EXCEPT !.found = names] \in Tally
BY DEF Tally

LEMMA LeaveTyped ==
  ASSUME TypeOK, NEW p \in Procs, Leave(p)
  PROVE  /\ pc' \in [Procs -> Steps] /\ job' \in [Procs -> Sources]
         /\ to' \in [Procs -> Destinations] /\ opt' \in [Procs -> Options]
         /\ planned' \in [Procs -> Nat] /\ todo' \in [Procs -> SUBSET Names]
         /\ tally' \in [Procs -> Tally]
         /\ hashed' \in [Procs -> ContentManifest] /\ digest' \in [Procs -> ContentManifest]
         /\ verdict' \in [Procs -> Verdicts] /\ purge' \in [Procs -> BOOLEAN]
         /\ late' \in [Procs -> SUBSET Names]
BY DecidersTyped, DefaultsTyped DEF TypeOK, Leave, Goto, Steps

LEMMA TouchedTyped ==
  ASSUME TypeOK, NEW who, NEW names \in SUBSET Names
  PROVE  Touched(who, names) \in [Procs -> SUBSET Names]
BY DEF TypeOK, Touched

LEMMA InitTyped == Init => TypeOK
<1> SUFFICES ASSUME Init PROVE TypeOK
  OBVIOUS
<1>1. \A s \in Sources : src[s] \in Tree
  BY DEF Init
<1>2. /\ dst \in [Places -> Tree] /\ manifest \in [Keys -> ManifestFile]
      /\ src \in [Sources -> Tree] /\ want \in [Sources -> Tree]
  BY <1>1, DecidersTyped, DefaultsTyped DEF Init
<1>3. /\ pc \in [Procs -> Steps] /\ job \in [Procs -> Sources] /\ to \in [Procs -> Destinations]
      /\ opt \in [Procs -> Options] /\ planned \in [Procs -> Nat] /\ todo \in [Procs -> SUBSET Names]
      /\ tally \in [Procs -> Tally] /\ hashed \in [Procs -> ContentManifest]
      /\ digest \in [Procs -> ContentManifest] /\ verdict \in [Procs -> Verdicts]
      /\ purge \in [Procs -> BOOLEAN] /\ late \in [Procs -> SUBSET Names]
  BY DecidersTyped, DefaultsTyped DEF Init, Steps
<1> QED
  BY <1>2, <1>3, BoundsAssumption DEF Init, TypeOK

LEMMA ArchiveTyped ==
  ASSUME TypeOK, NEW p \in Archivers, ArchiveStep(p)
  PROVE  TypeOK'
<1> p \in Procs
  BY DEF Procs
<1>0. /\ job[p] \in Sources /\ src[job[p]] \in Tree /\ Place(p) \in Places /\ dst[Place(p)] \in Tree
      /\ Entries(src[job[p]]) \subseteq Names /\ Entries(dst[Place(p)]) \subseteq Names
  BY TreesTyped
<1> USE DEF TypeOK, Goto, Steps
<1>1. CASE \E s \in Sources, d \in Destinations, o \in Options : PlanArchive(p, s, d, o)
  BY <1>1, TreesTyped DEF PlanArchive, files, env
<1>2. CASE \E free \in FreeBytes : StartPush(p, free)
  BY <1>2, <1>0 DEF StartPush, env
<1>3. CASE \E n \in Names : PushEntry(p, n)
  <2> PICK n \in Names : PushEntry(p, n)
    BY <1>3
  <2>1. dst' \in [Places -> Tree]
    <3>1. src[job[p]][n] \in Contents \cup {NoEntry}
      BY <1>0 DEF Tree
    <3>2. [dst EXCEPT ![Place(p)][n] = src[job[p]][n]] \in [Places -> Tree]
      BY <1>0, <3>1, PlaceWritten
    <3> QED
      BY <3>2 DEF PushEntry
  <2>2. late' \in [Procs -> SUBSET Names]
    <3> DEFINE changed == Changed(dst[Place(p)], dst'[Place(p)])
    <3>1. changed \in SUBSET Names
      BY DEF Changed
    <3>2. Touched(At(Place(p)), changed) \in [Procs -> SUBSET Names]
      BY <3>1, TouchedTyped
    <3>3. late' = [Touched(At(Place(p)), changed) EXCEPT ![p] = late[p] \ {n}]
      BY DEF PushEntry
    <3> HIDE DEF changed
    <3> QED
      BY <3>2, <3>3
  <2> QED
    BY <2>1, <2>2 DEF PushEntry, env
<1>4. CASE PushDone(p)
  BY <1>4 DEF PushDone, files, memory, env
<1>5. CASE StartTally(p)
  <2>1. [NoCount EXCEPT !.listed = Entries(src[job[p]])] \in Tally
    BY <1>0 DEF NoCount, Tally
  <2> QED
    BY <1>0, <1>5, <2>1 DEF StartTally, files, env
<1>6. CASE \E n \in Names : MeasureEntry(p, n)
  <2> PICK n \in Names : MeasureEntry(p, n)
    BY <1>6
  <2>1. SizeNow(src[job[p]][n]) \in Nat
    BY <1>0, LengthAssumption DEF SizeNow, Tree
  <2>2. tally[p] \in Tally
    OBVIOUS
  <2>3. [tally[p] EXCEPT !.bytes = @ + SizeNow(src[job[p]][n])] \in Tally
    BY <2>1, <2>2, TallyCounted
  <2>4. tally' \in [Procs -> Tally]
    BY <2>3 DEF MeasureEntry
  <2> QED
    BY <2>4 DEF MeasureEntry, files, env
<1>7. CASE CountRemote(p)
  <2>1. [tally[p] EXCEPT !.found = Entries(dst[Place(p)])] \in Tally
    BY <1>0, TallyCounted
  <2>2. tally' \in [Procs -> Tally]
    BY <1>7, <2>1 DEF CountRemote
  <2> QED
    BY <1>7, <2>2 DEF CountRemote, files, env
<1>8. CASE \E answered \in BOOLEAN : ReadBack(p, answered)
  BY <1>8, DecidersTyped, DefaultsTyped DEF ReadBack, TallyVerdict, files, env
<1>9. CASE ListRemote(p)
  BY <1>0, <1>9, DecidersTyped DEF ListRemote, files, env
<1>10. CASE \E n \in Names, readable \in BOOLEAN : HashRemote(p, n, readable)
  <2> PICK n \in Names, readable \in BOOLEAN : HashRemote(p, n, readable)
    BY <1>10
  <2>1. dst[Place(p)][n] \in Contents \cup {NoEntry}
    BY <1>0 DEF Tree
  <2>2. Hashed(digest[p], n, dst[Place(p)][n], readable) \in ContentManifest
    BY <2>1, DecidersTyped
  <2> QED
    BY <2>2 DEF HashRemote, files, env
<1>11. CASE \E answered \in BOOLEAN : ListSource(p, answered)
  BY <1>0, <1>11, DecidersTyped DEF ListSource, files, env
<1>12. CASE \E n \in Names, readable \in BOOLEAN : HashSource(p, n, readable)
  <2> PICK n \in Names, readable \in BOOLEAN : HashSource(p, n, readable)
    BY <1>12
  <2>1. src[job[p]][n] \in Contents \cup {NoEntry}
    BY <1>0 DEF Tree
  <2>2. Hashed(hashed[p], n, src[job[p]][n], readable) \in ContentManifest
    BY <2>1, DecidersTyped
  <2> QED
    BY <2>2 DEF HashSource, files, env
<1>13. CASE CompareContent(p)
  BY <1>13, DecidersTyped DEF CompareContent, files, env
<1>14. CASE OpenManifest(p)
  BY <1>14, DefaultsTyped, TreesTyped DEF OpenManifest, memory
<1>15. CASE WriteManifest(p)
  <2>1. manifest' \in [Keys -> ManifestFile] /\ astray' \in [Sources -> SUBSET Names]
    BY <1>15, TreesTyped DEF WriteManifest, ManifestFile
  <2>2. CASE MayRemoveSource(verdict[p])
    BY <1>15, <2>1, <2>2 DEF WriteManifest, memory
  <2>3. CASE ~MayRemoveSource(verdict[p])
    BY <1>15, <2>1, <2>3, LeaveTyped DEF WriteManifest
  <2> QED
    BY <2>2, <2>3
<1>16. CASE StartRemoval(p)
  BY <1>0, <1>16 DEF StartRemoval, files, env
<1>17. CASE \E n \in Names : Unlink(p, n)
  <2> PICK n \in Names : Unlink(p, n)
    BY <1>17
  <2>1. src' \in [Sources -> Tree]
    BY <1>0, SourceWritten DEF Unlink
  <2> QED
    BY <2>1 DEF Unlink, env
<1>18. CASE RemoveDir(p)
  BY <1>18, LeaveTyped DEF RemoveDir, env
<1> QED
  BY <1>1, <1>2, <1>3, <1>4, <1>5, <1>6, <1>7, <1>8, <1>9, <1>10, <1>11, <1>12, <1>13,
     <1>14, <1>15, <1>16, <1>17, <1>18
  DEF ArchiveStep

LEMMA RestoreTyped ==
  ASSUME TypeOK, NEW p \in Restorers, RestoreStep(p)
  PROVE  TypeOK'
<1> p \in Procs
  BY DEF Procs
<1>0. job[p] \in Sources /\ Place(p) \in Places /\ dst[Place(p)] \in Tree /\ Entries(dst[Place(p)]) \subseteq Names
  BY TreesTyped
<1> USE DEF TypeOK, Goto, Steps
<1>1. CASE \E s \in Sources, delete_remote \in BOOLEAN : StartRestore(p, s, delete_remote)
  <2> PICK s \in Sources, delete_remote \in BOOLEAN : StartRestore(p, s, delete_remote)
    BY <1>1
  <2> DEFINE found == manifest[ManifestKey[s]]
  <2>1. found.source \in Sources /\ found.destination \in Destinations
    BY DefaultsTyped DEF ManifestFile
  <2>2. Entries(dst[<<found.destination, found.source>>]) \subseteq Names
    BY DEF Entries
  <2> QED
    BY <2>1, <2>2 DEF StartRestore, env
<1>2. CASE \E n \in Names : PullEntry(p, n)
  <2> PICK n \in Names : PullEntry(p, n)
    BY <1>2
  <2>1. src' \in [Sources -> Tree]
    <3>1. dst[Place(p)][n] \in Contents \cup {NoEntry}
      BY <1>0 DEF Tree
    <3>2. [src EXCEPT ![job[p]][n] = dst[Place(p)][n]] \in [Sources -> Tree]
      BY <1>0, <3>1, SourceWritten
    <3> QED
      BY <3>2 DEF PullEntry
  <2>2. late' \in [Procs -> SUBSET Names]
    BY TouchedTyped DEF PullEntry, Changed
  <2> QED
    BY <2>1, <2>2 DEF PullEntry, env
<1>3. CASE PullDone(p)
  <2>1. CASE purge[p]
    BY <1>0, <1>3, <2>1 DEF PullDone, files, env
  <2>2. CASE ~purge[p]
    BY <1>3, <2>2, LeaveTyped DEF PullDone, files, env
  <2> QED
    BY <2>1, <2>2
<1>4. CASE \E n \in Names : UnlinkRemote(p, n)
  <2> PICK n \in Names : UnlinkRemote(p, n)
    BY <1>4
  <2>1. dst' \in [Places -> Tree]
    BY <1>0, PlaceWritten DEF UnlinkRemote
  <2>2. late' \in [Procs -> SUBSET Names]
    BY TouchedTyped DEF UnlinkRemote
  <2> QED
    BY <2>1, <2>2 DEF UnlinkRemote, env
<1>5. CASE RemoveRemoteDir(p)
  BY <1>5, LeaveTyped DEF RemoveRemoteDir, env
<1> QED
  BY <1>1, <1>2, <1>3, <1>4, <1>5 DEF RestoreStep

LEMMA EnvironmentTyped ==
  ASSUME TypeOK, Environment
  PROVE  TypeOK'
<1> PICK n \in Names, c \in Contents \cup {NoEntry} :
      \/ \E s \in Sources : Edit(s, n, c)
      \/ \E place \in Places : Rot(place, n, c)
  BY DEF Environment
<1> USE DEF TypeOK
<1>1. \A who : Touched(who, {n}) \in [Procs -> SUBSET Names]
  BY TouchedTyped
<1>2. ASSUME NEW s \in Sources, Edit(s, n, c) PROVE TypeOK'
  <2>1. src' \in [Sources -> Tree] /\ want' \in [Sources -> Tree]
    BY <1>2, SourceWritten DEF Edit
  <2>2. edits' \in 0..MaxEdits
    BY <1>2, BoundsAssumption DEF Edit
  <2> QED
    BY <1>1, <1>2, <2>1, <2>2 DEF Edit, local, memory
<1>3. ASSUME NEW place \in Places, Rot(place, n, c) PROVE TypeOK'
  <2>1. dst' \in [Places -> Tree]
    BY <1>3, PlaceWritten DEF Rot
  <2>2. rots' \in 0..MaxRots
    BY <1>3, BoundsAssumption DEF Rot
  <2> QED
    BY <1>1, <1>3, <2>1, <2>2 DEF Rot, local, memory
<1> QED
  BY <1>2, <1>3

LEMMA NextTyped == TypeOK /\ [Next]_vars => TypeOK'
<1> SUFFICES ASSUME TypeOK, [Next]_vars PROVE TypeOK'
  OBVIOUS
<1>1. CASE \E p \in Archivers : ArchiveStep(p)
  BY <1>1, ArchiveTyped
<1>2. CASE \E p \in Restorers : RestoreStep(p)
  BY <1>2, RestoreTyped
<1>3. CASE \E p \in Procs : Stop(p)
  BY <1>3, LeaveTyped DEF Stop, files, env, TypeOK
<1>4. CASE Environment
  BY <1>4, EnvironmentTyped
<1>5. CASE UNCHANGED vars
  BY <1>5 DEF vars, files, local, memory, env, TypeOK
<1> QED
  BY <1>1, <1>2, <1>3, <1>4, <1>5 DEF Next

(* Every variable keeps its type, whatever the constants. *)
THEOREM ArchiveTypes == Spec => []TypeOK
<1> QED
  BY InitTyped, NextTyped, PTL DEF Spec

-----------------------------------------------------------------------------
(* rmtree unlinks nothing the destination does not hold, except what was     *)
(* changed inside the command's window.                                      *)
(*                                                                           *)
(* The inductive invariant: what a command knows at each of its steps.  Both *)
(* sides agree on every entry it has dealt with and no one has changed       *)
(* since; from the first remote digest to the last local one it knows the    *)
(* destination, and of the source what it has hashed.                        *)
Sent(o)      == o.checksum /\ o.exclude = {}
Readable(d)  == ~d.root_missing /\ ~d.unreadable
Seen(p)      == \A n \in Names \ late[p] : Held(p, n)
SeenSoFar(p) == \A n \in Names \ late[p] : n \notin todo[p] => Held(p, n)
Digested(p)  == \A n \in Names \ late[p] : digest[p].digests[n] = dst[Place(p)][n]
DigestedSoFar(p) ==
  \A n \in Names \ late[p] : n \notin todo[p] => digest[p].digests[n] = dst[Place(p)][n]
HashedSoFar(p) ==
  \A n \in Names \ late[p] :
    n \notin todo[p] => src[job[p]][n] \in {NoEntry, hashed[p].digests[n]}

Before    == {"idle", "preflight"}
AfterPush == {"baseline", "measure", "weigh", "digest"}
Recording == {"record", "recording"}
Removing  == {"remove", "unlink"}

Window(p) ==
  /\ pc[p] \in Before => late[p] = {}
  /\ pc[p] = "push" /\ Sent(opt[p]) => SeenSoFar(p)
  /\ pc[p] \in AfterPush /\ Sent(opt[p]) => Seen(p)
  /\ pc[p] = "hash" /\ Readable(digest[p]) => DigestedSoFar(p)
  /\ pc[p] = "compare" /\ Readable(digest[p]) => Digested(p)
  /\ pc[p] = "compare" /\ Readable(hashed[p]) => HashedSoFar(p)
  /\ pc[p] \in Recording /\ Exact(opt[p]) /\ verdict[p] = VERIFIED => Seen(p)
  /\ pc[p] \in Removing /\ Exact(opt[p]) => Seen(p)

Windows == \A p \in Procs : Window(p)

(* What a step of anybody else leaves p with: its own variables, and on every *)
(* entry not marked late the two sides it knew, but for an unlinked source.   *)
Undisturbed(p) ==
  /\ pc'[p] = pc[p] /\ job'[p] = job[p] /\ to'[p] = to[p] /\ opt'[p] = opt[p]
  /\ todo'[p] = todo[p] /\ hashed'[p] = hashed[p] /\ digest'[p] = digest[p]
  /\ verdict'[p] = verdict[p]
  /\ pc[p] \in Before => late'[p] = late[p]
  /\ pc[p] \notin {"idle", "preflight", "pull", "purge"} =>
       \A n \in Names \ late'[p] :
         /\ n \notin late[p]
         /\ src'[job[p]][n] \in {NoEntry, src[job[p]][n]}
         /\ dst'[Place(p)][n] = dst[Place(p)][n]

LEMMA UndisturbedKeepsWindow ==
  ASSUME TypeOK, NEW p \in Procs, Window(p), Undisturbed(p)
  PROVE  Window(p)'
<1> DEFINE Watches == pc[p] \notin {"idle", "preflight", "pull", "purge"}
<1>0. Place(p)' = Place(p)
  BY DEF Place, Undisturbed
<1> USE <1>0 DEF Undisturbed, Held
<1>1. Watches /\ Seen(p) => Seen(p)'
  BY DEF Seen
<1>2. Watches /\ SeenSoFar(p) => SeenSoFar(p)'
  BY DEF SeenSoFar
<1>3. Watches /\ Digested(p) => Digested(p)'
  BY DEF Digested
<1>4. Watches /\ DigestedSoFar(p) => DigestedSoFar(p)'
  BY DEF DigestedSoFar
<1>5. Watches /\ HashedSoFar(p) => HashedSoFar(p)'
  BY DEF HashedSoFar
<1>6. (pc[p] \in Before => late[p] = {})'
  BY DEF Window
<1> QED
  BY <1>1, <1>2, <1>3, <1>4, <1>5, <1>6
  DEF Window, Before, AfterPush, Recording, Removing, Readable

(* A change is noticed by every command that watches it. *)
LEMMA TouchedMarks ==
  ASSUME TypeOK, NEW who \in SUBSET Watching, NEW names \in SUBSET Names, NEW p \in Procs
  PROVE  /\ pc[p] \in Before => Touched(who, names)[p] = late[p]
         /\ late[p] \subseteq Touched(who, names)[p]
         /\ p \in who => names \subseteq Touched(who, names)[p]
BY DEF Touched, Watching, Before, TypeOK

LEMMA OtherArchive ==
  ASSUME TypeOK, NEW p \in Procs, NEW q \in Archivers, q # p, ArchiveStep(q)
  PROVE  Undisturbed(p)
<1> q \in Procs /\ job[p] \in Sources /\ job[q] \in Sources /\ Place(p) \in Places /\ Place(q) \in Places
  BY TreesTyped DEF Procs
<1> USE DEF TypeOK, Undisturbed, Goto
<1>1. CASE \E s \in Sources, d \in Destinations, o \in Options : PlanArchive(q, s, d, o)
  BY <1>1 DEF PlanArchive, files
<1>2. CASE \E free \in FreeBytes : StartPush(q, free)
  BY <1>2 DEF StartPush
<1>3. CASE \E n \in Names : PushEntry(q, n)
  <2> PICK n \in Names : PushEntry(q, n)
    BY <1>3
  <2> DEFINE changed == Changed(dst[Place(q)], dst'[Place(q)])
             watch == At(Place(q))
  <2>1. changed \in SUBSET Names /\ watch \in SUBSET Watching
    BY DEF Changed, At
  <2>2. late'[p] = Touched(watch, changed)[p]
    BY <2>1, TouchedTyped DEF PushEntry
  <2>3. \A m \in Names \ changed : dst'[Place(q)][m] = dst[Place(q)][m]
    BY DEF Changed
  <2>4. Place(p) # Place(q) => dst'[Place(p)] = dst[Place(p)]
    BY DEF PushEntry
  <2>5. pc[p] \notin {"idle", "preflight", "pull", "purge"} /\ Place(p) = Place(q) => p \in watch
    BY DEF At, Watching
  <2>6. /\ pc[p] \in Before => late'[p] = late[p]
        /\ late[p] \subseteq late'[p] /\ (p \in watch => changed \subseteq late'[p])
    BY <2>1, <2>2, TouchedMarks
  <2> HIDE DEF changed, watch
  <2> QED
    BY <2>3, <2>4, <2>5, <2>6 DEF PushEntry
<1>4. CASE PushDone(q)
  BY <1>4 DEF PushDone, files, memory
<1>5. CASE StartTally(q)
  BY <1>5 DEF StartTally, files
<1>6. CASE \E n \in Names : MeasureEntry(q, n)
  BY <1>6 DEF MeasureEntry, files
<1>7. CASE CountRemote(q)
  BY <1>7 DEF CountRemote, files
<1>8. CASE \E answered \in BOOLEAN : ReadBack(q, answered)
  BY <1>8 DEF ReadBack, files
<1>9. CASE ListRemote(q)
  BY <1>9 DEF ListRemote, files
<1>10. CASE \E n \in Names, readable \in BOOLEAN : HashRemote(q, n, readable)
  BY <1>10 DEF HashRemote, files
<1>11. CASE \E answered \in BOOLEAN : ListSource(q, answered)
  BY <1>11 DEF ListSource, files
<1>12. CASE \E n \in Names, readable \in BOOLEAN : HashSource(q, n, readable)
  BY <1>12 DEF HashSource, files
<1>13. CASE CompareContent(q)
  BY <1>13 DEF CompareContent, files
<1>14. CASE OpenManifest(q)
  BY <1>14 DEF OpenManifest, memory
<1>15. CASE WriteManifest(q)
  BY <1>15 DEF WriteManifest, Leave, memory
<1>16. CASE StartRemoval(q)
  BY <1>16 DEF StartRemoval, files
<1>17. CASE \E n \in Names : Unlink(q, n)
  <2> PICK n \in Names : Unlink(q, n)
    BY <1>17
  <2>1. \A m \in Names : src'[job[p]][m] \in {NoEntry, src[job[p]][m]}
    BY DEF Unlink, Tree
  <2> QED
    BY <2>1 DEF Unlink
<1>18. CASE RemoveDir(q)
  BY <1>18 DEF RemoveDir, Leave
<1> QED
  BY <1>1, <1>2, <1>3, <1>4, <1>5, <1>6, <1>7, <1>8, <1>9, <1>10, <1>11, <1>12, <1>13,
     <1>14, <1>15, <1>16, <1>17, <1>18
  DEF ArchiveStep

LEMMA OtherRestore ==
  ASSUME TypeOK, NEW p \in Procs, NEW q \in Restorers, q # p, RestoreStep(q)
  PROVE  Undisturbed(p)
<1> q \in Procs /\ job[p] \in Sources /\ job[q] \in Sources /\ Place(p) \in Places /\ Place(q) \in Places
  BY TreesTyped DEF Procs
<1> USE DEF TypeOK, Undisturbed, Goto
<1>1. CASE \E s \in Sources, delete_remote \in BOOLEAN : StartRestore(q, s, delete_remote)
  BY <1>1 DEF StartRestore
<1>2. CASE \E n \in Names : PullEntry(q, n)
  <2> PICK n \in Names : PullEntry(q, n)
    BY <1>2
  <2> DEFINE changed == Changed(src[job[q]], src'[job[q]])
             watch == From(job[q])
  <2>1. changed \in SUBSET Names /\ watch \in SUBSET Watching
    BY DEF Changed, From
  <2>2. late'[p] = Touched(watch, changed)[p]
    BY DEF PullEntry
  <2>3. \A m \in Names \ changed : src'[job[q]][m] = src[job[q]][m]
    BY DEF Changed
  <2>4. job[p] # job[q] => src'[job[p]] = src[job[p]]
    BY DEF PullEntry
  <2>5. pc[p] \notin {"idle", "preflight", "pull", "purge"} /\ job[p] = job[q] => p \in watch
    BY DEF From, Watching
  <2>6. /\ pc[p] \in Before => late'[p] = late[p]
        /\ late[p] \subseteq late'[p] /\ (p \in watch => changed \subseteq late'[p])
    <3> HIDE DEF changed, watch, Undisturbed
    <3> QED
      BY <2>1, <2>2, TouchedMarks
  <2>7. /\ pc'[p] = pc[p] /\ job'[p] = job[p] /\ to'[p] = to[p] /\ opt'[p] = opt[p]
        /\ todo'[p] = todo[p] /\ hashed'[p] = hashed[p] /\ digest'[p] = digest[p]
        /\ verdict'[p] = verdict[p]
        /\ dst' = dst
    BY DEF PullEntry
  <2> HIDE DEF changed, watch
  <2> QED
    BY <2>3, <2>4, <2>5, <2>6, <2>7
<1>3. CASE PullDone(q)
  BY <1>3 DEF PullDone, Leave, files
<1>4. CASE \E n \in Names : UnlinkRemote(q, n)
  <2> PICK n \in Names : UnlinkRemote(q, n)
    BY <1>4
  <2> DEFINE watch == At(Place(q))
             changed == {n}
  <2>1. watch \in SUBSET Watching /\ changed \in SUBSET Names
    BY DEF At
  <2>2. late'[p] = Touched(watch, changed)[p]
    BY DEF UnlinkRemote
  <2>3. \A m \in Names : m # n \/ Place(p) # Place(q) => dst'[Place(p)][m] = dst[Place(p)][m]
    BY DEF UnlinkRemote, Tree
  <2>4. pc[p] \notin {"idle", "preflight", "pull", "purge"} /\ Place(p) = Place(q) => p \in watch
    BY DEF At, Watching
  <2>5. /\ pc[p] \in Before => late'[p] = late[p]
        /\ late[p] \subseteq late'[p] /\ (p \in watch => changed \subseteq late'[p])
    <3> HIDE DEF changed, watch, Undisturbed
    <3> QED
      BY <2>1, <2>2, TouchedMarks
  <2>6. /\ pc'[p] = pc[p] /\ job'[p] = job[p] /\ to'[p] = to[p] /\ opt'[p] = opt[p]
        /\ todo'[p] = todo[p] /\ hashed'[p] = hashed[p] /\ digest'[p] = digest[p]
        /\ verdict'[p] = verdict[p]
        /\ src' = src
    BY DEF UnlinkRemote
  <2> HIDE DEF watch
  <2> QED
    BY <2>3, <2>4, <2>5, <2>6
<1>5. CASE RemoveRemoteDir(q)
  BY <1>5 DEF RemoveRemoteDir, Leave
<1> QED
  BY <1>1, <1>2, <1>3, <1>4, <1>5 DEF RestoreStep

LEMMA EnvironmentIsNoticed ==
  ASSUME TypeOK, NEW p \in Procs, Environment
  PROVE  Undisturbed(p)
<1> PICK n \in Names, c \in Contents \cup {NoEntry} :
      \/ \E s \in Sources : Edit(s, n, c)
      \/ \E place \in Places : Rot(place, n, c)
  BY DEF Environment
<1> job[p] \in Sources /\ Place(p) \in Places
  BY TreesTyped
<1> DEFINE Watches == pc[p] \notin {"idle", "preflight", "pull", "purge"}
           changed == {n}
<1>1. ASSUME NEW s \in Sources, Edit(s, n, c) PROVE Undisturbed(p)
  <2>1. From(s) \in SUBSET Watching /\ changed \in SUBSET Names /\ (Watches /\ job[p] = s => p \in From(s))
    BY DEF From, Watching
  <2>2. late'[p] = Touched(From(s), changed)[p]
    BY <1>1 DEF Edit
  <2>3. \A m \in Names : m # n \/ job[p] # s => src'[job[p]][m] = src[job[p]][m]
    BY <1>1 DEF Edit, TypeOK, Tree
  <2>4. /\ pc'[p] = pc[p] /\ job'[p] = job[p] /\ to'[p] = to[p] /\ opt'[p] = opt[p]
        /\ todo'[p] = todo[p] /\ hashed'[p] = hashed[p] /\ digest'[p] = digest[p]
        /\ verdict'[p] = verdict[p]
        /\ dst' = dst
    BY <1>1 DEF Edit, local, memory
  <2>5. /\ pc[p] \in Before => late'[p] = late[p]
        /\ late[p] \subseteq late'[p] /\ (p \in From(s) => changed \subseteq late'[p])
    <3> HIDE DEF changed
    <3> QED
      BY <2>1, <2>2, TouchedMarks
  <2> QED
    BY <2>1, <2>3, <2>4, <2>5 DEF Undisturbed
<1>2. ASSUME NEW place \in Places, Rot(place, n, c) PROVE Undisturbed(p)
  <2>1. At(place) \in SUBSET Watching /\ changed \in SUBSET Names /\ (Watches /\ Place(p) = place => p \in At(place))
    BY DEF At, Watching
  <2>2. late'[p] = Touched(At(place), changed)[p]
    BY <1>2 DEF Rot
  <2>3. \A m \in Names : m # n \/ Place(p) # place => dst'[Place(p)][m] = dst[Place(p)][m]
    BY <1>2 DEF Rot, TypeOK, Tree
  <2>4. /\ pc'[p] = pc[p] /\ job'[p] = job[p] /\ to'[p] = to[p] /\ opt'[p] = opt[p]
        /\ todo'[p] = todo[p] /\ hashed'[p] = hashed[p] /\ digest'[p] = digest[p]
        /\ verdict'[p] = verdict[p]
        /\ src' = src
    BY <1>2 DEF Rot, local, memory
  <2>5. /\ pc[p] \in Before => late'[p] = late[p]
        /\ late[p] \subseteq late'[p] /\ (p \in At(place) => changed \subseteq late'[p])
    <3> HIDE DEF changed
    <3> QED
      BY <2>1, <2>2, TouchedMarks
  <2> QED
    BY <2>1, <2>3, <2>4, <2>5 DEF Undisturbed
<1> QED
  BY <1>1, <1>2

(* What verify_content establishes when it answers VERIFIED. *)
LEMMA VerifiedContentIsEqual ==
  ASSUME NEW m, NEW d, VerifyContent(m, d) = VERIFIED
  PROVE  Readable(m) /\ Readable(d) /\ m.digests = d.digests
BY DEF VerifyContent, Readable, VERIFIED, MISMATCH, COULD_NOT_LOOK

(* A manifest that is still readable holds the entry just hashed, and all    *)
(* that was hashed before.                                                   *)
LEMMA HashedIsKnown ==
  ASSUME NEW m \in ContentManifest, NEW n \in Names, NEW c, NEW readable,
         Readable(Hashed(m, n, c, readable))
  PROVE  /\ Readable(m) /\ Hashed(m, n, c, readable).digests[n] = c
         /\ \A k \in Names : k # n => Hashed(m, n, c, readable).digests[k] = m.digests[k]
BY DEF Hashed, Readable, UnreadableOne, ContentManifest, Tree

LEMMA OwnArchive ==
  ASSUME TypeOK, NEW p \in Archivers, Window(p), ArchiveStep(p)
  PROVE  Window(p)'
<1> p \in Procs /\ job[p] \in Sources /\ Place(p) \in Places
  BY TreesTyped DEF Procs
<1> USE DEF TypeOK, Goto, Window, Before, AfterPush, Recording, Removing
<1>1. CASE \E s \in Sources, d \in Destinations, o \in Options : PlanArchive(p, s, d, o)
  BY <1>1 DEF PlanArchive
<1>2. CASE \E free \in FreeBytes : StartPush(p, free)
  <2> PICK free \in FreeBytes : StartPush(p, free)
    BY <1>2
  <2>1. Sent(opt[p]) => SeenSoFar(p)'
    BY DEF StartPush, Sent, SeenSoFar, Held, Entries, Place
  <2> QED
    BY <2>1 DEF StartPush
<1>3. CASE \E n \in Names : PushEntry(p, n)
  <2> PICK n \in Names : PushEntry(p, n)
    BY <1>3
  <2>0. src' = src /\ job' = job /\ to' = to /\ opt' = opt /\ pc' = pc /\ pc[p] = "push" /\ Place(p)' = Place(p)
    BY DEF PushEntry, Place
  <2>1. ASSUME Sent(opt[p]) PROVE SeenSoFar(p)'
    <3>1. dst' = [dst EXCEPT ![Place(p)][n] = src[job[p]][n]]
      BY <2>1 DEF PushEntry, QuickCheckSkips, Sent
    <3>2. dst'[Place(p)][n] = src[job[p]][n]
      BY <3>1 DEF Tree
    <3>3. \A m \in Names : m # n => dst'[Place(p)][m] = dst[Place(p)][m]
      BY <3>1 DEF Tree
    <3>4. late'[p] = late[p] \ {n} /\ todo'[p] = todo[p] \ {n}
      BY TouchedTyped DEF PushEntry, Changed
    <3>5. SeenSoFar(p)
      BY <2>0, <2>1
    <3> QED
      BY <2>0, <3>2, <3>3, <3>4, <3>5 DEF SeenSoFar, Held
  <2> QED
    BY <2>0, <2>1
<1>4. CASE PushDone(p)
  BY <1>4 DEF PushDone, files, memory, SeenSoFar, Seen, Held, Place
<1>5. CASE StartTally(p)
  BY <1>5 DEF StartTally, files, Seen, Held, Place
<1>6. CASE \E n \in Names : MeasureEntry(p, n)
  BY <1>6 DEF MeasureEntry, files, Seen, Held, Place
<1>7. CASE CountRemote(p)
  BY <1>7 DEF CountRemote, files, Seen, Held, Place
<1>8. CASE \E answered \in BOOLEAN : ReadBack(p, answered)
  <2> PICK answered \in BOOLEAN : ReadBack(p, answered)
    BY <1>8
  <2>1. Sent(opt[p]) => Seen(p)'
    BY DEF ReadBack, files, Seen, Held, Place
  <2>2. pc'[p] = "digest" \/ pc'[p] = "record"
    BY DEF ReadBack
  <2>3. pc'[p] = "record" /\ verdict'[p] = VERIFIED => ~opt[p].content
    BY DEF ReadBack, MayRemoveSource
  <2>4. opt'[p] = opt[p]
    BY DEF ReadBack
  <2> QED
    BY <2>1, <2>2, <2>3, <2>4 DEF Exact, Sent
<1>9. CASE ListRemote(p)
  <2>1. pc'[p] = "hash" /\ dst' = dst /\ Place(p)' = Place(p)
    BY <1>9 DEF ListRemote, files, Place
  <2>2. late'[p] = late[p] \cap Entries(dst[Place(p)]) /\ todo'[p] = Entries(dst[Place(p)])
    BY <1>9 DEF ListRemote
  <2>3. digest'[p] = MissingRoot \/ digest'[p].digests = Empty
    BY <1>9 DEF ListRemote, Begun, Manifest
  <2>4. Readable(digest'[p]) => digest'[p].digests = Empty
    BY <2>3 DEF Readable, MissingRoot
  <2>5. Readable(digest'[p]) => DigestedSoFar(p)'
    BY <2>1, <2>2, <2>4 DEF DigestedSoFar, Entries, Empty
  <2> QED
    BY <2>1, <2>5
<1>10. CASE \E n \in Names, readable \in BOOLEAN : HashRemote(p, n, readable)
  <2> PICK n \in Names, readable \in BOOLEAN : HashRemote(p, n, readable)
    BY <1>10
  <2>1. pc[p] = "hash" /\ pc' = pc /\ dst' = dst /\ Place(p)' = Place(p)
    BY DEF HashRemote, files, Place
  <2>2. late'[p] = late[p] \ {n} /\ todo'[p] = todo[p] \ {n}
    BY DEF HashRemote
  <2>3. digest'[p] = Hashed(digest[p], n, dst[Place(p)][n], readable) /\ digest[p] \in ContentManifest
    BY DEF HashRemote
  <2>4. ASSUME Readable(digest'[p]) PROVE DigestedSoFar(p)'
    <3>1. /\ Readable(digest[p]) /\ digest'[p].digests[n] = dst[Place(p)][n]
          /\ \A k \in Names : k # n => digest'[p].digests[k] = digest[p].digests[k]
      BY <2>3, <2>4, HashedIsKnown
    <3> QED
      BY <2>1, <2>2, <3>1 DEF DigestedSoFar
  <2> QED
    BY <2>1, <2>4
<1>11. CASE \E answered \in BOOLEAN : ListSource(p, answered)
  <2> PICK answered \in BOOLEAN : ListSource(p, answered)
    BY <1>11
  <2>1. /\ pc[p] = "hash" /\ pc'[p] = "compare" /\ todo[p] = {} /\ UNCHANGED <<src, dst, job, late>>
        /\ Place(p)' = Place(p) /\ todo'[p] = Entries(src[job[p]])
    BY DEF ListSource, files, Place
  <2>2. digest'[p] = RemoteManifest(digest[p], answered)
    BY DEF ListSource
  <2>3. Readable(digest'[p]) => digest'[p] = digest[p]
    BY <2>2 DEF RemoteManifest, Readable, UnreadableOne
  <2>4. Readable(digest'[p]) => Digested(p)'
    BY <2>1, <2>3 DEF Digested, DigestedSoFar
  <2>5. HashedSoFar(p)'
    BY <2>1 DEF HashedSoFar, Entries
  <2> QED
    BY <2>1, <2>4, <2>5
<1>12. CASE \E n \in Names, readable \in BOOLEAN : HashSource(p, n, readable)
  <2> PICK n \in Names, readable \in BOOLEAN : HashSource(p, n, readable)
    BY <1>12
  <2>1. pc[p] = "compare" /\ UNCHANGED <<pc, src, dst, job, late, digest>> /\ Place(p)' = Place(p)
    BY DEF HashSource, files, Place
  <2>2. todo'[p] = todo[p] \ {n}
    BY DEF HashSource
  <2>3. hashed'[p] = Hashed(hashed[p], n, src[job[p]][n], readable) /\ hashed[p] \in ContentManifest
    BY DEF HashSource
  <2>4. ASSUME Readable(hashed'[p]) PROVE HashedSoFar(p)'
    <3>1. /\ Readable(hashed[p]) /\ hashed'[p].digests[n] = src[job[p]][n]
          /\ \A k \in Names : k # n => hashed'[p].digests[k] = hashed[p].digests[k]
      BY <2>3, <2>4, HashedIsKnown
    <3> QED
      BY <2>1, <2>2, <3>1 DEF HashedSoFar
  <2>5. Readable(digest'[p]) => Digested(p)'
    BY <2>1 DEF Digested
  <2> QED
    BY <2>1, <2>4, <2>5
<1>13. CASE CompareContent(p)
  <2>1. ASSUME verdict'[p] = VERIFIED PROVE Seen(p)'
    <3>1. VerifyContent(hashed[p], digest[p]) = VERIFIED /\ todo[p] = {} /\ pc[p] = "compare"
      BY <1>13, <2>1 DEF CompareContent
    <3>2. Readable(hashed[p]) /\ Readable(digest[p]) /\ hashed[p].digests = digest[p].digests
      BY <3>1, VerifiedContentIsEqual
    <3>3. Digested(p) /\ HashedSoFar(p)
      BY <3>1, <3>2
    <3> QED
      BY <1>13, <3>1, <3>2, <3>3 DEF CompareContent, Digested, HashedSoFar, Seen, Held, files, Place
  <2> QED
    BY <1>13, <2>1 DEF CompareContent
<1>14. CASE OpenManifest(p)
  BY <1>14 DEF OpenManifest, Seen, Held, Place, memory
<1>15. CASE WriteManifest(p)
  <2>1. CASE MayRemoveSource(verdict[p])
    BY <1>15, <2>1 DEF WriteManifest, MayRemoveSource, Seen, Held, Place, memory
  <2>2. CASE ~MayRemoveSource(verdict[p])
    BY <1>15, <2>2 DEF WriteManifest, Leave
  <2> QED
    BY <2>1, <2>2
<1>16. CASE StartRemoval(p)
  BY <1>16 DEF StartRemoval, files, Seen, Held, Place
<1>17. CASE \E n \in Names : Unlink(p, n)
  <2> PICK n \in Names : Unlink(p, n)
    BY <1>17
  <2>1. /\ pc' = pc /\ pc[p] = "unlink" /\ UNCHANGED <<dst, late, opt>>
        /\ job' = job /\ Place(p)' = Place(p)
    BY DEF Unlink, Place
  <2>2. \A m \in Names : src'[job[p]][m] \in {NoEntry, src[job[p]][m]}
    BY DEF Unlink, Tree
  <2>3. Seen(p) => Seen(p)'
    BY <2>1, <2>2 DEF Seen, Held
  <2> QED
    BY <2>1, <2>3
<1>18. CASE RemoveDir(p)
  BY <1>18 DEF RemoveDir, Leave
<1> QED
  BY <1>1, <1>2, <1>3, <1>4, <1>5, <1>6, <1>7, <1>8, <1>9, <1>10, <1>11, <1>12, <1>13,
     <1>14, <1>15, <1>16, <1>17, <1>18
  DEF ArchiveStep

LEMMA OwnRestore ==
  ASSUME TypeOK, NEW p \in Restorers, Window(p), RestoreStep(p)
  PROVE  Window(p)'
<1> p \in Procs
  BY DEF Procs
<1> USE DEF TypeOK, Goto, Window, Before, AfterPush, Recording, Removing
<1>1. CASE \E s \in Sources, delete_remote \in BOOLEAN : StartRestore(p, s, delete_remote)
  <2>1. pc'[p] = "pull"
    BY <1>1 DEF StartRestore
  <2> QED
    BY <2>1
<1>2. CASE \E n \in Names : PullEntry(p, n)
  <2>1. pc' = pc /\ pc[p] = "pull"
    BY <1>2 DEF PullEntry
  <2> QED
    BY <2>1
<1>3. CASE PullDone(p)
  BY <1>3 DEF PullDone, Leave
<1>4. CASE \E n \in Names : UnlinkRemote(p, n)
  <2>1. pc' = pc /\ pc[p] = "purge"
    BY <1>4 DEF UnlinkRemote
  <2> QED
    BY <2>1
<1>5. CASE RemoveRemoteDir(p)
  BY <1>5 DEF RemoveRemoteDir, Leave
<1> QED
  BY <1>1, <1>2, <1>3, <1>4, <1>5 DEF RestoreStep

LEMMA WindowsKept == TypeOK /\ Windows /\ [Next]_vars => Windows'
<1> SUFFICES ASSUME TypeOK, Windows, [Next]_vars, NEW p \in Procs
             PROVE  Window(p)'
  BY DEF Windows
<1> Window(p)
  BY DEF Windows
<1>1. ASSUME NEW q \in Archivers, ArchiveStep(q) PROVE Window(p)'
  BY <1>1, OwnArchive, OtherArchive, UndisturbedKeepsWindow
<1>2. ASSUME NEW q \in Restorers, RestoreStep(q) PROVE Window(p)'
  BY <1>2, OwnRestore, OtherRestore, UndisturbedKeepsWindow
<1>3. ASSUME NEW q \in Procs, Stop(q) PROVE Window(p)'
  <2>1. CASE p = q
    BY <1>3, <2>1 DEF Stop, Leave, Goto, Window, Before, AfterPush, Recording, Removing, TypeOK
  <2>2. CASE p # q
    <3>1. Undisturbed(p)
      BY <1>3, <2>2 DEF Stop, Leave, Goto, Undisturbed, files, TypeOK
    <3> QED
      BY <3>1, UndisturbedKeepsWindow
  <2> QED
    BY <2>1, <2>2
<1>4. CASE Environment
  BY <1>4, EnvironmentIsNoticed, UndisturbedKeepsWindow
<1>5. CASE UNCHANGED vars
  <2>1. Undisturbed(p)
    BY <1>5 DEF vars, files, local, memory, Undisturbed
  <2> QED
    BY <2>1, UndisturbedKeepsWindow
<1> QED
  BY <1>1, <1>2, <1>3, <1>4, <1>5 DEF Next

LEMMA WindowsAtFirst == Init => Windows
BY DEF Init, Windows, Window, Before, AfterPush, Recording, Removing

LEMMA WindowsImplyLoss == TypeOK /\ Windows => LossOnlyInWindow
BY DEF TypeOK, Windows, Window, Removing, Seen, LossOnlyInWindow

(* rmtree only ever unlinks what the destination holds, but for the entries  *)
(* somebody changed after the command last saw both sides agree.             *)
THEOREM LossIsConfinedToTheWindow == Spec => []LossOnlyInWindow
<1>1. Init => TypeOK /\ Windows
  BY InitTyped, WindowsAtFirst
<1>2. TypeOK /\ Windows /\ [Next]_vars => (TypeOK /\ Windows)'
  BY NextTyped, WindowsKept
<1>3. TypeOK /\ Windows => LossOnlyInWindow
  BY WindowsImplyLoss
<1> QED
  BY <1>1, <1>2, <1>3, PTL DEF Spec

-----------------------------------------------------------------------------
(* One command at a time, on a directory nobody edits meanwhile, to a        *)
(* destination nothing else writes, what is half archived going on to the    *)
(* same host: nothing is lost (NoLoss), what is only remote is found again   *)
(* (StrandedIsFound) and Mover is implemented (MovesSafely), at whatever     *)
(* steps commands fail or are killed.                                        *)
Alone ==
  /\ \A p, q \in Procs : p = q
  /\ ~LiveEdits /\ ~LiveRestores /\ ~Redirects /\ MaxRots = 0
  /\ \A o \in Options : Exact(o)

(* The inductive invariant.  Nothing is ever late; a restore only fills in   *)
(* entries that are missing, and purges the destination only when every      *)
(* entry there is also here ...                                              *)
Filling(p) ==
  \A n \in Names :
    /\ Held(p, n)
    /\ n \notin todo[p] /\ dst[Place(p)][n] # NoEntry => src[job[p]][n] = dst[Place(p)][n]
Filled(p) ==
  \A n \in Names : dst[Place(p)][n] # NoEntry => src[job[p]][n] = dst[Place(p)][n]

Calm ==
  \A p \in Procs :
    /\ late[p] = {}
    /\ pc[p] = "pull" => Filling(p)
    /\ pc[p] = "purge" => Filled(p)

Quiet == TypeOK /\ Windows /\ Calm

(* ... and what is stranded is held by every destination that matters: the   *)
(* one a readable manifest names, and the one a command works on.  Without a *)
(* manifest that leads to it, it had gone before the manifest was opened.    *)
Found(s) == manifest[ManifestKey[s]]
Leads(s) == Found(s).state = "whole" /\ Found(s).source = s
Filed(p) == Leads(job[p]) /\ Found(job[p]).destination = to[p]

Led ==
  /\ \A k \in Keys : manifest[k].state = "whole" => ManifestKey[manifest[k].source] = k
  /\ \A s \in Sources : IF Leads(s) THEN HeldAt(Found(s).destination, s)
                                    ELSE Stranded(s) \subseteq astray[s]
  /\ \A p \in Procs :
       /\ pc[p] # "idle" => HeldAt(to[p], job[p])
       /\ pc[p] = "recording" => Found(job[p]).state = "torn"
       /\ pc[p] \in Removing => Filed(p)

Safe == Quiet /\ NoLoss /\ Led

LEMMA CalmAtFirst == Init => Calm
BY DEF Init, Calm

LEMMA NothingTouched ==
  ASSUME TypeOK, Calm, NEW p \in Procs, NEW who \in SUBSET Watching, NEW names,
         pc[p] \in {"idle", "preflight", "pull", "purge"}
  PROVE  Touched(who, names)[p] = {}
BY DEF Touched, Watching, Calm

LEMMA ArchiveCalm ==
  ASSUME Alone, TypeOK, Calm, NEW p \in Archivers, ArchiveStep(p)
  PROVE  Calm'
<1> p \in Procs /\ \A q \in Procs : q = p
  BY DEF Procs, Alone
<1>1. late'[p] = {}
  <2>1. CASE \E n \in Names : PushEntry(p, n)
    BY <2>1, TouchedTyped DEF PushEntry, Changed, TypeOK, Calm
  <2>2. CASE ~\E n \in Names : PushEntry(p, n)
    BY <2>2
    DEF TypeOK, Calm, ArchiveStep, PlanArchive, StartPush, PushDone, StartTally, MeasureEntry, CountRemote,
        ReadBack, ListRemote, HashRemote, ListSource, HashSource, CompareContent, OpenManifest, WriteManifest,
        StartRemoval, Unlink, RemoveDir, Leave
  <2> QED
    BY <2>1, <2>2
<1>2. pc'[p] \notin {"pull", "purge"}
  BY DEF TypeOK, ArchiveStep, PlanArchive, StartPush, PushEntry, PushDone, StartTally, MeasureEntry, CountRemote,
         ReadBack, ListRemote, HashRemote, ListSource, HashSource, CompareContent, OpenManifest, WriteManifest,
         StartRemoval, Unlink, RemoveDir, Leave, Goto
<1> QED
  BY <1>1, <1>2 DEF Calm

LEMMA RestoreCalm ==
  ASSUME Alone, TypeOK, Calm, NEW p \in Restorers, RestoreStep(p)
  PROVE  Calm'
<1> p \in Procs /\ (\A q \in Procs : q = p) /\ job[p] \in Sources /\ Place(p) \in Places
  BY TreesTyped DEF Procs, Alone
<1> USE DEF TypeOK, Goto
<1>1. CASE \E s \in Sources, delete_remote \in BOOLEAN : StartRestore(p, s, delete_remote)
  <2> PICK s \in Sources, delete_remote \in BOOLEAN : StartRestore(p, s, delete_remote)
    BY <1>1
  <2>0. Place(p)' = <<manifest[ManifestKey[s]].destination, job'[p]>> /\ dst' = dst /\ src' = src
    BY DEF StartRestore, Place
  <2>1. \A n \in Names : src[job'[p]][n] \in {NoEntry, dst[Place(p)'][n]}
    BY <2>0 DEF StartRestore, Alone
  <2>2. todo'[p] = Entries(dst[Place(p)'])
    BY <2>0 DEF StartRestore
  <2>3. Filling(p)'
    BY <2>0, <2>1, <2>2 DEF Filling, Held, Entries
  <2> QED
    BY <2>3 DEF StartRestore, Calm
<1>2. CASE \E n \in Names : PullEntry(p, n)
  <2> PICK n \in Names : PullEntry(p, n)
    BY <1>2
  <2>1. late'[p] = {}
    BY NothingTouched DEF PullEntry, From
  <2>2. Filling(p)
    BY DEF PullEntry, Calm
  <2>3. src[job[p]] \in Tree /\ src'[job[p]] \in Tree /\ dst' = dst /\ job' = job /\ Place(p)' = Place(p)
    <3>1. TypeOK'
      BY RestoreTyped
    <3> QED
      BY <3>1 DEF PullEntry, Place
  <2>4. src'[job[p]][n] = dst[Place(p)][n]
    <3>1. CASE src' = [src EXCEPT ![job[p]][n] = dst[Place(p)][n]]
      BY <2>3, <3>1 DEF Tree
    <3>2. CASE src' = src /\ src[job[p]][n] # NoEntry
      BY <2>2, <3>2 DEF Filling, Held
    <3> QED
      BY <3>1, <3>2 DEF PullEntry, QuickCheckSkips
  <2>5. \A m \in Names : m # n => src'[job[p]][m] = src[job[p]][m]
    BY <2>3 DEF PullEntry, Tree
  <2>6. todo'[p] = todo[p] \ {n}
    BY DEF PullEntry
  <2>7. Filling(p)'
    BY <2>2, <2>3, <2>4, <2>5, <2>6 DEF Filling, Held
  <2>8. pc' = pc /\ pc[p] = "pull"
    BY DEF PullEntry
  <2> QED
    BY <2>1, <2>7, <2>8 DEF Calm
<1>3. CASE PullDone(p)
  <2>1. purge[p] => Filled(p)'
    BY <1>3 DEF PullDone, Calm, Filling, Filled, files, Place
  <2> QED
    BY <1>3, <2>1 DEF PullDone, Leave, Calm
<1>4. CASE \E n \in Names : UnlinkRemote(p, n)
  <2> PICK n \in Names : UnlinkRemote(p, n)
    BY <1>4
  <2>1. late'[p] = {}
    BY NothingTouched DEF UnlinkRemote, At
  <2>2. \A m \in Names : dst'[Place(p)][m] \in {NoEntry, dst[Place(p)][m]}
    BY DEF UnlinkRemote, Tree
  <2>3. pc' = pc /\ pc[p] = "purge" /\ src' = src /\ job' = job /\ Place(p)' = Place(p)
    BY DEF UnlinkRemote, Place
  <2>4. Filled(p)'
    BY <2>2, <2>3 DEF Calm, Filled
  <2> QED
    BY <2>1, <2>3, <2>4 DEF Calm
<1>5. CASE RemoveRemoteDir(p)
  BY <1>5 DEF RemoveRemoteDir, Leave, Calm
<1> QED
  BY <1>1, <1>2, <1>3, <1>4, <1>5 DEF RestoreStep

LEMMA CalmKept ==
  ASSUME Alone, TypeOK, Calm, [Next]_vars
  PROVE  Calm'
<1>1. CASE \E p \in Archivers : ArchiveStep(p)
  BY <1>1, ArchiveCalm
<1>2. CASE \E p \in Restorers : RestoreStep(p)
  BY <1>2, RestoreCalm
<1>3. CASE \E p \in Procs : Stop(p)
  BY <1>3 DEF Stop, Leave, Goto, Calm, Alone, TypeOK
<1>4. CASE Environment
  <2> PICK s \in Sources, n \in Names, c \in Contents \cup {NoEntry} : Edit(s, n, c)
    BY <1>4 DEF Environment, Rot, Alone, TypeOK
  <2>1. \A p \in Procs : pc[p] = "idle"
    BY DEF Edit, Alone
  <2>2. late' = Touched(From(s), {n}) /\ pc' = pc /\ From(s) \in SUBSET Watching
    BY DEF Edit, local, From
  <2> QED
    BY <2>1, <2>2, NothingTouched DEF Calm
<1>5. CASE UNCHANGED vars
  BY <1>5 DEF vars, files, local, memory, Calm, Filling, Filled, Held, Place
<1> QED
  BY <1>1, <1>2, <1>3, <1>4, <1>5 DEF Next

LEMMA QuietAtFirst == Init => Quiet
BY InitTyped, WindowsAtFirst, CalmAtFirst DEF Quiet

LEMMA QuietKept ==
  ASSUME Alone, Quiet, [Next]_vars
  PROVE  Quiet'
BY NextTyped, WindowsKept, CalmKept DEF Quiet

LEMMA HeldWhenUnlinked ==
  ASSUME Alone, Quiet, NEW p \in Procs, pc[p] = "unlink", NEW n \in Names
  PROVE  Held(p, n)
<1>1. Exact(opt[p])
  BY DEF Quiet, TypeOK, Alone
<1> QED
  BY <1>1 DEF Quiet, Calm, Windows, Window, Removing, Seen

-----------------------------------------------------------------------------
(* But for rmtree, no step strands an entry, and none changes what is held   *)
(* of one that is stranded.                                                  *)
Kept ==
  \A s \in Sources : \A n \in Stranded(s)' :
    /\ n \in Stranded(s)
    /\ src'[s][n] = src[s][n] /\ want'[s][n] = want[s][n]
    /\ \A d \in Destinations : dst'[<<d, s>>][n] = dst[<<d, s>>][n]

LEMMA UnchangedIsKept == UNCHANGED <<src, dst, want>> => Kept
BY DEF Kept, Stranded

LEMMA PushKeeps ==
  ASSUME Safe, NEW p \in Procs, NEW n \in Names, PushEntry(p, n)
  PROVE  Kept
<1>1. job[p] \in Sources /\ Place(p) \in Places /\ src' = src /\ want' = want /\ src[job[p]][n] # NoEntry
  BY TreesTyped DEF Safe, Quiet, PushEntry, env
<1>2. n \notin Stranded(job[p])
  BY <1>1 DEF Safe, NoLoss
<1>3. \A place \in Places, m \in Names : place # Place(p) \/ m # n => dst'[place][m] = dst[place][m]
  BY <1>1 DEF PushEntry, Safe, Quiet, TypeOK, Tree
<1> QED
  BY <1>1, <1>2, <1>3 DEF Kept, Stranded, Place, Places

LEMMA PullKeeps ==
  ASSUME Safe, NEW p \in Procs, NEW n \in Names, PullEntry(p, n)
  PROVE  Kept
<1> PICK s \in Sources : s = job[p]
  BY DEF Safe, Quiet, TypeOK
<1> PICK there : there = dst[Place(p)][n]
  OBVIOUS
<1>1. to[p] \in Destinations /\ dst' = dst /\ want' = want /\ pc[p] = "pull"
  BY DEF PullEntry, Safe, Quiet, TypeOK, env
<1>2. Held(p, n) /\ HeldAt(to[p], s)
  BY <1>1 DEF Safe, Quiet, Calm, Filling, Led
<1>3. src' = [src EXCEPT ![s][n] = there] \/ src' = src
  BY DEF PullEntry
<1>4. there = dst[<<to[p], s>>][n] /\ src[s][n] \in {NoEntry, there} /\ src \in [Sources -> Tree]
  BY <1>2 DEF Held, Place, Safe, Quiet, TypeOK
<1>5. CASE src' = src
  BY <1>1, <1>5, UnchangedIsKept
<1>6. CASE src' = [src EXCEPT ![s][n] = there]
  <2>1. \A t \in Sources, m \in Names : t # s \/ m # n => src'[t][m] = src[t][m]
    BY <1>4, <1>6 DEF Tree
  <2>2. src'[s][n] = there
    BY <1>1, <1>4, <1>6 DEF Tree
  <2>3. n \notin Stranded(s)'
    <3>1. SUFFICES ASSUME n \in Stranded(s)' PROVE FALSE
      OBVIOUS
    <3>2. want[s][n] # NoEntry /\ there # want[s][n]
      BY <1>1, <2>2, <3>1 DEF Stranded
    <3>3. n \in Stranded(s)
      BY <1>4, <3>2 DEF Stranded
    <3> QED
      BY <1>2, <1>4, <3>2, <3>3 DEF HeldAt
  <2> QED
    BY <1>1, <2>1, <2>3 DEF Kept, Stranded
<1> QED
  BY <1>3, <1>5, <1>6

LEMMA PurgeKeeps ==
  ASSUME Safe, NEW p \in Procs, NEW n \in Names, UnlinkRemote(p, n)
  PROVE  Kept
<1>1. job[p] \in Sources /\ Place(p) \in Places /\ src' = src /\ want' = want /\ pc[p] = "purge"
  BY TreesTyped DEF Safe, Quiet, UnlinkRemote, env
<1>2. \A place \in Places, m \in Names : place # Place(p) \/ m # n => dst'[place][m] = dst[place][m]
  BY <1>1 DEF UnlinkRemote, Safe, Quiet, TypeOK, Tree
<1>3. dst'[Place(p)][n] = NoEntry
  BY <1>1 DEF UnlinkRemote, Safe, Quiet, TypeOK, Tree
<1>4. dst[Place(p)][n] # NoEntry => src[job[p]][n] # NoEntry
  BY <1>1 DEF Safe, Quiet, Calm, Filled
<1>5. n \in Stranded(job[p]) => dst'[Place(p)][n] = dst[Place(p)][n]
  BY <1>1, <1>3, <1>4 DEF Safe, NoLoss
<1> QED
  BY <1>1, <1>2, <1>5 DEF Kept, Stranded, Place, Places

LEMMA EditKeeps ==
  ASSUME Safe, NEW s \in Sources, NEW n \in Names, NEW c \in Contents \cup {NoEntry}, Edit(s, n, c)
  PROVE  Kept
<1>1. src'[s][n] = c /\ want'[s][n] = c /\ dst' = dst
  BY DEF Edit, Safe, Quiet, TypeOK, Tree
<1>2. \A t \in Sources, m \in Names :
        t # s \/ m # n => src'[t][m] = src[t][m] /\ want'[t][m] = want[t][m]
  BY DEF Edit, Safe, Quiet, TypeOK, Tree
<1> QED
  BY <1>1, <1>2 DEF Kept, Stranded

LEMMA ArchiveKeeps ==
  ASSUME Safe, NEW p \in Archivers, ArchiveStep(p), ~\E n \in Names : Unlink(p, n)
  PROVE  Kept
<1>1. CASE \E n \in Names : PushEntry(p, n)
  BY <1>1, PushKeeps DEF Procs
<1>2. CASE ~\E n \in Names : PushEntry(p, n)
  <2>1. UNCHANGED <<src, dst, want>>
    BY <1>2
    DEF ArchiveStep, PlanArchive, StartPush, PushDone, StartTally, MeasureEntry, CountRemote,
        ReadBack, ListRemote, HashRemote, ListSource, HashSource, CompareContent, OpenManifest, WriteManifest,
        StartRemoval, RemoveDir, files, env
  <2> QED
    BY <2>1, UnchangedIsKept
<1> QED
  BY <1>1, <1>2

LEMMA RestoreKeeps ==
  ASSUME Safe, NEW p \in Restorers, RestoreStep(p)
  PROVE  Kept
<1>1. CASE \E n \in Names : PullEntry(p, n) \/ UnlinkRemote(p, n)
  BY <1>1, PullKeeps, PurgeKeeps DEF Procs
<1>2. CASE ~\E n \in Names : PullEntry(p, n) \/ UnlinkRemote(p, n)
  <2>1. UNCHANGED <<src, dst, want>>
    BY <1>2 DEF RestoreStep, StartRestore, PullDone, RemoveRemoteDir, files, env
  <2> QED
    BY <2>1, UnchangedIsKept
<1> QED
  BY <1>1, <1>2

LEMMA KeptIsHeld ==
  ASSUME Kept, NEW s \in Sources
  PROVE  /\ Stranded(s)' \subseteq Stranded(s)
         /\ \A d \in Destinations : HeldAt(d, s) => HeldAt(d, s)'
BY DEF Kept, HeldAt

LEMMA KeptLosesNothing == NoLoss /\ Kept => NoLoss'
<1> SUFFICES ASSUME NoLoss, Kept, NEW s \in Sources, NEW n \in Names, n \in Stranded(s)'
             PROVE  src'[s][n] = NoEntry /\ \E d \in Destinations : dst'[<<d, s>>][n] = want'[s][n]
  BY DEF NoLoss
<1>1. n \in Stranded(s) /\ src'[s][n] = src[s][n] /\ want'[s][n] = want[s][n]
  BY DEF Kept
<1>2. src[s][n] = NoEntry /\ \E d \in Destinations : dst[<<d, s>>][n] = want[s][n]
  BY <1>1 DEF NoLoss
<1> QED
  BY <1>1, <1>2 DEF Kept

(* What keeps p led, when no manifest changes. *)
StaysLed(p) ==
  \/ pc'[p] = "idle"
  \/ pc'[p] \in {"preflight", "pull"} /\ job'[p] \in Sources /\ to'[p] \in Destinations /\ HeldAt(to'[p], job'[p])
  \/ /\ pc[p] # "idle" /\ job'[p] = job[p] /\ to'[p] = to[p]
     /\ pc'[p] = "recording" => pc[p] = "recording"
     /\ pc'[p] \in Removing => pc[p] \in Removing

LEMMA LedStays ==
  ASSUME TypeOK, Led, Kept, UNCHANGED <<manifest, astray>>, \A p \in Procs : StaysLed(p)
  PROVE  Led'
<1>1. \A s \in Sources : Found(s)' = Found(s) /\ (Leads(s)' <=> Leads(s))
  BY DEF Found, Leads
<1>2. ASSUME NEW k \in Keys, manifest'[k].state = "whole" PROVE ManifestKey[manifest'[k].source] = k
  BY <1>2 DEF Led
<1>3. ASSUME NEW s \in Sources
      PROVE  IF Leads(s)' THEN HeldAt(Found(s).destination, s)' ELSE Stranded(s)' \subseteq astray'[s]
  <2>1. CASE Leads(s)
    <3>1. Found(s).destination \in Destinations
      BY DefaultsTyped DEF TypeOK, Found, ManifestFile
    <3>2. PICK d \in Destinations : d = Found(s).destination
      BY <3>1
    <3>3. HeldAt(d, s)
      BY <2>1, <3>2 DEF Led
    <3>4. HeldAt(d, s)'
      BY <3>3, KeptIsHeld
    <3>5. HeldAt(Found(s).destination, s)'
      BY <1>1, <3>2, <3>4 DEF HeldAt
    <3> QED
      BY <1>1, <2>1, <3>5
  <2>2. CASE ~Leads(s)
    BY <1>1, <2>2, KeptIsHeld DEF Led
  <2> QED
    BY <2>1, <2>2
<1>4. ASSUME NEW p \in Procs, pc'[p] # "idle" PROVE HeldAt(to[p], job[p])'
  <2>1. /\ job'[p] \in Sources /\ to'[p] \in Destinations
        /\ HeldAt(to'[p], job'[p])
    BY <1>4 DEF StaysLed, Led, TypeOK
  <2>2. PICK s \in Sources, d \in Destinations : s = job'[p] /\ d = to'[p] /\ HeldAt(d, s)
    BY <2>1
  <2>3. HeldAt(d, s)'
    BY <2>2, KeptIsHeld
  <2> QED
    BY <2>2, <2>3 DEF HeldAt, Stranded
<1>5. ASSUME NEW p \in Procs, pc'[p] = "recording" PROVE Found(job[p])'.state = "torn"
  <2>1. pc[p] = "recording" /\ job'[p] = job[p]
    BY <1>5 DEF StaysLed
  <2>2. Found(job[p]).state = "torn"
    BY <2>1 DEF Led
  <2> QED
    BY <2>1, <2>2 DEF Found
<1>6. ASSUME NEW p \in Procs, pc'[p] \in Removing PROVE Filed(p)'
  <2>1. pc[p] \in Removing /\ job'[p] = job[p] /\ to'[p] = to[p]
    BY <1>6 DEF StaysLed, Removing
  <2>2. Filed(p)
    BY <2>1 DEF Led
  <2> QED
    BY <2>1, <2>2 DEF Filed, Leads, Found
<1> QED
  BY <1>2, <1>3, <1>4, <1>5, <1>6 DEF Led

(* rmtree strands what the destination holds, and the manifest leads to.     *)
LEMMA UnlinkIsSafe ==
  ASSUME Alone, Safe, NEW p \in Procs, NEW n \in Names, Unlink(p, n)
  PROVE  NoLoss' /\ Led'
<1> TypeOK /\ (\A q \in Procs : q = p)
  BY DEF Safe, Quiet, Alone
<1> PICK s \in Sources, d \in Destinations : s = job[p] /\ d = to[p]
  BY DEF TypeOK
<1>1. /\ UNCHANGED <<dst, manifest, pc, job, to, want, astray>> /\ pc[p] = "unlink"
      /\ src' = [src EXCEPT ![s][n] = NoEntry]
  BY DEF Unlink, env
<1>2. src'[s][n] = NoEntry /\ \A t \in Sources, m \in Names : t # s \/ m # n => src'[t][m] = src[t][m]
  BY <1>1 DEF TypeOK, Tree
<1>3. Held(p, n) /\ HeldAt(d, s) /\ Filed(p)
  BY <1>1, HeldWhenUnlinked DEF Safe, Led, Removing
<1>4. src[s][n] \in {NoEntry, dst[<<d, s>>][n]} /\ Leads(s) /\ Found(s).destination = d
  BY <1>3 DEF Held, Place, Filed
<1>5. Stranded(s)' \subseteq Stranded(s) \cup {n} /\ \A t \in Sources : t # s => Stranded(t)' = Stranded(t)
  BY <1>1, <1>2 DEF Stranded
<1>6. n \in Stranded(s)' => dst[<<d, s>>][n] = want[s][n]
  <2>1. CASE n \in Stranded(s)
    BY <1>3, <2>1 DEF HeldAt
  <2>2. CASE n \notin Stranded(s) /\ want[s][n] # NoEntry
    BY <1>4, <2>2 DEF Stranded
  <2>3. CASE want[s][n] = NoEntry
    BY <1>1, <2>3 DEF Stranded
  <2> QED
    BY <2>1, <2>2, <2>3
<1>7. HeldAt(d, s)'
  BY <1>1, <1>3, <1>5, <1>6 DEF HeldAt
<1>8. NoLoss'
  <2> SUFFICES ASSUME NEW t \in Sources, NEW m \in Names, m \in Stranded(t)'
               PROVE  src'[t][m] = NoEntry /\ \E e \in Destinations : dst'[<<e, t>>][m] = want'[t][m]
    BY DEF NoLoss
  <2>1. CASE t = s /\ m = n
    BY <1>1, <1>2, <1>6, <2>1
  <2>2. CASE t # s \/ m # n
    BY <1>1, <1>2, <1>5, <2>2 DEF Safe, NoLoss
  <2> QED
    BY <2>1, <2>2
<1>9. \A t \in Sources : Found(t)' = Found(t) /\ (Leads(t)' <=> Leads(t))
  BY <1>1 DEF Found, Leads
<1>10. ASSUME NEW t \in Sources
       PROVE  IF Leads(t)' THEN HeldAt(Found(t).destination, t)' ELSE Stranded(t)' \subseteq astray'[t]
  <2>1. CASE t = s
    <3>1. HeldAt(Found(s).destination, s)'
      BY <1>4, <1>7, <1>9 DEF HeldAt
    <3> QED
      BY <1>4, <1>9, <2>1, <3>1
  <2>2. CASE t # s
    BY <1>1, <1>5, <1>9, <2>2 DEF Safe, Led, HeldAt
  <2> QED
    BY <2>1, <2>2
<1>11. HeldAt(to[p], job[p])' /\ Filed(p)'
  BY <1>1, <1>3, <1>7 DEF HeldAt, Filed, Leads, Found, Stranded
<1>12. \A k \in Keys : manifest'[k].state = "whole" => ManifestKey[manifest'[k].source] = k
  BY <1>1 DEF Safe, Led
<1>13. Led'
  BY <1>1, <1>10, <1>11, <1>12 DEF Led
<1> QED
  BY <1>8, <1>13

(* Opening a manifest loses what led to what is stranded already ... *)
LEMMA OpenIsLed ==
  ASSUME Alone, Safe, NEW p \in Procs, OpenManifest(p)
  PROVE  Led'
<1> TypeOK /\ (\A q \in Procs : q = p)
  BY DEF Safe, Quiet, Alone
<1> PICK s \in Sources : s = job[p]
  BY DEF TypeOK
<1> DEFINE key == ManifestKey[s]
<1>1. UNCHANGED <<src, dst, want, job, to>> /\ pc'[p] = "recording" /\ pc[p] = "record"
  BY DEF OpenManifest, Goto, TypeOK
<1>2. manifest' = [manifest EXCEPT ![key] = TornManifest] /\ key \in Keys /\ TornManifest.state = "torn"
  BY DefaultsTyped DEF OpenManifest, TornManifest, NoManifest
<1>3. \A t \in Sources : astray'[t] = IF ManifestKey[t] = key THEN Stranded(t) ELSE astray[t]
  BY DEF OpenManifest
<1>4. \A t \in Sources : Stranded(t)' = Stranded(t)
  BY <1>1 DEF Stranded
<1>5. \A t \in Sources : Found(t)' = IF ManifestKey[t] = key THEN TornManifest ELSE Found(t)
  BY <1>2, DefaultsTyped DEF Found, TypeOK
<1>6. ASSUME NEW t \in Sources
      PROVE  IF Leads(t)' THEN HeldAt(Found(t).destination, t)' ELSE Stranded(t)' \subseteq astray'[t]
  <2>1. CASE ManifestKey[t] = key
    BY <1>2, <1>3, <1>4, <1>5, <2>1 DEF Leads
  <2>2. CASE ManifestKey[t] # key
    BY <1>1, <1>3, <1>4, <1>5, <2>2 DEF Safe, Led, Leads, HeldAt
  <2> QED
    BY <2>1, <2>2
<1>7. HeldAt(to[p], job[p])'
  BY <1>1, <1>4 DEF Safe, Led, HeldAt, Stranded
<1>8. Found(job[p])'.state = "torn"
  BY <1>1, <1>2, <1>5 DEF Found
<1>9. \A k \in Keys : manifest'[k].state = "whole" => ManifestKey[manifest'[k].source] = k
  BY <1>2 DEF Safe, Led, TypeOK
<1> QED
  BY <1>1, <1>6, <1>7, <1>8, <1>9 DEF Led, Removing

(* ... until it is written: then it names the destination that holds it.     *)
LEMMA WriteIsLed ==
  ASSUME Alone, Safe, NEW p \in Procs, WriteManifest(p)
  PROVE  Led'
<1> TypeOK /\ (\A q \in Procs : q = p)
  BY DEF Safe, Quiet, Alone
<1> PICK s \in Sources, d \in Destinations : s = job[p] /\ d = to[p]
  BY DEF TypeOK
<1> DEFINE key  == ManifestKey[s]
           file == [state |-> "whole", source |-> s, destination |-> d]
<1>1. UNCHANGED <<src, dst, want>> /\ pc[p] = "recording"
  BY DEF WriteManifest
<1>2. manifest' = [manifest EXCEPT ![key] = file] /\ key \in Keys
  BY DefaultsTyped DEF WriteManifest
<1>3. \A t \in Sources : t # s => astray'[t] = astray[t]
  BY DEF WriteManifest, TypeOK
<1>4. \A t \in Sources : Stranded(t)' = Stranded(t)
  BY <1>1 DEF Stranded
<1>5. \A t \in Sources : Found(t)' = IF ManifestKey[t] = key THEN file ELSE Found(t)
  BY <1>2, DefaultsTyped DEF Found, TypeOK
<1>6. HeldAt(d, s) /\ HeldAt(d, s)'
  BY <1>1, <1>4 DEF Safe, Led, HeldAt
<1>7. Found(s).state = "torn"
  BY <1>1 DEF Safe, Led
<1>8. ASSUME NEW t \in Sources
      PROVE  IF Leads(t)' THEN HeldAt(Found(t).destination, t)' ELSE Stranded(t)' \subseteq astray'[t]
  <2>1. CASE t = s
    <3>1. Leads(s)' /\ Found(s)'.destination = d
      BY <1>5 DEF Leads
    <3> QED
      BY <1>6, <2>1, <3>1 DEF HeldAt
  <2>2. CASE t # s /\ ManifestKey[t] = key
    <3>1. ~Leads(t) /\ ~Leads(t)'
      BY <1>5, <1>7, <2>2 DEF Leads, Found
    <3> QED
      BY <1>3, <1>4, <2>2, <3>1 DEF Safe, Led
  <2>3. CASE ManifestKey[t] # key
    BY <1>1, <1>3, <1>4, <1>5, <2>3 DEF Safe, Led, Leads, HeldAt
  <2> QED
    BY <2>1, <2>2, <2>3
<1>9. pc'[p] = "idle" \/ (pc'[p] = "remove" /\ job'[p] = s /\ to'[p] = d)
  BY DEF WriteManifest, Leave, Goto, TypeOK
<1>10. pc'[p] # "idle" => HeldAt(to[p], job[p])' /\ Filed(p)'
  <2>1. Leads(s)' /\ Found(s)'.destination = d
    BY <1>5 DEF Leads
  <2> QED
    BY <1>6, <1>9, <2>1 DEF HeldAt, Stranded, Filed, Leads, Found
<1>11. \A k \in Keys : manifest'[k].state = "whole" => ManifestKey[manifest'[k].source] = k
  BY <1>2 DEF Safe, Led, TypeOK
<1>12. /\ pc'[p] # "idle" => HeldAt(to[p], job[p])'
       /\ pc'[p] # "recording"
       /\ pc'[p] \in Removing => Filed(p)'
  BY <1>9, <1>10 DEF Removing
<1> HIDE DEF key, file
<1> QED
  BY <1>8, <1>11, <1>12 DEF Led

LEMMA ArchiveLed ==
  ASSUME Alone, Safe, NEW p \in Archivers, ArchiveStep(p)
  PROVE  NoLoss' /\ Led'
<1> p \in Procs /\ TypeOK /\ (\A q \in Procs : q = p)
  BY DEF Procs, Safe, Quiet, Alone
<1>1. CASE \E n \in Names : Unlink(p, n)
  BY <1>1, UnlinkIsSafe
<1>2. CASE ~\E n \in Names : Unlink(p, n)
  <2>1. Kept /\ NoLoss'
    BY <1>2, ArchiveKeeps, KeptLosesNothing DEF Safe
  <2>2. CASE OpenManifest(p) \/ WriteManifest(p)
    BY <2>1, <2>2, OpenIsLed, WriteIsLed
  <2>3. CASE ~OpenManifest(p) /\ ~WriteManifest(p)
    <3>1. UNCHANGED <<manifest, astray>>
      BY <1>2, <2>3
      DEF ArchiveStep, PlanArchive, StartPush, PushEntry, PushDone, StartTally, MeasureEntry, CountRemote,
          ReadBack, ListRemote, HashRemote, ListSource, HashSource, CompareContent, StartRemoval, RemoveDir,
          files, env
    <3>2. StaysLed(p)
      <4>1. CASE \E s \in Sources, d \in Destinations, o \in Options : PlanArchive(p, s, d, o)
        BY <4>1 DEF PlanArchive, Alone, StaysLed, Goto, TypeOK
      <4>2. CASE ~\E s \in Sources, d \in Destinations, o \in Options : PlanArchive(p, s, d, o)
        <5>1. pc[p] # "idle"
          BY <1>2, <2>3, <4>2
          DEF ArchiveStep, StartPush, PushEntry, PushDone, StartTally, MeasureEntry, CountRemote,
              ReadBack, ListRemote, HashRemote, ListSource, HashSource, CompareContent, StartRemoval, RemoveDir
        <5>2. \/ pc'[p] = "idle"
              \/ job'[p] = job[p] /\ to'[p] = to[p]
          BY <1>2, <2>3, <4>2
          DEF ArchiveStep, StartPush, PushEntry, PushDone, StartTally, MeasureEntry, CountRemote,
              ReadBack, ListRemote, HashRemote, ListSource, HashSource, CompareContent, StartRemoval, RemoveDir,
              Leave, Goto, TypeOK
        <5>3. /\ pc'[p] = "recording" => pc[p] = "recording"
              /\ pc'[p] \in Removing => pc[p] \in Removing
          BY <1>2, <2>3, <4>2
          DEF ArchiveStep, StartPush, PushEntry, PushDone, StartTally, MeasureEntry, CountRemote,
              ReadBack, ListRemote, HashRemote, ListSource, HashSource, CompareContent, StartRemoval, RemoveDir,
              Leave, Goto, TypeOK, Removing
        <5> QED
          BY <5>1, <5>2, <5>3 DEF StaysLed
      <4> QED
        BY <4>1, <4>2
    <3> QED
      BY <2>1, <3>1, <3>2, LedStays DEF Safe
  <2> QED
    BY <2>2, <2>3
<1> QED
  BY <1>1, <1>2

LEMMA RestoreLed ==
  ASSUME Alone, Safe, NEW p \in Restorers, RestoreStep(p)
  PROVE  NoLoss' /\ Led'
<1> p \in Procs /\ TypeOK /\ (\A q \in Procs : q = p)
  BY DEF Procs, Safe, Quiet, Alone
<1>1. Kept /\ NoLoss'
  BY RestoreKeeps, KeptLosesNothing DEF Safe
<1>2. UNCHANGED <<manifest, astray>>
  BY DEF RestoreStep, StartRestore, PullEntry, PullDone, UnlinkRemote, RemoveRemoteDir, files, env
<1>3. StaysLed(p)
  <2>1. CASE \E s \in Sources, delete_remote \in BOOLEAN : StartRestore(p, s, delete_remote)
    <3> PICK s \in Sources, delete_remote \in BOOLEAN : StartRestore(p, s, delete_remote)
      BY <2>1
    <3> DEFINE found == manifest[ManifestKey[s]]
    <3>1. found.state = "whole" /\ ManifestKey[s] \in Keys /\ found \in ManifestFile
      BY DefaultsTyped DEF StartRestore, TypeOK
    <3>2. found.source \in Sources /\ found.destination \in Destinations
      BY <3>1 DEF ManifestFile
    <3>3. Found(found.source) = found
      BY <3>1 DEF Safe, Led, Found
    <3>4. HeldAt(found.destination, found.source)
      BY <3>1, <3>2, <3>3 DEF Safe, Led, Leads
    <3>5. pc'[p] = "pull" /\ job'[p] = found.source /\ to'[p] = found.destination
      BY DEF StartRestore, Goto, TypeOK
    <3> QED
      BY <3>2, <3>4, <3>5 DEF StaysLed
  <2>2. CASE \E n \in Names : PullEntry(p, n)
    BY <2>2 DEF PullEntry, StaysLed, Removing
  <2>3. CASE PullDone(p)
    BY <2>3 DEF PullDone, StaysLed, Leave, Goto, TypeOK, Removing
  <2>4. CASE \E n \in Names : UnlinkRemote(p, n)
    BY <2>4 DEF UnlinkRemote, StaysLed, Removing
  <2>5. CASE RemoveRemoteDir(p)
    BY <2>5 DEF RemoveRemoteDir, StaysLed, Leave, Goto, TypeOK
  <2> QED
    BY <2>1, <2>2, <2>3, <2>4, <2>5 DEF RestoreStep
<1> QED
  BY <1>1, <1>2, <1>3, LedStays DEF Safe

LEMMA SafeKept ==
  ASSUME Alone, Safe, [Next]_vars
  PROVE  Safe'
<1> TypeOK /\ Quiet'
  BY QuietKept DEF Safe, Quiet
<1>1. ASSUME Kept, UNCHANGED <<manifest, astray>>, \A p \in Procs : StaysLed(p)
      PROVE  NoLoss' /\ Led'
  BY <1>1, KeptLosesNothing, LedStays DEF Safe
<1>2. CASE \E p \in Archivers : ArchiveStep(p)
  BY <1>2, ArchiveLed DEF Safe
<1>3. CASE \E p \in Restorers : RestoreStep(p)
  BY <1>3, RestoreLed DEF Safe
<1>4. CASE \E p \in Procs : Stop(p)
  <2> PICK p \in Procs : Stop(p)
    BY <1>4
  <2>1. Kept /\ UNCHANGED <<manifest, astray>>
    BY UnchangedIsKept DEF Stop, files, env
  <2>2. \A q \in Procs : StaysLed(q)
    BY DEF Stop, Leave, Goto, StaysLed, Alone, TypeOK
  <2> QED
    BY <1>1, <2>1, <2>2 DEF Safe
<1>5. CASE Environment
  <2> PICK s \in Sources, n \in Names, c \in Contents \cup {NoEntry} : Edit(s, n, c)
    BY <1>5 DEF Environment, Rot, Alone, TypeOK
  <2>1. Kept /\ UNCHANGED <<manifest, astray, pc>>
    BY EditKeeps DEF Edit, local
  <2>2. \A q \in Procs : pc'[q] = "idle"
    BY <2>1 DEF Edit, Alone
  <2> QED
    BY <1>1, <2>1, <2>2 DEF StaysLed, Safe
<1>6. CASE UNCHANGED vars
  <2>1. Kept /\ UNCHANGED <<manifest, astray, pc, job, to>>
    BY <1>6, UnchangedIsKept DEF vars, files, local, env
  <2>2. \A q \in Procs : StaysLed(q)
    BY <2>1 DEF StaysLed
  <2> QED
    BY <1>1, <2>1, <2>2 DEF Safe
<1> QED
  BY <1>2, <1>3, <1>4, <1>5, <1>6 DEF Next

LEMMA SafeAtFirst == Init => Safe
<1> SUFFICES ASSUME Init PROVE NoLoss /\ Led
  BY QuietAtFirst DEF Safe
<1>1. \A s \in Sources : Stranded(s) = {}
  BY DEF Init, Stranded
<1>2. \A k \in Keys : manifest[k].state = "none"
  BY DEF Init, NoManifest
<1>3. \A s \in Sources : ~Leads(s)
  BY <1>2, DefaultsTyped DEF Leads, Found
<1>4. NoLoss
  BY <1>1 DEF NoLoss
<1>5. Led
  BY <1>1, <1>2, <1>3 DEF Led, Init, Removing
<1> QED
  BY <1>4, <1>5

(* One command at a time on a directory at rest loses nothing, at whatever   *)
(* step it fails or is killed, and however often it is run again.            *)
THEOREM ArchiveLosesNothing ==
  ASSUME Alone
  PROVE  Spec => []NoLoss
<1>1. Safe => NoLoss
  BY DEF Safe
<1> QED
  BY <1>1, SafeAtFirst, SafeKept, PTL DEF Spec

(* Under the same circumstances what exists only remotely is found again: a  *)
(* readable manifest names a destination that holds it, except for what was  *)
(* already gone when the manifest was opened, until it is written.           *)
THEOREM StrandedIsAlwaysFound ==
  ASSUME Alone
  PROVE  Spec => []StrandedIsFound
<1>1. Safe => StrandedIsFound
  BY DEF Safe, Led, StrandedIsFound, Leads, Found, HeldAt
<1> QED
  BY <1>1, SafeAtFirst, SafeKept, PTL DEF Spec

-----------------------------------------------------------------------------
(* Every step of Archive is a step of Mover, or leaves what is held, and     *)
(* what is wanted, alone.                                                    *)
StepsOrStutters == Abstract!Next \/ UNCHANGED <<src, dst, want>>

LEMMA ArchiveRefines ==
  ASSUME Alone, Safe, NEW p \in Archivers, ArchiveStep(p)
  PROVE  StepsOrStutters
<1> p \in Procs /\ TypeOK /\ job[p] \in Sources /\ to[p] \in Destinations /\ Place(p) \in Places
  BY DEF Procs, Safe, Quiet, TypeOK, Place, Places
<1> USE DEF StepsOrStutters
<1>1. ASSUME NEW n \in Names, PushEntry(p, n) PROVE StepsOrStutters
  <2>1. UNCHANGED <<src, dst, want>> \/ Abstract!Copy(job[p], to[p], n)
    BY <1>1 DEF PushEntry, Abstract!Copy, Place, env
  <2> QED
    BY <2>1 DEF Abstract!Next
<1>2. ASSUME NEW n \in Names, Unlink(p, n) PROVE StepsOrStutters
  <2>1. Held(p, n)
    BY <1>2, HeldWhenUnlinked DEF Unlink, Safe
  <2>2. dst' = dst /\ want' = want /\ src' = [src EXCEPT ![job[p]][n] = NoEntry]
    BY <1>2 DEF Unlink, env
  <2>3. CASE src[job[p]][n] = NoEntry
    <3>1. src' = src
      BY <2>2, <2>3 DEF TypeOK, Tree
    <3> QED
      BY <2>2, <3>1
  <2>4. CASE src[job[p]][n] = dst[Place(p)][n]
    <3>1. Abstract!Drop(job[p], to[p], n)
      BY <2>2, <2>4 DEF Abstract!Drop, Place
    <3> QED
      BY <3>1 DEF Abstract!Next
  <2> QED
    BY <2>1, <2>3, <2>4 DEF Held
<1> QED
  BY <1>1, <1>2
  DEF ArchiveStep, PlanArchive, StartPush, PushDone, StartTally, MeasureEntry, CountRemote,
      ReadBack, ListRemote, HashRemote, ListSource, HashSource, CompareContent, OpenManifest, WriteManifest,
      StartRemoval, RemoveDir, files, env

LEMMA RestoreRefines ==
  ASSUME Alone, Safe, NEW p \in Restorers, RestoreStep(p)
  PROVE  StepsOrStutters
<1> p \in Procs /\ TypeOK /\ job[p] \in Sources /\ to[p] \in Destinations /\ Place(p) \in Places
  BY DEF Procs, Safe, Quiet, TypeOK, Place, Places
<1> USE DEF StepsOrStutters
<1>1. ASSUME NEW n \in Names, PullEntry(p, n) PROVE StepsOrStutters
  <2>1. Held(p, n) /\ HeldAt(to[p], job[p])
    BY <1>1 DEF PullEntry, Safe, Quiet, Calm, Filling, Led
  <2>2. /\ dst' = dst /\ want' = want
        /\ src' = [src EXCEPT ![job[p]][n] = dst[Place(p)][n]] \/ src' = src
    BY <1>1 DEF PullEntry, env
  <2>3. CASE src[job[p]][n] = NoEntry /\ src' = [src EXCEPT ![job[p]][n] = dst[Place(p)][n]]
    <3>1. want[job[p]][n] \in {NoEntry, dst[Place(p)][n]}
      BY <2>1, <2>3 DEF HeldAt, Stranded, Place
    <3>2. Abstract!Fetch(job[p], to[p], n)
      BY <2>2, <2>3, <3>1 DEF Abstract!Fetch, Place
    <3> QED
      BY <3>2 DEF Abstract!Next
  <2>4. CASE src[job[p]][n] = dst[Place(p)][n]
    <3>1. src' = src
      BY <2>2, <2>4 DEF TypeOK, Tree
    <3> QED
      BY <2>2, <3>1
  <2> QED
    BY <2>1, <2>2, <2>3, <2>4 DEF Held
<1>2. ASSUME NEW n \in Names, UnlinkRemote(p, n) PROVE StepsOrStutters
  <2>1. /\ src' = src /\ want' = want /\ pc[p] = "purge"
        /\ dst' = [dst EXCEPT ![Place(p)][n] = NoEntry]
    BY <1>2 DEF UnlinkRemote, env
  <2>2. CASE dst[Place(p)][n] = NoEntry
    <3>1. dst' = dst
      BY <2>1, <2>2 DEF TypeOK, Tree
    <3> QED
      BY <2>1, <3>1
  <2>3. CASE dst[Place(p)][n] # NoEntry
    <3>1. src[job[p]][n] = dst[Place(p)][n]
      BY <2>1, <2>3 DEF Safe, Quiet, Calm, Filled
    <3>2. Abstract!Discard(job[p], to[p], n)
      BY <2>1, <3>1 DEF Abstract!Discard, Place
    <3> QED
      BY <3>2 DEF Abstract!Next
  <2> QED
    BY <2>2, <2>3
<1> QED
  BY <1>1, <1>2 DEF RestoreStep, StartRestore, PullDone, RemoveRemoteDir, files, env

LEMMA NextRefines ==
  ASSUME Alone, Safe, [Next]_vars
  PROVE  StepsOrStutters
<1> TypeOK
  BY DEF Safe, Quiet
<1>1. CASE \E p \in Archivers : ArchiveStep(p)
  BY <1>1, ArchiveRefines
<1>2. CASE \E p \in Restorers : RestoreStep(p)
  BY <1>2, RestoreRefines
<1>3. CASE \E p \in Procs : Stop(p)
  BY <1>3 DEF Stop, files, env, StepsOrStutters
<1>4. CASE Environment
  <2> PICK s \in Sources, n \in Names, c \in Contents \cup {NoEntry} : Edit(s, n, c)
    BY <1>4 DEF Environment, Rot, Alone, TypeOK
  <2>1. Abstract!Store(s, n)
    BY DEF Edit, Abstract!Store
  <2> QED
    BY <2>1 DEF StepsOrStutters, Abstract!Next
<1>5. CASE UNCHANGED vars
  BY <1>5 DEF vars, files, env, StepsOrStutters
<1> QED
  BY <1>1, <1>2, <1>3, <1>4, <1>5 DEF Next

(* One command at a time on a directory at rest: archive and restore do what *)
(* Mover says, and nothing else.  Only the owner changes what is wanted, an  *)
(* entry is dropped only where a destination holds it, never fetched in an   *)
(* older version, and discarded only where it is held locally.               *)
THEOREM ArchiveImplementsMover ==
  ASSUME Alone
  PROVE  Spec => MovesSafely
<1>1. Init => Abstract!Init
  BY DEF Init, Abstract!Init, Tree, Abstract!Tree, Empty, Places
<1>2. Safe /\ [Next]_vars => [Abstract!Next]_<<src, dst, want>>
  BY NextRefines DEF StepsOrStutters
<1> QED
  BY <1>1, <1>2, SafeAtFirst, SafeKept, PTL DEF Spec, MovesSafely, Abstract!Spec, Abstract!mover

(***************************************************************************)
(* The read-back                                                           *)
(***************************************************************************)

(* Before the read-back, and in a restore, nothing is verified.  What the    *)
(* tallies list are names.                                                   *)
Judging == {"digest", "hash", "compare", "record", "recording", "remove", "unlink"}
Unjudged == \A p \in Procs : pc[p] \notin Judging => verdict[p] = COULD_NOT_LOOK

JudgeIInv == TypeOK /\ Unjudged

LEMMA UnjudgedStays ==
  ASSUME JudgeIInv, NEW p \in Procs,
         \A q \in Procs \ {p} : pc'[q] = pc[q] /\ verdict'[q] = verdict[q],
         verdict'[p] = COULD_NOT_LOOK \/ pc'[p] \in Judging
  PROVE  Unjudged'
BY DEF JudgeIInv, Unjudged

LEMMA JudgeKept == JudgeIInv /\ [Next]_vars => JudgeIInv'
<1> SUFFICES ASSUME JudgeIInv, [Next]_vars PROVE Unjudged'
  BY NextTyped DEF JudgeIInv
<1> USE DEF JudgeIInv, TypeOK, Goto
<1>1. ASSUME NEW p \in Archivers, ArchiveStep(p) PROVE Unjudged'
  <2>0. p \in Procs
    BY DEF Procs
  <2>1. \A q \in Procs \ {p} : pc'[q] = pc[q] /\ verdict'[q] = verdict[q]
    BY <1>1 DEF ArchiveStep, PlanArchive, StartPush, PushEntry, PushDone, StartTally, MeasureEntry, CountRemote,
         ReadBack, ListRemote, HashRemote, ListSource, HashSource, CompareContent, OpenManifest, WriteManifest,
         StartRemoval, Unlink, RemoveDir, Leave, memory
  <2>2. verdict'[p] = COULD_NOT_LOOK \/ pc'[p] \in Judging
    BY <1>1, <2>0 DEF ArchiveStep, PlanArchive, StartPush, PushEntry, PushDone, StartTally, MeasureEntry, CountRemote,
         ReadBack, ListRemote, HashRemote, ListSource, HashSource, CompareContent, OpenManifest, WriteManifest,
         StartRemoval, Unlink, RemoveDir, Leave, memory, Unjudged, Judging
  <2> QED
    BY <2>0, <2>1, <2>2, UnjudgedStays
<1>2. ASSUME NEW p \in Restorers, RestoreStep(p) PROVE Unjudged'
  <2>0. p \in Procs
    BY DEF Procs
  <2>1. \A q \in Procs \ {p} : pc'[q] = pc[q] /\ verdict'[q] = verdict[q]
    BY <1>2 DEF RestoreStep, StartRestore, PullEntry, PullDone, UnlinkRemote, RemoveRemoteDir, Leave
  <2>2. verdict'[p] = COULD_NOT_LOOK
    BY <1>2, <2>0 DEF RestoreStep, StartRestore, PullEntry, PullDone, UnlinkRemote, RemoveRemoteDir, Leave,
         Unjudged, Judging
  <2> QED
    BY <2>0, <2>1, <2>2, UnjudgedStays
<1>3. ASSUME NEW p \in Procs, Stop(p) PROVE Unjudged'
  BY <1>3, UnjudgedStays DEF Stop, Leave
<1>4. CASE Environment
  <2>1. UNCHANGED <<pc, verdict>>
    BY <1>4 DEF Environment, Edit, Rot, local, memory
  <2> QED
    BY <2>1 DEF Unjudged
<1>5. CASE UNCHANGED vars
  BY <1>5 DEF vars, local, memory, Unjudged
<1> QED
  BY <1>1, <1>2, <1>3, <1>4, <1>5 DEF Next

(* What a verified tally says of what was counted and weighed. *)
LEMMA TallySays ==
  ASSUME NEW listed \in SUBSET Names, NEW found \in SUBSET Names, NEW size \in Nat,
         NEW held \in Tree, NEW answered \in BOOLEAN,
         VerifyTransfer(LocalTally(listed, size), 0, IF answered THEN ReadTally(found, held) ELSE NoTally) = VERIFIED
  PROVE  Cardinality(found) = Cardinality(listed) /\ Bytes(held) + DirBytes >= size
<1>1. /\ Cardinality(found) \in Nat /\ Bytes(held) \in Nat
      /\ Cardinality(listed) \in Nat
  BY BytesAreCounted, NamesAssumption, FS_Subset, FS_CardinalityType
<1>2. COULD_NOT_LOOK # VERIFIED /\ MISMATCH # VERIFIED
  BY DEF COULD_NOT_LOOK, MISMATCH, VERIFIED
<1>3. answered
  BY <1>2 DEF VerifyTransfer, NoTally, RemoteTally
<1>4. /\ LocalTally(listed, size).count = Cardinality(listed) /\ LocalTally(listed, size).size = size
      /\ ReadTally(found, held).count = Cardinality(found)
      /\ ReadTally(found, held).size = Bytes(held) + DirBytes
  BY DEF LocalTally, ReadTally, RemoteTally
<1>5. /\ ReadTally(found, held).count = LocalTally(listed, size).count - 0
      /\ ~(ReadTally(found, held).size < LocalTally(listed, size).size)
  BY <1>2, <1>3 DEF VerifyTransfer
<1> QED
  BY <1>1, <1>4, <1>5, DirBytesAssumption

LEMMA ReadBackSees ==
  ASSUME JudgeIInv, [Next]_vars, NEW p \in Procs, pc[p] = "weigh", verdict'[p] = VERIFIED,
         tally[p].found \subseteq tally[p].listed
  PROVE  /\ tally[p].found = tally[p].listed
         /\ Bytes(dst[Place(p)]) + DirBytes >= tally[p].bytes
<1>1. COULD_NOT_LOOK # VERIFIED /\ verdict[p] = COULD_NOT_LOOK
  BY DEF COULD_NOT_LOOK, VERIFIED, JudgeIInv, Unjudged, Judging
<1>2. PICK answered \in BOOLEAN : ReadBack(p, answered)
  <2> USE DEF JudgeIInv, TypeOK, Goto
  <2>0. verdict'[p] # verdict[p]
    BY <1>1
  <2>1. ASSUME NEW q \in Archivers, ArchiveStep(q) PROVE \E answered \in BOOLEAN : ReadBack(p, answered)
    <3>1. q \in Procs
      BY DEF Procs
    <3>2. q = p
      BY <1>1, <2>0, <2>1, <3>1 DEF ArchiveStep, PlanArchive, StartPush, PushEntry, PushDone, StartTally,
         MeasureEntry, CountRemote, ReadBack, ListRemote, HashRemote, ListSource, HashSource, CompareContent,
         OpenManifest, WriteManifest, StartRemoval, Unlink, RemoveDir, Leave, memory
    <3> QED
      BY <1>1, <2>0, <2>1, <3>2 DEF ArchiveStep, PlanArchive, StartPush, PushEntry, PushDone, StartTally,
         MeasureEntry, CountRemote, ListRemote, HashRemote, ListSource, HashSource, CompareContent,
         OpenManifest, WriteManifest, StartRemoval, Unlink, RemoveDir, memory
  <2>2. ASSUME NEW q \in Restorers, RestoreStep(q) PROVE FALSE
    <3>1. q \in Procs
      BY DEF Procs
    <3> QED
      BY <1>1, <2>0, <2>2, <3>1 DEF RestoreStep, StartRestore, PullEntry, PullDone, UnlinkRemote, RemoveRemoteDir, Leave
  <2>3. ASSUME NEW q \in Procs, Stop(q) PROVE FALSE
    BY <1>1, <2>0, <2>3 DEF Stop, Leave
  <2>4. ~Environment /\ ~UNCHANGED vars
    BY <2>0 DEF Environment, Edit, Rot, local, memory, vars
  <2> QED
    BY <2>1, <2>2, <2>3, <2>4 DEF Next
<1> DEFINE looked == IF answered /\ Place(p) \in dstDirs THEN TRUE ELSE FALSE
           listed == tally[p].listed
           found  == tally[p].found
           size   == tally[p].bytes
           held   == dst[Place(p)]
<1>3. listed \in SUBSET Names /\ found \in SUBSET Names /\ size \in Nat /\ held \in Tree
  BY TreesTyped DEF JudgeIInv, TypeOK, Tally
<1>4. VerifyTransfer(LocalTally(listed, size), 0, IF looked THEN ReadTally(found, held) ELSE NoTally) = VERIFIED
  BY <1>2 DEF ReadBack, TallyVerdict, JudgeIInv, TypeOK
<1>5. looked \in BOOLEAN
  OBVIOUS
<1> HIDE DEF looked, listed, found, size, held
<1>6. Cardinality(found) = Cardinality(listed) /\ Bytes(held) + DirBytes >= size
  BY <1>3, <1>4, <1>5, TallySays
<1>7. found \subseteq listed => found = listed
  BY <1>3, <1>6, NamesAssumption, FS_Subset
<1> QED
  BY <1>6, <1>7 DEF listed, found, size, held

LEMMA JudgedAtFirst == Init => JudgeIInv
BY InitTyped DEF Init, JudgeIInv, Unjudged

(* The read-back is not fooled by a destination that lost entries, whatever  *)
(* commands, edits and alterations go on around it.                          *)
THEOREM LostEntriesAreAlwaysSeen == Spec => ReadBackSeesLostEntries
<1>1. JudgeIInv /\ [Next]_vars =>
        [\A p \in Procs :
           /\ pc[p] = "weigh" /\ verdict'[p] = VERIFIED
           /\ tally[p].found \subseteq tally[p].listed
           => /\ tally[p].found = tally[p].listed
              /\ Bytes(dst[Place(p)]) + DirBytes >= tally[p].bytes]_vars
  BY ReadBackSees
<1> QED
  BY <1>1, JudgedAtFirst, JudgeKept, PTL DEF Spec, ReadBackSeesLostEntries
=============================================================================
