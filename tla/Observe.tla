------------------------------- MODULE Observe ------------------------------
(***************************************************************************)
(* fleet-status --gather (_observe/): every machine of the registry is     *)
(* asked for its space and then for its inodes, over ssh, and the snapshot *)
(* is published as three pages that the GUI serves.  Filesystems fill and  *)
(* mounts go stale while it is being gathered; any call may fail.          *)
(***************************************************************************)
EXTENDS Integers, FiniteSets, FiniteSetsExt

CONSTANTS
  Machines,    \* the hosts of the registry, numbered in its order
  KindOf,      \* each host: "gnu", "mac" (nine columns of inodes) or "hpc" (projects)
  Disks,       \* filesystems, the projects of a host numbered in the order of its groups
  HostOf,      \* the host of each filesystem
  Structural,  \* the filesystems that are full by design: images, pseudo-filesystems
  MaxGathers,  \* bound: gathers
  MaxChanges   \* bound: changes of the filesystems

ASSUME MachinesAssumption ==
  /\ Machines # {} /\ Machines \subseteq Nat \ {0}
  /\ KindOf \in [Machines -> {"gnu", "mac", "hpc"}]
ASSUME DisksAssumption ==
  /\ Disks \subseteq Nat \ {0} /\ HostOf \in [Disks -> Machines] /\ Structural \subseteq Disks
  /\ \A f \in Structural : KindOf[HostOf[f]] # "hpc"
ASSUME ObserveBounds == MaxGathers \in Nat /\ MaxChanges \in Nat

VARIABLES
  disk,     \* each filesystem's space and inodes: "free", or "full" when what is used
            \* of the total, whatever is kept back for root, is at FLAG_PERCENT
  stale,    \* filesystems that no df can read
  gather,   \* the gather under way
  published,    \* the gather each page is from
  gathers, changes,
  steady,   \* history: [fs, of] that were full and readable since the gather began
  unshown,  \* history: readable filesystems that a df -P which answered left out
  torn      \* history: whether a gather was killed with only some pages published

fleetVars == <<disk, stale, gather, published, gathers, changes, steady, unshown, torn>>

MEASURED       == "measured"
NOT_APPLICABLE  == "not-applicable"
COULD_NOT_LOOK   == "could-not-look"
Levels         == {"free", "full", "unknown"}

Row(h, f, verdict, space, inodes) ==
  [host |-> h, fs |-> f, verdict |-> verdict, space |-> space, inodes |-> inodes]
Unseen(h, f) == Row(h, f, COULD_NOT_LOOK, "unknown", "unknown")   \* f = 0: the host as a whole
Flagged(row) == row.space = "full" \/ row.inodes = "full"

NoGather == [at |-> "idle", todo |-> {}, left |-> {}, space |-> <<>>, rows |-> {}]
Calls    == {"idle", "host", "inodes", "project", "projectInodes", "publish", "bubbles", "sunburst"}
PageNames == {"table", "bubbles", "sunburst"}

FleetTypes ==
  /\ disk \in [Disks -> [space : {"free", "full"}, inodes : {"free", "full"}]]
  /\ stale \subseteq Disks
  /\ DOMAIN gather = {"at", "todo", "left", "space", "rows"}
  /\ gather.at \in Calls /\ gather.todo \subseteq Machines /\ gather.left \subseteq Disks
  /\ DOMAIN gather.space \subseteq Disks
  /\ gather.at \in {"inodes", "projectInodes"} => \A f \in DOMAIN gather.space : gather.space[f] \in Levels \ {"unknown"}
  /\ \A row \in gather.rows :
       row \in [host : Machines \cup {0}, fs : Disks \cup {0}, space : Levels, inodes : Levels,
                verdict : {MEASURED, NOT_APPLICABLE, COULD_NOT_LOOK}]
  /\ published \in [PageNames -> 0..MaxGathers] /\ gathers \in 0..MaxGathers /\ changes \in 0..MaxChanges
  /\ steady \subseteq Disks \X {"space", "inodes"} /\ unshown \subseteq Disks /\ torn \in BOOLEAN

FullNow == {full \in (Disks \ stale) \X {"space", "inodes"} : disk[full[1]][full[2]] = "full"}

FleetInit ==
  /\ disk = [f \in Disks |-> [space |-> "free", inodes |-> "free"]]
  /\ stale = {} /\ gather = NoGather /\ published = [p \in PageNames |-> 0]
  /\ gathers = 0 /\ changes = 0 /\ steady = {} /\ unshown = {} /\ torn = FALSE

-----------------------------------------------------------------------------
Fill(f, of, level) ==
  /\ changes < MaxChanges /\ disk[f][of] # level
  /\ disk' = [disk EXCEPT ![f][of] = level]
  /\ changes' = changes + 1
  /\ steady' = IF level = "free" THEN steady \ {<<f, of>>} ELSE steady
  /\ UNCHANGED <<stale, gather, published, gathers, unshown, torn>>

(* A mount goes stale, or comes back. *)
Hang(f) ==
  /\ changes < MaxChanges
  /\ stale' = IF f \in stale THEN stale \ {f} ELSE stale \cup {f}
  /\ changes' = changes + 1
  /\ steady' = steady \ ({f} \X {"space", "inodes"})
  /\ UNCHANGED <<disk, gather, published, gathers, unshown, torn>>

FilesystemsChange ==
  \E f \in Disks : Hang(f) \/ \E of \in {"space", "inodes"}, level \in {"free", "full"} : Fill(f, of, level)

-----------------------------------------------------------------------------
(* observe_fleet: the registry is listed; if it cannot be, the snapshot is   *)
(* one row that says so.                                                     *)
StartGather ==
  /\ gather.at = "idle" /\ gathers < MaxGathers
  /\ gathers' = gathers + 1
  /\ gather' \in {[NoGather EXCEPT !.at = "host", !.todo = Machines],
                  [NoGather EXCEPT !.at = "publish", !.rows = {Unseen(0, 0)}]}
  /\ steady' = FullNow /\ unshown' = {}
  /\ UNCHANGED <<disk, stale, published, changes, torn>>

Host == Min(gather.todo)
On(h) == {f \in Disks : HostOf[f] = h}

Asks == UNCHANGED <<disk, stale, published, gathers, changes, steady, unshown, torn>>

(* The gather goes on with rows added and, once a host has given them all,   *)
(* with the next host, or publishes.                                         *)
Adds(rows, left) ==
  LET todo == IF left = {} THEN gather.todo \ {Host} ELSE gather.todo IN
  gather' = [at    |-> IF left # {} THEN "project" ELSE IF todo # {} THEN "host" ELSE "publish",
             todo  |-> todo, left |-> left, space |-> <<>>, rows |-> gather.rows \cup rows]

(* ssh, df -P or groups fails, times out or prints nothing to be parsed, or  *)
(* no group is a project: the host has one row.                              *)
HostFails ==
  /\ gather.at = "host"
  /\ Adds({Unseen(Host, 0)}, {})
  /\ Asks

(* df -P: what it printed counts, also when it fails for a stale mount, and  *)
(* of that the lines that parse, if there is one.                            *)
ReadSpace ==
  /\ gather.at = "host" /\ KindOf[Host] # "hpc"
  /\ \E shown \in SUBSET (On(Host) \ stale) :
       /\ shown # {}
       /\ gather' = [gather EXCEPT !.at = "inodes", !.space = [f \in shown |-> disk[f].space]]
       /\ unshown' = unshown \cup ((On(Host) \ stale) \ shown)
  /\ UNCHANGED <<disk, stale, published, gathers, changes, steady, torn>>

(* parse_df_posix takes the first three numbers of a line for total, used    *)
(* and available: among the nine columns of macOS those are the blocks.      *)
InodeColumns(f) == IF KindOf[HostOf[f]] = "mac" THEN disk[f].space ELSE disk[f].inodes

(* Fault: inodes that were not read are taken for free. *)
RowsAsFree(read) ==
  {IF f \in Structural THEN Row(Host, f, NOT_APPLICABLE, "unknown", "unknown")
   ELSE Row(Host, f, MEASURED, gather.space[f], IF f \in read THEN InodeColumns(f) ELSE "free")
     : f \in DOMAIN gather.space}

(* observe_host: a row for every filesystem that df -P showed. *)
RowsWith(read) ==
  {IF f \in Structural THEN Row(Host, f, NOT_APPLICABLE, "unknown", "unknown")
   ELSE IF f \in read THEN Row(Host, f, MEASURED, gather.space[f], InodeColumns(f))
   ELSE Row(Host, f, COULD_NOT_LOOK, gather.space[f], "unknown") : f \in DOMAIN gather.space}

(* df -Pi, which may fail, or print some of the readable ones only. *)
ReadInodes ==
  /\ gather.at = "inodes"
  /\ \E read \in SUBSET (On(Host) \ stale) : Adds(RowsWith(read), {})
  /\ Asks

(* observe_hpc_projects: groups, then df -P and df -Pi on each project. *)
ReadGroups ==
  /\ gather.at = "host" /\ KindOf[Host] = "hpc" /\ On(Host) # {}
  /\ gather' = [gather EXCEPT !.at = "project", !.left = On(Host)]
  /\ Asks

Project == Min(gather.left)

ReadProjectSpace ==
  /\ gather.at = "project"
  /\ \E shown \in SUBSET ({Project} \ stale) :
       gather' = [gather EXCEPT !.at = "projectInodes", !.space = [f \in shown |-> disk[f].space]]
  /\ Asks

ReadProjectInodes ==
  /\ gather.at = "projectInodes"
  /\ \E read \in SUBSET ({Project} \ stale) :
       Adds(IF gather.space = <<>> THEN {Unseen(Host, Project)} ELSE RowsWith(read),
            gather.left \ {Project})
  /\ Asks

-----------------------------------------------------------------------------
(* What the pages show is settled: what led to it matters no more. *)
Forget == unshown' = {} /\ steady' = {}

(* Fault: the pages that follow the table are left for later. *)
PublishTableOnly ==
  /\ gather.at = "publish"
  /\ published' = [published EXCEPT !["table"] = gathers]
  /\ torn' = FALSE
  /\ gather' = NoGather /\ Forget
  /\ UNCHANGED <<disk, stale, gathers, changes>>

(* write_fleet_snapshot: three renames. *)
PublishTable ==
  /\ gather.at = "publish"
  /\ published' = [published EXCEPT !["table"] = gathers]
  /\ gather' = [NoGather EXCEPT !.at = "bubbles"] /\ Forget
  /\ UNCHANGED <<disk, stale, gathers, changes, torn>>

PublishBubbles ==
  /\ gather.at = "bubbles"
  /\ published' = [published EXCEPT !["bubbles"] = gathers]
  /\ gather' = [gather EXCEPT !.at = "sunburst"]
  /\ UNCHANGED <<disk, stale, gathers, changes, steady, unshown, torn>>

PublishSunburst ==
  /\ gather.at = "sunburst"
  /\ published' = [published EXCEPT !["sunburst"] = gathers]
  /\ torn' = FALSE
  /\ gather' = NoGather /\ Forget
  /\ UNCHANGED <<disk, stale, gathers, changes>>

(* The gather is killed, or a page cannot be written. *)
EndGather ==
  /\ gather.at # "idle"
  /\ torn' = (torn \/ gather.at \in {"bubbles", "sunburst"})
  /\ gather' = NoGather /\ Forget
  /\ UNCHANGED <<disk, stale, published, gathers, changes>>

GatherStep ==
  \/ StartGather \/ HostFails \/ ReadSpace \/ ReadInodes
  \/ ReadGroups \/ ReadProjectSpace \/ ReadProjectInodes
  \/ PublishTable \/ PublishBubbles \/ PublishSunburst \/ EndGather

FleetNext == GatherStep \/ FilesystemsChange

FleetSpec == FleetInit /\ [][FleetNext]_fleetVars

-----------------------------------------------------------------------------
ShownFor(f) == {row \in gather.rows : row.fs = f \/ (row.fs = 0 /\ row.host \in {0, HostOf[f]})}

Tells(row) == Flagged(row) \/ row.verdict = COULD_NOT_LOOK

(* A filesystem that was full, in space or in inodes, and readable for the   *)
(* whole of a gather has no green row in its snapshot, whichever calls       *)
(* failed, and whatever part of it they printed: its row is flagged or says  *)
(* that its inodes could not be looked at.  And it has one, or its host or   *)
(* the registry has one that says so, except where df -P answered without    *)
(* it: nothing tells of a filesystem that is missing from an answer.  The    *)
(* inodes of macOS hosts are left out: InodeColumns.                         *)
FullIsNeverGreen ==
  gather.at = "publish" =>
    \A full \in steady :
      LET f == full[1] IN
      \/ f \in Structural \/ (full[2] = "inodes" /\ KindOf[HostOf[f]] = "mac")
      \/ /\ \A row \in gather.rows : row.fs = f => Tells(row)
         /\ f \in unshown \/ \E row \in ShownFor(f) : Tells(row)

(* The pages are of one gather, so that they never disagree                  *)
(* (_observe/__init__.py:269-270), but while one is being published, or      *)
(* after one was killed between two of them.                                 *)
PagesAgree ==
  \/ \A p, q \in PageNames : published[p] = published[q]
  \/ torn \/ gather.at \in {"bubbles", "sunburst"}
=============================================================================
