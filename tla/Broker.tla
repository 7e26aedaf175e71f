------------------------------- MODULE Broker -------------------------------
(***************************************************************************)
(* The storage broker (_broker.py): what an unprivileged caller asks for   *)
(* is planned here, applied by a privileged executor elsewhere, and what   *)
(* the executor reads back is compared with a plan derived anew.  Answers  *)
(* are late or come twice, requests are sent again with other terms, and   *)
(* meanwhile the policy and the directories themselves are changed.        *)
(***************************************************************************)
EXTENDS Integers, FiniteSets

CONSTANTS
  Resources,    \* what may be provisioned: one directory each, beneath its root
  Terms,        \* [id, owner, mode, quota]: what a request may ask for
  Policies,     \* [owners, modes]: what a policy may allow
  MaxInode,     \* bound: directories ever made; their numbers are not used again
  MaxApplied,   \* bound: requests the executor applies
  MaxTampering  \* bound: changes that somebody else makes

ASSUME BrokerAssumption ==
  /\ \A t \in Terms : DOMAIN t = {"id", "owner", "mode", "quota"}
  /\ \A p \in Policies : DOMAIN p = {"owners", "modes"}
  /\ {MaxInode, MaxApplied, MaxTampering} \subseteq Nat

VARIABLES
  policy,      \* the configured policy
  target,      \* each resource's path: nothing, a directory or a symlink
  quotas,      \* the quota in force on each resource
  job,         \* what the executor is doing
  readbacks,   \* what it has answered, for any of it to arrive at any time
  checked,     \* the last comparison: [request, readback, ready] or nothing
  inodes, applied, tampering,
  made         \* history: [request, policy, inode] that the executor carried out

brokerVars == <<policy, target, quotas, job, readbacks, checked, inodes, applied, tampering, made>>

Nothing == [is |-> "nothing", inode |-> 0, owner |-> "none", mode |-> "none"]
Resting1 == [at |-> "idle"]
Asked1(r, t) == [resource |-> r, id |-> t.id, owner |-> t.owner, mode |-> t.mode, quota |-> t.quota]
Requests == {Asked1(r, t) : r \in Resources, t \in Terms}
Owners   == {t.owner : t \in Terms} \cup {"other"}
Modes    == {t.mode : t \in Terms}

(* plan_storage: the identity and the mode must be allowed, and the path *)
(* must not be a symlink.                                                *)
MayPlan(req, pol, now) ==
  req.owner \in pol.owners /\ req.mode \in pol.modes /\ now.is # "symlink"

(* _plan_digest: the idempotency key binds the whole plan. *)
PlanDigest(req, pol) == [request |-> req, policy |-> pol]

BrokerTypes ==
  /\ policy \in Policies
  /\ target \in [Resources ->
       [is : {"nothing", "directory", "symlink"}, inode : 0..MaxInode,
        owner : Owners \cup {"none"}, mode : Modes \cup {"none"}]]
  /\ quotas \in [Resources -> {t.quota : t \in Terms} \cup {"none"}]
  /\ job.at \in {"idle", "chown", "quota", "readback"} /\ (job.at # "idle" => job.request \in Requests)
  /\ inodes \in 0..MaxInode /\ applied \in 0..MaxApplied /\ tampering \in 0..MaxTampering
  /\ \A b \in readbacks : b.inode \in 1..inodes /\ b.request \in Requests
  /\ \A m \in made : m.request \in Requests /\ m.policy \in Policies /\ m.inode \in 1..inodes
  /\ checked = {} \/ \E req \in Requests, b \in readbacks, ready \in BOOLEAN : checked = {<<req, b, ready>>}

BrokerInit ==
  /\ policy \in Policies
  /\ target = [r \in Resources |-> Nothing] /\ quotas = [r \in Resources |-> "none"]
  /\ job = Resting1 /\ readbacks = {} /\ checked = {} /\ made = {}
  /\ inodes = 0 /\ applied = 0 /\ tampering = 0

-----------------------------------------------------------------------------
(* The executor, which accepts requests and derives their plan itself: it   *)
(* makes the directory or adopts the one that is there, then gives it its   *)
(* owner and mode, then its quota, and reads back what came of it.          *)
Provision(req) ==
  LET now == target[req.resource]
      key == PlanDigest(req, policy)
  IN
  /\ job.at = "idle" /\ applied < MaxApplied /\ MayPlan(req, policy, now)
  /\ applied' = applied + 1
  /\ job' = [at |-> "chown", request |-> req, key |-> key]
  /\ IF now.is = "directory" THEN UNCHANGED <<target, inodes>>
     ELSE /\ inodes < MaxInode /\ inodes' = inodes + 1
          /\ target' = [target EXCEPT ![req.resource] =
               [is |-> "directory", inode |-> inodes + 1, owner |-> "other", mode |-> req.mode]]
  /\ UNCHANGED <<policy, quotas, readbacks, checked, tampering, made>>

Chown ==
  LET r == job.request.resource
  IN
  /\ job.at = "chown" /\ target[r].is = "directory"
  /\ target' = [target EXCEPT ![r].owner = job.request.owner, ![r].mode = job.request.mode]
  /\ job' = [job EXCEPT !.at = "quota"]
  /\ UNCHANGED <<policy, quotas, readbacks, checked, inodes, applied, tampering, made>>

SetQuota ==
  /\ job.at = "quota"
  /\ quotas' = [quotas EXCEPT ![job.request.resource] = job.request.quota]
  /\ job' = [job EXCEPT !.at = "readback"]
  /\ UNCHANGED <<policy, target, readbacks, checked, inodes, applied, tampering, made>>

(* Not only what was done is read back, but what is there. *)
ReadBackTarget ==
  LET now == target[job.request.resource]
  IN
  /\ job.at = "readback" /\ now.is = "directory"
  /\ readbacks' = readbacks \cup {[request |-> job.request, key |-> job.key, inode |-> now.inode,
       owner |-> now.owner, mode |-> now.mode, quota |-> quotas[job.request.resource]]}
  /\ made' = IF /\ quotas[job.request.resource] = job.request.quota
                /\ now.owner = job.request.owner /\ now.mode = job.request.mode
             THEN made \cup {[request |-> job.request, policy |-> job.key.policy, inode |-> now.inode]}
             ELSE made
  /\ job' = Resting1
  /\ UNCHANGED <<policy, target, quotas, checked, inodes, applied, tampering>>

(* The executor fails at any step, and answers nothing. *)
GiveUpJob ==
  /\ job.at # "idle" /\ job' = Resting1
  /\ UNCHANGED <<policy, target, quotas, readbacks, checked, inodes, applied, tampering, made>>

(* An administrator changes the policy, or somebody the directory: another   *)
(* one in its place, a symlink, nothing, another owner or quota.             *)
Tampered == tampering < MaxTampering /\ tampering' = tampering + 1 /\ checked' = {}

Configure(pol) ==
  /\ pol # policy /\ policy' = pol /\ Tampered
  /\ UNCHANGED <<target, quotas, job, readbacks, inodes, applied, made>>

Replace(r) ==
  /\ Tampered
  /\ \/ target' = [target EXCEPT ![r] = Nothing] /\ UNCHANGED inodes
     \/ /\ inodes < MaxInode /\ inodes' = inodes + 1
        /\ \E is \in {"directory", "symlink"}, owner \in Owners, mode \in Modes :
             target' = [target EXCEPT ![r] = [is |-> is, inode |-> inodes + 1, owner |-> owner, mode |-> mode]]
  /\ UNCHANGED <<policy, quotas, job, readbacks, applied, made>>

Alter(r) ==
  /\ target[r].is = "directory" /\ Tampered
  /\ \/ \E owner \in Owners : target' = [target EXCEPT ![r].owner = owner] /\ UNCHANGED quotas
     \/ quotas' = [quotas EXCEPT ![r] = "none"] /\ UNCHANGED target
  /\ UNCHANGED <<policy, job, readbacks, inodes, applied, made>>

(* validate_readback: the plan is derived anew, then every field compared,   *)
(* and the path is looked at.                                                *)
Observed(req, b) ==
  LET now == target[req.resource]
  IN
  [resource  |-> b.request.resource = req.resource,
   owner     |-> b.owner = req.owner,
   mode      |-> b.mode = req.mode,
   quota     |-> b.quota = req.quota,
   audit     |-> b.request.id = req.id,
   key       |-> b.key = PlanDigest(req, policy),
   identity  |-> now.is # "nothing" /\ now.inode = b.inode,
   metadata  |-> now.is = "directory" /\ now.owner = req.owner /\ now.mode = req.mode]

Blockers(req, b) ==
  IF ~MayPlan(req, policy, target[req.resource]) THEN {"plan"}
  ELSE {check \in DOMAIN Observed(req, b) : ~Observed(req, b)[check]}

(* Fault: a directory at the path with the right owner and mode will do. *)
ValidateByName(req, b) ==
  /\ checked' = {<<req, b, Blockers(req, b) \ {"identity"} = {}>>}
  /\ UNCHANGED <<policy, target, quotas, job, readbacks, inodes, applied, tampering, made>>

Validate(req, b) ==
  /\ checked' = {<<req, b, Blockers(req, b) = {}>>}
  /\ UNCHANGED <<policy, target, quotas, job, readbacks, inodes, applied, tampering, made>>

BrokerNext ==
  \/ \E req \in Requests : Provision(req) \/ \E b \in readbacks : Validate(req, b)
  \/ Chown \/ SetQuota \/ ReadBackTarget \/ GiveUpJob
  \/ \E pol \in Policies : Configure(pol)
  \/ \E r \in Resources : Replace(r) \/ Alter(r)

BrokerSpec == BrokerInit /\ [][BrokerNext]_brokerVars

-----------------------------------------------------------------------------
(* Ready is said of a request only if the executor carried out that very     *)
(* request, term by term, under the policy that is in force, and on the      *)
(* directory that is at its path now: an answer to an earlier request, from  *)
(* before the policy changed, or about a directory that has since been       *)
(* replaced, is never taken for it.  (A quota lifted since is not seen.)     *)
ReadyIsApplied ==
  \A c \in checked : c[3] =>
    \E m \in made : /\ m.request = c[1] /\ m.policy = policy
                    /\ m.inode = target[c[1].resource].inode /\ target[c[1].resource].is = "directory"
=============================================================================
