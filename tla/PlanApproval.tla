---------------------------- MODULE PlanApproval ----------------------------
(***************************************************************************)
(* An apply runs only the plan that an admin approved, once, against the   *)
(* host that plan was made for.  This module models the plan store         *)
(* (pkg/server/plans.go), the handlers that plan, approve and revoke       *)
(* (plan.go, approvals.go), the checks of an apply (apply.go), a deploy's  *)
(* use of its plan (deploy.go), when a plan is stale (lastHostChange), and *)
(* a daemon that dies.                                                     *)
(*                                                                         *)
(* The host itself is the lock HostQueue implements (HostLock): a job that *)
(* changes it has it from its ticket to its release.                       *)
(***************************************************************************)
EXTENDS Naturals, FiniteSets

CONSTANTS
  Trees,        \* configuration trees
  Hosts,        \* what a host can be; a host that is tree t has nothing to change for t
  Blocked,      \* a tree and a host where its apply would fail
  Applies,      \* requests to apply
  Deploys,      \* deploys of a tag
  Others,       \* other jobs that change the host: instance changes, builds, restores
  Planners,     \* planSlots: requests that only plan
  MaxApprovals, \* bound: how many approvals admins give
  MaxCrashes,   \* bound: how often the daemon dies
  DiskFaults,   \* whether writing a plan's record may fail
  Prunes        \* whether there are keepPlans newer records, so that one may be pruned

ASSUME ApprovalAssumption ==
  /\ Trees \subseteq Hosts
  /\ Blocked \subseteq Trees \X Hosts
  /\ Applies \cap (Deploys \cup Others) = {} /\ Deploys \cap Others = {}
  /\ MaxApprovals \in Nat
  /\ MaxCrashes \in Nat
  /\ DiskFaults \in BOOLEAN
  /\ Prunes \in BOOLEAN

Jobs == Applies \cup Deploys \cup Others

(* A plan's hash stands for the tree and for the host it was made against. *)
Hashes == Trees \X Hosts
NoPlan == <<>>

(* ExitStatus: 1 blocked, 0 nothing to change, 2 changes pending.          *)
Exit(h) == IF h \in Blocked THEN 1 ELSE IF h[1] = h[2] THEN 0 ELSE 2

(* An approval is a number; none is 0, and the one a deploy's tag gives    *)
(* (it expires at once) is Tag.                                            *)
Ids == 1 .. MaxApprovals
Tag == MaxApprovals + 1

(* PlanRecord.  fresh says whether LastSeen is after lastHostChange.       *)
Records == [known : BOOLEAN, approval : 0 .. Tag, used : BOOLEAN, fresh : BOOLEAN]
NoRecord == [known |-> FALSE, approval |-> 0, used |-> FALSE, fresh |-> FALSE]

VARIABLES
  host,     \* what the host is
  holder,   \* the job that has the host, if any
  pc,       \* where each job is
  plan,     \* the plan each job made
  expect,   \* the plan each apply was asked to run
  mem,      \* Plans.byID
  disk,     \* the plans' JSON files
  reading,  \* the plan each planner made and has not recorded yet
  looked,   \* the plan an admin's request found not to be stale, not yet approved
  expired,  \* the approvals whose time is over
  given,    \* how many approvals were given
  standing, \* history: approvals whose admin was told they are given, not withdrawn since
  spent,    \* history: the jobs that an approval let work
  crashes

vars == <<host, holder, pc, plan, expect, mem, disk, reading, looked,
          expired, given, standing, spent, crashes>>
jobVars   == <<host, holder, pc, plan, expect, spent>>
storeVars == <<mem, disk>>
adminVars == <<looked, given, standing>>

JobSteps == {"new", "planning", "planned", "recorded", "prepare", "work",
             "finish", "release", "done", "lost"}

TypeOK ==
  /\ host \in Hosts
  /\ holder \in SUBSET Jobs
  /\ pc \in [Jobs -> JobSteps]
  /\ plan \in [Jobs -> Hashes \cup {NoPlan}]
  /\ expect \in [Jobs -> Hashes \cup {NoPlan}]
  /\ mem \in [Hashes -> Records]
  /\ disk \in [Hashes -> Records]
  /\ reading \in [Planners -> Hashes \cup {NoPlan}]
  /\ looked \in Hashes \cup {NoPlan}
  /\ expired \in SUBSET Ids
  /\ given \in 0 .. MaxApprovals
  /\ standing \in SUBSET Ids
  /\ spent \in [Ids -> SUBSET Jobs]
  /\ crashes \in 0 .. MaxCrashes

Init ==
  /\ host \in Hosts
  /\ holder = {}
  /\ pc = [j \in Jobs |-> "new"]
  /\ plan = [j \in Jobs |-> NoPlan]
  /\ expect = [j \in Jobs |-> NoPlan]
  /\ mem = [h \in Hashes |-> NoRecord]
  /\ disk = [h \in Hashes |-> NoRecord]
  /\ reading = [p \in Planners |-> NoPlan]
  /\ looked = NoPlan
  /\ expired = {}
  /\ given = 0
  /\ standing = {}
  /\ spent = [i \in Ids |-> {}]
  /\ crashes = 0

----------------------------------------------------------------------------
(* The store.                                                              *)

(* persist writes a temporary file and renames it: all or nothing.         *)
Saved(h, rec)   == mem' = [mem EXCEPT ![h] = rec] /\ disk' = [disk EXCEPT ![h] = rec]
Unsaved(h, rec) == DiskFaults /\ mem' = [mem EXCEPT ![h] = rec] /\ disk' = disk

Usable(rec) == rec.known /\ rec.approval # 0 /\ ~rec.used /\ rec.approval \notin expired \cup {Tag}

(* State is PlanApproved for these: prune never drops one.                 *)
Kept(h) == Exit(h) = 2 /\ Usable(mem[h])

(* A slip: the use is forgotten, and the approval is kept.                 *)
SeenAgainKept(rec) == [known |-> TRUE, approval |-> rec.approval, used |-> FALSE, fresh |-> TRUE]

(* The same plan made again keeps its approval, unless it was used.        *)
SeenAgain(rec) ==
  [known |-> TRUE, approval |-> IF rec.used THEN 0 ELSE rec.approval,
   used |-> FALSE, fresh |-> TRUE]

(* Record notes a plan and prunes: an old record may have to go.           *)
Record(h) ==
  \E gone \in SUBSET {g \in Hashes \ {h} : Prunes /\ mem[g].known /\ ~Kept(g)}, saved \in BOOLEAN :
    /\ Cardinality(gone) <= 1
    /\ saved \/ DiskFaults
    /\ mem'  = [g \in Hashes |-> CASE g = h -> SeenAgain(mem[h])
                                   [] g \in gone -> NoRecord
                                   [] OTHER -> mem[g]]
    /\ disk' = [g \in Hashes |-> CASE g = h /\ saved -> SeenAgain(mem[h])
                                   [] g \in gone -> NoRecord
                                   [] OTHER -> disk[g]]

(* checkLocked.                                                            *)
Checks(h) == Usable(mem[h])

(* A slip: plans that nobody knows lose their place.                       *)
OutdatedKnown(store) == [h \in {g \in Hashes : store[g].known} |-> [store[h] EXCEPT !.fresh = FALSE]]

(* lastHostChange moves: every plan made before is stale.                  *)
Outdated(store) == [h \in Hashes |-> [store[h] EXCEPT !.fresh = FALSE]]

(* viewWith.                                                               *)
Stale(h) == Exit(h) = 2 /\ ~mem[h].used /\ ~mem[h].fresh

----------------------------------------------------------------------------
(* Requests that only plan: the host is read, and noted later.             *)

PlanRead(p) ==
  /\ reading[p] = NoPlan
  /\ \E t \in Trees : reading' = [reading EXCEPT ![p] = <<t, host>>]
  /\ UNCHANGED <<jobVars, storeVars, adminVars, expired, crashes>>

PlanRecorded(p) ==
  /\ reading[p] # NoPlan
  /\ Record(reading[p])
  /\ reading' = [reading EXCEPT ![p] = NoPlan]
  /\ UNCHANGED <<jobVars, adminVars, expired, crashes>>

----------------------------------------------------------------------------
(* Admins.                                                                 *)

(* handlePlanApprove first looks whether the plan is stale ...             *)
ApproveLook(h) ==
  /\ looked = NoPlan
  /\ mem[h].known /\ ~Stale(h)
  /\ looked' = h
  /\ UNCHANGED <<jobVars, storeVars, reading, given, standing, expired, crashes>>

(* ... and then approves it: Approve refuses a plan that is gone, has      *)
(* nothing to apply or was used.                                           *)
Approve ==
  /\ looked # NoPlan
  /\ looked' = NoPlan
  /\ LET h == looked
         old == mem[h].approval
         id == given + 1
         rec == [mem[h] EXCEPT !.approval = id]
     IN  \/ /\ ~mem[h].known \/ Exit(h) # 2 \/ mem[h].used
            /\ UNCHANGED <<storeVars, given, standing>>
         \/ /\ mem[h].known /\ Exit(h) = 2 /\ ~mem[h].used
            /\ id \in Ids
            /\ given' = id
            /\ \/ Saved(h, rec) /\ standing' = (standing \ {old}) \cup {id}
               \/ Unsaved(h, rec) /\ UNCHANGED standing
  /\ UNCHANGED <<jobVars, reading, expired, crashes>>

(* handlePlanRevoke: an approval that was used cannot be taken back.       *)
Revoke(h) ==
  /\ mem[h].known /\ ~mem[h].used
  /\ LET rec == [mem[h] EXCEPT !.approval = 0]
     IN  \/ Saved(h, rec) /\ standing' = standing \ {mem[h].approval}
         \/ Unsaved(h, rec) /\ UNCHANGED standing
  /\ UNCHANGED <<jobVars, reading, looked, given, expired, crashes>>

(* The approval's ttl is over.                                             *)
Expire(i) ==
  /\ i <= given /\ i \notin expired
  /\ expired' = expired \cup {i}
  /\ UNCHANGED <<jobVars, storeVars, adminVars, reading, crashes>>

----------------------------------------------------------------------------
(* Jobs.                                                                   *)

Goto(j, step) == pc' = [pc EXCEPT ![j] = step]

(* A slip: the host is taken from whoever has it.                          *)
TakeHostBusy(j) ==
  /\ pc[j] = "new"
  /\ holder' = {j}
  /\ Goto(j, IF j \in Others THEN "work" ELSE "planning")
  /\ UNCHANGED <<host, plan, expect, spent, storeVars, adminVars, reading, expired, crashes>>

(* An apply takes the host before it plans; a deploy plans in its job, and *)
(* any other job goes to work.                                             *)
TakeHost(j) ==
  /\ pc[j] = "new"
  /\ holder = {}
  /\ holder' = {j}
  /\ Goto(j, IF j \in Others THEN "work" ELSE "planning")
  /\ UNCHANGED <<host, plan, expect, spent, storeVars, adminVars, reading, expired, crashes>>

(* planUpload, or the deploy's own Plan.  expect is a hash the client got  *)
(* from /v1/plan.  A plan that cannot be made ends the request or the job. *)
PlanHost(j) ==
  /\ pc[j] = "planning"
  /\ \/ /\ \E t \in Trees : plan' = [plan EXCEPT ![j] = <<t, host>>]
        /\ \E h \in {g \in Hashes : mem[g].known} \cup {NoPlan} : expect' = [expect EXCEPT ![j] = h]
        /\ j \in Deploys => expect'[j] = NoPlan
        /\ Goto(j, "planned")
     \/ /\ Goto(j, IF j \in Applies THEN "release" ELSE "finish")
        /\ UNCHANGED <<plan, expect>>
  /\ UNCHANGED <<host, holder, spent, storeVars, adminVars, reading, expired, crashes>>

RecordPlan(j) ==
  /\ pc[j] = "planned"
  /\ Record(plan[j])
  /\ Goto(j, "recorded")
  /\ UNCHANGED <<host, holder, plan, expect, spent, adminVars, reading, expired, crashes>>

(* handleApply: the plan must be the expected one, have changes, not be    *)
(* blocked, and be approved; launch may fail to record the job.            *)
CheckApply(a) ==
  /\ a \in Applies
  /\ pc[a] = "recorded"
  /\ \/ /\ plan[a] = expect[a] /\ Exit(plan[a]) = 2 /\ Checks(plan[a])
        /\ Goto(a, "prepare") \/ (DiskFaults /\ Goto(a, "release"))
     \/ /\ plan[a] # expect[a] \/ Exit(plan[a]) # 2 \/ ~Checks(plan[a])
        /\ Goto(a, "release")
  /\ UNCHANGED <<host, holder, plan, expect, spent, storeVars, adminVars, reading, expired, crashes>>

(* A slip: what CheckApply saw is not looked at again.                     *)
ConsumeUnchecked(a) ==
  /\ pc[a] = "prepare"
  /\ LET h == plan[a]
         rec == [mem[h] EXCEPT !.used = TRUE]
     IN  \/ /\ Saved(h, rec)
            /\ spent' = [spent EXCEPT ![mem[h].approval] = @ \cup {a}]
            /\ Goto(a, "work")
         \/ Unsaved(h, rec) /\ Goto(a, "finish") /\ UNCHANGED spent
  /\ UNCHANGED <<host, holder, plan, expect, adminVars, reading, expired, crashes>>

(* Consume, in the job's prepare: checked again and used up, or the job    *)
(* ends here.                                                              *)
Consume(a) ==
  /\ pc[a] = "prepare"
  /\ LET h == plan[a]
         rec == [mem[h] EXCEPT !.used = TRUE]
     IN  \/ /\ Checks(h)
            /\ \/ /\ Saved(h, rec)
                  /\ spent' = [spent EXCEPT ![mem[h].approval] = @ \cup {a}]
                  /\ Goto(a, "work")
               \/ Unsaved(h, rec) /\ Goto(a, "finish") /\ UNCHANGED spent
         \/ /\ ~Checks(h)
            /\ Goto(a, "finish")
            /\ UNCHANGED <<storeVars, spent>>
  /\ UNCHANGED <<host, holder, plan, expect, adminVars, reading, expired, crashes>>

(* A deploy: a blocked plan fails it, no change ends it, and otherwise its *)
(* tag is the approval, given and used at once (UseForDeploy).             *)
UseForDeploy(d) ==
  /\ d \in Deploys
  /\ pc[d] = "recorded"
  /\ LET h == plan[d]
         rec == [mem[h] EXCEPT !.approval = Tag, !.used = TRUE]
     IN  \/ /\ Exit(h) = 2 /\ mem[h].known
            /\ \/ Saved(h, rec) /\ Goto(d, "work")
               \/ Unsaved(h, rec) /\ Goto(d, "finish")
            /\ standing' = standing \ {mem[h].approval}
         \/ /\ Exit(h) # 2 \/ ~mem[h].known
            /\ Goto(d, "finish")
            /\ UNCHANGED <<storeVars, standing>>
  /\ UNCHANGED <<host, holder, plan, expect, spent, looked, given, reading, expired, crashes>>

(* What the job does to the host: an apply or a deploy that succeeds makes *)
(* it the tree; one that fails, or another job, leaves it anyhow.          *)
Work(j) ==
  /\ pc[j] = "work"
  /\ host' \in Hosts
  /\ Goto(j, "finish")
  /\ UNCHANGED <<holder, plan, expect, spent, storeVars, adminVars, reading, expired, crashes>>

(* Jobs.Finish: lastHostChange is now.                                     *)
Finish(j) ==
  /\ pc[j] = "finish"
  /\ mem' = Outdated(mem) /\ disk' = Outdated(disk)
  /\ Goto(j, "release")
  /\ UNCHANGED <<host, holder, plan, expect, spent, adminVars, reading, expired, crashes>>

Release(j) ==
  /\ pc[j] = "release"
  /\ holder' = holder \ {j}
  /\ Goto(j, "done")
  /\ UNCHANGED <<host, plan, expect, spent, storeVars, adminVars, reading, expired, crashes>>

(* The daemon dies and starts again: memory is what was saved, a job that  *)
(* worked leaves the host anyhow, and a job that had started is recorded   *)
(* as interrupted now (OpenJobs), which makes every plan stale.            *)
Started == {j \in Jobs : \/ pc[j] \in {"prepare", "work", "finish"}
                         \/ j \in Deploys /\ pc[j] \in {"planning", "planned", "recorded"}}

Crash ==
  /\ crashes < MaxCrashes
  /\ crashes' = crashes + 1
  /\ \/ host' = host
     \/ (\E j \in Jobs : pc[j] = "work") /\ host' \in Hosts
  /\ LET kept == IF Started = {} THEN disk ELSE Outdated(disk)
     IN  mem' = kept /\ disk' = kept
  /\ holder' = {}
  /\ pc' = [j \in Jobs |-> IF pc[j] \in {"new", "done"} THEN pc[j] ELSE "lost"]
  /\ reading' = [p \in Planners |-> NoPlan]
  /\ looked' = NoPlan
  /\ UNCHANGED <<plan, expect, spent, given, standing, expired>>

----------------------------------------------------------------------------

Admin == (\E h \in Hashes : ApproveLook(h) \/ Revoke(h)) \/ Approve

Planning == \E p \in Planners : PlanRead(p) \/ PlanRecorded(p)

Job(j) ==
  \/ TakeHost(j) \/ PlanHost(j) \/ RecordPlan(j) \/ CheckApply(j) \/ Consume(j)
  \/ UseForDeploy(j) \/ Work(j) \/ Finish(j) \/ Release(j)

Next ==
  \/ \E j \in Jobs : Job(j)
  \/ Admin
  \/ Planning
  \/ \E i \in Ids : Expire(i)
  \/ Crash

Spec == Init /\ [][Next]_vars

----------------------------------------------------------------------------
(* Properties.                                                             *)

(* One approval lets one apply work, whatever is planned, approved, revoked*)
(* or pruned meanwhile, and whatever a dead daemon forgot to save.         *)
SingleUse == \A i \in Ids : \A a, b \in spent[i] : a = b

(* Why: a record whose approval is unused, in memory or saved, has one that*)
(* nobody spent, and no two plans share one.                               *)
UnusedUnspent(store) ==
  \A h \in Hashes :
    store[h].approval \in Ids =>
      /\ store[h].approval <= given
      /\ ~store[h].used => spent[store[h].approval] = {}

NotShared(one, other) ==
  \A h, g \in Hashes : one[h].approval \in Ids /\ one[h].approval = other[g].approval => h = g

ApprovalInv ==
  /\ UnusedUnspent(mem) /\ UnusedUnspent(disk)
  /\ NotShared(mem, mem) /\ NotShared(mem, disk) /\ NotShared(disk, disk)
  /\ \A i \in Ids : i > given => spent[i] = {}
  /\ SingleUse

(* An apply works only with an approval that an admin was told is given    *)
(* and that was neither withdrawn, renewed nor over.                       *)
WorkWasApproved ==
  [][\A i \in Ids : spent'[i] # spent[i] => i \in standing \ expired]_vars

(* What runs is what was reviewed, against the host it was reviewed for:   *)
(* from the plan to the work nothing else changed the host, and an apply   *)
(* runs the plan it was asked for.                                         *)
WorksOnPlannedHost ==
  \A j \in Applies \cup Deploys :
    pc[j] = "work" =>
      /\ plan[j][2] = host
      /\ Exit(plan[j]) = 2
      /\ j \in Applies => plan[j] = expect[j]

(* Why: a job that has been given the host is the only one, and nothing    *)
(* changes the host between its plan and its work.                         *)
HoldInv ==
  \A j \in Jobs :
    /\ pc[j] \notin {"new", "done", "lost"} => holder = {j}
    /\ j \in Applies \cup Deploys /\ pc[j] \in {"planned", "recorded", "prepare", "work"}
         => plan[j] \in Hashes /\ plan[j][2] = host
    /\ j \in Applies \cup Deploys /\ pc[j] \in {"prepare", "work"} => Exit(plan[j]) = 2
    /\ j \in Applies /\ pc[j] \in {"prepare", "work"} => plan[j] = expect[j]
    /\ pc[j] = "prepare" => j \in Applies
    /\ pc[j] \in {"planning", "planned", "recorded"} => j \in Applies \cup Deploys
=============================================================================
