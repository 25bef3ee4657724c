------------------------- MODULE PlanApprovalProofs -------------------------
(* One approval, one apply, that it stands for when it is used up, and     *)
(* only on the host its plan was made for: proved for any trees, hosts,    *)
(* jobs and any number of approvals.                                       *)
EXTENDS PlanApproval, TLAPS

LEMMA TagIsNoId == Tag \in Nat /\ Tag \notin Ids /\ Ids \subseteq 0 .. Tag /\ 0 \in 0 .. Tag /\ Tag \in 0 .. Tag
BY ApprovalAssumption DEF Tag, Ids

LEMMA NoRecordType == NoRecord \in Records
BY TagIsNoId DEF NoRecord, Records

LEMMA SeenAgainType == ASSUME NEW rec \in Records PROVE SeenAgain(rec) \in Records
BY TagIsNoId DEF SeenAgain, Records

(* What Record leaves of the store: the plan it notes, and for every other *)
(* plan its record or none.                                                *)
LEMMA RecordStep ==
  ASSUME TypeOK, NEW h \in Hashes, Record(h)
  PROVE  /\ mem' \in [Hashes -> Records] /\ disk' \in [Hashes -> Records]
         /\ mem'[h] = SeenAgain(mem[h])
         /\ disk'[h] \in {SeenAgain(mem[h]), disk[h]}
         /\ \A g \in Hashes \ {h} : mem'[g] \in {mem[g], NoRecord} /\ disk'[g] \in {disk[g], NoRecord}
<1>1. PICK gone \in SUBSET (Hashes \ {h}), saved \in BOOLEAN :
        /\ mem'  = [g \in Hashes |-> CASE g = h -> SeenAgain(mem[h])
                                       [] g \in gone -> NoRecord
                                       [] OTHER -> mem[g]]
        /\ disk' = [g \in Hashes |-> CASE g = h /\ saved -> SeenAgain(mem[h])
                                       [] g \in gone -> NoRecord
                                       [] OTHER -> disk[g]]
  BY DEF Record
<1>2. SeenAgain(mem[h]) \in Records
  BY SeenAgainType DEF TypeOK
<1>3. \A g \in Hashes : mem[g] \in Records /\ disk[g] \in Records
  BY DEF TypeOK
<1>4. QED
  BY <1>1, <1>2, <1>3, NoRecordType

LEMMA OutdatedStep ==
  ASSUME NEW store \in [Hashes -> Records]
  PROVE  /\ Outdated(store) \in [Hashes -> Records]
         /\ \A h \in Hashes : /\ Outdated(store)[h].approval = store[h].approval
                              /\ Outdated(store)[h].used = store[h].used
<1>1. \A h \in Hashes : store[h] \in Records
  OBVIOUS
<1>2. QED
  BY <1>1 DEF Outdated, Records

(* persist, whether it fails or not.                                       *)
LEMMA SaveStep ==
  ASSUME TypeOK, NEW h \in Hashes, NEW rec \in Records, Saved(h, rec) \/ Unsaved(h, rec)
  PROVE  /\ mem' \in [Hashes -> Records] /\ disk' \in [Hashes -> Records]
         /\ mem'[h] = rec /\ disk'[h] \in {rec, disk[h]}
         /\ Saved(h, rec) => disk'[h] = rec
         /\ \A g \in Hashes \ {h} : mem'[g] = mem[g] /\ disk'[g] = disk[g]
BY DEF Saved, Unsaved, TypeOK

----------------------------------------------------------------------------

LEMMA TypeStep ==
  ASSUME TypeOK, HoldInv, [Next]_vars
  PROVE  TypeOK'
<1>1. ASSUME NEW p \in Planners, PlanRead(p)
      PROVE  TypeOK'
  BY <1>1 DEF PlanRead, TypeOK, jobVars, storeVars, adminVars, Hashes
<1>2. ASSUME NEW p \in Planners, PlanRecorded(p)
      PROVE  TypeOK'
  <2>1. reading[p] \in Hashes
    BY <1>2 DEF PlanRecorded, TypeOK
  <2>2. QED
    BY <1>2, <2>1, RecordStep DEF PlanRecorded, TypeOK, jobVars, adminVars
<1>3. ASSUME NEW h \in Hashes, ApproveLook(h)
      PROVE  TypeOK'
  BY <1>3 DEF ApproveLook, TypeOK, jobVars, storeVars
<1>4. CASE Approve
  <2>1. looked \in Hashes
    BY <1>4 DEF Approve, TypeOK
  <2>2. ASSUME given + 1 \in Ids
        PROVE  [mem[looked] EXCEPT !.approval = given + 1] \in Records
    <3>1. mem[looked] \in Records
      BY <2>1 DEF TypeOK
    <3>2. QED
      BY <2>2, <3>1, TagIsNoId DEF Records
  <2>3. mem' \in [Hashes -> Records] /\ disk' \in [Hashes -> Records]
    BY <1>4, <2>1, <2>2, SaveStep DEF Approve, storeVars, TypeOK
  <2>4. given' \in 0 .. MaxApprovals /\ standing' \in SUBSET Ids /\ looked' \in Hashes \cup {NoPlan}
    BY <1>4 DEF Approve, TypeOK, Ids
  <2>5. QED
    BY <1>4, <2>3, <2>4 DEF Approve, TypeOK, jobVars
<1>5. ASSUME NEW h \in Hashes, Revoke(h)
      PROVE  TypeOK'
  <2>1. [mem[h] EXCEPT !.approval = 0] \in Records
    <3>1. mem[h] \in Records
      BY DEF TypeOK
    <3>2. QED
      BY <3>1, TagIsNoId DEF Records
  <2>2. QED
    BY <1>5, <2>1, SaveStep DEF Revoke, TypeOK, jobVars
<1>6. ASSUME NEW i \in Ids, Expire(i)
      PROVE  TypeOK'
  BY <1>6 DEF Expire, TypeOK, jobVars, storeVars, adminVars
<1>7. ASSUME NEW j \in Jobs, TakeHost(j)
      PROVE  TypeOK'
  BY <1>7 DEF TakeHost, Goto, TypeOK, storeVars, adminVars, JobSteps
<1>8. ASSUME NEW j \in Jobs, PlanHost(j)
      PROVE  TypeOK'
  <2>1. /\ plan' \in [Jobs -> Hashes \cup {NoPlan}]
        /\ expect' \in [Jobs -> Hashes \cup {NoPlan}]
    BY <1>8 DEF PlanHost, TypeOK, Hashes
  <2>2. pc' \in [Jobs -> JobSteps]
    BY <1>8 DEF PlanHost, Goto, TypeOK, JobSteps
  <2>3. QED
    BY <1>8, <2>1, <2>2 DEF PlanHost, TypeOK, storeVars, adminVars
<1>9. ASSUME NEW j \in Jobs, RecordPlan(j)
      PROVE  TypeOK'
  <2>1. plan[j] \in Hashes
    BY <1>9 DEF RecordPlan, HoldInv
  <2>2. QED
    BY <1>9, <2>1, RecordStep DEF RecordPlan, Goto, TypeOK, adminVars, JobSteps
<1>10. ASSUME NEW j \in Jobs, CheckApply(j)
       PROVE  TypeOK'
  BY <1>10 DEF CheckApply, Goto, TypeOK, storeVars, adminVars, JobSteps
<1>11. ASSUME NEW j \in Jobs, Consume(j)
       PROVE  TypeOK'
  <2>1. plan[j] \in Hashes
    BY <1>11 DEF Consume, HoldInv
  <2>2. [mem[plan[j]] EXCEPT !.used = TRUE] \in Records
    <3>1. mem[plan[j]] \in Records
      BY <2>1 DEF TypeOK
    <3>2. QED
      BY <3>1 DEF Records
  <2>3. mem' \in [Hashes -> Records] /\ disk' \in [Hashes -> Records]
    BY <1>11, <2>1, <2>2, SaveStep DEF Consume, storeVars, TypeOK
  <2>4. spent' \in [Ids -> SUBSET Jobs]
    BY <1>11 DEF Consume, TypeOK
  <2>5. QED
    BY <1>11, <2>3, <2>4 DEF Consume, Goto, TypeOK, adminVars, JobSteps
<1>12. ASSUME NEW j \in Jobs, UseForDeploy(j)
       PROVE  TypeOK'
  <2>1. plan[j] \in Hashes
    BY <1>12 DEF UseForDeploy, HoldInv
  <2>2. [mem[plan[j]] EXCEPT !.approval = Tag, !.used = TRUE] \in Records
    <3>1. mem[plan[j]] \in Records
      BY <2>1 DEF TypeOK
    <3>2. QED
      BY <3>1, TagIsNoId DEF Records
  <2>3. mem' \in [Hashes -> Records] /\ disk' \in [Hashes -> Records]
    BY <1>12, <2>1, <2>2, SaveStep DEF UseForDeploy, storeVars, TypeOK
  <2>4. QED
    BY <1>12, <2>3 DEF UseForDeploy, Goto, TypeOK, JobSteps
<1>13. ASSUME NEW j \in Jobs, Work(j) \/ Release(j)
       PROVE  TypeOK'
  BY <1>13 DEF Work, Release, Goto, TypeOK, storeVars, adminVars, JobSteps
<1>14. ASSUME NEW j \in Jobs, Finish(j)
       PROVE  TypeOK'
  BY <1>14, OutdatedStep DEF Finish, Goto, TypeOK, adminVars, JobSteps
<1>15. CASE Crash
  <2>1. mem' \in [Hashes -> Records] /\ disk' \in [Hashes -> Records]
    BY <1>15, OutdatedStep DEF Crash, TypeOK
  <2>2. crashes' \in 0 .. MaxCrashes
    BY <1>15, ApprovalAssumption DEF Crash, TypeOK
  <2>3. QED
    BY <1>15, <2>1, <2>2 DEF Crash, TypeOK, JobSteps
<1>16. CASE UNCHANGED vars
  BY <1>16 DEF vars, TypeOK
<1>17. QED
  BY <1>1, <1>2, <1>3, <1>4, <1>5, <1>6, <1>7, <1>8, <1>9, <1>10, <1>11,
     <1>12, <1>13, <1>14, <1>15, <1>16 DEF Next, Admin, Planning, Job

----------------------------------------------------------------------------
(* The host is held from the plan to the work.                             *)

(* A step of the job that has the host, which leaves the host, the plans   *)
(* and whoever else there is alone.                                        *)
LEMMA HeldStep ==
  ASSUME TypeOK, HoldInv, NEW j \in Jobs, NEW step \in JobSteps, Goto(j, step),
         UNCHANGED <<host, holder, plan, expect>>,
         pc[j] \notin {"new", "done", "lost"},
         step \in {"planned", "recorded", "prepare", "work"} /\ j \in Applies \cup Deploys
           => plan[j] \in Hashes /\ plan[j][2] = host,
         step \in {"prepare", "work"} /\ j \in Applies \cup Deploys => Exit(plan[j]) = 2,
         step \in {"prepare", "work"} /\ j \in Applies => plan[j] = expect[j],
         step = "prepare" => j \in Applies,
         step \in {"planning", "planned", "recorded"} => j \in Applies \cup Deploys
  PROVE  HoldInv'
<1>1. /\ \A k \in Jobs : pc'[k] = IF k = j THEN step ELSE pc[k]
      /\ host' = host /\ holder' = holder /\ plan' = plan /\ expect' = expect
  BY DEF Goto, TypeOK
<1>2. QED
  BY <1>1 DEF HoldInv, Exit

LEMMA HoldStep ==
  ASSUME TypeOK, HoldInv, [Next]_vars
  PROVE  HoldInv'
<1>1. ASSUME UNCHANGED <<host, holder, pc, plan, expect>>
      PROVE  HoldInv'
  BY <1>1 DEF HoldInv, Exit
<1>2. ASSUME NEW j \in Jobs, TakeHost(j)
      PROVE  HoldInv'
  <2>1. PICK step \in {"work", "planning"} :
          /\ \A k \in Jobs : pc'[k] = IF k = j THEN step ELSE pc[k]
          /\ j \in Others <=> step = "work"
    BY <1>2 DEF TakeHost, Goto, TypeOK
  <2>2. /\ holder = {} /\ holder' = {j}
        /\ host' = host /\ plan' = plan /\ expect' = expect
    BY <1>2 DEF TakeHost
  <2>3. \A k \in Jobs : pc[k] \in {"new", "done", "lost"}
    BY <2>2 DEF HoldInv
  <2>4. QED
    BY <2>1, <2>2, <2>3, ApprovalAssumption DEF HoldInv, Jobs
<1>3. ASSUME NEW j \in Jobs, PlanHost(j)
      PROVE  HoldInv'
  <2>1. /\ pc[j] = "planning" /\ j \in Applies \cup Deploys
        /\ host' = host /\ holder' = holder /\ holder = {j}
    BY <1>3 DEF PlanHost, HoldInv
  <2>2. CASE Goto(j, "planned") /\ \E t \in Trees : plan' = [plan EXCEPT ![j] = <<t, host>>]
    <3>a. PICK t \in Trees : plan' = [plan EXCEPT ![j] = <<t, host>>]
      BY <2>2
    <3>b. <<t, host>> \in Hashes
      BY DEF TypeOK, Hashes
    <3>c. plan'[j] = <<t, host>>
      BY <3>a DEF TypeOK
    <3>d. \A k \in Jobs : pc'[k] = IF k = j THEN "planned" ELSE pc[k]
      BY <2>2 DEF Goto, TypeOK
    <3>e. \A k \in Jobs \ {j} : pc[k] \in {"new", "done", "lost"}
      BY <2>1 DEF HoldInv
    <3>1. /\ \A k \in Jobs : pc'[k] = IF k = j THEN "planned" ELSE pc[k]
          /\ plan'[j] \in Hashes /\ plan'[j][2] = host
          /\ \A k \in Jobs \ {j} : pc[k] \in {"new", "done", "lost"}
      BY <3>b, <3>c, <3>d, <3>e
    <3>2. QED
      BY <2>1, <3>1 DEF HoldInv
  <2>3. CASE /\ Goto(j, IF j \in Applies THEN "release" ELSE "finish")
             /\ UNCHANGED <<plan, expect>>
    BY <2>1, <2>3, HeldStep DEF JobSteps
  <2>4. QED
    BY <1>3, <2>2, <2>3 DEF PlanHost
<1>4. ASSUME NEW j \in Jobs, RecordPlan(j)
      PROVE  HoldInv'
  <2>1. j \in Applies \cup Deploys /\ plan[j] \in Hashes /\ plan[j][2] = host
    BY <1>4 DEF RecordPlan, HoldInv
  <2>2. QED
    BY <1>4, <2>1, HeldStep DEF RecordPlan, JobSteps
<1>5. ASSUME NEW j \in Jobs, CheckApply(j)
      PROVE  HoldInv'
  <2>1. PICK step \in {"prepare", "release"} :
          Goto(j, step) /\ (step = "prepare" => plan[j] = expect[j] /\ Exit(plan[j]) = 2)
    BY <1>5 DEF CheckApply
  <2>2. j \in Applies /\ plan[j] \in Hashes /\ plan[j][2] = host
    BY <1>5 DEF CheckApply, HoldInv
  <2>3. QED
    BY <1>5, <2>1, <2>2, HeldStep DEF CheckApply, JobSteps
<1>6. ASSUME NEW j \in Jobs, Consume(j)
      PROVE  HoldInv'
  <2>1. PICK step \in {"work", "finish"} : Goto(j, step)
    BY <1>6 DEF Consume
  <2>2. /\ j \in Applies /\ plan[j] \in Hashes /\ plan[j][2] = host
        /\ plan[j] = expect[j] /\ Exit(plan[j]) = 2
    BY <1>6 DEF Consume, HoldInv
  <2>3. QED
    BY <1>6, <2>1, <2>2, HeldStep DEF Consume, JobSteps
<1>7. ASSUME NEW j \in Jobs, UseForDeploy(j)
      PROVE  HoldInv'
  <2>1. PICK step \in {"work", "finish"} : Goto(j, step) /\ (step = "work" => Exit(plan[j]) = 2)
    BY <1>7 DEF UseForDeploy
  <2>2. j \in Deploys /\ j \notin Applies /\ plan[j] \in Hashes /\ plan[j][2] = host
    BY <1>7, ApprovalAssumption DEF UseForDeploy, HoldInv
  <2>3. QED
    BY <1>7, <2>1, <2>2, HeldStep DEF UseForDeploy, JobSteps
<1>8. ASSUME NEW j \in Jobs, Work(j)
      PROVE  HoldInv'
  <2>1. /\ \A k \in Jobs : pc'[k] = IF k = j THEN "finish" ELSE pc[k]
        /\ holder = {j} /\ holder' = {j} /\ plan' = plan /\ expect' = expect
        /\ \A k \in Jobs \ {j} : pc[k] \in {"new", "done", "lost"}
    BY <1>8 DEF Work, Goto, TypeOK, HoldInv
  <2>2. QED
    BY <2>1 DEF HoldInv
<1>9. ASSUME NEW j \in Jobs, Finish(j)
      PROVE  HoldInv'
  BY <1>9, HeldStep DEF Finish, JobSteps
<1>10. ASSUME NEW j \in Jobs, Release(j)
       PROVE  HoldInv'
  <2>1. /\ \A k \in Jobs : pc'[k] = IF k = j THEN "done" ELSE pc[k]
        /\ \A k \in Jobs \ {j} : pc[k] \in {"new", "done", "lost"}
    BY <1>10 DEF Release, Goto, TypeOK, HoldInv
  <2>2. QED
    BY <2>1 DEF HoldInv
<1>11. CASE Crash
  <2>1. \A k \in Jobs : pc'[k] \in {"new", "done", "lost"}
    BY <1>11 DEF Crash
  <2>2. QED
    BY <2>1 DEF HoldInv
<1>12. CASE Admin \/ Planning \/ (\E i \in Ids : Expire(i)) \/ UNCHANGED vars
  BY <1>1, <1>12 DEF Admin, ApproveLook, Approve, Revoke, Planning, PlanRead, PlanRecorded, Expire, vars, jobVars
<1>13. QED
  BY <1>2, <1>3, <1>4, <1>5, <1>6, <1>7, <1>8, <1>9, <1>10, <1>11, <1>12 DEF Next, Job

THEOREM HoldCorrect == Spec => [](TypeOK /\ HoldInv)
<1>1. Init => TypeOK /\ HoldInv
  <2> SUFFICES ASSUME Init
               PROVE  TypeOK /\ HoldInv
    OBVIOUS
  <2>1. given \in 0 .. MaxApprovals /\ crashes \in 0 .. MaxCrashes
    BY ApprovalAssumption DEF Init
  <2>2. mem \in [Hashes -> Records] /\ disk \in [Hashes -> Records]
    BY NoRecordType DEF Init
  <2>3. TypeOK
    BY <2>1, <2>2 DEF Init, TypeOK, JobSteps
  <2>4. HoldInv
    BY DEF Init, HoldInv
  <2>5. QED
    BY <2>3, <2>4
<1>2. (TypeOK /\ HoldInv) /\ [Next]_vars => (TypeOK /\ HoldInv)'
  BY TypeStep, HoldStep
<1>3. QED
  BY <1>1, <1>2, PTL DEF Spec

(* The plan store, the jobs and the requests stay in the states the code   *)
(* knows.                                                                  *)
THEOREM ApprovalTypes == Spec => []TypeOK
BY HoldCorrect, PTL

(* An apply or a deploy works on the host its plan was made for, and an    *)
(* apply on the plan it was asked to run.                                  *)
THEOREM WorksOnPlannedHostAlways == Spec => []WorksOnPlannedHost
<1>1. HoldInv => WorksOnPlannedHost
  BY DEF HoldInv, WorksOnPlannedHost, Jobs
<1>2. QED
  BY <1>1, HoldCorrect, PTL

----------------------------------------------------------------------------
(* One approval is spent at most once.                                     *)

(* rec says no more of an approval than what is in memory or saved for h.  *)
From(rec, h) ==
  rec.approval \in Ids =>
    \E old \in {mem[h], disk[h]} : rec.approval = old.approval /\ (~rec.used => ~old.used)

(* Whatever only moves, drops or uses up approvals.                        *)
LEMMA KeepStep ==
  ASSUME ApprovalInv, UNCHANGED <<given, spent>>,
         \A h \in Hashes : From(mem'[h], h) /\ From(disk'[h], h)
  PROVE  ApprovalInv'
<1>1. UnusedUnspent(mem)' /\ UnusedUnspent(disk)'
  <2>1. \A h \in Hashes : \A old \in {mem[h], disk[h]} :
          old.approval \in Ids =>
            old.approval <= given /\ (~old.used => spent[old.approval] = {})
    BY DEF ApprovalInv, UnusedUnspent
  <2>2. \A h \in Hashes : \A rec \in {mem'[h], disk'[h]} :
          rec.approval \in Ids =>
            rec.approval <= given /\ (~rec.used => spent[rec.approval] = {})
    BY <2>1, SMTT(30) DEF From
  <2>3. QED
    BY <2>2 DEF UnusedUnspent
<1>2. \A h, g \in Hashes :
        \A one \in {mem[h], disk[h]}, other \in {mem[g], disk[g]} :
          one.approval \in Ids /\ one.approval = other.approval => h = g
  BY DEF ApprovalInv, NotShared
<1>3. NotShared(mem, mem)'
  BY <1>2 DEF From, NotShared
<1>4. NotShared(mem, disk)'
  BY <1>2 DEF From, NotShared
<1>5. NotShared(disk, disk)'
  BY <1>2 DEF From, NotShared
<1>6. QED
  BY <1>1, <1>3, <1>4, <1>5 DEF ApprovalInv, SingleUse

LEMMA SameFrom ==
  \A h \in Hashes : From(mem[h], h) /\ From(disk[h], h)
BY DEF From

(* A store step that leaves every approval but one where it was.           *)
LEMMA OneFrom ==
  ASSUME NEW h \in Hashes, NEW rec, From(rec, h),
         mem'[h] = rec, disk'[h] \in {rec, disk[h]},
         \A g \in Hashes \ {h} : mem'[g] = mem[g] /\ disk'[g] = disk[g]
  PROVE  \A g \in Hashes : From(mem'[g], g) /\ From(disk'[g], g)
BY SameFrom

LEMMA RecordKeeps ==
  ASSUME TypeOK, ApprovalInv, NEW h \in Hashes, Record(h), UNCHANGED <<given, spent>>
  PROVE  ApprovalInv'
<1>1. NoRecord.approval \notin Ids
  BY ApprovalAssumption DEF NoRecord, Ids
<1>2. \A g \in Hashes : From(NoRecord, g)
  BY <1>1 DEF From
<1>3. From(SeenAgain(mem[h]), h)
  <2>1. mem[h] \in Records
    BY DEF TypeOK
  <2>2. SeenAgain(mem[h]).approval \in Ids
          => ~mem[h].used /\ SeenAgain(mem[h]).approval = mem[h].approval
    BY <2>1, ApprovalAssumption DEF SeenAgain, Ids, Records
  <2>3. QED
    BY <2>2 DEF From
<1>4. \A g \in Hashes : From(mem'[g], g) /\ From(disk'[g], g)
  BY <1>2, <1>3, SameFrom, RecordStep
<1>5. QED
  BY <1>4, KeepStep

LEMMA ApproveStep ==
  ASSUME TypeOK, ApprovalInv, Approve
  PROVE  ApprovalInv'
<1>1. looked \in Hashes
  BY DEF Approve, TypeOK
<1>2. CASE UNCHANGED <<storeVars, given, standing>>
  <2>1. UNCHANGED <<given, spent>> /\ mem' = mem /\ disk' = disk
    BY <1>2 DEF Approve, storeVars, jobVars
  <2>2. QED
    BY <2>1, SameFrom, KeepStep
<1>3. CASE /\ given + 1 \in Ids /\ given' = given + 1
           /\ \/ Saved(looked, [mem[looked] EXCEPT !.approval = given + 1])
              \/ Unsaved(looked, [mem[looked] EXCEPT !.approval = given + 1])
  <2> DEFINE rec == [mem[looked] EXCEPT !.approval = given + 1]
  <2>1. mem[looked] \in Records
    BY <1>1 DEF TypeOK
  <2>2. rec \in Records /\ rec.approval = given + 1
    BY <1>3, <2>1, TagIsNoId DEF Records
  <2>3. /\ mem'[looked] = rec /\ disk'[looked] \in {rec, disk[looked]}
        /\ \A g \in Hashes \ {looked} : mem'[g] = mem[g] /\ disk'[g] = disk[g]
    BY <1>1, <1>3, <2>2, SaveStep
  <2>4. spent' = spent
    BY DEF Approve, jobVars
  <2>5. given \in Nat /\ \A i \in Ids : i \in Nat
    BY ApprovalAssumption DEF TypeOK, Ids
  <2>6. /\ spent[given + 1] = {}
        /\ \A i \in Ids : i > given' => spent'[i] = {}
    BY <1>3, <2>4, <2>5 DEF ApprovalInv
  <2>7. \A h \in Hashes :
          \A old \in {mem[h], disk[h]} :
            old.approval \in Ids => /\ old.approval <= given
                                    /\ ~old.used => spent[old.approval] = {}
    BY DEF ApprovalInv, UnusedUnspent
  <2>8. \A h \in Hashes :
          /\ h = looked => mem'[h] = rec /\ disk'[h] \in {rec, disk[h]}
          /\ h # looked => mem'[h] = mem[h] /\ disk'[h] = disk[h]
    BY <2>3
  <2>9. UnusedUnspent(mem)' /\ UnusedUnspent(disk)'
    <3>1. ASSUME NEW h \in Hashes, NEW new \in {mem'[h], disk'[h]}, new.approval \in Ids
          PROVE  new.approval <= given' /\ (~new.used => spent'[new.approval] = {})
      <4>1. CASE new = rec
        BY <1>3, <2>2, <2>4, <2>5, <2>6, <4>1
      <4>2. CASE new \in {mem[h], disk[h]}
        BY <1>3, <2>4, <2>5, <2>7, <3>1, <4>2
      <4>3. QED
        BY <2>8, <4>1, <4>2
    <3>2. QED
      BY <3>1 DEF UnusedUnspent
  <2>10. \A h \in Hashes : \A old \in {mem[h], disk[h]} : old.approval \in Ids => old.approval # rec.approval
    BY <2>2, <2>5, <2>7
  <2>11. \A h, g \in Hashes :
           \A one \in {mem[h], disk[h]}, other \in {mem[g], disk[g]} :
             one.approval \in Ids /\ one.approval = other.approval => h = g
    BY DEF ApprovalInv, NotShared
  <2>12. \A h, g \in Hashes :
           \A one \in {mem'[h], disk'[h]}, other \in {mem'[g], disk'[g]} :
             one.approval \in Ids /\ one.approval = other.approval => h = g
    <3> SUFFICES ASSUME NEW h \in Hashes, NEW g \in Hashes, h # g,
                        NEW one \in {mem'[h], disk'[h]}, NEW other \in {mem'[g], disk'[g]},
                        one.approval \in Ids, one.approval = other.approval
                 PROVE  FALSE
      OBVIOUS
    <3>1. /\ (h = looked /\ one = rec) \/ one \in {mem[h], disk[h]}
          /\ (g = looked /\ other = rec) \/ other \in {mem[g], disk[g]}
      BY <2>8
    <3>2. CASE one \in {mem[h], disk[h]} /\ other \in {mem[g], disk[g]}
      BY <2>11, <3>2
    <3>3. CASE h = looked /\ one = rec
      BY <2>10, <3>1, <3>3
    <3>4. CASE g = looked /\ other = rec
      BY <2>10, <3>1, <3>4
    <3>5. QED
      BY <3>1, <3>2, <3>3, <3>4
  <2>13. NotShared(mem, mem)' /\ NotShared(mem, disk)' /\ NotShared(disk, disk)'
    BY <2>12 DEF NotShared
  <2>14. QED
    BY <2>4, <2>6, <2>9, <2>13 DEF ApprovalInv, SingleUse
<1>4. QED
  BY <1>2, <1>3 DEF Approve

LEMMA ConsumeStep ==
  ASSUME TypeOK, HoldInv, ApprovalInv, NEW a \in Jobs, Consume(a)
  PROVE  ApprovalInv'
<1> DEFINE h == plan[a]
           rec == [mem[h] EXCEPT !.used = TRUE]
           i == mem[h].approval
<1>1. h \in Hashes
  BY DEF Consume, HoldInv
<1>2. mem[h] \in Records
  BY <1>1 DEF TypeOK
<1>3. rec \in Records /\ rec.approval = i /\ rec.used
  BY <1>2 DEF Records
<1>4. given' = given
  BY DEF Consume, adminVars
<1>5. From(rec, h)
  BY <1>3 DEF From
<1>6. CASE UNCHANGED <<storeVars, spent>>
  BY <1>4, <1>6, SameFrom, KeepStep DEF storeVars
<1>7. CASE Unsaved(h, rec) /\ UNCHANGED spent
  <2>1. \A g \in Hashes : From(mem'[g], g) /\ From(disk'[g], g)
    <3>1. /\ mem'[h] = rec /\ disk'[h] \in {rec, disk[h]}
          /\ \A g \in Hashes \ {h} : mem'[g] = mem[g] /\ disk'[g] = disk[g]
      BY <1>1, <1>3, <1>7, SaveStep
    <3>2. QED
      BY <3>1, <1>1, <1>5, OneFrom
  <2>2. QED
    BY <1>4, <1>7, <2>1, KeepStep
<1>8. CASE Checks(h) /\ Saved(h, rec) /\ spent' = [spent EXCEPT ![i] = @ \cup {a}]
  <2>1. /\ mem'[h] = rec /\ disk'[h] = rec
        /\ \A g \in Hashes \ {h} : mem'[g] = mem[g] /\ disk'[g] = disk[g]
    BY <1>1, <1>3, <1>8, SaveStep
  <2>2. i \in Ids /\ ~mem[h].used
    BY <1>2, <1>8, ApprovalAssumption DEF Checks, Usable, Records, Ids, Tag
  <2>3. spent[i] = {} /\ i <= given
    BY <1>1, <2>2 DEF ApprovalInv, UnusedUnspent
  <2>4. /\ spent'[i] = {a}
        /\ \A k \in Ids : k # i => spent'[k] = spent[k]
    BY <1>8, <2>2, <2>3 DEF TypeOK
  <2>5. given \in Nat /\ \A k \in Ids : k \in Nat
    BY ApprovalAssumption DEF TypeOK, Ids
  <2>6. SingleUse'
    BY <2>4 DEF SingleUse, ApprovalInv
  <2>7. \A k \in Ids : k > given' => spent'[k] = {}
    BY <1>4, <2>3, <2>4, <2>5 DEF ApprovalInv
  <2>8. \A g \in Hashes \ {h} :
          (mem[g].approval \in Ids => mem[g].approval # i) /\ (disk[g].approval \in Ids => disk[g].approval # i)
    BY <1>1, <2>2 DEF ApprovalInv, NotShared
  <2>9. \A g \in Hashes \ {h} : \A old \in {mem[g], disk[g]} :
          old.approval \in Ids => /\ old.approval # i
                                  /\ old.approval <= given
                                  /\ ~old.used => spent'[old.approval] = {}
    <3>1. \A g \in Hashes : \A old \in {mem[g], disk[g]} :
            old.approval \in Ids => /\ old.approval <= given
                                    /\ ~old.used => spent[old.approval] = {}
      BY DEF ApprovalInv, UnusedUnspent
    <3>2. QED
      BY <2>4, <2>8, <3>1
  <2>10. UnusedUnspent(mem)' /\ UnusedUnspent(disk)'
    <3>1. \A g \in Hashes \ {h} : mem'[g] \in {mem[g], disk[g]} /\ disk'[g] \in {mem[g], disk[g]}
      BY <2>1
    <3>2. ASSUME NEW g \in Hashes, NEW new \in {mem'[g], disk'[g]}, new.approval \in Ids
          PROVE  new.approval <= given /\ (~new.used => spent'[new.approval] = {})
      <4>1. CASE g = h
        BY <1>3, <2>1, <2>3, <3>2, <4>1, ZenonT(60)
      <4>2. CASE g # h
        BY <2>9, <3>1, <3>2, <4>2
      <4>3. QED
        BY <4>1, <4>2
    <3>3. QED
      BY <1>4, <3>2 DEF UnusedUnspent
  <2>11. \A f, g \in Hashes :
           \A one \in {mem'[f], disk'[f]}, other \in {mem'[g], disk'[g]} :
             one.approval \in Ids /\ one.approval = other.approval => f = g
    <3> SUFFICES ASSUME NEW f \in Hashes, NEW g \in Hashes, f # g,
                        NEW one \in {mem'[f], disk'[f]}, NEW other \in {mem'[g], disk'[g]},
                        one.approval \in Ids, one.approval = other.approval
                 PROVE  FALSE
      OBVIOUS
    <3>1. /\ f = h => one.approval = i
          /\ g = h => other.approval = i
          /\ f # h => one \in {mem[f], disk[f]}
          /\ g # h => other \in {mem[g], disk[g]}
      <4>1. f # h => mem'[f] = mem[f] /\ disk'[f] = disk[f]
        BY <2>1
      <4>2. g # h => mem'[g] = mem[g] /\ disk'[g] = disk[g]
        BY <2>1
      <4>3. f = h => one = rec
        BY <2>1
      <4>4. g = h => other = rec
        BY <2>1
      <4> HIDE DEF rec
      <4>5. QED
        BY <1>3, <4>1, <4>2, <4>3, <4>4
    <3>2. CASE f # h /\ g # h
      BY <3>1, <3>2 DEF ApprovalInv, NotShared
    <3>3. CASE f = h \/ g = h
      BY <2>2, <2>9, <3>1, <3>3
    <3>4. QED
      BY <3>2, <3>3
  <2>12. NotShared(mem, mem)' /\ NotShared(mem, disk)' /\ NotShared(disk, disk)'
    BY <2>11 DEF NotShared
  <2>13. QED
    BY <2>6, <2>7, <2>10, <2>12 DEF ApprovalInv
<1>9. QED
  BY <1>6, <1>7, <1>8 DEF Consume

LEMMA ApprovalStep ==
  ASSUME TypeOK, HoldInv, ApprovalInv, [Next]_vars
  PROVE  ApprovalInv'
<1>1. ASSUME UNCHANGED <<given, spent, mem, disk>>
      PROVE  ApprovalInv'
  BY <1>1, SameFrom, KeepStep
<1>2. ASSUME NEW p \in Planners, PlanRecorded(p)
      PROVE  ApprovalInv'
  <2>1. reading[p] \in Hashes
    BY <1>2 DEF PlanRecorded, TypeOK
  <2>2. QED
    BY <1>2, <2>1, RecordKeeps DEF PlanRecorded, jobVars, adminVars
<1>3. ASSUME NEW j \in Jobs, RecordPlan(j)
      PROVE  ApprovalInv'
  <2>1. plan[j] \in Hashes
    BY <1>3 DEF RecordPlan, HoldInv
  <2>2. QED
    BY <1>3, <2>1, RecordKeeps DEF RecordPlan, adminVars
<1>4. ASSUME NEW h \in Hashes, Revoke(h)
      PROVE  ApprovalInv'
  <2> DEFINE rec == [mem[h] EXCEPT !.approval = 0]
  <2>1. mem[h] \in Records
    BY DEF TypeOK
  <2>2. rec \in Records /\ rec.approval \notin Ids
    BY <2>1, TagIsNoId DEF Records, Ids
  <2>3. From(rec, h)
    BY <2>2 DEF From
  <2>4. /\ mem'[h] = rec /\ disk'[h] \in {rec, disk[h]}
        /\ \A g \in Hashes \ {h} : mem'[g] = mem[g] /\ disk'[g] = disk[g]
    BY <1>4, <2>2, SaveStep DEF Revoke
  <2>5. \A g \in Hashes : From(mem'[g], g) /\ From(disk'[g], g)
    BY <2>3, <2>4, OneFrom
  <2>6. QED
    BY <1>4, <2>5, KeepStep DEF Revoke, jobVars
<1>5. ASSUME NEW j \in Jobs, UseForDeploy(j)
      PROVE  ApprovalInv'
  <2> DEFINE h == plan[j]
             rec == [mem[h] EXCEPT !.approval = Tag, !.used = TRUE]
  <2>1. h \in Hashes
    BY <1>5 DEF UseForDeploy, HoldInv
  <2>2. mem[h] \in Records
    BY <2>1 DEF TypeOK
  <2>3. rec \in Records /\ rec.approval \notin Ids
    BY <2>2, TagIsNoId DEF Records
  <2>4. CASE UNCHANGED <<storeVars, standing>>
    BY <1>1, <1>5, <2>4 DEF UseForDeploy, storeVars
  <2>5. CASE Saved(h, rec) \/ Unsaved(h, rec)
    <3>1. From(rec, h)
      BY <2>3 DEF From
    <3>2. /\ mem'[h] = rec /\ disk'[h] \in {rec, disk[h]}
          /\ \A g \in Hashes \ {h} : mem'[g] = mem[g] /\ disk'[g] = disk[g]
      BY <2>1, <2>3, <2>5, SaveStep
    <3>3. \A g \in Hashes : From(mem'[g], g) /\ From(disk'[g], g)
      BY <2>1, <3>1, <3>2, OneFrom
    <3>4. QED
      BY <1>5, <3>3, KeepStep DEF UseForDeploy
  <2>6. QED
    BY <1>5, <2>4, <2>5 DEF UseForDeploy
<1>6. ASSUME NEW j \in Jobs, Finish(j)
      PROVE  ApprovalInv'
  <2>1. \A h \in Hashes : /\ mem'[h].approval = mem[h].approval /\ mem'[h].used = mem[h].used
                          /\ disk'[h].approval = disk[h].approval /\ disk'[h].used = disk[h].used
    BY <1>6, OutdatedStep DEF Finish, TypeOK
  <2>2. \A h \in Hashes : From(mem'[h], h) /\ From(disk'[h], h)
    BY <2>1 DEF From
  <2>3. QED
    BY <1>6, <2>2, KeepStep DEF Finish, adminVars
<1>7. CASE Crash
  <2>1. \A h \in Hashes : /\ mem'[h].approval = disk[h].approval /\ mem'[h].used = disk[h].used
                          /\ disk'[h].approval = disk[h].approval /\ disk'[h].used = disk[h].used
    BY <1>7, OutdatedStep DEF Crash, TypeOK
  <2>2. \A h \in Hashes : From(mem'[h], h) /\ From(disk'[h], h)
    BY <2>1 DEF From
  <2>3. QED
    BY <1>7, <2>2, KeepStep DEF Crash
<1>8. ASSUME NEW j \in Jobs,
             TakeHost(j) \/ PlanHost(j) \/ CheckApply(j) \/ Work(j) \/ Release(j)
      PROVE  ApprovalInv'
  BY <1>1, <1>8 DEF TakeHost, PlanHost, CheckApply, Work, Release, storeVars, adminVars
<1>9. CASE \/ \E p \in Planners : PlanRead(p)
           \/ \E h \in Hashes : ApproveLook(h)
           \/ \E i \in Ids : Expire(i)
           \/ UNCHANGED vars
  BY <1>1, <1>9 DEF PlanRead, ApproveLook, Expire, vars, jobVars, storeVars, adminVars
<1>10. QED
  BY <1>2, <1>3, <1>4, <1>5, <1>6, <1>7, <1>8, <1>9, ApproveStep, ConsumeStep DEF Next, Job, Admin, Planning

LEMMA ApprovalCorrect == Spec => []ApprovalInv
<1>1. Init => ApprovalInv
  BY ApprovalAssumption DEF Init, ApprovalInv, UnusedUnspent, NotShared, SingleUse, NoRecord, Ids
<1>2. TypeOK /\ HoldInv /\ ApprovalInv /\ [Next]_vars => ApprovalInv'
  BY ApprovalStep
<1>3. QED
  BY <1>1, <1>2, HoldCorrect, PTL DEF Spec

(* However plans, approvals, applies, failed saves and deaths of the       *)
(* daemon interleave, one approval lets at most one apply work.            *)
THEOREM SingleUseAlways == Spec => []SingleUse
<1>1. ApprovalInv => SingleUse
  BY DEF ApprovalInv
<1>2. QED
  BY <1>1, ApprovalCorrect, PTL

----------------------------------------------------------------------------
(* What works was approved.                                                *)

(* When writing a record does not fail, memory is what was saved, and an   *)
(* approval that is there and was not used is one its admin was told of.   *)
StandInv ==
  /\ disk = mem
  /\ \A h \in Hashes : mem[h].approval \in Ids /\ ~mem[h].used => mem[h].approval \in standing

(* Whatever only moves, drops or uses up approvals keeps this, as it kept  *)
(* ApprovalInv.                                                            *)
LEMMA StandKept ==
  ASSUME StandInv, disk' = mem', standing \subseteq standing',
         \A h \in Hashes : mem'[h].approval \in Ids /\ ~mem'[h].used =>
                            mem'[h].approval = mem[h].approval /\ ~mem[h].used
  PROVE  StandInv'
  BY DEF StandInv

LEMMA RecordStands ==
  ASSUME TypeOK, StandInv, DiskFaults = FALSE, NEW h \in Hashes, Record(h), standing' = standing
  PROVE  StandInv'
<1>1. PICK gone \in SUBSET (Hashes \ {h}) :
        /\ mem'  = [g \in Hashes |-> CASE g = h -> SeenAgain(mem[h])
                                       [] g \in gone -> NoRecord
                                       [] OTHER -> mem[g]]
        /\ disk' = [g \in Hashes |-> CASE g = h -> SeenAgain(mem[h])
                                       [] g \in gone -> NoRecord
                                       [] OTHER -> disk[g]]
  BY DEF Record
<1>2. disk' = mem'
  BY <1>1 DEF StandInv
<1>3. mem'[h] = SeenAgain(mem[h])
      /\ \A g \in Hashes \ {h} : mem'[g] \in {mem[g], NoRecord}
  BY <1>1
<1>4. NoRecord.approval \notin Ids
  BY ApprovalAssumption DEF NoRecord, Ids
<1>5. SeenAgain(mem[h]).approval \in Ids
        => ~mem[h].used /\ SeenAgain(mem[h]).approval = mem[h].approval
  BY ApprovalAssumption DEF SeenAgain, Ids, TypeOK, Records
<1> QED
  BY <1>2, <1>3, <1>4, <1>5, StandKept

(* A record is written for one plan, and its approval replaced, withdrawn  *)
(* or used: what stands for the other plans still does.                    *)
LEMMA SaveStands ==
  ASSUME TypeOK, ApprovalInv, StandInv, NEW h \in Hashes, NEW rec \in Records, Saved(h, rec),
         standing \ {mem[h].approval} \subseteq standing',
         rec.approval \in Ids /\ ~rec.used => rec.approval \in standing'
  PROVE  StandInv'
<1>1. disk' = mem' /\ mem'[h] = rec /\ \A g \in Hashes \ {h} : mem'[g] = mem[g]
  BY DEF Saved, StandInv, TypeOK
<1>2. \A g \in Hashes \ {h} : mem[g].approval \in Ids => mem[g].approval # mem[h].approval
  BY DEF ApprovalInv, NotShared
<1> QED
  BY <1>1, <1>2 DEF StandInv

LEMMA StandStep ==
  ASSUME TypeOK, HoldInv, ApprovalInv, StandInv, DiskFaults = FALSE, [Next]_vars
  PROVE  StandInv'
<1>1. ASSUME UNCHANGED <<storeVars, standing>>
      PROVE  StandInv'
  BY <1>1 DEF storeVars, StandInv
<1>2. ASSUME NEW p \in Planners, PlanRecorded(p)
      PROVE  StandInv'
  <2>1. reading[p] \in Hashes
    BY <1>2 DEF PlanRecorded, TypeOK
  <2> QED
    BY <1>2, <2>1, RecordStands DEF PlanRecorded, adminVars
<1>3. ASSUME NEW j \in Jobs, RecordPlan(j)
      PROVE  StandInv'
  <2>1. plan[j] \in Hashes
    BY <1>3 DEF RecordPlan, HoldInv
  <2> QED
    BY <1>3, <2>1, RecordStands DEF RecordPlan, adminVars
<1>4. CASE Approve
  <2>1. looked \in Hashes /\ mem[looked] \in Records
    BY <1>4 DEF Approve, TypeOK
  <2> DEFINE rec == [mem[looked] EXCEPT !.approval = given + 1]
  <2>2. CASE /\ given + 1 \in Ids /\ Saved(looked, rec)
             /\ standing' = (standing \ {mem[looked].approval}) \cup {given + 1}
    <3>1. rec \in Records /\ rec.approval = given + 1
      BY <2>1, <2>2, TagIsNoId DEF Records
    <3> HIDE DEF rec
    <3> QED
      BY <2>1, <2>2, <3>1, SaveStands
  <2>3. CASE UNCHANGED <<storeVars, given, standing>>
    BY <1>1, <2>3
  <2> QED
    BY <1>4, <2>2, <2>3 DEF Approve, Unsaved
<1>5. ASSUME NEW h \in Hashes, Revoke(h)
      PROVE  StandInv'
  <2> DEFINE rec == [mem[h] EXCEPT !.approval = 0]
  <2>1. rec \in Records /\ rec.approval = 0
    BY TagIsNoId DEF TypeOK, Records
  <2>2. rec.approval \notin Ids
    BY <2>1, ApprovalAssumption DEF Ids
  <2>3. Saved(h, rec) /\ standing' = standing \ {mem[h].approval}
    BY <1>5 DEF Revoke, Unsaved
  <2> HIDE DEF rec
  <2> QED
    BY <2>1, <2>2, <2>3, SaveStands
<1>6. ASSUME NEW j \in Jobs, Consume(j)
      PROVE  StandInv'
  <2> DEFINE rec == [mem[plan[j]] EXCEPT !.used = TRUE]
  <2>1. plan[j] \in Hashes
    BY <1>6 DEF Consume, HoldInv
  <2>2. rec \in Records /\ rec.used
    <3>1. mem[plan[j]] \in Records
      BY <2>1 DEF TypeOK
    <3> QED
      BY <3>1 DEF Records
  <2>3. standing' = standing
    BY <1>6 DEF Consume, adminVars
  <2>4. Saved(plan[j], rec) \/ UNCHANGED storeVars
    BY <1>6 DEF Consume, Unsaved
  <2> HIDE DEF rec
  <2> QED
    BY <1>1, <2>1, <2>2, <2>3, <2>4, SaveStands
<1>7. ASSUME NEW j \in Jobs, UseForDeploy(j)
      PROVE  StandInv'
  <2> DEFINE rec == [mem[plan[j]] EXCEPT !.approval = Tag, !.used = TRUE]
  <2>1. plan[j] \in Hashes
    BY <1>7 DEF UseForDeploy, HoldInv
  <2>2. rec \in Records /\ rec.used
    <3>1. mem[plan[j]] \in Records
      BY <2>1 DEF TypeOK
    <3> QED
      BY <3>1, TagIsNoId DEF Records
  <2>3. \/ Saved(plan[j], rec) /\ standing' = standing \ {mem[plan[j]].approval}
        \/ UNCHANGED <<storeVars, standing>>
    BY <1>7 DEF UseForDeploy, Unsaved
  <2> HIDE DEF rec
  <2> QED
    BY <1>1, <2>1, <2>2, <2>3, SaveStands
<1>8. ASSUME disk' = mem', mem' \in {mem, disk, Outdated(mem), Outdated(disk)}, standing' = standing
      PROVE  StandInv'
  <2>1. mem' = mem \/ mem' = Outdated(mem)
    BY <1>8 DEF StandInv
  <2>2. \A h \in Hashes : mem'[h].approval = mem[h].approval /\ mem'[h].used = mem[h].used
    BY <2>1, OutdatedStep DEF TypeOK
  <2> QED
    BY <1>8, <2>2, StandKept
<1>9. ASSUME NEW j \in Jobs, Finish(j)
      PROVE  StandInv'
  BY <1>8, <1>9 DEF Finish, adminVars, StandInv
<1>10. CASE Crash
  BY <1>8, <1>10 DEF Crash
<1>11. ASSUME NEW j \in Jobs, TakeHost(j) \/ PlanHost(j) \/ CheckApply(j) \/ Work(j) \/ Release(j)
       PROVE  StandInv'
  BY <1>1, <1>11 DEF TakeHost, PlanHost, CheckApply, Work, Release, adminVars
<1>12. CASE (\E h \in Hashes : ApproveLook(h)) \/ (\E p \in Planners : PlanRead(p))
            \/ (\E i \in Ids : Expire(i)) \/ UNCHANGED vars
  BY <1>1, <1>12 DEF ApproveLook, PlanRead, Expire, vars, storeVars, adminVars
<1> QED
  BY <1>2, <1>3, <1>4, <1>5, <1>6, <1>7, <1>9, <1>10, <1>11, <1>12 DEF Next, Job, Admin, Planning

(* However long ago the plan was checked, and whatever was approved,       *)
(* withdrawn, planned again or pruned since, the approval an apply works   *)
(* with stands at the moment it is used up, when writing a record does not *)
(* fail.                                                                   *)
THEOREM WorkAlwaysApproved ==
  ASSUME DiskFaults = FALSE
  PROVE  Spec => WorkWasApproved
<1> DEFINE Inv == TypeOK /\ HoldInv /\ ApprovalInv /\ StandInv
           A   == \A i \in Ids : spent'[i] # spent[i] => i \in standing \ expired
<1>1. Init => StandInv
  BY ApprovalAssumption DEF Init, StandInv, NoRecord, Ids
<1>2. Inv /\ [Next]_vars => StandInv'
  BY StandStep
<1>3. Inv /\ [Next]_vars => [A]_vars
  <2> SUFFICES ASSUME Inv, [Next]_vars, NEW i \in Ids, spent'[i] # spent[i]
               PROVE  i \in standing \ expired
    OBVIOUS
  <2>1. PICK j \in Jobs : Consume(j)
    BY DEF Next, Job, Admin, Planning, TakeHost, PlanHost, RecordPlan, CheckApply, UseForDeploy,
           Work, Finish, Release, ApproveLook, Approve, Revoke, PlanRead, PlanRecorded, Expire,
           Crash, vars, jobVars
  <2>2. Checks(plan[j]) /\ spent' = [spent EXCEPT ![mem[plan[j]].approval] = @ \cup {j}]
    BY <2>1 DEF Consume
  <2>3. i = mem[plan[j]].approval
    BY <2>2 DEF TypeOK
  <2>4. plan[j] \in Hashes
    BY <2>1 DEF Consume, HoldInv
  <2> QED
    BY <2>2, <2>3, <2>4 DEF Checks, Usable, StandInv
<1>4. WorkWasApproved <=> [][A]_vars
  BY DEF WorkWasApproved
<1> HIDE DEF A
<1> QED
  BY <1>1, <1>2, <1>3, <1>4, HoldCorrect, ApprovalCorrect, PTL DEF Spec
=============================================================================
