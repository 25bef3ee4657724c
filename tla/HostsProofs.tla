----------------------------- MODULE HostsProofs -----------------------------
(* What concerns more hosts than one: that a migration between two keeps   *)
(* the data, runs the instance once and makes up for the stop of its       *)
(* source; that, for any fleet, no plan and no command replaces the key of *)
(* a host; that reconcile makes one droplet for each name; that the daemons *)
(* of a fleet never write one record against each other; that a reconcile  *)
(* that says ok has done all it is for; and that a fleet whose daemons have *)
(* nothing left to do is what fleet.yml says.                              *)
EXTENDS MCFleet, Sequences, FiniteSetTheorems, WellFoundedInduction, TLAPS

-----------------------------------------------------------------------------
(* Migration, between two hosts that take requests one after the other.    *)
(* The invariant says what is so of any host, and what is so of a host at  *)
(* each step of its job, of which there is one at a time.                  *)

TwoHostsInTurn ==
  /\ ~Overlap
  /\ \A f, g, h \in Hosts : f = g \/ g = h \/ f = h

(* The steps before the target is started, those that may go back on the   *)
(* source they have stopped, and those of a source that is given up.       *)
Before    == {"snapshot", "copy", "stop", "verify", "start"}
Moving    == {"preflight", "health", "undo", "restart", "mark", "unroute"} \cup Before
Deleting  == {"delete", "purge"}
MayGoBack(h) ==
  pc[h] \in {"start", "health", "undo", "restart"} \/ (pc[h] = "copy" /\ ~job[h].warm)

OneJob == \A g, h \in Hosts : pc[g] # "idle" /\ pc[h] # "idle" => g = h

(* What a job knows.                                                       *)
JobClaims(h) ==
  /\ pc[h] \in Moving \cup Deleting \cup {"clear", "check"} => job[h].to \in Others(h)
  /\ pc[h] = "idle" => job[h] = NoJob
  /\ job[h].expired => pc[h] \in {"verify", "undo", "restart"}
  /\ job[h].started => pc[h] \in {"health", "undo", "restart", "mark", "unroute"}
  /\ pc[h] \in {"health", "undo"} => job[h].started
  /\ pc[h] = "snapshot" => job[h].left = Volumes

(* Where the instance does not run.                                        *)
RunClaims(h) ==
  /\ MayGoBack(h) \/ pc[h] \in Deleting => status[h] # "Running"
  /\ pc[h] = "snapshot" /\ ~job[h].warm => status[h] # "Running"
  /\ pc[h] \in Before => status[job[h].to] # "Running"
  /\ pc[h] = "restart" /\ ~job[h].expired => twice \/ status[job[h].to] # "Running"

(* What is made up for, in time.                                           *)
BackClaims(h) ==
  /\ h \in down => late \/ MayGoBack(h)
  /\ pc[h] \in {"undo", "restart"} /\ job[h].expired => late

(* Whose volumes hold what was written last.                               *)
HasNewest(h) == \A v \in Volumes : vol[h][v] = tip[v]

DataClaims(h) == over \/ twice \/
  /\ pc[h] \in Before \cup {"health", "undo"} => HasNewest(h)
  /\ pc[h] = "restart" /\ ~job[h].expired => HasNewest(h)
  /\ pc[h] = "copy" /\ ~job[h].warm => \A v \in Volumes \ job[h].left : vol[job[h].to][v] = tip[v]
  /\ pc[h] \in Deleting \cup {"start"} => HasNewest(job[h].to)

Claims(h) == JobClaims(h) /\ RunClaims(h) /\ BackClaims(h) /\ DataClaims(h)

WorldInv ==
  /\ RunsOnce /\ NewestKept
  /\ \A v \in Volumes : tip[v] <= writes
  /\ \A h \in Hosts, v \in Volumes : vol[h][v] \in Version => vol[h][v] <= tip[v]
  /\ over \/ twice \/ \A h \in Hosts : status[h] = "Running" => HasNewest(h)

MigrationInv == TypeOK /\ OneJob /\ WorldInv /\ \A h \in Hosts : Claims(h)

WorldTypes ==
  /\ status \in [Hosts -> {"none", "Stopped", "Running"}]
  /\ mark \in [Hosts -> Hosts \cup {None}]
  /\ route \in [Hosts -> BOOLEAN]
  /\ vol \in [Hosts -> [Volumes -> Version \cup {None, Torn}]]
  /\ writes \in Version /\ requests \in Nat /\ kills \in Nat /\ deaths \in Nat
  /\ tip \in [Volumes -> Version] /\ down \in SUBSET Hosts
  /\ late \in BOOLEAN /\ twice \in BOOLEAN /\ over \in BOOLEAN

(* The fields of a job, after each change that is made of it.              *)
Jobs == [to : Hosts \cup {None}, resume : BOOLEAN, was : BOOLEAN, left : SUBSET Volumes,
         there : SUBSET (Volumes \cup {None}), warm : BOOLEAN, started : BOOLEAN,
         purge : BOOLEAN, expired : BOOLEAN]

(* But for what is left to copy, or the copy's turn.                       *)
SameJob(j, k) ==
  k \in Jobs /\ k.to = j.to /\ k.started = j.started /\ k.expired = j.expired

LEMMA JobAsked ==
  ASSUME NEW t \in Hosts, NEW b \in BOOLEAN
  PROVE  /\ NoJob \in Jobs /\ ~NoJob.started /\ ~NoJob.expired
         /\ LET j == [NoJob EXCEPT !.to = t, !.resume = b]
            IN  j \in Jobs /\ j.to = t /\ ~j.started /\ ~j.expired
         /\ LET j == [NoJob EXCEPT !.to = t, !.purge = b]
            IN  j \in Jobs /\ j.to = t /\ ~j.started /\ ~j.expired
BY DEF Jobs, NoJob

LEMMA JobReady ==
  ASSUME NEW j \in Jobs, NEW w \in BOOLEAN, NEW there \in SUBSET (Volumes \cup {None})
  PROVE  LET k == [j EXCEPT !.was = w, !.there = there, !.left = Volumes, !.warm = w]
         IN  SameJob(j, k) /\ k.left = Volumes /\ k.warm = w
BY DEF Jobs, SameJob

LEMMA JobCopies ==
  ASSUME NEW j \in Jobs, NEW v \in Volumes
  PROVE  LET k == [j EXCEPT !.left = @ \ {v}, !.there = @ \cup {v}]
         IN  SameJob(j, k) /\ k.left = j.left \ {v} /\ k.warm = j.warm
BY DEF Jobs, SameJob

LEMMA JobCopied ==
  ASSUME NEW j \in Jobs
  PROVE  SameJob(j, [j EXCEPT !.there = @ \cup {None}])
BY DEF Jobs, SameJob

LEMMA JobAgain ==
  ASSUME NEW j \in Jobs
  PROVE  LET k == [j EXCEPT !.left = Volumes, !.warm = FALSE]
         IN  SameJob(j, k) /\ k.left = Volumes /\ ~k.warm
BY DEF Jobs, SameJob

LEMMA JobStarted ==
  ASSUME NEW j \in Jobs
  PROVE  LET k == [j EXCEPT !.started = TRUE]
         IN  k \in Jobs /\ k.started /\ k.to = j.to /\ k.expired = j.expired
BY DEF Jobs

LEMMA JobPurges ==
  ASSUME NEW j \in Jobs, NEW vs \in SUBSET Volumes
  PROVE  SameJob(j, [j EXCEPT !.left = vs])
BY DEF Jobs, SameJob

LEMMA JobTimes ==
  ASSUME NEW j \in Jobs, NEW out
  PROVE  /\ Later(j, out) \in Jobs /\ Later(j, out).expired = (j.expired \/ out = "cut")
         /\ Later(j, out).to = j.to /\ Later(j, out).started = j.started
BY DEF Jobs, Later

(* While a daemon has a job, the other one has none.                       *)
LEMMA JobAlone ==
  ASSUME MigrationInv, TwoHostsInTurn, NEW h \in Hosts, pc[h] # "idle"
  PROVE  /\ job[h] \in Jobs
         /\ \A g \in Hosts \ {h} : pc[g] = "idle"
         /\ job[h].to \in Others(h) => job[h].to \in Hosts /\ job[h].to # h /\ \A g \in Hosts : g = h \/ g = job[h].to
BY DEF MigrationInv, TypeOK, OneJob, Jobs, TwoHostsInTurn, Others

(* So what a step leaves of it and of the hosts is all there is to show.   *)
LEMMA StepKeeps ==
  ASSUME MigrationInv, NEW h \in Hosts, \A g \in Hosts \ {h} : pc[g] = "idle",
         NEW s \in Steps, NEW j \in Jobs, Goto(h, s, j),
         down' \subseteq down \cup {h}, late => late',
         WorldTypes', WorldInv', pc'[h] = s /\ job'[h] = j => Claims(h)'
  PROVE  MigrationInv'
<1>1. /\ pc' \in [Hosts -> Steps] /\ job' \in [Hosts -> Jobs]
      /\ pc'[h] = s /\ job'[h] = j
      /\ \A g \in Hosts \ {h} : pc'[g] = pc[g] /\ job'[g] = job[g]
  BY DEF MigrationInv, TypeOK, Goto, Jobs
<1>2. TypeOK' /\ OneJob'
  BY <1>1 DEF OneJob, TypeOK, WorldTypes, Jobs
<1>3. ASSUME NEW g \in Hosts \ {h}
      PROVE  Claims(g)'
  <2>1. pc'[g] = "idle" /\ job'[g] = NoJob /\ (g \in down' => late')
    BY <1>1, <1>3 DEF MigrationInv, Claims, JobClaims, BackClaims, MayGoBack
  <2>2. ~NoJob.started /\ ~NoJob.expired
    BY DEF NoJob
  <2> QED
    BY <2>1, <2>2 DEF Claims, JobClaims, RunClaims, BackClaims, DataClaims, MayGoBack, Moving, Before, Deleting
<1> QED
  BY <1>1, <1>2, <1>3 DEF MigrationInv

(* A job that ends claims nothing but that its source is no longer down.   *)
LEMMA EndKeeps ==
  ASSUME MigrationInv, NEW h \in Hosts, \A g \in Hosts \ {h} : pc[g] = "idle", End(h),
         down' \subseteq down, h \in down' => late', late => late', WorldTypes', WorldInv'
  PROVE  MigrationInv'
<1>1. NoJob \in Jobs /\ ~NoJob.started /\ ~NoJob.expired /\ "idle" \in Steps
  BY MigrationAssumption DEF NoJob, Jobs, Steps
<1>2. pc'[h] = "idle" /\ job'[h] = NoJob => Claims(h)'
  BY <1>1 DEF Claims, JobClaims, RunClaims, BackClaims, DataClaims, MayGoBack, Moving, Before, Deleting
<1> QED
  BY <1>1, <1>2, StepKeeps DEF End

(* A rollback begins: the source is down and has what was written last.    *)
LEMMA RollbackKeeps ==
  ASSUME MigrationInv, NEW h \in Hosts, \A g \in Hosts \ {h} : pc[g] = "idle", job[h] \in Jobs,
         MayGoBack(h), NEW out, Rollback(h, out), job[h].to \in Others(h), ~job[h].expired,
         UNCHANGED <<down, tip, twice, over>>, WorldTypes', WorldInv',
         status'[h] # "Running", over \/ twice \/ HasNewest(h)',
         job[h].started \/ out = "cut" \/ status'[job[h].to] # "Running"
  PROVE  MigrationInv'
<1> DEFINE s == IF job[h].started THEN "undo" ELSE "restart"
           j == Later(job[h], out)
<1>1. j \in Jobs /\ j.to = job[h].to /\ j.started = job[h].started /\ j.expired = (out = "cut")
  BY JobTimes
<1>2. Goto(h, s, j) /\ late' = (late \/ out = "cut")
  BY DEF Rollback
<1> HIDE DEF j
<1>3. ASSUME pc'[h] = s, job'[h] = j
      PROVE  Claims(h)'
  BY <1>1, <1>2, <1>3 DEF Claims, JobClaims, RunClaims, BackClaims, DataClaims, MayGoBack, Before, Moving, Deleting, Others
<1> QED
  BY <1>1, <1>2, <1>3, StepKeeps DEF Steps

(* One volume's copy, whatever it leaves.                                  *)
LEMMA CopyVolumeKeeps ==
  ASSUME MigrationInv, TwoHostsInTurn, NEW h \in Hosts, CopyVolume(h)
  PROVE  MigrationInv'
<1> DEFINE t == job[h].to
<1>1. /\ pc[h] = "copy" /\ t \in Hosts /\ t # h /\ job[h] \in Jobs
      /\ (\A g \in Hosts : g = h \/ g = t) /\ \A g \in Hosts \ {h} : pc[g] = "idle"
  BY JobAlone DEF CopyVolume, MigrationInv, Claims, JobClaims, Moving, Before
<1>2. PICK v \in job[h].left, out \in {"ok", "failed", "cut"}, left \in Version \cup {None, Torn} :
           /\ left \in {vol[h][v], vol[t][v], Torn}
           /\ out = "ok" => left = vol[h][v]
           /\ vol' = [vol EXCEPT ![t][v] = left]
           /\ IF out = "ok"
              THEN Goto(h, "copy", [job[h] EXCEPT !.left = @ \ {v}, !.there = @ \cup {v}]) /\ UNCHANGED late
              ELSE CopyFails(h, out)
  BY DEF CopyVolume, Outcomes
<1>3. UNCHANGED <<status, mark, route, writes, requests, kills, deaths, tip, down, twice, over>>
  BY DEF CopyVolume, instVars, bounds
<1>4. v \in Volumes /\ vol' \in [Hosts -> [Volumes -> Version \cup {None, Torn}]]
  BY <1>1, <1>2 DEF MigrationInv, TypeOK, Jobs
<1>5. /\ \A w \in Volumes : vol'[h][w] = vol[h][w]
      /\ \A w \in Volumes \ {v} : vol'[t][w] = vol[t][w]
      /\ vol'[t][v] = left
  BY <1>1, <1>2, <1>4 DEF MigrationInv, TypeOK
<1>6. status[t] # "Running" /\ (over \/ twice \/ (HasNewest(h) /\ HasNewest(h)'))
  BY <1>1, <1>3, <1>5 DEF MigrationInv, Claims, RunClaims, DataClaims, Before, HasNewest
<1>7. WorldInv'
  <2>1. \A g \in Hosts, w \in Volumes : vol'[g][w] \in Version => vol'[g][w] <= tip[w]
    BY <1>1, <1>2, <1>4, <1>5, MigrationAssumption DEF MigrationInv, WorldInv, Version
  <2> QED
    BY <1>1, <1>3, <1>5, <1>6, <2>1 DEF MigrationInv, WorldInv, RunsOnce, NewestKept, HasNewest
<1>8. WorldTypes' /\ (late => late')
  BY <1>2, <1>3, <1>4 DEF MigrationInv, TypeOK, WorldTypes, CopyFails, Rollback
<1>9. CASE out = "ok"
  <2>1. PICK k : SameJob(job[h], k) /\ k.left = job[h].left \ {v} /\ k.warm = job[h].warm /\ Goto(h, "copy", k)
    BY <1>1, <1>2, <1>4, <1>9, JobCopies
  <2>2. ASSUME pc'[h] = "copy", job'[h] = k
        PROVE  Claims(h)'
    <3>1. JobClaims(h)' /\ RunClaims(h)' /\ BackClaims(h)'
      BY <1>1, <1>2, <1>3, <1>9, <2>1, <2>2
         DEF SameJob, MigrationInv, Claims, JobClaims, RunClaims, BackClaims, MayGoBack, Before, Moving, Deleting, Others
    <3>2. DataClaims(h)'
      BY <1>1, <1>2, <1>3, <1>4, <1>5, <1>6, <1>9, <2>1, <2>2
         DEF SameJob, MigrationInv, Claims, DataClaims, HasNewest, Before, Deleting
    <3> QED
      BY <3>1, <3>2 DEF Claims
  <2> QED
    BY <1>1, <1>3, <1>7, <1>8, <2>1, <2>2, StepKeeps DEF SameJob, Steps
<1>10. CASE out # "ok" /\ job[h].warm
  <2>1. End(h)
    BY <1>2, <1>10 DEF CopyFails
  <2>2. h \in down' => late'
    BY <1>1, <1>3, <1>8, <1>10 DEF MigrationInv, Claims, BackClaims, MayGoBack
  <2> QED
    BY <1>1, <1>3, <1>7, <1>8, <2>1, <2>2, EndKeeps
<1>11. CASE out # "ok" /\ ~job[h].warm
  <2>1. Rollback(h, out) /\ MayGoBack(h) /\ ~job[h].expired /\ t \in Others(h) /\ status[h] # "Running"
    BY <1>1, <1>2, <1>11 DEF CopyFails, MigrationInv, Claims, JobClaims, RunClaims, MayGoBack, Others
  <2> QED
    BY <1>1, <1>3, <1>6, <1>7, <1>8, <2>1, RollbackKeeps
<1> QED
  BY <1>9, <1>10, <1>11

LEMMA CopyInstanceKeeps ==
  ASSUME MigrationInv, TwoHostsInTurn, NEW h \in Hosts, CopyInstance(h)
  PROVE  MigrationInv'
<1> DEFINE t == job[h].to
<1>1. /\ pc[h] = "copy" /\ job[h].left = {} /\ t \in Hosts /\ t # h /\ job[h] \in Jobs
      /\ (\A g \in Hosts : g = h \/ g = t) /\ \A g \in Hosts \ {h} : pc[g] = "idle"
  BY JobAlone DEF CopyInstance, MigrationInv, Claims, JobClaims, Moving, Before
<1>2. PICK out \in {"ok", "failed", "cut"}, m \in {mark[h], mark[t]} :
           /\ IF out = "failed" THEN UNCHANGED instVars
              ELSE /\ status' = [status EXCEPT ![t] = "Stopped"]
                   /\ mark' = [mark EXCEPT ![t] = IF status[t] = "none" THEN mark[h] ELSE m]
           /\ IF out = "ok"
              THEN /\ Goto(h, IF job[h].warm THEN "stop" ELSE "start", [job[h] EXCEPT !.there = @ \cup {None}])
                   /\ UNCHANGED late
              ELSE CopyFails(h, out)
  BY DEF CopyInstance, Outcomes
<1>3. UNCHANGED <<route, vol, writes, requests, kills, deaths, tip, down, twice, over>>
  BY DEF CopyInstance, bounds
<1>4. /\ status[t] # "Running" /\ status'[t] # "Running" /\ status'[h] = status[h]
      /\ (over \/ twice \/ (HasNewest(h) /\ HasNewest(h)'))
  BY <1>1, <1>2, <1>3 DEF MigrationInv, TypeOK, Claims, RunClaims, DataClaims, Before, HasNewest, instVars
<1>5. WorldInv'
  BY <1>1, <1>3, <1>4 DEF MigrationInv, WorldInv, RunsOnce, NewestKept, HasNewest
<1>6. WorldTypes' /\ (late => late')
  <2>1. late' \in BOOLEAN /\ (late => late')
    BY <1>2 DEF MigrationInv, TypeOK, CopyFails, Rollback
  <2>2. status' \in [Hosts -> {"none", "Stopped", "Running"}] /\ mark' \in [Hosts -> Hosts \cup {None}]
    <3>1. mark[h] \in Hosts \cup {None} /\ m \in Hosts \cup {None}
      BY <1>1, <1>2 DEF MigrationInv, TypeOK
    <3>2. CASE out = "failed"
      BY <1>2, <3>2 DEF MigrationInv, TypeOK, instVars
    <3>3. CASE out # "failed"
      <4> DEFINE n == IF status[t] = "none" THEN mark[h] ELSE m
      <4>1. n \in Hosts \cup {None} /\ mark' = [mark EXCEPT ![t] = n]
        BY <1>2, <3>1, <3>3
      <4> HIDE DEF n
      <4> QED
        BY <1>1, <1>2, <3>3, <4>1 DEF MigrationInv, TypeOK
    <3> QED
      BY <3>2, <3>3
  <2> QED
    BY <1>3, <2>1, <2>2 DEF MigrationInv, TypeOK, WorldTypes
<1>7. CASE out = "ok"
  <2>1. PICK k : SameJob(job[h], k) /\ Goto(h, IF job[h].warm THEN "stop" ELSE "start", k)
    BY <1>1, <1>2, <1>7, JobCopied
  <2>2. ASSUME pc'[h] = (IF job[h].warm THEN "stop" ELSE "start"), job'[h] = k
        PROVE  Claims(h)'
    BY <1>1, <1>2, <1>3, <1>4, <1>7, <2>1, <2>2
       DEF SameJob, MigrationInv, Claims, JobClaims, RunClaims, BackClaims, DataClaims, HasNewest, MayGoBack,
           Before, Moving, Deleting, Others
  <2> QED
    BY <1>1, <1>3, <1>5, <1>6, <2>1, <2>2, StepKeeps DEF SameJob, Steps
<1>8. CASE out # "ok" /\ job[h].warm
  <2>1. End(h) /\ (h \in down' => late')
    BY <1>1, <1>2, <1>3, <1>6, <1>8 DEF CopyFails, MigrationInv, Claims, BackClaims, MayGoBack
  <2> QED
    BY <1>1, <1>3, <1>5, <1>6, <2>1, EndKeeps
<1>9. CASE out # "ok" /\ ~job[h].warm
  <2>1. Rollback(h, out) /\ MayGoBack(h) /\ ~job[h].expired /\ t \in Others(h) /\ status[h] # "Running"
    BY <1>1, <1>2, <1>9 DEF CopyFails, MigrationInv, Claims, JobClaims, RunClaims, MayGoBack, Others
  <2> QED
    BY <1>1, <1>3, <1>4, <1>5, <1>6, <2>1, RollbackKeeps
<1> QED
  BY <1>7, <1>8, <1>9

(* What Preflight lets through is not behind what the target holds.        *)
LEMMA PreflightKeeps ==
  ASSUME MigrationInv, TwoHostsInTurn, NEW h \in Hosts, Preflight(h)
  PROVE  MigrationInv'
<1> DEFINE t == job[h].to
           there == {v \in Volumes : vol[t][v] # None} \cup (IF status[t] = "none" THEN {} ELSE {None})
           was == status[h] = "Running"
           j == [job[h] EXCEPT !.was = was, !.there = there, !.left = Volumes, !.warm = was]
<1>1. /\ pc[h] = "preflight" /\ t \in Hosts /\ t # h /\ job[h] \in Jobs
      /\ (\A g \in Hosts : g = h \/ g = t) /\ \A g \in Hosts \ {h} : pc[g] = "idle"
  BY JobAlone DEF Preflight, MigrationInv, Claims, JobClaims, Moving, Before
<1>2. UNCHANGED <<status, mark, route, vol, writes, requests, kills, deaths, tip, down, late, twice>>
  BY DEF Preflight, instVars, bounds
<1>3. over => over'
  BY DEF Preflight
<1>4. over' \in BOOLEAN
  BY DEF Preflight, MigrationInv, TypeOK
<1>5. WorldInv' /\ WorldTypes' /\ (h \in down' => late')
  <2>1. WorldInv'
    BY <1>2, <1>3 DEF MigrationInv, WorldInv, RunsOnce, NewestKept, HasNewest
  <2>2. WorldTypes'
    BY <1>2, <1>4 DEF MigrationInv, TypeOK, WorldTypes
  <2>3. h \in down' => late'
    BY <1>1, <1>2 DEF MigrationInv, Claims, BackClaims, MayGoBack
  <2> QED
    BY <2>1, <2>2, <2>3
<1>6. CASE End(h)
  BY <1>1, <1>2, <1>5, <1>6, EndKeeps
<1>7. CASE /\ status[t] # "Running" /\ Goto(h, "snapshot", j)
           /\ over' = (over \/ \E v \in Volumes : Better(t, h, v))
  <2>1. PICK k : Goto(h, "snapshot", k) /\ SameJob(job[h], k) /\ k.left = Volumes
                  /\ (k.warm <=> status[h] = "Running")
    <3>1. there \in SUBSET (Volumes \cup {None})
      OBVIOUS
    <3> HIDE DEF there
    <3>2. CASE status[h] = "Running"
      <4>1. Goto(h, "snapshot", [job[h] EXCEPT !.was = TRUE, !.there = there, !.left = Volumes, !.warm = TRUE])
        BY <1>7, <3>2
      <4> QED
        BY <1>1, <3>1, <3>2, <4>1, JobReady
    <3>3. CASE status[h] # "Running"
      <4>1. Goto(h, "snapshot", [job[h] EXCEPT !.was = FALSE, !.there = there, !.left = Volumes, !.warm = FALSE])
        BY <1>7, <3>3
      <4> QED
        BY <1>1, <3>1, <3>3, <4>1, JobReady
    <3> QED
      BY <3>2, <3>3
  <2>2. ASSUME ~over', ~twice', NEW v \in Volumes
        PROVE  vol[h][v] = tip[v]
    <3>1. tip[v] \in Version /\ Version \subseteq Int
      BY MigrationAssumption DEF MigrationInv, TypeOK, Version
    <3>2. PICK g \in Hosts : vol[g][v] = tip[v]
      BY <1>2, <1>3, <2>2 DEF MigrationInv, WorldInv, NewestKept
    <3>3. ~Better(t, h, v)
      BY <1>7, <2>2
    <3> QED
      <4>1. CASE g = t
        <5>1. vol[h][v] \in Version /\ vol[h][v] >= tip[v]
          BY <3>1, <3>2, <3>3, <4>1 DEF Better
        <5> QED
          <6>1. vol[h][v] <= tip[v]
            BY <5>1 DEF MigrationInv, WorldInv
          <6>2. vol[h][v] \in Int /\ tip[v] \in Int
            BY <3>1, <5>1
          <6> QED
            BY <5>1, <6>1, <6>2
      <4> QED
        BY <1>1, <3>2, <4>1
  <2>3. ASSUME pc'[h] = "snapshot", job'[h] = k
        PROVE  Claims(h)'
    <3>1. JobClaims(h)' /\ BackClaims(h)'
      BY <1>1, <1>2, <1>5, <2>1, <2>3
         DEF SameJob, MigrationInv, Claims, JobClaims, BackClaims, MayGoBack, Before, Moving, Deleting, Others
    <3>2. RunClaims(h)' /\ DataClaims(h)'
      BY <1>1, <1>2, <1>7, <2>1, <2>2, <2>3
         DEF SameJob, RunClaims, DataClaims, HasNewest, MayGoBack, Before, Deleting
    <3> QED
      BY <3>1, <3>2 DEF Claims
  <2> QED
    BY <1>1, <1>2, <1>5, <1>7, <2>1, <2>3, StepKeeps DEF SameJob, Steps
<1> QED
  BY <1>6, <1>7 DEF Preflight

(* Steps after which the hosts are as they were, or another mark or route  *)
(* is all there is new: what they leave is what their next step claims.    *)
LEMMA HostsStay ==
  ASSUME MigrationInv, NEW h \in Hosts, pc[h] # "idle", \A g \in Hosts \ {h} : pc[g] = "idle",
         UNCHANGED <<status, vol, writes, requests, kills, deaths, tip, late, twice, over>>,
         mark' \in [Hosts -> Hosts \cup {None}], route' \in [Hosts -> BOOLEAN],
         down' \subseteq down \cup {h}
  PROVE  WorldInv' /\ WorldTypes' /\ (MayGoBack(h) \/ (h \in down => late))
<1>1. WorldInv'
  BY DEF MigrationInv, WorldInv, RunsOnce, NewestKept, HasNewest
<1>2. WorldTypes'
  BY DEF MigrationInv, TypeOK, WorldTypes
<1> QED
  BY <1>1, <1>2 DEF MigrationInv, Claims, BackClaims

LEMMA SnapshotKeeps ==
  ASSUME MigrationInv, TwoHostsInTurn, NEW h \in Hosts, Snapshot(h)
  PROVE  MigrationInv'
<1>1. pc[h] = "snapshot" /\ job[h] \in Jobs /\ \A g \in Hosts \ {h} : pc[g] = "idle"
  BY JobAlone DEF Snapshot
<1>2. UNCHANGED <<status, mark, route, vol, writes, requests, kills, deaths, tip, down, late, twice, over>>
  BY DEF Snapshot, OnlyJob, instVars, bounds, history
<1>3. WorldInv' /\ WorldTypes' /\ (h \in down => late)
  BY <1>1, <1>2, HostsStay DEF MayGoBack, MigrationInv, TypeOK
<1>4. CASE End(h)
  BY <1>1, <1>2, <1>3, <1>4, EndKeeps
<1>5. CASE Goto(h, "copy", job[h])
  <2>1. ASSUME pc'[h] = "copy", job'[h] = job[h]
        PROVE  Claims(h)'
    BY <1>1, <1>2, <1>3, <2>1
       DEF MigrationInv, Claims, JobClaims, RunClaims, BackClaims, DataClaims, HasNewest, MayGoBack, Before, Moving, Deleting, Others
  <2> QED
    BY <1>1, <1>2, <1>3, <1>5, <2>1, StepKeeps DEF Steps
<1> QED
  BY <1>4, <1>5 DEF Snapshot

LEMMA StopKeeps ==
  ASSUME MigrationInv, TwoHostsInTurn, NEW h \in Hosts, Stop(h)
  PROVE  MigrationInv'
<1> DEFINE t == job[h].to
<1>1. /\ pc[h] = "stop" /\ job[h] \in Jobs /\ \A g \in Hosts \ {h} : pc[g] = "idle"
      /\ t \in Hosts /\ t # h
  BY JobAlone DEF Stop, MigrationInv, Claims, JobClaims, Moving, Before
<1>2. PICK out : /\ status' = IF out = "failed" THEN status ELSE [status EXCEPT ![h] = "Stopped"]
                 /\ Goto(h, "verify", Later(job[h], out))
  BY DEF Stop
<1>3. UNCHANGED <<mark, route, vol, writes, requests, kills, deaths, tip, down, late, twice, over>>
  BY DEF Stop, bounds, history
<1>4. /\ status' \in [Hosts -> {"none", "Stopped", "Running"}]
      /\ \A g \in Hosts : status'[g] = status[g] \/ status'[g] # "Running"
  BY <1>2 DEF MigrationInv, TypeOK
<1>5. WorldInv' /\ WorldTypes'
  BY <1>3, <1>4 DEF MigrationInv, WorldInv, RunsOnce, NewestKept, HasNewest, TypeOK, WorldTypes
<1>6. ASSUME pc'[h] = "verify", job'[h] = Later(job[h], out)
      PROVE  Claims(h)'
  <2>1. job'[h].to = t /\ ~job'[h].started
    BY <1>1, <1>6, JobTimes DEF MigrationInv, Claims, JobClaims
  <2> QED
    BY <1>1, <1>3, <1>4, <1>6, <2>1
       DEF MigrationInv, Claims, JobClaims, RunClaims, BackClaims, DataClaims, HasNewest, MayGoBack, Before, Moving, Deleting, Others
<1> QED
  BY <1>1, <1>2, <1>3, <1>5, <1>6, JobTimes, StepKeeps DEF Steps

(* From the verified stop on the migration may go back on its source.      *)
LEMMA VerifyKeeps ==
  ASSUME MigrationInv, TwoHostsInTurn, NEW h \in Hosts, Verify(h)
  PROVE  MigrationInv'
<1> DEFINE j == [job[h] EXCEPT !.left = Volumes, !.warm = FALSE]
<1>1. pc[h] = "verify" /\ job[h] \in Jobs /\ \A g \in Hosts \ {h} : pc[g] = "idle"
  BY JobAlone DEF Verify
<1>2. UNCHANGED <<status, mark, route, vol, writes, requests, kills, deaths, tip, late, twice, over>>
  BY DEF Verify, instVars, bounds
<1>3. down' = down \/ down' = down \cup {h}
  BY DEF Verify
<1>4. WorldInv' /\ WorldTypes' /\ (h \in down => late)
  BY <1>1, <1>2, <1>3, HostsStay DEF MayGoBack, MigrationInv, TypeOK
<1>5. CASE End(h) /\ UNCHANGED down
  BY <1>1, <1>2, <1>4, <1>5, EndKeeps
<1>6. CASE ~job[h].expired /\ status[h] = "Stopped" /\ Goto(h, "copy", j)
  <2>1. SameJob(job[h], j) /\ j.left = Volumes /\ ~j.warm
    BY <1>1, JobAgain
  <2> HIDE DEF j
  <2>2. ASSUME pc'[h] = "copy", job'[h] = j
        PROVE  Claims(h)'
    BY <1>1, <1>2, <1>4, <1>6, <2>1, <2>2
       DEF SameJob, MigrationInv, Claims, JobClaims, RunClaims, BackClaims, DataClaims, HasNewest, MayGoBack,
           Before, Moving, Deleting, Others
  <2> QED
    BY <1>1, <1>2, <1>3, <1>4, <1>6, <2>1, <2>2, StepKeeps DEF SameJob, Steps
<1> QED
  BY <1>5, <1>6 DEF Verify

(* The source is down, so the target is the one that runs.                 *)
LEMMA StartTargetKeeps ==
  ASSUME MigrationInv, TwoHostsInTurn, NEW h \in Hosts, StartTarget(h)
  PROVE  MigrationInv'
<1> DEFINE t == job[h].to
           j == [job[h] EXCEPT !.started = TRUE]
<1>1. /\ pc[h] = "start" /\ t \in Hosts /\ t # h /\ job[h] \in Jobs
      /\ (\A g \in Hosts : g = h \/ g = t) /\ \A g \in Hosts \ {h} : pc[g] = "idle"
  BY JobAlone DEF StartTarget, MigrationInv, Claims, JobClaims, Moving, Before
<1>2. PICK out : /\ status' = IF out = "failed" THEN status ELSE [status EXCEPT ![t] = "Running"]
                 /\ out \in {"ok", "failed", "cut"}
                 /\ IF out = "ok" THEN Goto(h, "health", j) /\ UNCHANGED late
                    ELSE Rollback(h, out)
  BY DEF StartTarget, Outcomes
<1>3. UNCHANGED <<mark, route, vol, writes, requests, kills, deaths, tip, down, twice, over>>
  BY DEF StartTarget, bounds
<1>4. /\ status[h] # "Running" /\ status[t] # "Running"
      /\ over \/ twice \/ (HasNewest(h) /\ HasNewest(t) /\ HasNewest(h)')
  <2>1. status[h] # "Running" /\ status[t] # "Running"
    BY <1>1 DEF MigrationInv, Claims, RunClaims, Before, MayGoBack
  <2>2. over \/ twice \/ (HasNewest(h) /\ HasNewest(t))
    BY <1>1 DEF MigrationInv, Claims, DataClaims, Before
  <2> QED
    BY <1>3, <2>1, <2>2 DEF HasNewest
<1>5. status' \in [Hosts -> {"none", "Stopped", "Running"}] /\ status'[h] = status[h]
  BY <1>1, <1>2 DEF MigrationInv, TypeOK
<1>6. WorldTypes' /\ (late => late')
  BY <1>2, <1>3, <1>5 DEF MigrationInv, TypeOK, WorldTypes, Rollback
<1>7. WorldInv'
  BY <1>1, <1>3, <1>4, <1>5 DEF MigrationInv, WorldInv, RunsOnce, NewestKept, HasNewest
<1>8. CASE out = "ok"
  <2>1. j \in Jobs /\ j.started /\ j.to = t /\ j.expired = job[h].expired
    BY <1>1, JobStarted
  <2> HIDE DEF j
  <2>2. ASSUME pc'[h] = "health", job'[h] = j
        PROVE  Claims(h)'
    BY <1>1, <1>2, <1>3, <1>4, <1>5, <1>8, <2>1, <2>2
       DEF MigrationInv, Claims, JobClaims, RunClaims, BackClaims, DataClaims, MayGoBack, Before, Moving, Deleting, Others
  <2> QED
    BY <1>1, <1>2, <1>3, <1>6, <1>7, <1>8, <2>1, <2>2, StepKeeps DEF Steps
<1>9. CASE out # "ok"
  <2>1. MayGoBack(h) /\ ~job[h].expired /\ t \in Others(h) /\ (out = "cut" \/ status'[t] # "Running")
    BY <1>1, <1>2, <1>4, <1>9 DEF MigrationInv, Claims, JobClaims, MayGoBack, Others
  <2> QED
    BY <1>1, <1>2, <1>3, <1>4, <1>5, <1>6, <1>7, <1>9, <2>1, RollbackKeeps
<1> QED
  BY <1>8, <1>9

(* Healthy, the target is let run and the source need not come back.       *)
LEMMA HealthKeeps ==
  ASSUME MigrationInv, TwoHostsInTurn, NEW h \in Hosts, Health(h)
  PROVE  MigrationInv'
<1> DEFINE t == job[h].to
<1>1. /\ pc[h] = "health" /\ t \in Others(h) /\ job[h] \in Jobs /\ job[h].started /\ ~job[h].expired
      /\ MayGoBack(h) /\ \A g \in Hosts \ {h} : pc[g] = "idle"
  BY JobAlone DEF Health, MigrationInv, Claims, JobClaims, MayGoBack, Moving, Before
<1>2. PICK out : IF out = "ok" THEN Goto(h, "mark", job[h]) /\ down' = down \ {h} /\ UNCHANGED late
                 ELSE Rollback(h, out) /\ UNCHANGED down
  BY DEF Health
<1>3. UNCHANGED <<status, mark, route, vol, writes, requests, kills, deaths, tip, twice, over>>
  BY DEF Health, instVars, bounds
<1>4. /\ status[h] # "Running" /\ (over \/ twice \/ HasNewest(h)')
      /\ late' \in BOOLEAN /\ (late => late') /\ down' \subseteq down
  BY <1>1, <1>2, <1>3 DEF MigrationInv, TypeOK, Claims, RunClaims, DataClaims, HasNewest, Before, MayGoBack, Rollback
<1>5. WorldInv' /\ WorldTypes'
  BY <1>3, <1>4 DEF MigrationInv, WorldInv, RunsOnce, NewestKept, HasNewest, TypeOK, WorldTypes
<1>6. CASE out = "ok"
  <2>1. ASSUME pc'[h] = "mark", job'[h] = job[h]
        PROVE  Claims(h)'
    BY <1>1, <1>2, <1>6, <2>1
       DEF Claims, JobClaims, RunClaims, BackClaims, DataClaims, MayGoBack, Before, Moving, Deleting, Others
  <2> QED
    BY <1>1, <1>2, <1>4, <1>5, <1>6, <2>1, StepKeeps DEF Steps
<1>7. CASE out # "ok"
  BY <1>1, <1>2, <1>3, <1>4, <1>5, <1>7, RollbackKeeps
<1> QED
  BY <1>6, <1>7

(* The target stopped, the source may run again: in time, or said to have  *)
(* failed.                                                                 *)
LEMMA UndoKeeps ==
  ASSUME MigrationInv, TwoHostsInTurn, NEW h \in Hosts, Undo(h)
  PROVE  MigrationInv'
<1> DEFINE t == job[h].to
<1>1. /\ pc[h] = "undo" /\ t \in Hosts /\ t # h /\ job[h] \in Jobs /\ job[h].started
      /\ \A g \in Hosts \ {h} : pc[g] = "idle"
  BY JobAlone DEF Undo, MigrationInv, Claims, JobClaims, Moving, Before
<1>2. PICK out \in {"ok", "failed", "cut"} :
           /\ status' = IF out = "failed" \/ status[t] = "none" THEN status ELSE [status EXCEPT ![t] = "Stopped"]
           /\ twice' = (twice \/ (out = "failed" /\ ~job[h].expired))
           /\ late' = (late \/ out = "cut")
           /\ Goto(h, "restart", Later(job[h], out))
  BY DEF Undo, Outcomes
<1>3. UNCHANGED <<mark, route, vol, writes, requests, kills, deaths, tip, down, over>>
  BY DEF Undo, bounds
<1>4. /\ status' \in [Hosts -> {"none", "Stopped", "Running"}]
      /\ \A g \in Hosts : status'[g] = status[g] \/ status'[g] # "Running"
      /\ out = "failed" \/ status'[t] # "Running"
  BY <1>1, <1>2 DEF MigrationInv, TypeOK
<1>5. WorldInv'
  <2>1. twice => twice'
    BY <1>2
  <2> QED
    BY <1>3, <1>4, <2>1 DEF MigrationInv, WorldInv, RunsOnce, NewestKept, HasNewest
<1>6. WorldTypes'
  BY <1>2, <1>3, <1>4 DEF MigrationInv, TypeOK, WorldTypes
<1>7. ASSUME pc'[h] = "restart", job'[h] = Later(job[h], out)
      PROVE  Claims(h)'
  <2>1. job'[h].to = t /\ job'[h].started /\ job'[h].expired = (job[h].expired \/ out = "cut")
    BY <1>1, <1>7, JobTimes
  <2>2. JobClaims(h)' /\ BackClaims(h)'
    BY <1>1, <1>2, <1>3, <1>7, <2>1
       DEF MigrationInv, Claims, JobClaims, BackClaims, MayGoBack, Others
  <2>3. RunClaims(h)'
    BY <1>1, <1>2, <1>4, <1>7, <2>1 DEF MigrationInv, Claims, RunClaims, MayGoBack, Before, Deleting
  <2>4. DataClaims(h)'
    BY <1>1, <1>2, <1>3, <1>7 DEF MigrationInv, Claims, DataClaims, HasNewest, Before, Deleting
  <2> QED
    BY <2>2, <2>3, <2>4 DEF Claims
<1> QED
  BY <1>1, <1>2, <1>3, <1>5, <1>6, <1>7, JobTimes, StepKeeps DEF Steps

(* The source runs again, alone and with what was written last.            *)
LEMMA RestartKeeps ==
  ASSUME MigrationInv, TwoHostsInTurn, NEW h \in Hosts, Restart(h)
  PROVE  MigrationInv'
<1> DEFINE t == job[h].to
<1>1. /\ pc[h] = "restart" /\ t \in Hosts /\ t # h /\ job[h] \in Jobs
      /\ (\A g \in Hosts : g = h \/ g = t) /\ \A g \in Hosts \ {h} : pc[g] = "idle"
  BY JobAlone DEF Restart, MigrationInv, Claims, JobClaims, Moving, Before
<1>2. PICK out \in Outcomes(h) :
       /\ status' = IF out = "failed" THEN status ELSE [status EXCEPT ![h] = "Running"]
       /\ down' = IF job[h].expired THEN down ELSE down \ {h}
  BY DEF Restart
<1>3. UNCHANGED <<mark, route, vol, writes, requests, kills, deaths, tip, late, twice, over>> /\ End(h)
  BY DEF Restart, bounds
<1>4. job[h].expired => out = "failed" /\ late
  BY <1>1, <1>2 DEF Outcomes, MigrationInv, Claims, BackClaims
<1>5. status' \in [Hosts -> {"none", "Stopped", "Running"}] /\ down' \subseteq down /\ (h \in down' => late')
  BY <1>2, <1>3, <1>4 DEF MigrationInv, TypeOK
<1>6. WorldTypes'
  BY <1>3, <1>5 DEF MigrationInv, TypeOK, WorldTypes
<1>7. CASE out = "failed"
  <2>1. WorldInv'
    BY <1>2, <1>3, <1>7 DEF MigrationInv, WorldInv, RunsOnce, NewestKept, HasNewest
  <2> QED
    BY <1>1, <1>3, <1>5, <1>6, <2>1, EndKeeps
<1>8. CASE out # "failed"
  <2>1. twice \/ status[t] # "Running"
    BY <1>1, <1>4, <1>8 DEF MigrationInv, Claims, RunClaims
  <2>2. over \/ twice \/ HasNewest(h)
    BY <1>1, <1>4, <1>8 DEF MigrationInv, Claims, DataClaims
  <2>3. status'[h] = "Running" /\ status'[t] = status[t]
    BY <1>1, <1>2, <1>8 DEF MigrationInv, TypeOK
  <2>4. WorldInv'
    BY <1>1, <1>3, <2>1, <2>2, <2>3 DEF MigrationInv, WorldInv, RunsOnce, NewestKept, HasNewest
  <2> QED
    BY <1>1, <1>3, <1>5, <1>6, <2>4, EndKeeps
<1> QED
  BY <1>7, <1>8

(* The steps after it, and Adopt's, change a mark or a route.              *)
LEMMA MarksAndRoutesKeep ==
  ASSUME MigrationInv, TwoHostsInTurn, NEW h \in Hosts,
         Mark(h) \/ Unroute(h) \/ Clear(h) \/ Adopt(h) \/ Unmark(h) \/ Publish(h)
  PROVE  MigrationInv'
<1>1. /\ pc[h] \in {"mark", "unroute", "clear", "adopt", "unmark", "publish"}
      /\ job[h] \in Jobs /\ \A g \in Hosts \ {h} : pc[g] = "idle"
  BY JobAlone DEF Mark, Unroute, Clear, Adopt, Unmark, Publish
<1>2. UNCHANGED <<status, vol, writes, requests, kills, deaths, tip, down, late, twice, over>>
  BY DEF Mark, Unroute, Clear, Adopt, Unmark, Publish, OnlyJob, instVars, bounds, history
<1>3. mark' = mark \/ \E m \in Hosts \cup {None} : mark' = [mark EXCEPT ![h] = m]
  BY <1>1 DEF Mark, Unroute, Clear, Adopt, Unmark, Publish, OnlyJob, instVars, Jobs
<1>4. route' = route \/ \E b \in BOOLEAN : route' = [route EXCEPT ![h] = b]
  BY DEF Mark, Unroute, Clear, Adopt, Unmark, Publish, OnlyJob, instVars
<1>5. mark' \in [Hosts -> Hosts \cup {None}] /\ route' \in [Hosts -> BOOLEAN]
  <2>1. mark \in [Hosts -> Hosts \cup {None}] /\ route \in [Hosts -> BOOLEAN]
    BY DEF MigrationInv, TypeOK
  <2>2. mark' \in [Hosts -> Hosts \cup {None}]
    BY ONLY <1>3, <2>1
  <2>3. route' \in [Hosts -> BOOLEAN]
    BY ONLY <1>4, <2>1
  <2> QED
    BY ONLY <2>2, <2>3
<1>6. WorldInv' /\ WorldTypes' /\ (h \in down' => late')
  BY <1>1, <1>2, <1>5, HostsStay DEF MayGoBack
<1>7. CASE End(h)
  BY <1>1, <1>2, <1>6, <1>7, EndKeeps
<1>8. ASSUME NEW s \in {"unroute", "check", "unmark", "publish"}, Goto(h, s, job[h]),
             s = "unroute" => pc[h] = "mark", s = "check" => pc[h] = "clear",
             s \in {"unmark", "publish"} => pc[h] \in {"adopt", "unmark"}
      PROVE  MigrationInv'
  <2>1. ASSUME pc'[h] = s, job'[h] = job[h]
        PROVE  Claims(h)'
    BY <1>1, <1>2, <1>6, <1>8, <2>1
       DEF MigrationInv, Claims, JobClaims, RunClaims, BackClaims, DataClaims, MayGoBack, Before, Moving, Deleting, Others
  <2> QED
    BY <1>1, <1>2, <1>6, <1>8, <2>1, StepKeeps DEF Steps
<1> QED
  BY <1>7, <1>8 DEF Mark, Unroute, Clear, Adopt, Unmark, Publish

(* What is finalized runs on the target, with what was written last.       *)
LEMMA CheckKeeps ==
  ASSUME MigrationInv, TwoHostsInTurn, NEW h \in Hosts, Check(h)
  PROVE  MigrationInv'
<1> DEFINE t == job[h].to
<1>1. /\ pc[h] = "check" /\ t \in Others(h) /\ job[h] \in Jobs /\ \A g \in Hosts \ {h} : pc[g] = "idle"
  BY JobAlone DEF Check, MigrationInv, Claims, JobClaims
<1>2. UNCHANGED <<status, mark, route, vol, writes, requests, kills, deaths, tip, down, late, twice, over>>
  BY DEF Check, OnlyJob, instVars, bounds, history
<1>3. WorldInv' /\ WorldTypes' /\ (h \in down' => late')
  BY <1>1, <1>2, HostsStay DEF MayGoBack, MigrationInv, TypeOK
<1>4. CASE End(h)
  BY <1>1, <1>2, <1>3, <1>4, EndKeeps
<1>5. CASE status[h] = "Stopped" /\ status[t] = "Running" /\ Goto(h, "delete", job[h])
  <2>1. over \/ twice \/ HasNewest(t)
    BY <1>1, <1>5 DEF MigrationInv, WorldInv, Others
  <2>2. ASSUME pc'[h] = "delete", job'[h] = job[h]
        PROVE  Claims(h)'
    BY <1>1, <1>2, <1>3, <1>5, <2>1, <2>2
       DEF MigrationInv, Claims, JobClaims, RunClaims, BackClaims, DataClaims, HasNewest, MayGoBack, Before, Moving, Deleting, Others
  <2> QED
    BY <1>1, <1>2, <1>3, <1>5, <2>2, StepKeeps DEF Steps
<1> QED
  BY <1>4, <1>5 DEF Check

LEMMA DeleteKeeps ==
  ASSUME MigrationInv, TwoHostsInTurn, NEW h \in Hosts, Delete(h)
  PROVE  MigrationInv'
<1> DEFINE t == job[h].to
           j == [job[h] EXCEPT !.left = Volumes]
<1>1. /\ pc[h] = "delete" /\ t \in Others(h) /\ job[h] \in Jobs /\ \A g \in Hosts \ {h} : pc[g] = "idle"
  BY JobAlone DEF Delete, MigrationInv, Claims, JobClaims, Deleting
<1>2. PICK out : /\ status' = IF out = "failed" THEN status ELSE [status EXCEPT ![h] = "none"]
                 /\ mark' = IF out = "failed" THEN mark ELSE [mark EXCEPT ![h] = None]
                 /\ Goto(h, "purge", j) \/ End(h)
  BY DEF Delete
<1>3. UNCHANGED <<route, vol, writes, requests, kills, deaths, tip, down, late, twice, over>>
  BY DEF Delete, bounds, history
<1>4. /\ status' \in [Hosts -> {"none", "Stopped", "Running"}] /\ mark' \in [Hosts -> Hosts \cup {None}]
      /\ \A g \in Hosts : status'[g] = status[g] \/ status'[g] # "Running"
  BY <1>2 DEF MigrationInv, TypeOK
<1>5. WorldInv' /\ WorldTypes' /\ (h \in down' => late')
  <2>1. WorldInv'
    BY <1>3, <1>4 DEF MigrationInv, WorldInv, RunsOnce, NewestKept, HasNewest
  <2>2. WorldTypes' /\ (h \in down' => late')
    BY <1>1, <1>3, <1>4 DEF MigrationInv, TypeOK, WorldTypes, Claims, BackClaims, MayGoBack
  <2> QED
    BY <2>1, <2>2
<1>6. CASE End(h)
  BY <1>1, <1>3, <1>5, <1>6, EndKeeps
<1>7. CASE Goto(h, "purge", j)
  <2>1. SameJob(job[h], j)
    BY <1>1, JobPurges
  <2> HIDE DEF j
  <2>2. ASSUME pc'[h] = "purge", job'[h] = j
        PROVE  Claims(h)'
    BY <1>1, <1>3, <1>4, <1>5, <2>1, <2>2
       DEF SameJob, MigrationInv, Claims, JobClaims, RunClaims, BackClaims, DataClaims, HasNewest, MayGoBack,
           Before, Moving, Deleting, Others
  <2> QED
    BY <1>1, <1>3, <1>5, <1>7, <2>1, <2>2, StepKeeps DEF SameJob, Steps
<1> QED
  BY <1>2, <1>6, <1>7

LEMMA PurgeKeeps ==
  ASSUME MigrationInv, TwoHostsInTurn, NEW h \in Hosts, Purge(h)
  PROVE  MigrationInv'
<1> DEFINE t == job[h].to
<1>1. /\ pc[h] = "purge" /\ t \in Hosts /\ t # h /\ t \in Others(h) /\ job[h] \in Jobs /\ status[h] # "Running"
      /\ \A g \in Hosts \ {h} : pc[g] = "idle"
  BY JobAlone DEF Purge, MigrationInv, Claims, JobClaims, RunClaims, Deleting
<1>2. UNCHANGED <<status, mark, route, writes, requests, kills, deaths, tip, down, late, twice, over>>
  BY DEF Purge, instVars, bounds, history
<1>3. /\ vol' = vol \/ \E v \in Volumes : vol' = [vol EXCEPT ![h][v] = None]
      /\ End(h) \/ \E v \in Volumes : Goto(h, "purge", [job[h] EXCEPT !.left = @ \ {v}])
  BY <1>1 DEF Purge, Jobs
<1>4. /\ vol' \in [Hosts -> [Volumes -> Version \cup {None, Torn}]]
      /\ \A g \in Hosts, v \in Volumes : vol'[g][v] = vol[g][v] \/ (g = h /\ vol'[g][v] = None)
  BY <1>3, SMTT(30) DEF MigrationInv, TypeOK
<1>5. over \/ twice \/ (HasNewest(t) /\ \A v \in Volumes : vol'[t][v] = tip[v])
  BY <1>1, <1>4 DEF MigrationInv, Claims, DataClaims, HasNewest, Deleting
<1>6. WorldInv'
  <2>1. None \notin Version
    BY MigrationAssumption DEF Version
  <2> QED
    BY <1>1, <1>2, <1>4, <1>5, <2>1 DEF MigrationInv, WorldInv, RunsOnce, NewestKept, HasNewest
<1>7. WorldTypes' /\ (h \in down' => late')
  BY <1>1, <1>2, <1>4 DEF MigrationInv, TypeOK, WorldTypes, Claims, BackClaims, MayGoBack
<1>8. CASE End(h)
  BY <1>1, <1>2, <1>6, <1>7, <1>8, EndKeeps
<1>9. ASSUME NEW v \in Volumes, Goto(h, "purge", [job[h] EXCEPT !.left = @ \ {v}])
      PROVE  MigrationInv'
  <2>1. job[h].left \ {v} \in SUBSET Volumes
    BY <1>1 DEF Jobs
  <2>2. PICK j : SameJob(job[h], j) /\ Goto(h, "purge", j)
    BY <1>1, <1>9, <2>1, JobPurges
  <2>3. ASSUME pc'[h] = "purge", job'[h] = j
        PROVE  Claims(h)'
    BY <1>1, <1>2, <1>5, <1>7, <2>2, <2>3
       DEF SameJob, MigrationInv, Claims, JobClaims, RunClaims, BackClaims, DataClaims, HasNewest, MayGoBack,
           Before, Moving, Deleting, Others
  <2> QED
    BY <1>1, <1>2, <1>6, <1>7, <2>2, <2>3, StepKeeps DEF SameJob, Steps
<1> QED
  BY <1>3, <1>8, <1>9

(* A request finds every daemon idle.                                      *)
LEMMA AskKeeps ==
  ASSUME MigrationInv, TwoHostsInTurn, NEW h \in Hosts,
         AskAdopt(h) \/ \E t \in Others(h), b \in BOOLEAN : AskMigrate(h, t, b) \/ AskFinalize(h, t, b)
  PROVE  MigrationInv'
<1>1. PICK s \in {"preflight", "clear", "adopt"}, j \in Jobs :
           /\ Ask(h, s, j) /\ ~j.started /\ ~j.expired /\ (s # "adopt" => j.to \in Others(h))
  <2>1. CASE AskAdopt(h)
    BY <2>1, JobAsked DEF AskAdopt
  <2>2. ASSUME NEW t \in Others(h), NEW b \in BOOLEAN, AskMigrate(h, t, b)
        PROVE  Ask(h, "preflight", [NoJob EXCEPT !.to = t, !.resume = b])
    BY <2>2 DEF AskMigrate
  <2>3. ASSUME NEW t \in Others(h), NEW b \in BOOLEAN, AskFinalize(h, t, b)
        PROVE  Ask(h, "clear", [NoJob EXCEPT !.to = t, !.purge = b])
    BY <2>3 DEF AskFinalize
  <2>4. ASSUME NEW t \in Others(h), NEW b \in BOOLEAN, AskMigrate(h, t, b) \/ AskFinalize(h, t, b)
        PROVE  \E s \in {"preflight", "clear", "adopt"}, j \in Jobs :
                 Ask(h, s, j) /\ ~j.started /\ ~j.expired /\ (s # "adopt" => j.to \in Others(h))
    <3>0. t \in Hosts
      BY DEF Others
    <3>1. CASE AskMigrate(h, t, b)
      <4>1. PICK j \in Jobs : Ask(h, "preflight", j) /\ j.to = t /\ ~j.started /\ ~j.expired
        BY <2>2, <3>0, <3>1, JobAsked, ZenonT(60)
      <4> QED
        BY <4>1, SMTT(30)
    <3>2. CASE AskFinalize(h, t, b)
      <4>1. PICK j \in Jobs : Ask(h, "clear", j) /\ j.to = t /\ ~j.started /\ ~j.expired
        BY <2>3, <3>0, <3>2, JobAsked, ZenonT(60)
      <4> QED
        BY <4>1
    <3> QED
      BY <2>4, <3>1, <3>2
  <2> QED
    BY <2>1, <2>4, SMTT(30)
<1>2. /\ \A g \in Hosts : pc[g] = "idle"
      /\ Goto(h, s, j)
      /\ UNCHANGED <<status, mark, route, vol, writes, kills, deaths, tip, down, late, twice, over>>
      /\ requests' = requests + 1
  BY <1>1 DEF Ask, Free, TwoHostsInTurn, instVars, history
<1>3. WorldInv'
  BY <1>2 DEF MigrationInv, WorldInv, RunsOnce, NewestKept, HasNewest
<1>4. WorldTypes' /\ (h \in down' => late')
  BY <1>2 DEF MigrationInv, TypeOK, WorldTypes, Claims, BackClaims, MayGoBack
<1>5. ASSUME pc'[h] = s, job'[h] = j
      PROVE  Claims(h)'
  BY <1>1, <1>4, <1>5
     DEF Claims, JobClaims, RunClaims, BackClaims, DataClaims, MayGoBack, Before, Moving, Deleting, Others
<1> QED
  BY <1>2, <1>3, <1>4, <1>5, StepKeeps DEF Steps

(* An instance that stops by itself, and a daemon that is killed, take     *)
(* nothing from what the job has claimed.                                  *)
LEMMA DeathsKeep ==
  ASSUME MigrationInv, TwoHostsInTurn, NEW h \in Hosts, Die(h) \/ Kill(h)
  PROVE  MigrationInv'
<1>1. CASE Kill(h)
  <2>1. /\ pc[h] # "idle" /\ \A g \in Hosts \ {h} : pc[g] = "idle"
        /\ End(h) /\ down' = down \ {h} /\ kills' = kills + 1
        /\ UNCHANGED <<status, mark, route, vol, writes, requests, deaths, tip, late, twice, over>>
    BY <1>1, JobAlone DEF Kill, instVars
  <2>2. WorldInv' /\ WorldTypes'
    BY <2>1 DEF MigrationInv, WorldInv, RunsOnce, NewestKept, HasNewest, TypeOK, WorldTypes
  <2> QED
    BY <2>1, <2>2, EndKeeps
<1>2. CASE Die(h)
  <2>1. UNCHANGED <<mark, route, vol, pc, job, writes, requests, kills, tip, down, late, twice, over>> /\ deaths' = deaths + 1
    BY <1>2 DEF Die, history
  <2>2. /\ status' \in [Hosts -> {"none", "Stopped", "Running"}]
        /\ \A g \in Hosts : status'[g] = status[g] \/ status'[g] # "Running"
    BY <1>2 DEF Die, MigrationInv, TypeOK
  <2>3. TypeOK' /\ OneJob'
    BY <2>1, <2>2 DEF MigrationInv, TypeOK, OneJob
  <2>4. WorldInv'
    BY <2>1, <2>2 DEF MigrationInv, WorldInv, RunsOnce, NewestKept, HasNewest
  <2>5. ASSUME NEW g \in Hosts
        PROVE  Claims(g)'
    <3>1. job[g].to \in Hosts \/ pc[g] \notin Before \cup {"restart"}
      BY DEF MigrationInv, Claims, JobClaims, Moving, Before, Others
    <3> QED
      BY <2>1, <2>2, <3>1 DEF MigrationInv, Claims, JobClaims, RunClaims, BackClaims, DataClaims, HasNewest, MayGoBack
  <2> QED
    BY <2>3, <2>4, <2>5 DEF MigrationInv
<1> QED
  BY <1>1, <1>2

(* Whoever writes is the one that runs, and is nobody's target on trial.   *)
LEMMA WriteKeeps ==
  ASSUME MigrationInv, TwoHostsInTurn, NEW h \in Hosts, NEW v \in Volumes, Write(h, v)
  PROVE  MigrationInv'
<1>1. /\ status[h] = "Running" /\ ~OnTrial(h) /\ writes' = writes + 1 /\ writes < MaxWrites
      /\ vol' = [vol EXCEPT ![h][v] = writes + 1] /\ tip' = [tip EXCEPT ![v] = writes + 1]
      /\ UNCHANGED <<status, mark, route, pc, job, requests, kills, deaths, down, late, twice, over>>
  BY DEF Write, instVars
<1>2. writes \in Nat /\ writes + 1 \in Version /\ Version \subseteq Int
  BY <1>1, MigrationAssumption DEF MigrationInv, TypeOK, Version
<1>3. /\ vol' \in [Hosts -> [Volumes -> Version \cup {None, Torn}]] /\ tip' \in [Volumes -> Version]
      /\ \A g \in Hosts, w \in Volumes : vol'[g][w] = IF g = h /\ w = v THEN writes + 1 ELSE vol[g][w]
      /\ \A w \in Volumes : tip'[w] = IF w = v THEN writes + 1 ELSE tip[w]
  BY <1>1, <1>2 DEF MigrationInv, TypeOK
<1>4. TypeOK' /\ OneJob'
  BY <1>1, <1>2, <1>3 DEF MigrationInv, TypeOK, OneJob
<1>5. twice \/ \A g \in Hosts : status[g] = "Running" => g = h
  BY <1>1 DEF MigrationInv, WorldInv, RunsOnce
<1>6. over \/ twice \/ (HasNewest(h) /\ HasNewest(h)')
  BY <1>1, <1>3 DEF MigrationInv, WorldInv, HasNewest
<1>7. WorldInv'
  <2>1. \A w \in Volumes : tip'[w] <= writes'
    <3>1. \A w \in Volumes : tip[w] \in Int /\ tip[w] <= writes
      BY <1>2 DEF MigrationInv, WorldInv, TypeOK
    <3> QED
      BY <1>1, <1>2, <1>3, <3>1
  <2>2. \A g \in Hosts, w \in Volumes : vol'[g][w] \in Version => vol'[g][w] <= tip'[w]
    <3>1. ASSUME NEW g \in Hosts, NEW w \in Volumes, vol'[g][w] \in Version
          PROVE  vol'[g][w] <= tip'[w]
      <4>1. tip[w] \in Int /\ tip[w] <= writes /\ (vol[g][w] \in Version => vol[g][w] <= tip[w])
        BY <1>2 DEF MigrationInv, WorldInv, TypeOK
      <4>2. CASE g = h /\ w = v
        BY <1>2, <1>3, <4>2
      <4>3. CASE ~(g = h /\ w = v)
        <5>1. vol'[g][w] = vol[g][w] /\ vol[g][w] \in Int
          BY <1>2, <1>3, <3>1, <4>3
        <5>2. tip'[w] = tip[w] \/ tip'[w] = writes + 1
          BY <1>3
        <5> QED
          BY <1>2, <3>1, <4>1, <5>1, <5>2
      <4> QED
        BY <4>2, <4>3
    <3> QED
      BY <3>1
  <2>3. RunsOnce'
    BY <1>1 DEF MigrationInv, WorldInv, RunsOnce
  <2>4. NewestKept' /\ (over' \/ twice' \/ \A g \in Hosts : status'[g] = "Running" => HasNewest(g)')
    BY <1>1, <1>5, <1>6 DEF NewestKept, HasNewest
  <2> QED
    BY <2>1, <2>2, <2>3, <2>4 DEF WorldInv
<1>8. ASSUME NEW g \in Hosts
      PROVE  Claims(g)'
  <2>1. JobClaims(g)' /\ RunClaims(g)' /\ BackClaims(g)'
    BY <1>1 DEF MigrationInv, Claims, JobClaims, RunClaims, BackClaims, MayGoBack
  <2>2. CASE g = h
    <3>1. ~MayGoBack(g) /\ pc[g] \notin Deleting
      BY <1>1, <2>2 DEF MigrationInv, Claims, RunClaims
    <3>2. over \/ twice \/ HasNewest(g)'
      BY <1>6, <2>2 DEF HasNewest
    <3> QED
      BY <1>1, <2>1, <3>1, <3>2 DEF Claims, DataClaims, MayGoBack
  <2>3. CASE g # h /\ pc[g] \notin Deleting
    <3>1. pc[g] \in Before \cup {"health", "undo", "restart"} => job[g].to = h
      BY <2>3 DEF MigrationInv, Claims, JobClaims, Moving, Others, TwoHostsInTurn
    <3>2. pc[g] \notin Before \cup {"health", "undo"} /\ (pc[g] = "restart" => job[g].expired \/ twice)
      BY <1>1, <2>3, <3>1 DEF MigrationInv, Claims, JobClaims, RunClaims, OnTrial
    <3> QED
      BY <1>1, <2>1, <2>3, <3>2 DEF Claims, DataClaims, Before, Deleting
  <2>4. CASE g # h /\ pc[g] \in Deleting
    <3>1. job[g].to = h
      BY <2>4 DEF MigrationInv, Claims, JobClaims, Others, TwoHostsInTurn
    <3>2. over \/ twice \/ \A w \in Volumes : vol'[job[g].to][w] = tip'[w]
      BY <1>6, <3>1 DEF HasNewest
    <3> QED
      BY <1>1, <2>1, <2>4, <3>2 DEF Claims, DataClaims, HasNewest, Before, Deleting
  <2> QED
    BY <2>2, <2>3, <2>4
<1> QED
  BY <1>4, <1>7, <1>8 DEF MigrationInv

LEMMA MigrationBegins == Init => MigrationInv
<1> SUFFICES ASSUME Init PROVE MigrationInv
  OBVIOUS
<1>1. NoJob \in Jobs /\ ~NoJob.started /\ ~NoJob.expired /\ "idle" \in Steps
  BY MigrationAssumption DEF NoJob, Jobs, Steps
<1>2. 0 \in Version /\ Home \in Hosts /\ None \notin Version
  BY MigrationAssumption DEF Version
<1>3. TypeOK
  BY <1>1, <1>2 DEF Init, TypeOK, Jobs
<1>4. OneJob /\ WorldInv
  BY <1>2 DEF Init, OneJob, WorldInv, RunsOnce, NewestKept, HasNewest
<1>5. ASSUME NEW h \in Hosts PROVE Claims(h)
  BY <1>1 DEF Init, Claims, JobClaims, RunClaims, BackClaims, DataClaims, MayGoBack, Moving, Before, Deleting
<1> QED
  BY <1>3, <1>4, <1>5 DEF MigrationInv

LEMMA MigrationKept == TwoHostsInTurn /\ MigrationInv /\ [Next]_vars => MigrationInv'
<1> SUFFICES ASSUME TwoHostsInTurn, MigrationInv, [Next]_vars PROVE MigrationInv'
  OBVIOUS
<1>1. CASE UNCHANGED vars
  BY <1>1 DEF vars, instVars, bounds, history, MigrationInv, TypeOK, OneJob, WorldInv, RunsOnce, NewestKept, HasNewest,
       Claims, JobClaims, RunClaims, BackClaims, DataClaims, MayGoBack
<1>2. ASSUME NEW h \in Hosts, World(h)
      PROVE  MigrationInv'
  BY <1>2, WriteKeeps, DeathsKeep, AskKeeps DEF World
<1>3. ASSUME NEW h \in Hosts, JobStep(h)
      PROVE  MigrationInv'
  BY <1>3, PreflightKeeps, SnapshotKeeps, CopyVolumeKeeps, CopyInstanceKeeps, StopKeeps, VerifyKeeps, StartTargetKeeps,
     HealthKeeps, UndoKeeps, RestartKeeps, MarksAndRoutesKeep, CheckKeeps, DeleteKeeps, PurgeKeeps DEF JobStep
<1> QED
  BY <1>1, <1>2, <1>3 DEF Next

LEMMA MigrationIsInductive == ASSUME TwoHostsInTurn PROVE Spec => []MigrationInv
<1>1. MigrationInv /\ [Next]_vars => MigrationInv'
  BY MigrationKept
<1> QED
  BY <1>1, MigrationBegins, PTL DEF Spec

(* Through copies that fail in the middle, rollbacks, kills, resumed and   *)
(* finalized migrations, what was last written to each volume stays on one *)
(* of the two hosts (migration.go).                                        *)
THEOREM NewestAlwaysKept == ASSUME TwoHostsInTurn PROVE Spec => []NewestKept
<1>1. MigrationInv => NewestKept
  BY DEF MigrationInv, WorldInv
<1> QED
  BY <1>1, MigrationIsInductive, PTL

(* The instance never runs on both, unless a rollback could not stop the   *)
(* target (Migrate, "stop the source and verify it").                      *)
THEOREM RunsOnceAlways == ASSUME TwoHostsInTurn PROVE Spec => []RunsOnce
<1>1. MigrationInv => RunsOnce
  BY DEF MigrationInv, WorldInv
<1> QED
  BY <1>1, MigrationIsInductive, PTL

(* A migration that stopped its source leaves the target running, or has   *)
(* tried to start the source again, unless its time ran out.               *)
THEOREM SourceAlwaysBack == ASSUME TwoHostsInTurn PROVE Spec => []SourceBack
<1>1. MigrationInv => SourceBack
  BY DEF MigrationInv, TypeOK, Claims, BackClaims, MayGoBack, SourceBack
<1> QED
  BY <1>1, MigrationIsInductive, PTL

-----------------------------------------------------------------------------
(* The daemons of a fleet, over one fleet.yml.                             *)

(* What the probe reads has the same fields whatever was done.             *)
IsHost(s) ==
  s = [key |-> s.key, pub |-> s.pub, conf |-> s.conf, active |-> s.active, enabled |-> s.enabled,
       live |-> s.live, livePub |-> s.livePub, forward |-> s.forward, rules |-> s.rules]

KeepsKey(s, t) == IsHost(t) /\ (s.key # 0 => t.key = s.key)

(* The key script makes a key only where there is none.                    *)
LEMMA ScriptKeepsKey ==
  ASSUME NEW s, IsHost(s), NEW fresh
  PROVE  KeepsKey(s, Net!KeyMade(s, fresh))
<1> DEFINE k == IF s.key = 0 THEN fresh ELSE s.key
           t == [s EXCEPT !.key = k]
           u == [t EXCEPT !.pub = k]
<1>1. Net!KeyMade(s, fresh) = u
  BY DEF Net!KeyMade
<1>2. IsHost(t) /\ t.key = k
  BY DEF IsHost
<1> HIDE DEF t
<1>3. IsHost(u) /\ u.key = t.key
  BY <1>2 DEF IsHost
<1> QED
  BY <1>1, <1>2, <1>3 DEF KeepsKey

(* Whether the interface runs is another field.                            *)
LEMMA ActiveKeepsKey ==
  ASSUME NEW s, IsHost(s), NEW v
  PROVE  LET t == [s EXCEPT !.active = v] IN IsHost(t) /\ t.key = s.key
BY DEF IsHost

(* Nor does the interface's start touch it.                                *)
LEMMA StartKeepsKey ==
  ASSUME NEW s, IsHost(s)
  PROVE  IsHost(Net!Started(s)) /\ Net!Started(s).key = s.key
<1> DEFINE t == [s EXCEPT !.active = TRUE]
           u == [t EXCEPT !.live = s.conf]
           v == [u EXCEPT !.livePub = s.key]
<1>1. Net!Started(s) = v
  BY DEF Net!Started
<1>2. IsHost(t) /\ t.key = s.key
  BY ActiveKeepsKey
<1> HIDE DEF t
<1>3. IsHost(u) /\ u.key = s.key
  BY <1>2 DEF IsHost
<1> HIDE DEF u
<1>4. IsHost(v) /\ v.key = s.key
  BY <1>3 DEF IsHost
<1> QED
  BY <1>1, <1>4

(* Nor does an interface that is left down.                                *)
LEMMA DownKeepsKey ==
  ASSUME NEW s, IsHost(s)
  PROVE  LET t == [s EXCEPT !.active = FALSE, !.live = Net!NoConf, !.livePub = 0]
         IN  IsHost(t) /\ t.key = s.key
<1> DEFINE t == [s EXCEPT !.active = FALSE]
           u == [t EXCEPT !.live = Net!NoConf]
           v == [u EXCEPT !.livePub = 0]
<1>1. [s EXCEPT !.active = FALSE, !.live = Net!NoConf, !.livePub = 0] = v
  OBVIOUS
<1>2. IsHost(t) /\ t.key = s.key
  BY ActiveKeepsKey
<1> HIDE DEF t
<1>3. IsHost(u) /\ u.key = s.key
  BY <1>2 DEF IsHost
<1> HIDE DEF u
<1>4. IsHost(v) /\ v.key = s.key
  BY <1>3 DEF IsHost
<1> QED
  BY <1>1, <1>4

(* Nor does any other command of the mesh's apply.                         *)
LEMMA CommandKeepsKey ==
  ASSUME NEW s, IsHost(s), NEW m, NEW i \in DOMAIN Net!Steps
  PROVE  KeepsKey(s, Net!MeshStep(s, m, Net!Steps[i]))
<1>1. Net!Steps[i] \in {"forward", "conf", "rules", "enable", "restart"}
  BY DEF Net!Steps
<1>2. CASE Net!Steps[i] = "forward"
  BY <1>2 DEF Net!MeshStep, KeepsKey, IsHost
<1>3. CASE Net!Steps[i] = "conf"
  BY <1>3 DEF Net!MeshStep, KeepsKey, IsHost
<1>4. CASE Net!Steps[i] = "rules"
  BY <1>4 DEF Net!MeshStep, KeepsKey, IsHost
<1>5. CASE Net!Steps[i] = "enable"
  BY <1>5 DEF Net!MeshStep, KeepsKey, IsHost
<1>6. CASE Net!Steps[i] = "restart"
  BY <1>6, StartKeepsKey DEF Net!MeshStep, KeepsKey
<1> QED
  BY <1>1, <1>2, <1>3, <1>4, <1>5, <1>6

(* Nor does a reboot.                                                      *)
LEMMA RebootKeepsKey ==
  ASSUME NEW s, IsHost(s)
  PROVE  KeepsKey(s, Net!Rebooted(s))
BY StartKeepsKey, DownKeepsKey DEF Net!Rebooted, KeepsKey

(* Nor does a command that breaks off in the middle.                       *)
LEMMA BreakKeepsKey ==
  ASSUME NEW d, IsHost(st[d]), NEW s \in Net!Broken(d)
  PROVE  KeepsKey(st[d], s)
<1>1. CASE s = st[d]
  BY <1>1 DEF KeepsKey
<1>2. CASE st[d].key = 0 /\ s = [st[d] EXCEPT !.key = made + 1]
  BY <1>2 DEF KeepsKey, IsHost
<1>3. CASE \E r : s = [st[d] EXCEPT !.rules = r]
  BY <1>3 DEF KeepsKey, IsHost
<1>4. CASE s = [st[d] EXCEPT !.active = FALSE, !.live = Net!NoConf, !.livePub = 0]
  BY <1>4, DownKeepsKey DEF KeepsKey
<1>5. \/ s = st[d]
      \/ st[d].key = 0 /\ s = [st[d] EXCEPT !.key = made + 1]
      \/ s = [st[d] EXCEPT !.rules = st[d].rules \ plan[d].mesh.delRules]
      \/ s = [st[d] EXCEPT !.active = FALSE, !.live = Net!NoConf, !.livePub = 0]
  BY DEF Net!Broken
<1> QED
  BY <1>1, <1>2, <1>3, <1>4, <1>5

-----------------------------------------------------------------------------
(* Every step, for every host.                                             *)

HostsInv == st = [h \in Hosts |-> st[h]] /\ \A h \in Hosts : IsHost(st[h])

KeysStay == \A h \in Hosts : st[h].key # 0 /\ st'[h].key # st[h].key => st'[h] = Net!FreshHost

(* One host changes, and keeps its key or begins anew.                     *)
LEMMA OneChanges ==
  ASSUME HostsInv, NEW d \in Hosts, NEW s, st' = [st EXCEPT ![d] = s] \/ st' = st,
         KeepsKey(st[d], s) \/ s = Net!FreshHost
  PROVE  HostsInv' /\ KeysStay
<1>1. IsHost(s)
  BY DEF KeepsKey, Net!FreshHost, IsHost
<1>2. \A h \in Hosts : st'[h] = st[h] \/ (h = d /\ st'[h] = s)
  BY DEF HostsInv
<1> QED
  BY <1>1, <1>2 DEF HostsInv, KeysStay, KeepsKey

(* No step replaces a key but the one that builds the host again.          *)
LEMMA StepKeepsKeys == HostsInv /\ [Net!Next]_Net!vars => HostsInv' /\ KeysStay
<1> SUFFICES ASSUME HostsInv, [Net!Next]_Net!vars
             PROVE  HostsInv' /\ KeysStay
  OBVIOUS
<1>0. \A h \in Hosts : IsHost(st[h])
  BY DEF HostsInv
<1>1. ASSUME UNCHANGED st
      PROVE  HostsInv' /\ KeysStay
  BY <1>1 DEF HostsInv, KeysStay
<1>2. ASSUME NEW d \in Hosts, Net!MeshBegin(d)
      PROVE  HostsInv' /\ KeysStay
  <2>1. UNCHANGED st \/ st' = [st EXCEPT ![d] = Net!KeyMade(st[d], made + 1)]
    BY <1>2 DEF Net!MeshBegin
  <2> QED
    BY <1>0, <2>1, OneChanges, ScriptKeepsKey
<1>3. ASSUME NEW d \in Hosts, Net!MeshCommand(d)
      PROVE  HostsInv' /\ KeysStay
  <2>1. PICK i \in DOMAIN Net!Steps : st' = [st EXCEPT ![d] = Net!MeshStep(st[d], plan[d].mesh, Net!Steps[i])]
    BY <1>3 DEF Net!MeshCommand
  <2> QED
    BY <1>0, <2>1, OneChanges, CommandKeepsKey
<1>4. ASSUME NEW d \in Hosts, Net!Fail(d)
      PROVE  HostsInv' /\ KeysStay
  <2>1. PICK s \in Net!Broken(d) : st' = [st EXCEPT ![d] = s]
    BY <1>4 DEF Net!Fail
  <2> QED
    BY <1>0, <2>1, OneChanges, BreakKeepsKey
<1>5. ASSUME NEW h \in Hosts, Net!Reboot(h)
      PROVE  HostsInv' /\ KeysStay
  <2>1. st' = [st EXCEPT ![h] = Net!Rebooted(st[h])]
    BY <1>5 DEF Net!Reboot
  <2> QED
    BY <1>0, <2>1, OneChanges, RebootKeepsKey
<1>6. ASSUME NEW h \in Hosts, Net!Rebuild(h)
      PROVE  HostsInv' /\ KeysStay
  BY <1>6, OneChanges DEF Net!Rebuild
<1>7. ASSUME NEW d \in Hosts, Net!Plan(d) \/ Net!DnsCheck(d) \/ Net!DnsList(d) \/ Net!DnsCall(d) \/ Net!ApplyService(d)
      PROVE  HostsInv' /\ KeysStay
  BY <1>1, <1>7 DEF Net!Plan, Net!DnsCheck, Net!DnsList, Net!DnsCall, Net!ApplyService
<1>8. ASSUME NEW h \in Hosts, Net!CommitKey(h) \/ Net!AddHost(h) \/ Net!MoveEndpoint(h) \/ Net!MoveApp(h)
      PROVE  HostsInv' /\ KeysStay
  BY <1>1, <1>8 DEF Net!CommitKey, Net!AddHost, Net!MoveEndpoint, Net!MoveApp
<1>9. CASE Net!EditZone \/ UNCHANGED Net!vars
  BY <1>1, <1>9 DEF Net!EditZone, Net!vars
<1> QED
  BY <1>2, <1>3, <1>4, <1>5, <1>6, <1>7, <1>8, <1>9 DEF Net!Next, Net!Daemon

LEMMA HostsBegin == Net!Init => HostsInv
<1>1. IsHost(Net!FreshHost)
  BY DEF IsHost, Net!FreshHost
<1>2. Net!Init => st = [h \in Hosts |-> Net!FreshHost]
  BY DEF Net!Init
<1> QED
  BY <1>1, <1>2 DEF HostsInv

(* A host's key is lost only with the host: not to a plan, a command that  *)
(* breaks off, a reboot or another daemon (mesh.go, meshKeyScript).        *)
THEOREM KeyAlwaysStays == Net!Spec => KeyStays
<1>1. Net!Init => HostsInv
  BY HostsBegin
<1>2. HostsInv /\ [Net!Next]_Net!vars => HostsInv' /\ [KeysStay]_Net!vars
  BY StepKeepsKeys
<1>3. Net!Spec => [][KeysStay]_Net!vars
  BY <1>1, <1>2, PTL DEF Net!Spec
<1> QED
  BY <1>3 DEF KeyStays, Net!KeyStays, KeysStay

-----------------------------------------------------------------------------
(* Reconcile: one droplet for each name.  The invariant is about what the  *)
(* next run reads, whatever the one before it left.                        *)

(* What the proof takes for granted of fleet.yml and of the provider: each *)
(* host has a name, and an active droplet has its address.                 *)
HostsAreNamed == \A f \in HostFleets : f.names \in Seq(STRING) \ {<<>>}

Keys     == {"operator", "run", "gone"}
Machines == [name : STRING, listed : BOOLEAN, status : {"new", "active", "off", "gone"},
             ip : BOOLEAN, up : BOOLEAN, key : Keys, boot : BOOLEAN]

There(m) == m.listed /\ m.status # "gone"
NoneThere(c, h) == \A j \in DOMAIN c : There(c[j]) => c[j].name # h

(* What is there has a name of its own, and its address once it is active. *)
CloudOk(c) ==
  /\ c \in Seq(Machines)
  /\ \A j \in DOMAIN c : c[j].status = "new" \/ c[j].ip
  /\ \A i, j \in DOMAIN c : There(c[i]) /\ There(c[j]) /\ c[i].name = c[j].name => i = j

RunFields == {"pc", "i", "key", "id", "todo", "dnsErr", "failed", "ip"}
AtHost    == {"list", "wait", "verify", "access", "create", "created"}
ToCreate  == {"access", "create"}

RunOk(r) ==
  /\ r # Hosting!Idle => DOMAIN r = RunFields /\ r.key \in Keys
  /\ r.pc \in AtHost => r.i \in DOMAIN fleet.names

(* A run that is about to create a droplet has seen that there is none.    *)
DropletInv ==
  /\ fleet \in HostFleets
  /\ CloudOk(cloud)
  /\ RunOk(run)
  /\ run.pc \in ToCreate => NoneThere(cloud, fleet.names[run.i])

LEMMA NewMachine ==
    ASSUME NEW h \in STRING, NEW l \in BOOLEAN, NEW k \in Keys
    PROVE  LET m == Hosting!Machine(h, l, k)
           IN  /\ m \in Machines /\ m.name = h /\ m.listed = l
               /\ m.status = "new" \/ m.ip
  BY DEF Hosting!Machine, Machines

LEMMA AddedOk ==
    ASSUME NEW c, CloudOk(c), NEW m \in Machines, m.status = "new" \/ m.ip, NoneThere(c, m.name)
    PROVE  CloudOk(Append(c, m))
<1> DEFINE d == Append(c, m)
<1>1. /\ c \in Seq(Machines) /\ Len(c) \in Nat /\ DOMAIN c = 1 .. Len(c)
      /\ d \in Seq(Machines) /\ DOMAIN d = 1 .. Len(c) + 1
      /\ \A j \in 1 .. Len(c) : d[j] = c[j]
      /\ d[Len(c) + 1] = m
  BY DEF CloudOk
<1>2. \A j \in DOMAIN d : j \in DOMAIN c \/ j = Len(c) + 1
  BY <1>1
<1> HIDE DEF d
<1>3. \A j \in DOMAIN d : d[j].status = "new" \/ d[j].ip
  BY <1>1, <1>2 DEF CloudOk
<1>4. ASSUME NEW i \in DOMAIN d, NEW j \in DOMAIN d, There(d[i]), There(d[j]), d[i].name = d[j].name
      PROVE  i = j
  BY <1>1, <1>2, <1>4 DEF CloudOk, NoneThere
<1>5. CloudOk(d)
  BY <1>1, <1>3, <1>4 DEF CloudOk
<1> QED
  BY <1>5 DEF d

(* What may become of a machine that is there.                             *)
Ages(n, m) ==
  /\ n \in Machines /\ n.name = m.name /\ n.listed = m.listed
  /\ There(n) => There(m)
  /\ n.status = "new" \/ n.ip

LEMMA AgedOk ==
    ASSUME NEW c, CloudOk(c), NEW d, d \in Seq(Machines), DOMAIN d = DOMAIN c,
           \A j \in DOMAIN c : d[j] = c[j] \/ Ages(d[j], c[j])
    PROVE  CloudOk(d) /\ \A h : NoneThere(c, h) => NoneThere(d, h)
<1>1. \A j \in DOMAIN c : d[j].name = c[j].name /\ (There(d[j]) => There(c[j])) /\ (d[j].status = "new" \/ d[j].ip)
  BY DEF CloudOk, Ages
<1>2. CloudOk(d)
  BY <1>1 DEF CloudOk
<1>3. \A h : NoneThere(c, h) => NoneThere(d, h)
  BY <1>1 DEF NoneThere
<1> QED
  BY <1>2, <1>3

LEMMA ForgottenOk ==
    ASSUME NEW c, CloudOk(c)
    PROVE  CloudOk(Hosting!Forgotten(c)) /\ \A h : NoneThere(c, h) => NoneThere(Hosting!Forgotten(c), h)
<1> DEFINE d == Hosting!Forgotten(c)
<1>1. c \in Seq(Machines) /\ Len(c) \in Nat /\ DOMAIN c = 1 .. Len(c)
  BY DEF CloudOk
<1>2. ASSUME NEW j \in DOMAIN c
      PROVE  d[j] \in Machines /\ (d[j] = c[j] \/ Ages(d[j], c[j]))
  <2>1. c[j] \in Machines /\ (c[j].status = "new" \/ c[j].ip)
    BY <1>1 DEF CloudOk
  <2> DEFINE m == [c[j] EXCEPT !.key = "gone"]
  <2>2. m \in Machines /\ Ages(m, c[j])
    BY <2>1 DEF Machines, Keys, Ages, There
  <2>3. d[j] = c[j] \/ d[j] = m
    BY DEF Hosting!Forgotten
  <2> QED
    BY <2>1, <2>2, <2>3
<1>3. DOMAIN d = DOMAIN c
  BY DEF Hosting!Forgotten
<1>4. d \in Seq(Machines)
  <2>1. d = [j \in 1 .. Len(c) |-> d[j]]
    BY <1>1 DEF Hosting!Forgotten
  <2>2. \A j \in 1 .. Len(c) : d[j] \in Machines
    BY <1>1, <1>2
  <2> HIDE DEF d
  <2> QED
    BY <1>1, <2>1, <2>2
<1> HIDE DEF d
<1>5. CloudOk(d) /\ \A h : NoneThere(c, h) => NoneThere(d, h)
  BY <1>2, <1>3, <1>4, AgedOk
<1> QED
  BY <1>5 DEF d

LEMMA ChangedOk ==
    ASSUME NEW c, CloudOk(c), NEW j \in DOMAIN c, NEW m, Ages(m, c[j])
    PROVE  LET d == [c EXCEPT ![j] = m] IN CloudOk(d) /\ \A h : NoneThere(c, h) => NoneThere(d, h)
<1> DEFINE d == [c EXCEPT ![j] = m]
<1>1. m \in Machines /\ c \in Seq(Machines)
  BY DEF Ages, CloudOk
<1>2. d \in Seq(Machines) /\ DOMAIN d = DOMAIN c /\ \A i \in DOMAIN c : d[i] = c[i] \/ (i = j /\ d[i] = m)
  BY <1>1
<1> HIDE DEF d
<1>3. CloudOk(d) /\ \A h : NoneThere(c, h) => NoneThere(d, h)
  BY <1>2, AgedOk
<1> QED
  BY <1>3 DEF d

-----------------------------------------------------------------------------
(* A run that goes on, and creates nothing next.                           *)
Harmless(r) == RunOk(r) /\ r.pc \notin ToCreate

LEMMA IdleHarmless == Harmless(Hosting!Idle)
  BY DEF Harmless, RunOk, Hosting!Idle, AtHost, ToCreate

(* The run is not idle where it has more to say than that.                 *)
LEMMA RunGoesOn ==
    ASSUME RunOk(run), run.pc # "idle"
    PROVE  DOMAIN run = RunFields /\ run.key \in Keys /\ run # Hosting!Idle
  BY DEF RunOk, Hosting!Idle

LEMMA NamesOk ==
    ASSUME HostsAreNamed, fleet \in HostFleets
    PROVE  /\ Len(fleet.names) \in Nat /\ DOMAIN fleet.names = 1 .. Len(fleet.names)
           /\ 1 \in DOMAIN fleet.names
           /\ \A i \in DOMAIN fleet.names : fleet.names[i] \in STRING
<1>1. fleet.names \in Seq(STRING) /\ fleet.names # <<>>
  BY DEF HostsAreNamed
<1> QED
  BY <1>1

LEMMA OnwardOk ==
    ASSUME HostsAreNamed, fleet \in HostFleets, NEW r, DOMAIN r = RunFields, r.key \in Keys, r.i \in DOMAIN fleet.names
    PROVE  Harmless(Hosting!Onward(r))
<1>1. CASE r.i < Len(fleet.names)
  <2> DEFINE s == [r EXCEPT !.i = @ + 1, !.pc = "list"]
  <2>1. DOMAIN s = RunFields /\ s.key = r.key /\ s.i = r.i + 1 /\ s.pc = "list"
    BY DEF RunFields
  <2>2. r.i + 1 \in DOMAIN fleet.names
    BY <1>1, NamesOk
  <2>3. Hosting!Onward(r) = s
    BY <1>1 DEF Hosting!Onward
  <2> QED
    BY <2>1, <2>2, <2>3 DEF Harmless, RunOk, ToCreate
<1>2. CASE ~(r.i < Len(fleet.names))
  <2> DEFINE s == [r EXCEPT !.pc = "dns"]
  <2>1. DOMAIN s = RunFields /\ s.key = r.key /\ s.pc = "dns"
    BY DEF RunFields
  <2>2. Hosting!Onward(r) = s
    BY <1>2 DEF Hosting!Onward
  <2> QED
    BY <2>1, <2>2 DEF Harmless, RunOk, AtHost, ToCreate
<1> QED
  BY <1>1, <1>2

LEMMA BootingOk ==
    ASSUME NEW r, DOMAIN r = RunFields, r.key \in Keys, NEW i
    PROVE  Harmless(Hosting!Booting(r, i))
<1>1. \/ Hosting!Booting(r, i) = [r EXCEPT !.pc = "end"]
      \/ \E k : Hosting!Booting(r, i) = [r EXCEPT !.pc = "boot", !.i = k]
  BY DEF Hosting!Booting
<1>2. CASE Hosting!Booting(r, i) = [r EXCEPT !.pc = "end"]
  <2> DEFINE s == [r EXCEPT !.pc = "end"]
  <2>1. DOMAIN s = RunFields /\ s.key = r.key /\ s.pc = "end"
    BY DEF RunFields
  <2> QED
    BY <1>2, <2>1 DEF Harmless, RunOk, AtHost, ToCreate
<1>3. ASSUME NEW k, Hosting!Booting(r, i) = [r EXCEPT !.pc = "boot", !.i = k]
      PROVE  Harmless(Hosting!Booting(r, i))
  <2> DEFINE s == [r EXCEPT !.pc = "boot", !.i = k]
  <2>1. DOMAIN s = RunFields /\ s.key = r.key /\ s.pc = "boot"
    BY DEF RunFields
  <2> QED
    BY <1>3, <2>1 DEF Harmless, RunOk, AtHost, ToCreate
<1> QED
  BY <1>1, <1>2, <1>3

(* The cloud stays as it is, or is without the keys of the run.            *)
Settled == cloud' = cloud \/ cloud' = Hosting!Forgotten(cloud)

LEMMA FoundOk ==
    ASSUME HostsAreNamed, DropletInv, run.pc \in AtHost, NEW ip, Hosting!Found(ip)
    PROVE  Harmless(run') /\ Settled
<1>1. DOMAIN run = RunFields /\ run.key \in Keys /\ run.i \in DOMAIN fleet.names /\ fleet \in HostFleets
  BY RunGoesOn DEF DropletInv, RunOk, AtHost
<1> DEFINE r == [run EXCEPT !.ip[Hosting!Host] = ip]
<1>2. DOMAIN r = RunFields /\ r.key = run.key /\ r.i = run.i
  BY <1>1 DEF RunFields
<1>3. run' = Hosting!Onward(r) /\ cloud' = cloud
  BY DEF Hosting!Found
<1> HIDE DEF r
<1> QED
  BY <1>1, <1>2, <1>3, OnwardOk DEF Settled

LEMMA EndOk == ASSUME NEW how, Hosting!End(how) PROVE Harmless(run') /\ Settled
  BY IdleHarmless DEF Hosting!End, Settled

LEMMA HostFailsOk ==
    ASSUME HostsAreNamed, DropletInv, run.pc \in AtHost \cup {"boot"}, Hosting!HostFails
    PROVE  Harmless(run') /\ Settled
<1>1. DOMAIN run = RunFields /\ run.key \in Keys /\ fleet \in HostFleets
  BY RunGoesOn DEF DropletInv, AtHost
<1> DEFINE r == [run EXCEPT !.failed = @ \cup {Hosting!Host}]
<1>2. DOMAIN r = RunFields /\ r.key = run.key /\ r.i = run.i
  BY <1>1 DEF RunFields
<1>3. \/ Hosting!End("failed")
      \/ run.pc = "boot" /\ run' = Hosting!Booting(r, run.i + 1) /\ cloud' = cloud
      \/ run.pc # "boot" /\ run' = Hosting!Onward(r) /\ cloud' = cloud
  BY DEF Hosting!HostFails
<1> HIDE DEF r
<1>4. run.pc # "boot" => r.i \in DOMAIN fleet.names
  BY <1>2 DEF DropletInv, RunOk
<1> QED
  BY <1>1, <1>2, <1>3, <1>4, EndOk, BootingOk, OnwardOk DEF Settled

LEMMA AfterDnsOk ==
    ASSUME DropletInv, run.pc \in {"dns", "call"}, NEW err, Hosting!AfterDns(err)
    PROVE  Harmless(run') /\ Settled
<1>1. DOMAIN run = RunFields /\ run.key \in Keys
  BY RunGoesOn DEF DropletInv
<1> DEFINE r == [run EXCEPT !.dnsErr = err, !.todo = <<>>]
<1>2. DOMAIN r = RunFields /\ r.key = run.key
  BY <1>1 DEF RunFields
<1>3. run' = Hosting!Booting(r, 1) /\ cloud' = cloud
  BY DEF Hosting!AfterDns
<1> HIDE DEF r
<1> QED
  BY <1>1, <1>2, <1>3, BootingOk DEF Settled

(* Such a step keeps the invariant.                                        *)
LEMMA SettledKeeps ==
    ASSUME DropletInv, Harmless(run'), Settled, fleet' = fleet
    PROVE  DropletInv'
<1>1. CloudOk(cloud')
  BY ForgottenOk DEF DropletInv, Settled
<1>2. RunOk(run)'
  BY DEF Harmless, RunOk
<1> QED
  BY <1>1, <1>2 DEF DropletInv, Harmless

-----------------------------------------------------------------------------
(* The run goes to another step of the same host.                          *)
LEMMA SameHost ==
    ASSUME DropletInv, run.pc \in AtHost, NEW s, NEW id,
           run' = [run EXCEPT !.pc = s] \/ run' = [run EXCEPT !.pc = s, !.id = id]
    PROVE  /\ DOMAIN run' = RunFields /\ run'.key \in Keys
           /\ run'.pc = s /\ run'.i = run.i /\ run.i \in DOMAIN fleet.names
<1>1. DOMAIN run = RunFields /\ run.key \in Keys /\ run.i \in DOMAIN fleet.names
  BY RunGoesOn DEF DropletInv, RunOk, AtHost
<1> QED
  BY <1>1 DEF RunFields

(* What reconcile takes for no droplet is none.                            *)
LEMMA NoneSeen ==
    ASSUME DropletInv, Hosting!Listed(Hosting!Host) = {}
    PROVE  NoneThere(cloud, fleet.names[run.i])
  BY DEF Hosting!Listed, Hosting!Host, NoneThere, There

LEMMA LookKeeps == ASSUME HostsAreNamed, DropletInv, Hosting!Look PROVE DropletInv'
<1>1. run.pc = "list" /\ run.pc \in AtHost /\ run.pc \notin ToCreate /\ fleet' = fleet
  BY DEF Hosting!Look, AtHost, ToCreate
<1>2. ASSUME NEW ip, Hosting!Found(ip)
      PROVE  DropletInv'
  BY <1>1, <1>2, FoundOk, SettledKeeps
<1>3. CASE Hosting!HostFails
  BY <1>1, <1>3, HostFailsOk, SettledKeeps
<1> DEFINE found == Hosting!Listed(Hosting!Host)
           one   == CHOOSE j \in found : TRUE
<1>4. ASSUME NEW s \in {"wait", "verify"}, run' = [run EXCEPT !.pc = s, !.id = one], cloud' = cloud
      PROVE  DropletInv'
  <2>1. Harmless(run')
    BY <1>1, <1>4, SameHost DEF Harmless, RunOk, ToCreate
  <2> QED
    BY <1>1, <1>4, <2>1, SettledKeeps DEF Settled
<1>5. CASE run' = [run EXCEPT !.pc = "access"] /\ cloud' = cloud /\ found = {}
  <2>1. RunOk(run') /\ run'.i = run.i
    BY <1>1, <1>5, SameHost DEF RunOk
  <2>2. RunOk(run)'
    BY <1>1, <2>1 DEF RunOk
  <2> QED
    BY <1>1, <1>5, <2>1, <2>2, NoneSeen DEF DropletInv
<1>6. ASSUME found # {}
      PROVE  one \in found /\ (cloud[one].status = "active" => cloud[one].ip)
  <2>1. one \in found
    BY <1>6
  <2> QED
    BY <2>1 DEF Hosting!Listed, DropletInv, CloudOk
<1>7. ASSUME Hosting!classifyHost(found) = "use"
      PROVE  found # {} /\ cloud[one].status = "active"
  <2>1. found # {}
    BY <1>7 DEF Hosting!classifyHost
  <2> QED
    BY <1>7, <2>1 DEF Hosting!classifyHost
<1>8. Hosting!classifyHost(found) \in {"create", "refuse", "use", "wait"}
  BY DEF Hosting!classifyHost
<1>9. Hosting!classifyHost(found) = "create" => found = {}
  BY DEF Hosting!classifyHost
<1>10. \/ \E ip : Hosting!Found(ip)
       \/ Hosting!HostFails
       \/ run' = [run EXCEPT !.pc = "wait", !.id = one] /\ cloud' = cloud
       \/ run' = [run EXCEPT !.pc = "verify", !.id = one] /\ cloud' = cloud
       \/ /\ run' = [run EXCEPT !.pc = "access"] /\ cloud' = cloud
          /\ Hosting!classifyHost(found) \notin {"refuse", "wait"}
          /\ ~(Hosting!classifyHost(found) = "use" /\ cloud[one].ip)
  <2>1. CASE fleet.kind[Hosting!Host] = "given"
    BY <2>1 DEF Hosting!Look
  <2>2. CASE fleet.kind[Hosting!Host] # "given" /\ fleet.kind[Hosting!Host] = "other"
    BY <2>2 DEF Hosting!Look
  <2>3. CASE fleet.kind[Hosting!Host] # "given" /\ fleet.kind[Hosting!Host] # "other"
    BY <2>3 DEF Hosting!Look
  <2> QED
    BY <2>1, <2>2, <2>3
<1> HIDE DEF found, one
<1> QED
  BY <1>2, <1>3, <1>4, <1>5, <1>6, <1>7, <1>8, <1>9, <1>10

LEMMA CreateKeeps ==
    ASSUME HostsAreNamed, DropletInv, run.pc = "create", cloud' = Hosting!WithDroplet \/ cloud' = Hosting!Forgotten(Hosting!WithDroplet)
    PROVE  CloudOk(cloud')
<1>1. run.key \in Keys /\ run.i \in DOMAIN fleet.names /\ NoneThere(cloud, fleet.names[run.i])
  BY RunGoesOn DEF DropletInv, RunOk, AtHost, ToCreate
<1>2. fleet.names[run.i] \in STRING
  BY <1>1, NamesOk DEF DropletInv
<1> DEFINE m == Hosting!Machine(fleet.names[run.i], TRUE, run.key)
<1>3. m \in Machines /\ m.name = fleet.names[run.i] /\ (m.status = "new" \/ m.ip)
  BY <1>1, <1>2, NewMachine
<1>4. Hosting!WithDroplet = Append(cloud, m)
  BY DEF Hosting!WithDroplet, Hosting!Host
<1> HIDE DEF m
<1>5. CloudOk(Append(cloud, m))
  BY <1>1, <1>3, AddedOk DEF DropletInv
<1> QED
  BY <1>4, <1>5, ForgottenOk

LEMMA RunKeeps == ASSUME HostsAreNamed, DropletInv, Hosting!Step PROVE DropletInv'
<1>1. CASE Hosting!Look
  BY <1>1, LookKeeps
<1>2. CASE Hosting!Wait
  <2>1. run.pc \in {"wait", "created"} /\ run.pc \in AtHost /\ fleet' = fleet
    BY <1>2 DEF Hosting!Wait, AtHost
  <2>2. CASE run' = [run EXCEPT !.pc = "verify"] /\ cloud' = cloud
    <3>1. Harmless(run')
      BY <2>1, <2>2, SameHost DEF Harmless, RunOk, ToCreate
    <3> QED
      BY <2>1, <2>2, <3>1, SettledKeeps DEF Settled
  <2>3. CASE Hosting!HostFails \/ \E ip : Hosting!Found(ip)
    BY <2>1, <2>3, HostFailsOk, FoundOk, SettledKeeps
  <2> QED
    BY <1>2, <2>2, <2>3 DEF Hosting!Wait
<1>3. CASE Hosting!Verify
  <2>1. run.pc \in AtHost /\ fleet' = fleet /\ (Hosting!HostFails \/ \E ip : Hosting!Found(ip))
    BY <1>3 DEF Hosting!Verify, AtHost
  <2> QED
    BY <2>1, HostFailsOk, FoundOk, SettledKeeps
<1>4. CASE Hosting!Access
  <2>1. run.pc = "access" /\ run.pc \in AtHost /\ run' = [run EXCEPT !.pc = "create"] /\ cloud' = cloud /\ fleet' = fleet
    BY <1>4 DEF Hosting!Access, AtHost
  <2>2. RunOk(run') /\ run'.i = run.i
    BY <2>1, SameHost DEF RunOk
  <2>3. RunOk(run)'
    BY <2>1, <2>2 DEF RunOk
  <2> QED
    BY <2>1, <2>2, <2>3 DEF DropletInv, ToCreate
<1>5. CASE Hosting!Create
  <2>1. run.pc = "create" /\ run.pc \in AtHost /\ cloud' = Hosting!WithDroplet /\ fleet' = fleet
    BY <1>5 DEF Hosting!Create, AtHost
  <2>2. PICK id : run' = [run EXCEPT !.pc = "created", !.id = id]
    BY <1>5 DEF Hosting!Create
  <2>3. RunOk(run') /\ run'.pc = "created"
    BY <2>1, <2>2, SameHost DEF RunOk
  <2>4. RunOk(run)'
    BY <2>1, <2>3 DEF RunOk
  <2> QED
    BY <2>1, <2>3, <2>4, CreateKeeps DEF DropletInv, ToCreate
<1>6. CASE Hosting!SyncDns
  <2>1. run.pc = "dns" /\ fleet' = fleet
    BY <1>6 DEF Hosting!SyncDns
  <2>2. ASSUME NEW todo1, run' = [run EXCEPT !.pc = "call", !.todo = todo1], cloud' = cloud
        PROVE  DropletInv'
    <3>1. DOMAIN run = RunFields /\ run.key \in Keys
      BY <2>1, RunGoesOn DEF DropletInv
    <3>2. DOMAIN run' = RunFields /\ run'.key = run.key /\ run'.pc = "call"
      BY <2>2, <3>1 DEF RunFields
    <3>3. Harmless(run')
      BY <3>1, <3>2 DEF Harmless, RunOk, AtHost, ToCreate
    <3> QED
      BY <2>1, <2>2, <3>3, SettledKeeps DEF Settled
  <2>3. ASSUME NEW err, Hosting!AfterDns(err)
        PROVE  DropletInv'
    BY <2>1, <2>3, AfterDnsOk, SettledKeeps
  <2> QED
    BY <1>6, <2>2, <2>3 DEF Hosting!SyncDns
<1>7. CASE Hosting!DnsCall
  <2>1. run.pc = "call" /\ fleet' = fleet
    BY <1>7 DEF Hosting!DnsCall
  <2>2. CASE run' = [run EXCEPT !.todo = Tail(@)] /\ cloud' = cloud
    <3>1. DOMAIN run = RunFields /\ run.key \in Keys
      BY <2>1, RunGoesOn DEF DropletInv
    <3>2. DOMAIN run' = RunFields /\ run'.key = run.key /\ run'.pc = "call"
      BY <2>1, <2>2, <3>1 DEF RunFields
    <3>3. Harmless(run')
      BY <3>1, <3>2 DEF Harmless, RunOk, AtHost, ToCreate
    <3> QED
      BY <2>1, <2>2, <3>3, SettledKeeps DEF Settled
  <2>3. CASE Hosting!AfterDns(FALSE)
    BY <2>1, <2>3, AfterDnsOk, SettledKeeps
  <2> QED
    BY <1>7, <2>2, <2>3 DEF Hosting!DnsCall
<1>8. CASE Hosting!Boot
  <2>1. run.pc = "boot" /\ fleet' = fleet /\ DOMAIN run = RunFields /\ run.key \in Keys
    BY <1>8, RunGoesOn DEF Hosting!Boot, DropletInv
  <2>2. CASE Hosting!HostFails
    BY <2>1, <2>2, HostFailsOk, SettledKeeps
  <2>3. ASSUME NEW j, cloud' = [cloud EXCEPT ![j].boot = TRUE], NEW i, run' = Hosting!Booting(run, i)
        PROVE  DropletInv'
    <3>1. Harmless(run')
      BY <2>1, <2>3, BootingOk
    <3>2. CASE j \notin DOMAIN cloud
      <4>1. cloud' = cloud
        BY <2>3, <3>2 DEF DropletInv, CloudOk
      <4> QED
        BY <2>1, <3>1, <4>1, SettledKeeps DEF Settled
    <3>3. CASE j \in DOMAIN cloud
      <4> DEFINE m == [cloud[j] EXCEPT !.boot = TRUE]
      <4>1. cloud[j] \in Machines /\ (cloud[j].status = "new" \/ cloud[j].ip)
        BY <3>3 DEF DropletInv, CloudOk
      <4>2. Ages(m, cloud[j])
        BY <4>1 DEF Machines, Ages, There
      <4>3. cloud' = [cloud EXCEPT ![j] = m]
        BY <2>3
      <4> HIDE DEF m
      <4>4. CloudOk(cloud')
        BY <3>3, <4>2, <4>3, ChangedOk DEF DropletInv
      <4>5. RunOk(run)'
        BY <2>1, <3>1 DEF Harmless, RunOk
      <4> QED
        BY <2>1, <3>1, <4>4, <4>5 DEF DropletInv, Harmless
    <3> QED
      BY <3>2, <3>3
  <2> QED
    BY <1>8, <2>2, <2>3 DEF Hosting!Boot
<1>9. CASE Hosting!Finish
  BY <1>9, EndOk, SettledKeeps DEF Hosting!Finish
<1> QED
  BY <1>1, <1>2, <1>3, <1>4, <1>5, <1>6, <1>7, <1>8, <1>9 DEF Hosting!Step

-----------------------------------------------------------------------------
LEMMA TroubleKeeps ==
    ASSUME HostsAreNamed, DropletInv,
           Hosting!CallFails \/ Hosting!NoDnsProvider \/ Hosting!AnswerLost \/ Hosting!Kill
    PROVE  DropletInv'
<1>1. CASE Hosting!CallFails
  <2>1. CASE run.pc \in AtHost \cup {"boot"} /\ Hosting!HostFails /\ fleet' = fleet
    BY <2>1, HostFailsOk, SettledKeeps
  <2>2. CASE run.pc = "call" /\ Hosting!AfterDns(TRUE) /\ fleet' = fleet
    BY <2>2, AfterDnsOk, SettledKeeps
  <2> QED
    BY <1>1, <2>1, <2>2 DEF Hosting!CallFails, AtHost
<1>2. CASE Hosting!NoDnsProvider
  <2>1. run.pc = "dns" /\ fleet' = fleet /\ (Hosting!AfterDns(TRUE) \/ Hosting!End("failed"))
    BY <1>2 DEF Hosting!NoDnsProvider
  <2> QED
    BY <2>1, AfterDnsOk, EndOk, SettledKeeps
<1>3. CASE Hosting!AnswerLost
  <2>1. run.pc = "create" /\ run.pc \in AtHost /\ fleet' = fleet /\ CloudOk(cloud')
    BY <1>3, CreateKeeps DEF Hosting!AnswerLost, AtHost
  <2>2. DOMAIN run = RunFields /\ run.key \in Keys /\ run.i \in DOMAIN fleet.names
    BY <2>1, RunGoesOn DEF DropletInv, RunOk
  <2> DEFINE r == [run EXCEPT !.failed = @ \cup {Hosting!Host}]
  <2>3. DOMAIN r = RunFields /\ r.key = run.key /\ r.i = run.i
    BY <2>2 DEF RunFields
  <2>4. run' = Hosting!Onward(r) \/ run' = Hosting!Idle
    BY <1>3 DEF Hosting!AnswerLost
  <2> HIDE DEF r
  <2>5. Harmless(run')
    BY <2>2, <2>3, <2>4, OnwardOk, IdleHarmless DEF DropletInv
  <2>6. RunOk(run)'
    BY <2>1, <2>5 DEF Harmless, RunOk
  <2> QED
    BY <2>1, <2>5, <2>6 DEF DropletInv, Harmless
<1>4. CASE Hosting!Kill
  <2>1. Harmless(run') /\ Settled /\ fleet' = fleet
    BY <1>4, IdleHarmless DEF Hosting!Kill, Settled
  <2> QED
    BY <2>1, SettledKeeps
<1> QED
  BY <1>1, <1>2, <1>3, <1>4

LEMMA MachineKeeps ==
    ASSUME ~AddressLate, AddressLate \in BOOLEAN, DropletInv, NEW j \in DOMAIN cloud,
           Hosting!ComesUp(j) \/ Hosting!Lose(j) \/ Hosting!TurnOn(j)
    PROVE  DropletInv'
<1>1. fleet' = fleet /\ run' = run
  BY DEF Hosting!ComesUp, Hosting!Lose, Hosting!TurnOn
<1>2. cloud[j] \in Machines /\ (cloud[j].status = "new" \/ cloud[j].ip)
  BY DEF DropletInv, CloudOk
<1>3. ASSUME NEW m, Ages(m, cloud[j]), cloud' = [cloud EXCEPT ![j] = m]
      PROVE  DropletInv'
  <2>1. RunOk(run)'
    BY <1>1 DEF DropletInv, RunOk
  <2> QED
    BY <1>1, <1>3, <2>1, ChangedOk DEF DropletInv
<1>4. CASE Hosting!ComesUp(j)
  <2>1. CASE cloud[j].status = "new" /\ \E ip \in {TRUE, ~AddressLate} : cloud' = [cloud EXCEPT ![j].status = "active", ![j].ip = ip]
    <3> DEFINE m == [cloud[j] EXCEPT !.status = "active", !.ip = TRUE]
    <3>1. Ages(m, cloud[j])
      BY <1>2, <2>1 DEF Machines, Ages, There
    <3>2. cloud' = [cloud EXCEPT ![j] = m]
      BY <2>1
    <3> QED
      BY <1>3, <3>1, <3>2
  <2>2. CASE ~cloud[j].ip /\ cloud[j].status = "active" /\ cloud' = [cloud EXCEPT ![j].ip = TRUE]
    BY <1>2, <2>2
  <2>3. CASE cloud' = [cloud EXCEPT ![j].up = TRUE]
    <3> DEFINE m == [cloud[j] EXCEPT !.up = TRUE]
    <3>1. Ages(m, cloud[j])
      BY <1>2 DEF Machines, Ages, There
    <3> QED
      BY <1>3, <2>3, <3>1
  <2> QED
    BY <1>4, <2>1, <2>2, <2>3 DEF Hosting!ComesUp
<1>5. CASE Hosting!Lose(j)
  <2>1. cloud[j].status = "active" /\ cloud[j].ip
    BY <1>2, <1>5 DEF Hosting!Lose
  <2>2. PICK s \in {"off", "gone"} : cloud' = [cloud EXCEPT ![j].status = s, ![j].up = FALSE]
    BY <1>5 DEF Hosting!Lose
  <2> DEFINE m == [cloud[j] EXCEPT !.status = s, !.up = FALSE]
  <2>3. Ages(m, cloud[j])
    BY <1>2, <2>1 DEF Machines, Ages, There
  <2>4. cloud' = [cloud EXCEPT ![j] = m]
    BY <2>2
  <2> QED
    BY <1>3, <2>3, <2>4
<1>6. CASE Hosting!TurnOn(j)
  <2>1. cloud[j].status = "off" /\ cloud' = [cloud EXCEPT ![j].status = "active"]
    BY <1>6 DEF Hosting!TurnOn
  <2> DEFINE m == [cloud[j] EXCEPT !.status = "active"]
  <2>2. Ages(m, cloud[j])
    BY <1>2, <2>1 DEF Machines, Ages, There
  <2> QED
    BY <1>3, <2>1, <2>2
<1> QED
  BY <1>4, <1>5, <1>6

LEMMA DropletBegins == HostsAreNamed /\ Hosting!Init => DropletInv
<1> SUFFICES ASSUME HostsAreNamed, Hosting!Init
             PROVE  DropletInv
  OBVIOUS
<1>1. fleet \in HostFleets /\ run = Hosting!Idle
  BY DEF Hosting!Init
<1>2. PICK n \in 0 .. Len(fleet.names) : \E order \in [1 .. n -> Hosting!Given(fleet)] :
        cloud = [k \in 1 .. n |-> Hosting!Machine(order[k], FALSE, "operator")]
  BY DEF Hosting!Init
<1>3. PICK order \in [1 .. n -> Hosting!Given(fleet)] :
        cloud = [k \in 1 .. n |-> Hosting!Machine(order[k], FALSE, "operator")]
  BY <1>2
<1>4. n \in Nat /\ DOMAIN cloud = 1 .. n
  BY <1>1, <1>3, NamesOk
<1>5. ASSUME NEW k \in 1 .. n
      PROVE  cloud[k] \in Machines /\ ~cloud[k].listed /\ (cloud[k].status = "new" \/ cloud[k].ip)
  <2>1. order[k] \in STRING
    BY <1>1, <1>3, NamesOk DEF Hosting!Given
  <2>2. cloud[k] = Hosting!Machine(order[k], FALSE, "operator")
    BY <1>3
  <2> DEFINE m == Hosting!Machine(order[k], FALSE, "operator")
  <2>3. m \in Machines /\ m.listed = FALSE /\ (m.status = "new" \/ m.ip)
    BY <2>1, NewMachine DEF Keys
  <2> HIDE DEF m
  <2> QED
    BY <2>2, <2>3 DEF m
<1>6. cloud \in Seq(Machines)
  <2>1. cloud = [k \in 1 .. n |-> cloud[k]]
    BY <1>3
  <2> QED
    BY <1>4, <1>5, <2>1
<1>7. CloudOk(cloud)
  BY <1>4, <1>5, <1>6 DEF CloudOk, There
<1> QED
  BY <1>1, <1>7, IdleHarmless DEF DropletInv, Harmless

LEMMA DropletKept == HostsAreNamed /\ AddressLate = FALSE /\ DropletInv /\ [Hosting!Next]_Hosting!vars => DropletInv'
<1> SUFFICES ASSUME HostsAreNamed, AddressLate = FALSE, DropletInv, [Hosting!Next]_Hosting!vars
             PROVE  DropletInv'
  OBVIOUS
<1>1. ASSUME NEW key \in {"operator", "run"}, Hosting!Start(key)
      PROVE  DropletInv'
  <2>1. fleet' = fleet /\ cloud' = cloud
    BY <1>1 DEF Hosting!Start
  <2>2. DOMAIN run' = RunFields /\ run'.key = key /\ run'.pc = "list" /\ run'.i = 1
    BY <1>1 DEF Hosting!Start, RunFields
  <2>3. Harmless(run')
    BY <2>2, NamesOk DEF Harmless, RunOk, Keys, ToCreate, DropletInv
  <2> QED
    BY <2>1, <2>3, SettledKeeps DEF Settled
<1>2. CASE Hosting!Step
  BY <1>2, RunKeeps
<1>3. CASE Hosting!CallFails \/ Hosting!NoDnsProvider \/ Hosting!AnswerLost \/ Hosting!Kill
  BY <1>3, TroubleKeeps
<1>4. ASSUME NEW j \in DOMAIN cloud, Hosting!ComesUp(j) \/ Hosting!Lose(j) \/ Hosting!TurnOn(j)
      PROVE  DropletInv'
  BY <1>4, MachineKeeps
<1>5. CASE UNCHANGED Hosting!vars
  BY <1>5 DEF Hosting!vars, DropletInv, RunOk
<1> QED
  BY <1>1, <1>2, <1>3, <1>4, <1>5 DEF Hosting!Next

(* However often a run of reconcile is killed, times out or loses an       *)
(* answer, the next one makes no second droplet of a name: the invariant   *)
(* is that a run which is about to create one has seen that there is none. *)
(* (pkg/engine/hosts.go, classifyHost.  Where an active droplet may have no *)
(* address yet, the code creates another.)                                 *)
THEOREM OneDropletAlways ==
    ASSUME HostsAreNamed, AddressLate = FALSE
    PROVE  Hosting!Spec => []OneDroplet
<1>1. Hosting!Init => DropletInv
  BY DropletBegins
<1>2. DropletInv /\ [Hosting!Next]_Hosting!vars => DropletInv'
  BY DropletKept
<1>3. DropletInv => OneDroplet
  <2> SUFFICES ASSUME DropletInv, NEW h, NEW i \in Hosting!Listed(h), NEW j \in Hosting!Listed(h)
               PROVE  i = j
    BY DEF OneDroplet, Hosting!OneDroplet
  <2> QED
    BY DEF DropletInv, CloudOk, There, Hosting!Listed
<1> QED
  BY <1>1, <1>2, <1>3, PTL DEF Hosting!Spec

-----------------------------------------------------------------------------
(* DNS: of any fleet, two daemons that apply one fleet.yml never write one *)
(* record. The plan of a daemon's DNS is made of loops over sequences, as  *)
(* functions of how many elements a loop has taken. That such a function   *)
(* is what its definition says is proved here once for every loop: LoopEnds *)
(* gives the function, by counting up (CountedUp), and LoopStays what it   *)
(* keeps.                                                                  *)

(* Counting up reaches every number. *)
LEMMA CountedUp ==
  ASSUME NEW N \in Nat, NEW T, 0 \in T, \A n \in 1 .. N : n - 1 \in T => n \in T
  PROVE  \A n \in 0 .. N : n \in T
<1> DEFINE S == (0 .. N) \ T
<1> SUFFICES ASSUME S # {} PROVE FALSE
  OBVIOUS
<1>1. S \in SUBSET Nat
  OBVIOUS
<1> HIDE DEF S
<1>2. PICK x \in S : \A y \in S : ~ <<y, x>> \in OpToRel(<, Nat)
  BY <1>1, WFMin, NatLessThanWellFounded, Zenon
<1>3. \A y \in S : ~ (y < x)
  BY <1>1, <1>2, Zenon DEF OpToRel
<1>4. x \in 0 .. N /\ x \notin T
  BY <1>2 DEF S
<1>5. x # 0 /\ x - 1 \in 0 .. N
  BY <1>4
<1>6. x - 1 \notin S
  BY <1>3, <1>4, <1>5
<1> QED
  BY <1>4, <1>5, <1>6 DEF S

(* A loop over N things, as a function of how many it has taken. *)
StaysIn(N, S, g) == \A n \in 1 .. N, s \in S : g[<<n, s>>] \in S
IsLoop(N, S, b, g, f) ==
  /\ f = [n \in 0 .. N |-> f[n]]
  /\ f[0] = b
  /\ \A n \in 1 .. N : n \in 0 .. N /\ n # 0 /\ f[n - 1] \in S /\ f[n] = g[<<n, f[n - 1]>>]
  /\ \A n \in 0 .. N : n = 0 \/ n \in 1 .. N

LEMMA LoopEnds ==
  ASSUME NEW N \in Nat, NEW S, NEW b \in S, NEW g, StaysIn(N, S, g)
  PROVE  \E f : IsLoop(N, S, b, g, f)
<1> USE DEF StaysIn
<1> DEFINE Runs(m, f) == f \in [0 .. m -> S] /\ f[0] = b /\ \A n \in 1 .. m : f[n] = g[<<n, f[n - 1]>>]
           T == {m \in 0 .. N : \E f : Runs(m, f)}
<1>1. 0 \in T
  <2> DEFINE h == [n \in 0 .. 0 |-> b]
  <2>1. Runs(0, h)
    OBVIOUS
  <2>2. 0 \in 0 .. N
    OBVIOUS
  <2> HIDE DEF Runs, h
  <2> QED
    BY <2>1, <2>2
<1>2. ASSUME NEW m \in 1 .. N, m - 1 \in T
      PROVE  m \in T
  <2>1. PICK f : Runs(m - 1, f)
    BY <1>2
  <2> DEFINE h == [n \in 0 .. m |-> IF n = m THEN g[<<m, f[m - 1]>>] ELSE f[n]]
  <2>2. f[m - 1] \in S /\ g[<<m, f[m - 1]>>] \in S
    BY <2>1
  <2>3. h \in [0 .. m -> S]
    BY <2>1, <2>2
  <2>4. \A n \in 0 .. m - 1 : h[n] = f[n]
    OBVIOUS
  <2>5. h[m] = g[<<m, h[m - 1]>>]
    <3>1. h[m] = g[<<m, f[m - 1]>>] /\ h[m - 1] = f[m - 1]
      BY <2>4
    <3> QED
      BY <3>1, Zenon
  <2>6. ASSUME NEW n \in 1 .. m - 1
        PROVE  h[n] = g[<<n, h[n - 1]>>]
    <3>1. h[n] = f[n] /\ h[n - 1] = f[n - 1]
      BY <2>4
    <3> HIDE DEF h
    <3> QED
      BY <2>1, <3>1
  <2> HIDE DEF h
  <2>7. h[0] = b
    <3>1. h[0] = f[0]
      BY <2>4
    <3> QED
      BY <2>1, <3>1
  <2>8. Runs(m, h)
    <3>1. ASSUME NEW n \in 1 .. m PROVE h[n] = g[<<n, h[n - 1]>>]
      <4>1. CASE n = m
        BY <2>5, <4>1
      <4>2. CASE n # m
        BY <2>6, <4>2
      <4> QED
        BY <4>1, <4>2
    <3> QED
      BY <2>3, <2>7, <3>1
  <2> QED
    BY <2>8
<1> HIDE DEF T
<1>3. N \in T
  BY <1>1, <1>2, CountedUp
<1>4. PICK f : Runs(N, f)
  BY <1>3 DEF T
<1>5. \A n \in 1 .. N : n \in 0 .. N /\ n # 0 /\ n - 1 \in 0 .. N
  OBVIOUS
<1>6. IsLoop(N, S, b, g, f)
  BY <1>4, <1>5 DEF IsLoop
<1> QED
  BY <1>6

LEMMA LoopStays ==
  ASSUME NEW N \in Nat, NEW S, NEW f, f[0] \in S,
         \A n \in 1 .. N : f[n - 1] \in S => f[n] \in S
  PROVE  \A n \in 0 .. N : f[n] \in S
<1> DEFINE T == {n \in 0 .. N : f[n] \in S}
<1>1. 0 \in T /\ \A n \in 1 .. N : n - 1 \in T => n \in T
  OBVIOUS
<1> HIDE DEF T
<1>2. \A n \in 0 .. N : n \in T
  BY <1>1, CountedUp
<1> QED
  BY <1>2 DEF T

(* Finite sets as the modules of the network count them.                   *)
(* Two loops whose steps agree come to the same. *)
LEMMA LoopSame ==
  ASSUME NEW N \in Nat, NEW f, NEW g, f[0] = g[0],
         \A n \in 1 .. N : f[n - 1] = g[n - 1] => f[n] = g[n]
  PROVE  \A n \in 0 .. N : f[n] = g[n]
<1> DEFINE T == {n \in 0 .. N : f[n] = g[n]}
<1>1. 0 \in T /\ \A n \in 1 .. N : n - 1 \in T => n \in T
  OBVIOUS
<1> HIDE DEF T
<1>2. \A n \in 0 .. N : n \in T
  BY <1>1, CountedUp
<1> QED
  BY <1>2 DEF T

LEMMA NetCounts == \A S : Net!Cardinality(S) = Cardinality(S)
BY Zenon DEF Net!Cardinality, Cardinality

-----------------------------------------------------------------------------
(* The share of the records that is one host's.                            *)

(* What a loop over a sequence does to each of its elements. *)
IsSharing(f, all, zn, h, m) ==
  /\ m[0] = <<>>
  /\ \A n \in 1 .. Len(all) :
       m[n] = IF Net!InShare(f, all[n], zn, h) THEN Append(m[n - 1], all[n]) ELSE m[n - 1]

LEMMA SharingRuns ==
  ASSUME NEW f, NEW zn, NEW h, NEW X, NEW all \in Seq(X)
  PROVE  IsSharing(f, all, zn, h, Net!Sharing(f, all, zn, h))
<1> DEFINE Is(r) == Net!InShare(f, r, zn, h)
           g == [p \in (1 .. Len(all)) \X Seq(X) |->
                   IF Is(all[p[1]]) THEN Append(p[2], all[p[1]]) ELSE p[2]]
           m == Net!Sharing(f, all, zn, h)
<1>1. \A n \in 1 .. Len(all), s \in Seq(X) :
        g[<<n, s>>] = IF Is(all[n]) THEN Append(s, all[n]) ELSE s
  OBVIOUS
<1>2. StaysIn(Len(all), Seq(X), g)
  <2> HIDE DEF Is
  <2> QED
    BY DEF StaysIn
<1> HIDE DEF g
<1>3. PICK c : IsLoop(Len(all), Seq(X), <<>>, g, c)
  <2>1. Len(all) \in Nat /\ <<>> \in Seq(X)
    OBVIOUS
  <2> QED
    BY <1>2, <2>1, LoopEnds
<1>4. c = [n \in 0 .. Len(all) |->
             IF n = 0 THEN <<>> ELSE IF Is(all[n]) THEN Append(c[n - 1], all[n]) ELSE c[n - 1]]
  <2> HIDE DEF Is
  <2>2. \A n \in 1 .. Len(all) : c[n] = IF Is(all[n]) THEN Append(c[n - 1], all[n]) ELSE c[n - 1]
    BY <1>1, <1>3, Zenon DEF IsLoop
  <2>3. \A n \in 0 .. Len(all) :
          c[n] = IF n = 0 THEN <<>> ELSE IF Is(all[n]) THEN Append(c[n - 1], all[n]) ELSE c[n - 1]
    BY <1>3, <2>2, Zenon DEF IsLoop
  <2> QED
    BY <1>3, <2>3, Zenon DEF IsLoop
<1>5. m = [n \in 0 .. Len(all) |->
             IF n = 0 THEN <<>> ELSE IF Is(all[n]) THEN Append(m[n - 1], all[n]) ELSE m[n - 1]]
  BY <1>4, Zenon DEF Net!Sharing
<1> HIDE DEF m, Is
<1>6. /\ m[0] = <<>>
      /\ \A n \in 1 .. Len(all) : m[n] = IF Is(all[n]) THEN Append(m[n - 1], all[n]) ELSE m[n - 1]
  <2>1. m[0] = <<>>
    BY <1>5
  <2>2. ASSUME NEW n \in 1 .. Len(all) PROVE n \in 0 .. Len(all) /\ n # 0
    OBVIOUS
  <2> QED
    BY <1>5, <2>1, <2>2, Zenon
<1> QED
  BY <1>6 DEF m, Is, IsSharing

LEMMA SharePicks ==
  ASSUME NEW f, NEW zn, NEW h, NEW X, NEW all \in Seq(X)
  PROVE  Net!Share(f, all, zn, h) \in Seq({r \in X : Net!InShare(f, r, zn, h)})
<1> DEFINE S == Seq({r \in X : Net!InShare(f, r, zn, h)})
           m == Net!Sharing(f, all, zn, h)
<1>1. IsSharing(f, all, zn, h, m)
  BY SharingRuns
<1> HIDE DEF m
<1> USE DEF IsSharing
<1>2. ASSUME NEW n \in 1 .. Len(all), m[n - 1] \in S
      PROVE  m[n] \in S
  <2>1. all[n] \in X
    OBVIOUS
  <2>2. CASE Net!InShare(f, all[n], zn, h)
    <3>1. m[n] = Append(m[n - 1], all[n]) /\ all[n] \in {r \in X : Net!InShare(f, r, zn, h)}
      BY <1>1, <2>1, <2>2, Zenon
    <3> QED
      BY <1>2, <3>1
  <2>3. CASE ~Net!InShare(f, all[n], zn, h)
    BY <1>1, <1>2, <2>3, Zenon
  <2> QED
    BY <2>2, <2>3
<1>3. m[0] \in S /\ Len(all) \in Nat
  BY <1>1
<1> HIDE DEF S
<1>4. \A n \in 0 .. Len(all) : m[n] \in S
  BY <1>2, <1>3, LoopStays
<1>5. m[Len(all)] \in S
  BY <1>3, <1>4
<1> QED
  BY <1>5 DEF S, m, Net!Share

-----------------------------------------------------------------------------
(* What is to be done about the records of one key: the records wanted are *)
(* matched with the records there are, one after the other.                *)

(* The first of the places that are left.                                  *)
LEMMA LeastPlace ==
  ASSUME NEW S \in SUBSET Nat, S # {}
  PROVE  LET k == CHOOSE i \in S : \A j \in S : i <= j
         IN  k \in S /\ \A j \in S : k <= j
<1>1. PICK x \in S : \A y \in S : ~ <<y, x>> \in OpToRel(<, Nat)
  BY WFMin, NatLessThanWellFounded, Zenon
<1>2. \A y \in S : ~ (y < x)
  BY <1>1, Zenon DEF OpToRel
<1>3. \A y \in S : x <= y
  BY <1>2
<1> QED
  BY <1>3, Zenon

(* The records there are; the calls a plan may make of them: none changes   *)
(* a record that is not there, or that is of another type or name; and what *)
(* a matching has so far.                                                  *)
Elements(s) == {s[i] : i \in DOMAIN s}

IsList(z) == Len(z) \in Nat /\ DOMAIN z = 1 .. Len(z)
Ids(z) == {z[i].id : i \in DOMAIN z}
Names(z, c) == \E i \in DOMAIN z : z[i].id = c.id /\ Net!dnsKey(z[i]) = Net!dnsKey(c.record)
CallsOf(D, z) == {c \in [record : D, id : Ids(z) \cup {0}] : c.id = 0 \/ Names(z, c)}
States(P, D, C) == [used : SUBSET P, missing : Seq(D), changes : Seq(C)]
NoMatch == [used |-> {}, missing |-> <<>>, changes |-> <<>>]
OfKey(D, k) == {d \in D : Net!dnsKey(d) = k}
Stands(z, d) == \E i \in DOMAIN z : Net!dnsKey(z[i]) = Net!dnsKey(d) /\ z[i].value = d.value

LEMMA OneMore ==
  ASSUME NEW X, NEW s \in Seq(X), NEW d \in X
  PROVE  Append(s, d) \in Seq(X) /\ Elements(Append(s, d)) = Elements(s) \cup {d}
<1> DEFINE m == Append(s, d)
<1>1. /\ m \in Seq(X) /\ Len(s) \in Nat /\ DOMAIN s = 1 .. Len(s) /\ DOMAIN m = 1 .. Len(s) + 1
      /\ m[Len(s) + 1] = d /\ \A i \in 1 .. Len(s) : m[i] = s[i]
  OBVIOUS
<1> HIDE DEF m
<1>2. Elements(m) \subseteq Elements(s) \cup {d}
  BY <1>1 DEF Elements
<1>3. ASSUME NEW e \in Elements(s) PROVE e \in Elements(m)
  <2>1. PICK i \in 1 .. Len(s) : e = s[i]
    BY <1>1 DEF Elements
  <2>2. i \in DOMAIN m /\ m[i] = e
    BY <1>1, <2>1
  <2> QED
    BY <2>2 DEF Elements
<1>4. d \in Elements(m)
  <2>1. Len(s) + 1 \in DOMAIN m
    BY <1>1
  <2> QED
    BY <1>1, <2>1 DEF Elements
<1>5. Elements(m) = Elements(s) \cup {d}
  BY <1>2, <1>3, <1>4
<1> QED
  BY <1>1, <1>5 DEF m

Misses(s, d)   == [s EXCEPT !.missing = Append(@, d)]
Takes(s, p, c) == [s EXCEPT !.used = @ \cup {p}, !.changes = c]

LEMMA StateMisses ==
  ASSUME NEW P, NEW D, NEW C, NEW s \in States(P, D, C), NEW d \in D
  PROVE  Misses(s, d) \in States(P, D, C) /\ Elements(Misses(s, d).missing) = Elements(s.missing) \cup {d}
<1> DEFINE m == Append(s.missing, d)
<1>1. s.missing \in Seq(D)
  BY DEF States
<1>2. m \in Seq(D) /\ Elements(m) = Elements(s.missing) \cup {d}
  BY <1>1, OneMore
<1>3. Misses(s, d) = [s EXCEPT !.missing = m]
  BY DEF Misses
<1> HIDE DEF m
<1>4. Misses(s, d) \in States(P, D, C) /\ Misses(s, d).missing = m
  BY <1>2, <1>3 DEF States
<1> QED
  BY <1>2, <1>4

LEMMA StateTakes ==
  ASSUME NEW P, NEW D, NEW C, NEW s \in States(P, D, C), NEW p \in P, NEW c \in Seq(C)
  PROVE  Takes(s, p, c) \in States(P, D, C) /\ Takes(s, p, c).missing = s.missing
BY DEF States, Takes

LEMMA MatchedOne ==
  ASSUME NEW D, NEW z, IsList(z), NEW s \in States(DOMAIN z, D, CallsOf(D, z)), NEW d \in D
  PROVE  LET t == Net!MatchOne(z, s, d)
         IN  /\ t \in States(DOMAIN z, D, CallsOf(D, z))
             /\ Elements(s.missing) \subseteq Elements(t.missing)
             /\ Stands(z, d) \/ d \in Elements(t.missing)
<1> DEFINE hits == {i \in DOMAIN z \ s.used : Net!dnsKey(z[i]) = Net!dnsKey(d) /\ z[i].value = d.value}
           hit  == CHOOSE i \in hits : \A j \in hits : i <= j
           e == [record |-> d, id |-> z[hit].id]
           c == IF d.ttl > 0 /\ z[hit].ttl # d.ttl THEN Append(s.changes, e) ELSE s.changes
           C == CallsOf(D, z)
<1>0. s.changes \in Seq(C)
  BY DEF States
<1>1. CASE hits = {}
  <2>1. Net!MatchOne(z, s, d) = Misses(s, d)
    BY <1>1, Zenon DEF Net!MatchOne, Misses
  <2> QED
    BY <2>1, StateMisses
<1>2. CASE hits # {}
  <2>1. hit \in hits
    <3>1. hits \in SUBSET Nat
      BY DEF IsList
    <3> HIDE DEF hits
    <3> QED
      BY <1>2, <3>1, LeastPlace
  <2>2. Net!MatchOne(z, s, d) = Takes(s, hit, c)
    BY <1>2, Zenon DEF Net!MatchOne, Takes
  <2> HIDE DEF hit
  <2>3. hit \in DOMAIN z /\ Net!dnsKey(z[hit]) = Net!dnsKey(d) /\ z[hit].value = d.value
    BY <2>1
  <2> HIDE DEF hits
  <2>4. e \in C
    BY <2>3 DEF CallsOf, Ids, Names
  <2> HIDE DEF e, C
  <2>5. c \in Seq(C)
    BY <1>0, <2>4
  <2> HIDE DEF c
  <2>6. Takes(s, hit, c) \in States(DOMAIN z, D, C) /\ Takes(s, hit, c).missing = s.missing
    BY <2>3, <2>5, StateTakes DEF C
  <2>7. Stands(z, d)
    BY <2>3, Zenon DEF Stands
  <2> QED
    BY <2>2, <2>6, <2>7 DEF C
<1> QED
  BY <1>1, <1>2

IsMatching(z, w, k, m) ==
  /\ m[0] = NoMatch
  /\ \A n \in 1 .. Len(w) :
       m[n] = IF Net!dnsKey(w[n]) = k THEN Net!MatchOne(z, m[n - 1], w[n]) ELSE m[n - 1]

MatchLoop(z, w, k, c) ==
  c = [n \in 0 .. Len(w) |->
         IF n = 0 THEN NoMatch
         ELSE IF Net!dnsKey(w[n]) = k THEN Net!MatchOne(z, c[n - 1], w[n]) ELSE c[n - 1]]

LEMMA MatchingEnds ==
  ASSUME NEW D, NEW z, IsList(z), NEW w \in Seq(D), NEW k
  PROVE  \E c : MatchLoop(z, w, k, c)
<1> DEFINE S == States(DOMAIN z, D, CallsOf(D, z))
           g == [p \in (1 .. Len(w)) \X S |->
                   IF Net!dnsKey(w[p[1]]) = k THEN Net!MatchOne(z, p[2], w[p[1]]) ELSE p[2]]
<1>1. \A n \in 1 .. Len(w), s \in S :
        g[<<n, s>>] = IF Net!dnsKey(w[n]) = k THEN Net!MatchOne(z, s, w[n]) ELSE s
  BY Zenon
<1>2. StaysIn(Len(w), S, g)
  <2>1. \A n \in 1 .. Len(w) : w[n] \in D
    OBVIOUS
  <2>2. \A n \in 1 .. Len(w), s \in S : Net!MatchOne(z, s, w[n]) \in S
    BY <2>1, MatchedOne
  <2> HIDE DEF S, g
  <2> QED
    BY <1>1, <2>2, Zenon DEF StaysIn
<1>3. NoMatch \in S /\ Len(w) \in Nat
  BY DEF NoMatch, States
<1> HIDE DEF g, S
<1>4. PICK c : IsLoop(Len(w), S, NoMatch, g, c)
  BY <1>2, <1>3, LoopEnds
<1>5. \A n \in 1 .. Len(w) :
        c[n] = IF Net!dnsKey(w[n]) = k THEN Net!MatchOne(z, c[n - 1], w[n]) ELSE c[n - 1]
  BY <1>1, <1>4, Zenon DEF IsLoop
<1>6. \A n \in 0 .. Len(w) :
        c[n] = IF n = 0 THEN NoMatch
               ELSE IF Net!dnsKey(w[n]) = k THEN Net!MatchOne(z, c[n - 1], w[n]) ELSE c[n - 1]
  BY <1>4, <1>5, Zenon DEF IsLoop
<1> QED
  BY <1>4, <1>6, Zenon DEF IsLoop, MatchLoop

LEMMA MatchingRuns ==
  ASSUME NEW D, NEW z, IsList(z), NEW w \in Seq(D), NEW k
  PROVE  IsMatching(z, w, k, Net!Matching(z, w, k))
<1> DEFINE m == Net!Matching(z, w, k)
<1>1. MatchLoop(z, w, k, m)
  <2>1. \E c : MatchLoop(z, w, k, c)
    BY MatchingEnds
  <2> QED
    BY <2>1, Zenon DEF Net!Matching, NoMatch, MatchLoop
<1> HIDE DEF m
<1>2. m[0] = NoMatch /\ \A n \in 1 .. Len(w) : n \in 0 .. Len(w) /\ n # 0
  <2>1. Len(w) \in Nat
    OBVIOUS
  <2> QED
    BY <1>1, <2>1 DEF MatchLoop
<1>3. IsMatching(z, w, k, m)
  BY <1>1, <1>2, Zenon DEF IsMatching, MatchLoop
<1> QED
  BY <1>3 DEF m

LEMMA MatchingStays ==
  ASSUME NEW D, NEW z, IsList(z), NEW w \in Seq(D), NEW k
  PROVE  \A n \in 0 .. Len(w) :
           Net!Matching(z, w, k)[n] \in States(DOMAIN z, OfKey(D, k), CallsOf(OfKey(D, k), z))
<1> DEFINE S == States(DOMAIN z, OfKey(D, k), CallsOf(OfKey(D, k), z))
           m == Net!Matching(z, w, k)
<1>1. IsMatching(z, w, k, m)
  BY MatchingRuns
<1> HIDE DEF m
<1>2. ASSUME NEW n \in 1 .. Len(w), m[n - 1] \in S
      PROVE  m[n] \in S
  <2>1. CASE Net!dnsKey(w[n]) = k
    <3>1. w[n] \in OfKey(D, k)
      BY <2>1 DEF OfKey
    <3>2. Net!MatchOne(z, m[n - 1], w[n]) \in S
      BY <1>2, <3>1, MatchedOne
    <3> HIDE DEF S
    <3> QED
      BY <1>1, <2>1, <3>2, Zenon DEF IsMatching
  <2>2. CASE Net!dnsKey(w[n]) # k
    BY <1>1, <1>2, <2>2, Zenon DEF IsMatching
  <2> QED
    BY <2>1, <2>2
<1>3. m[0] \in S /\ Len(w) \in Nat
  BY <1>1 DEF IsMatching, NoMatch, States
<1> HIDE DEF S
<1>4. \A n \in 0 .. Len(w) : m[n] \in S
  BY <1>2, <1>3, LoopStays
<1> QED
  BY <1>4 DEF m, S

(* A record wanted of the key is there or is missing.                      *)
LEMMA MatchingCovers ==
  ASSUME NEW D, NEW z, IsList(z), NEW w \in Seq(D), NEW k, NEW j \in DOMAIN w, Net!dnsKey(w[j]) = k
  PROVE  Stands(z, w[j]) \/ w[j] \in Elements(Net!Matching(z, w, k)[Len(w)].missing)
<1> DEFINE m == Net!Matching(z, w, k)
           Covers(n) == j <= n => Stands(z, w[j]) \/ w[j] \in Elements(m[n].missing)
           T == {n \in 0 .. Len(w) : Covers(n)}
<1>1. IsMatching(z, w, k, m)
  BY MatchingRuns
<1>2. \A n \in 0 .. Len(w) : m[n] \in States(DOMAIN z, OfKey(D, k), CallsOf(OfKey(D, k), z))
  BY MatchingStays
<1> HIDE DEF m
<1>3. Len(w) \in Nat /\ j \in 1 .. Len(w) /\ 0 \in T
  OBVIOUS
<1>4. ASSUME NEW n \in 1 .. Len(w), n - 1 \in T
      PROVE  n \in T
  <2>1. m[n - 1] \in States(DOMAIN z, OfKey(D, k), CallsOf(OfKey(D, k), z)) /\ Covers(n - 1)
    BY <1>2, <1>4
  <2> HIDE DEF T
  <2>2. CASE Net!dnsKey(w[n]) = k
    <3>1. w[n] \in OfKey(D, k)
      BY <2>2 DEF OfKey
    <3>2. m[n] = Net!MatchOne(z, m[n - 1], w[n])
      BY <1>1, <2>2, Zenon DEF IsMatching
    <3>3. /\ Elements(m[n - 1].missing) \subseteq Elements(m[n].missing)
          /\ Stands(z, w[n]) \/ w[n] \in Elements(m[n].missing)
      BY <2>1, <3>1, <3>2, MatchedOne
    <3>4. j <= n => j = n \/ j <= n - 1
      BY <1>3
    <3>5. Covers(n)
      BY <2>1, <3>3, <3>4
    <3> QED
      BY <3>5 DEF T
  <2>3. CASE Net!dnsKey(w[n]) # k
    <3>1. m[n] = m[n - 1]
      BY <1>1, <2>3, Zenon DEF IsMatching
    <3>2. j <= n => j <= n - 1
      BY <1>3, <2>3
    <3>3. Covers(n)
      BY <2>1, <3>1, <3>2
    <3> QED
      BY <3>3 DEF T
  <2> QED
    BY <2>2, <2>3
<1> HIDE DEF T
<1>5. \A n \in 0 .. Len(w) : n \in T
  BY <1>3, <1>4, CountedUp
<1>6. Len(w) \in T
  BY <1>3, <1>5
<1> QED
  BY <1>3, <1>6 DEF T, m

LEMMA BothParts ==
  ASSUME NEW X, NEW s \in Seq(X), NEW t \in Seq(X)
  PROVE  /\ s \o t \in Seq(X)
         /\ Elements(s) \subseteq Elements(s \o t) /\ Elements(t) \subseteq Elements(s \o t)
<1> DEFINE u == s \o t
<1>1. /\ Len(s) \in Nat /\ Len(t) \in Nat /\ DOMAIN s = 1 .. Len(s) /\ DOMAIN t = 1 .. Len(t)
      /\ DOMAIN u = 1 .. Len(s) + Len(t)
      /\ \A i \in 1 .. Len(s) : u[i] = s[i]
      /\ \A i \in 1 .. Len(t) : u[Len(s) + i] = t[i]
  OBVIOUS
<1> HIDE DEF u
<1>2. ASSUME NEW i \in DOMAIN s PROVE s[i] \in Elements(u)
  <2>1. i \in DOMAIN u /\ u[i] = s[i]
    BY <1>1
  <2> QED
    BY <2>1 DEF Elements
<1>3. ASSUME NEW i \in DOMAIN t PROVE t[i] \in Elements(u)
  <2>1. Len(s) + i \in DOMAIN u /\ u[Len(s) + i] = t[i]
    BY <1>1
  <2> QED
    BY <2>1 DEF Elements
<1>4. Elements(s) \subseteq Elements(u) /\ Elements(t) \subseteq Elements(u)
  BY <1>2, <1>3 DEF Elements
<1> QED
  BY <1>4 DEF u

Serves(t, ds) == \A d \in Elements(ds) : \E c \in Elements(t) : c.record = d

(* What one key comes to: calls for its records, one for each that is      *)
(* missing.                                                                *)
LEMMA SyncKeyCalls ==
  ASSUME NEW D, NEW z, IsList(z), NEW w \in Seq(D), NEW k
  PROVE  LET t == Net!SyncKey(z, w, k)
         IN  /\ t \in Seq(CallsOf(D, z))
             /\ Serves(t, Net!Matching(z, w, k)[Len(w)].missing)
<1> DEFINE E == OfKey(D, k)
           C == CallsOf(E, z)
           s == Net!Matching(z, w, k)[Len(w)]
           rest == {i \in DOMAIN z \ s.used : Net!dnsKey(z[i]) = k}
           update == [record |-> s.missing[1], id |-> z[CHOOSE i \in rest : TRUE].id]
           new == [i \in DOMAIN s.missing |-> [record |-> s.missing[i], id |-> 0]]
           alone == Len(s.missing) = 1 /\ Net!Cardinality(rest) = 1 /\ k[1] \in Net!singleValued
           t == Net!SyncKey(z, w, k)
<1>0. Seq(C) \subseteq Seq(CallsOf(D, z))
  <2>1. C \subseteq CallsOf(D, z)
    BY DEF CallsOf, OfKey
  <2> HIDE DEF C
  <2> QED
    BY <2>1
<1>1. s.missing \in Seq(E) /\ s.changes \in Seq(C)
  <2>1. Len(w) \in 0 .. Len(w)
    OBVIOUS
  <2>2. s \in States(DOMAIN z, E, C)
    BY <2>1, MatchingStays
  <2> HIDE DEF s, E, C
  <2> QED
    BY <2>2 DEF States
<1>2. t = IF alone THEN Append(s.changes, update) ELSE s.changes \o new
  BY Zenon DEF Net!SyncKey
<1> HIDE DEF s
<1>3. CASE alone
  <2>1. rest # {}
    <3> HIDE DEF rest
    <3>1. Net!Cardinality({}) = 0
      BY NetCounts, FS_EmptySet
    <3> SUFFICES ASSUME rest = {} PROVE FALSE
      OBVIOUS
    <3>2. Net!Cardinality(rest) = 0
      BY <3>1, Zenon
    <3> QED
      BY <1>3, <3>2
  <2> DEFINE j == CHOOSE i \in rest : TRUE
  <2>2. j \in DOMAIN z /\ Net!dnsKey(z[j]) = k
    BY <2>1
  <2> HIDE DEF j
  <2>3. s.missing[1] \in E /\ Net!dnsKey(s.missing[1]) = k
    BY <1>1, <1>3 DEF OfKey
  <2>4. [record |-> s.missing[1], id |-> z[j].id] \in C
    BY <2>2, <2>3 DEF CallsOf, Ids, Names
  <2>5. update \in C /\ update.record = s.missing[1]
    BY <2>4 DEF j
  <2> HIDE DEF update, C, E
  <2>6. t = Append(s.changes, update)
    BY <1>2, <1>3, Zenon
  <2> HIDE DEF t
  <2>7. t \in Seq(C) /\ Elements(t) = Elements(s.changes) \cup {update}
    BY <1>1, <2>5, <2>6, OneMore
  <2>8. ASSUME NEW d \in Elements(s.missing) PROVE d = s.missing[1]
    BY <1>1, <1>3 DEF Elements
  <2> HIDE DEF alone
  <2>9. t \in Seq(CallsOf(D, z)) /\ Serves(t, s.missing)
    BY <1>0, <2>5, <2>7, <2>8, Zenon DEF Serves
  <2> QED
    BY <2>9, Zenon DEF s, t
<1>4. CASE ~alone
  <2>1. \A i \in DOMAIN s.missing : [record |-> s.missing[i], id |-> 0] \in C
    BY <1>1 DEF CallsOf
  <2> HIDE DEF C
  <2>2. DOMAIN s.missing = 1 .. Len(s.missing) /\ Len(s.missing) \in Nat
    BY <1>1
  <2>3. new \in [1 .. Len(s.missing) -> C] /\ \A i \in DOMAIN s.missing : new[i].record = s.missing[i]
    BY <2>1, <2>2
  <2>4. t = s.changes \o new
    BY <1>2, <1>4, Zenon
  <2> HIDE DEF new, t
  <2>5. new \in Seq(C) /\ Len(new) = Len(s.missing)
    BY <2>2, <2>3
  <2> HIDE DEF alone
  <2>6. t \in Seq(C) /\ Elements(new) \subseteq Elements(t)
    BY <1>1, <2>4, <2>5, BothParts
  <2>7. ASSUME NEW i \in DOMAIN s.missing PROVE \E c \in Elements(new) : c.record = s.missing[i]
    BY <2>2, <2>3 DEF Elements
  <2>8. t \in Seq(CallsOf(D, z)) /\ Serves(t, s.missing)
    BY <1>0, <2>6, <2>7 DEF Serves, Elements
  <2> QED
    BY <2>8, Zenon DEF s, t
<1> QED
  BY <1>3, <1>4

SyncLoop(z, w, c) ==
  c = [n \in 0 .. Len(w) |->
         IF n = 0 THEN <<>>
         ELSE IF Net!FirstOfKey(w, n) THEN c[n - 1] \o Net!SyncKey(z, w, Net!dnsKey(w[n])) ELSE c[n - 1]]
IsSyncing(z, w, m) ==
  /\ m[0] = <<>>
  /\ \A n \in 1 .. Len(w) :
       m[n] = IF Net!FirstOfKey(w, n) THEN m[n - 1] \o Net!SyncKey(z, w, Net!dnsKey(w[n])) ELSE m[n - 1]

LEMMA SyncingEnds ==
  ASSUME NEW D, NEW z, IsList(z), NEW w \in Seq(D)
  PROVE  \E c : SyncLoop(z, w, c)
<1> DEFINE S == Seq(CallsOf(D, z))
           g == [p \in (1 .. Len(w)) \X S |->
                   IF Net!FirstOfKey(w, p[1])
                   THEN p[2] \o Net!SyncKey(z, w, Net!dnsKey(w[p[1]])) ELSE p[2]]
<1>1. \A n \in 1 .. Len(w), s \in S :
        g[<<n, s>>] = IF Net!FirstOfKey(w, n) THEN s \o Net!SyncKey(z, w, Net!dnsKey(w[n])) ELSE s
  BY Zenon
<1>2. StaysIn(Len(w), S, g)
  <2>1. \A k : Net!SyncKey(z, w, k) \in S
    BY SyncKeyCalls
  <2>2. \A s \in S, t \in S : s \o t \in S
    OBVIOUS
  <2> HIDE DEF S, g
  <2> QED
    BY <1>1, <2>1, <2>2, Zenon DEF StaysIn
<1>3. <<>> \in S /\ Len(w) \in Nat
  OBVIOUS
<1> HIDE DEF g, S
<1>4. PICK c : IsLoop(Len(w), S, <<>>, g, c)
  BY <1>2, <1>3, LoopEnds
<1>5. \A n \in 1 .. Len(w) :
        c[n] = IF Net!FirstOfKey(w, n) THEN c[n - 1] \o Net!SyncKey(z, w, Net!dnsKey(w[n])) ELSE c[n - 1]
  BY <1>1, <1>4, Zenon DEF IsLoop
<1>6. \A n \in 0 .. Len(w) :
        c[n] = IF n = 0 THEN <<>>
               ELSE IF Net!FirstOfKey(w, n) THEN c[n - 1] \o Net!SyncKey(z, w, Net!dnsKey(w[n])) ELSE c[n - 1]
  BY <1>4, <1>5, Zenon DEF IsLoop
<1>7. SyncLoop(z, w, c)
  BY <1>4, <1>6, Zenon DEF IsLoop, SyncLoop
<1> QED
  BY <1>7

LEMMA SyncingRuns ==
  ASSUME NEW D, NEW z, IsList(z), NEW w \in Seq(D)
  PROVE  IsSyncing(z, w, Net!Syncing(z, w))
<1> DEFINE m == Net!Syncing(z, w)
<1>1. SyncLoop(z, w, m)
  <2>1. \E c : SyncLoop(z, w, c)
    BY SyncingEnds
  <2> QED
    BY <2>1, Zenon DEF Net!Syncing, SyncLoop
<1> HIDE DEF m
<1>2. m[0] = <<>> /\ \A n \in 1 .. Len(w) : n \in 0 .. Len(w) /\ n # 0
  <2>1. Len(w) \in Nat
    OBVIOUS
  <2> QED
    BY <1>1, <2>1 DEF SyncLoop
<1>3. IsSyncing(z, w, m)
  BY <1>1, <1>2, Zenon DEF IsSyncing, SyncLoop
<1> QED
  BY <1>3 DEF m

LEMMA SyncingStays ==
  ASSUME NEW D, NEW z, IsList(z), NEW w \in Seq(D)
  PROVE  \A n \in 0 .. Len(w) : Net!Syncing(z, w)[n] \in Seq(CallsOf(D, z))
<1> DEFINE S == Seq(CallsOf(D, z))
           m == Net!Syncing(z, w)
<1>1. IsSyncing(z, w, m)
  BY SyncingRuns
<1> HIDE DEF m
<1>2. \A k : Net!SyncKey(z, w, k) \in S
  BY SyncKeyCalls
<1>3. \A s \in S, t \in S : s \o t \in S
  OBVIOUS
<1>4. <<>> \in S /\ Len(w) \in Nat
  OBVIOUS
<1> HIDE DEF S
<1>5. ASSUME NEW n \in 1 .. Len(w), m[n - 1] \in S
      PROVE  m[n] \in S
  BY <1>1, <1>2, <1>3, <1>5, Zenon DEF IsSyncing
<1>6. m[0] \in S
  BY <1>1, <1>4 DEF IsSyncing
<1>7. \A n \in 0 .. Len(w) : m[n] \in S
  BY <1>4, <1>5, <1>6, LoopStays
<1> QED
  BY <1>7 DEF S, m

(* Every call of a plan is for a record that is wanted, and either creates *)
(* it or changes a record there is of its type and name: what others put   *)
(* in the domain is left alone (dnssync.go, PlanDNSSync).                  *)
THEOREM PlannedCalls ==
  ASSUME NEW D, NEW z, IsList(z), NEW w \in Seq(D)
  PROVE  Net!PlanDNSSync(z, w) \in Seq(CallsOf(D, z))
<1>1. Len(w) \in 0 .. Len(w)
  OBVIOUS
<1> QED
  BY <1>1, SyncingStays DEF Net!PlanDNSSync

(* Every record that is wanted is there already or has a call of the plan, *)
(* whatever of its type and name there is (dnssync.go, PlanDNSSync).       *)
THEOREM PlanSuffices ==
  ASSUME NEW D, NEW z, IsList(z), NEW w \in Seq(D), NEW i \in DOMAIN w
  PROVE  Stands(z, w[i]) \/ \E c \in Elements(Net!PlanDNSSync(z, w)) : c.record = w[i]
<1> DEFINE k == Net!dnsKey(w[i])
           P == {n \in DOMAIN w : Net!dnsKey(w[n]) = k}
           j == CHOOSE n \in P : \A l \in P : n <= l
           t == Net!SyncKey(z, w, k)
           m == Net!Syncing(z, w)
           S == Seq(CallsOf(D, z))
           T == {n \in 0 .. Len(w) : j <= n => Elements(t) \subseteq Elements(m[n])}
<1>1. Len(w) \in Nat /\ DOMAIN w = 1 .. Len(w)
  OBVIOUS
<1>2. j \in P /\ \A l \in P : j <= l
  <2>1. P \in SUBSET Nat /\ P # {}
    BY <1>1
  <2> HIDE DEF P
  <2> QED
    BY <2>1, LeastPlace
<1> HIDE DEF j
<1>3. j \in 1 .. Len(w) /\ Net!dnsKey(w[j]) = k
  BY <1>1, <1>2
<1>4. Net!FirstOfKey(w, j)
  <2> SUFFICES ASSUME NEW n \in 1 .. j - 1, Net!dnsKey(w[n]) = Net!dnsKey(w[j]) PROVE FALSE
    BY DEF Net!FirstOfKey
  <2>1. n \in P
    BY <1>1, <1>3
  <2> QED
    BY <1>2, <1>3, <2>1
<1> HIDE DEF P
<1>5. IsSyncing(z, w, m) /\ \A n \in 0 .. Len(w) : m[n] \in S
  BY SyncingRuns, SyncingStays
<1>6. \A q : Net!SyncKey(z, w, q) \in S
  BY SyncKeyCalls
<1>7. Serves(t, Net!Matching(z, w, k)[Len(w)].missing)
  BY SyncKeyCalls
<1> HIDE DEF m, t
<1>8. 0 \in T
  BY <1>3
<1>9. ASSUME NEW n \in 1 .. Len(w), n - 1 \in T PROVE n \in T
  <2>1. n - 1 \in 0 .. Len(w) /\ n \in 0 .. Len(w) /\ (j <= n => j = n \/ j <= n - 1)
    BY <1>3
  <2>2. m[n - 1] \in S /\ (j <= n - 1 => Elements(t) \subseteq Elements(m[n - 1]))
    BY <1>5, <1>9, <2>1
  <2>3. CASE Net!FirstOfKey(w, n)
    <3>1. m[n] = m[n - 1] \o Net!SyncKey(z, w, Net!dnsKey(w[n]))
      BY <1>5, <2>3, Zenon DEF IsSyncing
    <3>2. /\ Elements(m[n - 1]) \subseteq Elements(m[n])
          /\ Elements(Net!SyncKey(z, w, Net!dnsKey(w[n]))) \subseteq Elements(m[n])
      BY <1>6, <2>2, <3>1, BothParts
    <3>3. j = n => Elements(t) \subseteq Elements(m[n])
      BY <1>3, <3>2, Zenon DEF t
    <3> QED
      BY <2>1, <2>2, <3>2, <3>3
  <2>4. CASE ~Net!FirstOfKey(w, n)
    <3>1. m[n] = m[n - 1] /\ j # n
      BY <1>4, <1>5, <2>4, Zenon DEF IsSyncing
    <3> QED
      BY <2>1, <2>2, <3>1
  <2> QED
    BY <2>3, <2>4
<1> HIDE DEF T
<1>10. \A n \in 0 .. Len(w) : n \in T
  BY <1>1, <1>8, <1>9, CountedUp
<1>11. Elements(t) \subseteq Elements(m[Len(w)])
  <2>1. Len(w) \in T /\ j <= Len(w)
    BY <1>1, <1>3, <1>10
  <2> QED
    BY <2>1 DEF T
<1>12. Stands(z, w[i]) \/ w[i] \in Elements(Net!Matching(z, w, k)[Len(w)].missing)
  BY MatchingCovers
<1> HIDE DEF k
<1>13. Stands(z, w[i]) \/ \E c \in Elements(m[Len(w)]) : c.record = w[i]
  BY <1>7, <1>11, <1>12 DEF Serves
<1> QED
  BY <1>13 DEF m, Net!PlanDNSSync

-----------------------------------------------------------------------------
(* The records of a fleet.yml that is not refused, and what each of its     *)
(* hosts wants of them.                                                    *)

LEMMA NetFinite == \A S : Net!IsFiniteSet(S) = IsFiniteSet(S)
BY Zenon DEF Net!IsFiniteSet, IsFiniteSet

(* A finite set in an order is a sequence of its elements.                 *)
LEMMA InSomeOrder ==
  ASSUME NEW S, IsFiniteSet(S)
  PROVE  Net!InOrder(S) \in Seq(S)
<1>1. Cardinality(S) \in Nat /\ Net!Cardinality(S) = Cardinality(S)
  BY NetCounts, FS_CardinalityType
<1>2. PICK s : s \in [1 .. Cardinality(S) -> S] /\ \A r \in S : \E i \in 1 .. Cardinality(S) : s[i] = r
  BY FS_CardinalityType DEF ExistsBijection, Bijection, Surjection
<1>3. s \in [1 .. Net!Cardinality(S) -> S] /\ \A r \in S : \E i \in DOMAIN s : s[i] = r
  BY <1>1, <1>2
<1>4. Net!InOrder(S) \in [1 .. Net!Cardinality(S) -> S]
  BY <1>3, Zenon DEF Net!InOrder
<1> QED
  BY <1>1, <1>4

LEMMA ListElements ==
  ASSUME NEW X, NEW s \in Seq(X)
  PROVE  IsList(s) /\ s \in Seq(Elements(s)) /\ Elements(s) \subseteq X
BY DEF IsList, Elements

(* Records that stand: nobody else claims the name and type of one.        *)
LEMMA RecordsStand ==
  ASSUME NEW f, NEW svcs, IsList(f.records), IsFiniteSet(DOMAIN svcs),
         Net!DNSRecordsByHost(f, svcs) # Net!Refused
  PROVE  LET all == Net!DNSRecordsByHost(f, svcs)
         IN  all \in Seq(Elements(all)) /\ ~Net!ClaimedTwice(f, Elements(all))
<1> DEFINE recs == [i \in DOMAIN f.records |-> Net!Declared(f, svcs, f.records[i])]
           R == Net!RoutedHere(f, svcs)
           S == {Net!RouteRecord(f, svcs[n]) : n \in R}
           all == recs \o Net!InOrder(S)
<1>1. Net!DNSRecordsByHost(f, svcs) = all /\ ~Net!ClaimedTwice(f, {all[i] : i \in DOMAIN all})
  BY Zenon DEF Net!DNSRecordsByHost
<1>2. IsFiniteSet(S)
  <2> DEFINE g == [n \in R |-> Net!RouteRecord(f, svcs[n])]
  <2>1. R \subseteq DOMAIN svcs
    BY DEF Net!RoutedHere, Net!Routed
  <2>2. IsFiniteSet(R)
    BY <2>1, FS_Subset
  <2>3. g \in Surjection(R, S)
    <3> HIDE DEF R
    <3>1. g \in [R -> S]
      OBVIOUS
    <3>2. ASSUME NEW t \in S PROVE \E n \in R : g[n] = t
      OBVIOUS
    <3> HIDE DEF g, S
    <3> QED
      BY <3>1, <3>2, Zenon DEF Surjection
  <2> HIDE DEF g, R, S
  <2> QED
    BY <2>2, <2>3, FS_Surjection
<1>3. Net!InOrder(S) \in Seq(S)
  BY <1>2, InSomeOrder
<1>4. recs \in Seq(Elements(recs))
  <2>1. recs = [i \in 1 .. Len(f.records) |-> recs[i]] /\ Len(f.records) \in Nat
    BY DEF IsList
  <2> HIDE DEF recs
  <2>2. recs \in [1 .. Len(f.records) -> Elements(recs)]
    BY <2>1 DEF Elements
  <2> QED
    BY <2>1, <2>2
<1> HIDE DEF recs, S, R
<1>5. all \in Seq(Elements(recs) \cup S)
  BY <1>3, <1>4
<1> HIDE DEF all
<1>6. all \in Seq(Elements(all))
  BY <1>5, ListElements
<1> QED
  BY <1>1, <1>6, Zenon DEF Elements

(* What a fleet.yml is, whatever people make of it.                        *)
YmlOk(y) ==
  /\ y = [x \in DOMAIN y |-> y[x]] /\ {"hosts", "records"} \subseteq DOMAIN y
  /\ y.hosts \in SUBSET Hosts /\ IsList(y.records)

LEMMA RecordsOk ==
  ASSUME NEW y, YmlOk(y), Net!RecordsOf(y) # Net!Refused
  PROVE  Net!RecordsOf(y) \in Seq(Elements(Net!RecordsOf(y))) /\ ~Net!ClaimedTwice(Net!DnsFleet(y), Elements(Net!RecordsOf(y)))
<1>1. IsList(Net!DnsFleet(y).records)
  BY DEF YmlOk, Net!DnsFleet
<1>2. IsFiniteSet(DOMAIN Net!Services(y))
  <2>1. DOMAIN Net!Services(y) = {"app"}
    BY DEF Net!Services
  <2> QED
    BY <2>1, FS_Singleton
<1> QED
  BY <1>1, <1>2, RecordsStand, Zenon DEF Net!RecordsOf

(* What a daemon wants is in its share of the records.                     *)
Wants(y, d, p) ==
  \E r \in Elements(Net!RecordsOf(y)) :
    Net!InShare(Net!DnsFleet(y), r, Net!Domain, d) /\ p.type = r.type /\ p.name = r.name

LEMMA DesiredOk ==
  ASSUME NEW y, NEW d, YmlOk(y)
  PROVE  /\ Net!Desired(y, d) \in Seq(Elements(Net!Desired(y, d)))
         /\ Net!Desired(y, d) # <<>> => Net!RecordsOf(y) # Net!Refused
         /\ \A p \in Elements(Net!Desired(y, d)) : Wants(y, d, p)
<1>1. CASE Net!Refuses(y, d)
  <2>1. Net!Desired(y, d) = <<>>
    BY <1>1, Zenon DEF Net!Desired
  <2> QED
    BY <1>1, <2>1 DEF Elements
<1>2. CASE ~Net!Refuses(y, d)
  <2> DEFINE In == {r \in Elements(Net!RecordsOf(y)) : Net!InShare(Net!DnsFleet(y), r, Net!Domain, d)}
             rs == Net!ShareOf(y, d)
             ps == Net!AsWanted(rs)
  <2>0. Net!RecordsOf(y) # Net!Refused
    BY <1>2, Zenon DEF Net!Refuses
  <2>1. rs \in Seq(In)
    BY <2>0, RecordsOk, SharePicks DEF Net!ShareOf
  <2>2. Net!Desired(y, d) = ps
    BY <1>2, Zenon DEF Net!Desired
  <2> HIDE DEF rs, In
  <2>3. ps = [i \in 1 .. Len(rs) |-> ps[i]] /\ Len(rs) \in Nat
    BY <2>1 DEF Net!AsWanted
  <2>4. ps \in Seq(Elements(ps))
    <3> HIDE DEF ps
    <3>1. ps \in [1 .. Len(rs) -> Elements(ps)]
      BY <2>3 DEF Elements
    <3> QED
      BY <2>3, <3>1
  <2>5. ASSUME NEW i \in DOMAIN ps
        PROVE  Wants(y, d, ps[i])
    <3>1. rs[i] \in In /\ ps[i].type = rs[i].type /\ ps[i].name = rs[i].name
      BY <2>1 DEF Net!AsWanted
    <3> QED
      BY <3>1 DEF In, Wants
  <2> HIDE DEF ps
  <2> QED
    BY <2>0, <2>2, <2>4, <2>5 DEF Elements
<1> QED
  BY <1>1, <1>2

(* Two hosts of a fleet never want records of one key.                     *)
LEMMA OneHostEach ==
  ASSUME Net!Assumption, NEW y, YmlOk(y), NEW d \in y.hosts, NEW e \in y.hosts, d # e,
         NEW p, NEW q, Wants(y, d, p), Wants(y, e, q), Net!RecordsOf(y) # Net!Refused
  PROVE  Net!dnsKey(p) # Net!dnsKey(q)
<1>1. Net!Cardinality(Net!DnsFleet(y).hosts) >= 2
  <2>1. IsFiniteSet(y.hosts)
    BY NetFinite, FS_Subset DEF Net!Assumption, YmlOk
  <2>2. IsFiniteSet({d, e}) /\ Cardinality({d, e}) = 2
    <3>1. IsFiniteSet({d}) /\ Cardinality({d}) = 1
      BY FS_Singleton
    <3>2. {d, e} = {d} \cup {e} /\ e \notin {d}
      OBVIOUS
    <3>3. IsFiniteSet({d} \cup {e}) /\ Cardinality({d} \cup {e}) = Cardinality({d}) + 1
      BY <3>1, <3>2, FS_AddElement, Zenon
    <3>4. Cardinality({d} \cup {e}) = 2
      BY <3>1, <3>3
    <3> QED
      BY <3>2, <3>3, <3>4, Zenon
  <2>3. {d, e} \in SUBSET y.hosts
    OBVIOUS
  <2>4. Cardinality({d, e}) <= Cardinality(y.hosts) /\ Cardinality(y.hosts) \in Nat
    BY <2>1, <2>3, FS_Subset, FS_CardinalityType
  <2>5. Net!Cardinality(y.hosts) = Cardinality(y.hosts) /\ Net!DnsFleet(y).hosts = y.hosts
    BY NetCounts DEF Net!DnsFleet
  <2> DEFINE c == Cardinality(y.hosts)
  <2>6. c >= 2
    BY <2>2, <2>4
  <2> HIDE DEF c
  <2> QED
    BY <2>5, <2>6, Zenon DEF c
<1> DEFINE f == Net!DnsFleet(y)
<1>2. PICK r \in Elements(Net!RecordsOf(y)) : Net!InShare(f, r, Net!Domain, d) /\ p.type = r.type /\ p.name = r.name
  BY DEF Wants
<1>3. PICK o \in Elements(Net!RecordsOf(y)) : Net!InShare(f, o, Net!Domain, e) /\ q.type = o.type /\ q.name = o.name
  BY DEF Wants
<1> HIDE DEF f
<1>4. r.zone = o.zone /\ r.host = d /\ o.host = e
  BY <1>1, <1>2, <1>3, Zenon DEF Net!InShare, f
<1>5. ~Net!ClaimedTwice(f, Elements(Net!RecordsOf(y)))
  BY RecordsOk DEF f
<1>6. ~(r.name = o.name /\ r.type = o.type)
  BY <1>4, <1>5, Zenon DEF Net!ClaimedTwice, Net!SameName
<1> QED
  BY <1>2, <1>3, <1>6 DEF Net!dnsKey

-----------------------------------------------------------------------------
(* The invariant: the calls a daemon has still to make are for records it   *)
(* wants by the fleet.yml it planned with, a fleet.yml that has the host.  *)

Writing(d) ==
  /\ apply[d] # "idle" => YmlOk(plan[d].y) /\ d \in plan[d].y.hosts
  /\ todo[d] # <<>> => apply[d] = "call"
  /\ todo[d] \in Seq(Elements(todo[d]))
  /\ \A c \in Elements(todo[d]) : c.record \in Elements(Net!Desired(plan[d].y, d))

WriterInv ==
  /\ zone \in Seq(Elements(zone)) /\ YmlOk(yml)
  /\ apply = [d \in Hosts |-> apply[d]] /\ plan = [d \in Hosts |-> plan[d]] /\ todo = [d \in Hosts |-> todo[d]]
  /\ \A d \in Hosts : Writing(d)

LEMMA WriterOnce == ASSUME Net!Assumption PROVE WriterInv => OneWriter
<1> SUFFICES ASSUME WriterInv, NEW d \in Hosts, NEW e \in Hosts, d # e, todo[d] # <<>>, todo[e] # <<>>,
                    plan[d].y = plan[e].y, NEW i \in DOMAIN todo[d], NEW j \in DOMAIN todo[e]
             PROVE  Net!dnsKey(todo[d][i].record) # Net!dnsKey(todo[e][j].record)
  BY DEF OneWriter, Net!OneWriter
<1> DEFINE y == plan[d].y
           p == todo[d][i].record
           q == todo[e][j].record
<1>1. Writing(d) /\ Writing(e)
  BY DEF WriterInv
<1>2. YmlOk(y) /\ d \in y.hosts /\ e \in y.hosts
  BY <1>1 DEF Writing
<1>3. p \in Elements(Net!Desired(y, d)) /\ q \in Elements(Net!Desired(y, e))
  BY <1>1 DEF Writing, Elements
<1> HIDE DEF y, p, q
<1>4. Wants(y, d, p) /\ Wants(y, e, q)
  BY <1>2, <1>3, DesiredOk
<1>5. Net!Desired(y, d) # <<>>
  BY <1>3 DEF Elements
<1>6. Net!RecordsOf(y) # Net!Refused
  BY <1>2, <1>5, DesiredOk
<1>7. Net!dnsKey(p) # Net!dnsKey(q)
  BY <1>2, <1>4, <1>6, OneHostEach
<1> QED
  BY <1>7 DEF p, q

LEMMA TailOk ==
  ASSUME NEW X, NEW s \in Seq(X), s # <<>>
  PROVE  Tail(s) \in Seq(X) /\ Head(s) \in X
OBVIOUS

LEMMA ZoneCalled ==
  ASSUME NEW z, z \in Seq(Elements(z)), NEW c
  PROVE  Net!Called(z, c) \in Seq(Elements(Net!Called(z, c)))
<1> DEFINE new == [type |-> c.record.type, name |-> c.record.name, value |-> c.record.value,
                   ttl |-> IF c.record.ttl > 0 THEN c.record.ttl ELSE Net!DefaultTTL, id |-> Net!FreshId(z)]
           put(i) == IF z[i].id # c.id THEN z[i]
                     ELSE [z[i] EXCEPT !.value = c.record.value,
                                       !.ttl = IF c.record.ttl > 0 THEN c.record.ttl ELSE @]
           upd == [i \in DOMAIN z |-> put(i)]
<1>1. Net!Called(z, c) = IF c.id = 0 THEN Append(z, new) ELSE upd
  BY Zenon DEF Net!Called
<1> HIDE DEF new, put
<1>2. Append(z, new) \in Seq(Elements(Append(z, new)))
  <2>1. Append(z, new) \in Seq(Elements(z) \cup {new})
    OBVIOUS
  <2> QED
    BY <2>1, ListElements
<1>3. upd \in Seq(Elements(upd))
  <2>1. upd = [i \in 1 .. Len(z) |-> upd[i]] /\ Len(z) \in Nat
    OBVIOUS
  <2> HIDE DEF upd
  <2>2. upd \in [1 .. Len(z) -> Elements(upd)]
    BY <2>1 DEF Elements
  <2> QED
    BY <2>1, <2>2
<1> QED
  BY <1>1, <1>2, <1>3

LEMMA ZoneEdited ==
  ASSUME NEW z, z \in Seq(Elements(z)), NEW i \in DOMAIN z, NEW r
  PROVE  [z EXCEPT ![i] = r] \in Seq(Elements([z EXCEPT ![i] = r]))
<1>1. [z EXCEPT ![i] = r] \in Seq(Elements(z) \cup {r})
  <2>1. z \in Seq(Elements(z) \cup {r})
    OBVIOUS
  <2> QED
    BY <2>1
<1> QED
  BY <1>1, ListElements

(* What one daemon does leaves the others' as they are.                    *)
LEMMA OneWrites ==
  ASSUME WriterInv, NEW d \in Hosts, NEW a, NEW p, NEW t,
         apply' = [apply EXCEPT ![d] = a], plan' = [plan EXCEPT ![d] = p], todo' = [todo EXCEPT ![d] = t],
         zone' \in Seq(Elements(zone')), yml' = yml,
         a # "idle" => YmlOk(p.y) /\ d \in p.y.hosts,
         t # <<>> => a = "call",
         t \in Seq(Elements(t)),
         \A c \in Elements(t) : c.record \in Elements(Net!Desired(p.y, d))
  PROVE  WriterInv'
<1>1. /\ apply'[d] = a /\ plan'[d] = p /\ todo'[d] = t
      /\ \A e \in Hosts \ {d} : apply'[e] = apply[e] /\ plan'[e] = plan[e] /\ todo'[e] = todo[e]
      /\ apply' = [e \in Hosts |-> apply'[e]] /\ plan' = [e \in Hosts |-> plan'[e]] /\ todo' = [e \in Hosts |-> todo'[e]]
  BY DEF WriterInv
<1>2. Writing(d)'
  BY <1>1, Zenon DEF Writing
<1>3. ASSUME NEW e \in Hosts \ {d} PROVE Writing(e)'
  <2>1. Writing(e)
    BY DEF WriterInv
  <2> QED
    BY <1>1, <2>1, Zenon DEF Writing
<1> QED
  BY <1>1, <1>2, <1>3 DEF WriterInv

LEMMA WriterStops ==
  ASSUME WriterInv, NEW d \in Hosts, Net!Stop(d), UNCHANGED <<zone, yml>>
  PROVE  WriterInv'
<1>1. <<>> \in Seq(Elements(<<>>)) /\ Elements(<<>>) = {}
  BY DEF Elements
<1> QED
  BY <1>1, OneWrites DEF Net!Stop, WriterInv

(* An apply that goes on, before it has its calls and after.               *)
LEMMA WriterGoes ==
  ASSUME WriterInv, NEW d \in Hosts, NEW s, Net!Goto(d, s), UNCHANGED <<zone, yml, plan, todo>>,
         apply[d] # "idle", todo[d] = <<>>
  PROVE  WriterInv'
<1>1. plan' = [plan EXCEPT ![d] = plan[d]] /\ todo' = [todo EXCEPT ![d] = <<>>]
  BY DEF WriterInv
<1>2. <<>> \in Seq(Elements(<<>>)) /\ Elements(<<>>) = {}
  BY DEF Elements
<1> QED
  BY <1>1, <1>2, OneWrites DEF Net!Goto, WriterInv, Writing

LEMMA WriterPlans ==
  ASSUME WriterInv, NEW d \in Hosts, Net!Plan(d)
  PROVE  WriterInv'
<1> DEFINE p == Net!PlanFleet(yml, d)
<1>1. /\ plan' = [plan EXCEPT ![d] = p] /\ apply' = [apply EXCEPT ![d] = "mesh"]
      /\ apply[d] = "idle" /\ d \in yml.hosts /\ UNCHANGED <<zone, yml, todo>>
  BY DEF Net!Plan, Net!Goto, Net!DaemonHost
<1>2. p.y = yml
  BY DEF Net!PlanFleet
<1> HIDE DEF p
<1>3. todo' = [todo EXCEPT ![d] = <<>>]
  BY <1>1 DEF WriterInv, Writing
<1>4. <<>> \in Seq(Elements(<<>>)) /\ Elements(<<>>) = {}
  BY DEF Elements
<1>5. YmlOk(p.y) /\ d \in p.y.hosts
  BY <1>1, <1>2 DEF WriterInv
<1> QED
  BY <1>1, <1>3, <1>4, <1>5, OneWrites DEF WriterInv

LEMMA WriterLists ==
  ASSUME WriterInv, NEW d \in Hosts, Net!DnsList(d)
  PROVE  WriterInv'
<1> DEFINE D == Elements(Net!Desired(plan[d].y, d))
           t == Net!PlanDNSSync(zone, Net!Desired(plan[d].y, d))
<1>1. /\ apply[d] = "list" /\ todo' = [todo EXCEPT ![d] = t] /\ apply' = [apply EXCEPT ![d] = "call"]
      /\ UNCHANGED <<zone, yml, plan>>
  BY DEF Net!DnsList, Net!Goto
<1>2. YmlOk(plan[d].y) /\ d \in plan[d].y.hosts
  BY <1>1 DEF WriterInv, Writing
<1>3. Net!Desired(plan[d].y, d) \in Seq(D)
  BY <1>2, DesiredOk
<1>4. IsList(zone)
  BY ListElements DEF WriterInv
<1>5. t \in Seq(CallsOf(D, zone))
  BY <1>3, <1>4, PlannedCalls
<1> HIDE DEF t
<1>6. t \in Seq(Elements(t)) /\ Elements(t) \subseteq CallsOf(D, zone)
  BY <1>5, ListElements
<1>7. \A c \in Elements(t) : c.record \in D
  BY <1>6 DEF CallsOf
<1>8. plan' = [plan EXCEPT ![d] = plan[d]]
  BY <1>1 DEF WriterInv
<1> QED
  BY <1>1, <1>2, <1>6, <1>7, <1>8, OneWrites DEF WriterInv

LEMMA WriterCalls ==
  ASSUME WriterInv, NEW d \in Hosts, Net!DnsCall(d)
  PROVE  WriterInv'
<1>1. apply[d] = "call" /\ yml' = yml /\ Writing(d)
  BY DEF Net!DnsCall, WriterInv
<1>2. CASE todo[d] = <<>>
  BY <1>1, <1>2, WriterGoes, Zenon DEF Net!DnsCall
<1>3. CASE todo[d] # <<>> /\ ~Net!Accepted(zone, Head(todo[d]))
  BY <1>1, <1>3, WriterStops, Zenon DEF Net!DnsCall
<1>4. CASE todo[d] # <<>> /\ Net!Accepted(zone, Head(todo[d]))
  <2> DEFINE t == Tail(todo[d])
  <2>1. zone' = Net!Called(zone, Head(todo[d])) /\ todo' = [todo EXCEPT ![d] = t] /\ UNCHANGED <<apply, plan>>
    BY <1>4, Zenon DEF Net!DnsCall
  <2>2. zone' \in Seq(Elements(zone'))
    BY <2>1, ZoneCalled DEF WriterInv
  <2>3. t \in Seq(Elements(todo[d]))
    <3>1. todo[d] \in Seq(Elements(todo[d]))
      BY <1>1 DEF Writing
    <3> QED
      BY <1>4, <3>1, TailOk
  <2> HIDE DEF t
  <2>4. t \in Seq(Elements(t)) /\ Elements(t) \subseteq Elements(todo[d])
    BY <2>3, ListElements
  <2>5. apply' = [apply EXCEPT ![d] = "call"] /\ plan' = [plan EXCEPT ![d] = plan[d]]
    BY <1>1, <2>1 DEF WriterInv
  <2>6. \A c \in Elements(t) : c.record \in Elements(Net!Desired(plan[d].y, d))
    BY <1>1, <2>4 DEF Writing
  <2>7. YmlOk(plan[d].y) /\ d \in plan[d].y.hosts
    BY <1>1 DEF Writing
  <2> QED
    BY <1>1, <2>1, <2>2, <2>4, <2>5, <2>6, <2>7, OneWrites
<1> QED
  BY <1>2, <1>3, <1>4

LEMMA WriterSteps ==
  ASSUME WriterInv, NEW d \in Hosts, Net!Daemon(d) \/ Net!Fail(d)
  PROVE  WriterInv'
<1>0. Writing(d)
  BY DEF WriterInv
<1>1. CASE Net!Plan(d)
  BY <1>1, WriterPlans
<1>2. CASE Net!MeshBegin(d)
  <2>1. apply[d] = "mesh" /\ todo[d] = <<>> /\ UNCHANGED <<yml, zone>>
    BY <1>0, <1>2 DEF Net!MeshBegin, Writing
  <2>2. Net!Stop(d) \/ \E s : Net!Goto(d, s) /\ UNCHANGED <<plan, todo>>
    BY <1>2, Zenon DEF Net!MeshBegin
  <2>3. CASE Net!Stop(d)
    BY <2>1, <2>3, WriterStops
  <2>4. CASE \E s : Net!Goto(d, s) /\ UNCHANGED <<plan, todo>>
    BY <2>1, <2>4, WriterGoes
  <2> QED
    BY <2>2, <2>3, <2>4
<1>3. CASE Net!MeshCommand(d)
  <2>1. PICK i \in DOMAIN Net!Steps :
          /\ apply[d] = Net!Steps[i] /\ UNCHANGED <<yml, zone, plan, todo>>
          /\ Net!Goto(d, IF i = Len(Net!Steps) THEN "dns" ELSE Net!Steps[i + 1])
    BY <1>3, Zenon DEF Net!MeshCommand
  <2>2. apply[d] \notin {"idle", "call"}
    BY <2>1 DEF Net!Steps
  <2>3. todo[d] = <<>>
    BY <1>0, <2>2 DEF Writing
  <2> QED
    BY <2>1, <2>2, <2>3, WriterGoes
<1>4. CASE Net!DnsCheck(d)
  <2>1. apply[d] = "dns" /\ todo[d] = <<>> /\ UNCHANGED <<yml, zone>>
    BY <1>0, <1>4 DEF Net!DnsCheck, Writing
  <2>2. Net!Stop(d) \/ \E s : Net!Goto(d, s) /\ UNCHANGED <<plan, todo>>
    BY <1>4, Zenon DEF Net!DnsCheck
  <2>3. CASE Net!Stop(d)
    BY <2>1, <2>3, WriterStops
  <2>4. CASE \E s : Net!Goto(d, s) /\ UNCHANGED <<plan, todo>>
    BY <2>1, <2>4, WriterGoes
  <2> QED
    BY <2>2, <2>3, <2>4
<1>5. CASE Net!DnsList(d)
  BY <1>5, WriterLists
<1>6. CASE Net!DnsCall(d)
  BY <1>6, WriterCalls
<1>7. CASE Net!ApplyService(d)
  BY <1>7, WriterStops DEF Net!ApplyService
<1>8. CASE Net!Fail(d)
  BY <1>8, WriterStops DEF Net!Fail
<1> QED
  BY <1>1, <1>2, <1>3, <1>4, <1>5, <1>6, <1>7, <1>8 DEF Net!Daemon

(* An edit of fleet.yml leaves what a daemon applies as it was planned.    *)
LEMMA EditedOk ==
  ASSUME NEW y, YmlOk(y), NEW f, NEW v,
         f # "hosts" \/ v \in SUBSET Hosts, f # "records"
  PROVE  YmlOk([y EXCEPT ![f] = v])
BY DEF YmlOk, IsList

LEMMA WriterEdited ==
  ASSUME WriterInv, UNCHANGED <<apply, plan, todo>>, zone' \in Seq(Elements(zone')), YmlOk(yml')
  PROVE  WriterInv'
BY DEF WriterInv, Writing

LEMMA WriterPeople ==
  ASSUME Net!Assumption, WriterInv, NEW h \in Hosts,
         Net!CommitKey(h) \/ Net!AddHost(h) \/ Net!MoveEndpoint(h) \/ Net!MoveApp(h)
  PROVE  WriterInv'
<1>0. YmlOk(yml) /\ zone \in Seq(Elements(zone)) /\ yml.hosts \in SUBSET Hosts
  BY DEF WriterInv, YmlOk
<1>1. zone' = zone /\ UNCHANGED <<apply, plan, todo>>
  BY DEF Net!CommitKey, Net!AddHost, Net!MoveEndpoint, Net!MoveApp
<1>2. \E f, v : yml' = [yml EXCEPT ![f] = v] /\ f # "records" /\ (f # "hosts" \/ v \in SUBSET Hosts)
  <2>1. CASE Net!CommitKey(h)
    <3>1. yml' = [yml EXCEPT !["key"] = [yml.key EXCEPT ![h] = st[h].pub]]
      BY <2>1 DEF Net!CommitKey
    <3> QED
      BY <3>1, Zenon
  <2>2. CASE Net!AddHost(h)
    <3>1. yml' = [yml EXCEPT !["hosts"] = yml.hosts \cup {h}]
      BY <2>2 DEF Net!AddHost
    <3>2. yml.hosts \cup {h} \in SUBSET Hosts
      BY <1>0
    <3> QED
      BY <3>1, <3>2
  <2>3. CASE Net!MoveEndpoint(h)
    <3>1. yml' = [yml EXCEPT !["ep"] = [yml.ep EXCEPT ![h] = 1 - @]]
      BY <2>3 DEF Net!MoveEndpoint
    <3> QED
      BY <3>1, Zenon
  <2>4. CASE Net!MoveApp(h)
    <3>1. yml' = [yml EXCEPT !["home"] = h]
      BY <2>4 DEF Net!MoveApp
    <3> QED
      BY <3>1, Zenon
  <2> QED
    BY <2>1, <2>2, <2>3, <2>4
<1>3. PICK f, v : yml' = [yml EXCEPT ![f] = v] /\ f # "records" /\ (f # "hosts" \/ v \in SUBSET Hosts)
  BY <1>2
<1>4. YmlOk([yml EXCEPT ![f] = v])
  BY <1>0, <1>3, EditedOk, Zenon
<1>5. YmlOk(yml')
  BY <1>3, <1>4
<1> QED
  BY <1>0, <1>1, <1>5, WriterEdited

LEMMA WriterZone ==
  ASSUME WriterInv, Net!EditZone
  PROVE  WriterInv'
<1>0. YmlOk(yml') /\ zone \in Seq(Elements(zone)) /\ UNCHANGED <<apply, plan, todo>>
  BY DEF WriterInv, Net!EditZone
<1>1. \/ \E i \in DOMAIN zone : zone' = [zone EXCEPT ![i].value = Net!Elsewhere]
      \/ \E c : zone' = Net!Called(zone, c)
  BY DEF Net!EditZone
<1>2. CASE \E i \in DOMAIN zone : zone' = [zone EXCEPT ![i].value = Net!Elsewhere]
  <2>1. PICK i \in DOMAIN zone : zone' = [zone EXCEPT ![i] = [zone[i] EXCEPT !.value = Net!Elsewhere]]
    BY <1>2
  <2> QED
    BY <1>0, <2>1, ZoneEdited, WriterEdited
<1>3. CASE \E c : zone' = Net!Called(zone, c)
  BY <1>0, <1>3, ZoneCalled, WriterEdited
<1> QED
  BY <1>1, <1>2, <1>3

LEMMA WriterBegins == ASSUME Net!Assumption PROVE Net!Init => WriterInv
<1> SUFFICES ASSUME Net!Init PROVE WriterInv
  OBVIOUS
<1>1. YmlOk(yml)
  <2>1. yml \in Net!FleetYmls
    BY DEF Net!Init, Net!Assumption
  <2>2. IsList(yml.records)
    BY <2>1 DEF Net!FleetYmls, IsList
  <2> QED
    BY <2>1, <2>2 DEF Net!FleetYmls, YmlOk
<1>2. zone \in Seq(Elements(zone))
  <2>1. \E r : zone = <<r>>
    BY DEF Net!Init
  <2>2. \A r : <<r>> \in Seq({r})
    OBVIOUS
  <2> QED
    BY <2>1, <2>2, ListElements
<1>3. \A d \in Hosts : apply[d] = "idle" /\ todo[d] = <<>>
  BY DEF Net!Init
<1>4. <<>> \in Seq(Elements(<<>>)) /\ Elements(<<>>) = {}
  BY DEF Elements
<1>5. ASSUME NEW d \in Hosts PROVE Writing(d)
  BY <1>3, <1>4 DEF Writing
<1> QED
  BY <1>1, <1>2, <1>5 DEF Net!Init, WriterInv

LEMMA WriterKept == ASSUME Net!Assumption PROVE WriterInv /\ [Net!Next]_Net!vars => WriterInv'
<1> SUFFICES ASSUME WriterInv, [Net!Next]_Net!vars PROVE WriterInv'
  OBVIOUS
<1>1. CASE \E d \in Hosts : Net!Daemon(d) \/ Net!Fail(d)
  BY <1>1, WriterSteps
<1>2. CASE \E h \in Hosts : Net!CommitKey(h) \/ Net!AddHost(h) \/ Net!MoveEndpoint(h) \/ Net!MoveApp(h)
  BY <1>2, WriterPeople
<1>3. CASE \E h \in Hosts : Net!Reboot(h) \/ Net!Rebuild(h)
  BY <1>3, WriterStops DEF Net!Reboot, Net!Rebuild
<1>4. CASE Net!EditZone
  BY <1>4, WriterZone
<1>5. CASE UNCHANGED Net!vars
  BY <1>5, WriterEdited DEF Net!vars, WriterInv
<1> QED
  BY <1>1, <1>2, <1>3, <1>4, <1>5 DEF Net!Next

(* Of any fleet, whatever people edit and whichever command fails, no two  *)
(* daemons that apply one fleet.yml hold calls for records of one type and *)
(* name: what netApplyDNS syncs is the host's share of the records         *)
(* (planDNS), and no two hosts' shares hold the same name, since           *)
(* DNSRecordsByHost refuses a record that is declared twice.               *)
THEOREM OneWriterAlways == Net!Spec => []OneWriter
<1>1. Net!Init => WriterInv
  BY WriterBegins, FleetAssumption
<1>2. WriterInv /\ [Net!Next]_Net!vars => WriterInv'
  BY WriterKept, FleetAssumption
<1>3. WriterInv => OneWriter
  BY WriterOnce, FleetAssumption
<1> QED
  BY <1>1, <1>2, <1>3, PTL DEF Net!Spec

-----------------------------------------------------------------------------
(* Reconcile: a run that says ok is whole.  Its records are planned by the *)
(* same PlanDNSSync, here as it is instantiated for Reconcile: the two are *)
(* one function.                                                           *)

LEMMA HostingCounts == \A S : Hosting!Cardinality(S) = Net!Cardinality(S)
BY Zenon DEF Net!Cardinality, Hosting!Cardinality

LEMMA SameKey == \A r : Hosting!dnsKey(r) = Net!dnsKey(r)
BY DEF Net!dnsKey, Hosting!dnsKey

LEMMA SameOne ==
  ASSUME NEW z, NEW s, NEW d
  PROVE  Hosting!MatchOne(z, s, d) = Net!MatchOne(z, s, d)
<1> DEFINE hits == {i \in DOMAIN z \ s.used : Net!dnsKey(z[i]) = Net!dnsKey(d) /\ z[i].value = d.value}
           hitz == {i \in DOMAIN z \ s.used : Hosting!dnsKey(z[i]) = Hosting!dnsKey(d) /\ z[i].value = d.value}
           One(S) == LET hit == CHOOSE i \in S : \A j \in S : i <= j
                     IN  IF S = {} THEN [s EXCEPT !.missing = Append(@, d)]
                         ELSE [s EXCEPT !.used = @ \cup {hit},
                                        !.changes = IF d.ttl > 0 /\ z[hit].ttl # d.ttl
                                                    THEN Append(@, [record |-> d, id |-> z[hit].id]) ELSE @]
<1>1. hits = hitz
  BY SameKey
<1>2. Net!MatchOne(z, s, d) = One(hits)
  BY Zenon DEF Net!MatchOne
<1>3. Hosting!MatchOne(z, s, d) = One(hitz)
  BY Zenon DEF Hosting!MatchOne
<1> HIDE DEF hits, hitz, One
<1> QED
  BY <1>1, <1>2, <1>3

LEMMA SameMatching ==
  ASSUME NEW D, NEW z, IsList(z), NEW w \in Seq(D), NEW k
  PROVE  Hosting!Matching(z, w, k)[Len(w)] = Net!Matching(z, w, k)[Len(w)]
<1> DEFINE m == Hosting!Matching(z, w, k)
           l == Net!Matching(z, w, k)
<1>1. \E c : c = [n \in 0 .. Len(w) |->
                    IF n = 0 THEN NoMatch
                    ELSE IF Hosting!dnsKey(w[n]) = k THEN Hosting!MatchOne(z, c[n - 1], w[n]) ELSE c[n - 1]]
  <2>1. PICK c : MatchLoop(z, w, k, c)
    BY MatchingEnds
  <2>2. \A n \in 0 .. Len(w) :
          (IF n = 0 THEN NoMatch
           ELSE IF Net!dnsKey(w[n]) = k THEN Net!MatchOne(z, c[n - 1], w[n]) ELSE c[n - 1])
          = (IF n = 0 THEN NoMatch
             ELSE IF Hosting!dnsKey(w[n]) = k THEN Hosting!MatchOne(z, c[n - 1], w[n]) ELSE c[n - 1])
    BY SameOne, SameKey
  <2>3. c = [n \in 0 .. Len(w) |->
                    IF n = 0 THEN NoMatch
                    ELSE IF Hosting!dnsKey(w[n]) = k THEN Hosting!MatchOne(z, c[n - 1], w[n]) ELSE c[n - 1]]
    BY <2>1, <2>2 DEF MatchLoop
  <2> QED
    BY <2>3
<1>2. m = [n \in 0 .. Len(w) |->
             IF n = 0 THEN NoMatch
             ELSE IF Hosting!dnsKey(w[n]) = k THEN Hosting!MatchOne(z, m[n - 1], w[n]) ELSE m[n - 1]]
  BY <1>1, Zenon DEF Hosting!Matching, NoMatch
<1>3. IsMatching(z, w, k, l)
  BY MatchingRuns
<1> HIDE DEF m, l
<1>4. Len(w) \in Nat /\ Len(w) \in 0 .. Len(w) /\ \A n \in 1 .. Len(w) : n \in 0 .. Len(w) /\ n # 0
  OBVIOUS
<1>5. m[0] = l[0]
  BY <1>2, <1>3, <1>4 DEF IsMatching
<1>6. ASSUME NEW n \in 1 .. Len(w), m[n - 1] = l[n - 1] PROVE m[n] = l[n]
  <2>1. m[n] = IF Hosting!dnsKey(w[n]) = k THEN Hosting!MatchOne(z, m[n - 1], w[n]) ELSE m[n - 1]
    BY <1>2, <1>4, Zenon
  <2>2. m[n] = IF Net!dnsKey(w[n]) = k THEN Net!MatchOne(z, m[n - 1], w[n]) ELSE m[n - 1]
    BY <2>1, SameOne, SameKey
  <2>3. l[n] = IF Net!dnsKey(w[n]) = k THEN Net!MatchOne(z, l[n - 1], w[n]) ELSE l[n - 1]
    BY <1>3, Zenon DEF IsMatching
  <2>4. CASE Net!dnsKey(w[n]) = k
    BY <1>6, <2>2, <2>3, <2>4
  <2>5. CASE Net!dnsKey(w[n]) # k
    BY <1>6, <2>2, <2>3, <2>5
  <2> QED
    BY <2>4, <2>5
<1>7. \A n \in 1 .. Len(w) : m[n - 1] = l[n - 1] => m[n] = l[n]
  BY <1>6, Zenon
<1>8. \A n \in 0 .. Len(w) : m[n] = l[n]
  BY <1>4, <1>5, <1>7, LoopSame, Zenon
<1>9. m[Len(w)] = l[Len(w)]
  BY <1>4, <1>8
<1> QED
  BY <1>9, Zenon DEF m, l

LEMMA SameSyncKey ==
  ASSUME NEW D, NEW z, IsList(z), NEW w \in Seq(D), NEW k
  PROVE  Hosting!SyncKey(z, w, k) = Net!SyncKey(z, w, k)
<1> DEFINE s == Net!Matching(z, w, k)[Len(w)]
           t == Hosting!Matching(z, w, k)[Len(w)]
           sRest == {i \in DOMAIN z \ s.used : Net!dnsKey(z[i]) = k}
           tRest == {i \in DOMAIN z \ t.used : Hosting!dnsKey(z[i]) = k}
           sOne == Len(s.missing) = 1 /\ Net!Cardinality(sRest) = 1 /\ k[1] \in Net!singleValued
           tOne == Len(t.missing) = 1 /\ Hosting!Cardinality(tRest) = 1 /\ k[1] \in Hosting!singleValued
           Key(x, r, one) ==
             IF one THEN Append(x.changes, [record |-> x.missing[1], id |-> z[CHOOSE i \in r : TRUE].id])
             ELSE x.changes \o [i \in DOMAIN x.missing |-> [record |-> x.missing[i], id |-> 0]]
<1>1. Net!SyncKey(z, w, k) = Key(s, sRest, sOne)
  BY Zenon DEF Net!SyncKey
<1>2. Hosting!SyncKey(z, w, k) = Key(t, tRest, tOne)
  BY Zenon DEF Hosting!SyncKey
<1>3. t = s
  BY SameMatching
<1> HIDE DEF s, t, Key
<1>4. tRest = sRest
  BY <1>3, SameKey
<1> HIDE DEF sRest, tRest
<1>5. tOne = sOne
  <2>1. Hosting!Cardinality(tRest) = Net!Cardinality(sRest)
    BY <1>4, HostingCounts, Zenon
  <2>2. Hosting!singleValued = Net!singleValued
    BY DEF Hosting!singleValued, Net!singleValued, Hosting!AddressTypes, Net!AddressTypes
  <2> QED
    BY <1>3, <2>1, <2>2, Zenon
<1> HIDE DEF sOne, tOne
<1> QED
  BY <1>1, <1>2, <1>3, <1>4, <1>5, Zenon

LEMMA SamePlan ==
  ASSUME NEW D, NEW z, IsList(z), NEW w \in Seq(D)
  PROVE  Hosting!PlanDNSSync(z, w) = Net!PlanDNSSync(z, w)
<1> DEFINE m == Hosting!Syncing(z, w)
           l == Net!Syncing(z, w)
<1>0. ASSUME NEW n
      PROVE  /\ Hosting!FirstOfKey(w, n) = Net!FirstOfKey(w, n)
             /\ Hosting!SyncKey(z, w, Hosting!dnsKey(w[n])) = Net!SyncKey(z, w, Net!dnsKey(w[n]))
  <2>1. Hosting!FirstOfKey(w, n) = Net!FirstOfKey(w, n)
    BY SameKey DEF Hosting!FirstOfKey, Net!FirstOfKey
  <2> QED
    BY <2>1, SameSyncKey, SameKey
<1>1. \E c : c = [n \in 0 .. Len(w) |->
                    IF n = 0 THEN <<>>
                    ELSE IF Hosting!FirstOfKey(w, n)
                    THEN c[n - 1] \o Hosting!SyncKey(z, w, Hosting!dnsKey(w[n])) ELSE c[n - 1]]
  <2>1. PICK c : SyncLoop(z, w, c)
    BY SyncingEnds
  <2>2. \A n \in 0 .. Len(w) :
          (IF n = 0 THEN <<>>
           ELSE IF Net!FirstOfKey(w, n) THEN c[n - 1] \o Net!SyncKey(z, w, Net!dnsKey(w[n])) ELSE c[n - 1])
          = (IF n = 0 THEN <<>>
             ELSE IF Hosting!FirstOfKey(w, n)
             THEN c[n - 1] \o Hosting!SyncKey(z, w, Hosting!dnsKey(w[n])) ELSE c[n - 1])
    BY <1>0
  <2>3. c = [n \in 0 .. Len(w) |->
                    IF n = 0 THEN <<>>
                    ELSE IF Hosting!FirstOfKey(w, n)
                    THEN c[n - 1] \o Hosting!SyncKey(z, w, Hosting!dnsKey(w[n])) ELSE c[n - 1]]
    BY <2>1, <2>2 DEF SyncLoop
  <2> QED
    BY <2>3
<1>2. m = [n \in 0 .. Len(w) |->
             IF n = 0 THEN <<>>
             ELSE IF Hosting!FirstOfKey(w, n)
             THEN m[n - 1] \o Hosting!SyncKey(z, w, Hosting!dnsKey(w[n])) ELSE m[n - 1]]
  BY <1>1, Zenon DEF Hosting!Syncing
<1>3. IsSyncing(z, w, l)
  BY SyncingRuns
<1> HIDE DEF m, l
<1>4. Len(w) \in Nat /\ Len(w) \in 0 .. Len(w) /\ \A n \in 1 .. Len(w) : n \in 0 .. Len(w) /\ n # 0
  OBVIOUS
<1>5. m[0] = l[0]
  BY <1>2, <1>3, <1>4 DEF IsSyncing
<1>6. ASSUME NEW n \in 1 .. Len(w), m[n - 1] = l[n - 1] PROVE m[n] = l[n]
  <2>1. m[n] = IF Hosting!FirstOfKey(w, n)
               THEN m[n - 1] \o Hosting!SyncKey(z, w, Hosting!dnsKey(w[n])) ELSE m[n - 1]
    BY <1>2, <1>4, Zenon
  <2>2. m[n] = IF Net!FirstOfKey(w, n) THEN m[n - 1] \o Net!SyncKey(z, w, Net!dnsKey(w[n])) ELSE m[n - 1]
    BY <1>0, <2>1
  <2>3. l[n] = IF Net!FirstOfKey(w, n) THEN l[n - 1] \o Net!SyncKey(z, w, Net!dnsKey(w[n])) ELSE l[n - 1]
    BY <1>3, Zenon DEF IsSyncing
  <2>4. CASE Net!FirstOfKey(w, n)
    BY <1>6, <2>2, <2>3, <2>4
  <2>5. CASE ~Net!FirstOfKey(w, n)
    BY <1>6, <2>2, <2>3, <2>5
  <2> QED
    BY <2>4, <2>5
<1>7. \A n \in 1 .. Len(w) : m[n - 1] = l[n - 1] => m[n] = l[n]
  BY <1>6, Zenon
<1>8. \A n \in 0 .. Len(w) : m[n] = l[n]
  BY <1>4, <1>5, <1>7, LoopSame, Zenon
<1>9. m[Len(w)] = l[Len(w)]
  BY <1>4, <1>8
<1> QED
  BY <1>9, Zenon DEF m, l, Hosting!PlanDNSSync, Net!PlanDNSSync

-----------------------------------------------------------------------------
LEMMA HeadAndTail ==
  ASSUME NEW X, NEW s \in Seq(X), s # <<>>
  PROVE  Head(s) \in Elements(s) /\ Elements(s) = {Head(s)} \cup Elements(Tail(s))
<1> DEFINE t == Tail(s)
<1>1. /\ Len(s) \in Nat \ {0} /\ DOMAIN s = 1 .. Len(s) /\ Head(s) = s[1]
      /\ DOMAIN t = 1 .. Len(s) - 1 /\ \A i \in DOMAIN t : t[i] = s[i + 1]
  OBVIOUS
<1> HIDE DEF t
<1>2. Head(s) \in Elements(s)
  BY <1>1 DEF Elements
<1>3. ASSUME NEW i \in DOMAIN t PROVE t[i] \in Elements(s)
  <2>1. i + 1 \in DOMAIN s /\ t[i] = s[i + 1]
    BY <1>1
  <2> QED
    BY <2>1 DEF Elements
<1>4. ASSUME NEW i \in DOMAIN s, i # 1 PROVE s[i] \in Elements(t)
  <2>1. i - 1 \in DOMAIN t /\ t[i - 1] = s[i]
    BY <1>1, <1>4
  <2> QED
    BY <2>1 DEF Elements
<1>5. Elements(s) = {Head(s)} \cup Elements(t)
  <2>1. Elements(t) \subseteq Elements(s)
    BY <1>3 DEF Elements
  <2>2. Elements(s) \subseteq {Head(s)} \cup Elements(t)
    BY <1>1, <1>4 DEF Elements
  <2> QED
    BY <1>2, <2>1, <2>2
<1> QED
  BY <1>2, <1>5 DEF t

(* The domain's records lead to ip, or there is a call that makes one lead *)
(* there.                                                                  *)
ApexNames == {"@", "*"}
Pointer(n, ip) == [type |-> "A", name |-> n, value |-> ip, ttl |-> 0]
Lead(z, n, ip) == \E i \in DOMAIN z : z[i].type = "A" /\ z[i].name = n /\ z[i].value = ip
Points(z, c, ip) ==
  \E n \in ApexNames :
    /\ c.record = Pointer(n, ip)
    /\ c.id = 0 \/ \E i \in DOMAIN z : z[i].id = c.id /\ z[i].type = "A" /\ z[i].name = n
ToPoint(z, t, ip) ==
  /\ t \in Seq(Elements(t))
  /\ \A c \in Elements(t) : Points(z, c, ip)
  /\ \A n \in ApexNames : Lead(z, n, ip) \/ \E c \in Elements(t) : c.record = Pointer(n, ip)

LEMMA PlanPoints ==
  ASSUME NEW z, IsList(z), NEW ip
  PROVE  ToPoint(z, Hosting!PlanDNSSync(z, Hosting!Apex(ip)), ip)
<1> DEFINE w == Hosting!Apex(ip)
           D == {Pointer(n, ip) : n \in ApexNames}
           t == Net!PlanDNSSync(z, w)
<1>1. w \in Seq(D) /\ DOMAIN w = {1, 2} /\ w[1] = Pointer("@", ip) /\ w[2] = Pointer("*", ip)
  BY DEF Hosting!Apex, Pointer, ApexNames
<1> HIDE DEF w
<1>2. Hosting!PlanDNSSync(z, w) = t
  BY <1>1, SamePlan
<1>3. t \in Seq(CallsOf(D, z))
  BY <1>1, PlannedCalls
<1>4. \A i \in DOMAIN w : Stands(z, w[i]) \/ \E c \in Elements(t) : c.record = w[i]
  BY <1>1, PlanSuffices
<1> HIDE DEF t
<1>5. t \in Seq(Elements(t)) /\ Elements(t) \subseteq CallsOf(D, z)
  BY <1>3, ListElements
<1>6. ASSUME NEW c \in Elements(t) PROVE Points(z, c, ip)
  <2>1. c \in CallsOf(D, z)
    BY <1>5
  <2>2. PICK n \in ApexNames : c.record = Pointer(n, ip)
    BY <2>1 DEF CallsOf
  <2>3. c.id = 0 \/ Names(z, c)
    BY <2>1 DEF CallsOf
  <2> QED
    BY <2>2, <2>3 DEF Names, Points, Pointer, Net!dnsKey
<1>7. ASSUME NEW n \in ApexNames
      PROVE  Lead(z, n, ip) \/ \E c \in Elements(t) : c.record = Pointer(n, ip)
  <2>1. Stands(z, Pointer(n, ip)) \/ \E c \in Elements(t) : c.record = Pointer(n, ip)
    BY <1>1, <1>4 DEF ApexNames
  <2> QED
    BY <2>1 DEF Stands, Lead, Pointer, Net!dnsKey
<1>8. ToPoint(z, t, ip)
  BY <1>5, <1>6, <1>7 DEF ToPoint
<1> QED
  BY <1>2, <1>8 DEF w

RecordFields == {"type", "name", "value", "ttl", "id"}
ApexOk(z) == z \in Seq(Elements(z)) /\ \A i \in DOMAIN z : DOMAIN z[i] = RecordFields

(* What a call does: what leads to ip still does, and what the call is for *)
(* does so too.                                                            *)
LEMMA CallLeads ==
  ASSUME NEW z, ApexOk(z), NEW ip, NEW c, Points(z, c, ip), NEW y, y = Hosting!Called(z, c)
  PROVE  /\ ApexOk(y)
         /\ \A n \in ApexNames : Lead(z, n, ip) \/ c.record = Pointer(n, ip) => Lead(y, n, ip)
         /\ \A e : Points(z, e, ip) => Points(y, e, ip)
<1> DEFINE new == [type |-> c.record.type, name |-> c.record.name, value |-> c.record.value,
                   ttl |-> IF c.record.ttl > 0 THEN c.record.ttl ELSE Hosting!DefaultTTL, id |-> Hosting!FreshId(z)]
           put(i) == IF z[i].id # c.id THEN z[i]
                     ELSE [z[i] EXCEPT !.value = c.record.value,
                                       !.ttl = IF c.record.ttl > 0 THEN c.record.ttl ELSE @]
<1>0. Len(z) \in Nat /\ DOMAIN z = 1 .. Len(z)
  BY DEF ApexOk
<1>1. y = IF c.id = 0 THEN Append(z, new) ELSE [i \in DOMAIN z |-> put(i)]
  BY Zenon DEF Hosting!Called
<1>2. PICK m \in ApexNames :
        /\ c.record = Pointer(m, ip)
        /\ c.id = 0 \/ \E i \in DOMAIN z : z[i].id = c.id /\ z[i].type = "A" /\ z[i].name = m
  BY DEF Points
<1>3. c.record.type = "A" /\ c.record.name = m /\ c.record.value = ip
  BY <1>2 DEF Pointer
<1>4. \A n : c.record = Pointer(n, ip) => n = m
  BY <1>3 DEF Pointer
<1>5. CASE c.id = 0
  <2>1. new.type = "A" /\ new.name = m /\ new.value = ip /\ DOMAIN new = RecordFields
    BY <1>3 DEF RecordFields
  <2> HIDE DEF new
  <2>2. y = Append(z, new)
    BY <1>1, <1>5
  <2>3. /\ y \in Seq(Elements(z) \cup {new}) /\ DOMAIN y = 1 .. Len(z) + 1
        /\ y[Len(z) + 1] = new /\ \A i \in DOMAIN z : y[i] = z[i]
    BY <1>0, <2>2 DEF ApexOk
  <2>4. \A i \in DOMAIN y : i \in DOMAIN z \/ i = Len(z) + 1
    BY <1>0, <2>3
  <2>5. y \in Seq(Elements(y)) /\ \A i \in DOMAIN y : DOMAIN y[i] = RecordFields
    BY <2>1, <2>3, <2>4, ListElements DEF ApexOk
  <2>6. \A i \in DOMAIN z : i \in DOMAIN y
    BY <1>0, <2>3
  <2>7. Lead(y, m, ip)
    <3>1. Len(z) + 1 \in DOMAIN y
      BY <1>0, <2>3
    <3> QED
      BY <2>1, <2>3, <3>1 DEF Lead
  <2>8. \A n \in ApexNames : Lead(z, n, ip) \/ c.record = Pointer(n, ip) => Lead(y, n, ip)
    BY <1>4, <2>3, <2>6, <2>7 DEF Lead
  <2>9. \A e : Points(z, e, ip) => Points(y, e, ip)
    BY <2>3, <2>6, Zenon DEF Points
  <2> QED
    BY <2>5, <2>8, <2>9 DEF ApexOk
<1>6. CASE c.id # 0
  <2>1. y = [i \in DOMAIN z |-> put(i)]
    BY <1>1, <1>6
  <2>2. ASSUME NEW i \in DOMAIN z
        PROVE  /\ put(i).type = z[i].type /\ put(i).name = z[i].name /\ put(i).id = z[i].id
               /\ DOMAIN put(i) = RecordFields
               /\ put(i).value = IF z[i].id = c.id THEN ip ELSE z[i].value
    <3>1. DOMAIN z[i] = RecordFields
      BY DEF ApexOk
    <3> QED
      BY <1>3, <3>1 DEF RecordFields
  <2>3. /\ DOMAIN y = DOMAIN z
        /\ \A i \in DOMAIN z : /\ y[i].type = z[i].type /\ y[i].name = z[i].name /\ y[i].id = z[i].id
                               /\ DOMAIN y[i] = RecordFields
                               /\ y[i].value = IF z[i].id = c.id THEN ip ELSE z[i].value
    <3> HIDE DEF put
    <3> QED
      BY <2>1, <2>2
  <2>4. y \in Seq(Elements(y))
    <3>1. y = [i \in 1 .. Len(z) |-> y[i]]
      BY <1>0, <2>1
    <3>2. y \in [1 .. Len(z) -> Elements(y)]
      BY <1>0, <2>3, <3>1 DEF Elements
    <3> QED
      BY <1>0, <3>2
  <2> HIDE DEF put
  <2>5. Lead(y, m, ip)
    <3>1. PICK i \in DOMAIN z : z[i].id = c.id /\ z[i].type = "A" /\ z[i].name = m
      BY <1>2, <1>6
    <3> QED
      BY <2>3, <3>1 DEF Lead
  <2>6. \A n \in ApexNames : Lead(z, n, ip) \/ c.record = Pointer(n, ip) => Lead(y, n, ip)
    BY <1>4, <2>3, <2>5 DEF Lead
  <2>7. \A e : Points(z, e, ip) => Points(y, e, ip)
    BY <2>3 DEF Points
  <2> QED
    BY <2>3, <2>4, <2>6, <2>7 DEF ApexOk
<1> QED
  BY <1>5, <1>6

LEMMA CallPoints ==
  ASSUME NEW z, ApexOk(z), NEW ip, NEW t, t # <<>>, ToPoint(z, t, ip)
  PROVE  ApexOk(Hosting!Called(z, Head(t))) /\ ToPoint(Hosting!Called(z, Head(t)), Tail(t), ip)
<1> DEFINE c == Head(t)
           y == Hosting!Called(z, c)
<1>1. t \in Seq(Elements(t))
  BY DEF ToPoint
<1>2. c \in Elements(t) /\ Elements(t) = {c} \cup Elements(Tail(t))
  BY <1>1, HeadAndTail
<1>3. Points(z, c, ip)
  BY <1>2 DEF ToPoint
<1> HIDE DEF c
<1>4. /\ ApexOk(y)
      /\ \A n \in ApexNames : Lead(z, n, ip) \/ c.record = Pointer(n, ip) => Lead(y, n, ip)
      /\ \A e : Points(z, e, ip) => Points(y, e, ip)
  BY <1>3, CallLeads
<1> HIDE DEF y
<1>5. Tail(t) \in Seq(Elements(Tail(t)))
  <2>1. Tail(t) \in Seq(Elements(t))
    BY <1>1, TailOk
  <2> QED
    BY <2>1, ListElements
<1>6. \A e \in Elements(Tail(t)) : Points(y, e, ip)
  BY <1>2, <1>4 DEF ToPoint
<1>7. \A n \in ApexNames : Lead(y, n, ip) \/ \E e \in Elements(Tail(t)) : e.record = Pointer(n, ip)
  BY <1>2, <1>4 DEF ToPoint
<1>8. ToPoint(y, Tail(t), ip)
  BY <1>5, <1>6, <1>7 DEF ToPoint
<1> QED
  BY <1>4, <1>8 DEF y, c

-----------------------------------------------------------------------------
(* What a run knows of its hosts at each step.  The hosts before the one it *)
(* is at have an address in the cloud, have failed, or are none of its own; *)
(* once the DNS is behind it the domain leads to the default host's address *)
(* or it knows of an error; and the hosts before the one it prepares have   *)
(* been prepared or have failed.                                            *)

(* What the proof takes for granted of fleet.yml besides the names: the    *)
(* default host is one of them (pkg/config/hosts.go, ValidateHosts).           *)
DefaultIsNamed == \A f \in HostFleets : \E k \in DOMAIN f.names : f.default = f.names[k]

AllHosts(f) == {f.names[k] : k \in DOMAIN f.names}
MachineFields == {"name", "listed", "status", "ip", "up", "key", "boot"}
CloudList(c) == c \in Seq(Elements(c)) /\ \A j \in DOMAIN c : DOMAIN c[j] = MachineFields

(* What is at the provider from one step to the next.                      *)
Becomes(m, n) ==
  DOMAIN n = MachineFields /\ n.name = m.name /\ n.listed = m.listed /\ (m.boot => n.boot)
Grows(c, d) == CloudList(d) /\ \A j \in DOMAIN c : j \in DOMAIN d /\ Becomes(c[j], d[j])

Has(c, j, h) == j \in DOMAIN c /\ c[j].name = h
GivenThere(f, c) == \A h \in Hosting!Given(f) : \E j \in DOMAIN c : c[j].name = h /\ ~c[j].listed

Placed(f, r, c, h) ==
  \/ h \in r.failed
  \/ f.kind[h] = "other" /\ r.ip[h] = 0
  \/ r.ip[h] # 0 /\ Has(c, r.ip[h], h)
Prepared(r, c, h) == h \in r.failed \/ r.ip[h] = 0 \/ c[r.ip[h]].boot
Pointed(f, r, z) ==
  f.domain /\ f.kind[f.default] # "other" =>
    r.dnsErr \/ r.failed # {} \/ \A n \in ApexNames : Lead(z, n, r.ip[f.default])

KnowsHost == {"wait", "verify", "created"}
PastHosts == {"dns", "call", "boot", "end"}

Shaped(f, r) == DOMAIN r = RunFields /\ r.ip = [h \in AllHosts(f) |-> r.ip[h]]
AllPlaced(f, r, c) == \A h \in AllHosts(f) : Placed(f, r, c, h)
PlacedTo(f, r, c, i) == \A k \in DOMAIN f.names : k < i => Placed(f, r, c, f.names[k])
PreparedTo(f, r, c, i) == \A k \in DOMAIN f.names : k < i => Prepared(r, c, f.names[k])

WholeRun(f, r, c, z) ==
  /\ Shaped(f, r) /\ r.pc \in AtHost \cup PastHosts
  /\ r.pc \in AtHost => r.i \in DOMAIN f.names /\ PlacedTo(f, r, c, r.i)
  /\ r.pc \in KnowsHost => Has(c, r.id, f.names[r.i])
  /\ r.pc \in PastHosts => AllPlaced(f, r, c)
  /\ r.pc = "call" => ToPoint(z, r.todo, r.ip[f.default])
  /\ r.pc \in {"boot", "end"} => Pointed(f, r, z)
  /\ r.pc = "boot" => /\ r.i \in DOMAIN f.names /\ f.names[r.i] \notin r.failed /\ r.ip[f.names[r.i]] # 0
                      /\ PreparedTo(f, r, c, r.i)
  /\ r.pc = "end" => \A h \in AllHosts(f) : Prepared(r, c, h)

WholeInv ==
  /\ fleet \in HostFleets
  /\ CloudList(cloud) /\ GivenThere(fleet, cloud) /\ ApexOk(apex)
  /\ run = Hosting!Idle \/ WholeRun(fleet, run, cloud, apex)

LEMMA GrowsSelf == ASSUME NEW c, CloudList(c) PROVE Grows(c, c)
  BY DEF Grows, Becomes, CloudList

LEMMA GrowsTwice == ASSUME NEW c, NEW d, NEW e, Grows(c, d), Grows(d, e) PROVE Grows(c, e)
  BY DEF Grows, Becomes

LEMMA GrowsAll ==
  ASSUME NEW c, CloudList(c), NEW d, d = [j \in DOMAIN c |-> d[j]],
         \A j \in DOMAIN c : Becomes(c[j], d[j])
  PROVE  Grows(c, d)
<1>1. Len(c) \in Nat /\ DOMAIN c = 1 .. Len(c)
  BY DEF CloudList
<1>2. DOMAIN d = DOMAIN c
  OBVIOUS
<1>3. d \in [1 .. Len(c) -> Elements(d)]
  BY <1>1, <1>2 DEF Elements
<1>4. d \in Seq(Elements(d))
  BY <1>1, <1>3
<1> QED
  BY <1>2, <1>4 DEF Grows, CloudList, Becomes

LEMMA GrowsOne ==
  ASSUME NEW c, CloudList(c), NEW j \in DOMAIN c, NEW m, Becomes(c[j], m)
  PROVE  Grows(c, [c EXCEPT ![j] = m])
<1> DEFINE d == [c EXCEPT ![j] = m]
<1>1. d = [i \in DOMAIN c |-> d[i]] /\ \A i \in DOMAIN c : d[i] = IF i = j THEN m ELSE c[i]
  OBVIOUS
<1>2. \A i \in DOMAIN c : Becomes(c[i], c[i])
  BY DEF Becomes, CloudList
<1> HIDE DEF d
<1>3. \A i \in DOMAIN c : Becomes(c[i], d[i])
  BY <1>1, <1>2
<1>4. Grows(c, d)
  BY <1>1, <1>3, GrowsAll
<1> QED
  BY <1>4 DEF d

LEMMA GrowsForgotten ==
  ASSUME NEW c, CloudList(c)
  PROVE  Grows(c, Hosting!Forgotten(c))
<1> DEFINE d == Hosting!Forgotten(c)
<1>1. ASSUME NEW j \in DOMAIN c PROVE Becomes(c[j], d[j])
  <2>1. DOMAIN c[j] = MachineFields
    BY DEF CloudList
  <2> DEFINE m == [c[j] EXCEPT !.key = "gone"]
  <2>2. Becomes(c[j], c[j]) /\ Becomes(c[j], m)
    BY <2>1 DEF Becomes, MachineFields
  <2>3. d[j] = c[j] \/ d[j] = m
    BY DEF Hosting!Forgotten
  <2> HIDE DEF m
  <2> QED
    BY <2>2, <2>3
<1>2. d = [j \in DOMAIN c |-> d[j]]
  BY DEF Hosting!Forgotten
<1> HIDE DEF d
<1>3. Grows(c, d)
  BY <1>1, <1>2, GrowsAll
<1> QED
  BY <1>3 DEF d

LEMMA GrowsDroplet ==
  ASSUME CloudList(cloud)
  PROVE  Grows(cloud, Hosting!WithDroplet) /\ Has(Hosting!WithDroplet, Len(cloud) + 1, fleet.names[run.i])
<1> DEFINE m == Hosting!Machine(fleet.names[run.i], TRUE, run.key)
           d == Append(cloud, m)
<1>1. DOMAIN m = MachineFields /\ m.name = fleet.names[run.i]
  BY DEF Hosting!Machine, MachineFields
<1>2. Hosting!WithDroplet = d
  BY DEF Hosting!WithDroplet, Hosting!Host
<1> HIDE DEF m
<1>3. /\ Len(cloud) \in Nat /\ DOMAIN cloud = 1 .. Len(cloud) /\ DOMAIN d = 1 .. Len(cloud) + 1
      /\ d \in Seq(Elements(cloud) \cup {m}) /\ d[Len(cloud) + 1] = m
      /\ \A j \in DOMAIN cloud : d[j] = cloud[j]
  BY DEF CloudList
<1>4. \A j \in DOMAIN d : j \in DOMAIN cloud \/ j = Len(cloud) + 1
  BY <1>3
<1>5. Len(cloud) + 1 \in DOMAIN d /\ \A j \in DOMAIN cloud : j \in DOMAIN d
  BY <1>3
<1> HIDE DEF d
<1>6. CloudList(d)
  BY <1>1, <1>3, <1>4, ListElements DEF CloudList
<1>7. Grows(cloud, d)
  BY <1>3, <1>5, <1>6 DEF Grows, Becomes, CloudList
<1>8. Has(d, Len(cloud) + 1, fleet.names[run.i])
  BY <1>1, <1>3, <1>5 DEF Has
<1> QED
  BY <1>2, <1>7, <1>8

LEMMA GivenStay ==
  ASSUME NEW f, NEW c, NEW d, Grows(c, d), GivenThere(f, c)
  PROVE  GivenThere(f, d)
  BY DEF Grows, Becomes, GivenThere

LEMMA WholeGrows ==
  ASSUME NEW f, NEW r, NEW c, NEW d, NEW z, WholeRun(f, r, c, z), Grows(c, d)
  PROVE  WholeRun(f, r, d, z)
<1>1. \A j, h : Has(c, j, h) => Has(d, j, h)
  BY DEF Has, Grows, Becomes
<1>2. \A h : Placed(f, r, c, h) => Placed(f, r, d, h)
  BY <1>1 DEF Placed
<1>3. \A h : Placed(f, r, c, h) /\ Prepared(r, c, h) => Prepared(r, d, h)
  BY DEF Placed, Prepared, Has, Grows, Becomes
<1>4. \A k \in DOMAIN f.names : f.names[k] \in AllHosts(f)
  BY DEF AllHosts
<1>5. \A i : PlacedTo(f, r, c, i) => PlacedTo(f, r, d, i)
  BY <1>2 DEF PlacedTo
<1>6. AllPlaced(f, r, c) => AllPlaced(f, r, d)
  BY <1>2 DEF AllPlaced
<1>7. \A i : AllPlaced(f, r, c) /\ PreparedTo(f, r, c, i) => PreparedTo(f, r, d, i)
  BY <1>3, <1>4 DEF AllPlaced, PreparedTo
<1>8. r.pc = "end" => \A h \in AllHosts(f) : Prepared(r, d, h)
  BY <1>3 DEF WholeRun, AllPlaced, PastHosts
<1>9. r.pc = "boot" => AllPlaced(f, r, c)
  BY DEF WholeRun, PastHosts
<1> QED
  BY <1>1, <1>5, <1>6, <1>7, <1>8, <1>9 DEF WholeRun

LEMMA NotIdle ==
  ASSUME NEW f, NEW r, NEW c, NEW z, WholeRun(f, r, c, z)
  PROVE  r # Hosting!Idle
<1>1. DOMAIN r = RunFields
  BY DEF WholeRun, Shaped
<1>2. DOMAIN Hosting!Idle = {"pc"}
  BY DEF Hosting!Idle
<1> QED
  BY <1>1, <1>2 DEF RunFields

LEMMA RunIsWhole ==
  ASSUME WholeInv, run.pc # "idle"
  PROVE  WholeRun(fleet, run, cloud, apex) /\ Shaped(fleet, run)
<1>1. run # Hosting!Idle
  BY DEF Hosting!Idle
<1> QED
  BY <1>1 DEF WholeInv, WholeRun

(* Each of the run's steps.                                                *)
LEMMA SameHostWhole ==
  ASSUME NEW f, NEW r, NEW c, NEW z, WholeRun(f, r, c, z), r.pc \in AtHost,
         NEW s, DOMAIN s = RunFields, s.ip = r.ip, s.failed = r.failed, s.i = r.i, s.pc \in AtHost,
         s.pc \in KnowsHost => Has(c, s.id, f.names[s.i])
  PROVE  WholeRun(f, s, c, z)
<1>1. s.pc \notin PastHosts
  BY DEF AtHost, PastHosts
<1>2. PlacedTo(f, s, c, s.i)
  BY DEF WholeRun, PlacedTo, Placed
<1>3. Shaped(f, s)
  BY DEF WholeRun, Shaped
<1> QED
  BY <1>1, <1>2, <1>3 DEF WholeRun, PastHosts

LEMMA OnwardWhole ==
  ASSUME HostsAreNamed, fleet \in HostFleets, NEW r, NEW c, NEW z, Shaped(fleet, r), r.i \in DOMAIN fleet.names,
         PlacedTo(fleet, r, c, r.i), Placed(fleet, r, c, fleet.names[r.i])
  PROVE  WholeRun(fleet, Hosting!Onward(r), c, z)
<1>0. Len(fleet.names) \in Nat /\ DOMAIN fleet.names = 1 .. Len(fleet.names)
  BY NamesOk
<1>1. CASE r.i < Len(fleet.names)
  <2> DEFINE s == [r EXCEPT !.i = @ + 1, !.pc = "list"]
  <2>1. DOMAIN s = RunFields /\ s.i = r.i + 1 /\ s.pc = "list" /\ s.ip = r.ip /\ s.failed = r.failed
    BY DEF RunFields, Shaped
  <2>2. Hosting!Onward(r) = s
    BY <1>1 DEF Hosting!Onward
  <2> HIDE DEF s
  <2>3. s.i \in DOMAIN fleet.names /\ \A k \in DOMAIN fleet.names : k < s.i => k < r.i \/ k = r.i
    BY <1>0, <1>1, <2>1
  <2>4. \A h : Placed(fleet, r, c, h) => Placed(fleet, s, c, h)
    BY <2>1 DEF Placed
  <2>5. PlacedTo(fleet, s, c, s.i)
    BY <2>3, <2>4 DEF PlacedTo
  <2>6. Shaped(fleet, s)
    BY <2>1 DEF Shaped
  <2> QED
    BY <2>1, <2>2, <2>3, <2>5, <2>6 DEF WholeRun, AtHost, KnowsHost, PastHosts
<1>2. CASE ~(r.i < Len(fleet.names))
  <2> DEFINE s == [r EXCEPT !.pc = "dns"]
  <2>1. DOMAIN s = RunFields /\ s.pc = "dns" /\ s.ip = r.ip /\ s.failed = r.failed
    BY DEF RunFields, Shaped
  <2>2. Hosting!Onward(r) = s
    BY <1>2 DEF Hosting!Onward
  <2> HIDE DEF s
  <2>3. \A k \in DOMAIN fleet.names : k < r.i \/ k = r.i
    BY <1>0, <1>2
  <2>4. \A h : Placed(fleet, r, c, h) => Placed(fleet, s, c, h)
    BY <2>1 DEF Placed
  <2>5. AllPlaced(fleet, s, c)
    BY <2>3, <2>4 DEF AllPlaced, AllHosts, PlacedTo
  <2>6. Shaped(fleet, s)
    BY <2>1 DEF Shaped
  <2> QED
    BY <2>1, <2>2, <2>5, <2>6 DEF WholeRun, AtHost, KnowsHost, PastHosts
<1> QED
  BY <1>1, <1>2

LEMMA FoundWhole ==
  ASSUME HostsAreNamed, WholeInv, run.pc \in AtHost, NEW ip, Hosting!Found(ip),
         \/ fleet.kind[fleet.names[run.i]] = "other" /\ ip = 0
         \/ ip # 0 /\ Has(cloud, ip, fleet.names[run.i])
  PROVE  WholeRun(fleet, run', cloud, apex) /\ cloud' = cloud
<1> DEFINE h == fleet.names[run.i]
           r == [run EXCEPT !.ip[h] = ip]
<1>1. WholeRun(fleet, run, cloud, apex) /\ Shaped(fleet, run) /\ fleet \in HostFleets
  BY RunIsWhole DEF AtHost, WholeInv
<1>2. run.i \in DOMAIN fleet.names /\ PlacedTo(fleet, run, cloud, run.i)
  BY <1>1 DEF WholeRun
<1>3. /\ DOMAIN r = RunFields /\ r.i = run.i /\ r.failed = run.failed
      /\ r.ip = [run.ip EXCEPT ![h] = ip]
  BY <1>1 DEF RunFields, Shaped
<1>4. run' = Hosting!Onward(r) /\ cloud' = cloud
  BY DEF Hosting!Found, Hosting!Host
<1> HIDE DEF r
<1>5. DOMAIN run.ip = AllHosts(fleet) /\ h \in AllHosts(fleet)
  BY <1>1, <1>2 DEF Shaped, AllHosts
<1>6. r.ip[h] = ip /\ \A g \in AllHosts(fleet) : g # h => r.ip[g] = run.ip[g]
  BY <1>3, <1>5
<1>7. Placed(fleet, r, cloud, h)
  BY <1>6 DEF Placed
<1>8. \A g \in AllHosts(fleet) : Placed(fleet, run, cloud, g) => Placed(fleet, r, cloud, g)
  BY <1>3, <1>6, <1>7 DEF Placed
<1>9. PlacedTo(fleet, r, cloud, r.i)
  BY <1>2, <1>3, <1>8 DEF PlacedTo, AllHosts
<1>10. Shaped(fleet, r)
  BY <1>1, <1>3, <1>5 DEF Shaped
<1> QED
  BY <1>1, <1>2, <1>3, <1>4, <1>7, <1>9, <1>10, OnwardWhole

LEMMA BootingWhole ==
  ASSUME HostsAreNamed, fleet \in HostFleets, NEW r, NEW c, NEW z, Shaped(fleet, r), AllPlaced(fleet, r, c),
         Pointed(fleet, r, z), NEW i \in Nat \ {0}, PreparedTo(fleet, r, c, i)
  PROVE  WholeRun(fleet, Hosting!Booting(r, i), c, z)
<1>0. Len(fleet.names) \in Nat /\ DOMAIN fleet.names = 1 .. Len(fleet.names)
  BY NamesOk
<1> DEFINE rest == {k \in i .. Len(fleet.names) :
                     fleet.names[k] \notin r.failed /\ r.ip[fleet.names[k]] # 0}
           k == CHOOSE n \in rest : \A j \in rest : n <= j
<1>1. Hosting!Booting(r, i) = IF rest = {} THEN [r EXCEPT !.pc = "end"] ELSE [r EXCEPT !.pc = "boot", !.i = k]
  BY DEF Hosting!Booting
<1>2. \A n \in DOMAIN fleet.names : n < i \/ n \in rest \/ Prepared(r, c, fleet.names[n])
  BY <1>0 DEF Prepared
<1>3. rest \in SUBSET Nat /\ rest \subseteq DOMAIN fleet.names
  BY <1>0
<1>4. rest # {} => k \in rest /\ \A j \in rest : k <= j
  <2> HIDE DEF rest
  <2> QED
    BY <1>3, LeastPlace
<1>5. k \in rest => fleet.names[k] \notin r.failed /\ r.ip[fleet.names[k]] # 0
  <2> HIDE DEF k
  <2> QED
    OBVIOUS
<1> HIDE DEF rest, k
<1>6. CASE rest = {}
  <2> DEFINE s == [r EXCEPT !.pc = "end"]
  <2>1. DOMAIN s = RunFields /\ s.pc = "end" /\ s.ip = r.ip /\ s.failed = r.failed /\ s.dnsErr = r.dnsErr
    BY DEF RunFields, Shaped
  <2>2. Hosting!Booting(r, i) = s
    BY <1>1, <1>6
  <2> HIDE DEF s
  <2>3. Shaped(fleet, s) /\ AllPlaced(fleet, s, c)
    BY <2>1 DEF Shaped, AllPlaced, Placed
  <2>4. Pointed(fleet, s, z)
    BY <2>1 DEF Pointed
  <2>5. \A n \in DOMAIN fleet.names : Prepared(r, c, fleet.names[n])
    BY <1>2, <1>6 DEF PreparedTo
  <2>6. \A h \in AllHosts(fleet) : Prepared(s, c, h)
    BY <2>1, <2>5 DEF AllHosts, Prepared
  <2> QED
    BY <2>1, <2>2, <2>3, <2>4, <2>6 DEF WholeRun, AtHost, KnowsHost, PastHosts
<1>7. CASE rest # {}
  <2> DEFINE s == [r EXCEPT !.pc = "boot", !.i = k]
  <2>1. /\ DOMAIN s = RunFields /\ s.pc = "boot" /\ s.i = k
        /\ s.ip = r.ip /\ s.failed = r.failed /\ s.dnsErr = r.dnsErr
    BY DEF RunFields, Shaped
  <2>2. Hosting!Booting(r, i) = s
    BY <1>1, <1>7
  <2> HIDE DEF s
  <2>3. Shaped(fleet, s) /\ AllPlaced(fleet, s, c)
    BY <2>1 DEF Shaped, AllPlaced, Placed
  <2>4. Pointed(fleet, s, z)
    BY <2>1 DEF Pointed
  <2>5. \A n \in DOMAIN fleet.names : n < k => n < i \/ Prepared(r, c, fleet.names[n])
    <3>1. \A n \in DOMAIN fleet.names : n < k => n \notin rest
      <4>1. (\A n \in DOMAIN fleet.names : n \in Nat) /\ k \in Nat
        <5>1. k \in rest /\ rest \in SUBSET Nat
          BY <1>3, <1>4, <1>7
        <5>2. k \in Nat
          BY <5>1
        <5> QED
          BY <1>0, <5>2
      <4> QED
        BY <1>4, <1>7, <4>1
    <3> QED
      BY <1>2, <3>1
  <2>6. PreparedTo(fleet, s, c, s.i)
    BY <2>1, <2>5 DEF PreparedTo, Prepared
  <2> QED
    BY <1>3, <1>4, <1>5, <1>7, <2>1, <2>2, <2>3, <2>4, <2>6 DEF WholeRun, AtHost, KnowsHost, PastHosts
<1> QED
  BY <1>6, <1>7

-----------------------------------------------------------------------------
(* A step after which the run goes on, or has ended without an ok.         *)
GoesOn ==
  /\ fleet' = fleet /\ Grows(cloud, cloud') /\ ApexOk(apex')
  /\ WholeRun(fleet, run', cloud', apex') \/ (run' = Hosting!Idle /\ last' # "ok")

OkStep ==
  run # Hosting!Idle /\ run' = Hosting!Idle /\ last' = "ok" =>
    /\ \A h \in DOMAIN run.ip :
         /\ fleet.kind[h] # "other" => run.ip[h] # 0
         /\ run.ip[h] # 0 => cloud[run.ip[h]].boot /\ cloud[run.ip[h]].name = h
    /\ fleet.domain /\ fleet.kind[fleet.default] # "other" => Hosting!Leads(run.ip[fleet.default])

LEMMA GoesOnKeeps ==
  ASSUME WholeInv, GoesOn
  PROVE  WholeInv' /\ OkStep
<1>1. CloudList(cloud') /\ GivenThere(fleet', cloud') /\ fleet' \in HostFleets
  BY GivenStay DEF WholeInv, GoesOn, Grows
<1>2. run' = Hosting!Idle \/ WholeRun(fleet', run', cloud', apex')
  BY DEF GoesOn
<1>3. run' = Hosting!Idle => last' # "ok"
  BY NotIdle DEF GoesOn
<1>4. Hosting!Idle' = Hosting!Idle
  BY DEF Hosting!Idle
<1>5. WholeInv'
  BY <1>1, <1>2, <1>4 DEF WholeInv, GoesOn
<1> QED
  BY <1>3, <1>5 DEF OkStep

(* The step leaves the cloud and the records as they are.                  *)
LEMMA RunOnWhole ==
  ASSUME WholeInv, fleet' = fleet, cloud' = cloud, apex' = apex, WholeRun(fleet, run', cloud, apex)
  PROVE  GoesOn
  BY GrowsSelf DEF GoesOn, WholeInv

LEMMA EndGoesOn ==
  ASSUME WholeInv, fleet' = fleet, apex' = apex, NEW how, how # "ok", Hosting!End(how)
  PROVE  GoesOn
  BY GrowsForgotten DEF GoesOn, WholeInv, Hosting!End

LEMMA HostFailsWhole ==
  ASSUME HostsAreNamed, WholeInv, run.pc \in AtHost \cup {"boot"}, Hosting!HostFails,
         fleet' = fleet, apex' = apex
  PROVE  GoesOn
<1> DEFINE h == fleet.names[run.i]
           r == [run EXCEPT !.failed = @ \cup {h}]
<1>1. WholeRun(fleet, run, cloud, apex) /\ Shaped(fleet, run) /\ fleet \in HostFleets
  BY RunIsWhole DEF AtHost, WholeInv
<1>2. run.i \in DOMAIN fleet.names
  BY <1>1 DEF WholeRun
<1>3. /\ DOMAIN r = RunFields /\ r.i = run.i /\ r.failed = run.failed \cup {h}
      /\ r.ip = run.ip /\ r.dnsErr = run.dnsErr
  BY <1>1 DEF RunFields, Shaped
<1>4. \/ Hosting!End("failed")
      \/ run.pc = "boot" /\ run' = Hosting!Booting(r, run.i + 1) /\ cloud' = cloud
      \/ run.pc # "boot" /\ run' = Hosting!Onward(r) /\ cloud' = cloud
  BY DEF Hosting!HostFails, Hosting!Host
<1> HIDE DEF r, h
<1>5. Shaped(fleet, r)
  BY <1>1, <1>3 DEF Shaped
<1>6. /\ \A g : Placed(fleet, run, cloud, g) => Placed(fleet, r, cloud, g)
      /\ \A g : Prepared(run, cloud, g) => Prepared(r, cloud, g)
      /\ Placed(fleet, r, cloud, h) /\ Prepared(r, cloud, h)
  BY <1>3 DEF Placed, Prepared
<1>7. CASE run.pc = "boot" /\ run' = Hosting!Booting(r, run.i + 1) /\ cloud' = cloud
  <2>1. AllPlaced(fleet, run, cloud) /\ Pointed(fleet, run, apex) /\ PreparedTo(fleet, run, cloud, run.i)
    BY <1>1, <1>7 DEF WholeRun, PastHosts
  <2>2. AllPlaced(fleet, r, cloud)
    BY <1>6, <2>1 DEF AllPlaced
  <2>3. Pointed(fleet, r, apex)
    BY <1>3, <2>1 DEF Pointed
  <2>4. run.i + 1 \in Nat \ {0} /\ \A k \in DOMAIN fleet.names : k < run.i + 1 => k < run.i \/ k = run.i
    BY <1>1, <1>2, NamesOk
  <2>5. PreparedTo(fleet, r, cloud, run.i + 1)
    BY <1>6, <2>1, <2>4 DEF PreparedTo, h
  <2>6. WholeRun(fleet, run', cloud, apex)
    BY <1>1, <1>5, <1>7, <2>2, <2>3, <2>4, <2>5, BootingWhole
  <2> QED
    BY <1>7, <2>6, RunOnWhole
<1>8. CASE run.pc # "boot" /\ run' = Hosting!Onward(r) /\ cloud' = cloud
  <2>1. PlacedTo(fleet, run, cloud, run.i)
    BY <1>1, <1>8 DEF WholeRun
  <2>2. PlacedTo(fleet, r, cloud, r.i) /\ Placed(fleet, r, cloud, fleet.names[r.i])
    BY <1>3, <1>6, <2>1 DEF PlacedTo, h
  <2>3. WholeRun(fleet, run', cloud, apex)
    BY <1>1, <1>2, <1>3, <1>5, <1>8, <2>2, OnwardWhole
  <2> QED
    BY <1>8, <2>3, RunOnWhole
<1> QED
  BY <1>4, <1>7, <1>8, EndGoesOn

LEMMA AfterDnsWhole ==
  ASSUME HostsAreNamed, WholeInv, run.pc \in {"dns", "call"}, NEW err, Hosting!AfterDns(err),
         fleet' = fleet, apex' = apex,
         fleet.domain /\ fleet.kind[fleet.default] # "other" =>
           err = TRUE \/ run.failed # {} \/ \A n \in ApexNames : Lead(apex, n, run.ip[fleet.default])
  PROVE  GoesOn
<1> DEFINE r == [run EXCEPT !.dnsErr = err, !.todo = <<>>]
<1>1. WholeRun(fleet, run, cloud, apex) /\ Shaped(fleet, run) /\ fleet \in HostFleets
  BY RunIsWhole DEF WholeInv
<1>2. DOMAIN r = RunFields /\ r.failed = run.failed /\ r.ip = run.ip /\ r.dnsErr = err
  BY <1>1 DEF RunFields, Shaped
<1>3. run' = Hosting!Booting(r, 1) /\ cloud' = cloud
  BY DEF Hosting!AfterDns
<1> HIDE DEF r
<1>4. Shaped(fleet, r)
  BY <1>1, <1>2 DEF Shaped
<1>5. AllPlaced(fleet, r, cloud)
  BY <1>1, <1>2 DEF WholeRun, PastHosts, AllPlaced, Placed
<1>6. Pointed(fleet, r, apex)
  BY <1>2 DEF Pointed
<1>7. PreparedTo(fleet, r, cloud, 1)
  BY <1>1, NamesOk DEF PreparedTo
<1>8. WholeRun(fleet, run', cloud, apex)
  BY <1>1, <1>3, <1>4, <1>5, <1>6, <1>7, BootingWhole
<1> QED
  BY <1>3, <1>8, RunOnWhole

LEMMA StaysAtHost ==
  ASSUME WholeInv, run.pc \in AtHost, fleet' = fleet, apex' = apex, Grows(cloud, cloud'),
         NEW s \in AtHost, NEW id, run' = [run EXCEPT !.pc = s, !.id = id],
         s \in KnowsHost => Has(cloud', id, fleet.names[run.i])
  PROVE  GoesOn
<1>1. WholeRun(fleet, run, cloud, apex) /\ Shaped(fleet, run)
  BY RunIsWhole DEF AtHost
<1>2. DOMAIN run' = RunFields /\ run'.ip = run.ip /\ run'.failed = run.failed /\ run'.i = run.i /\ run'.pc = s /\ run'.id = id
  BY <1>1 DEF RunFields, Shaped
<1>3. WholeRun(fleet, run, cloud', apex)
  BY <1>1, WholeGrows
<1>4. WholeRun(fleet, run', cloud', apex)
  BY <1>2, <1>3, SameHostWhole
<1> QED
  BY <1>4 DEF GoesOn, WholeInv

LEMMA SameId ==
  ASSUME NEW s, Shaped(fleet, run), run' = [run EXCEPT !.pc = s]
  PROVE  run' = [run EXCEPT !.pc = s, !.id = run.id]
  BY DEF Shaped, RunFields

LEMMA LookWhole == ASSUME HostsAreNamed, WholeInv, Hosting!Look PROVE GoesOn
<1> DEFINE h == fleet.names[run.i]
<1>1. run.pc = "list" /\ run.pc \in AtHost /\ fleet' = fleet /\ apex' = apex
  BY DEF Hosting!Look, AtHost
<1>2. WholeRun(fleet, run, cloud, apex) /\ Shaped(fleet, run) /\ run.i \in DOMAIN fleet.names
  BY <1>1, RunIsWhole DEF WholeRun
<1>3. IsList(cloud)
  BY DEF WholeInv, CloudList, IsList
<1>4. ASSUME NEW ip, Hosting!Found(ip), (fleet.kind[h] = "other" /\ ip = 0) \/ (ip # 0 /\ Has(cloud, ip, h))
      PROVE  GoesOn
  BY <1>1, <1>4, FoundWhole, RunOnWhole
<1>5. CASE Hosting!HostFails
  BY <1>1, <1>5, HostFailsWhole
<1>6. CASE fleet.kind[h] = "given"
  <2> DEFINE mine == {j \in DOMAIN cloud : cloud[j].name = h /\ ~cloud[j].listed}
             ip == CHOOSE j \in DOMAIN cloud : cloud[j].name = h /\ ~cloud[j].listed
  <2>1. h \in Hosting!Given(fleet)
    BY <1>2, <1>6 DEF Hosting!Given
  <2>2. \E j \in DOMAIN cloud : cloud[j].name = h /\ ~cloud[j].listed
    BY <2>1 DEF WholeInv, GivenThere
  <2>3. ip \in DOMAIN cloud /\ cloud[ip].name = h
    BY <2>2
  <2>4. Hosting!Found(ip)
    BY <1>6 DEF Hosting!Look, Hosting!Host
  <2> HIDE DEF ip
  <2>5. ip # 0
    BY <1>3, <2>3 DEF IsList
  <2> QED
    BY <1>4, <2>3, <2>4, <2>5 DEF Has
<1>7. CASE fleet.kind[h] # "given" /\ fleet.kind[h] = "other"
  <2>1. Hosting!Found(0)
    BY <1>7 DEF Hosting!Look, Hosting!Host
  <2> QED
    BY <1>4, <1>7, <2>1
<1>8. CASE fleet.kind[h] # "given" /\ fleet.kind[h] # "other"
  <2> DEFINE found == Hosting!Listed(h)
             one   == CHOOSE j \in found : TRUE
  <2>1. \/ Hosting!HostFails
        \/ \E s \in {"wait", "verify"} : run' = [run EXCEPT !.pc = s, !.id = one] /\ cloud' = cloud /\ found # {}
        \/ run' = [run EXCEPT !.pc = "access"] /\ cloud' = cloud
    <3>1. Hosting!classifyHost(found) \in {"use", "wait"} => found # {}
      BY DEF Hosting!classifyHost
    <3>2. \/ Hosting!HostFails
          \/ /\ run' = [run EXCEPT !.pc = "wait", !.id = one] /\ cloud' = cloud
             /\ Hosting!classifyHost(found) = "wait"
          \/ /\ run' = [run EXCEPT !.pc = "verify", !.id = one] /\ cloud' = cloud
             /\ Hosting!classifyHost(found) = "use"
          \/ run' = [run EXCEPT !.pc = "access"] /\ cloud' = cloud
      BY <1>8 DEF Hosting!Look, Hosting!Host
    <3> QED
      BY <3>1, <3>2
  <2>2. found # {} => Has(cloud, one, h)
    BY DEF Hosting!Listed, Has
  <2> HIDE DEF found, one
  <2>3. ASSUME NEW s \in {"wait", "verify"}, run' = [run EXCEPT !.pc = s, !.id = one], cloud' = cloud, found # {}
        PROVE  GoesOn
    <3>1. Grows(cloud, cloud') /\ s \in AtHost
      BY <2>3, GrowsSelf DEF WholeInv, AtHost
    <3> QED
      BY <1>1, <2>2, <2>3, <3>1, StaysAtHost
  <2>4. ASSUME run' = [run EXCEPT !.pc = "access"], cloud' = cloud
        PROVE  GoesOn
    <3>1. run' = [run EXCEPT !.pc = "access", !.id = run.id]
      BY <1>2, <2>4, SameId
    <3>2. Grows(cloud, cloud') /\ "access" \in AtHost /\ "access" \notin KnowsHost
      BY <2>4, GrowsSelf DEF WholeInv, AtHost, KnowsHost
    <3> QED
      BY <1>1, <3>1, <3>2, StaysAtHost
  <2> QED
    BY <1>5, <2>1, <2>3, <2>4
<1> QED
  BY <1>6, <1>7, <1>8

-----------------------------------------------------------------------------
(* The steps of a host and of the DNS, one by one.                         *)
LEMMA WaitWhole == ASSUME HostsAreNamed, WholeInv, Hosting!Wait PROVE GoesOn
<1>1. run.pc \in {"wait", "created"} /\ run.pc \in AtHost /\ fleet' = fleet /\ apex' = apex
  BY DEF Hosting!Wait, AtHost
<1>2. WholeRun(fleet, run, cloud, apex) /\ Shaped(fleet, run) /\ Has(cloud, run.id, fleet.names[run.i])
  BY <1>1, RunIsWhole DEF WholeRun, KnowsHost
<1>3. run.id # 0
  BY <1>2 DEF Has, WholeInv, CloudList
<1>4. CASE Hosting!Found(run.id)
  BY <1>1, <1>2, <1>3, <1>4, FoundWhole, RunOnWhole
<1>5. CASE Hosting!HostFails
  BY <1>1, <1>5, HostFailsWhole
<1>6. CASE run' = [run EXCEPT !.pc = "verify"] /\ cloud' = cloud
  <2>1. run' = [run EXCEPT !.pc = "verify", !.id = run.id]
    BY <1>2, <1>6, SameId
  <2>2. Grows(cloud, cloud') /\ "verify" \in AtHost
    BY <1>6, GrowsSelf DEF WholeInv, AtHost
  <2> QED
    BY <1>1, <1>2, <1>6, <2>1, <2>2, StaysAtHost
<1> QED
  BY <1>4, <1>5, <1>6 DEF Hosting!Wait

LEMMA VerifyWhole == ASSUME HostsAreNamed, WholeInv, Hosting!Verify PROVE GoesOn
<1>1. run.pc = "verify" /\ run.pc \in AtHost /\ fleet' = fleet /\ apex' = apex
  BY DEF Hosting!Verify, AtHost
<1>2. Has(cloud, run.id, fleet.names[run.i])
  BY <1>1, RunIsWhole DEF WholeRun, KnowsHost
<1>3. run.id # 0
  BY <1>2 DEF Has, WholeInv, CloudList
<1>4. CASE Hosting!Found(run.id)
  BY <1>1, <1>2, <1>3, <1>4, FoundWhole, RunOnWhole
<1>5. CASE Hosting!HostFails
  BY <1>1, <1>5, HostFailsWhole
<1> QED
  BY <1>4, <1>5 DEF Hosting!Verify

LEMMA AccessWhole == ASSUME HostsAreNamed, WholeInv, Hosting!Access PROVE GoesOn
<1>1. /\ run.pc = "access" /\ run.pc \in AtHost /\ fleet' = fleet /\ apex' = apex /\ cloud' = cloud
      /\ run' = [run EXCEPT !.pc = "create"]
  BY DEF Hosting!Access, AtHost
<1>2. run' = [run EXCEPT !.pc = "create", !.id = run.id]
  BY <1>1, RunIsWhole, SameId
<1>3. Grows(cloud, cloud') /\ "create" \in AtHost /\ "create" \notin KnowsHost
  BY <1>1, GrowsSelf DEF WholeInv, AtHost, KnowsHost
<1> QED
  BY <1>1, <1>2, <1>3, StaysAtHost

LEMMA CreateWhole == ASSUME HostsAreNamed, WholeInv, Hosting!Create PROVE GoesOn
<1>1. /\ run.pc \in AtHost /\ fleet' = fleet /\ apex' = apex /\ cloud' = Hosting!WithDroplet
      /\ run' = [run EXCEPT !.pc = "created", !.id = Len(cloud) + 1]
  BY DEF Hosting!Create, AtHost
<1>2. Grows(cloud, cloud') /\ Has(cloud', Len(cloud) + 1, fleet.names[run.i])
  BY <1>1, GrowsDroplet DEF WholeInv
<1>3. "created" \in AtHost
  BY DEF AtHost
<1> QED
  BY <1>1, <1>2, <1>3, StaysAtHost

LEMMA SyncDnsWhole == ASSUME HostsAreNamed, DefaultIsNamed, WholeInv, Hosting!SyncDns PROVE GoesOn
<1> DEFINE d == fleet.default
           sync == Hosting!PlanDNSSync(apex, Hosting!Apex(run.ip[d]))
           r == [run EXCEPT !.pc = "call", !.todo = sync]
<1>1. run.pc = "dns" /\ fleet' = fleet /\ apex' = apex
  BY DEF Hosting!SyncDns
<1>2. WholeRun(fleet, run, cloud, apex) /\ Shaped(fleet, run) /\ AllPlaced(fleet, run, cloud)
  BY <1>1, RunIsWhole DEF WholeRun, PastHosts
<1>3. d \in AllHosts(fleet) /\ DOMAIN run.ip = AllHosts(fleet)
  BY <1>2 DEF DefaultIsNamed, WholeInv, AllHosts, Shaped
<1>4. Placed(fleet, run, cloud, d)
  BY <1>2, <1>3 DEF AllPlaced
<1>5. \/ ~fleet.domain /\ Hosting!AfterDns(FALSE)
      \/ d \in run.failed /\ Hosting!AfterDns(TRUE)
      \/ run.ip[d] = 0 /\ Hosting!AfterDns(FALSE)
      \/ run' = r /\ cloud' = cloud
  BY <1>3 DEF Hosting!SyncDns
<1>6. CASE \/ ~fleet.domain /\ Hosting!AfterDns(FALSE)
           \/ d \in run.failed /\ Hosting!AfterDns(TRUE)
           \/ run.ip[d] = 0 /\ Hosting!AfterDns(FALSE)
  <2>1. run.ip[d] = 0 => fleet.kind[d] = "other" \/ run.failed # {}
    BY <1>4 DEF Placed
  <2> QED
    BY <1>1, <1>6, <2>1, AfterDnsWhole
<1>7. CASE run' = r /\ cloud' = cloud
  <2>1. DOMAIN r = RunFields /\ r.pc = "call" /\ r.ip = run.ip /\ r.failed = run.failed /\ r.todo = sync
    BY <1>2 DEF RunFields, Shaped
  <2> HIDE DEF r
  <2>2. IsList(apex)
    BY DEF WholeInv, ApexOk, IsList
  <2>3. ToPoint(apex, sync, run.ip[d])
    BY <2>2, PlanPoints
  <2> HIDE DEF sync
  <2>4. Shaped(fleet, r) /\ AllPlaced(fleet, r, cloud)
    BY <1>2, <2>1 DEF Shaped, AllPlaced, Placed
  <2>5. WholeRun(fleet, r, cloud, apex)
    BY <2>1, <2>3, <2>4 DEF WholeRun, AtHost, KnowsHost, PastHosts
  <2> QED
    BY <1>1, <1>7, <2>5, RunOnWhole
<1> QED
  BY <1>5, <1>6, <1>7

LEMMA DnsCallWhole == ASSUME HostsAreNamed, WholeInv, Hosting!DnsCall PROVE GoesOn
<1> DEFINE ip == run.ip[fleet.default]
           r == [run EXCEPT !.todo = Tail(@)]
<1>1. run.pc = "call" /\ fleet' = fleet
  BY DEF Hosting!DnsCall
<1>2. /\ WholeRun(fleet, run, cloud, apex) /\ Shaped(fleet, run) /\ AllPlaced(fleet, run, cloud)
      /\ ToPoint(apex, run.todo, ip)
  BY <1>1, RunIsWhole DEF WholeRun, PastHosts
<1>3. CASE run.todo = <<>>
  <2>1. Hosting!AfterDns(FALSE) /\ apex' = apex
    BY <1>3 DEF Hosting!DnsCall
  <2>2. Elements(run.todo) = {}
    BY <1>3 DEF Elements
  <2>3. \A n \in ApexNames : Lead(apex, n, ip)
    BY <1>2, <2>2 DEF ToPoint
  <2> QED
    BY <1>1, <2>1, <2>3, AfterDnsWhole
<1>4. CASE run.todo # <<>>
  <2>1. apex' = Hosting!Called(apex, Head(run.todo)) /\ run' = r /\ cloud' = cloud
    BY <1>4 DEF Hosting!DnsCall
  <2>2. ApexOk(apex') /\ ToPoint(apex', Tail(run.todo), ip)
    BY <1>2, <1>4, <2>1, CallPoints DEF WholeInv
  <2>3. DOMAIN r = RunFields /\ r.pc = "call" /\ r.ip = run.ip /\ r.failed = run.failed /\ r.todo = Tail(run.todo)
    BY <1>1, <1>2 DEF RunFields, Shaped
  <2> HIDE DEF r
  <2>4. Shaped(fleet, r) /\ AllPlaced(fleet, r, cloud)
    BY <1>2, <2>3 DEF Shaped, AllPlaced, Placed
  <2>5. WholeRun(fleet, r, cloud, apex')
    BY <2>2, <2>3, <2>4 DEF WholeRun, AtHost, KnowsHost, PastHosts
  <2>6. Grows(cloud, cloud')
    BY <2>1, GrowsSelf DEF WholeInv
  <2> QED
    BY <1>1, <2>1, <2>2, <2>5, <2>6 DEF GoesOn
<1> QED
  BY <1>3, <1>4, Zenon

LEMMA BootWhole == ASSUME HostsAreNamed, WholeInv, Hosting!Boot PROVE GoesOn
<1> DEFINE h == fleet.names[run.i]
           j == run.ip[h]
           m == [cloud[j] EXCEPT !.boot = TRUE]
<1>1. run.pc = "boot" /\ fleet' = fleet /\ apex' = apex
  BY DEF Hosting!Boot
<1>2. /\ WholeRun(fleet, run, cloud, apex) /\ Shaped(fleet, run) /\ AllPlaced(fleet, run, cloud)
      /\ Pointed(fleet, run, apex) /\ PreparedTo(fleet, run, cloud, run.i)
      /\ run.i \in DOMAIN fleet.names /\ h \notin run.failed /\ j # 0 /\ fleet \in HostFleets
  BY <1>1, RunIsWhole DEF WholeRun, PastHosts, WholeInv
<1>3. j \in DOMAIN cloud
  BY <1>2 DEF AllPlaced, AllHosts, Placed, Has
<1>4. CASE Hosting!HostFails
  BY <1>1, <1>4, HostFailsWhole
<1>5. CASE cloud' = [cloud EXCEPT ![j].boot = TRUE] /\ run' = Hosting!Booting(run, run.i + 1)
  <2>1. cloud' = [cloud EXCEPT ![j] = m]
    BY <1>5
  <2>2. Becomes(cloud[j], m) /\ m.boot = TRUE
    BY <1>3 DEF WholeInv, CloudList, Becomes, MachineFields
  <2> HIDE DEF m
  <2>3. Grows(cloud, cloud')
    BY <1>3, <2>1, <2>2, GrowsOne DEF WholeInv
  <2>4. cloud'[j] = m
    BY <1>3, <2>1
  <2>5. WholeRun(fleet, run, cloud', apex)
    BY <1>2, <2>3, WholeGrows
  <2>6. AllPlaced(fleet, run, cloud') /\ PreparedTo(fleet, run, cloud', run.i)
    BY <1>1, <2>5 DEF WholeRun, PastHosts
  <2>7. Prepared(run, cloud', h)
    <3>1. cloud'[j].boot /\ j = run.ip[h]
      BY <2>2, <2>4
    <3> HIDE DEF h, j
    <3> QED
      BY <3>1, Zenon DEF Prepared
  <2>8. run.i + 1 \in Nat \ {0} /\ \A k \in DOMAIN fleet.names : k < run.i + 1 => k < run.i \/ k = run.i
    BY <1>2, NamesOk
  <2>9. PreparedTo(fleet, run, cloud', run.i + 1)
    BY <2>6, <2>7, <2>8 DEF PreparedTo
  <2>10. WholeRun(fleet, run', cloud', apex)
    BY <1>2, <1>5, <2>6, <2>8, <2>9, BootingWhole
  <2> QED
    BY <1>1, <2>3, <2>10 DEF GoesOn, WholeInv
<1> QED
  BY <1>4, <1>5, Zenon DEF Hosting!Boot, Hosting!Host

(* A run that says ok.                                                     *)
LEMMA FinishWhole == ASSUME HostsAreNamed, DefaultIsNamed, WholeInv, Hosting!Finish PROVE WholeInv' /\ OkStep
<1>1. /\ run.pc = "end" /\ fleet' = fleet /\ apex' = apex /\ run' = Hosting!Idle
      /\ cloud' = Hosting!Forgotten(cloud) /\ last' = Hosting!Result(run)
  BY DEF Hosting!Finish, Hosting!End
<1>2. /\ WholeRun(fleet, run, cloud, apex) /\ Shaped(fleet, run) /\ AllPlaced(fleet, run, cloud)
      /\ Pointed(fleet, run, apex) /\ \A h \in AllHosts(fleet) : Prepared(run, cloud, h)
  BY <1>1, RunIsWhole DEF WholeRun, PastHosts
<1>3. WholeInv'
  <2>1. Grows(cloud, cloud')
    BY <1>1, GrowsForgotten DEF WholeInv
  <2>2. Hosting!Idle' = Hosting!Idle
    BY DEF Hosting!Idle
  <2> QED
    BY <1>1, <2>1, <2>2, GivenStay DEF WholeInv, Grows
<1>4. ASSUME last' = "ok"
      PROVE  run.failed = {} /\ ~run.dnsErr
  BY <1>1, <1>4 DEF Hosting!Result
<1>5. DOMAIN run.ip = AllHosts(fleet)
  BY <1>2 DEF Shaped
<1>6. ASSUME last' = "ok", NEW h \in DOMAIN run.ip
      PROVE  /\ fleet.kind[h] # "other" => run.ip[h] # 0
             /\ run.ip[h] # 0 => cloud[run.ip[h]].boot /\ cloud[run.ip[h]].name = h
  <2>1. Placed(fleet, run, cloud, h) /\ Prepared(run, cloud, h)
    BY <1>2, <1>5, <1>6 DEF AllPlaced
  <2> QED
    BY <1>4, <1>6, <2>1 DEF Placed, Prepared, Has
<1>7. ASSUME last' = "ok", fleet.domain, fleet.kind[fleet.default] # "other"
      PROVE  Hosting!Leads(run.ip[fleet.default])
  BY <1>2, <1>4, <1>7 DEF Pointed, Hosting!Leads, Lead, ApexNames
<1>8. OkStep
  BY <1>6, <1>7 DEF OkStep
<1> QED
  BY <1>3, <1>8

LEMMA StartWhole ==
  ASSUME HostsAreNamed, WholeInv, NEW key \in {"operator", "run"}, Hosting!Start(key)
  PROVE  GoesOn
<1>1. /\ fleet' = fleet /\ cloud' = cloud /\ apex' = apex
      /\ DOMAIN run' = RunFields /\ run'.pc = "list" /\ run'.i = 1 /\ run'.ip = [h \in AllHosts(fleet) |-> 0]
  BY DEF Hosting!Start, RunFields, AllHosts
<1>2. Shaped(fleet, run')
  BY <1>1 DEF Shaped
<1>3. 1 \in DOMAIN fleet.names /\ PlacedTo(fleet, run', cloud, 1)
  BY NamesOk DEF WholeInv, PlacedTo
<1>4. WholeRun(fleet, run', cloud, apex)
  BY <1>1, <1>2, <1>3 DEF WholeRun, AtHost, KnowsHost, PastHosts
<1> QED
  BY <1>1, <1>4, RunOnWhole

LEMMA TroubleWhole ==
  ASSUME HostsAreNamed, WholeInv,
         Hosting!CallFails \/ Hosting!NoDnsProvider \/ Hosting!AnswerLost \/ Hosting!Kill
  PROVE  GoesOn
<1>1. fleet' = fleet /\ apex' = apex
  BY DEF Hosting!CallFails, Hosting!NoDnsProvider, Hosting!AnswerLost, Hosting!Kill
<1>2. CASE Hosting!CallFails
  <2>1. \/ run.pc \in AtHost \cup {"boot"} /\ Hosting!HostFails
        \/ run.pc \in {"dns", "call"} /\ Hosting!AfterDns(TRUE)
    BY <1>2 DEF Hosting!CallFails, AtHost
  <2> QED
    BY <1>1, <2>1, HostFailsWhole, AfterDnsWhole
<1>3. CASE Hosting!NoDnsProvider
  <2>1. \/ run.pc \in {"dns", "call"} /\ Hosting!AfterDns(TRUE)
        \/ Hosting!End("failed")
    BY <1>3 DEF Hosting!NoDnsProvider
  <2> QED
    BY <1>1, <2>1, AfterDnsWhole, EndGoesOn
<1>4. CASE Hosting!AnswerLost
  <2> DEFINE h == fleet.names[run.i]
             r == [run EXCEPT !.failed = @ \cup {h}]
  <2>1. run.pc \in AtHost
    BY <1>4 DEF Hosting!AnswerLost, AtHost
  <2>2. /\ WholeRun(fleet, run, cloud, apex) /\ Shaped(fleet, run) /\ fleet \in HostFleets
        /\ CloudList(cloud) /\ ApexOk(apex)
    BY <2>1, RunIsWhole DEF AtHost, WholeInv
  <2>3. Grows(cloud, Hosting!WithDroplet)
    BY <2>2, GrowsDroplet
  <2>4. \/ run' = Hosting!Onward(r) /\ cloud' = Hosting!WithDroplet
        \/ run' = Hosting!Idle /\ cloud' = Hosting!Forgotten(Hosting!WithDroplet) /\ last' = "failed"
    BY <1>4 DEF Hosting!AnswerLost, Hosting!Host
  <2>5. DOMAIN r = RunFields /\ r.i = run.i /\ r.failed = run.failed \cup {h} /\ r.ip = run.ip
    BY <2>2 DEF RunFields, Shaped
  <2> HIDE DEF r, h
  <2>6. CASE run' = Hosting!Onward(r) /\ cloud' = Hosting!WithDroplet
    <3>1. WholeRun(fleet, run, cloud', apex)
      BY <2>2, <2>3, <2>6, WholeGrows
    <3>2. run.i \in DOMAIN fleet.names /\ PlacedTo(fleet, run, cloud', run.i)
      BY <2>1, <3>1 DEF WholeRun
    <3>3. PlacedTo(fleet, r, cloud', r.i) /\ Placed(fleet, r, cloud', fleet.names[r.i])
      BY <2>5, <3>2 DEF PlacedTo, Placed, h
    <3>4. Shaped(fleet, r)
      BY <2>2, <2>5 DEF Shaped
    <3>5. WholeRun(fleet, run', cloud', apex)
      BY <2>2, <2>5, <2>6, <3>2, <3>3, <3>4, OnwardWhole
    <3> QED
      BY <1>1, <2>2, <2>3, <2>6, <3>5 DEF GoesOn
  <2>7. CASE run' = Hosting!Idle /\ cloud' = Hosting!Forgotten(Hosting!WithDroplet) /\ last' = "failed"
    <3>1. Grows(Hosting!WithDroplet, cloud')
      BY <2>3, <2>7, GrowsForgotten DEF Grows
    <3>2. Grows(cloud, cloud')
      BY <2>3, <3>1, GrowsTwice
    <3> QED
      BY <1>1, <2>2, <2>7, <3>2 DEF GoesOn
  <2> QED
    BY <2>4, <2>6, <2>7
<1>5. CASE Hosting!Kill
  BY <1>1, <1>5, GrowsForgotten DEF Hosting!Kill, GoesOn, WholeInv
<1> QED
  BY <1>2, <1>3, <1>4, <1>5

(* What becomes of a machine by itself disturbs no run.                    *)
LEMMA MachineWhole ==
  ASSUME HostsAreNamed, WholeInv, NEW j \in DOMAIN cloud,
         Hosting!ComesUp(j) \/ Hosting!Lose(j) \/ Hosting!TurnOn(j)
  PROVE  WholeInv' /\ OkStep
<1>1. fleet' = fleet /\ run' = run /\ apex' = apex
  BY DEF Hosting!ComesUp, Hosting!Lose, Hosting!TurnOn
<1>2. DOMAIN cloud[j] = MachineFields
  BY DEF WholeInv, CloudList
<1>3. ASSUME NEW m, Becomes(cloud[j], m), cloud' = [cloud EXCEPT ![j] = m]
      PROVE  Grows(cloud, cloud')
  BY <1>3, GrowsOne DEF WholeInv
<1>4. \E m : Becomes(cloud[j], m) /\ cloud' = [cloud EXCEPT ![j] = m]
  <2>1. CASE cloud' = [cloud EXCEPT ![j].ip = TRUE]
    <3> DEFINE m == [cloud[j] EXCEPT !.ip = TRUE]
    <3>1. Becomes(cloud[j], m)
      BY <1>2 DEF Becomes, MachineFields
    <3> QED
      BY <2>1, <3>1
  <2>2. CASE cloud' = [cloud EXCEPT ![j].up = TRUE]
    <3> DEFINE m == [cloud[j] EXCEPT !.up = TRUE]
    <3>1. Becomes(cloud[j], m)
      BY <1>2 DEF Becomes, MachineFields
    <3> QED
      BY <2>2, <3>1
  <2>3. CASE cloud' = [cloud EXCEPT ![j].status = "active"]
    <3> DEFINE m == [cloud[j] EXCEPT !.status = "active"]
    <3>1. Becomes(cloud[j], m)
      BY <1>2 DEF Becomes, MachineFields
    <3> QED
      BY <2>3, <3>1
  <2>4. CASE Hosting!ComesUp(j)
    <3>1. \/ \E ip : cloud' = [cloud EXCEPT ![j].status = "active", ![j].ip = ip]
          \/ cloud' = [cloud EXCEPT ![j].ip = TRUE]
          \/ cloud' = [cloud EXCEPT ![j].up = TRUE]
      BY <2>4, Zenon DEF Hosting!ComesUp
    <3>2. CASE \E ip : cloud' = [cloud EXCEPT ![j].status = "active", ![j].ip = ip]
      <4>1. PICK ip : cloud' = [cloud EXCEPT ![j].status = "active", ![j].ip = ip]
        BY <3>2
      <4> DEFINE m == [cloud[j] EXCEPT !.status = "active", !.ip = ip]
      <4>2. Becomes(cloud[j], m)
        BY <1>2 DEF Becomes, MachineFields
      <4>3. cloud' = [cloud EXCEPT ![j] = m]
        BY <4>1
      <4> QED
        BY <4>2, <4>3
    <3> QED
      BY <2>1, <2>2, <3>1, <3>2, Zenon
  <2>5. CASE Hosting!Lose(j)
    <3>1. PICK s : cloud' = [cloud EXCEPT ![j].status = s, ![j].up = FALSE]
      BY <2>5 DEF Hosting!Lose
    <3> DEFINE m == [cloud[j] EXCEPT !.status = s, !.up = FALSE]
    <3>2. Becomes(cloud[j], m)
      BY <1>2 DEF Becomes, MachineFields
    <3>3. cloud' = [cloud EXCEPT ![j] = m]
      BY <3>1
    <3> QED
      BY <3>2, <3>3
  <2>6. CASE Hosting!TurnOn(j)
    BY <2>3, <2>6 DEF Hosting!TurnOn
  <2> QED
    BY <2>4, <2>5, <2>6
<1>5. Grows(cloud, cloud')
  BY <1>3, <1>4
<1>6. GivenThere(fleet, cloud') /\ CloudList(cloud')
  BY <1>5, GivenStay DEF WholeInv, Grows
<1>7. run = Hosting!Idle \/ WholeRun(fleet, run, cloud', apex)
  BY <1>5, WholeGrows DEF WholeInv
<1>8. Hosting!Idle' = Hosting!Idle
  BY DEF Hosting!Idle
<1>9. WholeInv'
  BY <1>1, <1>6, <1>7, <1>8 DEF WholeInv
<1> QED
  BY <1>1, <1>9 DEF OkStep

(* The invariant, and what a step from it does.                            *)
LEMMA WholeBegins == HostsAreNamed /\ Hosting!Init => WholeInv
<1> SUFFICES ASSUME HostsAreNamed, Hosting!Init
             PROVE  WholeInv
  OBVIOUS
<1>1. fleet \in HostFleets /\ run = Hosting!Idle
  BY DEF Hosting!Init
<1>2. PICK n \in 0 .. Len(fleet.names) : \E order \in [1 .. n -> Hosting!Given(fleet)] :
        /\ \A h \in Hosting!Given(fleet) : \E k \in 1 .. n : order[k] = h
        /\ cloud = [k \in 1 .. n |-> Hosting!Machine(order[k], FALSE, "operator")]
  BY DEF Hosting!Init
<1>3. PICK order \in [1 .. n -> Hosting!Given(fleet)] :
        /\ \A h \in Hosting!Given(fleet) : \E k \in 1 .. n : order[k] = h
        /\ cloud = [k \in 1 .. n |-> Hosting!Machine(order[k], FALSE, "operator")]
  BY <1>2
<1>4. n \in Nat /\ DOMAIN cloud = 1 .. n
  BY <1>1, <1>3, NamesOk
<1>5. ASSUME NEW k \in 1 .. n
      PROVE  DOMAIN cloud[k] = MachineFields /\ cloud[k].name = order[k] /\ ~cloud[k].listed
  <2>1. cloud[k] = Hosting!Machine(order[k], FALSE, "operator")
    BY <1>3
  <2> QED
    BY <2>1 DEF Hosting!Machine, MachineFields
<1>6. cloud \in Seq(Elements(cloud))
  <2>1. cloud = [k \in 1 .. n |-> cloud[k]]
    BY <1>3
  <2>2. cloud \in [1 .. n -> Elements(cloud)]
    BY <1>4, <2>1 DEF Elements
  <2> QED
    BY <1>4, <2>2
<1>7. CloudList(cloud) /\ GivenThere(fleet, cloud)
  <2>1. CloudList(cloud)
    BY <1>4, <1>5, <1>6 DEF CloudList
  <2>2. ASSUME NEW h \in Hosting!Given(fleet)
        PROVE  \E j \in DOMAIN cloud : cloud[j].name = h /\ ~cloud[j].listed
    <3>1. PICK k \in 1 .. n : order[k] = h
      BY <1>3
    <3>2. k \in DOMAIN cloud /\ cloud[k].name = h /\ ~cloud[k].listed
      BY <1>4, <1>5, <3>1
    <3> QED
      BY <3>2
  <2> QED
    BY <2>1, <2>2 DEF GivenThere
<1>8. ApexOk(apex)
  <2> DEFINE old == [type |-> "A", name |-> "*", value |-> 99, ttl |-> Hosting!DefaultTTL, id |-> 1]
  <2>1. apex = <<>> \/ apex = <<old>>
    BY DEF Hosting!Init
  <2>2. DOMAIN old = RecordFields
    BY DEF RecordFields
  <2> HIDE DEF old
  <2>3. \A i \in DOMAIN apex : apex[i] = old
    BY <2>1
  <2>4. apex \in Seq({old})
    <3>1. <<>> \in Seq({old}) /\ Append(<<>>, old) \in Seq({old})
      OBVIOUS
    <3>2. <<old>> = Append(<<>>, old)
      OBVIOUS
    <3> QED
      BY <2>1, <3>1, <3>2
  <2>5. apex \in Seq(Elements(apex))
    BY <2>4, ListElements
  <2> QED
    BY <2>2, <2>3, <2>5 DEF ApexOk
<1> QED
  BY <1>1, <1>7, <1>8 DEF WholeInv

LEMMA WholeKept ==
  HostsAreNamed /\ DefaultIsNamed /\ WholeInv /\ [Hosting!Next]_Hosting!vars => WholeInv' /\ [OkStep]_Hosting!vars
<1> SUFFICES ASSUME HostsAreNamed, DefaultIsNamed, WholeInv, [Hosting!Next]_Hosting!vars
             PROVE  WholeInv' /\ (OkStep \/ UNCHANGED Hosting!vars)
  OBVIOUS
<1>1. ASSUME NEW key \in {"operator", "run"}, Hosting!Start(key)
      PROVE  WholeInv' /\ OkStep
  BY <1>1, StartWhole, GoesOnKeeps
<1>2. CASE Hosting!Step
  <2>1. GoesOn \/ Hosting!Finish
    BY <1>2, LookWhole, WaitWhole, VerifyWhole, AccessWhole, CreateWhole, SyncDnsWhole, DnsCallWhole, BootWhole
       DEF Hosting!Step
  <2> QED
    BY <2>1, GoesOnKeeps, FinishWhole
<1>3. CASE Hosting!CallFails \/ Hosting!NoDnsProvider \/ Hosting!AnswerLost \/ Hosting!Kill
  BY <1>3, TroubleWhole, GoesOnKeeps
<1>4. ASSUME NEW j \in DOMAIN cloud, Hosting!ComesUp(j) \/ Hosting!Lose(j) \/ Hosting!TurnOn(j)
      PROVE  WholeInv' /\ OkStep
  BY <1>4, MachineWhole
<1>5. CASE UNCHANGED Hosting!vars
  <2>1. Hosting!Idle' = Hosting!Idle
    BY DEF Hosting!Idle
  <2>2. WholeInv'
    BY <1>5, <2>1 DEF Hosting!vars, WholeInv
  <2> QED
    BY <1>5, <2>2
<1> QED
  BY <1>1, <1>2, <1>3, <1>4, <1>5 DEF Hosting!Next

(* Whatever fails on the way, a run of reconcile that says ok has logged   *)
(* in to every host it has an address for, has an address for each one it  *)
(* provisions, and has left the domain pointing at the default host's      *)
(* address of this run, whether a droplet has its address once it is active *)
(* or later (pkg/engine/reconciler.go, Reconcile; hosts.go, syncDNS;       *)
(* pkg/provider/dnssync.go, PlanDNSSync).                                  *)
THEOREM OkAlwaysWhole ==
    ASSUME HostsAreNamed, DefaultIsNamed
    PROVE  Hosting!Spec => OkIsWhole
<1>1. Hosting!Init => WholeInv
  BY WholeBegins
<1>2. WholeInv /\ [Hosting!Next]_Hosting!vars => WholeInv' /\ [OkStep]_Hosting!vars
  BY WholeKept
<1>3. Hosting!Spec => [][OkStep]_Hosting!vars
  BY <1>1, <1>2, PTL DEF Hosting!Spec
<1> QED
  BY <1>3 DEF OkIsWhole, Hosting!OkIsWhole, OkStep

-----------------------------------------------------------------------------
(* A fleet that is quiet is as fleet.yml says.  The invariant has two      *)
(* parts.  Of the mesh: what an interface runs is what its file says, or   *)
(* an apply that wrote the file is about to restart it or was cut off      *)
(* before it did.  Of the zone: where its records lead, and that every call*)
(* a daemon has still to make finds its record.                            *)

(* Hosts have names; the service moves away from the default host and not  *)
(* back; and a fleet.yml begins with the service and the default host among*)
(* its hosts, and leaves the service's address record to its route.        *)
OwnRecord(r) == r.type = "A" /\ r.name = "app"
NewFleets ==
  /\ {"", Net!Elsewhere} \cap Hosts = {}
  /\ \A m \in Moves : m[1] = DefaultHost
  /\ \A y \in Starts :
       /\ {y.home, DefaultHost} \subseteq y.hosts
       /\ \A i \in DOMAIN y.records : ~OwnRecord(y.records[i])

(* What fleet.yml is from then on.                                         *)
IsFleetYml(y) ==
  /\ y = [hosts |-> y.hosts, mesh |-> y.mesh, key |-> y.key, ep |-> y.ep,
          home |-> y.home, records |-> y.records]
  /\ y.key = [h \in Hosts |-> y.key[h]] /\ y.ep = [h \in Hosts |-> y.ep[h]]
  /\ y.hosts \in SUBSET Hosts /\ {y.home, DefaultHost} \subseteq y.hosts
  /\ IsList(y.records) /\ \A i \in DOMAIN y.records : ~OwnRecord(y.records[i])

(* One host's side of the mesh, s, where its daemon is at a with the mesh  *)
(* plan m; u says whether an apply was cut off between config and restart. *)
Commands == {"forward", "conf", "rules", "enable", "restart"}
PastConf == {"rules", "enable", "restart"}

MeshSide(s, a, m, u) ==
  /\ s.pub \in {0, s.key}
  /\ s.active => s.key # 0 /\ s.livePub = s.key
  /\ s.active => s.live = s.conf \/ u \/ (a \in PastConf /\ m.conf # Net!NoConf)
  /\ a \in Commands => s.key # 0 /\ (m.conf # Net!NoConf => m.restart)

(* What the interface is judged by.                                        *)
SameSide(s, t) ==
  /\ t.key = s.key /\ t.pub = s.pub /\ t.conf = s.conf
  /\ t.active = s.active /\ t.live = s.live /\ t.livePub = s.livePub

LEMMA HostFields ==
  ASSUME NEW s, IsHost(s)
  PROVE  DOMAIN s = {"key", "pub", "conf", "active", "enabled", "live", "livePub", "forward", "rules"}
BY Zenon DEF IsHost

(* What the key script, a start and a stop do to them.                     *)
LEMMA ScriptMakes ==
  ASSUME NEW s, IsHost(s), NEW fresh
  PROVE  LET t == Net!KeyMade(s, fresh)
         IN  /\ t.key = (IF s.key = 0 THEN fresh ELSE s.key) /\ t.pub = t.key
             /\ t.conf = s.conf /\ t.active = s.active /\ t.live = s.live /\ t.livePub = s.livePub
BY HostFields DEF Net!KeyMade

LEMMA StartMakes ==
  ASSUME NEW s, IsHost(s)
  PROVE  LET t == Net!Started(s)
         IN  /\ t.key = s.key /\ t.pub = s.pub /\ t.conf = s.conf
             /\ t.active = TRUE /\ t.live = s.conf /\ t.livePub = s.key
BY HostFields DEF Net!Started

Down(s) == [s EXCEPT !.active = FALSE, !.live = Net!NoConf, !.livePub = 0]
LEMMA DownMakes ==
  ASSUME NEW s, IsHost(s)
  PROVE  LET t == Down(s)
         IN  t.key = s.key /\ t.pub = s.pub /\ t.conf = s.conf /\ t.active = FALSE
BY HostFields DEF Down

(* What each command does to them.                                         *)
LEMMA CommandMakes ==
  ASSUME NEW s, IsHost(s), NEW m, NEW c \in Commands
  PROVE  LET t == Net!MeshStep(s, m, c)
         IN  /\ c \in {"forward", "rules", "enable"} => SameSide(s, t)
             /\ c = "conf" =>
                  /\ t.conf = IF m.conf # Net!NoConf THEN m.conf ELSE s.conf
                  /\ t.key = s.key /\ t.pub = s.pub
                  /\ t.active = s.active /\ t.live = s.live /\ t.livePub = s.livePub
             /\ c = "restart" => t = IF m.restart THEN Net!Started(s) ELSE s
<1>1. CASE c = "forward"
  BY <1>1, HostFields DEF Net!MeshStep, SameSide
<1>2. CASE c = "rules"
  BY <1>2, HostFields DEF Net!MeshStep, SameSide
<1>3. CASE c = "enable"
  BY <1>3, HostFields DEF Net!MeshStep, SameSide
<1>4. CASE c = "conf"
  BY <1>4, HostFields DEF Net!MeshStep
<1>5. CASE c = "restart"
  BY <1>5 DEF Net!MeshStep
<1> QED
  BY <1>1, <1>2, <1>3, <1>4, <1>5, Zenon DEF Commands

(* The step after one.                                                     *)
After(i) == IF i = Len(Net!Steps) THEN "dns" ELSE Net!Steps[i + 1]
LEMMA StepsInOrder ==
  ASSUME NEW i \in DOMAIN Net!Steps
  PROVE  \/ Net!Steps[i] = "forward" /\ After(i) = "conf"
         \/ Net!Steps[i] = "conf" /\ After(i) = "rules"
         \/ Net!Steps[i] = "rules" /\ After(i) = "enable"
         \/ Net!Steps[i] = "enable" /\ After(i) = "restart"
         \/ Net!Steps[i] = "restart" /\ After(i) = "dns"
BY DEF Net!Steps, After

(* What a plan that makes no key and is not blocked asks for.              *)
LEMMA MeshPlanned ==
  ASSUME NEW y, NEW h, NEW s, LET m == Net!planMesh(y, h, s) IN ~m.genKey /\ ~Net!MeshBlocked(m)
  PROVE  /\ Net!planMesh(y, h, s) = Net!Differs(y, h, s)
         /\ s.key # 0 /\ s.pub # 0 /\ Net!Blockers(y, h, s) = {}
<1> DEFINE m == Net!planMesh(y, h, s)
<1>1. CASE s.key = 0 \/ s.pub = 0
  <2>1. m = Net!CutShort(s, TRUE, {})
    BY <1>1, Zenon DEF Net!planMesh
  <2> QED
    BY <2>1 DEF Net!CutShort
<1>2. CASE ~(s.key = 0 \/ s.pub = 0) /\ Net!Blockers(y, h, s) # {}
  <2>1. m = Net!CutShort(s, FALSE, Net!Blockers(y, h, s))
    BY <1>2, Zenon DEF Net!planMesh
  <2>2. m.blockers # {} /\ m # Net!NoMesh
    BY <1>2, <2>1 DEF Net!CutShort, Net!NoMesh
  <2> QED
    BY <2>2 DEF Net!MeshBlocked
<1>3. CASE ~(s.key = 0 \/ s.pub = 0) /\ Net!Blockers(y, h, s) = {}
  BY <1>3, Zenon DEF Net!planMesh
<1> QED
  BY <1>1, <1>2, <1>3

(* The config that differs.                                                *)
LEMMA DiffersConf ==
  ASSUME NEW y, NEW h, NEW s
  PROVE  LET m == Net!Differs(y, h, s)
         IN  /\ m.conf = IF s.conf # Net!meshConf(y, h) THEN Net!meshConf(y, h) ELSE Net!NoConf
             /\ m.conf # Net!NoConf => m.restart
<1>1. Net!Differs(y, h, s).conf = IF s.conf # Net!meshConf(y, h) THEN Net!meshConf(y, h) ELSE Net!NoConf
  BY DEF Net!Differs
<1>2. Net!Differs(y, h, s).restart = Net!RestartReason(y, h, s)
  BY DEF Net!Differs
<1>3. s.conf # Net!meshConf(y, h) => Net!RestartReason(y, h, s)
  BY Zenon DEF Net!RestartReason
<1> QED
  BY <1>1, <1>2, <1>3

(* A host of which fleet.yml wants nothing else is configured as it wants. *)
LEMMA NothingDiffers ==
  ASSUME NEW y, NEW h \in y.hosts, NEW s, s.pub \in {0, s.key}, s.active => s.livePub = s.key,
         LET m == Net!planMesh(y, h, s) IN ~Net!MeshChanges(m) /\ ~Net!MeshBlocked(m)
  PROVE  Net!ConfiguredAsWanted(y, h, s)
<1> DEFINE m == Net!planMesh(y, h, s)
<1>1. m # Net!NoMesh
  BY DEF Net!planMesh, Net!CutShort, Net!Differs, Net!NoMesh
<1>2. m = Net!Differs(y, h, s) /\ s.key # 0 /\ s.pub # 0 /\ Net!Blockers(y, h, s) = {}
  BY <1>1, MeshPlanned DEF Net!MeshChanges
<1>3. /\ ~m.forward /\ ~m.enable /\ ~m.restart /\ m.addRules = {} /\ m.delRules = {}
  BY <1>1 DEF Net!MeshChanges
<1>4. /\ s.forward /\ s.enabled /\ ~Net!RestartReason(y, h, s)
      /\ Net!meshRules(y, h) \ s.rules = {} /\ s.rules \ Net!meshRules(y, h) = {}
  <2> DEFINE e == Net!Differs(y, h, s)
  <2>1. e.forward = ~s.forward
    BY Zenon DEF Net!Differs
  <2>2. e.enable = ~s.enabled
    BY Zenon DEF Net!Differs
  <2>3. /\ e.restart = Net!RestartReason(y, h, s)
        /\ e.addRules = Net!meshRules(y, h) \ s.rules /\ e.delRules = s.rules \ Net!meshRules(y, h)
    BY DEF Net!Differs
  <2> HIDE DEF m, e
  <2>4. ~e.forward /\ ~e.enable /\ ~e.restart /\ e.addRules = {} /\ e.delRules = {}
    BY <1>2, <1>3, Zenon DEF e
  <2> QED
    BY <2>1, <2>2, <2>3, <2>4, Zenon
<1>5. s.active /\ s.conf = Net!meshConf(y, h) /\ Net!MissingRoutes(y, h, s) = {}
  BY <1>4 DEF Net!RestartReason
<1>6. y.key[h] = s.pub
  BY <1>2 DEF Net!Blockers
<1>7. Net!meshRules(y, h) = s.rules
  BY <1>4
<1> QED
  BY <1>2, <1>4, <1>5, <1>6, <1>7 DEF Net!ConfiguredAsWanted

-----------------------------------------------------------------------------
(* Each thing a daemon does leaves its host so.                            *)
LEMMA SideGoes ==
  ASSUME NEW s, NEW a, NEW m, NEW u, MeshSide(s, a, m, u), a \notin Commands,
         NEW b, b \notin Commands, NEW n
  PROVE  MeshSide(s, b, n, u)
<1>1. PastConf \subseteq Commands
  BY DEF PastConf, Commands
<1> QED
  BY <1>1, Zenon DEF MeshSide

LEMMA SideKey ==
  ASSUME NEW s, IsHost(s), NEW a, NEW m, NEW u, MeshSide(s, a, m, u), a \notin Commands,
         NEW fresh, NEW b, b \notin Commands, NEW n
  PROVE  MeshSide(Net!KeyMade(s, fresh), b, n, u)
<1> DEFINE t == Net!KeyMade(s, fresh)
<1>1. /\ t.key = (IF s.key = 0 THEN fresh ELSE s.key) /\ t.pub = t.key
      /\ t.conf = s.conf /\ t.active = s.active /\ t.live = s.live /\ t.livePub = s.livePub
  BY ScriptMakes
<1> HIDE DEF t
<1>2. MeshSide(s, b, n, u)
  BY SideGoes
<1>3. t.pub \in {0, t.key}
  BY <1>1
<1>4. s.active => t.key = s.key
  BY <1>1, <1>2, Zenon DEF MeshSide
<1>5. MeshSide(t, b, n, u)
  BY <1>1, <1>2, <1>3, <1>4, Zenon DEF MeshSide
<1> QED
  BY <1>5 DEF t

LEMMA SideBegins ==
  ASSUME NEW s, NEW a, a \notin Commands, NEW y, NEW h, NEW m, NEW u, MeshSide(s, a, m, u),
         m = Net!planMesh(y, h, s), ~m.genKey
  PROVE  MeshSide(s, "forward", m, u)
<1>1. s.key # 0 /\ s.pub # 0
  BY DEF Net!planMesh, Net!CutShort
<1>2. s.active => s.live = s.conf \/ u
  BY Zenon DEF MeshSide, PastConf, Commands
<1>3. CASE Net!Blockers(y, h, s) # {}
  <2>1. m.conf = Net!NoConf
    BY <1>1, <1>3 DEF Net!planMesh, Net!CutShort
  <2> QED
    BY <1>1, <1>2, <2>1, Zenon DEF MeshSide
<1>4. CASE Net!Blockers(y, h, s) = {}
  <2>1. m = Net!Differs(y, h, s)
    BY <1>1, <1>4, Zenon DEF Net!planMesh
  <2>2. m.conf # Net!NoConf => m.restart
    BY <2>1, DiffersConf
  <2> QED
    BY <1>1, <1>2, <2>2, Zenon DEF MeshSide
<1> QED
  BY <1>3, <1>4

LEMMA SideSame ==
  ASSUME NEW s, NEW t, SameSide(s, t), NEW a, NEW b, NEW m, NEW u, MeshSide(s, a, m, u),
         b \in Commands => a \in Commands, a \in PastConf => b \in PastConf
  PROVE  MeshSide(t, b, m, u)
<1>1. t.pub \in {0, t.key}
  BY Zenon DEF MeshSide, SameSide
<1> QED
  BY <1>1, Zenon DEF MeshSide, SameSide

(* Whether a restart that was cut off is still owed after a command.       *)
Still(u, m, c) == u /\ ~(c = "restart" /\ m.restart)

LEMMA SideCommand ==
  ASSUME NEW s, IsHost(s), NEW m, NEW u, NEW i \in DOMAIN Net!Steps, MeshSide(s, Net!Steps[i], m, u)
  PROVE  MeshSide(Net!MeshStep(s, m, Net!Steps[i]), After(i), m, Still(u, m, Net!Steps[i]))
<1> DEFINE c == Net!Steps[i]
           t == Net!MeshStep(s, m, c)
           b == After(i)
           v == Still(u, m, c)
<1>1. \/ c = "forward" /\ b = "conf"
      \/ c = "conf" /\ b = "rules"
      \/ c = "rules" /\ b = "enable"
      \/ c = "enable" /\ b = "restart"
      \/ c = "restart" /\ b = "dns"
  BY StepsInOrder
<1>2. c \in Commands /\ MeshSide(s, c, m, u)
  BY <1>1 DEF Commands
<1>3. /\ c \in {"forward", "rules", "enable"} => SameSide(s, t)
      /\ c = "conf" =>
           /\ t.conf = IF m.conf # Net!NoConf THEN m.conf ELSE s.conf
           /\ t.key = s.key /\ t.pub = s.pub
           /\ t.active = s.active /\ t.live = s.live /\ t.livePub = s.livePub
      /\ c = "restart" => t = IF m.restart THEN Net!Started(s) ELSE s
  BY <1>2, CommandMakes
<1>4. /\ c # "restart" => (v <=> u)
      /\ ~m.restart => (v <=> u)
  BY Zenon DEF Still
<1> HIDE DEF c, t, b, v
<1>5. MeshSide(t, b, m, v)
  <2>1. CASE c \in {"forward", "rules", "enable"}
    <3>1. /\ b \in Commands => c \in Commands
          /\ c \in PastConf => b \in PastConf
          /\ c # "restart"
      BY <1>1, <2>1 DEF Commands, PastConf
    <3>2. MeshSide(t, b, m, u)
      BY <1>2, <1>3, <2>1, <3>1, SideSame
    <3> QED
      BY <1>4, <3>1, <3>2, Zenon DEF MeshSide
  <2>2. CASE c = "conf"
    <3>1. c \notin PastConf /\ b \in PastConf /\ c # "restart"
      BY <1>1, <2>2 DEF PastConf
    <3>2. s.active => s.live = s.conf \/ u
      BY <1>2, <3>1, Zenon DEF MeshSide
    <3>3. t.conf = s.conf \/ m.conf # Net!NoConf
      BY <1>3, <2>2, Zenon
    <3>4. t.pub \in {0, t.key}
      BY <1>2, <1>3, <2>2, Zenon DEF MeshSide
    <3> QED
      BY <1>2, <1>3, <1>4, <2>2, <3>1, <3>2, <3>3, <3>4, Zenon DEF MeshSide
  <2>3. CASE c = "restart"
    <3>1. b = "dns" /\ b \notin Commands /\ b \notin PastConf
      BY <1>1, <2>3 DEF Commands, PastConf
    <3>2. CASE m.restart
      <4>1. /\ t.key = s.key /\ t.pub = s.pub /\ t.conf = s.conf
            /\ t.active = TRUE /\ t.live = s.conf /\ t.livePub = s.key
        BY <1>3, <2>3, <3>2, StartMakes
      <4>2. t.pub \in {0, t.key}
        BY <1>2, <4>1, Zenon DEF MeshSide
      <4> QED
        BY <1>2, <3>1, <4>1, <4>2, Zenon DEF MeshSide
    <3>3. CASE ~m.restart
      <4>1. t = s
        BY <1>3, <2>3, <3>3, Zenon
      <4>2. m.conf = Net!NoConf
        BY <1>2, <3>3, Zenon DEF MeshSide
      <4> QED
        BY <1>2, <1>4, <3>1, <3>3, <4>1, <4>2, Zenon DEF MeshSide
    <3> QED
      BY <3>2, <3>3
  <2> QED
    BY <1>1, <2>1, <2>2, <2>3
<1> QED
  BY <1>5 DEF t, b, c, v

(* And so does what breaks off, a reboot and a host built again.           *)
LEMMA SideFresh == ASSUME NEW m, NEW u PROVE MeshSide(Net!FreshHost, "idle", m, u)
BY DEF MeshSide, Net!FreshHost, PastConf, Commands

LEMMA SideDown ==
  ASSUME NEW s, IsHost(s), s.pub \in {0, s.key}, NEW m, NEW u
  PROVE  MeshSide(Down(s), "idle", m, u)
<1> DEFINE t == Down(s)
<1>1. t.key = s.key /\ t.pub = s.pub /\ t.conf = s.conf /\ t.active = FALSE
  BY DownMakes
<1> HIDE DEF t
<1>2. "idle" \notin Commands
  BY DEF Commands
<1>3. t.pub \in {0, t.key}
  BY <1>1, Zenon
<1>4. MeshSide(t, "idle", m, u)
  BY <1>1, <1>2, <1>3, Zenon DEF MeshSide
<1> QED
  BY <1>4 DEF t

LEMMA SideReboot ==
  ASSUME NEW s, IsHost(s), s.pub \in {0, s.key}, NEW m, NEW u
  PROVE  MeshSide(Net!Rebooted(s), "idle", m, u)
<1>1. CASE s.enabled /\ s.conf # Net!NoConf /\ s.key # 0
  <2> DEFINE t == Net!Started(s)
  <2>1. /\ t.key = s.key /\ t.pub = s.pub /\ t.conf = s.conf
        /\ t.active = TRUE /\ t.live = s.conf /\ t.livePub = s.key
    BY StartMakes
  <2> HIDE DEF t
  <2>2. "idle" \notin Commands
    BY DEF Commands
  <2>3. t.pub \in {0, t.key}
    BY <2>1, Zenon
  <2>4. MeshSide(t, "idle", m, u)
    BY <1>1, <2>1, <2>2, <2>3, Zenon DEF MeshSide
  <2>5. Net!Rebooted(s) = t
    BY <1>1, Zenon DEF Net!Rebooted, t
  <2> QED
    BY <2>4, <2>5
<1>2. CASE ~(s.enabled /\ s.conf # Net!NoConf /\ s.key # 0)
  <2>1. Net!Rebooted(s) = Down(s)
    BY <1>2, Zenon DEF Net!Rebooted, Down
  <2> QED
    BY <2>1, SideDown
<1> QED
  BY <1>1, <1>2

(* An apply that breaks off: the config it wrote counts as not started.    *)
LEMMA SideBroken ==
  ASSUME NEW d, IsHost(st[d]), MeshSide(st[d], apply[d], plan[d].mesh, d \in unstarted),
         NEW s \in Net!Broken(d), NEW m
  PROVE  MeshSide(s, "idle", m, d \in unstarted \/ Net!CutOff(d))
<1> DEFINE v == d \in unstarted \/ Net!CutOff(d)
<1>0. /\ DOMAIN st[d] = {"key", "pub", "conf", "active", "enabled", "live", "livePub", "forward", "rules"}
      /\ "idle" \notin Commands
  BY HostFields DEF Commands
<1>1. MeshSide(st[d], "idle", m, v)
  <2>1. apply[d] \in PastConf /\ plan[d].mesh.conf # Net!NoConf => Net!CutOff(d)
    BY DEF PastConf, Net!CutOff
  <2> QED
    BY <1>0, <2>1, Zenon DEF MeshSide
<1> HIDE DEF v
<1>2. CASE s = st[d]
  BY <1>1, <1>2 DEF v
<1>3. CASE st[d].key = 0 /\ s = [st[d] EXCEPT !.key = made + 1]
  <2>1. s.key = made + 1 /\ s.pub = st[d].pub /\ s.active = st[d].active
    BY <1>0, <1>3
  <2>2. st[d].pub = 0 /\ ~st[d].active
    BY <1>1, <1>3 DEF MeshSide
  <2>3. s.pub \in {0, s.key} /\ ~s.active
    BY <2>1, <2>2, Zenon
  <2> QED
    BY <1>0, <2>3, Zenon DEF MeshSide
<1>4. CASE s = [st[d] EXCEPT !.rules = st[d].rules \ plan[d].mesh.delRules]
  <2>1. SameSide(st[d], s)
    BY <1>0, <1>4 DEF SameSide
  <2> QED
    BY <1>1, <2>1, SideSame DEF v
<1>5. CASE s = Down(st[d])
  BY <1>1, <1>5, SideDown, Zenon DEF MeshSide
<1>6. \/ s = st[d]
      \/ st[d].key = 0 /\ s = [st[d] EXCEPT !.key = made + 1]
      \/ s = [st[d] EXCEPT !.rules = st[d].rules \ plan[d].mesh.delRules]
      \/ s = Down(st[d])
  BY DEF Net!Broken, Down
<1> QED
  BY <1>2, <1>3, <1>4, <1>5, <1>6

-----------------------------------------------------------------------------
(* What a step does to the host it is a step of, and to the others.        *)
OthersStay(d) ==
  \A h \in Hosts \ {d} : st'[h] = st[h] /\ apply'[h] = apply[h] /\ plan'[h] = plan[h]

Stays(d) == st'[d] = st[d] /\ unstarted' = unstarted
OfTip(d) == apply'[d] # "idle" => plan'[d].y = yml \/ (apply[d] # "idle" /\ plan'[d] = plan[d])
Waits(d) == apply[d] \notin Commands /\ apply'[d] \notin Commands /\ OfTip(d) /\ Stays(d)
MakesKey(d) ==
  /\ apply[d] = "mesh" /\ apply'[d] = "dns" /\ plan'[d] = plan[d]
  /\ st'[d] = Net!KeyMade(st[d], made + 1) /\ unstarted' = unstarted
BeginsMesh(d) ==
  /\ apply[d] = "mesh" /\ apply'[d] = "forward" /\ plan'[d] = plan[d]
  /\ plan[d].mesh = Net!planMesh(plan[d].y, d, st[d]) /\ ~plan[d].mesh.genKey
  /\ Stays(d)
RunsCommand(d) ==
  \E i \in DOMAIN Net!Steps :
    /\ apply[d] = Net!Steps[i] /\ apply'[d] = After(i) /\ plan'[d] = plan[d]
    /\ st'[d] = Net!MeshStep(st[d], plan[d].mesh, Net!Steps[i])
    /\ unstarted' = IF Net!Steps[i] = "restart" /\ plan[d].mesh.restart THEN unstarted \ {d} ELSE unstarted

(* The variables a daemon's step changes, at its host.                     *)
LEMMA OnlyAt ==
  ASSUME WriterInv, HostsInv, NEW d \in Hosts, NEW s, NEW a, NEW p,
         st' = [st EXCEPT ![d] = s] \/ (st' = st /\ s = st[d]),
         apply' = [apply EXCEPT ![d] = a] \/ (apply' = apply /\ a = apply[d]),
         plan' = [plan EXCEPT ![d] = p] \/ (plan' = plan /\ p = plan[d])
  PROVE  OthersStay(d) /\ st'[d] = s /\ apply'[d] = a /\ plan'[d] = p
<1>1. st = [h \in Hosts |-> st[h]] /\ apply = [h \in Hosts |-> apply[h]] /\ plan = [h \in Hosts |-> plan[h]]
  BY DEF WriterInv, HostsInv
<1>2. st'[d] = s /\ \A h \in Hosts \ {d} : st'[h] = st[h]
  BY <1>1
<1>3. apply'[d] = a /\ \A h \in Hosts \ {d} : apply'[h] = apply[h]
  BY <1>1
<1>4. plan'[d] = p /\ \A h \in Hosts \ {d} : plan'[h] = plan[h]
  BY <1>1
<1> QED
  BY <1>2, <1>3, <1>4 DEF OthersStay

LEMMA StopsAt ==
  ASSUME WriterInv, HostsInv, NEW d \in Hosts, NEW s, Net!Stop(d),
         st' = [st EXCEPT ![d] = s] \/ (st' = st /\ s = st[d])
  PROVE  OthersStay(d) /\ st'[d] = s /\ apply'[d] = "idle"
<1>1. apply' = [apply EXCEPT ![d] = "idle"] /\ plan' = [plan EXCEPT ![d] = Net!NoPlan]
  BY DEF Net!Stop
<1> QED
  BY <1>1, OnlyAt

LEMMA WaitsAt ==
  ASSUME WriterInv, HostsInv, NEW d \in Hosts, UNCHANGED <<st, unstarted>>,
         apply[d] \notin Commands \cup {"idle"},
         Net!Stop(d) \/ \E b : Net!Goto(d, b) /\ plan' = plan /\ b \notin Commands
  PROVE  OthersStay(d) /\ Waits(d)
<1>1. CASE Net!Stop(d)
  <2>1. OthersStay(d) /\ st'[d] = st[d] /\ apply'[d] = "idle"
    BY <1>1, StopsAt
  <2> QED
    BY <2>1 DEF Waits, OfTip, Stays, Commands
<1>2. CASE \E b : Net!Goto(d, b) /\ plan' = plan /\ b \notin Commands
  <2>1. PICK b : Net!Goto(d, b) /\ plan' = plan /\ b \notin Commands
    BY <1>2
  <2>2. apply' = [apply EXCEPT ![d] = b]
    BY <2>1 DEF Net!Goto
  <2>3. OthersStay(d) /\ st'[d] = st[d] /\ apply'[d] = b /\ plan'[d] = plan[d]
    BY <2>1, <2>2, OnlyAt
  <2> QED
    BY <2>1, <2>3, Zenon DEF Waits, OfTip, Stays
<1> QED
  BY <1>1, <1>2

LEMMA BeginsAt ==
  ASSUME WriterInv, HostsInv, NEW d \in Hosts, Net!MeshBegin(d)
  PROVE  OthersStay(d) /\ (Waits(d) \/ MakesKey(d) \/ BeginsMesh(d))
<1> DEFINE m == plan[d].mesh
           now == Net!planMesh(plan[d].y, d, st[d])
<1>0. apply[d] = "mesh" /\ apply[d] \notin Commands \cup {"idle"} /\ "dns" \notin Commands /\ unstarted' = unstarted
  BY DEF Net!MeshBegin, Commands
<1>1. CASE ~Net!MeshChanges(m)
  <2>1. Net!Goto(d, "dns") /\ UNCHANGED <<st, plan>>
    BY <1>1, Zenon DEF Net!MeshBegin
  <2> QED
    BY <1>0, <2>1, WaitsAt
<1>2. CASE Net!MeshChanges(m) /\ now # m
  <2>1. Net!Stop(d) /\ UNCHANGED st
    BY <1>2, Zenon DEF Net!MeshBegin
  <2> QED
    BY <1>0, <2>1, WaitsAt
<1>3. CASE Net!MeshChanges(m) /\ now = m /\ m.genKey
  <2>1. /\ st' = [st EXCEPT ![d] = Net!KeyMade(st[d], made + 1)]
        /\ Net!Goto(d, "dns") /\ plan' = plan
    BY <1>3 DEF Net!MeshBegin
  <2>2. apply' = [apply EXCEPT ![d] = "dns"]
    BY <2>1 DEF Net!Goto
  <2>3. OthersStay(d) /\ st'[d] = Net!KeyMade(st[d], made + 1) /\ apply'[d] = "dns" /\ plan'[d] = plan[d]
    BY <2>1, <2>2, OnlyAt
  <2> QED
    BY <1>0, <2>1, <2>3 DEF MakesKey
<1>4. CASE Net!MeshChanges(m) /\ now = m /\ ~m.genKey
  <2>1. Net!Goto(d, Net!Steps[1]) /\ UNCHANGED <<st, plan>> /\ Net!Steps[1] = "forward"
    BY <1>4 DEF Net!MeshBegin, Net!Steps
  <2>2. apply' = [apply EXCEPT ![d] = "forward"]
    BY <2>1 DEF Net!Goto
  <2>3. OthersStay(d) /\ st'[d] = st[d] /\ apply'[d] = "forward" /\ plan'[d] = plan[d]
    BY <2>1, <2>2, OnlyAt
  <2> QED
    BY <1>0, <1>4, <2>1, <2>3 DEF BeginsMesh, Stays
<1> QED
  BY <1>1, <1>2, <1>3, <1>4

LEMMA DaemonDoes ==
  ASSUME WriterInv, HostsInv, NEW d \in Hosts, Net!Daemon(d)
  PROVE  /\ yml' = yml /\ OthersStay(d)
         /\ Waits(d) \/ MakesKey(d) \/ BeginsMesh(d) \/ RunsCommand(d)
<1>0. yml' = yml
  BY DEF Net!Daemon, Net!Plan, Net!MeshBegin, Net!MeshCommand, Net!DnsCheck, Net!DnsList, Net!DnsCall, Net!ApplyService
<1>1. CASE Net!Plan(d)
  <2> DEFINE p == Net!PlanFleet(yml, d)
  <2>1. /\ apply[d] = "idle" /\ UNCHANGED <<st, unstarted>>
        /\ apply' = [apply EXCEPT ![d] = "mesh"] /\ plan' = [plan EXCEPT ![d] = p]
    BY <1>1 DEF Net!Plan, Net!Goto
  <2>2. p.y = yml
    BY DEF Net!PlanFleet
  <2> HIDE DEF p
  <2>3. OthersStay(d) /\ st'[d] = st[d] /\ apply'[d] = "mesh" /\ plan'[d] = p
    BY <2>1, OnlyAt
  <2> QED
    BY <1>0, <2>1, <2>2, <2>3 DEF Waits, OfTip, Stays, Commands
<1>2. CASE Net!MeshBegin(d)
  BY <1>0, <1>2, BeginsAt
<1>3. CASE Net!MeshCommand(d)
  <2>1. PICK i \in DOMAIN Net!Steps :
          /\ apply[d] = Net!Steps[i] /\ plan' = plan
          /\ unstarted' = IF Net!Steps[i] = "restart" /\ plan[d].mesh.restart THEN unstarted \ {d} ELSE unstarted
          /\ st' = [st EXCEPT ![d] = Net!MeshStep(st[d], plan[d].mesh, Net!Steps[i])]
          /\ apply' = [apply EXCEPT ![d] = After(i)]
    BY <1>3, Zenon DEF Net!MeshCommand, Net!Goto, After
  <2> DEFINE s == Net!MeshStep(st[d], plan[d].mesh, Net!Steps[i])
             b == After(i)
  <2>2. OthersStay(d) /\ st'[d] = s /\ apply'[d] = b /\ plan'[d] = plan[d]
    <3>1. st' = [st EXCEPT ![d] = s] /\ apply' = [apply EXCEPT ![d] = b] /\ plan' = plan
      BY <1>0, <2>1
    <3> HIDE DEF s, b
    <3> QED
      BY <3>1, OnlyAt
  <2> QED
    BY <1>0, <2>1, <2>2 DEF RunsCommand
<1>4. CASE Net!DnsCheck(d)
  <2>1. apply[d] = "dns" /\ UNCHANGED <<st, unstarted>>
    BY <1>4 DEF Net!DnsCheck
  <2>2. Net!Stop(d) \/ \E b \in {"service", "list"} : Net!Goto(d, b) /\ plan' = plan
    BY <1>4, Zenon DEF Net!DnsCheck
  <2> QED
    BY <1>0, <2>1, <2>2, WaitsAt DEF Commands
<1>5. CASE Net!DnsList(d)
  <2>1. apply[d] = "list" /\ UNCHANGED <<st, unstarted, plan>> /\ Net!Goto(d, "call")
    BY <1>5 DEF Net!DnsList
  <2> QED
    BY <1>0, <2>1, WaitsAt DEF Commands
<1>6. CASE Net!DnsCall(d)
  <2>1. apply[d] = "call" /\ UNCHANGED <<st, unstarted>>
    BY <1>6 DEF Net!DnsCall
  <2>2. Net!Stop(d) \/ (Net!Goto(d, "service") /\ plan' = plan) \/ UNCHANGED <<apply, plan>>
    BY <1>6, Zenon DEF Net!DnsCall
  <2>3. CASE UNCHANGED <<apply, plan>>
    <3>1. OthersStay(d) /\ st'[d] = st[d] /\ apply'[d] = apply[d] /\ plan'[d] = plan[d]
      BY <2>1, <2>3, OnlyAt
    <3> QED
      BY <1>0, <2>1, <3>1 DEF Waits, OfTip, Stays, Commands
  <2>4. CASE Net!Stop(d) \/ (Net!Goto(d, "service") /\ plan' = plan)
    BY <1>0, <2>1, <2>4, WaitsAt DEF Commands
  <2> QED
    BY <2>2, <2>3, <2>4
<1>7. CASE Net!ApplyService(d)
  <2>1. apply[d] = "service" /\ UNCHANGED <<st, unstarted>> /\ Net!Stop(d)
    BY <1>7 DEF Net!ApplyService
  <2> QED
    BY <1>0, <2>1, WaitsAt DEF Commands
<1> QED
  BY <1>1, <1>2, <1>3, <1>4, <1>5, <1>6, <1>7 DEF Net!Daemon

-----------------------------------------------------------------------------
(* The invariant of the mesh, step by step.                                *)
MeshInv == \A h \in Hosts : MeshSide(st[h], apply[h], plan[h].mesh, h \in unstarted)

(* A step of one host.                                                     *)
LEMMA MeshElsewhere ==
  ASSUME MeshInv, NEW d \in Hosts, OthersStay(d),
         \A h \in Hosts \ {d} : h \in unstarted' <=> h \in unstarted,
         MeshSide(st'[d], apply'[d], plan'[d].mesh, d \in unstarted')
  PROVE  MeshInv'
<1> SUFFICES ASSUME NEW h \in Hosts
             PROVE  MeshSide(st'[h], apply'[h], plan'[h].mesh, h \in unstarted')
  BY DEF MeshInv
<1>1. CASE h = d
  BY <1>1
<1>2. CASE h # d
  <2>1. st'[h] = st[h] /\ apply'[h] = apply[h] /\ plan'[h] = plan[h] /\ (h \in unstarted' <=> h \in unstarted)
    BY <1>2 DEF OthersStay
  <2>2. MeshSide(st[h], apply[h], plan[h].mesh, h \in unstarted)
    BY DEF MeshInv
  <2> QED
    BY <2>1, <2>2, Zenon DEF MeshSide
<1> QED
  BY <1>1, <1>2

LEMMA MeshDaemon ==
  ASSUME WriterInv, HostsInv, MeshInv, NEW d \in Hosts, Net!Daemon(d)
  PROVE  MeshInv'
<1> DEFINE u == d \in unstarted
<1>0. IsHost(st[d]) /\ MeshSide(st[d], apply[d], plan[d].mesh, u)
  BY DEF HostsInv, MeshInv
<1>1. CASE Waits(d)
  <2>1. MeshSide(st[d], apply'[d], plan'[d].mesh, u)
    BY <1>0, <1>1, SideGoes DEF Waits
  <2> QED
    BY <1>1, <2>1, DaemonDoes, MeshElsewhere DEF Waits, Stays
<1>2. CASE MakesKey(d)
  <2>1. MeshSide(Net!KeyMade(st[d], made + 1), apply'[d], plan'[d].mesh, u)
    BY <1>0, <1>2, SideKey DEF MakesKey, Commands
  <2> QED
    BY <1>2, <2>1, DaemonDoes, MeshElsewhere DEF MakesKey
<1>3. CASE BeginsMesh(d)
  <2>1. MeshSide(st[d], "forward", plan[d].mesh, u)
    BY <1>0, <1>3, SideBegins DEF BeginsMesh, Commands
  <2> QED
    BY <1>3, <2>1, DaemonDoes, MeshElsewhere DEF BeginsMesh, Stays
<1>4. CASE RunsCommand(d)
  <2>1. PICK i \in DOMAIN Net!Steps :
          /\ apply[d] = Net!Steps[i] /\ apply'[d] = After(i) /\ plan'[d] = plan[d]
          /\ st'[d] = Net!MeshStep(st[d], plan[d].mesh, Net!Steps[i])
          /\ unstarted' = IF Net!Steps[i] = "restart" /\ plan[d].mesh.restart THEN unstarted \ {d} ELSE unstarted
    BY <1>4 DEF RunsCommand
  <2> DEFINE m == plan[d].mesh
             v == Still(u, m, Net!Steps[i])
  <2>2. MeshSide(st'[d], apply'[d], m, v)
    BY <1>0, <2>1, SideCommand
  <2>3. v <=> d \in unstarted'
    BY <2>1 DEF Still
  <2>4. \A h \in Hosts \ {d} : h \in unstarted' <=> h \in unstarted
    BY <2>1
  <2> HIDE DEF v
  <2>5. MeshSide(st'[d], apply'[d], plan'[d].mesh, d \in unstarted')
    BY <2>1, <2>2, <2>3, Zenon DEF MeshSide
  <2> QED
    BY <2>4, <2>5, DaemonDoes, MeshElsewhere
<1> QED
  BY <1>1, <1>2, <1>3, <1>4, DaemonDoes

(* A host where something fails, that reboots or that is built again.      *)
LEMMA MeshFault ==
  ASSUME WriterInv, HostsInv, MeshInv, NEW d \in Hosts, Net!Fail(d) \/ Net!Reboot(d) \/ Net!Rebuild(d)
  PROVE  MeshInv'
<1> DEFINE u == d \in unstarted
<1>0. IsHost(st[d]) /\ MeshSide(st[d], apply[d], plan[d].mesh, u) /\ st[d].pub \in {0, st[d].key}
  BY Zenon DEF HostsInv, MeshInv, MeshSide
<1>1. CASE Net!Fail(d)
  <2>1. PICK s \in Net!Broken(d) : st' = [st EXCEPT ![d] = s]
    BY <1>1 DEF Net!Fail
  <2>2. /\ Net!Stop(d)
        /\ unstarted' = IF Net!CutOff(d) THEN unstarted \cup {d} ELSE unstarted
    BY <1>1, Zenon DEF Net!Fail
  <2>3. OthersStay(d) /\ st'[d] = s /\ apply'[d] = "idle"
    BY <2>1, <2>2, StopsAt
  <2> DEFINE v == d \in unstarted \/ Net!CutOff(d)
  <2>4. MeshSide(s, "idle", plan'[d].mesh, v)
    BY <1>0, SideBroken
  <2>5. v <=> d \in unstarted'
    BY <2>2
  <2>6. \A h \in Hosts \ {d} : h \in unstarted' <=> h \in unstarted
    BY <2>2
  <2> HIDE DEF v
  <2>7. MeshSide(st'[d], apply'[d], plan'[d].mesh, d \in unstarted')
    BY <2>3, <2>4, <2>5, Zenon DEF MeshSide
  <2> QED
    BY <2>3, <2>6, <2>7, MeshElsewhere
<1>2. CASE Net!Reboot(d) \/ Net!Rebuild(d)
  <2>1. PICK s \in {Net!Rebooted(st[d]), Net!FreshHost} : st' = [st EXCEPT ![d] = s]
    BY <1>2 DEF Net!Reboot, Net!Rebuild
  <2>2. Net!Stop(d) /\ unstarted' = unstarted \ {d}
    BY <1>2 DEF Net!Reboot, Net!Rebuild
  <2>3. OthersStay(d) /\ st'[d] = s /\ apply'[d] = "idle"
    BY <2>1, <2>2, StopsAt
  <2>4. MeshSide(s, "idle", plan'[d].mesh, d \in unstarted')
    BY <1>0, SideReboot, SideFresh
  <2> QED
    BY <2>2, <2>3, <2>4, MeshElsewhere
<1> QED
  BY <1>1, <1>2

(* What people commit and edit is not on the hosts.                        *)
LEMMA MeshStays ==
  ASSUME MeshInv, UNCHANGED <<st, apply, plan, unstarted>>
  PROVE  MeshInv'
BY DEF MeshInv

-----------------------------------------------------------------------------
(* The zone: the wildcard leads to the default host, and the service's     *)
(* records to where somebody put them or to the host it has moved to.      *)
IsA(r, n) == r.type = "A" /\ r.name = n
Rightly(r, home) ==
  /\ IsA(r, "*") => r.value = DefaultHost
  /\ IsA(r, "app") => r.value = Net!Elsewhere \/ (r.value = home /\ home # DefaultHost)

ZoneOk(z, home) ==
  /\ z \in Seq(Elements(z))
  /\ \A i \in DOMAIN z : DOMAIN z[i] = RecordFields /\ Rightly(z[i], home)
  /\ \A i, j \in DOMAIN z : z[i].id = z[j].id => i = j
  /\ \E i \in DOMAIN z : IsA(z[i], "*")

Finds(z, c) == c.id = 0 \/ Names(z, c)

(* A record that is new has an id of its own.                              *)
LEMMA FreshIsNew ==
  ASSUME NEW z, IsList(z)
  PROVE  \A i \in DOMAIN z : z[i].id # Net!FreshId(z)
<1> DEFINE N == 1 .. (Len(z) + 1)
           Used(n) == \E i \in DOMAIN z : z[i].id = n
           f == [n \in N |-> CHOOSE i \in DOMAIN z : z[i].id = n]
<1>0. Len(z) \in Nat /\ DOMAIN z = 1 .. Len(z)
  BY DEF IsList
<1>1. \E n \in N : ~Used(n)
  <2> SUFFICES ASSUME \A n \in N : Used(n) PROVE FALSE
    OBVIOUS
  <2>1. \A n \in N : f[n] \in 1 .. Len(z) /\ z[f[n]].id = n
    BY <1>0
  <2> HIDE DEF f
  <2>2. IsFiniteSet(N) /\ Cardinality(N) = Len(z) + 1
    BY <1>0, FS_Interval
  <2>3. IsFiniteSet(1 .. Len(z)) /\ Cardinality(1 .. Len(z)) = Len(z)
    <3>1. 1 \in Int /\ Len(z) \in Int /\ (IF 1 > Len(z) THEN 0 ELSE Len(z) - 1 + 1) = Len(z)
      BY <1>0
    <3> QED
      BY <3>1, FS_Interval, Zenon
  <2>4. [n \in N |-> f[n]] \in [N -> 1 .. Len(z)]
    BY <2>1
  <2>5. \E x, y \in N : x # y /\ [n \in N |-> f[n]][x] = [n \in N |-> f[n]][y]
    <3>1. Cardinality(1 .. Len(z)) < Cardinality(N)
      BY <1>0, <2>2, <2>3
    <3> DEFINE g == [n \in N |-> f[n]]
               T == 1 .. Len(z)
    <3>2. g \in [N -> T] /\ IsFiniteSet(N) /\ IsFiniteSet(T) /\ Cardinality(T) < Cardinality(N)
      BY <2>2, <2>3, <2>4, <3>1
    <3> HIDE DEF g, T, N
    <3>3. \E x, y \in N : x # y /\ g[x] = g[y]
      BY <3>2, FS_PigeonHole
    <3> QED
      BY <3>3 DEF g
  <2>6. PICK x \in N, y \in N : x # y /\ f[x] = f[y]
    BY <2>5
  <2> QED
    BY <2>1, <2>6
<1>2. PICK n \in N : ~Used(n)
  BY <1>1
<1>3. n \in 1 .. (Len(z) + 1) /\ \A i \in DOMAIN z : z[i].id # n
  BY <1>2
<1> QED
  BY <1>3 DEF Net!FreshId

(* A record is made.                                                       *)
LEMMA ZoneGains ==
  ASSUME NEW home, NEW z, ZoneOk(z, home), NEW c, c.id = 0, Rightly(c.record, home)
  PROVE  ZoneOk(Net!Called(z, c), home) /\ \A e : Names(z, e) => Names(Net!Called(z, c), e)
<1> DEFINE new == [type |-> c.record.type, name |-> c.record.name, value |-> c.record.value,
                   ttl |-> IF c.record.ttl > 0 THEN c.record.ttl ELSE Net!DefaultTTL, id |-> Net!FreshId(z)]
           u == Append(z, new)
<1>1. Net!Called(z, c) = u
  BY Zenon DEF Net!Called
<1>2. z \in Seq(Elements(z)) /\ IsList(z)
  BY ListElements DEF ZoneOk
<1>3. \A i \in DOMAIN z : z[i].id # Net!FreshId(z)
  BY <1>2, FreshIsNew
<1>4. /\ DOMAIN new = RecordFields /\ new.id = Net!FreshId(z)
      /\ new.type = c.record.type /\ new.name = c.record.name /\ new.value = c.record.value
  BY DEF RecordFields
<1> HIDE DEF new
<1>5. Rightly(new, home)
  BY <1>4, Zenon DEF Rightly, IsA
<1>6. Len(z) \in Nat /\ DOMAIN z = 1 .. Len(z)
  BY <1>2 DEF IsList
<1>7. /\ u \in Seq(Elements(z) \cup {new}) /\ DOMAIN u = 1 .. (Len(z) + 1)
      /\ u[Len(z) + 1] = new /\ \A i \in DOMAIN z : u[i] = z[i]
  BY <1>2, <1>6
<1>8. u \in Seq(Elements(u))
  BY <1>7, ListElements
<1> HIDE DEF u
<1>9. \A i \in DOMAIN u : (i \in DOMAIN z /\ u[i] = z[i]) \/ (i = Len(z) + 1 /\ u[i] = new)
  BY <1>6, <1>7
<1>10. \A i \in DOMAIN u : DOMAIN u[i] = RecordFields /\ Rightly(u[i], home)
  BY <1>4, <1>5, <1>9 DEF ZoneOk
<1>11. \A i, j \in DOMAIN u : u[i].id = u[j].id => i = j
  BY <1>3, <1>4, <1>9 DEF ZoneOk
<1>12. \A i \in DOMAIN z : i \in DOMAIN u /\ u[i] = z[i]
  BY <1>6, <1>7
<1>13. \E i \in DOMAIN u : IsA(u[i], "*")
  BY <1>12 DEF ZoneOk
<1>14. \A e : Names(z, e) => Names(u, e)
  BY <1>12 DEF Names
<1> QED
  BY <1>1, <1>8, <1>10, <1>11, <1>13, <1>14 DEF ZoneOk

(* Records are given another value.                                        *)
LEMMA ZoneChanges ==
  ASSUME NEW home, NEW z, ZoneOk(z, home), NEW u, u = [i \in DOMAIN z |-> u[i]],
         \A i \in DOMAIN z :
           /\ DOMAIN u[i] = RecordFields /\ Rightly(u[i], home)
           /\ u[i].id = z[i].id /\ u[i].type = z[i].type /\ u[i].name = z[i].name
  PROVE  ZoneOk(u, home) /\ \A e : Names(z, e) => Names(u, e)
<1>0. DOMAIN u = DOMAIN z /\ z \in Seq(Elements(z))
  BY DEF ZoneOk
<1>1. u \in Seq(Elements(u))
  <2>1. Len(z) \in Nat /\ u = [i \in 1 .. Len(z) |-> u[i]]
    BY <1>0
  <2>2. u \in [1 .. Len(z) -> Elements(u)]
    BY <2>1 DEF Elements
  <2> QED
    BY <2>1, <2>2
<1>2. \A i, j \in DOMAIN u : u[i].id = u[j].id => i = j
  BY <1>0 DEF ZoneOk
<1>3. \E i \in DOMAIN u : IsA(u[i], "*")
  BY <1>0 DEF ZoneOk, IsA
<1>4. \A e : Names(z, e) => Names(u, e)
  BY <1>0 DEF Names, Net!dnsKey
<1>5. \A i \in DOMAIN u : DOMAIN u[i] = RecordFields /\ Rightly(u[i], home)
  BY <1>0
<1> QED
  BY <1>1, <1>2, <1>3, <1>4, <1>5, Zenon DEF ZoneOk

(* A call to the provider, whatever became of the zone since it was listed.*)
LEMMA ZoneCalledOk ==
  ASSUME NEW home, NEW z, ZoneOk(z, home), NEW c, Finds(z, c), Rightly(c.record, home)
  PROVE  ZoneOk(Net!Called(z, c), home) /\ \A e : Names(z, e) => Names(Net!Called(z, c), e)
<1>1. CASE c.id = 0
  BY <1>1, ZoneGains
<1>2. CASE c.id # 0
  <2> DEFINE put(i) == IF z[i].id # c.id THEN z[i]
                       ELSE [z[i] EXCEPT !.value = c.record.value,
                                         !.ttl = IF c.record.ttl > 0 THEN c.record.ttl ELSE @]
             u == [i \in DOMAIN z |-> put(i)]
  <2>1. Net!Called(z, c) = u
    BY <1>2, Zenon DEF Net!Called
  <2>2. PICK j \in DOMAIN z : z[j].id = c.id /\ Net!dnsKey(z[j]) = Net!dnsKey(c.record)
    BY <1>2 DEF Finds, Names
  <2>3. z[j].type = c.record.type /\ z[j].name = c.record.name
    BY <2>2 DEF Net!dnsKey
  <2>4. \A i \in DOMAIN z : z[i].id = c.id => i = j
    BY <2>2 DEF ZoneOk
  <2>5. ASSUME NEW i \in DOMAIN z
        PROVE  /\ DOMAIN put(i) = RecordFields /\ Rightly(put(i), home)
               /\ put(i).id = z[i].id /\ put(i).type = z[i].type /\ put(i).name = z[i].name
    <3>1. DOMAIN z[i] = RecordFields /\ Rightly(z[i], home)
      BY DEF ZoneOk
    <3>2. CASE z[i].id # c.id
      BY <3>1, <3>2
    <3>3. CASE z[i].id = c.id
      <4>1. put(i) = [z[i] EXCEPT !.value = c.record.value,
                                  !.ttl = IF c.record.ttl > 0 THEN c.record.ttl ELSE @]
        BY <3>3
      <4> DEFINE r == put(i)
      <4>2. /\ DOMAIN r = RecordFields /\ r.id = z[i].id /\ r.type = z[i].type /\ r.name = z[i].name
            /\ r.value = c.record.value
        BY <3>1, <4>1 DEF RecordFields
      <4>3. r.type = c.record.type /\ r.name = c.record.name
        BY <2>3, <2>4, <3>3, <4>2
      <4> HIDE DEF r
      <4>4. Rightly(r, home)
        BY <4>2, <4>3, Zenon DEF Rightly, IsA
      <4> QED
        BY <4>2, <4>4 DEF r
    <3> QED
      BY <3>2, <3>3
  <2> HIDE DEF put
  <2>6. ZoneOk(u, home) /\ \A e : Names(z, e) => Names(u, e)
    BY <2>5, ZoneChanges
  <2> QED
    BY <2>1, <2>6
<1> QED
  BY <1>1, <1>2

(* A record of the service's that somebody gives another value.            *)
LEMMA ZoneElsewhere ==
  ASSUME NEW home, NEW z, ZoneOk(z, home), NEW j \in DOMAIN z, z[j].name = "app"
  PROVE  LET u == [z EXCEPT ![j].value = Net!Elsewhere]
         IN  ZoneOk(u, home) /\ \A e : Names(z, e) => Names(u, e)
<1> DEFINE r == [z[j] EXCEPT !.value = Net!Elsewhere]
           u == [z EXCEPT ![j] = r]
<1>1. DOMAIN z[j] = RecordFields
  BY DEF ZoneOk
<1>2. DOMAIN r = RecordFields /\ r.value = Net!Elsewhere /\ r.id = z[j].id /\ r.type = z[j].type /\ r.name = "app"
  BY <1>1 DEF RecordFields
<1> HIDE DEF r
<1>3. Rightly(r, home)
  BY <1>2 DEF Rightly, IsA
<1>4. u = [i \in DOMAIN z |-> u[i]] /\ u[j] = r /\ \A i \in DOMAIN z \ {j} : u[i] = z[i]
  BY DEF ZoneOk
<1>5. \A i \in DOMAIN z :
        /\ DOMAIN u[i] = RecordFields /\ Rightly(u[i], home)
        /\ u[i].id = z[i].id /\ u[i].type = z[i].type /\ u[i].name = z[i].name
  BY <1>2, <1>3, <1>4 DEF ZoneOk
<1> HIDE DEF u
<1>6. ZoneOk(u, home) /\ \A e : Names(z, e) => Names(u, e)
  BY <1>4, <1>5, ZoneChanges
<1> QED
  BY <1>6 DEF u, r

-----------------------------------------------------------------------------
(* Of the service's own record and of the wildcard, what a host wants.     *)
LEMMA YmlIsOk == ASSUME NEW y, IsFleetYml(y) PROVE YmlOk(y)
<1>1. DOMAIN y = {"hosts", "mesh", "key", "ep", "home", "records"}
  BY DEF IsFleetYml
<1>2. y = [x \in DOMAIN y |-> y[x]]
  BY <1>1 DEF IsFleetYml
<1> QED
  BY <1>1, <1>2 DEF IsFleetYml, YmlOk

(* What stands in the records of a fleet.yml that is not refused.          *)
OwnRoute(y) == Net!RouteRecord(Net!DnsFleet(y), Net!Services(y)["app"])
HasRoute(y) == "app" \in Net!RoutedHere(Net!DnsFleet(y), Net!Services(y))

LEMMA InOrderAll ==
  ASSUME NEW S, IsFiniteSet(S), NEW r \in S
  PROVE  r \in Elements(Net!InOrder(S))
<1>1. Cardinality(S) \in Nat /\ Net!Cardinality(S) = Cardinality(S)
  BY NetCounts, FS_CardinalityType
<1>2. PICK s : s \in [1 .. Cardinality(S) -> S] /\ \A q \in S : \E i \in 1 .. Cardinality(S) : s[i] = q
  BY FS_CardinalityType DEF ExistsBijection, Bijection, Surjection
<1>3. s \in [1 .. Net!Cardinality(S) -> S] /\ \A q \in S : \E i \in DOMAIN s : s[i] = q
  BY <1>1, <1>2
<1>4. \A q \in S : \E i \in DOMAIN Net!InOrder(S) : Net!InOrder(S)[i] = q
  BY <1>3, Zenon DEF Net!InOrder
<1> QED
  BY <1>4 DEF Elements

LEMMA RecordsAre ==
  ASSUME NEW y, YmlOk(y), Net!RecordsOf(y) # Net!Refused
  PROVE  /\ \A r \in Elements(Net!RecordsOf(y)) :
              \/ \E i \in DOMAIN y.records : r.type = y.records[i].type /\ r.name = y.records[i].name
              \/ HasRoute(y) /\ r = OwnRoute(y)
         /\ HasRoute(y) => OwnRoute(y) \in Elements(Net!RecordsOf(y))
<1> DEFINE f == Net!DnsFleet(y)
           svcs == Net!Services(y)
           recs == [i \in DOMAIN f.records |-> Net!Declared(f, svcs, f.records[i])]
           S == {Net!RouteRecord(f, svcs[n]) : n \in Net!RoutedHere(f, svcs)}
           rest == Net!InOrder(S)
           all == recs \o rest
<1>1. Net!RecordsOf(y) = all
  BY Zenon DEF Net!RecordsOf, Net!DNSRecordsByHost
<1>2. f.records = y.records /\ DOMAIN svcs = {"app"}
  BY DEF Net!DnsFleet, Net!Services
<1>3. Net!RoutedHere(f, svcs) \subseteq {"app"}
  BY <1>2 DEF Net!RoutedHere, Net!Routed
<1>4. S \subseteq {OwnRoute(y)} /\ (HasRoute(y) => OwnRoute(y) \in S) /\ (S # {} => HasRoute(y))
  BY <1>3 DEF OwnRoute, HasRoute
<1>5. IsFiniteSet(S)
  <2>1. IsFiniteSet({OwnRoute(y)})
    BY FS_Singleton
  <2> QED
    BY <1>4, <2>1, FS_Subset
<1>6. rest \in Seq(S) /\ \A r \in S : r \in Elements(rest)
  BY <1>5, InSomeOrder, InOrderAll
<1>7. ASSUME NEW i \in DOMAIN recs
      PROVE  recs[i].type = y.records[i].type /\ recs[i].name = y.records[i].name
  BY <1>2, <1>7 DEF Net!Declared
<1>8. recs \in Seq(Elements(recs)) /\ DOMAIN recs = DOMAIN y.records
  <2>1. recs = [i \in 1 .. Len(y.records) |-> recs[i]] /\ Len(y.records) \in Nat
    BY <1>2 DEF YmlOk, IsList
  <2> HIDE DEF recs
  <2>2. recs \in [1 .. Len(y.records) -> Elements(recs)]
    BY <2>1 DEF Elements
  <2> QED
    BY <2>1, <2>2 DEF YmlOk, IsList
<1> HIDE DEF recs, S, rest
<1>9. \A r \in Elements(all) : r \in Elements(recs) \/ r \in S
  BY <1>6, <1>8 DEF Elements
<1>10. \A r \in Elements(rest) : r \in Elements(all)
  <2> SUFFICES ASSUME NEW i \in DOMAIN rest PROVE rest[i] \in Elements(all)
    BY DEF Elements
  <2>1. Len(recs) + i \in DOMAIN all /\ all[Len(recs) + i] = rest[i]
    BY <1>6, <1>8
  <2> QED
    BY <2>1 DEF Elements
<1> HIDE DEF all
<1>11. \A r \in Elements(recs) :
         \E i \in DOMAIN y.records : r.type = y.records[i].type /\ r.name = y.records[i].name
  BY <1>7, <1>8 DEF Elements
<1>12. \A r \in S : HasRoute(y) /\ r = OwnRoute(y)
  BY <1>4
<1> QED
  BY <1>1, <1>4, <1>6, <1>9, <1>10, <1>11, <1>12

(* A fleet with two hosts has as many.                                     *)
LEMMA TwoHostsAtLeast ==
  ASSUME Net!Assumption, NEW S, S \in SUBSET Hosts, NEW d \in S, NEW e \in S, d # e
  PROVE  Net!Cardinality(S) >= 2
<1>1. IsFiniteSet(S)
  BY NetFinite, FS_Subset DEF Net!Assumption
<1>2. IsFiniteSet({d}) /\ Cardinality({d}) = 1
  BY FS_Singleton
<1>3. {d, e} = {d} \cup {e} /\ e \notin {d} /\ {d, e} \in SUBSET S
  OBVIOUS
<1>4. IsFiniteSet({d} \cup {e}) /\ Cardinality({d} \cup {e}) = Cardinality({d}) + 1
  BY <1>2, <1>3, FS_AddElement, Zenon
<1>5. Cardinality({d, e}) = 2
  BY <1>2, <1>3, <1>4
<1>6. Cardinality({d, e}) <= Cardinality(S) /\ Cardinality(S) \in Nat
  BY <1>1, <1>3, FS_Subset, FS_CardinalityType
<1>7. Cardinality(S) >= 2
  BY <1>5, <1>6
<1> QED
  BY <1>7, NetCounts, Zenon

(* A host that is not the default one leads to its service.                *)
LEMMA RouteIs ==
  ASSUME Net!Assumption, NEW y, IsFleetYml(y)
  PROVE  /\ OwnRoute(y).type = "A" /\ OwnRoute(y).name = "app"
         /\ HasRoute(y) => OwnRoute(y).value = y.home /\ y.home # DefaultHost
         /\ y.home # DefaultHost /\ y.home # "" =>
              /\ HasRoute(y) /\ OwnRoute(y).value = y.home
              /\ Net!InShare(Net!DnsFleet(y), OwnRoute(y), Net!Domain, y.home)
<1> DEFINE f == Net!DnsFleet(y)
           s == Net!Services(y)["app"]
<1>1. /\ f.hosts = y.hosts /\ f.default = DefaultHost /\ f.domain = "z"
      /\ s.host = y.home /\ s.route = "app" /\ DOMAIN Net!Services(y) = {"app"}
  BY DEF Net!DnsFleet, Net!Services, Net!Domain
<1>2. /\ OwnRoute(y).type = "A" /\ OwnRoute(y).name = s.route /\ OwnRoute(y).zone = f.domain
      /\ OwnRoute(y).value = Net!HostOf(f, s) /\ OwnRoute(y).host = Net!HostOf(f, s)
  BY DEF OwnRoute, Net!RouteRecord
<1>3. HasRoute(y) => Net!HostOf(f, s) # f.default
  BY DEF HasRoute, Net!RoutedHere, Net!Routed
<1> HIDE DEF f, s
<1>4. Net!HostOf(f, s) = IF y.home # "" THEN y.home ELSE DefaultHost
  BY <1>1, Zenon DEF Net!HostOf
<1>5. ASSUME y.home # DefaultHost, y.home # "" PROVE HasRoute(y) /\ Net!HostOf(f, s) = y.home
  <2>1. Net!Cardinality(f.hosts) >= 2
    BY <1>1, <1>5, TwoHostsAtLeast DEF IsFleetYml
  <2>2. Net!HostOf(f, s) = y.home
    BY <1>4, <1>5
  <2>3. "app" \in Net!Routed(f, Net!Services(y))
    BY <1>1, <1>5, <2>1, <2>2 DEF Net!Routed, s
  <2>4. "app" \in Net!RoutedHere(f, Net!Services(y))
    BY <1>1, <2>3 DEF Net!RoutedHere, s
  <2> QED
    BY <2>2, <2>4 DEF HasRoute, f
<1> QED
  BY <1>1, <1>2, <1>3, <1>4, <1>5, Zenon DEF f, Net!InShare, Net!Domain

-----------------------------------------------------------------------------
(* What is a host's own is in its share.                                   *)
LEMMA ShareTakes ==
  ASSUME NEW f, NEW zn, NEW h, NEW X, NEW all \in Seq(X), NEW i \in DOMAIN all,
         Net!InShare(f, all[i], zn, h)
  PROVE  all[i] \in Elements(Net!Share(f, all, zn, h))
<1> DEFINE m == Net!Sharing(f, all, zn, h)
           r == all[i]
           T == {n \in 0 .. Len(all) : m[n] \in Seq(X) /\ (i <= n => r \in Elements(m[n]))}
<1>1. IsSharing(f, all, zn, h, m)
  BY SharingRuns
<1>2. Len(all) \in Nat /\ i \in 1 .. Len(all) /\ r \in X
  OBVIOUS
<1> HIDE DEF m
<1>3. 0 \in T
  <2>1. m[0] = <<>>
    BY <1>1 DEF IsSharing
  <2>2. m[0] \in Seq(X)
    BY <2>1
  <2>3. ~(i <= 0) /\ 0 \in 0 .. Len(all)
    BY <1>2
  <2> QED
    BY <2>2, <2>3
<1>4. ASSUME NEW n \in 1 .. Len(all), n - 1 \in T PROVE n \in T
  <2>1. m[n - 1] \in Seq(X) /\ (i <= n - 1 => r \in Elements(m[n - 1]))
    BY <1>4
  <2>2. all[n] \in X /\ n \in 0 .. Len(all) /\ (i <= n => i = n \/ i <= n - 1)
    BY <1>2
  <2>3. CASE Net!InShare(f, all[n], zn, h)
    <3>1. m[n] = Append(m[n - 1], all[n])
      BY <1>1, <2>3, Zenon DEF IsSharing
    <3> DEFINE s == m[n - 1]
               u == Append(s, all[n])
    <3>2. s \in Seq(X)
      BY <2>1
    <3> HIDE DEF s
    <3>3. u \in Seq(X) /\ all[n] \in Elements(u) /\ Elements(s) \subseteq Elements(u)
      <4>1. /\ Len(s) \in Nat /\ DOMAIN s = 1 .. Len(s) /\ DOMAIN u = 1 .. (Len(s) + 1)
            /\ u[Len(s) + 1] = all[n] /\ \A j \in DOMAIN s : u[j] = s[j]
        BY <2>2, <3>2
      <4>2. u \in Seq(X)
        BY <2>2, <3>2
      <4> HIDE DEF u
      <4> QED
        BY <4>1, <4>2 DEF Elements
    <3>4. m[n] \in Seq(X) /\ all[n] \in Elements(m[n]) /\ Elements(m[n - 1]) \subseteq Elements(m[n])
      BY <3>1, <3>3 DEF s
    <3>5. i <= n => r \in Elements(m[n])
      <4>1. CASE i = n
        BY <3>4, <4>1
      <4>2. CASE i <= n - 1
        BY <2>1, <3>4, <4>2
      <4> QED
        BY <2>2, <4>1, <4>2
    <3> QED
      BY <2>2, <3>4, <3>5
  <2>4. CASE ~Net!InShare(f, all[n], zn, h)
    <3>1. m[n] = m[n - 1] /\ i # n
      BY <1>1, <2>4, Zenon DEF IsSharing
    <3> QED
      BY <2>1, <2>2, <3>1
  <2> QED
    BY <2>3, <2>4
<1> HIDE DEF T
<1>5. \A n \in 0 .. Len(all) : n \in T
  BY <1>2, <1>3, <1>4, CountedUp
<1>6. Len(all) \in T /\ i <= Len(all)
  BY <1>2, <1>5
<1>7. r \in Elements(m[Len(all)])
  BY <1>6 DEF T
<1> QED
  BY <1>7 DEF m, Net!Share

(* What a host wants, record by record of its share.                       *)
WantsShare(y, d) ==
  LET all == Net!RecordsOf(y)
      rs  == Net!ShareOf(y, d)
      ps  == Net!Desired(y, d)
  IN  /\ all # Net!Refused /\ all \in Seq(Elements(all))
      /\ rs \in Seq(Elements(all)) /\ DOMAIN ps = DOMAIN rs
      /\ \A i \in DOMAIN rs : ps[i].type = rs[i].type /\ ps[i].name = rs[i].name /\ ps[i].value = rs[i].value
      /\ \A i \in DOMAIN rs : ~IsA(rs[i], "*")

LEMMA WantedAre ==
  ASSUME NEW y, IsFleetYml(y), NEW d, ~Net!Refuses(y, d)
  PROVE  WantsShare(y, d)
<1> DEFINE all == Net!RecordsOf(y)
           In == {r \in Elements(all) : Net!InShare(Net!DnsFleet(y), r, Net!Domain, d)}
           rs == Net!ShareOf(y, d)
           ps == Net!AsWanted(rs)
<1>1. all # Net!Refused /\ \A i \in DOMAIN rs : ~IsA(rs[i], "*")
  BY DEF Net!Refuses, IsA
<1>2. all \in Seq(Elements(all))
  BY <1>1, YmlIsOk, RecordsOk
<1>3. rs \in Seq(In)
  BY <1>2, SharePicks DEF Net!ShareOf
<1>4. Net!Desired(y, d) = ps
  BY Zenon DEF Net!Desired
<1> HIDE DEF rs, all
<1>5. rs \in Seq(Elements(all))
  BY <1>3
<1>6. DOMAIN ps = DOMAIN rs /\ \A i \in DOMAIN rs : ps[i].type = rs[i].type /\ ps[i].name = rs[i].name /\ ps[i].value = rs[i].value
  BY DEF Net!AsWanted
<1> HIDE DEF ps
<1> QED
  BY <1>1, <1>2, <1>4, <1>5, <1>6 DEF all, rs, WantsShare

(* No wildcard, and the service's own record only at a host it has moved to.*)
LEMMA GoodWanted ==
  ASSUME Net!Assumption, NEW y, IsFleetYml(y), NEW d, NEW p \in Elements(Net!Desired(y, d))
  PROVE  ~IsA(p, "*") /\ (IsA(p, "app") => p.value = y.home /\ y.home # DefaultHost)
<1> DEFINE all == Net!RecordsOf(y)
           rs == Net!ShareOf(y, d)
           ps == Net!Desired(y, d)
<1>0. ~Net!Refuses(y, d)
  <2>1. Net!Refuses(y, d) => ps = <<>>
    BY Zenon DEF Net!Desired
  <2> QED
    BY <2>1 DEF Elements
<1>1. /\ all # Net!Refused /\ rs \in Seq(Elements(all)) /\ DOMAIN ps = DOMAIN rs
      /\ \A i \in DOMAIN rs : ps[i].type = rs[i].type /\ ps[i].name = rs[i].name /\ ps[i].value = rs[i].value
      /\ \A i \in DOMAIN rs : ~IsA(rs[i], "*")
  BY <1>0, WantedAre DEF WantsShare
<1>2. PICK i \in DOMAIN ps : p = ps[i]
  BY DEF Elements
<1> DEFINE r == rs[i]
<1>3. /\ r \in Elements(all) /\ p.type = r.type /\ p.name = r.name /\ p.value = r.value /\ ~IsA(r, "*")
  <2> HIDE DEF rs, ps, all
  <2> QED
    BY <1>1, <1>2
<1> HIDE DEF rs, ps, r
<1>4. IsA(r, "app") => HasRoute(y) /\ r = OwnRoute(y)
  <2>1. \/ \E j \in DOMAIN y.records : r.type = y.records[j].type /\ r.name = y.records[j].name
        \/ HasRoute(y) /\ r = OwnRoute(y)
    BY <1>1, <1>3, YmlIsOk, RecordsAre
  <2>2. \A j \in DOMAIN y.records : ~OwnRecord(y.records[j])
    BY DEF IsFleetYml
  <2> QED
    BY <2>1, <2>2 DEF IsA, OwnRecord
<1>5. HasRoute(y) => OwnRoute(y).value = y.home /\ y.home # DefaultHost
  BY RouteIs
<1> QED
  BY <1>3, <1>4, <1>5 DEF IsA

(* And there it does.                                                      *)
LEMMA WantsRoute ==
  ASSUME Net!Assumption, NEW y, IsFleetYml(y), NEW d, d = y.home, d # DefaultHost, d # "", ~Net!Refuses(y, d)
  PROVE  \E p \in Elements(Net!Desired(y, d)) : IsA(p, "app") /\ p.value = d
<1> DEFINE all == Net!RecordsOf(y)
           rs == Net!ShareOf(y, d)
           ps == Net!Desired(y, d)
           r == OwnRoute(y)
<1>1. /\ all # Net!Refused /\ all \in Seq(Elements(all)) /\ DOMAIN ps = DOMAIN rs
      /\ \A i \in DOMAIN rs : ps[i].type = rs[i].type /\ ps[i].name = rs[i].name /\ ps[i].value = rs[i].value
  <2>1. WantsShare(y, d)
    BY WantedAre
  <2> QED
    BY <2>1 DEF WantsShare
<1>2. IsA(r, "app") /\ HasRoute(y) /\ r.value = d /\ Net!InShare(Net!DnsFleet(y), r, Net!Domain, d)
  BY RouteIs DEF IsA
<1>3. r \in Elements(all)
  BY <1>1, <1>2, YmlIsOk, RecordsAre
<1>4. r \in Elements(rs)
  <2> HIDE DEF all, r
  <2>1. PICK i \in DOMAIN all : r = all[i]
    BY <1>3 DEF Elements
  <2>2. all[i] \in Elements(Net!Share(Net!DnsFleet(y), all, Net!Domain, d))
    BY <1>1, <1>2, <2>1, ShareTakes
  <2> QED
    BY <2>1, <2>2 DEF Net!ShareOf, all
<1> HIDE DEF all, rs, ps, r
<1>5. PICK i \in DOMAIN rs : r = rs[i]
  BY <1>4 DEF Elements
<1>6. i \in DOMAIN ps /\ ps[i].type = r.type /\ ps[i].name = r.name /\ ps[i].value = r.value
  BY <1>1, <1>5
<1>7. ps[i] \in Elements(ps) /\ IsA(ps[i], "app") /\ ps[i].value = d
  BY <1>2, <1>6 DEF Elements, IsA
<1> QED
  BY <1>7 DEF ps

-----------------------------------------------------------------------------
(* The zone and the calls that are to be made, step by step.               *)
DnsInv ==
  /\ IsFleetYml(yml) /\ ZoneOk(zone, yml.home)
  /\ \A d \in Hosts : apply[d] # "idle" => IsFleetYml(plan[d].y) /\ plan[d].y.home \in {DefaultHost, yml.home}
  /\ \A d \in Hosts : \A c \in Elements(todo[d]) : Finds(zone, c)

(* The plans that are applied are the ones there were, or of the tip.      *)
PlansStay ==
  \A h \in Hosts : apply'[h] # "idle" =>
    plan'[h].y = yml \/ (apply[h] # "idle" /\ plan'[h] = plan[h])

(* The records that somebody counts on are found.                          *)
CallsStay ==
  /\ \A e : Names(zone, e) => Names(zone', e)
  /\ \A h \in Hosts : \A c \in Elements(todo'[h]) : c \in Elements(todo[h]) \/ Finds(zone', c)

LEMMA DnsStays ==
  ASSUME DnsInv, IsFleetYml(yml'), ZoneOk(zone', yml'.home), PlansStay, CallsStay,
         yml.home \in {DefaultHost, yml'.home}, yml' = yml \/ UNCHANGED <<apply, plan>>
  PROVE  DnsInv'
<1>1. ASSUME NEW d \in Hosts, apply'[d] # "idle"
      PROVE  IsFleetYml(plan'[d].y) /\ plan'[d].y.home \in {DefaultHost, yml'.home}
  <2>1. CASE apply[d] # "idle" /\ plan'[d] = plan[d]
    <3>1. IsFleetYml(plan[d].y) /\ plan[d].y.home \in {DefaultHost, yml.home}
      BY <2>1 DEF DnsInv
    <3> QED
      BY <2>1, <3>1
  <2>2. CASE ~(apply[d] # "idle" /\ plan'[d] = plan[d])
    <3>1. plan'[d].y = yml
      BY <1>1, <2>2 DEF PlansStay
    <3>2. yml' = yml
      BY <1>1, <2>2
    <3> QED
      BY <3>1, <3>2
  <2> QED
    BY <2>1, <2>2
<1>2. ASSUME NEW d \in Hosts, NEW c \in Elements(todo'[d]) PROVE Finds(zone', c)
  BY <1>2 DEF CallsStay, DnsInv, Finds
<1> QED
  BY <1>1, <1>2 DEF DnsInv

LEMMA DaemonPlans ==
  ASSUME WriterInv, HostsInv, NEW d \in Hosts, Net!Daemon(d)
  PROVE  PlansStay
<1>1. OthersStay(d) /\ (Waits(d) \/ MakesKey(d) \/ BeginsMesh(d) \/ RunsCommand(d))
  BY DaemonDoes
<1>2. apply'[d] # "idle" => plan'[d].y = yml \/ (apply[d] # "idle" /\ plan'[d] = plan[d])
  <2>1. CASE Waits(d)
    BY <2>1, Zenon DEF Waits, OfTip
  <2>2. CASE MakesKey(d)
    BY <2>2 DEF MakesKey
  <2>3. CASE BeginsMesh(d)
    BY <2>3 DEF BeginsMesh
  <2>4. CASE RunsCommand(d)
    <3>1. PICK i \in DOMAIN Net!Steps : apply[d] = Net!Steps[i] /\ plan'[d] = plan[d]
      BY <2>4 DEF RunsCommand
    <3>2. apply[d] # "idle"
      BY <3>1, StepsInOrder
    <3> QED
      BY <3>1, <3>2
  <2> QED
    BY <1>1, <2>1, <2>2, <2>3, <2>4
<1>3. ASSUME NEW h \in Hosts \ {d} PROVE apply'[h] = apply[h] /\ plan'[h] = plan[h]
  BY <1>1 DEF OthersStay
<1> QED
  BY <1>2, <1>3, Zenon DEF PlansStay

LEMMA StopStays ==
  ASSUME WriterInv, NEW d \in Hosts, Net!Stop(d), zone' = zone
  PROVE  PlansStay /\ CallsStay
<1>1. /\ apply'[d] = "idle" /\ todo'[d] = <<>>
      /\ \A h \in Hosts \ {d} : apply'[h] = apply[h] /\ plan'[h] = plan[h] /\ todo'[h] = todo[h]
  BY DEF Net!Stop, WriterInv
<1>2. Elements(<<>>) = {}
  BY DEF Elements
<1> QED
  BY <1>1, <1>2, Zenon DEF PlansStay, CallsStay

LEMMA DaemonCalls ==
  ASSUME Net!Assumption, WriterInv, DnsInv, NEW d \in Hosts, Net!Daemon(d)
  PROVE  CallsStay /\ ZoneOk(zone', yml.home)
<1>0. ZoneOk(zone, yml.home) /\ Writing(d) /\ todo = [h \in Hosts |-> todo[h]]
  BY DEF WriterInv, DnsInv
<1>1. CASE zone' = zone /\ (todo' = todo \/ Net!Stop(d))
  <2>1. CASE todo' = todo
    BY <1>0, <1>1, <2>1 DEF CallsStay
  <2>2. CASE Net!Stop(d)
    BY <1>0, <1>1, <2>2, StopStays
  <2> QED
    BY <1>1, <2>1, <2>2
<1>2. CASE Net!DnsList(d)
  <2> DEFINE D == Elements(Net!Desired(plan[d].y, d))
             t == Net!PlanDNSSync(zone, Net!Desired(plan[d].y, d))
  <2>1. apply[d] = "list" /\ todo' = [todo EXCEPT ![d] = t] /\ zone' = zone
    BY <1>2 DEF Net!DnsList, Net!Goto
  <2>2. Net!Desired(plan[d].y, d) \in Seq(D)
    BY <1>0, <2>1, DesiredOk DEF Writing
  <2>3. IsList(zone)
    BY ListElements DEF WriterInv
  <2>4. t \in Seq(CallsOf(D, zone))
    BY <2>2, <2>3, PlannedCalls
  <2> HIDE DEF t
  <2>5. Elements(t) \subseteq CallsOf(D, zone)
    BY <2>4, ListElements
  <2>6. \A c \in Elements(t) : Finds(zone, c)
    BY <2>5 DEF CallsOf, Finds
  <2>7. todo'[d] = t /\ \A h \in Hosts \ {d} : todo'[h] = todo[h]
    BY <1>0, <2>1
  <2> QED
    BY <1>0, <2>1, <2>6, <2>7, Zenon DEF CallsStay
<1>3. CASE Net!DnsCall(d) /\ zone' # zone
  <2> DEFINE c == Head(todo[d])
             t == Tail(todo[d])
             y == plan[d].y
  <2>1. /\ apply[d] = "call" /\ todo[d] # <<>> /\ zone' = Net!Called(zone, c)
        /\ todo' = [todo EXCEPT ![d] = t]
    BY <1>3, Zenon DEF Net!DnsCall
  <2>2. t \in Seq(Elements(todo[d])) /\ c \in Elements(todo[d])
    <3>1. todo[d] \in Seq(Elements(todo[d]))
      BY <1>0 DEF Writing
    <3> QED
      BY <2>1, <3>1, TailOk
  <2> HIDE DEF c, t
  <2>3. Elements(t) \subseteq Elements(todo[d])
    BY <2>2, ListElements
  <2>4. IsFleetYml(y) /\ y.home \in {DefaultHost, yml.home} /\ c.record \in Elements(Net!Desired(y, d)) /\ Finds(zone, c)
    BY <1>0, <2>1, <2>2 DEF DnsInv, Writing
  <2> HIDE DEF y
  <2>5. ~IsA(c.record, "*") /\ (IsA(c.record, "app") => c.record.value = y.home /\ y.home # DefaultHost)
    BY <2>4, GoodWanted
  <2>6. Rightly(c.record, yml.home)
    BY <2>4, <2>5 DEF Rightly
  <2>7. ZoneOk(zone', yml.home) /\ \A e : Names(zone, e) => Names(zone', e)
    BY <1>0, <2>1, <2>4, <2>6, ZoneCalledOk
  <2>8. todo'[d] = t /\ \A h \in Hosts \ {d} : todo'[h] = todo[h]
    BY <1>0, <2>1
  <2>9. ASSUME NEW h \in Hosts, NEW e \in Elements(todo'[h]) PROVE e \in Elements(todo[h])
    <3>1. CASE h = d
      BY <2>3, <2>8, <2>9, <3>1
    <3>2. CASE h # d
      BY <2>8, <2>9, <3>2
    <3> QED
      BY <3>1, <3>2
  <2> QED
    BY <2>7, <2>9 DEF CallsStay
<1>5. CASE zone' = zone /\ todo[d] # <<>> /\ todo' = [todo EXCEPT ![d] = Tail(todo[d])]
  <2> DEFINE t == Tail(todo[d])
  <2>1. t \in Seq(Elements(todo[d]))
    <3>1. todo[d] \in Seq(Elements(todo[d]))
      BY <1>0 DEF Writing
    <3> QED
      BY <1>5, <3>1, TailOk
  <2>2. todo'[d] = t /\ \A h \in Hosts \ {d} : todo'[h] = todo[h]
    BY <1>0, <1>5
  <2> HIDE DEF t
  <2>3. Elements(t) \subseteq Elements(todo[d])
    BY <2>1, ListElements
  <2> QED
    BY <1>0, <1>5, <2>2, <2>3, Zenon DEF CallsStay
<1>6. Net!DnsCall(d) /\ zone' = zone =>
        todo' = todo \/ Net!Stop(d) \/ (todo[d] # <<>> /\ todo' = [todo EXCEPT ![d] = Tail(todo[d])])
  BY Zenon DEF Net!DnsCall
<1>7. Net!DnsList(d) \/ Net!DnsCall(d) \/ (zone' = zone /\ (todo' = todo \/ Net!Stop(d)))
  <2>1. CASE Net!Plan(d)
    BY <2>1 DEF Net!Plan
  <2>2. CASE Net!MeshBegin(d)
    BY <2>2, Zenon DEF Net!MeshBegin
  <2>3. CASE Net!MeshCommand(d)
    BY <2>3, Zenon DEF Net!MeshCommand
  <2>4. CASE Net!DnsCheck(d)
    BY <2>4, Zenon DEF Net!DnsCheck
  <2>5. CASE Net!ApplyService(d)
    BY <2>5 DEF Net!ApplyService
  <2> QED
    BY <2>1, <2>2, <2>3, <2>4, <2>5 DEF Net!Daemon
<1> QED
  BY <1>1, <1>2, <1>3, <1>5, <1>6, <1>7

LEMMA DnsDaemon ==
  ASSUME Net!Assumption, WriterInv, HostsInv, DnsInv, NEW d \in Hosts, Net!Daemon(d)
  PROVE  DnsInv'
<1>1. yml' = yml /\ PlansStay
  BY DaemonDoes, DaemonPlans
<1>2. CallsStay /\ ZoneOk(zone', yml'.home)
  BY <1>1, DaemonCalls
<1>3. IsFleetYml(yml') /\ yml.home \in {DefaultHost, yml'.home}
  BY <1>1 DEF DnsInv
<1> QED
  BY <1>1, <1>2, <1>3, DnsStays

LEMMA DnsStops ==
  ASSUME WriterInv, DnsInv, NEW d \in Hosts, Net!Stop(d), UNCHANGED <<zone, yml>>
  PROVE  DnsInv'
<1>1. PlansStay /\ CallsStay
  BY StopStays
<1>2. IsFleetYml(yml') /\ ZoneOk(zone', yml'.home) /\ yml.home \in {DefaultHost, yml'.home}
  BY DEF DnsInv
<1> QED
  BY <1>1, <1>2, DnsStays

-----------------------------------------------------------------------------
(* What people do to fleet.yml and to the zone.                            *)
YmlFields == {"hosts", "mesh", "key", "ep", "home", "records"}
LEMMA EditedYml ==
  ASSUME NEW y, IsFleetYml(y), NEW z, DOMAIN z = YmlFields, z = [x \in DOMAIN z |-> z[x]],
         z.records = y.records,
         z.hosts = y.hosts \/ (\E h \in Hosts : z.hosts = y.hosts \cup {h}),
         z.key = [h \in Hosts |-> z.key[h]], z.ep = [h \in Hosts |-> z.ep[h]],
         z.home \in y.hosts
  PROVE  IsFleetYml(z)
<1>2. z = [hosts |-> z.hosts, mesh |-> z.mesh, key |-> z.key, ep |-> z.ep, home |-> z.home, records |-> z.records]
  BY DEF YmlFields
<1>3. z.hosts \in SUBSET Hosts /\ {z.home, DefaultHost} \subseteq z.hosts
  BY DEF IsFleetYml
<1>4. IsList(z.records) /\ \A i \in DOMAIN z.records : ~OwnRecord(z.records[i])
  BY DEF IsFleetYml
<1> QED
  BY <1>2, <1>3, <1>4, Zenon DEF IsFleetYml

LEMMA PeopleYml ==
  ASSUME IsFleetYml(yml), NEW h \in Hosts,
         Net!CommitKey(h) \/ Net!AddHost(h) \/ Net!MoveEndpoint(h) \/ Net!MoveApp(h)
  PROVE  IsFleetYml(yml') /\ (yml'.home = yml.home \/ (<<yml.home, h>> \in Moves /\ yml'.home = h))
<1>0. /\ DOMAIN yml = YmlFields /\ yml = [x \in DOMAIN yml |-> yml[x]] /\ yml.home \in yml.hosts
      /\ yml.key = [g \in Hosts |-> yml.key[g]] /\ yml.ep = [g \in Hosts |-> yml.ep[g]]
  <2>1. DOMAIN yml = YmlFields
    BY DEF IsFleetYml, YmlFields
  <2>2. yml = [x \in DOMAIN yml |-> yml[x]]
    BY <2>1 DEF IsFleetYml, YmlFields
  <2> QED
    BY <2>1, <2>2 DEF IsFleetYml
<1>1. CASE Net!CommitKey(h)
  <2> DEFINE k == [yml.key EXCEPT ![h] = st[h].pub]
             z == [yml EXCEPT !.key = k]
  <2>1. yml' = z
    BY <1>1 DEF Net!CommitKey
  <2>2. k = [g \in Hosts |-> k[g]]
    BY <1>0
  <2> HIDE DEF k
  <2>3. /\ DOMAIN z = YmlFields /\ z = [x \in DOMAIN z |-> z[x]] /\ z.key = k
        /\ z.hosts = yml.hosts /\ z.ep = yml.ep /\ z.home = yml.home /\ z.records = yml.records
    BY <1>0 DEF YmlFields
  <2> HIDE DEF z
  <2>4. IsFleetYml(z)
    BY <1>0, <2>2, <2>3, EditedYml
  <2> QED
    BY <2>1, <2>3, <2>4
<1>2. CASE Net!AddHost(h)
  <2> DEFINE k == yml.hosts \cup {h}
             z == [yml EXCEPT !.hosts = k]
  <2>1. yml' = z
    BY <1>2 DEF Net!AddHost
  <2> HIDE DEF k
  <2>3. /\ DOMAIN z = YmlFields /\ z = [x \in DOMAIN z |-> z[x]] /\ z.hosts = k
        /\ z.key = yml.key /\ z.ep = yml.ep /\ z.home = yml.home /\ z.records = yml.records
    BY <1>0 DEF YmlFields
  <2> HIDE DEF z
  <2>4. IsFleetYml(z)
    BY <1>0, <2>3, EditedYml DEF k
  <2> QED
    BY <2>1, <2>3, <2>4
<1>3. CASE Net!MoveEndpoint(h)
  <2> DEFINE k == [yml.ep EXCEPT ![h] = 1 - @]
             z == [yml EXCEPT !.ep = k]
  <2>1. yml' = z
    BY <1>3 DEF Net!MoveEndpoint
  <2>2. k = [g \in Hosts |-> k[g]]
    BY <1>0
  <2> HIDE DEF k
  <2>3. /\ DOMAIN z = YmlFields /\ z = [x \in DOMAIN z |-> z[x]] /\ z.ep = k
        /\ z.hosts = yml.hosts /\ z.key = yml.key /\ z.home = yml.home /\ z.records = yml.records
    BY <1>0 DEF YmlFields
  <2> HIDE DEF z
  <2>4. IsFleetYml(z)
    BY <1>0, <2>2, <2>3, EditedYml
  <2> QED
    BY <2>1, <2>3, <2>4
<1>4. CASE Net!MoveApp(h)
  <2> DEFINE z == [yml EXCEPT !.home = h]
  <2>1. yml' = z /\ h \in yml.hosts /\ <<yml.home, h>> \in Moves
    BY <1>4 DEF Net!MoveApp
  <2>3. /\ DOMAIN z = YmlFields /\ z = [x \in DOMAIN z |-> z[x]] /\ z.home = h
        /\ z.hosts = yml.hosts /\ z.key = yml.key /\ z.ep = yml.ep /\ z.records = yml.records
    BY <1>0 DEF YmlFields
  <2> HIDE DEF z
  <2>4. IsFleetYml(z)
    BY <1>0, <2>1, <2>3, EditedYml
  <2> QED
    BY <2>1, <2>3, <2>4
<1> QED
  BY <1>1, <1>2, <1>3, <1>4

(* The service leaves the default host: only then is its record its own.   *)
LEMMA ZoneMoves ==
  ASSUME NEW z, ZoneOk(z, DefaultHost), NEW home
  PROVE  ZoneOk(z, home)
BY Zenon DEF ZoneOk, Rightly

LEMMA DnsPeople ==
  ASSUME NewFleets, DnsInv, NEW h \in Hosts,
         Net!CommitKey(h) \/ Net!AddHost(h) \/ Net!MoveEndpoint(h) \/ Net!MoveApp(h)
  PROVE  DnsInv'
<1>1. UNCHANGED <<zone, apply, plan, todo>>
  BY DEF Net!CommitKey, Net!AddHost, Net!MoveEndpoint, Net!MoveApp
<1>2. IsFleetYml(yml') /\ (yml'.home = yml.home \/ (<<yml.home, h>> \in Moves /\ yml'.home = h))
  BY PeopleYml DEF DnsInv
<1>3. yml'.home = yml.home \/ yml.home = DefaultHost
  BY <1>2 DEF NewFleets
<1>4. ZoneOk(zone', yml'.home)
  BY <1>1, <1>3, ZoneMoves DEF DnsInv
<1>5. PlansStay /\ CallsStay
  BY <1>1, Zenon DEF PlansStay, CallsStay
<1> QED
  BY <1>1, <1>2, <1>3, <1>4, <1>5, DnsStays

LEMMA DnsZone ==
  ASSUME DnsInv, Net!EditZone
  PROVE  DnsInv'
<1>0. ZoneOk(zone, yml.home) /\ IsFleetYml(yml) /\ UNCHANGED <<yml, apply, plan, todo>>
  BY DEF DnsInv, Net!EditZone
<1> DEFINE r == [type |-> "A", name |-> "app", value |-> Net!Elsewhere, ttl |-> 0]
           c == [record |-> r, id |-> 0]
<1>1. \/ \E i \in DOMAIN zone : zone[i].name = "app" /\ zone' = [zone EXCEPT ![i].value = Net!Elsewhere]
      \/ zone' = Net!Called(zone, c)
  BY DEF Net!EditZone
<1>2. ZoneOk(zone', yml.home) /\ \A e : Names(zone, e) => Names(zone', e)
  <2>1. CASE \E i \in DOMAIN zone : zone[i].name = "app" /\ zone' = [zone EXCEPT ![i].value = Net!Elsewhere]
    <3>1. PICK i \in DOMAIN zone : zone[i].name = "app" /\ zone' = [zone EXCEPT ![i].value = Net!Elsewhere]
      BY <2>1
    <3> DEFINE u == [zone EXCEPT ![i].value = Net!Elsewhere]
    <3>2. ZoneOk(u, yml.home) /\ \A e : Names(zone, e) => Names(u, e)
      BY <1>0, <3>1, ZoneElsewhere
    <3> HIDE DEF u
    <3> QED
      BY <3>1, <3>2 DEF u
  <2>2. CASE zone' = Net!Called(zone, c)
    <3>1. c.id = 0 /\ c.record = r /\ Rightly(r, yml.home)
      BY DEF Rightly, IsA
    <3> HIDE DEF c, r
    <3> QED
      BY <1>0, <2>2, <3>1, ZoneGains
  <2> QED
    BY <1>1, <2>1, <2>2
<1>3. PlansStay /\ CallsStay
  BY <1>0, <1>2, Zenon DEF PlansStay, CallsStay
<1> QED
  BY <1>0, <1>2, <1>3, DnsStays

-----------------------------------------------------------------------------
(* The invariant as a whole.                                               *)
QuietInv == DnsInv /\ MeshInv

LEMMA QuietDaemon ==
  ASSUME Net!Assumption, WriterInv, HostsInv, QuietInv, NEW d \in Hosts, Net!Daemon(d)
  PROVE  QuietInv'
BY DnsDaemon, MeshDaemon DEF QuietInv

LEMMA QuietFault ==
  ASSUME WriterInv, HostsInv, QuietInv, NEW d \in Hosts, Net!Fail(d) \/ Net!Reboot(d) \/ Net!Rebuild(d)
  PROVE  QuietInv'
<1>1. MeshInv'
  BY MeshFault DEF QuietInv
<1>2. Net!Stop(d) /\ UNCHANGED <<zone, yml>>
  BY DEF Net!Fail, Net!Reboot, Net!Rebuild
<1>3. DnsInv'
  BY <1>2, DnsStops DEF QuietInv
<1> QED
  BY <1>1, <1>3 DEF QuietInv

LEMMA QuietPeople ==
  ASSUME NewFleets, QuietInv, NEW h \in Hosts,
         Net!CommitKey(h) \/ Net!AddHost(h) \/ Net!MoveEndpoint(h) \/ Net!MoveApp(h)
  PROVE  QuietInv'
<1>1. DnsInv'
  BY DnsPeople DEF QuietInv
<1>2. UNCHANGED <<st, apply, plan, unstarted>>
  BY DEF Net!CommitKey, Net!AddHost, Net!MoveEndpoint, Net!MoveApp
<1>3. MeshInv'
  BY <1>2, MeshStays DEF QuietInv
<1> QED
  BY <1>1, <1>3 DEF QuietInv

LEMMA QuietZone ==
  ASSUME QuietInv, Net!EditZone
  PROVE  QuietInv'
<1>1. UNCHANGED <<st, apply, plan, unstarted>>
  BY DEF Net!EditZone
<1>2. MeshInv'
  BY <1>1, MeshStays DEF QuietInv
<1>3. DnsInv'
  BY DnsZone DEF QuietInv
<1> QED
  BY <1>2, <1>3 DEF QuietInv

LEMMA QuietKept ==
  ASSUME Net!Assumption, NewFleets
  PROVE  WriterInv /\ HostsInv /\ QuietInv /\ [Net!Next]_Net!vars => QuietInv'
<1> SUFFICES ASSUME WriterInv, HostsInv, QuietInv, [Net!Next]_Net!vars PROVE QuietInv'
  OBVIOUS
<1>1. CASE \E d \in Hosts : Net!Daemon(d)
  BY <1>1, QuietDaemon
<1>2. CASE \E d \in Hosts : Net!Fail(d) \/ Net!Reboot(d) \/ Net!Rebuild(d)
  BY <1>2, QuietFault
<1>3. CASE \E h \in Hosts : Net!CommitKey(h) \/ Net!AddHost(h) \/ Net!MoveEndpoint(h) \/ Net!MoveApp(h)
  BY <1>3, QuietPeople
<1>4. CASE Net!EditZone
  BY <1>4, QuietZone
<1>5. CASE UNCHANGED Net!vars
  <2>1. DnsInv'
    BY <1>5 DEF Net!vars, QuietInv, DnsInv
  <2>2. MeshInv'
    BY <1>5, MeshStays DEF Net!vars, QuietInv
  <2> QED
    BY <2>1, <2>2 DEF QuietInv
<1> QED
  BY <1>1, <1>2, <1>3, <1>4, <1>5, Zenon DEF Net!Next

LEMMA QuietBegins ==
  ASSUME Net!Assumption, NewFleets
  PROVE  Net!Init => QuietInv
<1> SUFFICES ASSUME Net!Init PROVE QuietInv
  OBVIOUS
<1>0. /\ yml \in Starts /\ yml \in Net!FleetYmls
      /\ \A h \in Hosts : st[h] = Net!FreshHost /\ apply[h] = "idle" /\ todo[h] = <<>>
  BY DEF Net!Init, Net!Assumption
<1>1. /\ {yml.home, DefaultHost} \subseteq yml.hosts
      /\ \A i \in DOMAIN yml.records : ~OwnRecord(yml.records[i])
  BY <1>0 DEF NewFleets
<1>2. IsFleetYml(yml)
  <2>1. /\ yml = [hosts |-> yml.hosts, mesh |-> yml.mesh, key |-> yml.key, ep |-> yml.ep,
                  home |-> yml.home, records |-> yml.records]
        /\ yml.key \in [Hosts -> Nat] /\ yml.ep \in [Hosts -> {0, 1}]
        /\ yml.hosts \in SUBSET Hosts /\ yml.records \in Seq(Net!Declarations)
    BY <1>0 DEF Net!FleetYmls
  <2>2. IsList(yml.records)
    BY <2>1 DEF IsList
  <2>3. yml.key = [h \in Hosts |-> yml.key[h]] /\ yml.ep = [h \in Hosts |-> yml.ep[h]]
    BY <2>1
  <2> QED
    BY <1>1, <2>1, <2>2, <2>3, Zenon DEF IsFleetYml
<1>3. ZoneOk(zone, yml.home)
  <2> DEFINE r == [type |-> "A", name |-> "*", value |-> DefaultHost, ttl |-> Net!DefaultTTL, id |-> 1]
  <2>1. zone = <<r>>
    BY DEF Net!Init
  <2>2. DOMAIN r = RecordFields /\ Rightly(r, yml.home) /\ IsA(r, "*")
    BY DEF RecordFields, Rightly, IsA
  <2> HIDE DEF r
  <2>3. zone \in Seq({r}) /\ DOMAIN zone = {1} /\ zone[1] = r
    BY <2>1
  <2>4. zone \in Seq(Elements(zone))
    BY <2>3, ListElements
  <2> QED
    BY <2>2, <2>3, <2>4 DEF ZoneOk
<1>4. DnsInv
  <2>1. Elements(<<>>) = {}
    BY DEF Elements
  <2> QED
    BY <1>0, <1>2, <1>3, <2>1 DEF DnsInv
<1>5. MeshInv
  <2>1. ASSUME NEW h \in Hosts PROVE MeshSide(st[h], apply[h], plan[h].mesh, h \in unstarted)
    <3>1. st[h] = Net!FreshHost /\ apply[h] = "idle"
      BY <1>0
    <3> QED
      BY <3>1, SideFresh
  <2> QED
    BY <2>1 DEF MeshInv
<1> QED
  BY <1>4, <1>5 DEF QuietInv

-----------------------------------------------------------------------------
(* A host of a quiet fleet, and its plan.                                  *)
LEMMA PlanIsEmpty ==
  ASSUME NEW d, Net!NothingPlanned(d)
  PROVE  /\ apply[d] = "idle" /\ ~Net!Refuses(yml, d) /\ ~(Net!Mine(yml, d) /\ d \notin app)
         /\ Elements(Net!PlanDNSSync(zone, Net!Desired(yml, d))) = {}
         /\ yml.mesh => LET m == Net!planMesh(yml, d, st[d]) IN ~Net!MeshChanges(m) /\ ~Net!MeshBlocked(m)
<1> DEFINE p == Net!PlanFleet(yml, d)
           t == Net!PlanDNSSync(zone, Net!Desired(yml, d))
           m == Net!planMesh(yml, d, st[d])
           mine == Net!Mine(yml, d) /\ d \notin app
           r == Net!Refuses(yml, d)
<1>1. apply[d] = "idle" /\ ~Net!Pending(p) /\ ~Net!Blocked(p)
  BY DEF Net!NothingPlanned
<1>2. p = [y |-> yml, mesh |-> IF yml.mesh THEN m ELSE Net!NoMesh, dns |-> Net!dnsDetails(t), refused |-> r, service |-> mine]
  BY Zenon DEF Net!PlanFleet
<1> HIDE DEF p, t, m, mine, r
<1>3. /\ p.mesh = (IF yml.mesh THEN m ELSE Net!NoMesh) /\ p.dns = Net!dnsDetails(t)
  BY <1>2
<1>4. p.refused = r
  BY <1>2, Zenon
<1>5. p.service = mine
  BY <1>2, Zenon
<1>6. /\ ~p.service /\ DOMAIN p.dns = {} /\ ~Net!MeshChanges(p.mesh)
      /\ ~Net!MeshBlocked(p.mesh) /\ ~p.refused
  BY <1>1, Zenon DEF Net!Pending, Net!Blocked, Net!NetworkChanges
<1>7. Elements(t) = {}
  <2>1. {t[i].record : i \in DOMAIN t} = {}
    BY <1>3, <1>6 DEF Net!dnsDetails
  <2> QED
    BY <2>1 DEF Elements
<1>8. ~r /\ ~mine
  BY <1>4, <1>5, <1>6, Zenon
<1> QED
  BY <1>1, <1>3, <1>6, <1>7, <1>8, Zenon DEF t, m, mine, r

LEMMA QuietMesh ==
  ASSUME MeshInv, yml.mesh, NEW h \in Hosts, h \in yml.hosts, Net!NothingPlanned(h)
  PROVE  /\ Net!ConfiguredAsWanted(yml, h, st[h])
         /\ h \notin unstarted => Net!RunsItsConfig(st[h])
<1> DEFINE s == st[h]
<1>1. apply[h] = "idle" /\ LET m == Net!planMesh(yml, h, s) IN ~Net!MeshChanges(m) /\ ~Net!MeshBlocked(m)
  BY PlanIsEmpty
<1>2. /\ s.pub \in {0, s.key} /\ (s.active => s.livePub = s.key)
      /\ s.active => s.live = s.conf \/ h \in unstarted
  <2>1. MeshSide(s, "idle", plan[h].mesh, h \in unstarted)
    BY <1>1 DEF MeshInv
  <2>2. "idle" \notin PastConf
    BY DEF PastConf
  <2> QED
    BY <2>1, <2>2, Zenon DEF MeshSide
<1> HIDE DEF s
<1>3. Net!ConfiguredAsWanted(yml, h, s)
  BY <1>1, <1>2, NothingDiffers
<1>4. h \notin unstarted => Net!RunsItsConfig(s)
  BY <1>2, <1>3, Zenon DEF Net!ConfiguredAsWanted, Net!RunsItsConfig
<1> QED
  BY <1>3, <1>4 DEF s

(* Where the service's name leads, by what is in the zone.                 *)
LEMMA QuietZoneLeads ==
  ASSUME Net!Assumption, NewFleets, DnsInv, Net!NothingPlanned(yml.home)
  PROVE  \/ Net!LeadsTo \ {Net!Elsewhere} = {yml.home}
         \/ yml.home = DefaultHost /\ Net!LeadsTo = {Net!Elsewhere}
<1> DEFINE home == yml.home
           own == Net!Names("app")
           wild == Net!Names("*")
<1>0. IsFleetYml(yml) /\ ZoneOk(zone, home)
  BY DEF DnsInv
<1>1. home \in Hosts /\ home # "" /\ home # Net!Elsewhere
  BY <1>0 DEF IsFleetYml, NewFleets
<1>2. /\ own = {i \in DOMAIN zone : IsA(zone[i], "app")} /\ wild = {i \in DOMAIN zone : IsA(zone[i], "*")}
      /\ Net!LeadsTo = {zone[i].value : i \in IF own # {} THEN own ELSE wild}
  BY DEF Net!Names, IsA, Net!LeadsTo
<1>3. \A i \in DOMAIN zone : Rightly(zone[i], home)
  BY <1>0 DEF ZoneOk
<1> HIDE DEF own, wild, home
<1>4. /\ \A i \in own : i \in DOMAIN zone /\ (zone[i].value = Net!Elsewhere \/ (zone[i].value = home /\ home # DefaultHost))
      /\ \A i \in wild : zone[i].value = DefaultHost
  BY <1>2, <1>3 DEF Rightly
<1>5. CASE home # DefaultHost
  <2>1. ~Net!Refuses(yml, home) /\ Elements(Net!PlanDNSSync(zone, Net!Desired(yml, home))) = {}
    BY PlanIsEmpty DEF home
  <2> DEFINE w == Net!Desired(yml, home)
  <2>2. PICK p \in Elements(w) : IsA(p, "app") /\ p.value = home
    BY <1>0, <1>1, <1>5, <2>1, WantsRoute DEF home
  <2>3. w \in Seq(Elements(w)) /\ IsList(zone)
    BY <1>0, YmlIsOk, DesiredOk, ListElements DEF ZoneOk
  <2> HIDE DEF w
  <2>4. PICK i \in DOMAIN w : p = w[i]
    BY <2>2 DEF Elements
  <2>5. Stands(zone, p)
    <3>1. Stands(zone, w[i]) \/ \E c \in Elements(Net!PlanDNSSync(zone, w)) : c.record = w[i]
      BY <2>3, PlanSuffices
    <3> QED
      BY <2>1, <2>4, <3>1 DEF w
  <2>6. PICK j \in DOMAIN zone : Net!dnsKey(zone[j]) = Net!dnsKey(p) /\ zone[j].value = home
    BY <2>2, <2>5 DEF Stands
  <2>7. j \in own
    BY <1>2, <2>2, <2>6 DEF Net!dnsKey, IsA
  <2>8. Net!LeadsTo = {zone[i_1].value : i_1 \in own}
    BY <1>2, <2>7
  <2> QED
    BY <1>1, <1>4, <2>6, <2>7, <2>8 DEF home
<1>6. CASE home = DefaultHost /\ own # {}
  <2>1. Net!LeadsTo = {zone[i].value : i \in own} /\ \A i \in own : zone[i].value = Net!Elsewhere
    BY <1>2, <1>4, <1>6
  <2> QED
    BY <1>6, <2>1 DEF home
<1>7. CASE home = DefaultHost /\ own = {}
  <2>1. wild # {}
    BY <1>0, <1>2 DEF ZoneOk
  <2>2. Net!LeadsTo = {zone[i].value : i \in wild} /\ \A i \in wild : zone[i].value = home
    BY <1>2, <1>4, <1>7
  <2> QED
    BY <1>1, <2>1, <2>2 DEF home
<1> QED
  BY <1>5, <1>6, <1>7

LEMMA QuietIsDone ==
  ASSUME Net!Assumption, NewFleets
  PROVE  QuietInv => QuietMeansDone
<1> SUFFICES ASSUME QuietInv, \A d \in yml.hosts : Net!NothingPlanned(d) PROVE Net!AsFleetYmlSays
  BY DEF QuietMeansDone, Net!QuietMeansDone
<1>0. IsFleetYml(yml) /\ yml.hosts \in SUBSET Hosts /\ yml.home \in yml.hosts
  BY DEF QuietInv, DnsInv, IsFleetYml
<1>1. yml.mesh => \A h \in yml.hosts :
        /\ Net!ConfiguredAsWanted(yml, h, st[h])
        /\ h \notin unstarted => Net!RunsItsConfig(st[h])
  BY <1>0, QuietMesh DEF QuietInv
<1>2. yml.home \in app
  <2>1. ~(Net!Mine(yml, yml.home) /\ yml.home \notin app)
    BY <1>0, PlanIsEmpty
  <2> QED
    BY <2>1 DEF Net!Mine
<1>3. \/ Net!LeadsTo \ {Net!Elsewhere} = {yml.home}
      \/ yml.home = DefaultHost /\ Net!LeadsTo = {Net!Elsewhere}
  BY <1>0, QuietZoneLeads DEF QuietInv
<1> QED
  BY <1>1, <1>2, <1>3, Zenon DEF Net!AsFleetYmlSays

(* When no daemon of a fleet would change anything any more, every tunnel  *)
(* is configured with the keys and endpoints that are committed and runs   *)
(* that config, and the service's name leads to the host that runs it:     *)
(* whatever people edit and whichever commands fail, however often and in  *)
(* any order with the daemons' steps.  Only where an apply was cut off     *)
(* between its config and its restart may the interface run an older config*)
(* (mesh.go, planMesh and applyMesh; dns.go, DNSRecordsByHost; dnssync.go, *)
(* PlanDNSSync; plan.go, PlanFleet and ApplyPlan).                         *)
THEOREM QuietAlwaysDone ==
  ASSUME NewFleets PROVE Net!Spec => []QuietMeansDone
<1>1. Net!Init => WriterInv /\ HostsInv /\ QuietInv
  BY WriterBegins, HostsBegin, QuietBegins, FleetAssumption
<1>2. WriterInv /\ HostsInv /\ QuietInv /\ [Net!Next]_Net!vars => (WriterInv /\ HostsInv /\ QuietInv)'
  BY WriterKept, StepKeepsKeys, QuietKept, FleetAssumption
<1>3. WriterInv /\ HostsInv /\ QuietInv => QuietMeansDone
  BY QuietIsDone, FleetAssumption
<1> QED
  BY <1>1, <1>2, <1>3, PTL DEF Net!Spec

=============================================================================
