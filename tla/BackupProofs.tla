---------------------------- MODULE BackupProofs ----------------------------
(* For any volumes and containers, and any number of writes, requests and  *)
(* kills: a restore loses nothing a service wrote, scheduled backups do not*)
(* pile up, and retention leaves what latest.json names.                   *)
EXTENDS Backup, TLAPS, FiniteSetTheorems

IsJob(j) ==
  j = [todo |-> j.todo, prunes |-> j.prunes, vol |-> j.vol, at |-> j.at, art |-> j.art, sha |-> j.sha,
       left |-> j.left, stopped |-> j.stopped, drill |-> j.drill, force |-> j.force,
       expired |-> j.expired, scheduled |-> j.scheduled]

(* A restore's first job.                                                  *)
LEMMA Asked ==
  ASSUME NEW v, NEW k, NEW drill, NEW force,
         job' = [NoJob EXCEPT !.vol = v, !.at = k, !.drill = drill, !.force = force]
  PROVE  IsJob(job') /\ job'.vol = v /\ job'.stopped = {} /\ ~job'.scheduled
BY DEF NoJob, IsJob

(* The key is found in the manifest.                                       *)
LEMMA Resolved ==
  ASSUME IsJob(job), NEW a, NEW s, job' = [job EXCEPT !.at = a, !.sha = s]
  PROVE  IsJob(job') /\ job'.vol = job.vol /\ job'.stopped = job.stopped /\ job'.scheduled = job.scheduled
BY DEF IsJob

(* Another container is stopped, or started again.                         *)
LEMMA Stops ==
  ASSUME NEW j, IsJob(j), NEW S, NEW k, k = [j EXCEPT !.stopped = S]
  PROVE  IsJob(k) /\ k.vol = j.vol /\ k.stopped = S /\ k.scheduled = j.scheduled
         /\ k.expired = j.expired
BY DEF IsJob

(* The artifact is here.                                                   *)
LEMMA TakesArt ==
  ASSUME NEW j, IsJob(j), NEW a, NEW k, k = [j EXCEPT !.art = a]
  PROVE  IsJob(k) /\ k.vol = j.vol /\ k.stopped = j.stopped /\ k.scheduled = j.scheduled
BY DEF IsJob

(* The job's time may be over.                                             *)
LEMMA GetsLate ==
  ASSUME NEW j, IsJob(j), NEW out, NEW k, k = Later(j, out)
  PROVE  IsJob(k) /\ k.vol = j.vol /\ k.stopped = j.stopped /\ k.scheduled = j.scheduled
         /\ (k.expired => j.expired \/ out = "cut")
BY DEF IsJob, Later

-----------------------------------------------------------------------------
(* A restore stops whoever mounts the volume, then puts a copy aside, and  *)
(* only then deletes: nobody writes in between.                            *)

Restoring == {"resolve", "download", "deps", "stop", "copy", "remove", "import", "restart"}

Shape ==
  /\ data = [v \in Volumes |-> data[v]]
  /\ copies = [v \in Volumes |-> copies[v]]
  /\ tip = [v \in Volumes |-> tip[v]]
  /\ pc \in Restoring => IsJob(job) /\ job.vol \in Volumes
  /\ pc \in {"resolve", "download", "deps"} => job.stopped = {}

Guarded ==
  /\ pc \in {"stop", "copy", "remove", "import"} => job.stopped \cap running = {}
  /\ pc \in {"copy", "remove", "import"} => Dependents(job.vol) \subseteq job.stopped
  /\ pc \in {"remove", "import"} => tip[job.vol] \in copies[job.vol]

DataInv == Shape /\ Guarded /\ NewestDataKept

(* The steps of the restore's failures: the job ends, or starts again what *)
(* it has stopped.                                                         *)
LEMMA GivesUp ==
  ASSUME Shape, pc \in Restoring, UNCHANGED <<data, copies, tip>>,
         End \/ (\E out : Restart(Later(job, out)))
  PROVE  Shape' /\ Guarded'
<1>1. CASE End
  BY <1>1 DEF End, Shape, Guarded, Restoring
<1>2. ASSUME NEW out, Restart(Later(job, out))
      PROVE  Shape' /\ Guarded'
  <2>1. pc' = "restart" /\ job' = Later(job, out)
    BY <1>2 DEF Restart, Go
  <2>2. IsJob(job') /\ job'.vol = job.vol
    BY <2>1, GetsLate DEF Shape
  <2> QED
    BY <2>1, <2>2 DEF Shape, Guarded
<1> QED
  BY <1>1, <1>2

(* A volume that the job deletes or imports has its last version aside.    *)
LEMMA ChangesVolume ==
  ASSUME Shape, Guarded, NewestDataKept, pc \in {"remove", "import"}, NEW d,
         data' = [data EXCEPT ![job.vol] = d], UNCHANGED <<copies, tip>>
  PROVE  NewestDataKept'
<1>1. \A v \in Volumes : v # job.vol => data'[v] = data[v]
  BY DEF Shape
<1> QED
  BY <1>1 DEF NewestDataKept, Guarded

(* Every step keeps the newest data.                                       *)
LEMMA DataKept == DataInv /\ [Next]_vars => DataInv'
<1> SUFFICES ASSUME DataInv, [Next]_vars
             PROVE  DataInv'
  OBVIOUS
<1>0. Shape /\ Guarded /\ NewestDataKept
  BY DEF DataInv
<1>1. ASSUME UNCHANGED <<data, copies, tip>>
      PROVE  NewestDataKept'
  BY <1>0, <1>1 DEF NewestDataKept
<1>2. ASSUME UNCHANGED <<data, copies, tip, running>>, pc' \notin Restoring \/ UNCHANGED <<pc, job>>
      PROVE  DataInv'
  BY <1>0, <1>1, <1>2 DEF DataInv, Shape, Guarded, Restoring
<1>3. ASSUME End
      PROVE  pc' \notin Restoring
  BY <1>3 DEF End, Restoring
<1>4. ASSUME NEW c \in Containers, Write(c)
      PROVE  DataInv'
  <2> DEFINE v == Mounts[c]
  <2>1. v \in Volumes /\ c \in running /\ UNCHANGED <<copies, running, pc, job>>
    BY <1>4, BackupAssumption DEF Write, schedVars
  <2>2. /\ data' = [data EXCEPT ![v] = writes + 1] /\ tip' = [tip EXCEPT ![v] = writes + 1]
    BY <1>4 DEF Write
  <2>3. pc \in {"copy", "remove", "import"} => v # job.vol
    BY <1>0, <2>1 DEF Guarded, Dependents
  <2> HIDE DEF v
  <2>4. Shape'
    BY <1>0, <2>1, <2>2 DEF Shape
  <2>5. Guarded'
    BY <1>0, <2>1, <2>2, <2>3 DEF Guarded, Shape, Restoring
  <2>6. NewestDataKept'
    BY <1>0, <2>1, <2>2 DEF NewestDataKept, Shape
  <2> QED
    BY <2>4, <2>5, <2>6 DEF DataInv
<1>5. ASSUME NEW v \in Volumes, ListByHand(v) \/ \E k \in Keys(v) : DeleteByHand(v, k)
      PROVE  DataInv'
  BY <1>2, <1>5 DEF ListByHand, DeleteByHand, hostVars
<1>6. CASE Ask
  <2>1. ASSUME NEW vs, NEW prune, AskBackup(vs, prune)
        PROVE  DataInv'
    BY <1>2, <2>1 DEF AskBackup, Go, hostVars, Restoring
  <2>2. ASSUME NEW v \in Volumes, NEW k, NEW drill, NEW force, AskRestore(v, k, drill, force)
        PROVE  DataInv'
    <3>0. job' = [NoJob EXCEPT !.vol = v, !.at = k, !.drill = drill, !.force = force] /\ pc' = "resolve"
      BY <2>2 DEF AskRestore, Go
    <3>1. IsJob(job') /\ job'.vol = v /\ job'.stopped = {} /\ pc' = "resolve"
      BY <3>0, Asked
    <3>2. UNCHANGED <<data, copies, tip>>
      BY <2>2 DEF AskRestore, hostVars
    <3> QED
      BY <1>0, <1>1, <3>1, <3>2 DEF DataInv, Shape, Guarded
  <2> QED
    BY <1>6, <2>1, <2>2 DEF Ask
<1>7. CASE Snapshot \/ Upload \/ Verify \/ WriteManifest \/ List \/ DeleteObject
  <2>1. UNCHANGED <<data, copies, tip, running>>
    BY <1>7 DEF Snapshot, Upload, Verify, WriteManifest, List, DeleteObject, hostVars
  <2>2. pc' \notin Restoring
    BY <1>3, <1>7 DEF Snapshot, Upload, Verify, WriteManifest, List, DeleteObject, Go, Restoring
  <2> QED
    BY <1>2, <2>1, <2>2
<1>8. CASE Resolve
  <2>1. UNCHANGED <<data, copies, tip, running>> /\ pc = "resolve" /\ IsJob(job)
        /\ job.vol \in Volumes /\ job.stopped = {}
    BY <1>0, <1>8 DEF Resolve, hostVars, Shape, Restoring
  <2>2. CASE End
    BY <1>2, <1>3, <2>1, <2>2
  <2>3. ASSUME NEW a, NEW s, NEW out,
               \/ Go("download", [job EXCEPT !.at = a, !.sha = s])
               \/ Go("download", Later([job EXCEPT !.sha = s], out))
        PROVE  DataInv'
    <3>1. IsJob([job EXCEPT !.sha = s]) /\ [job EXCEPT !.sha = s].vol = job.vol
          /\ [job EXCEPT !.sha = s].stopped = job.stopped
      BY <2>1 DEF IsJob
    <3>2. pc' = "download" /\ IsJob(job') /\ job'.vol = job.vol /\ job'.stopped = job.stopped
      <4> DEFINE j == [job EXCEPT !.sha = s]
      <4>1. CASE Go("download", [job EXCEPT !.at = a, !.sha = s])
        <5>1. job' = [job EXCEPT !.at = a, !.sha = s] /\ pc' = "download"
          BY <4>1 DEF Go
        <5> QED
          BY <2>1, <5>1, Resolved
      <4>2. CASE Go("download", Later(j, out))
        <5> HIDE DEF j
        <5>1. job' = Later(j, out) /\ pc' = "download"
          BY <4>2 DEF Go
        <5>2. IsJob(j) /\ j.vol = job.vol /\ j.stopped = job.stopped
          BY <3>1 DEF j
        <5> QED
          BY <5>1, <5>2, GetsLate
      <4> QED
        BY <2>3, <4>1, <4>2
    <3> QED
      BY <1>0, <1>1, <2>1, <3>2 DEF DataInv, Shape, Guarded
  <2> QED
    BY <1>8, <2>2, <2>3 DEF Resolve
<1>9. CASE Download \/ Depend
  <2>1. UNCHANGED <<data, copies, tip, running>> /\ pc \in {"download", "deps"} /\ IsJob(job)
        /\ job.vol \in Volumes /\ job.stopped = {}
    BY <1>0, <1>9 DEF Download, Depend, hostVars, Shape, Restoring
  <2>2. CASE End
    BY <1>2, <1>3, <2>1, <2>2
  <2>3. ASSUME NEW a, Go("deps", [job EXCEPT !.art = a]) \/ Go("stop", job)
        PROVE  DataInv'
    <3>1. pc' \in {"deps", "stop"} /\ IsJob(job') /\ job'.vol = job.vol /\ job'.stopped = {}
      BY <2>1, <2>3, TakesArt DEF Go
    <3> QED
      BY <1>0, <1>1, <2>1, <3>1 DEF DataInv, Shape, Guarded
  <2> QED
    BY <1>9, <2>2, <2>3 DEF Download, Depend
<1>10. CASE Stop
  <2>1. UNCHANGED <<data, copies, tip>> /\ pc = "stop" /\ IsJob(job) /\ job.vol \in Volumes
    BY <1>0, <1>10 DEF Stop, Shape, Restoring
  <2>2. CASE Dependents(job.vol) \subseteq job.stopped /\ Go("copy", job) /\ UNCHANGED running
    BY <1>0, <1>1, <2>1, <2>2 DEF DataInv, Shape, Guarded, Go
  <2>3. ASSUME NEW c, running' = running \ {c}, Go("stop", [job EXCEPT !.stopped = @ \cup {c}])
        PROVE  DataInv'
    <3>1. pc' = "stop" /\ IsJob(job') /\ job'.vol = job.vol /\ job'.stopped = job.stopped \cup {c}
      BY <2>1, <2>3, Stops DEF Go
    <3>2. job.stopped \cap running = {}
      BY <1>0, <2>1 DEF Guarded
    <3> QED
      BY <1>0, <1>1, <2>1, <2>3, <3>1, <3>2 DEF DataInv, Shape, Guarded
  <2>4. ASSUME NEW out, Restart(Later(job, out))
        PROVE  DataInv'
    BY <1>0, <1>1, <2>1, <2>4, GivesUp DEF DataInv, Restoring
  <2> QED
    BY <1>10, <2>2, <2>3, <2>4 DEF Stop
<1>11. CASE Copy
  <2>1. UNCHANGED <<data, tip, running>> /\ pc = "copy" /\ IsJob(job) /\ job.vol \in Volumes
    BY <1>0, <1>11 DEF Copy, Shape, Restoring
  <2>2. copies' = copies \/ copies' = [copies EXCEPT ![job.vol] = @ \cup {data[job.vol]}]
    BY <1>11 DEF Copy
  <2>3. NewestDataKept'
    BY <1>0, <2>1, <2>2 DEF NewestDataKept, Shape
  <2>4. CASE copies' = [copies EXCEPT ![job.vol] = @ \cup {data[job.vol]}] /\ Go("remove", job)
    <3>1. tip'[job'.vol] \in copies'[job'.vol]
      BY <1>0, <2>1, <2>4 DEF Go, NewestDataKept, Shape
    <3> QED
      BY <1>0, <2>1, <2>3, <2>4, <3>1 DEF DataInv, Shape, Guarded, Go, Dependents
  <2>5. ASSUME NEW out, Restart(Later(job, out))
        PROVE  DataInv'
    <3>1. pc' = "restart" /\ IsJob(job') /\ job'.vol = job.vol
      BY <2>1, <2>5, GetsLate DEF Restart, Go
    <3> QED
      BY <1>0, <2>1, <2>2, <2>3, <3>1 DEF DataInv, Shape, Guarded
  <2> QED
    BY <1>11, <2>4, <2>5 DEF Copy
<1>12. CASE Remove \/ Import
  <2>1. /\ UNCHANGED <<copies, tip, running>> /\ pc \in {"remove", "import"}
        /\ IsJob(job) /\ job.vol \in Volumes
    BY <1>0, <1>12 DEF Remove, Import, Shape, Restoring
  <2>2. data' = data \/ \E d : data' = [data EXCEPT ![job.vol] = d]
    BY <1>12 DEF Remove, Import
  <2>3. NewestDataKept'
    BY <1>0, <1>1, <2>1, <2>2, ChangesVolume
  <2>4. data' = [v \in Volumes |-> data'[v]]
    BY <1>0, <2>2 DEF Shape
  <2>5. CASE Go("import", job) /\ pc = "remove"
    BY <1>0, <2>1, <2>3, <2>4, <2>5 DEF DataInv, Shape, Guarded, Go
  <2>6. ASSUME NEW out, Restart(Later(job, out))
        PROVE  DataInv'
    <3>1. pc' = "restart" /\ IsJob(job') /\ job'.vol = job.vol
      BY <2>1, <2>6, GetsLate DEF Restart, Go
    <3> QED
      BY <1>0, <2>1, <2>3, <2>4, <3>1 DEF DataInv, Shape, Guarded
  <2> QED
    BY <1>12, <2>5, <2>6 DEF Remove, Import
<1>13. CASE StartAgain
  <2>1. UNCHANGED <<data, copies, tip>> /\ pc = "restart" /\ IsJob(job) /\ job.vol \in Volumes
    BY <1>0, <1>13 DEF StartAgain, Shape, Restoring
  <2>2. CASE End
    BY <1>0, <1>1, <2>1, <2>2, GivesUp DEF DataInv, Restoring
  <2>3. ASSUME NEW c, NEW out, Go("restart", Later([job EXCEPT !.stopped = @ \ {c}], out))
        PROVE  DataInv'
    <3> DEFINE j == [job EXCEPT !.stopped = @ \ {c}]
    <3>1. IsJob(j) /\ j.vol = job.vol
      BY <2>1 DEF IsJob
    <3> HIDE DEF j
    <3>2. job' = Later(j, out) /\ pc' = "restart"
      BY <2>3 DEF Go, j
    <3>3. IsJob(job') /\ job'.vol = job.vol
      BY <3>1, <3>2, GetsLate
    <3> QED
      BY <1>0, <1>1, <2>1, <3>2, <3>3 DEF DataInv, Shape, Guarded
  <2> QED
    BY <1>13, <2>2, <2>3 DEF StartAgain
<1>14. CASE Follow \/ Check \/ Queue \/ Begin \/ UNCHANGED vars
  BY <1>2, <1>14 DEF Follow, Check, Queue, Begin, Go, vars, hostVars, Restoring
<1>15. CASE Kill
  BY <1>0, <1>1, <1>15 DEF Kill, DataInv, Shape, Guarded, Restoring
<1> QED
  BY <1>4, <1>5, <1>6, <1>7, <1>8, <1>9, <1>10, <1>11, <1>12, <1>13, <1>14, <1>15 DEF Next, JobStep

(* The last thing a service wrote is in its volume or in a copy a restore  *)
(* put aside, whatever fails, times out or dies (manager.go, Restore,      *)
(* "always leave a recovery point behind").                                *)
THEOREM NewestDataAlwaysKept == Spec => []NewestDataKept
<1>1. Init => DataInv
  BY DEF Init, DataInv, Shape, Guarded, NewestDataKept, Restoring
<1>2. DataInv /\ [Next]_vars => DataInv'
  BY DataKept
<1>3. DataInv => NewestDataKept
  BY DEF DataInv
<1> QED
  BY <1>1, <1>2, <1>3, PTL DEF Spec

-----------------------------------------------------------------------------
(* What a restore stopped it knows of until it has tried to start it, or   *)
(* the daemon died in it; and its time is not over unless that is on       *)
(* record.                                                                 *)

Undoing == {"stop", "copy", "remove", "import", "restart"}

StartInv ==
  /\ pc \in Undoing => (job.expired => late) /\ (late \/ down \subseteq job.stopped \cup cutoff)
  /\ pc \notin Undoing => late \/ down \subseteq cutoff

(* Every step keeps that.                                                  *)
LEMMA StartKept == Shape /\ StartInv /\ [Next]_vars => StartInv'
<1> SUFFICES ASSUME Shape, StartInv, [Next]_vars
             PROVE  StartInv'
  OBVIOUS
<1>0. pc \in Undoing => IsJob(job)
  BY DEF Shape, Restoring, Undoing
<1>1. ASSUME UNCHANGED <<pc, job, down, late, cutoff>>
      PROVE  StartInv'
  BY <1>1 DEF StartInv
<1>2. ASSUME UNCHANGED <<down, late, cutoff>>, pc \notin Undoing, pc' \notin Undoing
      PROVE  StartInv'
  BY <1>2 DEF StartInv
<1>3. ASSUME Restart(Later(job, "failed")), pc \in Undoing, UNCHANGED <<down, cutoff>>, ~late
      PROVE  StartInv'
  <2>1. pc' = "restart" /\ job' = Later(job, "failed")
    BY <1>3 DEF Restart, Go
  <2>2. (job'.expired => job.expired) /\ job'.stopped = job.stopped
    BY <1>0, <1>3, <2>1, GetsLate
  <2> QED
    BY <1>3, <2>1, <2>2 DEF StartInv, Undoing
<1>4. CASE late'
  BY <1>4 DEF StartInv
<1>5. CASE ~late' /\ Stop
  <2>1. /\ pc = "stop" /\ ~late /\ down \subseteq job.stopped \cup cutoff /\ IsJob(job)
        /\ cutoff' = cutoff
    BY <1>0, <1>5 DEF Stop, StartInv, Undoing
  <2>2. CASE Go("copy", job) /\ UNCHANGED <<down, late>>
    BY <2>1, <2>2 DEF Go, StartInv, Undoing
  <2>3. ASSUME NEW c, down' \subseteq down \cup {c},
               Go("stop", [job EXCEPT !.stopped = job.stopped \cup {c}])
        PROVE  StartInv'
    <3>1. pc' = "stop" /\ job'.stopped = job.stopped \cup {c} /\ job'.expired = job.expired
      BY <2>1, <2>3, Stops DEF Go
    <3> QED
      BY <2>1, <2>3, <3>1 DEF StartInv, Undoing
  <2>4. ASSUME NEW c, NEW out \in Outcomes, late' = (late \/ out = "cut"), out # "ok",
               down' = IF out = "failed" \/ c \notin running THEN down ELSE down \cup {c},
               Restart(Later(job, out))
        PROVE  StartInv'
    <3>0. out # "cut"
      BY <1>5, <2>4
    <3>1. out = "failed" /\ UNCHANGED <<down, cutoff>>
      BY <2>1, <2>4, <3>0 DEF Outcomes
    <3> QED
      BY <1>3, <2>1, <2>4, <3>1 DEF Undoing
  <2>5. CASE Dependents(job.vol) \subseteq job.stopped
    BY <1>5, <2>2, <2>5 DEF Stop
  <2>6. CASE ~(Dependents(job.vol) \subseteq job.stopped)
    <3>1. PICK c \in Dependents(job.vol) \ job.stopped, out \in Outcomes :
            /\ down' = IF out = "failed" \/ c \notin running THEN down ELSE down \cup {c}
            /\ late' = (late \/ out = "cut")
            /\ IF out = "ok" THEN Go("stop", [job EXCEPT !.stopped = job.stopped \cup {c}])
               ELSE Restart(Later(job, out))
      BY <1>5, <2>6 DEF Stop
    <3>2. CASE out = "ok"
      <4>1. down' \subseteq down \cup {c}
        BY <3>1
      <4> QED
        BY <2>3, <3>1, <3>2, <4>1
    <3>3. CASE out # "ok"
      BY <2>4, <3>1, <3>3
    <3> QED
      BY <3>2, <3>3
  <2> QED
    BY <2>5, <2>6
<1>6. CASE ~late' /\ (Copy \/ Remove \/ Import)
  <2>1. PICK out \in Outcomes :
          /\ late' = (late \/ out = "cut")
          /\ Go("remove", job) \/ Go("import", job) \/ Restart(Later(job, out))
    BY <1>6 DEF Copy, Remove, Import
  <2>2. pc \in Undoing /\ down' = down /\ cutoff' = cutoff /\ ~late /\ out # "cut"
    BY <1>6, <2>1 DEF Copy, Remove, Import, Undoing
  <2>3. CASE Go("remove", job) \/ Go("import", job)
    BY <1>6, <2>2, <2>3 DEF Go, StartInv, Undoing
  <2>4. CASE Restart(Later(job, out))
    <3>1. pc' = "restart" /\ job' = Later(job, out)
      BY <2>4 DEF Restart, Go
    <3>2. (job'.expired => job.expired) /\ job'.stopped = job.stopped
      BY <1>0, <2>2, <3>1, GetsLate
    <3> QED
      BY <1>6, <2>2, <3>1, <3>2 DEF StartInv, Undoing
  <2> QED
    BY <2>1, <2>3, <2>4
<1>7. CASE ~late' /\ StartAgain
  <2>1. pc = "restart" /\ ~late /\ ~job.expired /\ down \subseteq job.stopped \cup cutoff /\ IsJob(job)
    BY <1>0, <1>7 DEF StartAgain, StartInv, Undoing
  <2>2. CASE job.stopped = {} /\ End /\ UNCHANGED <<running, down, late, cutoff>>
    BY <2>1, <2>2 DEF End, StartInv, Undoing
  <2>3. ASSUME NEW c, NEW out \in Outcomes, late' = (late \/ out = "cut"), down' = down \ {c},
               cutoff' = cutoff \ {c},
               Go("restart", Later([job EXCEPT !.stopped = job.stopped \ {c}], out))
        PROVE  StartInv'
    <3> DEFINE j == [job EXCEPT !.stopped = job.stopped \ {c}]
    <3>1. IsJob(j) /\ j.stopped = job.stopped \ {c} /\ j.expired = job.expired
      BY <2>1, Stops
    <3>2. pc' = "restart" /\ job' = Later(j, out)
      BY <2>3 DEF Go
    <3> HIDE DEF j
    <3>3. out # "cut"
      BY <1>7, <2>3
    <3>4. job'.stopped = j.stopped /\ (job'.expired => j.expired)
      BY <3>1, <3>2, <3>3, GetsLate
    <3> QED
      BY <1>7, <2>1, <2>3, <3>1, <3>2, <3>4 DEF StartInv, Undoing
  <2> QED
    BY <1>7, <2>1, <2>2, <2>3 DEF StartAgain
<1>8. CASE Depend
  <2>1. pc = "deps" /\ UNCHANGED <<down, late, cutoff>> /\ (late \/ down \subseteq cutoff)
    BY <1>8 DEF Depend, hostVars, StartInv, Undoing
  <2>2. CASE End
    BY <1>2, <2>1, <2>2 DEF End, Undoing
  <2>3. CASE Go("stop", job) /\ ~job.expired
    BY <2>1, <2>3 DEF Go, StartInv, Undoing
  <2> QED
    BY <1>8, <2>2, <2>3 DEF Depend, Outcomes
<1>9. CASE Snapshot \/ Upload \/ Verify \/ WriteManifest \/ List \/ DeleteObject \/ Resolve \/ Download
           \/ Ask \/ Begin
  <2>1. UNCHANGED <<down, late, cutoff>> /\ pc \notin Undoing
    BY <1>9 DEF Snapshot, Upload, Verify, WriteManifest, List, DeleteObject, Resolve, Download, Ask, AskBackup,
                AskRestore, Begin, hostVars, Undoing
  <2>2. pc' \notin Undoing
    BY <1>9 DEF Snapshot, Upload, Verify, WriteManifest, List, DeleteObject, Resolve, Download, Ask, AskBackup,
                AskRestore, Begin, End, Go, Undoing
  <2> QED
    BY <1>2, <2>1, <2>2
<1>10. CASE Follow \/ Check \/ Queue \/ UNCHANGED vars
  BY <1>1, <1>10 DEF Follow, Check, Queue, vars, hostVars
<1>11. ASSUME NEW c \in Containers, Write(c)
       PROVE  StartInv'
  BY <1>1, <1>11 DEF Write
<1>12. ASSUME NEW v \in Volumes, ListByHand(v) \/ \E k \in Keys(v) : DeleteByHand(v, k)
       PROVE  StartInv'
  BY <1>1, <1>12 DEF ListByHand, DeleteByHand, hostVars
<1>13. CASE Kill
  BY <1>13 DEF Kill, StartInv, Undoing
<1> QED
  BY <1>4, <1>5, <1>6, <1>7, <1>8, <1>9, <1>10, <1>11, <1>12, <1>13 DEF Next, JobStep

(* A restore that is over has started, or tried to start, what it stopped, *)
(* unless its time ran out or the daemon died in it (manager.go, Restore,  *)
(* the deferred starts).                                                   *)
THEOREM AlwaysStartedAgain == Spec => []StartedAgain
<1>1. Init => DataInv /\ StartInv
  BY DEF Init, DataInv, Shape, Guarded, NewestDataKept, Restoring, StartInv, Undoing
<1>2. DataInv /\ StartInv /\ [Next]_vars => (DataInv /\ StartInv)'
  BY DataKept, StartKept DEF DataInv
<1>3. StartInv => StartedAgain
  BY DEF StartInv, StartedAgain, Undoing
<1> QED
  BY <1>1, <1>2, <1>3, PTL DEF Spec

-----------------------------------------------------------------------------
(* The schedule: a slot is taken once it is sure that the job of the last  *)
(* one is over, and given back when the job ends or is never put in line.  *)

SlotInv ==
  /\ line \in {0, 1}
  /\ sched = "queue" => pending /\ line = 0
  /\ line = 1 => pending
  /\ pending => sched = "queue" \/ line = 1

OwnJobInv == IsJob(job) /\ (job.scheduled => line = 1)

ScheduleInv == SlotInv /\ OwnJobInv

(* A job that somebody asks for is not a scheduled one.                    *)
LEMMA AskedBackup ==
  ASSUME NEW vs, NEW ps, job' = [NoJob EXCEPT !.todo = vs, !.prunes = ps]
  PROVE  IsJob(job') /\ ~job'.scheduled
BY DEF NoJob, IsJob

(* The schedule's own, at its turn.                                        *)
LEMMA Begun ==
  ASSUME job' = [NoJob EXCEPT !.todo = Volumes, !.prunes = Volumes, !.scheduled = TRUE]
  PROVE  IsJob(job') /\ job'.scheduled
BY DEF NoJob, IsJob

(* The steps of a backup.                                                  *)
LEMMA Goes ==
  ASSUME IsJob(job), NEW v, NEW w, NEW x,
         \/ job' = [job EXCEPT !.vol = v, !.at = w, !.art = x]
         \/ job' = [job EXCEPT !.vol = v, !.prunes = w, !.left = x]
         \/ job' = [job EXCEPT !.todo = v]
         \/ job' = [job EXCEPT !.left = v]
  PROVE  IsJob(job') /\ job'.scheduled = job.scheduled
BY DEF IsJob

(* A job that goes on stays scheduled or not.                              *)
LEMMA StaysScheduled ==
  ASSUME IsJob(job), JobStep
  PROVE  End \/ (/\ IsJob(job') /\ job'.scheduled = job.scheduled
                 /\ UNCHANGED <<pending, sched, line>>)
<1>1. ASSUME NEW step, Go(step, job)
      PROVE  /\ IsJob(job') /\ job'.scheduled = job.scheduled
             /\ UNCHANGED <<pending, sched, line>>
  BY <1>1 DEF Go, schedVars
<1>2. ASSUME NEW out, Restart(Later(job, out))
      PROVE  /\ IsJob(job') /\ job'.scheduled = job.scheduled
             /\ UNCHANGED <<pending, sched, line>>
  BY <1>2, GetsLate DEF Restart, Go, schedVars
<1>3. CASE Snapshot \/ WriteManifest \/ List \/ DeleteObject
  <2>1. CASE End
    BY <2>1
  <2>2. CASE Go("next", job)
    BY <1>1, <2>2
  <2>3. CASE ~End /\ ~Go("next", job)
    <3>1. UNCHANGED <<pending, sched, line>>
      BY <1>3, <2>3, ZenonT(60) DEF Snapshot, WriteManifest, List, DeleteObject, Go, schedVars
    <3>2. \E v, w, x : \/ job' = [job EXCEPT !.vol = v, !.at = w, !.art = x]
                       \/ job' = [job EXCEPT !.vol = v, !.prunes = w, !.left = x]
                       \/ job' = [job EXCEPT !.todo = v]
                       \/ job' = [job EXCEPT !.left = v]
      <4>1. CASE Snapshot
        <5>1. \E v : job' = [job EXCEPT !.vol = v, !.at = clock + 1, !.art = data[v]]
          BY <2>3, <4>1 DEF Snapshot, Go
        <5> QED
          BY <5>1
      <4>2. CASE WriteManifest
        <5>1. job' = [job EXCEPT !.todo = job.todo \ {job.vol}]
          BY <2>3, <4>2 DEF WriteManifest, Go
        <5> QED
          BY <5>1
      <4>3. CASE List
        <5>1. \E v : job' = [job EXCEPT !.vol = v, !.prunes = job.prunes \ {v}, !.left = Pruned(Keys(v), clock)]
          BY <2>3, <4>3 DEF List, Go
        <5> QED
          BY <5>1
      <4>4. CASE DeleteObject
        <5>1. \E k : job' = [job EXCEPT !.left = job.left \ {k}]
          BY <2>3, <4>4 DEF DeleteObject, Go
        <5> QED
          BY <5>1
      <4> QED
        BY <1>3, <4>1, <4>2, <4>3, <4>4
    <3> QED
      BY <3>1, <3>2, Goes
  <2> QED
    BY <2>1, <2>2, <2>3
<1>4. CASE Upload \/ Verify \/ Depend
  BY <1>1, <1>4 DEF Upload, Verify, Depend
<1>5. CASE Copy \/ Remove \/ Import
  BY <1>1, <1>2, <1>5 DEF Copy, Remove, Import
<1>6. CASE Resolve
  <2> DEFINE j(s) == [job EXCEPT !.sha = s]
  <2>1. \A s : IsJob(j(s)) /\ j(s).scheduled = job.scheduled
    BY DEF IsJob
  <2> HIDE DEF j
  <2>2. ASSUME NEW s, NEW out, job' = Later(j(s), out)
        PROVE  IsJob(job') /\ job'.scheduled = job.scheduled
    BY <2>1, <2>2, GetsLate
  <2>3. \/ End
        \/ /\ UNCHANGED <<pending, sched, line>>
           /\ (\E a, s : job' = [job EXCEPT !.at = a, !.sha = s]) \/ \E s, out : job' = Later(j(s), out)
    BY <1>6 DEF Resolve, Go, schedVars, j
  <2> QED
    BY <2>2, <2>3, Resolved
<1>7. CASE Download
  <2>1. End \/ \E a : Go("deps", [job EXCEPT !.art = a])
    BY <1>7 DEF Download
  <2> QED
    BY <2>1, TakesArt DEF Go, schedVars
<1>8. CASE Stop
  <2>1. ASSUME NEW c, Go("stop", [job EXCEPT !.stopped = job.stopped \cup {c}])
        PROVE  /\ IsJob(job') /\ job'.scheduled = job.scheduled
               /\ UNCHANGED <<pending, sched, line>>
    BY <2>1, Stops DEF Go, schedVars
  <2> QED
    BY <1>1, <1>2, <1>8, <2>1 DEF Stop
<1>9. CASE StartAgain
  <2> DEFINE j(c) == [job EXCEPT !.stopped = job.stopped \ {c}]
  <2>1. \A c : IsJob(j(c)) /\ j(c).scheduled = job.scheduled
    BY DEF IsJob
  <2>2. End \/ \E c, out : Go("restart", Later(j(c), out))
    BY <1>9 DEF StartAgain
  <2> HIDE DEF j
  <2> QED
    BY <2>1, <2>2, GetsLate DEF Go, schedVars
<1> QED
  BY <1>3, <1>4, <1>5, <1>6, <1>7, <1>8, <1>9 DEF JobStep

(* Every step keeps the schedule and its job in step.                      *)
LEMMA ScheduleKept == ScheduleInv /\ [Next]_vars => ScheduleInv'
<1> SUFFICES ASSUME ScheduleInv, [Next]_vars
             PROVE  ScheduleInv'
  OBVIOUS
<1>0. IsJob(NoJob) /\ ~NoJob.scheduled
  BY DEF IsJob, NoJob
<1>1. CASE End
  <2>1. job' = NoJob /\ UNCHANGED sched
    BY <1>1 DEF End
  <2>2. CASE job.scheduled
    <3>1. line = 1 /\ sched # "queue"
      BY <2>2 DEF ScheduleInv, SlotInv, OwnJobInv
    <3>2. pending' = FALSE /\ line' = line - 1
      BY <1>1, <2>2 DEF End
    <3>3. line' = 0
      BY <3>1, <3>2
    <3> QED
      BY <1>0, <2>1, <3>1, <3>2, <3>3 DEF ScheduleInv, SlotInv, OwnJobInv
  <2>3. CASE ~job.scheduled
    <3>1. UNCHANGED <<pending, line>>
      BY <1>1, <2>3 DEF End
    <3> QED
      BY <1>0, <2>1, <3>1 DEF ScheduleInv, SlotInv, OwnJobInv
  <2> QED
    BY <2>2, <2>3
<1>2. ASSUME UNCHANGED <<pending, sched, line>>, IsJob(job'), job'.scheduled => job.scheduled
      PROVE  ScheduleInv'
  BY <1>2 DEF ScheduleInv, SlotInv, OwnJobInv
<1>3. CASE JobStep
  BY <1>1, <1>2, <1>3, StaysScheduled DEF ScheduleInv, OwnJobInv
<1>4. CASE Ask
  <2>1. UNCHANGED <<pending, sched, line>>
    BY <1>4 DEF Ask, AskBackup, AskRestore, Go, schedVars
  <2>2. IsJob(job') /\ ~job'.scheduled
    <3>1. ASSUME NEW vs, NEW ps, job' = [NoJob EXCEPT !.todo = vs, !.prunes = ps]
          PROVE  IsJob(job') /\ ~job'.scheduled
      BY <3>1, AskedBackup
    <3>2. CASE \E vs, prune : AskBackup(vs, prune)
      BY <3>1, <3>2 DEF AskBackup, Go
    <3>3. CASE \E v, drill, force, k : AskRestore(v, k, drill, force)
      <4>1. ASSUME NEW v, NEW k, NEW drill, NEW force, AskRestore(v, k, drill, force)
            PROVE  IsJob(job') /\ ~job'.scheduled
        <5>1. job' = [NoJob EXCEPT !.vol = v, !.at = k, !.drill = drill, !.force = force]
          BY <4>1 DEF AskRestore, Go
        <5> QED
          BY <5>1, Asked
      <4> QED
        BY <3>3, <4>1
    <3> QED
      BY <1>4, <3>2, <3>3 DEF Ask
  <2> QED
    BY <1>2, <2>1, <2>2
<1>5. CASE Begin
  <2>1. UNCHANGED <<pending, sched, line>> /\ line > 0 /\ IsJob(job')
    BY <1>5, Begun DEF Begin, Go, schedVars
  <2> QED
    BY <2>1 DEF ScheduleInv, SlotInv, OwnJobInv
<1>6. CASE Check \/ Queue
  <2>1. SlotInv'
    BY <1>6 DEF Check, Queue, ScheduleInv, SlotInv
  <2>2. job' = job /\ (line = 1 => line' = 1)
    BY <1>6 DEF Check, Queue, ScheduleInv, SlotInv
  <2>3. OwnJobInv'
    BY <2>2 DEF ScheduleInv, OwnJobInv
  <2> QED
    BY <2>1, <2>3 DEF ScheduleInv
<1>7. CASE Kill
  <2>1. SlotInv'
    BY <1>7 DEF Kill, SlotInv
  <2>2. OwnJobInv'
    BY <1>0, <1>7 DEF Kill, OwnJobInv
  <2> QED
    BY <2>1, <2>2 DEF ScheduleInv
<1>8. ASSUME UNCHANGED <<pending, sched, line, job>>
      PROVE  ScheduleInv'
  BY <1>8 DEF ScheduleInv, SlotInv, OwnJobInv
<1>9. CASE Follow \/ UNCHANGED vars
  BY <1>8, <1>9 DEF Follow, vars, schedVars
<1>10. ASSUME NEW c \in Containers, Write(c)
       PROVE  ScheduleInv'
  BY <1>8, <1>10 DEF Write, schedVars
<1>11. ASSUME NEW v \in Volumes, ListByHand(v) \/ \E k \in Keys(v) : DeleteByHand(v, k)
       PROVE  ScheduleInv'
  BY <1>8, <1>11 DEF ListByHand, DeleteByHand, schedVars
<1> QED
  BY <1>3, <1>4, <1>5, <1>6, <1>7, <1>9, <1>10, <1>11 DEF Next

(* Scheduled backups never pile up, and a slot is skipped only for one     *)
(* that is queued or runs (backup_schedule.go, startScheduledBackup).      *)
THEOREM ScheduledAlwaysOnce == Spec => []ScheduledOnce
<1>1. Init => ScheduleInv
  BY DEF Init, ScheduleInv, SlotInv, OwnJobInv, IsJob, NoJob
<1>2. ScheduleInv => ScheduledOnce
  BY DEF ScheduleInv, SlotInv, ScheduledOnce
<1> QED
  BY <1>1, <1>2, ScheduleKept, PTL DEF Spec

-----------------------------------------------------------------------------
(* Retention against latest.json.  What somebody has decided to delete has *)
(* as many newer keys as retain_daily keeps, and has them for good: what is*)
(* deleted before it has as many itself, and uploads only add to them.     *)

Enough == IF RetainDaily > 0 THEN RetainDaily ELSE 1
Few(k, keys) == Cardinality(Newer(k, keys)) < Enough
IsKeys(keys) == IsFiniteSet(keys) /\ keys \subseteq Int

(* Named by latest.json, or about to be.                                   *)
Kept(o, v) == Few(o.at, Keys(v)) => o \in objects[v]

(* By the job's prune, or by the one by hand.                              *)
Doomed(v, k) == <<v, k>> \in hand \/ (pc = "delete" /\ job.vol = v /\ k \in job.left)

Backing == {"next", "upload", "verify", "manifest", "delete"}

BackupClaims(p, j) ==
  /\ IsJob(j)
  /\ j.todo \subseteq Volumes /\ j.prunes \subseteq Volumes
  /\ p # "next" => j.vol \in Volumes
  /\ p \in {"upload", "verify", "manifest"} => j.at \in Int

StoreShape ==
  /\ clock \in Nat
  /\ objects = [v \in Volumes |-> objects[v]]
  /\ manifest = [v \in Volumes |-> manifest[v]]
  /\ pc \in Backing => BackupClaims(pc, job)

KeysClaims ==
  /\ \A v \in Volumes : IsKeys(Keys(v))
  /\ \A v \in Volumes : manifest[v] # Nothing => manifest[v].at \in Int
  /\ \A v \in Volumes : \A k : Doomed(v, k) => k \in Int /\ ~Few(k, Keys(v))

LatestInv ==
  /\ StoreShape /\ KeysClaims
  /\ \A v \in Volumes : manifest[v] # Nothing => Kept(manifest[v], v)
  /\ pc = "manifest" => Kept([at |-> job.at, data |-> job.art], job.vol)

LEMMA NewerOk ==
    ASSUME NEW keys, IsKeys(keys), NEW k
    PROVE  /\ IsFiniteSet(Newer(k, keys)) /\ Cardinality(Newer(k, keys)) \in Nat
           /\ Enough \in Nat \ {0}
<1>1. Newer(k, keys) \in SUBSET keys
  BY DEF Newer
<1>2. IsFiniteSet(Newer(k, keys))
  BY <1>1, FS_Subset DEF IsKeys
<1> QED
  BY <1>2, FS_CardinalityType, RetentionAssumption DEF Enough

(* The more newer keys, the fewer reasons to keep one.                     *)
LEMMA NewerCounts ==
    ASSUME NEW K, NEW L, IsKeys(K), IsKeys(L), NEW j, NEW k, Newer(j, K) \subseteq Newer(k, L), ~Few(j, K)
    PROVE  ~Few(k, L)
<1>1. Cardinality(Newer(j, K)) <= Cardinality(Newer(k, L))
  BY NewerOk, FS_Subset
<1> QED
  BY <1>1, NewerOk DEF Few

LEMMA MoreKeys ==
    ASSUME NEW K, NEW L, IsKeys(K), IsKeys(L), K \subseteq L, NEW k, ~Few(k, K)
    PROVE  ~Few(k, L)
<1>1. Newer(k, K) \subseteq Newer(k, L)
  BY DEF Newer
<1> QED
  BY <1>1, NewerCounts

LEMMA FewerKeys ==
    ASSUME NEW K, IsKeys(K), NEW d \in Int, ~Few(d, K)
    PROVE  /\ IsKeys(K \ {d})
           /\ \A j \in Int : ~Few(j, K) => ~Few(j, K \ {d})
<1>1. IsKeys(K \ {d})
  BY FS_RemoveElement DEF IsKeys
<1>2. ASSUME NEW j \in Int, ~Few(j, K)
      PROVE  ~Few(j, K \ {d})
  <2>1. CASE d > j
    <3>1. Newer(d, K) \subseteq Newer(j, K \ {d})
      <4>1. ASSUME NEW x \in K, x > d
            PROVE  x > j /\ x # d
        <5>1. x \in Int
          BY DEF IsKeys
        <5> QED
          BY <2>1, <4>1, <5>1
      <4> QED
        BY <4>1 DEF Newer
    <3> QED
      BY <1>1, <3>1, NewerCounts
  <2>2. CASE ~(d > j)
    <3>1. Newer(j, K) \subseteq Newer(j, K \ {d})
      BY <2>2 DEF Newer, IsKeys
    <3> QED
      BY <1>1, <1>2, <3>1, NewerCounts
  <2> QED
    BY <2>1, <2>2
<1> QED
  BY <1>1, <1>2

(* What a prune deletes has enough newer keys in the listing it was made   *)
(* of.                                                                     *)
LEMMA PrunedHaveNewer ==
    ASSUME NEW K, IsKeys(K), NEW now, NEW k \in Pruned(K, now)
    PROVE  k \in Int /\ ~Few(k, K)
<1>1. k \in K /\ k \notin KeptNewest(K) /\ k \notin KeptDaily(K)
  BY DEF Pruned
<1>2. Newer(k, K) # {} /\ ~(Cardinality(Newer(k, K)) < RetainDaily)
  BY <1>1 DEF KeptNewest, KeptDaily
<1>3. Cardinality(Newer(k, K)) # 0
  BY <1>2, NewerOk, FS_EmptySet
<1>4. Cardinality(Newer(k, K)) \in Nat
  BY NewerOk
<1>5. ~(Cardinality(Newer(k, K)) < Enough)
  BY <1>2, <1>3, <1>4, RetentionAssumption DEF Enough
<1> QED
  BY <1>1, <1>5 DEF IsKeys, Few

(* A step that leaves the store as it is.                                  *)
LEMMA StoreStays ==
    ASSUME LatestInv, UNCHANGED <<objects, manifest, hand>>, clock' \in Nat,
           pc' \in Backing => BackupClaims(pc', job'),
           pc' = "manifest" => Kept([at |-> job'.at, data |-> job'.art], job'.vol),
           pc' = "delete" => \A k \in job'.left : Doomed(job'.vol, k) \/ (k \in Int /\ ~Few(k, Keys(job'.vol)))
    PROVE  LatestInv'
<1>1. StoreShape'
  BY DEF LatestInv, StoreShape
<1>2. \A v : Keys(v)' = Keys(v)
  BY DEF Keys
<1>3. KeysClaims'
  <2>1. ASSUME NEW v \in Volumes, NEW k, Doomed(v, k)'
        PROVE  k \in Int /\ ~Few(k, Keys(v))
    BY <2>1 DEF LatestInv, KeysClaims, Doomed
  <2> QED
    BY <1>2, <2>1 DEF LatestInv, KeysClaims
<1>4. \A o, v : Kept(o, v) => Kept(o, v)'
  BY <1>2 DEF Kept
<1> QED
  BY <1>1, <1>3, <1>4 DEF LatestInv

(* An object is stored beside the others.                                  *)
LEMMA StoreGrows ==
    ASSUME LatestInv, NEW v \in Volumes, NEW o, o.at \in Int,
           objects' = [objects EXCEPT ![v] = @ \cup {o}],
           UNCHANGED <<manifest, hand, clock>>,
           pc' \in Backing => BackupClaims(pc', job'),
           pc' \notin {"manifest", "delete"}
    PROVE  LatestInv'
<1>1. /\ objects'[v] = objects[v] \cup {o}
      /\ \A w \in Volumes : w # v => objects'[w] = objects[w]
      /\ objects' = [w \in Volumes |-> objects'[w]]
  BY DEF LatestInv, StoreShape
<1>2. StoreShape'
  BY <1>1 DEF LatestInv, StoreShape
<1>3. ASSUME NEW w \in Volumes
      PROVE  IsKeys(Keys(w)) /\ IsKeys(Keys(w)') /\ Keys(w) \subseteq Keys(w)' /\ objects[w] \subseteq objects'[w]
  <2>1. IsKeys(Keys(w))
    BY DEF LatestInv, KeysClaims
  <2>2. Keys(w)' = Keys(w) \/ Keys(w)' = Keys(w) \cup {o.at}
    BY <1>1 DEF Keys
  <2>3. IsKeys(Keys(w) \cup {o.at})
    BY <2>1, FS_AddElement DEF IsKeys
  <2>4. objects[w] \subseteq objects'[w]
    BY <1>1
  <2> QED
    BY <2>1, <2>2, <2>3, <2>4
<1>4. ASSUME NEW w \in Volumes, NEW k, ~Few(k, Keys(w))
      PROVE  ~Few(k, Keys(w))'
  BY <1>3, <1>4, MoreKeys
<1>5. KeysClaims'
  <2>1. ASSUME NEW w \in Volumes, NEW k, Doomed(w, k)'
        PROVE  k \in Int /\ ~Few(k, Keys(w))
    BY <2>1 DEF LatestInv, KeysClaims, Doomed
  <2> QED
    BY <1>3, <1>4, <2>1 DEF LatestInv, KeysClaims
<1>6. \A w \in Volumes : manifest[w] # Nothing => Kept(manifest[w], w)'
  BY <1>3, <1>4 DEF LatestInv, Kept
<1> QED
  BY <1>2, <1>5, <1>6 DEF LatestInv

(* One that was chosen for it is deleted.                                  *)
LEMMA StoreShrinks ==
    ASSUME LatestInv, NEW v \in Volumes, NEW d, Doomed(v, d),
           objects' = [objects EXCEPT ![v] = {o \in @ : o.at # d}],
           UNCHANGED <<manifest, clock>>, hand' \subseteq hand,
           pc' \in Backing => BackupClaims(pc', job'),
           pc' = "manifest" => UNCHANGED <<pc, job>>,
           pc' = "delete" => pc = "delete" /\ job'.vol = job.vol /\ job'.left \subseteq job.left
    PROVE  LatestInv'
<1>1. /\ objects'[v] = {o \in objects[v] : o.at # d}
      /\ \A w \in Volumes : w # v => objects'[w] = objects[w]
      /\ objects' = [w \in Volumes |-> objects'[w]]
  BY DEF LatestInv, StoreShape
<1>2. StoreShape'
  BY <1>1 DEF LatestInv, StoreShape
<1>3. d \in Int /\ ~Few(d, Keys(v)) /\ \A w \in Volumes : IsKeys(Keys(w))
  BY DEF LatestInv, KeysClaims
<1>4. Keys(v)' = Keys(v) \ {d} /\ \A w \in Volumes : w # v => Keys(w)' = Keys(w)
  BY <1>1 DEF Keys
<1>5. ASSUME NEW w \in Volumes
      PROVE  IsKeys(Keys(w)') /\ \A k \in Int : ~Few(k, Keys(w)) => ~Few(k, Keys(w)')
  <2>1. CASE w = v
    BY <1>3, <1>4, <2>1, FewerKeys
  <2>2. CASE w # v
    BY <1>3, <1>4, <2>2
  <2> QED
    BY <2>1, <2>2
<1>6. KeysClaims'
  <2>1. ASSUME NEW w \in Volumes, NEW k, Doomed(w, k)'
        PROVE  k \in Int /\ ~Few(k, Keys(w))
    BY <2>1 DEF LatestInv, KeysClaims, Doomed
  <2>2. \A w \in Volumes : \A k \in Int : ~Few(k, Keys(w)) => ~Few(k, Keys(w))'
    BY <1>5
  <2>3. \A w \in Volumes : IsKeys(Keys(w))'
    BY <1>5
  <2> QED
    BY <2>1, <2>2, <2>3 DEF LatestInv, KeysClaims
<1>7. ASSUME NEW w \in Volumes, NEW o, o.at \in Int, Kept(o, w)
      PROVE  Kept(o, w)'
  <2> SUFFICES ASSUME Few(o.at, Keys(w)')
               PROVE  o \in objects'[w]
    BY DEF Kept
  <2>1. Few(o.at, Keys(w)) /\ o \in objects[w]
    BY <1>5, <1>7 DEF Kept
  <2>2. w = v => o.at # d
    BY <1>3, <2>1
  <2> QED
    BY <1>1, <2>1, <2>2
<1>8. \A w \in Volumes : manifest[w] # Nothing => Kept(manifest[w], w)'
  BY <1>7 DEF LatestInv, KeysClaims
<1>9. pc' = "manifest" => Kept([at |-> job.at, data |-> job.art], job.vol)'
  <2> SUFFICES ASSUME pc' = "manifest"
               PROVE  Kept([at |-> job.at, data |-> job.art], job.vol)'
    OBVIOUS
  <2>1. UNCHANGED <<pc, job>> /\ pc = "manifest" /\ job.vol \in Volumes /\ job.at \in Int
    BY DEF LatestInv, StoreShape, BackupClaims, Backing
  <2>2. PICK o, w : o = [at |-> job.at, data |-> job.art] /\ w = job.vol
    OBVIOUS
  <2>3. Kept(o, w) /\ o.at \in Int /\ w \in Volumes
    BY <2>1, <2>2 DEF LatestInv
  <2>4. Kept(o, w)'
    BY <1>7, <2>3
  <2> QED
    BY <2>1, <2>2, <2>4 DEF Kept, Keys
<1> QED
  BY <1>2, <1>6, <1>8, <1>9 DEF LatestInv

-----------------------------------------------------------------------------
LEMMA EndsBacking == ASSUME End PROVE pc' \notin Backing
  BY DEF End, Backing

(* The job goes on with something changed.                                 *)
LEMMA HasBackedUp ==
    ASSUME NEW j, IsJob(j), NEW a, NEW k, k = [j EXCEPT !.todo = a]
    PROVE  IsJob(k) /\ k.todo = a /\ k.prunes = j.prunes
  BY DEF IsJob

LEMMA HasDeleted ==
    ASSUME NEW j, IsJob(j), NEW a, NEW k, k = [j EXCEPT !.left = a]
    PROVE  IsJob(k) /\ k.todo = j.todo /\ k.prunes = j.prunes /\ k.vol = j.vol /\ k.left = a
  BY DEF IsJob

LEMMA BeginsToBack ==
    ASSUME NEW vs, vs \subseteq Volumes, NEW ps, ps \subseteq Volumes,
           \/ job' = [NoJob EXCEPT !.todo = vs, !.prunes = ps]
           \/ job' = [NoJob EXCEPT !.todo = vs, !.prunes = ps, !.scheduled = TRUE]
    PROVE  BackupClaims("next", job')
  BY DEF NoJob, IsJob, BackupClaims

LEMMA BackupKeeps ==
    ASSUME LatestInv, Snapshot \/ Upload \/ Verify \/ WriteManifest \/ List \/ DeleteObject
    PROVE  LatestInv'
<1>0. /\ pc \in Backing /\ BackupClaims(pc, job) /\ clock \in Nat /\ UNCHANGED hand
  BY DEF LatestInv, StoreShape, Backing, Snapshot, Upload, Verify, WriteManifest, List, DeleteObject
<1>1. ASSUME End, UNCHANGED <<objects, manifest, clock>>
      PROVE  LatestInv'
  BY <1>0, <1>1, EndsBacking, StoreStays DEF Backing
<1>2. CASE Snapshot
  <2>1. UNCHANGED <<objects, manifest>>
    BY <1>2 DEF Snapshot, storeVars
  <2>2. ASSUME NEW v \in job.todo, clock' = clock + 1,
               Go("upload", [job EXCEPT !.vol = v, !.at = clock + 1, !.art = data[v]])
        PROVE  LatestInv'
    <3>1. pc' = "upload" /\ job' = [job EXCEPT !.vol = v, !.at = clock + 1, !.art = data[v]]
      BY <2>2 DEF Go
    <3>2. PICK a, b : a = clock + 1 /\ job' = [job EXCEPT !.vol = v, !.at = a, !.art = b]
      BY <3>1
    <3>3. IsJob(job') /\ job'.todo = job.todo /\ job'.prunes = job.prunes /\ job'.vol = v /\ job'.at = a
      BY <1>0, <3>2 DEF IsJob, BackupClaims
    <3>4. BackupClaims("upload", job')
      BY <1>0, <3>2, <3>3 DEF BackupClaims
    <3> QED
      BY <1>0, <2>1, <2>2, <3>1, <3>4, StoreStays
  <2> QED
    BY <1>1, <1>2, <2>1, <2>2 DEF Snapshot
<1>3. CASE Upload
  <2>1. pc = "upload" /\ job.vol \in Volumes /\ job.at \in Int /\ UNCHANGED <<manifest, clock>>
    BY <1>0, <1>3 DEF Upload, BackupClaims
  <2>2. End \/ (pc' = "verify" /\ job' = job)
    BY <1>3 DEF Upload, Go
  <2>3. pc' \notin {"manifest", "delete"} /\ (pc' \in Backing => BackupClaims(pc', job'))
    BY <1>0, <2>1, <2>2, EndsBacking DEF BackupClaims, Backing
  <2>4. CASE UNCHANGED objects
    BY <1>0, <2>1, <2>3, <2>4, StoreStays
  <2>5. ASSUME NEW stored, objects' = [objects EXCEPT ![job.vol] = @ \cup {[at |-> job.at, data |-> stored]}]
        PROVE  LatestInv'
    <3> DEFINE o == [at |-> job.at, data |-> stored]
    <3>1. o.at \in Int
      BY <2>1
    <3> HIDE DEF o
    <3>2. objects' = [objects EXCEPT ![job.vol] = @ \cup {o}]
      BY <2>5 DEF o
    <3> QED
      BY <1>0, <2>1, <2>3, <3>1, <3>2, StoreGrows
  <2> QED
    BY <1>3, <2>4, <2>5 DEF Upload
<1>4. CASE Verify
  <2>1. pc = "verify" /\ UNCHANGED <<objects, manifest, clock>>
    BY <1>4 DEF Verify, storeVars
  <2>2. CASE [at |-> job.at, data |-> job.art] \in objects[job.vol] /\ Go("manifest", job)
    <3>1. pc' = "manifest" /\ job' = job /\ BackupClaims("manifest", job)
      BY <1>0, <2>1, <2>2 DEF Go, BackupClaims
    <3>2. Kept([at |-> job.at, data |-> job.art], job.vol)
      BY <2>2 DEF Kept
    <3> QED
      BY <1>0, <2>1, <3>1, <3>2, StoreStays
  <2> QED
    BY <1>1, <1>4, <2>1, <2>2 DEF Verify
<1>5. CASE WriteManifest
  <2>1. pc = "manifest" /\ job.vol \in Volumes /\ job.at \in Int /\ UNCHANGED <<objects, clock>>
    BY <1>0, <1>5 DEF WriteManifest, BackupClaims
  <2>2. End \/ (pc' = "next" /\ job' = [job EXCEPT !.todo = @ \ {job.vol}])
    BY <1>5 DEF WriteManifest, Go
  <2>3. pc' \notin {"manifest", "delete"} /\ (pc' \in Backing => BackupClaims(pc', job'))
    <3>1. CASE End
      BY <3>1, EndsBacking DEF Backing
    <3>2. CASE pc' = "next" /\ job' = [job EXCEPT !.todo = @ \ {job.vol}]
      <4>1. BackupClaims("next", job')
        <5>1. IsJob(job') /\ job'.todo = job.todo \ {job.vol} /\ job'.prunes = job.prunes
          BY <1>0, <3>2, HasBackedUp DEF BackupClaims
        <5> QED
          BY <1>0, <5>1 DEF BackupClaims
      <4> QED
        BY <3>2, <4>1
    <3> QED
      BY <2>2, <3>1, <3>2
  <2>4. CASE UNCHANGED manifest
    BY <1>0, <2>1, <2>3, <2>4, StoreStays
  <2>5. CASE manifest' = [manifest EXCEPT ![job.vol] = [at |-> job.at, data |-> job.art]]
    <3>1. PICK o, w : o = [at |-> job.at, data |-> job.art] /\ w = job.vol
      OBVIOUS
    <3>2. o.at \in Int /\ w \in Volumes /\ Kept(o, w)
      BY <2>1, <3>1 DEF LatestInv
    <3>3. manifest' = [manifest EXCEPT ![w] = o]
      BY <2>5, <3>1
    <3>4. \A v \in Volumes : manifest'[v] = IF v = w THEN o ELSE manifest[v]
      BY <3>2, <3>3 DEF LatestInv, StoreShape
    <3>5. \A x, v : Kept(x, v) => Kept(x, v)'
      BY <2>1 DEF Kept, Keys
    <3>6. StoreShape'
      <4>1. manifest' = [v \in Volumes |-> manifest'[v]]
        BY <3>2, <3>3 DEF LatestInv, StoreShape
      <4> QED
        BY <2>1, <2>3, <4>1 DEF LatestInv, StoreShape
    <3>7. KeysClaims'
      <4>1. \A v : Keys(v)' = Keys(v)
        BY <2>1 DEF Keys
      <4>2. ASSUME NEW v \in Volumes, NEW k, Doomed(v, k)'
            PROVE  k \in Int /\ ~Few(k, Keys(v))
        BY <1>0, <2>3, <4>2 DEF LatestInv, KeysClaims, Doomed
      <4>3. \A v \in Volumes : manifest'[v] # Nothing => manifest'[v].at \in Int
        BY <3>2, <3>4 DEF LatestInv, KeysClaims
      <4> QED
        BY <4>1, <4>2, <4>3 DEF LatestInv, KeysClaims
    <3>8. \A v \in Volumes : manifest'[v] # Nothing => Kept(manifest'[v], v)
      BY <3>2, <3>4 DEF LatestInv
    <3>9. \A v \in Volumes : manifest'[v] # Nothing => Kept(manifest[v], v)'
      BY <3>5, <3>8 DEF Kept
    <3> QED
      BY <2>3, <3>6, <3>7, <3>9 DEF LatestInv
  <2> QED
    BY <1>5, <2>4, <2>5 DEF WriteManifest
<1>6. CASE List
  <2>1. UNCHANGED <<objects, manifest, clock>>
    BY <1>6 DEF List, storeVars
  <2>2. ASSUME NEW v \in job.prunes,
               Go("delete", [job EXCEPT !.vol = v, !.prunes = @ \ {v}, !.left = Pruned(Keys(v), clock)])
        PROVE  LatestInv'
    <3>1. v \in Volumes
      BY <1>0 DEF BackupClaims
    <3>2. pc' = "delete" /\ BackupClaims("delete", job') /\ job'.vol = v /\ job'.left = Pruned(Keys(v), clock)
      <4>1. pc' = "delete" /\ job' = [job EXCEPT !.vol = v, !.prunes = job.prunes \ {v}, !.left = Pruned(Keys(v), clock)]
        BY <2>2 DEF Go
      <4>2. PICK a, b : /\ a = job.prunes \ {v} /\ b = Pruned(Keys(v), clock)
                        /\ job' = [job EXCEPT !.vol = v, !.prunes = a, !.left = b]
        BY <4>1
      <4>3. IsJob(job') /\ job'.todo = job.todo /\ job'.prunes = a /\ job'.vol = v /\ job'.left = b
        BY <1>0, <4>2 DEF IsJob, BackupClaims
      <4> QED
        BY <1>0, <3>1, <4>1, <4>2, <4>3 DEF BackupClaims
    <3>3. \A k \in job'.left : k \in Int /\ ~Few(k, Keys(job'.vol))
      BY <3>1, <3>2, PrunedHaveNewer DEF LatestInv, KeysClaims
    <3> QED
      BY <1>0, <2>1, <3>2, <3>3, StoreStays
  <2> QED
    BY <1>1, <1>6, <2>1, <2>2 DEF List
<1>7. CASE DeleteObject
  <2>1. pc = "delete" /\ job.vol \in Volumes /\ UNCHANGED <<manifest, clock>>
    BY <1>0, <1>7 DEF DeleteObject, BackupClaims
  <2>2. CASE Go("next", job) /\ UNCHANGED objects
    <3>1. pc' = "next" /\ BackupClaims("next", job')
      BY <1>0, <2>2 DEF Go, BackupClaims
    <3> QED
      BY <1>0, <2>1, <2>2, <3>1, StoreStays
  <2>3. ASSUME NEW k \in job.left,
               \/ End \/ Go("delete", [job EXCEPT !.left = @ \ {k}])
        PROVE  /\ pc' \in Backing => BackupClaims(pc', job')
               /\ pc' # "manifest"
               /\ pc' = "delete" => job'.vol = job.vol /\ job'.left \subseteq job.left
    <3>1. CASE End
      BY <3>1, EndsBacking DEF Backing
    <3>2. CASE Go("delete", [job EXCEPT !.left = @ \ {k}])
      <4>1. pc' = "delete" /\ job' = [job EXCEPT !.left = job.left \ {k}]
        BY <3>2 DEF Go
      <4>2. BackupClaims("delete", job') /\ job'.vol = job.vol /\ job'.left = job.left \ {k}
        <5>1. /\ IsJob(job') /\ job'.todo = job.todo /\ job'.prunes = job.prunes
              /\ job'.vol = job.vol /\ job'.left = job.left \ {k}
          BY <1>0, <4>1, HasDeleted DEF BackupClaims
        <5> QED
          BY <1>0, <2>1, <5>1 DEF BackupClaims
      <4> QED
        BY <4>1, <4>2
    <3> QED
      BY <2>3, <3>1, <3>2
  <2>4. ASSUME NEW k \in job.left, UNCHANGED objects, End \/ Go("delete", [job EXCEPT !.left = @ \ {k}])
        PROVE  LatestInv'
    BY <1>0, <2>1, <2>3, <2>4, StoreStays DEF Doomed
  <2>5. ASSUME NEW k \in job.left, objects' = [objects EXCEPT ![job.vol] = {o \in @ : o.at # k}],
               End \/ Go("delete", [job EXCEPT !.left = @ \ {k}])
        PROVE  LatestInv'
    <3>1. Doomed(job.vol, k)
      BY <2>1 DEF Doomed
    <3> QED
      BY <1>0, <2>1, <2>3, <2>5, <3>1, StoreShrinks
  <2> QED
    BY <1>7, <2>2, <2>4, <2>5 DEF DeleteObject
<1> QED
  BY <1>2, <1>3, <1>4, <1>5, <1>6, <1>7

LEMMA ByHandKeeps ==
    ASSUME LatestInv, NEW v \in Volumes, ListByHand(v) \/ \E k \in Keys(v) : DeleteByHand(v, k)
    PROVE  LatestInv'
<1>0. UNCHANGED <<manifest, pc, job, clock>>
  BY DEF ListByHand, DeleteByHand, storeVars
<1>1. pc' \in Backing => BackupClaims(pc', job')
  BY <1>0 DEF LatestInv, StoreShape
<1>2. ASSUME UNCHANGED objects,
             \A w \in Volumes : \A k : <<w, k>> \in hand' => k \in Int /\ ~Few(k, Keys(w))
      PROVE  LatestInv'
  <2>1. StoreShape'
    BY <1>0, <1>2 DEF LatestInv, StoreShape
  <2>2. \A w : Keys(w)' = Keys(w)
    BY <1>2 DEF Keys
  <2>3. ASSUME NEW w \in Volumes, NEW k, Doomed(w, k)'
        PROVE  k \in Int /\ ~Few(k, Keys(w))
    BY <1>0, <1>2, <2>3 DEF LatestInv, KeysClaims, Doomed
  <2>4. KeysClaims'
    BY <1>0, <2>2, <2>3 DEF LatestInv, KeysClaims
  <2>5. \A o, w : Kept(o, w) => Kept(o, w)'
    BY <1>2, <2>2 DEF Kept
  <2> QED
    BY <1>0, <2>1, <2>4, <2>5 DEF LatestInv
<1>3. CASE ListByHand(v)
  <2>1. hand' = {v} \X Pruned(Keys(v), clock) /\ UNCHANGED objects
    BY <1>3 DEF ListByHand, storeVars
  <2>2. \A k \in Pruned(Keys(v), clock) : k \in Int /\ ~Few(k, Keys(v))
    BY PrunedHaveNewer DEF LatestInv, KeysClaims
  <2> QED
    BY <1>2, <2>1, <2>2
<1>4. ASSUME NEW k, DeleteByHand(v, k)
      PROVE  LatestInv'
  <2>1. CASE objects' = [objects EXCEPT ![v] = {o \in @ : o.at # k}] /\ hand' = hand \ {<<v, k>>}
    <3>1. Doomed(v, k)
      BY <1>4 DEF DeleteByHand, Doomed
    <3> QED
      BY <1>0, <1>1, <2>1, <3>1, StoreShrinks
  <2>2. CASE UNCHANGED objects /\ hand' = {}
    BY <1>2, <2>2
  <2> QED
    BY <1>4, <2>1, <2>2 DEF DeleteByHand
<1> QED
  BY <1>3, <1>4

(* Every step keeps what latest.json names.                                *)
LEMMA LatestKept == LatestInv /\ [Next]_vars => LatestInv'
<1> SUFFICES ASSUME LatestInv, [Next]_vars
             PROVE  LatestInv'
  OBVIOUS
<1>0. clock \in Nat /\ (pc \in Backing => BackupClaims(pc, job))
  BY DEF LatestInv, StoreShape
<1>1. ASSUME UNCHANGED <<objects, manifest, hand, clock>>, pc' \notin Backing
      PROVE  LatestInv'
  BY <1>0, <1>1, StoreStays DEF Backing
<1>2. ASSUME UNCHANGED <<objects, manifest, hand, clock, pc, job>>
      PROVE  LatestInv'
  <2>1. pc = "delete" => \A k \in job.left : Doomed(job.vol, k)
    BY DEF Doomed
  <2>2. pc = "manifest" => Kept([at |-> job.at, data |-> job.art], job.vol)
    BY DEF LatestInv
  <2> QED
    BY <1>0, <1>2, <2>1, <2>2, StoreStays
<1>3. CASE Snapshot \/ Upload \/ Verify \/ WriteManifest \/ List \/ DeleteObject
  BY <1>3, BackupKeeps
<1>4. CASE Resolve \/ Download \/ Depend \/ Stop \/ Copy \/ Remove \/ Import \/ StartAgain
  <2>1. UNCHANGED <<objects, manifest, hand, clock>>
    BY <1>4 DEF Resolve, Download, Depend, Stop, Copy, Remove, Import, StartAgain, storeVars
  <2>2. pc' \in {"idle", "resolve", "download", "deps", "stop", "copy", "remove", "import", "restart"}
    BY <1>4 DEF Resolve, Download, Depend, Stop, Copy, Remove, Import, StartAgain, End, Go, Restart
  <2> QED
    BY <1>1, <2>1, <2>2 DEF Backing
<1>5. ASSUME NEW v \in Volumes, ListByHand(v) \/ \E k \in Keys(v) : DeleteByHand(v, k)
      PROVE  LatestInv'
  BY <1>5, ByHandKeeps
<1>6. ASSUME NEW vs \in {Volumes} \cup {{v} : v \in Volumes}, NEW prune, AskBackup(vs, prune)
      PROVE  LatestInv'
  <2>1. pc' = "next" /\ BackupClaims("next", job') /\ UNCHANGED <<objects, manifest, hand, clock>>
    BY <1>6, BeginsToBack DEF AskBackup, Go, storeVars
  <2> QED
    BY <1>0, <2>1, StoreStays
<1>7. CASE Begin
  <2>1. pc' = "next" /\ BackupClaims("next", job') /\ UNCHANGED <<objects, manifest, hand, clock>>
    BY <1>7, BeginsToBack DEF Begin, Go, storeVars
  <2> QED
    BY <1>0, <2>1, StoreStays
<1>8. ASSUME NEW v, NEW k, NEW drill, NEW force, AskRestore(v, k, drill, force)
      PROVE  LatestInv'
  BY <1>1, <1>8 DEF AskRestore, Go, storeVars, Backing
<1>9. CASE Kill
  BY <1>1, <1>9 DEF Kill, storeVars, Backing
<1>10. ASSUME NEW c, Write(c)
       PROVE  LatestInv'
  BY <1>2, <1>10 DEF Write, storeVars
<1>11. CASE Follow \/ Check \/ Queue \/ UNCHANGED vars
  BY <1>2, <1>11 DEF Follow, Check, Queue, vars, storeVars
<1> QED
  BY <1>3, <1>4, <1>5, <1>6, <1>7, <1>8, <1>9, <1>10, <1>11 DEF Next, JobStep, Ask

(* What latest.json names is there to restore, as long as fewer backups    *)
(* failed after their upload than retain_daily keeps: whatever the job's   *)
(* prune and one by hand delete meanwhile (manager.go, Prune).             *)
THEOREM LatestAlwaysRestorable == Spec => []LatestRestorable
<1>1. Init => LatestInv
  <2> SUFFICES ASSUME Init
               PROVE  LatestInv
    OBVIOUS
  <2>1. \A v \in Volumes : objects[v] = {} /\ manifest[v] = Nothing
    BY DEF Init
  <2>2. \A v \in Volumes : Keys(v) = {}
    BY <2>1 DEF Keys
  <2>3. IsKeys({})
    BY FS_EmptySet DEF IsKeys
  <2>4. KeysClaims
    BY <2>1, <2>2, <2>3 DEF Init, KeysClaims, Doomed
  <2>5. StoreShape
    BY DEF Init, StoreShape, Backing
  <2> QED
    BY <2>1, <2>4, <2>5 DEF Init, LatestInv
<1>2. LatestInv => LatestRestorable
  BY DEF LatestInv, Kept, Few, Enough, LatestRestorable
<1> QED
  BY <1>1, <1>2, LatestKept, PTL DEF Spec
=============================================================================
