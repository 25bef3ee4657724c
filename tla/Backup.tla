------------------------------- MODULE Backup -------------------------------
(***************************************************************************)
(* Off-host backups of one host's volumes: pkg/backup/manager.go           *)
(* (CreateVolume, CreateVolumes, Restore, Prune, PruneAll), the job that   *)
(* runs them (backupSource and restoreSource in cmd/native-ops/serve.go),  *)
(* and the daemon's schedule of them (pkg/server/backup_schedule.go).      *)
(*                                                                         *)
(* One job has the host at a time.  Each command to Incus and each request *)
(* to the object store is one step; it may fail, and the job's thirty      *)
(* minutes may be over while it runs: then it may have taken effect, and   *)
(* every later command of the job fails.  The daemon may be killed between *)
(* any two steps.  Beside the jobs, services write to the volumes, and an  *)
(* operator may prune by hand on the host (native-ops backup prune).       *)
(*                                                                         *)
(* Data is a version number; an object holds the version its volume had    *)
(* when it was snapshotted, or is short (its upload was cut).  Not         *)
(* modelled: the local snapshots, another host's prefix in the bucket, and *)
(* a restore under a new name, beyond its touching nothing.                *)
(***************************************************************************)
EXTENDS Retention

CONSTANTS
  Volumes, Containers,
  Mounts,       \* the volume each container mounts
  Suspended,    \* containers that were stopped on purpose
  Legacy,       \* volumes with a backup in the layout without the host
  Gone, Short, Nothing,  \* no volume; a short artifact; no checksum or manifest
  MaxWrites, MaxRequests, MaxKills   \* bounds

ASSUME BackupAssumption ==
  /\ IsFiniteSet(Volumes) /\ IsFiniteSet(Containers)
  /\ Mounts \in [Containers -> Volumes]
  /\ Legacy \subseteq Volumes /\ Suspended \subseteq Containers
  /\ Gone \notin Nat /\ Short \notin Nat /\ Nothing \notin Nat
  /\ Gone # Short
  /\ MaxWrites \in Nat /\ MaxRequests \in Nat /\ MaxKills \in Nat

VARIABLES
  clock,     \* the time
  writes, requests, kills,  \* how much of the bounds is used
  data,      \* what each volume holds
  copies,    \* what its <volume>-pre-restore-<time> copies hold
  running,   \* the containers that run
  objects,   \* the volume's objects under this host's prefix
  manifest,  \* its latest.json
  pc,        \* where the job that has the host is
  job,       \* its parameters and locals
  hand,      \* the keys a prune by hand still has to delete
  schedule,  \* whether backup-schedule/fleet.yml is there
  checked,   \* backupSched.last is not zero
  pending,   \* backupSched.pending
  sched,     \* where startScheduledBackup is
  line,      \* scheduled backups that are queued or running
  tip,       \* history: the last version a service wrote to each volume
  down, late, \* history: what restores stopped and have not tried to start; one ran out of time
  cutoff     \* history: what a restore had stopped that the daemon died in

boundVars == <<writes, requests, kills>>
hostVars  == <<data, copies, running, tip, down, late, cutoff>>
storeVars == <<objects, manifest>>
schedVars == <<schedule, checked, pending, sched, line>>
vars == <<clock, boundVars, hostVars, storeVars, pc, job, hand, schedVars>>

Version == 0..MaxWrites
Steps == {"idle", "next", "upload", "verify", "manifest", "delete",
          "resolve", "download", "deps", "stop", "copy", "remove", "import", "restart"}

(* todo: volumes still to back up; prunes: volumes whose retention is      *)
(* still to be applied; vol, at, art: the volume, key and artifact in      *)
(* hand; left: keys to delete; stopped: what the restore has stopped and   *)
(* not yet tried to start again; expired: the job's thirty minutes are up. *)
NoJob == [todo |-> {}, prunes |-> {}, vol |-> Nothing, at |-> 0, art |-> Nothing, sha |-> Nothing,
          left |-> {}, stopped |-> {}, drill |-> FALSE, force |-> FALSE,
          expired |-> FALSE, scheduled |-> FALSE]

ReadManifest(v) ==
  IF manifest[v] # Nothing THEN manifest[v]
  ELSE IF v \in Legacy THEN [at |-> 0, data |-> 0] ELSE Nothing

(* The object of a key; the legacy one has key 0.                          *)
ObjectAt(v, k) == {o \in objects[v] : o.at = k}
                  \cup (IF v \in Legacy /\ k = 0 THEN {[at |-> 0, data |-> 0]} ELSE {})
Keys(v)        == {o.at : o \in objects[v]}
Dependents(v)  == {c \in Containers : Mounts[c] = v}

Init ==
  /\ clock = 1 /\ writes = 0 /\ requests = 0 /\ kills = 0
  /\ data = [v \in Volumes |-> 0] /\ tip = data
  /\ copies = [v \in Volumes |-> {}]
  /\ running = Containers \ Suspended /\ down = {} /\ late = FALSE /\ cutoff = {}
  /\ objects = [v \in Volumes |-> {}]
  /\ manifest = [v \in Volumes |-> Nothing]
  /\ pc = "idle" /\ job = NoJob /\ hand = {}
  /\ schedule = TRUE
  /\ checked = FALSE /\ pending = FALSE /\ sched = "idle" /\ line = 0
-----------------------------------------------------------------------------
(* The rest of the world.                                                  *)

(* A service writes to its volume.                                         *)
Write(c) ==
  /\ c \in running /\ data[Mounts[c]] # Gone /\ writes < MaxWrites
  /\ writes' = writes + 1
  /\ data' = [data EXCEPT ![Mounts[c]] = writes + 1]
  /\ tip' = [tip EXCEPT ![Mounts[c]] = writes + 1]
  /\ UNCHANGED <<clock, requests, kills, copies, running, down, late, cutoff, storeVars, pc, job, hand, schedVars>>

(* native-ops backup prune, on the host: it waits for no one.              *)
ListByHand(v) ==
  /\ hand = {}
  /\ hand' = {v} \X Pruned(Keys(v), clock)
  /\ UNCHANGED <<clock, boundVars, hostVars, storeVars, pc, job, schedVars>>

DeleteByHand(v, k) ==
  /\ <<v, k>> \in hand
  /\ \/ /\ objects' = [objects EXCEPT ![v] = {o \in @ : o.at # k}]
        /\ hand' = hand \ {<<v, k>>}
     \/ hand' = {} /\ UNCHANGED objects
  /\ UNCHANGED <<clock, boundVars, hostVars, manifest, pc, job, schedVars>>
-----------------------------------------------------------------------------
(* The job.  An outcome of a command: it worked, it failed and changed     *)
(* nothing, or it took effect and the job's time was up before it said so. *)
Outcomes == IF job.expired THEN {"failed"} ELSE {"ok", "failed", "cut"}
Later(j, out) == [j EXCEPT !.expired = @ \/ out = "cut"]

(* A job ends: its cleanup (for a scheduled one, done()) runs first.       *)
End ==
  /\ pc' = "idle" /\ job' = NoJob
  /\ IF job.scheduled THEN pending' = FALSE /\ line' = line - 1
     ELSE UNCHANGED <<pending, line>>
  /\ UNCHANGED <<schedule, checked, sched>>

Go(step, j) == pc' = step /\ job' = j /\ UNCHANGED schedVars

(* Back from a failure of the restore: what was stopped is started.        *)
Restart(j) == Go("restart", j)

AskBackup(vs, prune) ==
  /\ pc = "idle" /\ requests < MaxRequests
  /\ requests' = requests + 1
  /\ Go("next", [NoJob EXCEPT !.todo = vs, !.prunes = IF prune THEN vs ELSE {}])
  /\ UNCHANGED <<clock, writes, kills, hostVars, storeVars, hand>>

AskRestore(v, k, drill, force) ==
  /\ pc = "idle" /\ requests < MaxRequests
  /\ requests' = requests + 1
  /\ Go("resolve", [NoJob EXCEPT !.vol = v, !.at = k, !.drill = drill, !.force = force])
  /\ UNCHANGED <<clock, writes, kills, hostVars, storeVars, hand>>

(* CreateVolumes goes on to the next volume, CreateVolume begins with the  *)
(* snapshot, which is what the object will hold.  A backup takes longer    *)
(* than a second: the time in its key is its own.                          *)
Snapshot ==
  /\ pc = "next" /\ job.todo # {}
  /\ \E v \in job.todo, out \in Outcomes :
       \/ /\ out = "ok" /\ data[v] # Gone
          /\ clock' = clock + 1
          /\ Go("upload", [job EXCEPT !.vol = v, !.at = clock + 1, !.art = data[v]])
       \/ out # "ok" /\ End /\ UNCHANGED clock
  /\ UNCHANGED <<boundVars, hostVars, storeVars, hand>>

(* PutObject: it may fail having stored nothing, a part or the whole.      *)
Upload ==
  /\ pc = "upload"
  /\ \E out \in Outcomes, stored \in {job.art, Short, Nothing} :
       /\ out = "ok" => stored # Nothing
       /\ out = "failed" /\ job.expired => stored = Nothing
       /\ objects' = IF stored = Nothing THEN objects
                     ELSE [objects EXCEPT ![job.vol] = @ \cup {[at |-> job.at, data |-> stored]}]
       /\ IF out = "ok" THEN Go("verify", job) ELSE End
  /\ UNCHANGED <<clock, boundVars, hostVars, manifest, hand>>

(* HeadObject: the size is compared.                                       *)
Verify ==
  /\ pc = "verify"
  /\ \E out \in Outcomes :
       IF out = "ok" /\ [at |-> job.at, data |-> job.art] \in objects[job.vol]
       THEN Go("manifest", job) ELSE End
  /\ UNCHANGED <<clock, boundVars, hostVars, storeVars, hand>>

WriteManifest ==
  /\ pc = "manifest"
  /\ \E out \in Outcomes :
       /\ manifest' = IF out = "failed" THEN manifest
                      ELSE [manifest EXCEPT ![job.vol] = [at |-> job.at, data |-> job.art]]
       /\ IF out = "ok" THEN Go("next", [job EXCEPT !.todo = @ \ {job.vol}]) ELSE End
  /\ UNCHANGED <<clock, boundVars, hostVars, objects, hand>>

(* Every volume is backed up: retention, if it was asked for, one volume   *)
(* at a time, from a listing of the store.                                 *)
List ==
  /\ pc = "next" /\ job.todo = {}
  /\ IF job.prunes = {} THEN End
     ELSE \E v \in job.prunes, out \in Outcomes :
            IF out = "ok" THEN Go("delete", [job EXCEPT !.vol = v, !.prunes = @ \ {v}, !.left = Pruned(Keys(v), clock)])
            ELSE End
  /\ UNCHANGED <<clock, boundVars, hostVars, storeVars, hand>>

DeleteObject ==
  /\ pc = "delete"
  /\ IF job.left = {} THEN Go("next", job) /\ UNCHANGED objects
     ELSE \E k \in job.left, out \in Outcomes :
            /\ objects' = IF out = "failed" THEN objects
                          ELSE [objects EXCEPT ![job.vol] = {o \in @ : o.at # k}]
            /\ IF out = "ok" THEN Go("delete", [job EXCEPT !.left = @ \ {k}]) ELSE End
  /\ UNCHANGED <<clock, boundVars, hostVars, manifest, hand>>
-----------------------------------------------------------------------------
(* Restore.  "latest" is asked for as the key -1.                          *)

Resolve ==
  /\ pc = "resolve"
  /\ \E out \in Outcomes :
       LET m == ReadManifest(job.vol)
       IN  IF job.at = -1
           THEN IF out # "ok" \/ m = Nothing THEN End
                ELSE Go("download", [job EXCEPT !.at = m.at, !.sha = m.data])
           ELSE Go("download", Later([job EXCEPT !.sha = IF out = "ok" /\ m # Nothing /\ m.at = job.at
                                                         THEN m.data ELSE Nothing], out))
  /\ UNCHANGED <<clock, boundVars, hostVars, storeVars, hand>>

(* GetObject, and the checksum when one is known.  An import under a new   *)
(* name ends there: it touches none of these volumes and containers.       *)
Download ==
  /\ pc = "download"
  /\ \/ \E o \in ObjectAt(job.vol, job.at) :
          /\ ~job.expired
          /\ job.sha \in {Nothing, o.data}
          /\ IF job.drill THEN End ELSE Go("deps", [job EXCEPT !.art = o.data])
     \/ End
  /\ UNCHANGED <<clock, boundVars, hostVars, storeVars, hand>>

(* VolumeDependents: whoever mounts the volume, running or not.            *)
Depend ==
  /\ pc = "deps"
  /\ \E out \in Outcomes :
       IF out # "ok" \/ (Dependents(job.vol) # {} /\ ~job.force) THEN End ELSE Go("stop", job)
  /\ UNCHANGED <<clock, boundVars, hostVars, storeVars, hand>>

(* The other order, for a mutant: nobody is stopped before the copy.       *)
StopNobody ==
  /\ pc = "stop" /\ Go("copy", job)
  /\ UNCHANGED <<clock, boundVars, hostVars, storeVars, hand>>

Stop ==
  /\ pc = "stop"
  /\ IF Dependents(job.vol) \subseteq job.stopped THEN Go("copy", job) /\ UNCHANGED <<running, down, late>>
     ELSE \E c \in Dependents(job.vol) \ job.stopped, out \in Outcomes :
            /\ running' = IF out = "failed" THEN running ELSE running \ {c}
            /\ down' = IF out = "failed" \/ c \notin running THEN down ELSE down \cup {c}
            /\ late' = (late \/ out = "cut")
            /\ IF out = "ok" THEN Go("stop", [job EXCEPT !.stopped = @ \cup {c}])
               ELSE Restart(Later(job, out))
  /\ UNCHANGED <<clock, boundVars, data, copies, tip, cutoff, storeVars, hand>>

CopyThenEnd ==
  /\ pc = "copy"
  /\ \E out \in Outcomes :
       /\ out # "failed" => data[job.vol] # Gone
       /\ copies' = IF out = "failed" THEN copies ELSE [copies EXCEPT ![job.vol] = @ \cup {data[job.vol]}]
       /\ late' = (late \/ out = "cut")
       /\ IF out = "ok" THEN Go("remove", job) ELSE End
  /\ UNCHANGED <<clock, boundVars, data, running, tip, down, cutoff, storeVars, hand>>

(* DuplicateVolume, to <volume>-pre-restore-<time>.                        *)
Copy ==
  /\ pc = "copy"
  /\ \E out \in Outcomes :
       /\ out # "failed" => data[job.vol] # Gone
       /\ copies' = IF out = "failed" THEN copies ELSE [copies EXCEPT ![job.vol] = @ \cup {data[job.vol]}]
       /\ late' = (late \/ out = "cut")
       /\ IF out = "ok" THEN Go("remove", job) ELSE Restart(Later(job, out))
  /\ UNCHANGED <<clock, boundVars, data, running, tip, down, cutoff, storeVars, hand>>

Remove ==
  /\ pc = "remove"
  /\ \E out \in Outcomes :
       /\ data' = IF out = "failed" THEN data ELSE [data EXCEPT ![job.vol] = Gone]
       /\ late' = (late \/ out = "cut")
       /\ IF out = "ok" THEN Go("import", job) ELSE Restart(Later(job, out))
  /\ UNCHANGED <<clock, boundVars, copies, running, tip, down, cutoff, storeVars, hand>>

(* Incus does not import a short artifact.                                 *)
Import ==
  /\ pc = "import"
  /\ \E out \in Outcomes :
       /\ out # "failed" => job.art # Short
       /\ data' = IF out = "failed" THEN data ELSE [data EXCEPT ![job.vol] = job.art]
       /\ late' = (late \/ out = "cut")
       /\ Restart(Later(job, out))
  /\ UNCHANGED <<clock, boundVars, copies, running, tip, down, cutoff, storeVars, hand>>

(* The deferred starts, one container at a time; a failure is noted and    *)
(* the next one tried.  A container whose volume is gone does not start.   *)
StartAgain ==
  /\ pc = "restart"
  /\ IF job.stopped = {} THEN End /\ UNCHANGED <<running, down, late, cutoff>>
     ELSE \E c \in job.stopped, out \in Outcomes :
            /\ out # "failed" => data[job.vol] # Gone
            /\ running' = IF out = "failed" THEN running ELSE running \cup {c}
            /\ down' = IF job.expired THEN down ELSE down \ {c}
            /\ cutoff' = IF job.expired THEN cutoff ELSE cutoff \ {c}
            /\ late' = (late \/ out = "cut")
            /\ Go("restart", Later([job EXCEPT !.stopped = @ \ {c}], out))
  /\ UNCHANGED <<clock, boundVars, data, copies, tip, storeVars, hand>>
-----------------------------------------------------------------------------
(* The schedule.                                                           *)

(* followBackupSchedule, in a deploy: the file is written beside and       *)
(* renamed, or removed; a failure leaves it as it was.                     *)
Follow ==
  /\ pc = "idle" /\ requests < MaxRequests
  /\ requests' = requests + 1
  /\ schedule' \in BOOLEAN
  /\ UNCHANGED <<clock, writes, kills, hostVars, storeVars, pc, job, hand, checked, pending, sched, line>>

CheckUnasked ==
  /\ sched = "idle"
  /\ checked' = TRUE
  /\ \/ UNCHANGED <<requests, pending, sched>>
     \/ /\ checked /\ schedule /\ requests < MaxRequests
        /\ pending' = TRUE /\ sched' = "queue" /\ requests' = requests + 1
  /\ UNCHANGED <<clock, writes, kills, hostVars, storeVars, pc, job, hand, schedule, line>>

(* backupScheduleTick, and startScheduledBackup up to its first unlock.    *)
(* Whether one of the times fell since the last check is DueBetween's to   *)
(* say.  The first check only notes the time; so does one that cannot read *)
(* the schedule; one that finds the last run unfinished skips its slot.    *)
Check ==
  /\ sched = "idle"
  /\ checked' = TRUE
  /\ \/ UNCHANGED <<requests, pending, sched>>
     \/ /\ checked /\ schedule /\ ~pending /\ requests < MaxRequests
        /\ pending' = TRUE /\ sched' = "queue" /\ requests' = requests + 1
  /\ UNCHANGED <<clock, writes, kills, hostVars, storeVars, pc, job, hand, schedule, line>>

(* queueJob: the job is in line, or it could not be and done() runs.       *)
Queue ==
  /\ sched = "queue"
  /\ \/ sched' = "idle" /\ line' = line + 1 /\ UNCHANGED pending
     \/ sched' = "idle" /\ pending' = FALSE /\ UNCHANGED line
  /\ UNCHANGED <<clock, boundVars, hostVars, storeVars, pc, job, hand, schedule, checked>>

(* Its turn: every volume, then retention.                                 *)
Begin ==
  /\ pc = "idle" /\ line > 0
  /\ Go("next", [NoJob EXCEPT !.todo = Volumes, !.prunes = Volumes, !.scheduled = TRUE])
  /\ UNCHANGED <<clock, boundVars, hostVars, storeVars, hand>>

(* The daemon dies and starts again.  The job in hand is cut off: what it  *)
(* had stopped stays down, and nothing of the next daemon starts it.       *)
Kill ==
  /\ kills < MaxKills /\ kills' = kills + 1
  /\ pc' = "idle" /\ job' = NoJob /\ cutoff' = cutoff \cup job.stopped
  /\ checked' = FALSE /\ pending' = FALSE /\ sched' = "idle" /\ line' = 0
  /\ UNCHANGED <<clock, writes, requests, data, copies, running, tip, down, late, storeVars, hand, schedule>>

JobStep ==
  \/ Snapshot \/ Upload \/ Verify \/ WriteManifest \/ List \/ DeleteObject
  \/ Resolve \/ Download \/ Depend \/ Stop \/ Copy \/ Remove \/ Import \/ StartAgain

Ask ==
  \/ \E vs \in {Volumes} \cup {{v} : v \in Volumes}, prune \in BOOLEAN : AskBackup(vs, prune)
  \/ \E v \in Volumes, drill, force \in BOOLEAN :
       \E k \in {-1, 0} \cup Keys(v) : AskRestore(v, k, drill, force)

Next ==
  \/ (\E c \in Containers : Write(c))
  \/ (\E v \in Volumes : ListByHand(v) \/ \E k \in Keys(v) : DeleteByHand(v, k))
  \/ Ask \/ JobStep
  \/ Follow \/ Check \/ Queue \/ Begin \/ Kill

Spec == Init /\ [][Next]_vars
-----------------------------------------------------------------------------
TypeOK ==
  /\ clock \in Nat /\ writes \in 0..MaxWrites /\ requests \in Nat /\ kills \in Nat
  /\ data \in [Volumes -> Version \cup {Gone}] /\ tip \in [Volumes -> Version]
  /\ copies \in [Volumes -> SUBSET Version]
  /\ running \in SUBSET Containers /\ late \in BOOLEAN
  /\ down \in SUBSET Containers /\ cutoff \in SUBSET Containers
  /\ objects \in [Volumes -> SUBSET [at : Nat, data : Version \cup {Short}]]
  /\ manifest \in [Volumes -> [at : Nat, data : Version] \cup {Nothing}]
  /\ pc \in Steps
  /\ job \in [todo : SUBSET Volumes, prunes : SUBSET Volumes, vol : Volumes \cup {Nothing},
              at : Int, art : Version \cup {Short, Nothing}, sha : Version \cup {Nothing},
              left : SUBSET Nat, stopped : SUBSET Containers, drill : BOOLEAN, force : BOOLEAN,
              expired : BOOLEAN, scheduled : BOOLEAN]
  /\ hand \in SUBSET (Volumes \X Nat)
  /\ schedule \in BOOLEAN /\ checked \in BOOLEAN /\ pending \in BOOLEAN
  /\ sched \in {"idle", "queue"} /\ line \in Nat

(* The last thing a service wrote to its volume is in the volume or in a   *)
(* copy that a restore put aside, whatever failed and wherever the daemon  *)
(* died (Restore, "always leave a recovery point behind").                 *)
NewestDataKept == \A v \in Volumes : tip[v] \in {data[v]} \cup copies[v]

(* latest.json names an object that is there and is what it says, as long  *)
(* as fewer backups than retain_daily failed after their upload since it   *)
(* was written: over prunes of the job, of an operator on the host, and    *)
(* their interleaving with the uploads (Prune, CreateVolume).              *)
LatestRestorable ==
  \A v \in Volumes :
    /\ manifest[v] # Nothing
    /\ Cardinality(Newer(manifest[v].at, Keys(v))) < (IF RetainDaily > 0 THEN RetainDaily ELSE 1)
    => manifest[v] \in objects[v]

(* Once a restore is over, the containers it stopped have been started, or *)
(* starting them was tried and failed (docs/daemon.md: it "always starts   *)
(* the containers again"): unless its time ran out (late), and but for the *)
(* ones a restore had stopped that the daemon died in (cutoff), for which  *)
(* the code does nothing.  Both fall short of what the document says.      *)
StartedAgain == pc = "idle" /\ ~late => down \subseteq cutoff

(* Scheduled backups never pile up, and a slot is skipped for one that is  *)
(* really queued or running (startScheduledBackup).                        *)
ScheduledOnce == line <= 1 /\ (pending => sched = "queue" \/ line = 1)
=============================================================================
