----------------------------- MODULE Migration -----------------------------
(***************************************************************************)
(* Moving an instance and its volumes between hosts: Migrate and Finalize  *)
(* (pkg/engine/migration.go), what a daemon does around them               *)
(* (pkg/engine/instance_migrate.go: Migrate, FinalizeMigration, Adopt) and *)
(* its requests for them (pkg/server/migrate.go).                          *)
(*                                                                         *)
(* Every daemon runs one job at a time and changes, through Incus, its own *)
(* host and the one it copies to.  Each command is a step: it works, it    *)
(* fails, or it outlasts the job's thirty minutes; then it may have taken  *)
(* effect and every later command of the job fails.  A copy that fails may *)
(* leave a part of a volume.  A daemon may be killed between any two       *)
(* steps, and an instance may stop by itself.  Requests come from a fleet  *)
(* manager that may repeat any of them at any time, one after the other;   *)
(* with Overlap, also while another host's daemon is at work.              *)
(*                                                                         *)
(* Data is a version number.  A service writes when requests reach it:     *)
(* what a copy on trial writes before it is adopted is not counted.  The   *)
(* reads of one check are one step.  Not modelled: an instance that mounts *)
(* host paths or whose profiles the target lacks (refused), and the names  *)
(* of volumes and snapshots.                                               *)
(***************************************************************************)
EXTENDS Integers, FiniteSets

CONSTANTS
  Hosts, Home,         \* where the instance begins
  Volumes,
  None, Torn,          \* no host or volume; a part of one
  Overlap,
  MaxWrites, MaxRequests, MaxKills, MaxDeaths   \* bounds

ASSUME MigrationAssumption ==
  /\ Home \in Hosts /\ None \notin Hosts
  /\ None \notin Nat /\ Torn \notin Nat /\ None # Torn
  /\ Overlap \in BOOLEAN
  /\ MaxWrites \in Nat /\ MaxRequests \in Nat /\ MaxKills \in Nat /\ MaxDeaths \in Nat

VARIABLES
  status,  \* of the instance on each host
  mark,    \* user.native-ops.migrated-to of the copy there
  route,   \* whether the host's edge has its route
  vol,     \* what the host's volumes of it hold
  pc, job, \* each daemon's job
  writes, requests, kills, deaths,
  tip,     \* history: what was last written to each volume
  down,    \* history: hosts whose migration stopped the source and has not made up for it
  late,    \* history: a job ran out of time after that
  twice,   \* history: a target could not be stopped in a rollback
  over     \* history: a copy was resumed onto one that held better data

instVars  == <<status, mark>>
bounds    == <<writes, requests, kills, deaths>>
history   == <<tip, down, late, twice, over>>
vars == <<instVars, route, vol, pc, job, bounds, history>>

Version == 0..MaxWrites
Steps == {"idle", "preflight", "snapshot", "copy", "stop", "verify", "start", "health",
          "undo", "restart", "mark", "unroute",
          "clear", "check", "delete", "purge", "adopt", "unmark", "publish"}

(* to: the other host.  was: the source ran.  left: volumes still to copy, *)
(* or to delete.  there: what the target has of it, the instance as None.  *)
(* warm: in the copy made while the source serves.                         *)
NoJob == [to |-> None, resume |-> FALSE, was |-> FALSE, left |-> {}, there |-> {},
          warm |-> FALSE, started |-> FALSE, purge |-> FALSE, expired |-> FALSE]

Init ==
  /\ status = [h \in Hosts |-> IF h = Home THEN "Running" ELSE "none"]
  /\ mark = [h \in Hosts |-> None]
  /\ route = [h \in Hosts |-> h = Home]
  /\ vol = [h \in Hosts |-> [v \in Volumes |-> IF h = Home THEN 0 ELSE None]]
  /\ pc = [h \in Hosts |-> "idle"] /\ job = [h \in Hosts |-> NoJob]
  /\ writes = 0 /\ requests = 0 /\ kills = 0 /\ deaths = 0
  /\ tip = [v \in Volumes |-> 0] /\ down = {} /\ late = FALSE /\ twice = FALSE /\ over = FALSE
-----------------------------------------------------------------------------
Outcomes(h) == IF job[h].expired THEN {"failed"} ELSE {"ok", "failed", "cut"}

Goto(h, step, j) == pc' = [pc EXCEPT ![h] = step] /\ job' = [job EXCEPT ![h] = j]
End(h)           == Goto(h, "idle", NoJob)
Later(j, out)    == [j EXCEPT !.expired = @ \/ out = "cut"]

(* A step that changes what the job knows only.                            *)
OnlyJob == UNCHANGED <<instVars, route, vol, bounds, history>>

(* A step of the migration after the stop of its source has failed.        *)
Rollback(h, out) ==
  /\ Goto(h, IF job[h].started THEN "undo" ELSE "restart", Later(job[h], out))
  /\ late' = (late \/ out = "cut")

Others(h) == Hosts \ {h}
Free(h)   == pc[h] = "idle" /\ (Overlap \/ \A g \in Hosts : pc[g] = "idle")

(* A service writes, when its host's edge sends it requests.  What it      *)
(* writes while a migration may still go back on it is left out.           *)
OnTrial(h) == \E g \in Hosts : job[g].to = h /\ job[g].started

Write(h, v) ==
  /\ status[h] = "Running" /\ route[h] /\ ~OnTrial(h) /\ vol[h][v] # None /\ writes < MaxWrites
  /\ writes' = writes + 1
  /\ vol' = [vol EXCEPT ![h][v] = writes + 1]  /\ tip' = [tip EXCEPT ![v] = writes + 1]
  /\ UNCHANGED <<instVars, route, pc, job, requests, kills, deaths, down, late, twice, over>>

Die(h) ==
  /\ status[h] = "Running" /\ deaths < MaxDeaths
  /\ deaths' = deaths + 1 /\ status' = [status EXCEPT ![h] = "Stopped"]
  /\ UNCHANGED <<mark, route, vol, pc, job, writes, requests, kills, history>>

(* The daemon's end, and its next start.                                   *)
Kill(h) ==
  /\ kills < MaxKills /\ pc[h] # "idle"
  /\ kills' = kills + 1 /\ End(h) /\ down' = down \ {h}
  /\ UNCHANGED <<instVars, route, vol, writes, requests, deaths, tip, late, twice, over>>

(* A request becomes a job: the handler refuses what the job would.        *)
Ask(h, step, j) ==
  /\ Free(h) /\ requests < MaxRequests
  /\ requests' = requests + 1
  /\ Goto(h, step, j)
  /\ UNCHANGED <<instVars, route, vol, writes, kills, deaths, history>>

AskMigrate(h, t, resume) ==
  /\ status[h] # "none" /\ mark[h] = None
  /\ Ask(h, "preflight", [NoJob EXCEPT !.to = t, !.resume = resume])

AskFinalize(h, t, purge) ==
  /\ status[h] # "none" => mark[h] = t
  /\ Ask(h, "clear", [NoJob EXCEPT !.to = t, !.purge = purge])

AskAdopt(h) == status[h] # "none" /\ Ask(h, "adopt", NoJob)
-----------------------------------------------------------------------------
(* Migrate.                                                                *)

(* The record of the source, both hosts' instances, the target's volumes.  *)
Better(t, h, v) == vol[t][v] \in Version /\ ~(vol[h][v] \in Version /\ vol[h][v] >= vol[t][v])

Preflight(h) ==
  LET t == job[h].to
      there == {v \in Volumes : vol[t][v] # None} \cup (IF status[t] = "none" THEN {} ELSE {None})
      was == status[h] = "Running"
  IN  /\ pc[h] = "preflight"
      /\ \/ /\ status[h] # "none" /\ mark[h] = None
            /\ status[t] # "Running"
            /\ job[h].resume \/ there = {}
            /\ Goto(h, "snapshot", [job[h] EXCEPT !.was = was, !.there = there, !.left = Volumes, !.warm = was])
            /\ over' = (over \/ \E v \in Volumes : Better(t, h, v))
         \/ End(h) /\ UNCHANGED over
      /\ UNCHANGED <<instVars, route, vol, bounds, tip, down, late, twice>>

Snapshot(h) ==
  /\ pc[h] = "snapshot"
  /\ \/ /\ \A v \in Volumes : vol[h][v] # None
        /\ Goto(h, "copy", job[h])
     \/ End(h)
  /\ OnlyJob

CopyFails(h, out) == IF job[h].warm THEN End(h) /\ UNCHANGED late ELSE Rollback(h, out)

(* copyAll: first the volumes, then the instance, each onto what is there. *)
CopyVolume(h) ==
  LET t == job[h].to
  IN  /\ pc[h] = "copy"
      /\ \E v \in job[h].left, out \in Outcomes(h), left \in Version \cup {None, Torn} :
           /\ left \in {vol[h][v], vol[t][v], Torn}
           /\ out = "ok" => left = vol[h][v] /\ left # None /\ (v \in job[h].there \/ vol[t][v] = None)
           /\ job[h].expired => left = vol[t][v]
           /\ vol' = [vol EXCEPT ![t][v] = left]
           /\ IF out = "ok"
              THEN Goto(h, "copy", [job[h] EXCEPT !.left = @ \ {v}, !.there = @ \cup {v}]) /\ UNCHANGED late
              ELSE CopyFails(h, out)
  /\ UNCHANGED <<instVars, route, bounds, tip, down, twice, over>>

(* A refresh may bring the source's configuration, or leave the copy's.    *)
CopyInstance(h) ==
  LET t == job[h].to
  IN  /\ pc[h] = "copy" /\ job[h].left = {}
      /\ \E out \in Outcomes(h), m \in {mark[h], mark[t]} :
           /\ out # "failed" => /\ status[h] # "none" /\ \A v \in Volumes : vol[t][v] # None
                                /\ status[t] = "none" \/ (status[t] = "Stopped" /\ None \in job[h].there)
           /\ IF out = "failed" THEN UNCHANGED instVars
              ELSE /\ status' = [status EXCEPT ![t] = "Stopped"]
                   /\ mark' = [mark EXCEPT ![t] = IF status[t] = "none" THEN mark[h] ELSE m]
           /\ IF out = "ok"
              THEN /\ Goto(h, IF job[h].warm THEN "stop" ELSE "start", [job[h] EXCEPT !.there = @ \cup {None}])
                   /\ UNCHANGED late
              ELSE CopyFails(h, out)
      /\ UNCHANGED <<route, vol, bounds, tip, down, twice, over>>

(* The stop's own failure is looked at only through the status after it.   *)
Stop(h) ==
  /\ pc[h] = "stop"
  /\ \E out \in Outcomes(h) :
       /\ status' = IF out = "failed" THEN status ELSE [status EXCEPT ![h] = "Stopped"]
       /\ Goto(h, "verify", Later(job[h], out))
  /\ UNCHANGED <<mark, route, vol, bounds, history>>

(* As a bug would have it: the stop is believed.                           *)
VerifyUnread(h) ==
  /\ pc[h] = "verify"
  /\ Goto(h, "copy", [job[h] EXCEPT !.left = Volumes, !.warm = FALSE]) /\ down' = down \cup {h}
  /\ UNCHANGED <<instVars, route, vol, bounds, tip, late, twice, over>>

(* When the status cannot be read the migration ends, with the source as   *)
(* the stop left it.                                                       *)
Verify(h) ==
  /\ pc[h] = "verify"
  /\ \/ /\ ~job[h].expired /\ status[h] = "Stopped"
        /\ Goto(h, "copy", [job[h] EXCEPT !.left = Volumes, !.warm = FALSE]) /\ down' = down \cup {h}
     \/ End(h) /\ UNCHANGED down
  /\ UNCHANGED <<instVars, route, vol, bounds, tip, late, twice, over>>

StartTarget(h) ==
  LET t == job[h].to
  IN  /\ pc[h] = "start"
      /\ \E out \in Outcomes(h) :
           /\ out # "failed" => status[t] = "Stopped"
           /\ status' = IF out = "failed" THEN status ELSE [status EXCEPT ![t] = "Running"]
           /\ IF out = "ok" THEN Goto(h, "health", [job[h] EXCEPT !.started = TRUE]) /\ UNCHANGED late
              ELSE Rollback(h, out)
      /\ UNCHANGED <<mark, route, vol, bounds, tip, down, twice, over>>

HealthAndEnd(h) ==
  /\ pc[h] = "health"
  /\ \E out \in Outcomes(h) :
       IF out = "ok" THEN Goto(h, "mark", job[h]) /\ down' = down \ {h} /\ UNCHANGED late
       ELSE End(h) /\ UNCHANGED <<down, late>>
  /\ UNCHANGED <<instVars, route, vol, bounds, tip, twice, over>>

Health(h) ==
  /\ pc[h] = "health"
  /\ \E out \in Outcomes(h) :
       IF out = "ok" THEN Goto(h, "mark", job[h]) /\ down' = down \ {h} /\ UNCHANGED late
       ELSE Rollback(h, out) /\ UNCHANGED down
  /\ UNCHANGED <<instVars, route, vol, bounds, tip, twice, over>>

(* The rollback: the target is stopped, and if that fails there is only a  *)
(* warning; then the source is started, if it ran.                         *)
Undo(h) ==
  LET t == job[h].to
  IN  /\ pc[h] = "undo"
      /\ \E out \in Outcomes(h) :
           /\ status' = IF out = "failed" \/ status[t] = "none" THEN status ELSE [status EXCEPT ![t] = "Stopped"]
           /\ twice' = (twice \/ (out = "failed" /\ ~job[h].expired))
           /\ late' = (late \/ out = "cut")
           /\ Goto(h, "restart", Later(job[h], out))
      /\ UNCHANGED <<mark, route, vol, bounds, tip, down, over>>

Restart(h) ==
  /\ pc[h] = "restart"
  /\ \E out \in Outcomes(h) :
       /\ out # "failed" => job[h].was /\ status[h] # "none"
       /\ status' = IF out = "failed" THEN status ELSE [status EXCEPT ![h] = "Running"]
       /\ down' = IF job[h].expired THEN down ELSE down \ {h}
  /\ End(h)
  /\ UNCHANGED <<mark, route, vol, bounds, tip, late, twice, over>>

Mark(h) ==
  /\ pc[h] = "mark"
  /\ \E out \in Outcomes(h) :
       /\ out # "failed" => status[h] # "none"
       /\ mark' = IF out = "failed" THEN mark ELSE [mark EXCEPT ![h] = job[h].to]
       /\ IF out = "ok" THEN Goto(h, "unroute", job[h]) ELSE End(h)
  /\ UNCHANGED <<status, route, vol, bounds, history>>

(* RemoveSite.                                                             *)
Unroute(h) ==
  /\ pc[h] = "unroute"
  /\ \E out \in Outcomes(h) : route' = IF out = "failed" THEN route ELSE [route EXCEPT ![h] = FALSE]
  /\ End(h)
  /\ UNCHANGED <<instVars, vol, bounds, history>>
-----------------------------------------------------------------------------
(* FinalizeMigration: the record again, the route, Finalize.               *)
Clear(h) ==
  /\ pc[h] = "clear"
  /\ \E out \in Outcomes(h) :
       /\ out # "failed" => (status[h] # "none" => mark[h] = job[h].to)
       /\ route' = IF out = "failed" THEN route ELSE [route EXCEPT ![h] = FALSE]
       /\ IF out = "ok" THEN Goto(h, "check", job[h]) ELSE End(h)
  /\ UNCHANGED <<instVars, vol, bounds, history>>

CheckHere(h) ==
  /\ pc[h] = "check"
  /\ \/ /\ ~job[h].expired
        /\ status[h] = "Stopped"
        /\ Goto(h, "delete", job[h])
     \/ End(h)
  /\ OnlyJob

(* The source must be stopped, the target run, hold every volume and be    *)
(* healthy.  A source that is gone already is no error and nothing to do.  *)
Check(h) ==
  /\ pc[h] = "check"
  /\ \/ /\ ~job[h].expired
        /\ status[h] = "Stopped" /\ status[job[h].to] = "Running"
        /\ \A v \in Volumes : vol[job[h].to][v] # None
        /\ Goto(h, "delete", job[h])
     \/ End(h)
  /\ OnlyJob

(* Incus deletes no instance that runs, and no volume that is attached.    *)
Delete(h) ==
  /\ pc[h] = "delete"
  /\ \E out \in Outcomes(h) :
       /\ out # "failed" => status[h] = "Stopped"
       /\ status' = IF out = "failed" THEN status ELSE [status EXCEPT ![h] = "none"]
       /\ mark' = IF out = "failed" THEN mark ELSE [mark EXCEPT ![h] = None]
       /\ IF out = "ok" /\ job[h].purge THEN Goto(h, "purge", [job[h] EXCEPT !.left = Volumes]) ELSE End(h)
  /\ UNCHANGED <<route, vol, bounds, history>>

Purge(h) ==
  /\ pc[h] = "purge"
  /\ \/ job[h].left = {} /\ End(h) /\ UNCHANGED vol
     \/ \E v \in job[h].left, out \in Outcomes(h) :
          /\ out # "failed" => status[h] = "none"
          /\ vol' = IF out = "failed" THEN vol ELSE [vol EXCEPT ![h][v] = None]
          /\ IF out = "ok" THEN Goto(h, "purge", [job[h] EXCEPT !.left = @ \ {v}]) ELSE End(h)
  /\ UNCHANGED <<instVars, route, bounds, history>>

(* Adopt, on the target: the instance must be here, run, and have its      *)
(* volumes; the health check, the spec, then the mark and the route.       *)
Adopt(h) ==
  /\ pc[h] = "adopt"
  /\ \/ /\ status[h] = "Running" /\ \A v \in Volumes : vol[h][v] # None
        /\ Goto(h, IF mark[h] = None THEN "publish" ELSE "unmark", job[h])
     \/ End(h)
  /\ OnlyJob

Unmark(h) ==
  /\ pc[h] = "unmark"
  /\ \E out \in Outcomes(h) :
       /\ mark' = IF out = "failed" THEN mark ELSE [mark EXCEPT ![h] = None]
       /\ IF out = "ok" THEN Goto(h, "publish", job[h]) ELSE End(h)
  /\ UNCHANGED <<status, route, vol, bounds, history>>

Publish(h) ==
  /\ pc[h] = "publish"
  /\ \E out \in Outcomes(h) : route' = IF out = "failed" THEN route ELSE [route EXCEPT ![h] = TRUE]
  /\ End(h)
  /\ UNCHANGED <<instVars, vol, bounds, history>>

World(h) ==
  \/ (\E v \in Volumes : Write(h, v)) \/ Die(h) \/ Kill(h) \/ AskAdopt(h)
  \/ (\E t \in Others(h), b \in BOOLEAN : AskMigrate(h, t, b) \/ AskFinalize(h, t, b))

JobStep(h) ==
  \/ Preflight(h) \/ Snapshot(h) \/ CopyVolume(h) \/ CopyInstance(h) \/ Stop(h) \/ Verify(h)
  \/ StartTarget(h) \/ Health(h) \/ Undo(h) \/ Restart(h) \/ Mark(h) \/ Unroute(h)
  \/ Clear(h) \/ Check(h) \/ Delete(h) \/ Purge(h) \/ Adopt(h) \/ Unmark(h) \/ Publish(h)

Next == \E h \in Hosts : World(h) \/ JobStep(h)

Spec == Init /\ [][Next]_vars
-----------------------------------------------------------------------------
TypeOK ==
  /\ status \in [Hosts -> {"none", "Stopped", "Running"}]
  /\ mark \in [Hosts -> Hosts \cup {None}]
  /\ route \in [Hosts -> BOOLEAN]
  /\ vol \in [Hosts -> [Volumes -> Version \cup {None, Torn}]]
  /\ pc \in [Hosts -> Steps]
  /\ job \in [Hosts -> [to : Hosts \cup {None}, resume : BOOLEAN, was : BOOLEAN, left : SUBSET Volumes,
                        there : SUBSET (Volumes \cup {None}), warm : BOOLEAN, started : BOOLEAN,
                        purge : BOOLEAN, expired : BOOLEAN]]
  /\ writes \in Version /\ requests \in Nat /\ kills \in Nat /\ deaths \in Nat
  /\ tip \in [Volumes -> Version] /\ down \in SUBSET Hosts
  /\ late \in BOOLEAN /\ twice \in BOOLEAN /\ over \in BOOLEAN

(* What was last written to a volume is on one of the hosts: through       *)
(* copies that fail in the middle, rollbacks, kills, migrations that are   *)
(* resumed or go back, and sources that are finalized and purged.  The     *)
(* exceptions are a migration that was resumed onto a stopped copy with    *)
(* later or more complete data than its source's (Migrate's Resume), which *)
(* nothing in the code looks for, and two copies that ran at once.         *)
NewestKept == over \/ twice \/ \A v \in Volumes : \E h \in Hosts : vol[h][v] = tip[v]

(* The instance never runs on two hosts, unless a rollback could not stop  *)
(* the target and said so (Migrate, "stop the source and verify it").      *)
RunsOnce == ~twice => \A g, h \in Hosts : status[g] = "Running" /\ status[h] = "Running" => g = h

(* A migration that stopped its source ends with the target running or     *)
(* with the source started, or its start tried, unless its time ran out.   *)
(* It speaks of migrations that end: Kill takes the host from down, as the *)
(* source stays stopped when its daemon dies in the migration.             *)
SourceBack == ~late => \A h \in down : pc[h] # "idle"
=============================================================================
