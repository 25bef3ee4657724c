--------------------------- MODULE ServiceDeploy ---------------------------
(***************************************************************************)
(* DeployService (pkg/engine/deployer.go) brings one service to what its   *)
(* manifest declares: it launches it, replaces it by the safe update       *)
(* (Update, instance.go), or corrects it in place, and publishes its route *)
(* (EdgeSite).  Every step is a command on the host that may fail, the     *)
(* daemon may die between any two, and a deploy is then run again, of the  *)
(* same manifest or of a newer one.                                        *)
(***************************************************************************)
EXTENDS EdgeSite, Naturals, FiniteSets

CONSTANTS
  Images,     \* images, each with the reference that names it
  Envs,       \* values of the environment the manifest declares
  NoEnv,      \* none
  NoRef,      \* no recorded reference
  NoRoute,    \* no route, or one native-ops does not manage
  NoInstance, \* there is no instance
  Inits,      \* container_init hooks
  NoInit,     \* none, or none has run
  Failing,    \* the hooks that fail
  Manifests,  \* what the repository may declare
  Sound,      \* the pairs <<image, environment>> that pass the health check
  MaxPushes,  \* bound: how often the repository changes
  MaxFaults   \* bound: commands that fail, kills and reboots

Hooks      == Inits \cup {NoInit}
Values     == Envs \cup {NoEnv}
References == Images \cup {NoRef}
Declarable == [image : Images, env : Values, route : Routes \cup {NoRoute},
               init : Hooks, vol : BOOLEAN]
Instances  == [image : Images, ref : References, env : Values, extra : BOOLEAN,
               ran : Values, ready : BOOLEAN, vol : BOOLEAN, addr : Addresses, up : BOOLEAN]

ASSUME DeployAssumption ==
  /\ Manifests \subseteq Declarable
  /\ NoEnv \notin Envs
  /\ NoRef \notin Images
  /\ NoInit \notin Inits
  /\ NoRoute \notin Routes
  /\ NoInstance \notin Instances
  /\ Failing \subseteq Inits
  /\ Sound \subseteq Images \X Values
  /\ MaxPushes \in Nat
  /\ MaxFaults \in Nat

VARIABLES
  svc,    \* the manifest in the repository, and of the deploy that runs
  oci,    \* whether the service's images are OCI images
  inst,   \* the instance: its image and recorded reference, its environment
          \* (the declared key, and whether another system's key is there),
          \* the environment its service started with, whether container_init
          \* has run in it, whether its volume is attached, its address
  store,  \* the images the host can launch without pulling
  data,   \* history: the images that have run on the volume
  snaps,  \* the volume's snapshots
  pc,     \* the next step of the deploy
  path,   \* what it does: launch, correct, replace, or one of two ways back
  old,    \* what Update has read of the instance it replaces
  outcome,\* how the deploy ended
  found,  \* history: the file the deploy found on the edge, when an earlier
          \* one had left it there without its being loaded
  pushes,
  faults

hostVars == <<inst, store, data, snaps>>
runVars  == <<pc, path, old, outcome, found>>
vars == <<siteVars, svc, oci, hostVars, runVars, pushes, faults>>

ReplaceSteps == {"delete", "launch", "attach", "envfile", "init", "restart", "check"}
Steps == ReplaceSteps \cup
         {"idle", "adopt", "pre", "snapshot", "repoint", "env", "envrestart",
          "publish", "post", "ended"}
Paths == {"fresh", "inplace", "new", "back", "pull"}
Outcomes == {"none", "ok", "failed", "rolledback", "unrouted", "lost"}

TypeOK ==
  /\ SiteTypeOK
  /\ svc \in Manifests
  /\ oci \in BOOLEAN
  /\ inst \in Instances \cup {NoInstance}
  /\ store \in SUBSET Images
  /\ data \in SUBSET Images
  /\ snaps \in SUBSET SUBSET Images
  /\ pc \in Steps
  /\ path \in Paths
  /\ old \in Instances \cup {NoInstance}
  /\ outcome \in Outcomes
  /\ found \in Sites \cup {NoSite}
  /\ pushes \in 0 .. MaxPushes
  /\ faults \in 0 .. MaxFaults

Running(i) == i # NoInstance /\ i.up
Healthy(i) == Running(i) /\ <<i.image, i.ran>> \in Sound
(* What the host has is what the manifest declares, as far as converge     *)
(* looks: an OCI instance's image is the one recorded.                     *)
Filed ==
  /\ inst # NoInstance
  /\ (IF oci THEN inst.ref ELSE inst.image) = svc.image
  /\ svc.env \in {NoEnv, inst.env}
  /\ svc.route # NoRoute => file = [route |-> svc.route, addr |-> inst.addr]

(* Nothing is deployed yet; or the service was, before references were     *)
(* recorded.                                                               *)
Legacy(d, a) ==
  [image |-> d.image, ref |-> NoRef, env |-> d.env, extra |-> FALSE, ran |-> d.env,
   ready |-> TRUE, vol |-> d.vol, addr |-> a, up |-> TRUE]

Init ==
  /\ SiteInit
  /\ svc \in Manifests
  /\ oci \in BOOLEAN
  /\ \/ inst = NoInstance /\ file = NoSite /\ data = {}
     \/ \E d \in Manifests, a \in Addresses :
          /\ <<d.image, d.env>> \in Sound /\ d.route \in Routes \ Refused
          /\ inst = Legacy(d, a)
          /\ file = [route |-> d.route, addr |-> a]
          /\ data = IF d.vol THEN {d.image} ELSE {}
  /\ loaded = file
  /\ store = Images
  /\ snaps = {}
  /\ pc = "idle"
  /\ path = "inplace"
  /\ old = NoInstance
  /\ outcome = "none"
  /\ found = NoSite
  /\ pushes = 0 /\ faults = 0

----------------------------------------------------------------------------
(* The run.                                                                *)

Goto(step) == pc' = step /\ UNCHANGED <<path, old, outcome, found>>
End(how)   == pc' = "ended" /\ outcome' = how /\ UNCHANGED <<path, old, found>>
Forget == /\ pc' = "idle" /\ path' = "inplace" /\ old' = NoInstance
          /\ outcome' = "none" /\ found' = NoSite

(* An error in Update's replace starts the way back, or the second one, by *)
(* the recorded reference; any other error ends the deploy.                *)
BacksBy(way) ==
  /\ pc \in ReplaceSteps
  /\ \/ path = "new" /\ way = "back"
     \/ path = "back" /\ oci /\ old.ref # NoRef /\ way = "pull"

Raise ==
  \/ /\ \E way \in {"back", "pull"} : BacksBy(way) /\ path' = way
     /\ pc' = "delete"
     /\ UNCHANGED <<old, outcome, found>>
  \/ /\ \A way \in {"back", "pull"} : ~BacksBy(way)
     /\ pc' = "ended"
     /\ outcome' = CASE path \in {"back", "pull"} /\ pc = "repoint" -> "unrouted"
                     [] path \in {"back", "pull"} /\ pc # "repoint" -> "lost"
                     [] OTHER -> "failed"
     /\ UNCHANGED <<path, old, found>>

(* A command fails, or the process dies, by itself.                        *)
Fault == faults < MaxFaults /\ faults' = faults + 1

(* imageDecision: a local image by its fingerprint, an OCI image by the    *)
(* reference recorded on the instance.                                     *)
Replaces == IF oci THEN inst.ref \notin {NoRef, svc.image} ELSE inst.image # svc.image
Adopts == oci /\ inst.ref = NoRef

(* DeployService and the start of converge.                                *)
Begin ==
  /\ pc = "idle"
  /\ old' = inst
  /\ found' = IF unloaded THEN file ELSE NoSite
  /\ \/ inst = NoInstance /\ path' = "fresh" /\ pc' = "pre"
     \/ /\ inst # NoInstance /\ Replaces
        /\ path' = "new" /\ pc' = "pre"
     \/ /\ inst # NoInstance /\ ~Replaces
        /\ path' = "inplace"
        /\ pc' = IF Adopts THEN "adopt" ELSE "attach"
  /\ UNCHANGED <<siteVars, svc, oci, hostVars, outcome, pushes, faults>>

Adopt ==
  /\ pc = "adopt"
  /\ inst' = [inst EXCEPT !.ref = svc.image]
  /\ Goto("attach")
  /\ UNCHANGED <<siteVars, svc, oci, store, data, snaps, pushes, faults>>

(* The pre_deploy hook, a script on the host.                              *)
PreDeploy ==
  /\ pc = "pre"
  /\ Goto(IF path = "fresh" THEN "launch" ELSE "snapshot")
  /\ UNCHANGED <<siteVars, svc, oci, hostVars, pushes, faults>>

(* A slip: only volumes the manifest still declares are snapshotted.       *)
SnapshotDeclared ==
  /\ pc = "snapshot"
  /\ snaps' = IF svc.vol THEN snaps \cup {data} ELSE snaps
  /\ Goto("delete")
  /\ UNCHANGED <<siteVars, svc, oci, inst, store, data, pushes, faults>>

(* Update: every volume that is attached is snapshotted.                   *)
Snapshot ==
  /\ pc = "snapshot"
  /\ snaps' = IF old.vol THEN snaps \cup {data} ELSE snaps
  /\ Goto("delete")
  /\ UNCHANGED <<siteVars, svc, oci, inst, store, data, pushes, faults>>

Delete ==
  /\ pc = "delete"
  /\ inst' = NoInstance
  /\ Goto("launch")
  /\ UNCHANGED <<siteVars, svc, oci, store, data, snaps, pushes, faults>>

(* A slip: the way back launches the recorded reference.                   *)
LaunchedRecorded == IF path \in {"fresh", "new"} THEN svc.image ELSE old.ref

(* What is launched: the manifest's image, or the previous one, by its     *)
(* fingerprint, or by the reference it was recorded with.                  *)
Launched == CASE path \in {"fresh", "new"} -> svc.image
              [] path = "back"             -> old.image
              [] path = "pull"             -> old.ref

(* An OCI instance's environment is in the configuration it is launched    *)
(* with; any other starts without its environment file.                    *)
Fresh(addr) ==
  LET carried == oci /\ path # "fresh" IN
  [image |-> Launched,
   ref   |-> IF path \in {"fresh", "new"} THEN svc.image ELSE old.ref,
   env   |-> IF carried THEN old.env ELSE NoEnv,
   extra |-> carried /\ old.extra,
   ran   |-> IF carried THEN old.env ELSE NoEnv,
   ready |-> svc.init = NoInit, vol |-> FALSE, addr |-> addr, up |-> TRUE]

(* A slip: an image that has expired is not pulled.                        *)
LaunchUnpulled ==
  /\ pc = "launch"
  /\ \/ /\ path # "fresh" => Launched \in store
        /\ \E a \in Addresses : inst' = Fresh(a)
        /\ Goto("attach")
     \/ path # "fresh" /\ Launched \notin store /\ Raise /\ UNCHANGED inst
  /\ UNCHANGED <<siteVars, svc, oci, store, data, snaps, pushes, faults>>

Launch ==
  /\ pc = "launch"
  /\ \/ /\ path = "back" => old.image \in store
        /\ \E a \in Addresses : inst' = Fresh(a)
        /\ store' = store \cup {Launched}
        /\ Goto("attach")
     \/ path = "back" /\ old.image \notin store /\ Raise /\ UNCHANGED <<inst, store>>
  /\ UNCHANGED <<siteVars, svc, oci, data, snaps, pushes, faults>>

(* The volumes the manifest declares; on a replacement, the devices of the *)
(* instance it replaces.                                                   *)
Attaches == IF path \in {"fresh", "inplace"} THEN svc.vol ELSE old.vol

AfterAttach == CASE path = "fresh"   -> "init"
                 [] path = "inplace" -> "env"
                 [] OTHER            -> "envfile"

Attach ==
  /\ pc = "attach"
  /\ inst' = [inst EXCEPT !.vol = @ \/ Attaches]
  /\ data' = IF inst'.vol /\ inst.up THEN data \cup {inst.image} ELSE data
  /\ Goto(AfterAttach)
  /\ UNCHANGED <<siteVars, svc, oci, store, snaps, pushes, faults>>

(* A slip: the way back does not restore the environment file.             *)
WriteEnvFileOnce ==
  /\ pc = "envfile"
  /\ inst' = IF oci \/ path # "new" THEN inst
             ELSE [inst EXCEPT !.env = old.env, !.extra = old.extra]
  /\ Goto("init")
  /\ UNCHANGED <<siteVars, svc, oci, store, data, snaps, pushes, faults>>

(* The environment file Update has read, on the replacement.               *)
WriteEnvFile ==
  /\ pc = "envfile"
  /\ inst' = IF oci THEN inst ELSE [inst EXCEPT !.env = old.env, !.extra = old.extra]
  /\ Goto("init")
  /\ UNCHANGED <<siteVars, svc, oci, store, data, snaps, pushes, faults>>

(* container_init, in the new instance or, on the way back, in the old.    *)
ContainerInit ==
  /\ pc = "init"
  /\ \/ /\ svc.init \notin Failing
        /\ inst' = [inst EXCEPT !.ready = TRUE]
        /\ Goto(IF path = "fresh" THEN "env" ELSE "restart")
     \/ svc.init \in Failing /\ Raise /\ UNCHANGED inst
  /\ UNCHANGED <<siteVars, svc, oci, store, data, snaps, pushes, faults>>

(* RestartService; there is none in an OCI instance.                       *)
Restart ==
  /\ pc = "restart"
  /\ inst' = IF oci THEN inst ELSE [inst EXCEPT !.ran = inst.env]
  /\ Goto("check")
  /\ UNCHANGED <<siteVars, svc, oci, store, data, snaps, pushes, faults>>

(* The health gate.                                                        *)
HealthGate ==
  /\ pc = "check"
  /\ IF Healthy(inst)
     THEN Goto(IF path \in {"fresh", "inplace"} THEN "publish" ELSE "repoint")
     ELSE Raise
  /\ UNCHANGED <<siteVars, svc, oci, hostVars, pushes, faults>>

(* applyEnv: declared keys that differ are set, others kept ...            *)
AfterEnv == IF path = "new" THEN "publish" ELSE "check"

SetEnv ==
  /\ pc = "env"
  /\ IF svc.env \in {NoEnv, inst.env}
     THEN UNCHANGED inst /\ Goto(AfterEnv)
     ELSE inst' = [inst EXCEPT !.env = svc.env] /\ Goto("envrestart")
  /\ UNCHANGED <<siteVars, svc, oci, store, data, snaps, pushes, faults>>

(* ... and the service, or the OCI instance, is restarted.  That a service *)
(* cannot be restarted is only reported, unless it is corrected in place.  *)
EnvNotRestarted == IF oci \/ path = "inplace" THEN Raise ELSE Goto(AfterEnv)

RestartEnv ==
  /\ pc = "envrestart"
  /\ IF inst.up
     THEN inst' = [inst EXCEPT !.ran = inst.env] /\ Goto(AfterEnv)
     ELSE UNCHANGED inst /\ EnvNotRestarted
  /\ UNCHANGED <<siteVars, svc, oci, store, data, snaps, pushes, faults>>

(* repointRoute.                                                           *)
AfterRepoint == IF path = "new" THEN Goto("env") ELSE End("rolledback")

Repoint ==
  /\ pc = "repoint" /\ replacing = "no"
  /\ \/ Points(inst.addr) /\ AfterRepoint /\ UNCHANGED siteVars
     \/ ~Points(inst.addr) /\ WriteSite(Repointed(inst.addr)) /\ UNCHANGED runVars
  /\ UNCHANGED <<svc, oci, hostVars, pushes, faults>>

(* publishRoute; an instance that does not run has no address.             *)
Desired == [route |-> svc.route, addr |-> inst.addr]

AfterPublish == IF path = "inplace" THEN End("ok") ELSE Goto("post")

Publish ==
  /\ pc = "publish" /\ replacing = "no"
  /\ \/ /\ svc.route = NoRoute \/ Published(Desired)
        /\ AfterPublish /\ UNCHANGED siteVars
     \/ /\ svc.route # NoRoute /\ ~Published(Desired)
        /\ WriteSite(Desired) /\ UNCHANGED runVars
  /\ UNCHANGED <<svc, oci, hostVars, pushes, faults>>

(* The rest of replaceSite, for either.                                    *)
ReplaceSite ==
  /\ \/ Validate /\ UNCHANGED runVars
     \/ ~Loads(file) /\ Restore /\ Raise
     \/ Reload /\ IF pc = "repoint" THEN AfterRepoint ELSE AfterPublish
  /\ UNCHANGED <<svc, oci, hostVars, pushes, faults>>

(* The post_deploy hook, a script on the host.                             *)
PostDeploy ==
  /\ pc = "post"
  /\ End("ok")
  /\ UNCHANGED <<siteVars, svc, oci, hostVars, pushes, faults>>

(* The job ends.                                                           *)
Return ==
  /\ pc = "ended"
  /\ Forget
  /\ UNCHANGED <<siteVars, svc, oci, hostVars, pushes, faults>>

----------------------------------------------------------------------------
(* What goes wrong.                                                        *)

(* A command fails and changes nothing; a delete has stopped the instance  *)
(* (StopAndDeleteContainer); a launch may have created one it did not      *)
(* start; and what replaceSite wrote is put back if the check of it fails, *)
(* when that can be done, and never if the reload does.                    *)
CommandFails ==
  /\ Fault
  /\ pc \notin {"idle", "ended"}
  /\ CASE pc = "delete"     -> inst' \in {inst, IF inst = NoInstance THEN inst
                                                ELSE [inst EXCEPT !.up = FALSE]}
       [] pc = "launch"     -> \/ inst' = inst
                               \/ \E a \in Addresses : inst' = [Fresh(a) EXCEPT !.up = FALSE]
       [] OTHER             -> inst' = inst
  /\ IF pc = "envrestart" THEN EnvNotRestarted ELSE Raise
  /\ CASE replacing = "validate" -> Restore \/ LeaveSite
       [] replacing = "reload"   -> ReloadFails
       [] replacing = "no"       -> UNCHANGED siteVars
  /\ UNCHANGED <<svc, oci, store, data, snaps, pushes>>

(* The daemon dies, or is stopped, in the deploy.                          *)
Kill ==
  /\ Fault
  /\ pc \notin {"idle", "ended"}
  /\ Forget
  /\ LeaveSite
  /\ UNCHANGED <<svc, oci, hostVars, pushes>>

(* The host restarts: what ran runs again, with a new address.             *)
Reboot ==
  /\ Fault
  /\ pc = "idle"
  /\ IF Running(inst)
     THEN \E a \in Addresses : inst' = [inst EXCEPT !.ran = inst.env, !.addr = a]
     ELSE UNCHANGED inst
  /\ RestartEdge
  /\ UNCHANGED <<svc, oci, store, data, snaps, runVars, pushes>>

----------------------------------------------------------------------------
(* What others do.                                                         *)

(* The repository changes.                                                 *)
Push ==
  /\ pc = "idle" /\ pushes < MaxPushes
  /\ \E d \in Manifests \ {svc} : svc' = d
  /\ pushes' = pushes + 1
  /\ UNCHANGED <<siteVars, oci, hostVars, runVars, faults>>

(* Another system sets a key the manifest does not declare.                *)
SetOtherKey ==
  /\ pc = "idle" /\ Running(inst) /\ ~inst.extra
  /\ inst' = [inst EXCEPT !.extra = TRUE]
  /\ UNCHANGED <<siteVars, svc, oci, store, data, snaps, runVars, pushes, faults>>

(* An OCI image expires, or is pruned, while its instance runs.            *)
Expire ==
  /\ pc = "idle" /\ oci /\ Running(inst) /\ inst.image \in store
  /\ store' = store \ {inst.image}
  /\ UNCHANGED <<siteVars, svc, oci, inst, data, snaps, runVars, pushes, faults>>

----------------------------------------------------------------------------
Deploy == Begin \/ Adopt \/ PreDeploy \/ Snapshot \/ Delete \/ Launch \/ Attach
          \/ WriteEnvFile \/ ContainerInit \/ Restart \/ HealthGate \/ SetEnv
          \/ RestartEnv \/ Repoint \/ Publish \/ ReplaceSite \/ PostDeploy \/ Return

Next == Deploy \/ CommandFails \/ Kill \/ Reboot \/ Push \/ SetOtherKey \/ Expire

Spec == Init /\ [][Next]_vars

(* A deploy goes on, and is run again when it has failed or was cut off,   *)
(* as the daemon's guide says (docs/daemon.md, "the fix is to apply        *)
(* again").                                                                *)
FairSpec == Spec /\ WF_vars(Deploy)

----------------------------------------------------------------------------
(* Properties.                                                             *)

(* No image runs on the volume before the data, as others left it, is in a *)
(* snapshot (Update: "a failed snapshot aborts before anything is          *)
(* deleted"): but for the first, each one's is missing in some snapshot.   *)
SnapshotFirst ==
  data # {} => \E first \in data : \A i \in data \ {first} :
                 \E s \in snaps : i \notin s

(* Caddy serves what the site's file says (Reload: "a route that is not    *)
(* live is not published").  One case is left out, in which the code does  *)
(* otherwise: an earlier replacement of the file was cut off, or failed,   *)
(* without what was there being put back, and the deploy found that file   *)
(* as it wants it.  Then it neither writes nor reloads (PublishSite,       *)
(* RepointUpstream), whatever Caddy has loaded.                            *)
Served == file \in {loaded, found}

(* An update that was rolled back leaves the instance as Update had found  *)
(* it: the image (or the one it was recorded with, when that was all there *)
(* was), the recorded reference, the environment, the volume, healthy, and *)
(* its route at its address and served.                                    *)
RolledBackAsItWas ==
  outcome = "rolledback" =>
    /\ inst = [old EXCEPT !.image = IF path = "pull" THEN old.ref ELSE @,
                          !.ran = old.env, !.ready = TRUE, !.up = TRUE,
                          !.addr = inst.addr]
    /\ Healthy(inst)
    /\ Points(inst.addr) /\ Served

(* Whatever a deploy does, and however it ends, keys of the environment    *)
(* the manifest does not declare are there when it is over, unless no way  *)
(* back worked.                                                            *)
KeepsOtherKeys ==
  pc = "ended" /\ outcome # "lost" /\ old # NoInstance /\ old.extra
    => inst # NoInstance /\ inst.extra

(* A deploy that says it is done has the declared image, environment and   *)
(* route on the host, whatever earlier deploys left half done; the volume, *)
(* too, but when it came with another image (DeployService: "converges a   *)
(* service to its manifest").  And the route is served, as above.          *)
OkIsFiled ==
  outcome = "ok" =>
    /\ Filed
    /\ svc.vol /\ path # "new" => inst.vol
    /\ svc.route # NoRoute => Served

(* Deploys that are run again get there, when the manifest stays and       *)
(* nothing fails any more; but for what no deploy gets past: a manifest    *)
(* whose hook, image or route does not work, an image that is not healthy  *)
(* with the environment of the one it replaces, an instance that was not   *)
(* started, or one whose service has not been restarted since its          *)
(* environment was written.  Of the route, this is about its file: no      *)
(* deploy run again loads one that is there and was not loaded.            *)
Blocked ==
  \/ svc.init \in Failing
  \/ svc.route \in Refused
  \/ inst # NoInstance
     /\ \/ ~inst.up
        \/ Replaces /\ <<svc.image, inst.env>> \notin Sound
        \/ ~Replaces /\ svc.env \in {NoEnv, inst.env} /\ <<inst.image, inst.ran>> \notin Sound

ConvergesInTheEnd == <>[](pc = "idle" => Filed \/ Blocked)
=============================================================================
