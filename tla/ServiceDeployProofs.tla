------------------------ MODULE ServiceDeployProofs ------------------------
(***************************************************************************)
(* What is proved of ServiceDeploy, and of the plan PlanService makes of   *)
(* each of its deploys, for all images, environments, routes and           *)
(* manifests, and any number of faults and pushes.                         *)
(***************************************************************************)
EXTENDS ServicePlan, TLAPS

(* Which steps a deploy can be at, for what it does, and what it has read. *)
FreshSteps   == {"pre", "launch", "attach", "init", "env", "envrestart", "check",
                 "publish", "post", "ended"}
InplaceSteps == {"idle", "adopt", "attach", "env", "envrestart", "check", "publish", "ended"}
BackSteps    == ReplaceSteps \cup {"repoint", "ended"}

PathInv ==
  /\ pc = "idle" => path = "inplace" /\ old = NoInstance
  /\ path = "fresh" => pc \in FreshSteps /\ old = NoInstance
  /\ path = "inplace" => pc \in InplaceSteps
  /\ path = "new" => pc \notin {"idle", "adopt"} /\ old \in Instances
  /\ path \in {"back", "pull"} => pc \in BackSteps /\ old \in Instances
  /\ path = "pull" => oci /\ old.ref \in Images
  /\ replacing # "no" => pc \in {"repoint", "publish"}

(* The steps at which there is an instance.                                *)
LiveSteps == {"adopt", "attach", "envfile", "init", "restart", "check", "repoint",
              "env", "envrestart", "publish", "post"}

LiveInv == pc \in LiveSteps => inst \in Instances

RunInv == TypeOK /\ PathInv /\ LiveInv

(* What another system set is there, at the steps at which an instance is  *)
(* complete, or not yet touched.                                           *)
KeepSteps == {"adopt", "pre", "snapshot", "init", "restart", "check", "repoint", "env",
              "envrestart", "publish", "post"}

Keeps ==
  \/ pc \in KeepSteps
  \/ path = "inplace"
  \/ path = "new" /\ pc = "delete"
  \/ oci /\ pc \in {"attach", "envfile"}
  \/ pc = "ended" /\ outcome # "lost"

KeysInv == old # NoInstance /\ old.extra /\ Keeps => inst # NoInstance /\ inst.extra

(* The way back brings the instance back piece by piece.                   *)
LaunchedSteps == {"attach", "envfile", "init", "restart", "check", "repoint"}
EnvSteps      == {"init", "restart", "check", "repoint"}

BackAt(steps) == \/ pc \in steps
                 \/ pc = "ended" /\ outcome = "rolledback"

BackLaunched ==
  /\ inst \in Instances /\ inst.up
  /\ inst.image = IF path = "pull" THEN old.ref ELSE old.image
  /\ inst.ref = old.ref
  /\ oci => inst.env = old.env /\ inst.extra = old.extra /\ inst.ran = old.env

BackInv ==
  path \in {"back", "pull"} =>
    /\ BackAt(LaunchedSteps) => BackLaunched
    /\ BackAt(LaunchedSteps \ {"attach"}) => inst.vol = old.vol
    /\ pc = "attach" => ~inst.vol
    /\ BackAt(EnvSteps) => inst.env = old.env /\ inst.extra = old.extra
    /\ BackAt(EnvSteps \ {"init"}) => inst.ready
    /\ BackAt({"check", "repoint"}) => inst.ran = old.env
    /\ BackAt({"repoint"}) => Healthy(inst)

RouteInv ==
  /\ pc = "repoint" /\ replacing # "no" => Points(inst.addr)
  /\ outcome = "rolledback" => Points(inst.addr) /\ pc = "ended" /\ path \in {"back", "pull"}
  /\ pc # "ended" => outcome = "none"

(* What Caddy has loaded is the file, or what replaceSite would put back,  *)
(* unless a replacement has left its file; and until a deploy fails, the   *)
(* file is loaded, or is the one it has found.                             *)
ServeInv ==
  /\ Loads(loaded)
  /\ replacing = "reload" => Loads(file)
  /\ unloaded \/ loaded = (IF replacing = "no" THEN file ELSE before)
  /\ pc # "idle" /\ outcome \in {"none", "ok", "rolledback"} /\ replacing = "no" => Served

DeployInv == RunInv /\ KeysInv /\ BackInv /\ RouteInv /\ ServeInv
----------------------------------------------------------------------------

(* An instance with a field changed, and a new one, are instances.         *)
LEMMA ChangedInstance ==
  ASSUME NEW i \in Instances, NEW r \in References, NEW e \in Values, NEW b \in BOOLEAN,
         NEW a \in Addresses
  PROVE  /\ [i EXCEPT !.ref = r] \in Instances
         /\ [i EXCEPT !.vol = b] \in Instances
         /\ [i EXCEPT !.env = e] \in Instances
         /\ [i EXCEPT !.env = e, !.extra = b] \in Instances
         /\ [i EXCEPT !.ran = e] \in Instances
         /\ [i EXCEPT !.ran = e, !.addr = a] \in Instances
         /\ [i EXCEPT !.ready = b] \in Instances
         /\ [i EXCEPT !.extra = b] \in Instances
         /\ [i EXCEPT !.up = b] \in Instances
  BY DEF Instances

(* What Launch makes is an instance, whatever the path.                    *)
LEMMA FreshInstance ==
  ASSUME RunInv, pc = "launch", NEW a \in Addresses
  PROVE  /\ Launched \in Images
         /\ Fresh(a) \in Instances
         /\ [Fresh(a) EXCEPT !.up = FALSE] \in Instances
<1>1. svc.image \in Images
  BY DeployAssumption DEF RunInv, TypeOK, Declarable
<1>2. path \in {"fresh", "new", "back", "pull"}
  BY DEF RunInv, TypeOK, PathInv, Paths, InplaceSteps
<1>3. path # "fresh" => /\ old.image \in Images /\ old.ref \in References
                        /\ old.env \in Values /\ old.extra \in BOOLEAN
  BY <1>2 DEF RunInv, PathInv, Instances
<1>4. path = "pull" => old.ref \in Images
  BY DEF RunInv, PathInv
<1>5. Launched \in Images
  BY <1>1, <1>2, <1>3, <1>4 DEF Launched
<1>6. oci \in BOOLEAN
  BY DEF RunInv, TypeOK
<1>7. Fresh(a) \in Instances
  BY <1>1, <1>2, <1>3, <1>5, <1>6 DEF Fresh, Instances, References, Values
<1>8. \A i \in Instances : [i EXCEPT !.up = FALSE] \in Instances
  BY DEF Instances
<1> QED
  BY <1>5, <1>7, <1>8

(* A host on which nothing, or a service of before, is deployed.           *)
LEMMA InitRun == Init => RunInv
<1> SUFFICES ASSUME Init PROVE RunInv
  OBVIOUS
<1> USE DeployAssumption, SiteAssumption
<1>1. /\ inst \in Instances \cup {NoInstance}
      /\ file \in Sites \cup {NoSite}
      /\ data \in SUBSET Images
  <2>1. CASE inst = NoInstance /\ file = NoSite /\ data = {}
    BY <2>1
  <2>2. CASE ~(inst = NoInstance /\ file = NoSite /\ data = {})
    <3>1. PICK d \in Manifests, a \in Addresses :
                 /\ d.route \in Routes
                 /\ inst = Legacy(d, a)
                 /\ file = [route |-> d.route, addr |-> a]
                 /\ data = IF d.vol THEN {d.image} ELSE {}
      BY <2>2, Zenon DEF Init
    <3>2. d \in Declarable /\ d.image \in Images /\ d.env \in Values /\ d.vol \in BOOLEAN
      BY DEF Declarable
    <3>3. data \in SUBSET Images
      BY <3>1, <3>2
    <3> QED
      BY <3>1, <3>2, <3>3 DEF Legacy, Instances, Sites, References
  <2> QED
    BY <2>1, <2>2
<1>2. svc \in Manifests /\ oci \in BOOLEAN /\ loaded = file /\ before = NoSite /\ replacing = "no"
      /\ store = Images /\ snaps = {} /\ pc = "idle" /\ path = "inplace" /\ old = NoInstance
      /\ outcome = "none" /\ pushes = 0 /\ faults = 0 /\ unloaded = FALSE /\ found = NoSite
  BY DEF Init, SiteInit
<1>3. SiteTypeOK
  BY <1>1, <1>2 DEF SiteTypeOK
<1>4. TypeOK
  BY <1>1, <1>2, <1>3 DEF TypeOK, Steps, Paths, Outcomes
<1> QED
  BY <1>2, <1>4 DEF RunInv, PathInv, LiveInv, LiveSteps, InplaceSteps

(* How a deploy goes on: to a step of its own, past an error, to its end.  *)
Control ==
  /\ pc \in Steps /\ path \in Paths /\ old \in Instances \cup {NoInstance}
  /\ outcome \in Outcomes
  /\ found \in Sites \cup {NoSite}
  /\ PathInv

LEMMA GotoControl ==
  ASSUME RunInv, NEW s \in Steps \ {"idle"}, Goto(s), oci' = oci, replacing' = "no",
         path = "fresh" => s \in FreshSteps,
         path = "inplace" => s \in InplaceSteps,
         path = "new" => s # "adopt",
         path \in {"back", "pull"} => s \in BackSteps
  PROVE  Control'
  BY DEF RunInv, TypeOK, Goto, Control, PathInv

LEMMA EndControl ==
  ASSUME RunInv, NEW how \in Outcomes, End(how), oci' = oci, replacing' = "no"
  PROVE  Control' /\ pc' = "ended"
  BY DEF RunInv, TypeOK, End, Control, PathInv, Steps, FreshSteps, InplaceSteps, BackSteps

LEMMA RaiseControl ==
  ASSUME RunInv, Raise, oci' = oci, replacing' = "no"
  PROVE  Control' /\ pc' \in {"delete", "ended"}
<1>1. CASE \E way \in {"back", "pull"} : BacksBy(way) /\ path' = way
  <2>1. PICK way \in {"back", "pull"} : BacksBy(way) /\ path' = way
    BY <1>1
  <2>2. pc' = "delete" /\ UNCHANGED <<old, outcome, found>>
    BY <2>1 DEF Raise
  <2>3. way = "pull" => oci /\ old.ref \in Images
    BY <2>1 DEF BacksBy, RunInv, PathInv, Instances, References
  <2> QED
    BY <2>1, <2>2, <2>3 DEF RunInv, TypeOK, BacksBy, Control, PathInv, Steps, ReplaceSteps,
                            Paths, BackSteps
<1>2. CASE \A way \in {"back", "pull"} : ~BacksBy(way)
  BY <1>2 DEF Raise, RunInv, TypeOK, Control, PathInv, Steps, Outcomes, FreshSteps,
              InplaceSteps, BackSteps
<1> QED
  BY <1>1, <1>2 DEF Raise

LEMMA ForgetControl ==
  ASSUME RunInv, Forget, replacing' = "no"
  PROVE  Control' /\ pc' = "idle"
  BY DeployAssumption DEF Forget, Control, PathInv, Steps, Paths, Outcomes, InplaceSteps

LEMMA SameControl ==
  ASSUME RunInv, UNCHANGED <<runVars, oci>>, replacing' # "no" => pc \in {"repoint", "publish"}
  PROVE  Control'
  BY DEF RunInv, TypeOK, runVars, Control, PathInv

LEMMA AfterRepointControl ==
  ASSUME RunInv, AfterRepoint, pc = "repoint", oci' = oci, replacing' = "no"
  PROVE  Control'
<1>1. CASE Goto("env") /\ path = "new"
  BY <1>1, GotoControl DEF Steps
<1>2. CASE End("rolledback")
  BY <1>2, EndControl DEF Outcomes
<1> QED
  BY <1>1, <1>2 DEF AfterRepoint

LEMMA AfterPublishControl ==
  ASSUME RunInv, AfterPublish, pc = "publish", oci' = oci, replacing' = "no"
  PROVE  Control'
<1>1. CASE Goto("post") /\ path # "inplace"
  <2>1. path \notin {"back", "pull"}
    BY DEF RunInv, PathInv, BackSteps, ReplaceSteps
  <2> QED
    BY <1>1, <2>1, GotoControl DEF Steps, FreshSteps
<1>2. CASE End("ok")
  BY <1>2, EndControl DEF Outcomes
<1> QED
  BY <1>1, <1>2 DEF AfterPublish

(* The commands of replaceSite.                                            *)
LEMMA SiteStep ==
  ASSUME SiteTypeOK, NEW site \in Sites,
         UNCHANGED siteVars \/ WriteSite(site) \/ Validate \/ Restore \/ Reload \/ LeaveSite
  PROVE  SiteTypeOK'
  BY DEF SiteTypeOK, siteVars, WriteSite, Validate, Restore, Reload, LeaveSite

(* Every step keeps the types, the paths and the instance they act on.     *)
LEMMA StepRun == RunInv /\ [Next]_vars => RunInv'
<1> SUFFICES ASSUME RunInv, [Next]_vars PROVE RunInv'
  OBVIOUS
<1> USE DeployAssumption
<1>0. /\ SiteTypeOK /\ svc \in Declarable /\ svc \in Manifests /\ oci \in BOOLEAN
      /\ inst \in Instances \cup {NoInstance}
      /\ store \in SUBSET Images /\ data \in SUBSET Images /\ snaps \in SUBSET SUBSET Images
      /\ pushes \in 0 .. MaxPushes /\ faults \in 0 .. MaxFaults
      /\ pc \in LiveSteps => inst \in Instances
      /\ pc \notin {"repoint", "publish"} => replacing = "no"
  BY DEF RunInv, TypeOK, SiteTypeOK, PathInv, LiveInv
<1>1. CASE Begin
  <2>1. Control'
    BY <1>0, <1>1 DEF Begin, Control, PathInv, RunInv, TypeOK, SiteTypeOK, siteVars, Steps,
                      ReplaceSteps,
                      Paths, FreshSteps, InplaceSteps
  <2>2. LiveInv'
    BY <1>0, <1>1 DEF Begin, LiveInv, LiveSteps, hostVars
  <2> QED
    BY <1>0, <1>1, <2>1, <2>2 DEF Begin, RunInv, TypeOK, Control, SiteTypeOK, siteVars, hostVars
<1>2. CASE Adopt
  <2>1. Control' /\ pc' = "attach"
    BY <1>0, <1>2, GotoControl DEF Adopt, Goto, siteVars, RunInv, PathInv, FreshSteps,
                                   InplaceSteps, BackSteps, ReplaceSteps, Steps
  <2>2. inst' \in Instances
    BY <1>0, <1>2 DEF Adopt, Instances, References, Declarable, LiveSteps
  <2> QED
    BY <1>0, <1>2, <2>1, <2>2 DEF Adopt, RunInv, TypeOK, Control, LiveInv, SiteTypeOK, siteVars
<1>3. CASE PreDeploy
  <2>1. Control' /\ pc' \notin LiveSteps
    BY <1>0, <1>3, GotoControl DEF PreDeploy, Goto, siteVars, RunInv, PathInv, FreshSteps,
                                   InplaceSteps, BackSteps, ReplaceSteps, Steps, LiveSteps
  <2> QED
    BY <1>0, <1>3, <2>1 DEF PreDeploy, RunInv, TypeOK, Control, LiveInv, SiteTypeOK, siteVars,
                            hostVars
<1>4. CASE Snapshot
  <2>1. Control' /\ pc' \notin LiveSteps
    BY <1>0, <1>4, GotoControl DEF Snapshot, Goto, siteVars, RunInv, PathInv, FreshSteps,
                                   InplaceSteps, BackSteps, ReplaceSteps, Steps, LiveSteps
  <2> QED
    BY <1>0, <1>4, <2>1 DEF Snapshot, RunInv, TypeOK, Control, LiveInv, SiteTypeOK, siteVars
<1>5. CASE Delete
  <2>1. Control' /\ pc' \notin LiveSteps
    BY <1>0, <1>5, GotoControl DEF Delete, Goto, siteVars, RunInv, PathInv, FreshSteps,
                                   InplaceSteps, BackSteps, ReplaceSteps, Steps, LiveSteps
  <2> QED
    BY <1>0, <1>5, <2>1 DEF Delete, RunInv, TypeOK, Control, LiveInv, SiteTypeOK, siteVars
<1>6. CASE Launch
  <2>1. ASSUME NEW a \in Addresses, inst' = Fresh(a), store' = store \cup {Launched},
               Goto("attach")
        PROVE  RunInv'
    <3>1. inst' \in Instances /\ store' \in SUBSET Images
      BY <1>0, <1>6, <2>1, FreshInstance DEF Launch
    <3>2. Control' /\ pc' = "attach"
      BY <1>0, <1>6, <2>1, GotoControl DEF Launch, Goto, siteVars, RunInv, PathInv, FreshSteps,
                                     InplaceSteps, BackSteps, ReplaceSteps, Steps
    <3> QED
      BY <1>0, <1>6, <3>1, <3>2 DEF Launch, RunInv, TypeOK, Control, LiveInv, SiteTypeOK, siteVars
  <2>2. CASE Raise /\ UNCHANGED <<inst, store>>
    <3>1. Control' /\ pc' \notin LiveSteps
      BY <1>0, <1>6, <2>2, RaiseControl DEF Launch, siteVars, LiveSteps
    <3> QED
      BY <1>0, <1>6, <2>2, <3>1 DEF Launch, RunInv, TypeOK, Control, LiveInv, SiteTypeOK, siteVars
  <2> QED
    BY <1>6, <2>1, <2>2 DEF Launch
<1>7. CASE Attach
  <2>1. Control' /\ pc' \in {"init", "env", "envfile"}
    BY <1>0, <1>7, GotoControl DEF Attach, AfterAttach, Goto, siteVars, RunInv, TypeOK, PathInv,
                           Paths, FreshSteps, InplaceSteps, BackSteps, ReplaceSteps, Steps
  <2>2. Attaches \in BOOLEAN
    BY <1>0, <1>7 DEF Attach, Attaches, RunInv, TypeOK, PathInv, Paths, Instances, Declarable
  <2>3. inst \in Instances /\ inst' = [inst EXCEPT !.vol = @ \/ Attaches]
    BY <1>0, <1>7 DEF Attach, LiveSteps
  <2>4. inst' \in Instances /\ inst.image \in Images
    BY <2>2, <2>3 DEF Instances
  <2>5. data' \in SUBSET Images
    BY <1>0, <1>7, <2>4 DEF Attach
  <2> QED
    BY <1>0, <1>7, <2>1, <2>4, <2>5 DEF Attach, RunInv, TypeOK, Control, LiveInv, SiteTypeOK,
                                        siteVars
<1>8. CASE WriteEnvFile
  <2>1. Control' /\ pc' = "init"
    BY <1>0, <1>8, GotoControl DEF WriteEnvFile, Goto, siteVars, RunInv, PathInv, FreshSteps,
                                   InplaceSteps, BackSteps, ReplaceSteps, Steps
  <2>2. old \in Instances
    BY <1>8 DEF WriteEnvFile, RunInv, TypeOK, PathInv, Paths, FreshSteps, InplaceSteps
  <2>3. inst' \in Instances
    BY <1>0, <1>8, <2>2 DEF WriteEnvFile, Instances, LiveSteps
  <2> QED
    BY <1>0, <1>8, <2>1, <2>3 DEF WriteEnvFile, RunInv, TypeOK, Control, LiveInv, SiteTypeOK,
                                  siteVars
<1>9. CASE ContainerInit
  <2>1. inst \in Instances
    BY <1>0, <1>9 DEF ContainerInit, LiveSteps
  <2>2. inst' \in Instances
    BY <1>9, <2>1 DEF ContainerInit, Instances
  <2>3. Control'
    <3>1. CASE Raise
      BY <1>0, <1>9, <3>1, RaiseControl DEF ContainerInit, siteVars
    <3>2. CASE Goto(IF path = "fresh" THEN "env" ELSE "restart")
      BY <1>0, <1>9, <3>2, GotoControl DEF ContainerInit, siteVars, RunInv, PathInv, FreshSteps,
                                     InplaceSteps, BackSteps, ReplaceSteps, Steps
    <3> QED
      BY <1>9, <3>1, <3>2 DEF ContainerInit
  <2> QED
    BY <1>0, <1>9, <2>2, <2>3 DEF ContainerInit, RunInv, TypeOK, Control, LiveInv, SiteTypeOK,
                                  siteVars
<1>10. CASE Restart
  <2>1. Control' /\ pc' = "check"
    BY <1>0, <1>10, GotoControl DEF Restart, Goto, siteVars, RunInv, PathInv, FreshSteps,
                                   InplaceSteps, BackSteps, ReplaceSteps, Steps
  <2>2. inst' \in Instances
    BY <1>0, <1>10 DEF Restart, Instances, LiveSteps
  <2> QED
    BY <1>0, <1>10, <2>1, <2>2 DEF Restart, RunInv, TypeOK, Control, LiveInv, SiteTypeOK, siteVars
<1>11. CASE HealthGate
  <2>1. Control'
    <3>1. CASE Raise
      BY <1>0, <1>11, <3>1, RaiseControl DEF HealthGate, siteVars
    <3>2. CASE Goto(IF path \in {"fresh", "inplace"} THEN "publish" ELSE "repoint")
      BY <1>0, <1>11, <3>2, GotoControl DEF HealthGate, siteVars, RunInv, PathInv, FreshSteps,
                                     InplaceSteps, BackSteps, ReplaceSteps, Steps
    <3> QED
      BY <1>11, <3>1, <3>2 DEF HealthGate
  <2>2. inst \in Instances
    BY <1>0, <1>11 DEF HealthGate, LiveSteps
  <2> QED
    BY <1>0, <1>11, <2>1, <2>2 DEF HealthGate, RunInv, TypeOK, Control, LiveInv, SiteTypeOK,
                                   siteVars, hostVars
<1>12. CASE SetEnv
  <2>1. inst \in Instances /\ path \in {"fresh", "inplace", "new"}
    BY <1>0, <1>12 DEF SetEnv, LiveSteps, RunInv, TypeOK, PathInv, Paths, BackSteps, ReplaceSteps
  <2>2. inst' \in Instances
    BY <1>0, <1>12, <2>1 DEF SetEnv, Instances, Declarable
  <2>3. PICK s \in {"publish", "check", "envrestart"} :
               Goto(s) /\ (s = "publish" => path = "new")
    BY <1>12 DEF SetEnv, AfterEnv
  <2>4. Control'
    BY <1>0, <1>12, <2>1, <2>3, GotoControl DEF SetEnv, siteVars, FreshSteps, InplaceSteps,
                                          ReplaceSteps, Steps
  <2> QED
    BY <1>0, <1>12, <2>2, <2>4 DEF SetEnv, RunInv, TypeOK, Control, LiveInv, SiteTypeOK, siteVars
<1>13. CASE RestartEnv
  <2>1. inst \in Instances /\ path \in {"fresh", "inplace", "new"}
    BY <1>0, <1>13 DEF RestartEnv, LiveSteps, RunInv, TypeOK, PathInv, Paths, BackSteps,
                       ReplaceSteps
  <2>2. inst' \in Instances
    BY <1>13, <2>1 DEF RestartEnv, Instances
  <2>3. Control'
    <3>1. CASE Raise
      BY <1>0, <1>13, <3>1, RaiseControl DEF RestartEnv, siteVars
    <3>2. CASE Goto(AfterEnv)
      BY <1>0, <1>13, <2>1, <3>2, GotoControl DEF RestartEnv, AfterEnv, siteVars, FreshSteps,
                                            InplaceSteps, ReplaceSteps, Steps
    <3> QED
      BY <1>13, <3>1, <3>2 DEF RestartEnv, EnvNotRestarted
  <2> QED
    BY <1>0, <1>13, <2>2, <2>3 DEF RestartEnv, RunInv, TypeOK, Control, LiveInv, SiteTypeOK,
                                   siteVars
<1>14. CASE Repoint
  <2>1. inst \in Instances
    BY <1>0, <1>14 DEF Repoint, LiveSteps
  <2>2. CASE AfterRepoint /\ UNCHANGED siteVars
    <3>1. Control'
      BY <1>0, <1>14, <2>2, AfterRepointControl DEF Repoint, siteVars
    <3> QED
      BY <1>0, <1>14, <2>1, <2>2, <3>1 DEF Repoint, RunInv, TypeOK, Control, LiveInv, SiteTypeOK,
                                           siteVars, hostVars
  <2>3. CASE ~Points(inst.addr) /\ WriteSite(Repointed(inst.addr)) /\ UNCHANGED runVars
    <3>1. Repointed(inst.addr) \in Sites
      BY <1>0, <2>1, <2>3 DEF Repointed, Points, Sites, SiteTypeOK, Instances
    <3>2. SiteTypeOK'
      BY <1>0, <2>3, <3>1, SiteStep
    <3>3. Control'
      BY <1>14, <2>3, SameControl DEF Repoint
    <3> QED
      BY <1>0, <1>14, <2>1, <3>2, <3>3 DEF Repoint, RunInv, TypeOK, Control, LiveInv, hostVars
  <2> QED
    BY <1>14, <2>2, <2>3 DEF Repoint
<1>15. CASE Publish
  <2>1. inst \in Instances
    BY <1>0, <1>15 DEF Publish, LiveSteps
  <2>2. CASE AfterPublish /\ UNCHANGED siteVars
    <3>1. Control'
      BY <1>0, <1>15, <2>2, AfterPublishControl DEF Publish, siteVars
    <3> QED
      BY <1>0, <1>15, <2>1, <2>2, <3>1 DEF Publish, RunInv, TypeOK, Control, LiveInv, SiteTypeOK,
                                           siteVars, hostVars
  <2>3. CASE svc.route # NoRoute /\ WriteSite(Desired) /\ UNCHANGED runVars
    <3>1. Desired \in Sites
      BY <1>0, <2>1, <2>3 DEF Desired, Sites, Instances, Declarable
    <3>2. SiteTypeOK'
      BY <1>0, <2>3, <3>1, SiteStep
    <3>3. Control'
      BY <1>15, <2>3, SameControl DEF Publish
    <3> QED
      BY <1>0, <1>15, <2>1, <3>2, <3>3 DEF Publish, RunInv, TypeOK, Control, LiveInv, hostVars
  <2> QED
    BY <1>15, <2>2, <2>3 DEF Publish
<1>16. CASE ReplaceSite
  <2>1. inst \in Instances /\ pc \in {"repoint", "publish"}
    BY <1>0, <1>16 DEF ReplaceSite, Validate, Restore, Reload, LiveSteps
  <2>2. SiteTypeOK'
    BY <1>0, <1>16 DEF ReplaceSite, SiteTypeOK, Validate, Restore, Reload
  <2>3. Control'
    <3>1. CASE Validate /\ UNCHANGED runVars
      BY <1>16, <2>1, <3>1, SameControl DEF ReplaceSite
    <3>2. CASE Restore /\ Raise
      BY <1>16, <3>2, RaiseControl DEF ReplaceSite, Restore
    <3>3. CASE Reload /\ IF pc = "repoint" THEN AfterRepoint ELSE AfterPublish
      BY <1>0, <1>16, <2>1, <3>3, AfterRepointControl, AfterPublishControl
         DEF ReplaceSite, Reload
    <3> QED
      BY <1>16, <3>1, <3>2, <3>3 DEF ReplaceSite
  <2> QED
    BY <1>0, <1>16, <2>1, <2>2, <2>3 DEF ReplaceSite, RunInv, TypeOK, Control, LiveInv, hostVars
<1>17. CASE PostDeploy
  <2>1. Control' /\ pc' = "ended"
    BY <1>0, <1>17, EndControl DEF PostDeploy, siteVars, Outcomes
  <2> QED
    BY <1>0, <1>17, <2>1 DEF PostDeploy, RunInv, TypeOK, Control, LiveInv, LiveSteps, SiteTypeOK,
                             siteVars, hostVars
<1>18. CASE Return
  <2>1. Control' /\ pc' = "idle"
    BY <1>0, <1>18, ForgetControl DEF Return, siteVars
  <2> QED
    BY <1>0, <1>18, <2>1 DEF Return, RunInv, TypeOK, Control, LiveInv, LiveSteps, SiteTypeOK,
                             siteVars, hostVars
<1>19. CASE CommandFails
  <2>1. SiteTypeOK' /\ replacing' = "no"
    BY <1>0, <1>19 DEF CommandFails, SiteTypeOK, Restore, ReloadFails, LeaveSite, siteVars
  <2>2. inst' \in Instances \cup {NoInstance}
    <3>1. CASE pc = "delete"
      <4>1. \A i \in Instances : [i EXCEPT !.up = FALSE] \in Instances
        BY DEF Instances
      <4> QED
        BY <1>0, <1>19, <3>1, <4>1 DEF CommandFails
    <3>2. CASE pc = "launch"
      BY <1>0, <1>19, <3>2, FreshInstance DEF CommandFails
    <3>3. CASE pc \notin {"delete", "launch"}
      BY <1>0, <1>19, <3>3 DEF CommandFails
    <3> QED
      BY <3>1, <3>2, <3>3
  <2>3. Control' /\ (pc' \in LiveSteps => inst' \in Instances)
    <3>1. CASE Raise
      BY <1>0, <1>19, <2>1, <3>1, RaiseControl DEF CommandFails, LiveSteps
    <3>2. CASE pc = "envrestart" /\ Goto(AfterEnv)
      <4>1. path \in {"fresh", "inplace", "new"}
        BY <3>2 DEF RunInv, TypeOK, PathInv, Paths, BackSteps, ReplaceSteps
      <4>2. Control'
        BY <1>0, <1>19, <2>1, <3>2, <4>1, GotoControl DEF CommandFails, AfterEnv, FreshSteps,
                                                        InplaceSteps, ReplaceSteps, Steps
      <4>3. inst' \in Instances
        BY <1>0, <1>19, <3>2 DEF CommandFails, LiveSteps
      <4> QED
        BY <4>2, <4>3
    <3> QED
      BY <1>19, <3>1, <3>2 DEF CommandFails, EnvNotRestarted
  <2>4. faults' \in 0 .. MaxFaults
    BY <1>0, <1>19 DEF CommandFails, Fault
  <2> QED
    BY <1>0, <1>19, <2>1, <2>2, <2>3, <2>4 DEF CommandFails, RunInv, TypeOK, Control, LiveInv
<1>20. CASE Kill
  <2>1. SiteTypeOK' /\ replacing' = "no"
    BY <1>0, <1>20 DEF Kill, SiteTypeOK, LeaveSite
  <2>2. Control' /\ pc' = "idle"
    BY <1>20, <2>1, ForgetControl DEF Kill
  <2>3. faults' \in 0 .. MaxFaults
    BY <1>0, <1>20 DEF Kill, Fault
  <2> QED
    BY <1>0, <1>20, <2>1, <2>2, <2>3 DEF Kill, RunInv, TypeOK, Control, LiveInv, LiveSteps,
                                         hostVars
<1>21. CASE Reboot
  <2>1. SiteTypeOK' /\ replacing' = replacing
    BY <1>0, <1>21 DEF Reboot, SiteTypeOK, RestartEdge
  <2>2. inst' \in Instances \cup {NoInstance}
    <3>1. \A i \in Instances, a \in Addresses :
            [i EXCEPT !.ran = i.env, !.addr = a] \in Instances
      BY DEF Instances
    <3>2. CASE ~Running(inst)
      BY <1>0, <1>21, <3>2 DEF Reboot
    <3>3. CASE Running(inst)
      <4>1. PICK a \in Addresses : inst' = [inst EXCEPT !.ran = inst.env, !.addr = a]
        BY <1>21, <3>3 DEF Reboot
      <4> QED
        BY <1>0, <3>1, <3>3, <4>1 DEF Running
    <3> QED
      BY <3>2, <3>3
  <2>3. Control' /\ pc' = "idle"
    BY <1>0, <1>21, <2>1, SameControl DEF Reboot, runVars
  <2>4. faults < MaxFaults /\ faults' = faults + 1
    BY <1>21, Zenon DEF Reboot, Fault
  <2>5. faults' \in 0 .. MaxFaults
    BY <1>0, <2>4
  <2> QED
    BY <1>0, <1>21, <2>1, <2>2, <2>3, <2>5 DEF Reboot, RunInv, TypeOK, Control, LiveInv, LiveSteps
<1>22. CASE Push
  <2>1. Control' /\ pc' = "idle"
    BY <1>0, <1>22, SameControl DEF Push, runVars, siteVars
  <2>2. svc' \in Manifests /\ pushes' \in 0 .. MaxPushes
    BY <1>0, <1>22 DEF Push
  <2> QED
    BY <1>0, <1>22, <2>1, <2>2 DEF Push, RunInv, TypeOK, Control, LiveInv, LiveSteps, SiteTypeOK,
                                   siteVars, hostVars
<1>23. CASE SetOtherKey
  <2>1. Control' /\ pc' = "idle"
    BY <1>0, <1>23, SameControl DEF SetOtherKey, runVars, siteVars
  <2>2. inst' \in Instances
    BY <1>0, <1>23 DEF SetOtherKey, Running, Instances
  <2> QED
    BY <1>0, <1>23, <2>1, <2>2 DEF SetOtherKey, RunInv, TypeOK, Control, LiveInv, LiveSteps,
                                   SiteTypeOK, siteVars
<1>24. CASE Expire
  <2>1. Control' /\ pc' = "idle"
    BY <1>0, <1>24, SameControl DEF Expire, runVars, siteVars
  <2>2. store' \in SUBSET Images
    BY <1>0, <1>24 DEF Expire
  <2> QED
    BY <1>0, <1>24, <2>1, <2>2 DEF Expire, RunInv, TypeOK, Control, LiveInv, LiveSteps,
                                   SiteTypeOK, siteVars
<1>25. CASE UNCHANGED vars
  <2>1. Control'
    BY <1>0, <1>25, SameControl DEF vars, runVars, siteVars
  <2>2. UNCHANGED <<siteVars, svc, oci, hostVars, pc, pushes, faults>>
    BY <1>25 DEF vars, runVars
  <2> QED
    BY <1>0, <2>1, <2>2 DEF RunInv, TypeOK, Control, LiveInv, SiteTypeOK, siteVars, hostVars
<1> QED
  BY <1>1, <1>2, <1>3, <1>4, <1>5, <1>6, <1>7, <1>8, <1>9, <1>10, <1>11, <1>12, <1>13, <1>14,
     <1>15, <1>16, <1>17, <1>18, <1>19, <1>20, <1>21, <1>22, <1>23, <1>24, <1>25
     DEF Next, Deploy

(* The instance is one from the start of a deploy that found one, or it    *)
(* has been made anew.                                                     *)
LEMMA RaiseKeeps ==
  ASSUME RunInv, Raise, Keeps', pc # "ended", old # NoInstance
  PROVE  Keeps
<1>1. CASE \E way \in {"back", "pull"} : path' = way
  BY <1>1 DEF Raise, Keeps, KeepSteps, BacksBy, RunInv, TypeOK, PathInv
<1>2. CASE \A way \in {"back", "pull"} : ~BacksBy(way)
  <2>1. path # "new" \/ pc \notin ReplaceSteps
    BY <1>2 DEF BacksBy
  <2>2. path' = path /\ pc' = "ended"
    BY <1>2 DEF Raise
  <2>3. path \notin {"back", "pull"} \/ pc = "repoint"
    BY <1>2, <2>2 DEF Raise, Keeps, KeepSteps
  <2> QED
    BY <2>1, <2>3 DEF Keeps, KeepSteps, RunInv, TypeOK, PathInv, Paths, Steps, ReplaceSteps
<1> QED
  BY <1>1, <1>2 DEF Raise

(* Every step keeps other systems' keys, on the instance or in what was    *)
(* read of it.                                                             *)
LEMMA StepKeys == RunInv /\ KeysInv /\ [Next]_vars => KeysInv'
<1> SUFFICES ASSUME RunInv, KeysInv, [Next]_vars, old' # NoInstance, old'.extra, Keeps'
             PROVE  inst' # NoInstance /\ inst'.extra
  BY DEF KeysInv
<1> USE DeployAssumption
<1>0. /\ oci \in BOOLEAN
      /\ svc.env \in Values
      /\ inst \in Instances \cup {NoInstance}
      /\ pc \in LiveSteps => inst \in Instances
      /\ old # NoInstance => path # "fresh"
      /\ old # NoInstance => pc # "idle"
  BY DEF RunInv, TypeOK, PathInv, LiveInv, Declarable
<1>a. ASSUME old' = old, Keeps, inst \in Instances => inst' \in Instances /\ inst'.extra = inst.extra
      PROVE  inst' # NoInstance /\ inst'.extra
  BY <1>0, <1>a DEF KeysInv
<1>1. CASE Begin
  BY <1>1 DEF Begin, hostVars
<1>2. CASE Adopt
  <2>1. old' = old /\ Keeps /\ inst' = [inst EXCEPT !.ref = svc.image]
    BY <1>2 DEF Adopt, Goto, Keeps, KeepSteps
  <2>2. inst' \in Instances
    BY <1>2, StepRun DEF RunInv, LiveInv, LiveSteps, Adopt, Goto
  <2>3. inst \in Instances => inst'.extra = inst.extra
    BY <2>1 DEF Instances
  <2> QED
    BY <2>1, <2>2, <2>3, <1>a
<1>3. CASE PreDeploy
  BY <1>3, <1>a DEF PreDeploy, Goto, hostVars, Keeps, KeepSteps
<1>4. CASE Snapshot
  BY <1>4, <1>a DEF Snapshot, Goto, Keeps, KeepSteps
<1>5. CASE Delete
  BY <1>5 DEF Delete, Goto, Keeps, KeepSteps, RunInv, PathInv, InplaceSteps
<1>6. CASE Launch
  <2>1. ASSUME NEW a \in Addresses, inst' = Fresh(a), Goto("attach")
        PROVE  inst' # NoInstance /\ inst'.extra
    <3>1. path \notin {"fresh", "inplace"} /\ oci
      BY <1>0, <1>6, <2>1 DEF Launch, Goto, Keeps, KeepSteps, RunInv, PathInv, InplaceSteps
    <3>2. Fresh(a) \in Instances /\ old' = old
      BY <1>6, <2>1, FreshInstance DEF Launch, Goto
    <3>3. Fresh(a).extra = old.extra
      BY <3>1, <3>2 DEF Fresh
    <3> QED
      BY <2>1, <3>2, <3>3
  <2>2. CASE Raise /\ UNCHANGED <<inst, store>>
    BY <1>6, <2>2, <1>a, RaiseKeeps DEF Launch, Raise
  <2> QED
    BY <1>6, <2>1, <2>2 DEF Launch
<1>7. CASE Attach
  BY <1>0, <1>7, <1>a DEF Attach, AfterAttach, Goto, Instances, Keeps, KeepSteps
<1>8. CASE WriteEnvFile
  <2>1. inst \in Instances /\ old' = old
    BY <1>0, <1>8 DEF WriteEnvFile, Goto, LiveSteps
  <2>2. CASE oci
    BY <1>8, <2>1, <2>2, <1>a DEF WriteEnvFile, Keeps
  <2>3. CASE ~oci
    <3>1. inst' \in Instances
      BY <1>8, StepRun DEF RunInv, LiveInv, LiveSteps, WriteEnvFile, Goto
    <3>2. inst'.extra = old.extra
      BY <1>8, <2>1, <2>3 DEF WriteEnvFile, Instances
    <3> QED
      BY <2>1, <3>1, <3>2
  <2> QED
    BY <2>2, <2>3
<1>9. CASE ContainerInit
  <2>1. Keeps /\ old' = old
    BY <1>0, <1>9, RaiseKeeps DEF ContainerInit, Goto, Raise, Keeps, KeepSteps
  <2> QED
    BY <1>0, <1>9, <2>1, <1>a DEF ContainerInit, Instances
<1>10. CASE Restart
  BY <1>0, <1>10, <1>a DEF Restart, Goto, Instances, Keeps, KeepSteps
<1>11. CASE HealthGate
  BY <1>0, <1>11, <1>a, RaiseKeeps DEF HealthGate, hostVars, Goto, Raise, Keeps, KeepSteps
<1>12. CASE SetEnv
  <2>1. old' = old /\ Keeps /\ inst \in Instances /\ pc = "env"
    BY <1>0, <1>12 DEF SetEnv, Goto, Keeps, KeepSteps, LiveSteps
  <2>2. inst' = inst \/ inst' = [inst EXCEPT !.env = svc.env]
    BY <1>12 DEF SetEnv
  <2>3. inst'.extra = inst.extra
    BY <2>1, <2>2 DEF Instances
  <2>4. inst' \in Instances
    BY <2>1, <2>2, <1>0 DEF Instances
  <2> QED
    BY <2>1, <2>3, <2>4, <1>a
<1>13. CASE RestartEnv
  <2>1. Keeps /\ old' = old
    BY <1>0, <1>13 DEF RestartEnv, EnvNotRestarted, Goto, Raise, Keeps, KeepSteps
  <2> QED
    BY <1>0, <1>13, <2>1, <1>a DEF RestartEnv, Instances
<1>14. CASE Repoint
  BY <1>14, <1>a DEF Repoint, AfterRepoint, Goto, End, runVars, hostVars, Keeps, KeepSteps
<1>15. CASE Publish
  BY <1>15, <1>a DEF Publish, AfterPublish, Goto, End, runVars, hostVars, Keeps, KeepSteps
<1>16. CASE ReplaceSite
  <2>1. pc \in {"repoint", "publish"}
    BY <1>16 DEF ReplaceSite, Validate, Restore, Reload, RunInv, PathInv
  <2>2. old' = old
    BY <1>16 DEF ReplaceSite, Raise, AfterRepoint, AfterPublish, Goto, End, runVars
  <2> QED
    BY <1>16, <2>1, <2>2, <1>a DEF ReplaceSite, hostVars, Keeps, KeepSteps
<1>17. CASE PostDeploy
  BY <1>17, <1>a DEF PostDeploy, End, hostVars, Keeps, KeepSteps
<1>18. CASE Return
  BY <1>18 DEF Return, Forget
<1>19. CASE CommandFails
  <2>1. old' = old /\ Keeps
    BY <1>0, <1>19, RaiseKeeps DEF CommandFails, EnvNotRestarted, Raise, Goto, Keeps, KeepSteps
  <2>2. pc # "launch"
    BY <1>0, <2>1 DEF Keeps, KeepSteps, RunInv, PathInv, InplaceSteps
  <2>3. inst \in Instances => inst' \in Instances /\ inst'.extra = inst.extra
    <3>1. \A i \in Instances : [i EXCEPT !.up = FALSE] \in Instances
                               /\ [i EXCEPT !.up = FALSE].extra = i.extra
      BY DEF Instances
    <3> QED
      BY <1>19, <2>2, <3>1 DEF CommandFails
  <2> QED
    BY <2>1, <2>3, <1>a
<1>20. CASE Kill
  BY <1>20 DEF Kill, Forget
<1>21. CASE Reboot \/ Push \/ SetOtherKey \/ Expire
  BY <1>0, <1>21 DEF Reboot, Push, SetOtherKey, Expire, runVars
<1>22. CASE UNCHANGED vars
  BY <1>22, <1>a DEF vars, runVars, hostVars, Keeps
<1> QED
  BY <1>1, <1>2, <1>3, <1>4, <1>5, <1>6, <1>7, <1>8, <1>9, <1>10, <1>11, <1>12, <1>13, <1>14,
     <1>15, <1>16, <1>17, <1>18, <1>19, <1>20, <1>21, <1>22 DEF Next, Deploy

(* Where the way back has only begun, or is not taken, there is nothing to *)
(* show.                                                                   *)
LEMMA NoBack ==
  ASSUME \/ path' \notin {"back", "pull"}
         \/ pc' \in {"delete", "launch"}
         \/ pc' = "ended" /\ outcome' # "rolledback"
  PROVE  BackInv'
  BY DEF BackInv, BackAt, LaunchedSteps, EnvSteps

LEMMA RaiseBack ==
  ASSUME Raise, RouteInv, pc # "ended"
  PROVE  BackInv' /\ RouteInv'
<1>1. \/ pc' = "delete" /\ outcome' = outcome
      \/ pc' = "ended" /\ outcome' \in {"unrouted", "lost", "failed"}
  BY DEF Raise
<1> QED
  BY <1>1, NoBack DEF RouteInv

(* The way back puts one field back at each step and keeps the earlier     *)
(* ones.                                                                   *)
LEMMA StepBack == DeployInv /\ [Next]_vars => BackInv'
<1> SUFFICES ASSUME DeployInv, [Next]_vars PROVE BackInv'
  OBVIOUS
<1> USE DEF DeployInv
<1>0. /\ pc \in LiveSteps => inst \in Instances
      /\ path \in {"back", "pull"} => pc \in BackSteps /\ old \in Instances
      /\ oci \in BOOLEAN
      /\ pc # "ended" => outcome = "none"
  BY DEF RunInv, TypeOK, PathInv, LiveInv, RouteInv
<1>1. CASE Begin \/ Return \/ Kill
  BY <1>1, NoBack DEF Begin, Return, Kill, Forget
<1>2. CASE Adopt \/ PreDeploy \/ Snapshot \/ SetEnv \/ RestartEnv \/ Publish \/ PostDeploy
  <2>1. path \notin {"back", "pull"}
    BY <1>0, <1>2 DEF BackSteps, ReplaceSteps, Adopt, PreDeploy, Snapshot, SetEnv, RestartEnv,
                      Publish, PostDeploy
  <2>2. path' = path \/ Raise
    BY <1>2 DEF Adopt, PreDeploy, Snapshot, SetEnv, RestartEnv, EnvNotRestarted, Publish,
                AfterPublish, PostDeploy, Goto, End, runVars
  <2>3. pc # "ended"
    BY <1>2 DEF Adopt, PreDeploy, Snapshot, SetEnv, RestartEnv, Publish, PostDeploy
  <2> QED
    BY <2>1, <2>2, <2>3, NoBack, RaiseBack
<1>3. CASE Reboot \/ Push \/ SetOtherKey \/ Expire
  BY <1>0, <1>3, NoBack DEF Reboot, Push, SetOtherKey, Expire, runVars, BackSteps, ReplaceSteps
<1>4. CASE Delete
  BY <1>4, NoBack DEF Delete, Goto
<1>5. CASE CommandFails
  <2>1. CASE Raise
    BY <1>5, <2>1, RaiseBack DEF CommandFails
  <2>2. CASE pc = "envrestart" /\ Goto(AfterEnv)
    BY <1>0, <2>2, NoBack DEF Goto, BackSteps, ReplaceSteps
  <2> QED
    BY <1>5, <2>1, <2>2 DEF CommandFails, EnvNotRestarted
<1>6. CASE Launch
  <2>1. ASSUME NEW a \in Addresses, inst' = Fresh(a), Goto("attach"), path \in {"back", "pull"}
        PROVE  BackInv'
    <3>1. Fresh(a) \in Instances /\ UNCHANGED <<old, path, oci>> /\ pc' = "attach"
      BY <1>6, <2>1, FreshInstance DEF Launch, Goto
    <3>2. /\ Fresh(a).image = (IF path = "pull" THEN old.ref ELSE old.image)
          /\ Fresh(a).ref = old.ref /\ Fresh(a).up /\ Fresh(a).vol = FALSE
          /\ oci => /\ Fresh(a).env = old.env /\ Fresh(a).extra = old.extra
                    /\ Fresh(a).ran = old.env
      BY <1>0, <2>1 DEF Fresh, Launched, Instances
    <3> QED
      BY <2>1, <3>1, <3>2 DEF BackInv, BackAt, BackLaunched, LaunchedSteps, EnvSteps
  <2>2. CASE path \notin {"back", "pull"} /\ path' = path
    BY <2>2, NoBack
  <2> QED
    BY <1>6, <2>1, <2>2, RaiseBack DEF Launch, Goto
<1>7. CASE Attach
  <2>1. CASE path \in {"back", "pull"}
    <3>1. /\ inst \in Instances /\ old \in Instances /\ BackLaunched /\ ~inst.vol
          /\ UNCHANGED <<old, path, oci>> /\ pc' = "envfile"
      BY <1>0, <1>7, <2>1 DEF Attach, AfterAttach, Goto, LiveSteps, BackInv, BackAt,
                              LaunchedSteps
    <3>2. inst' = [inst EXCEPT !.vol = old.vol]
      BY <1>7, <2>1, <3>1 DEF Attach, Attaches, Instances
    <3>3. /\ inst' \in Instances /\ inst'.vol = old.vol
          /\ UNCHANGED <<inst.image, inst.ref, inst.env, inst.extra, inst.ran, inst.up>>
      BY <3>1, <3>2 DEF Instances
    <3>4. BackLaunched'
      BY <3>1, <3>3 DEF BackLaunched
    <3> QED
      BY <3>1, <3>3, <3>4 DEF BackInv, BackAt, LaunchedSteps, EnvSteps
  <2> QED
    BY <1>7, <2>1, NoBack DEF Attach, Goto
<1>8. CASE WriteEnvFile
  <2>1. CASE path \in {"back", "pull"}
    <3>1. /\ inst \in Instances /\ old \in Instances /\ BackLaunched /\ inst.vol = old.vol
          /\ UNCHANGED <<old, path, oci>> /\ pc' = "init"
      BY <1>0, <1>8, <2>1 DEF WriteEnvFile, Goto, LiveSteps, BackInv, BackAt, LaunchedSteps
    <3>2. /\ inst' \in Instances /\ inst'.env = old.env /\ inst'.extra = old.extra
          /\ UNCHANGED <<inst.image, inst.ref, inst.ran, inst.up, inst.vol>>
      BY <1>8, <3>1 DEF WriteEnvFile, BackLaunched, Instances
    <3>3. BackLaunched'
      BY <3>1, <3>2 DEF BackLaunched
    <3> QED
      BY <3>1, <3>2, <3>3 DEF BackInv, BackAt, LaunchedSteps, EnvSteps
  <2> QED
    BY <1>8, <2>1, NoBack DEF WriteEnvFile, Goto
<1>9. CASE ContainerInit
  <2>1. CASE path \in {"back", "pull"} /\ ~Raise
    <3>1. /\ inst \in Instances /\ BackLaunched /\ inst.vol = old.vol
          /\ inst.env = old.env /\ inst.extra = old.extra
          /\ UNCHANGED <<old, path, oci>> /\ pc' = "restart"
      BY <1>0, <1>9, <2>1 DEF ContainerInit, Goto, LiveSteps, BackInv, BackAt, LaunchedSteps,
                              EnvSteps
    <3>2. inst' = [inst EXCEPT !.ready = TRUE]
      BY <1>9, <2>1 DEF ContainerInit
    <3>3. /\ inst' \in Instances /\ inst'.ready
          /\ UNCHANGED <<inst.image, inst.ref, inst.env, inst.extra, inst.ran, inst.up, inst.vol>>
      BY <3>1, <3>2 DEF Instances
    <3>4. BackLaunched'
      BY <3>1, <3>3 DEF BackLaunched
    <3> QED
      BY <3>1, <3>3, <3>4 DEF BackInv, BackAt, LaunchedSteps, EnvSteps
  <2> QED
    BY <1>9, <2>1, NoBack, RaiseBack DEF ContainerInit, Goto
<1>10. CASE Restart
  <2>1. CASE path \in {"back", "pull"}
    <3>1. /\ inst \in Instances /\ BackLaunched /\ inst.vol = old.vol /\ inst.ready
          /\ inst.env = old.env /\ inst.extra = old.extra
          /\ UNCHANGED <<old, path, oci>> /\ pc' = "check"
      BY <1>0, <1>10, <2>1 DEF Restart, Goto, LiveSteps, BackInv, BackAt, LaunchedSteps, EnvSteps
    <3>2. /\ inst' \in Instances /\ inst'.ran = old.env
          /\ UNCHANGED <<inst.image, inst.ref, inst.env, inst.extra, inst.ready, inst.up, inst.vol>>
      BY <1>10, <3>1 DEF Restart, BackLaunched, Instances
    <3>3. BackLaunched'
      BY <3>1, <3>2 DEF BackLaunched
    <3> QED
      BY <3>1, <3>2, <3>3 DEF BackInv, BackAt, LaunchedSteps, EnvSteps
  <2> QED
    BY <1>10, <2>1, NoBack DEF Restart, Goto
<1>11. CASE HealthGate
  <2>1. CASE path \in {"back", "pull"} /\ Healthy(inst)
    <3>1. /\ BackLaunched /\ inst.vol = old.vol /\ inst.ready
          /\ inst.env = old.env /\ inst.extra = old.extra /\ inst.ran = old.env
          /\ UNCHANGED <<inst, old, path, oci>> /\ pc' = "repoint"
      BY <1>11, <2>1 DEF HealthGate, Goto, hostVars, BackInv, BackAt, LaunchedSteps, EnvSteps
    <3> QED
      BY <2>1, <3>1 DEF BackInv, BackAt, BackLaunched, LaunchedSteps, EnvSteps, Healthy, Running
  <2> QED
    BY <1>11, <2>1, NoBack, RaiseBack DEF HealthGate, Goto
<1>12. CASE (Repoint \/ ReplaceSite) /\ ~Raise
  <2>1. UNCHANGED <<inst, oci>>
    BY <1>12 DEF Repoint, ReplaceSite, hostVars
  <2>2. CASE UNCHANGED runVars
    BY <2>1, <2>2 DEF runVars, BackInv, BackAt, BackLaunched, LaunchedSteps, EnvSteps, Healthy,
                      Running
  <2>3. CASE pc = "repoint" /\ AfterRepoint
    <3>1. CASE path = "new"
      BY <2>3, <3>1, NoBack DEF AfterRepoint, Goto
    <3>2. CASE path # "new"
      <4>1. UNCHANGED <<inst, old, path, oci>> /\ pc' = "ended"
        BY <2>1, <2>3, <3>2 DEF AfterRepoint, End
      <4> QED
        BY <2>3, <4>1 DEF BackInv, BackAt, BackLaunched, LaunchedSteps, EnvSteps, Healthy, Running
    <3> QED
      BY <3>1, <3>2
  <2>4. CASE pc # "repoint" /\ AfterPublish /\ replacing # "no"
    <3>1. path \notin {"back", "pull"}
      BY <1>0, <2>4 DEF RunInv, PathInv, BackSteps, ReplaceSteps
    <3> QED
      BY <2>4, <3>1, NoBack DEF AfterPublish, Goto, End
  <2> QED
    BY <1>12, <2>2, <2>3, <2>4 DEF Repoint, ReplaceSite, Reload
<1>13. CASE ReplaceSite /\ Raise
  <2>1. pc # "ended"
    BY <1>13 DEF ReplaceSite, Validate, Restore, Reload, RunInv, PathInv
  <2> QED
    BY <1>13, <2>1, RaiseBack
<1>14. CASE Repoint /\ Raise
  BY <1>14, RaiseBack DEF Repoint
<1>15. CASE UNCHANGED vars
  BY <1>15 DEF vars, runVars, hostVars, BackInv, BackAt, BackLaunched, LaunchedSteps, EnvSteps,
               Healthy, Running
<1> QED
  BY <1>1, <1>2, <1>3, <1>4, <1>5, <1>6, <1>7, <1>8, <1>9, <1>10, <1>11, <1>12, <1>13, <1>14,
     <1>15 DEF Next, Deploy

(* A rollback that ends has the route at the instance's address.           *)
LEMMA RolledBack ==
  ASSUME AfterRepoint, path \in {"new", "back", "pull"}, outcome = "none", pc = "repoint", replacing' = "no",
         Points(inst.addr), UNCHANGED <<inst, file>>
  PROVE  RouteInv'
<1>1. CASE path = "new"
  BY <1>1 DEF AfterRepoint, Goto, RouteInv
<1>2. CASE path \in {"back", "pull"}
  BY <1>2 DEF AfterRepoint, End, RouteInv, Points
<1> QED
  BY <1>1, <1>2

(* A route that is being repointed, or was, has the address of the         *)
(* instance.                                                               *)
LEMMA StepRoute == DeployInv /\ [Next]_vars => RouteInv'
<1> SUFFICES ASSUME DeployInv, [Next]_vars PROVE RouteInv'
  OBVIOUS
<1> USE DEF DeployInv
<1>0. /\ SiteTypeOK
      /\ replacing # "no" => pc \in {"repoint", "publish"}
      /\ pc # "ended" => outcome = "none"
      /\ pc = "repoint" => path \in {"new", "back", "pull"}
  BY DEF RunInv, TypeOK, PathInv, RouteInv, Paths, FreshSteps, InplaceSteps
<1>1. CASE pc # "ended" /\ pc' = "ended" /\ outcome' \notin {"rolledback"}
  BY <1>1 DEF RouteInv
<1>2. CASE pc # "ended" /\ pc' \notin {"ended", "repoint"} /\ outcome' = "none"
  BY <1>2 DEF RouteInv
<1>3. CASE pc # "ended" /\ pc' = "repoint" /\ replacing' = "no" /\ outcome' = "none"
  BY <1>3 DEF RouteInv
<1>4. CASE Raise /\ pc # "ended"
  BY <1>4, RaiseBack
<1>5. CASE Return \/ Kill
  BY <1>5 DEF Return, Kill, Forget, RouteInv
<1>6. CASE Begin \/ Adopt \/ PreDeploy \/ Snapshot \/ Delete
  BY <1>0, <1>2, <1>6 DEF Begin, Adopt, PreDeploy, Snapshot, Delete, Goto
<1>7. CASE Launch \/ Attach \/ WriteEnvFile \/ ContainerInit \/ Restart
  BY <1>0, <1>2, <1>4, <1>7 DEF Launch, Attach, AfterAttach, WriteEnvFile, ContainerInit,
                                Restart, Goto
<1>8. CASE HealthGate
  BY <1>0, <1>2, <1>3, <1>4, <1>8 DEF HealthGate, Goto, siteVars
<1>9. CASE SetEnv \/ RestartEnv
  BY <1>0, <1>2, <1>4, <1>9 DEF SetEnv, RestartEnv, AfterEnv, EnvNotRestarted, Goto
<1>10. CASE Repoint
  <2>1. CASE AfterRepoint /\ Points(inst.addr) /\ UNCHANGED siteVars
    BY <1>0, <1>10, <2>1, RolledBack DEF Repoint, siteVars, hostVars
  <2>2. CASE ~Points(inst.addr) /\ WriteSite(Repointed(inst.addr)) /\ UNCHANGED runVars
    <3>1. file \in Sites /\ file' = [file EXCEPT !.addr = inst.addr] /\ inst' = inst
      BY <1>0, <1>10, <2>2 DEF Points, SiteTypeOK, WriteSite, Repointed, Repoint, hostVars
    <3>2. file'.addr = inst'.addr
      BY <3>1 DEF Sites
    <3> QED
      BY <1>0, <1>10, <2>2, <3>2 DEF RouteInv, Points, runVars, Repoint
  <2> QED
    BY <1>10, <2>1, <2>2 DEF Repoint
<1>11. CASE Publish
  BY <1>0, <1>1, <1>2, <1>11 DEF Publish, AfterPublish, Goto, End, runVars
<1>12. CASE ReplaceSite
  <2>1. inst' = inst /\ replacing # "no"
    BY <1>12 DEF ReplaceSite, hostVars, Validate, Restore, Reload
  <2>2. CASE Validate /\ UNCHANGED runVars
    BY <1>0, <2>1, <2>2 DEF Validate, runVars, RouteInv, Points
  <2>3. CASE Reload /\ pc = "repoint" /\ AfterRepoint
    <3>1. Points(inst.addr) /\ file' = file /\ replacing' = "no"
      BY <2>1, <2>3 DEF RouteInv, Reload
    <3> QED
      BY <1>0, <2>1, <2>3, <3>1, RolledBack
  <2>4. CASE Reload /\ pc # "repoint" /\ AfterPublish
    BY <1>0, <1>1, <1>2, <2>1, <2>4 DEF AfterPublish, Goto, End
  <2> QED
    BY <1>0, <1>4, <1>12, <2>1, <2>2, <2>3, <2>4 DEF ReplaceSite
<1>13. CASE PostDeploy
  BY <1>1, <1>13 DEF PostDeploy, End
<1>14. CASE CommandFails
  BY <1>0, <1>2, <1>4, <1>14 DEF CommandFails, EnvNotRestarted, AfterEnv, Goto
<1>15. CASE Reboot \/ Push \/ SetOtherKey \/ Expire
  BY <1>0, <1>2, <1>15 DEF Reboot, Push, SetOtherKey, Expire, runVars
<1>16. CASE UNCHANGED vars
  BY <1>16 DEF vars, siteVars, hostVars, runVars, RouteInv, Points
<1> QED
  BY <1>5, <1>6, <1>7, <1>8, <1>9, <1>10, <1>11, <1>12, <1>13, <1>14, <1>15, <1>16
     DEF Next, Deploy

(* A step that leaves the edge alone, in a deploy or at its end.           *)
LEMMA SameSite ==
  ASSUME ServeInv, UNCHANGED siteVars,
         \/ pc' = "idle"
         \/ pc # "idle" /\ found' = found /\ outcome \in {"none", outcome'}
  PROVE  ServeInv'
  BY DEF ServeInv, Served, siteVars, Loads

(* An error while the route is replaced ends the deploy.                   *)
LEMMA RaiseSite ==
  ASSUME Raise, pc \in {"repoint", "publish"}
  PROVE  outcome' \notin {"none", "ok", "rolledback"} /\ found' = found
  BY DEF Raise, BacksBy, ReplaceSteps

(* A replacement loads what it writes, puts back what it found, or says    *)
(* that it did neither.                                                    *)
LEMMA StepServe == RunInv /\ RouteInv /\ ServeInv /\ [Next]_vars => ServeInv'
<1> SUFFICES ASSUME RunInv, RouteInv, ServeInv, [Next]_vars PROVE ServeInv'
  OBVIOUS
<1>0. /\ replacing # "no" => pc \in {"repoint", "publish"}
      /\ replacing \in {"no", "validate", "reload"}
      /\ pc # "ended" => outcome = "none"
  BY DEF RunInv, TypeOK, SiteTypeOK, PathInv, RouteInv
<1>1. CASE Begin
  BY <1>0, <1>1 DEF Begin, ServeInv, Served, siteVars, Loads
<1>2. CASE Adopt \/ PreDeploy \/ Snapshot \/ Delete \/ PostDeploy
  BY <1>0, <1>2, SameSite DEF Adopt, PreDeploy, Snapshot, Delete, PostDeploy, Goto, End
<1>3. CASE Launch \/ Attach \/ WriteEnvFile \/ ContainerInit \/ Restart
  BY <1>0, <1>3, SameSite DEF Launch, Attach, WriteEnvFile, ContainerInit, Restart, Goto, Raise
<1>4. CASE HealthGate \/ SetEnv \/ RestartEnv
  BY <1>0, <1>4, SameSite DEF HealthGate, SetEnv, RestartEnv, EnvNotRestarted, Goto, Raise
<1>5. CASE Repoint \/ Publish
  <2>1. CASE UNCHANGED siteVars
    BY <1>0, <1>5, <2>1, SameSite DEF Repoint, Publish, AfterRepoint, AfterPublish, Goto, End,
                                      runVars
  <2>2. ASSUME NEW site, WriteSite(site)
        PROVE  ServeInv'
    BY <2>2 DEF WriteSite, ServeInv, Loads
  <2> QED
    BY <1>5, <2>1, <2>2 DEF Repoint, Publish
<1>6. CASE ReplaceSite
  <2>1. CASE Validate
    BY <2>1 DEF Validate, ServeInv, Loads
  <2>2. CASE Restore /\ Raise
    BY <1>0, <2>2, RaiseSite DEF Restore, ServeInv, Loads
  <2>3. CASE Reload
    BY <2>3 DEF Reload, ServeInv, Served, Loads
  <2> QED
    BY <1>6, <2>1, <2>2, <2>3 DEF ReplaceSite
<1>7. CASE Return \/ Push \/ SetOtherKey \/ Expire
  BY <1>0, <1>7, SameSite DEF Return, Forget, Push, SetOtherKey, Expire, runVars
<1>8. CASE CommandFails
  <2>1. CASE replacing = "no"
    BY <1>0, <1>8, <2>1, SameSite DEF CommandFails, EnvNotRestarted, Raise, Goto
  <2>2. CASE replacing # "no"
    <3>1. outcome' \notin {"none", "ok", "rolledback"}
      BY <1>0, <1>8, <2>2, RaiseSite DEF CommandFails
    <3>2. Restore \/ LeaveSite \/ ReloadFails
      BY <1>0, <1>8, <2>2 DEF CommandFails
    <3> QED
      BY <2>2, <3>1, <3>2 DEF Restore, LeaveSite, ReloadFails, ServeInv, Loads
  <2> QED
    BY <2>1, <2>2
<1>9. CASE Kill
  BY <1>0, <1>9 DEF Kill, Forget, LeaveSite, ServeInv, Loads
<1>10. CASE Reboot
  BY <1>0, <1>10 DEF Reboot, RestartEdge, runVars, ServeInv, Loads
<1>11. CASE UNCHANGED vars
  BY <1>11 DEF vars, runVars, siteVars, ServeInv, Served, Loads
<1> QED
  BY <1>1, <1>2, <1>3, <1>4, <1>5, <1>6, <1>7, <1>8, <1>9, <1>10, <1>11 DEF Next, Deploy

(* At first, Caddy serves the file.                                        *)
LEMMA InitServe == Init => ServeInv
<1> SUFFICES ASSUME Init PROVE ServeInv
  OBVIOUS
<1>1. Loads(file)
  <2>1. CASE file # NoSite
    <3>1. PICK d \in Manifests, a \in Addresses :
            d.route \in Routes \ Refused /\ file = [route |-> d.route, addr |-> a]
      BY <2>1, Zenon DEF Init
    <3> QED
      BY <3>1 DEF Loads
  <2> QED
    BY <2>1 DEF Loads
<1> QED
  BY <1>1 DEF Init, SiteInit, ServeInv

(* The invariant holds.                                                    *)
LEMMA Invariant == Spec => []DeployInv
<1>1. Init => DeployInv
  <2> SUFFICES ASSUME Init PROVE DeployInv
    OBVIOUS
  <2>1. RunInv
    BY InitRun
  <2>2. old = NoInstance /\ path = "inplace" /\ pc = "idle" /\ outcome = "none"
    BY DEF Init
  <2> QED
    BY <2>1, <2>2, InitServe DEF DeployInv, KeysInv, BackInv, RouteInv
<1>2. DeployInv /\ [Next]_vars => DeployInv'
  BY StepRun, StepKeys, StepBack, StepRoute, StepServe DEF DeployInv
<1> QED
  BY <1>1, <1>2, PTL DEF Spec

(* Whatever fails, and whenever the daemon is killed, what the model keeps *)
(* of the host, the edge and the run is of its type: no step acts on an    *)
(* instance that is not there.                                             *)
THEOREM TypeCorrect == Spec => []TypeOK
<1>1. DeployInv => TypeOK
  BY DEF DeployInv, RunInv
<1> QED
  BY <1>1, Invariant, PTL

(* Update reads the environment before it deletes the instance and writes  *)
(* it back, applyEnv merges: keys of others are not lost, however the      *)
(* deploy ends, unless every way back failed.                              *)
THEOREM OtherKeysAreKept == Spec => []KeepsOtherKeys
<1>1. DeployInv => KeepsOtherKeys
  BY DEF DeployInv, KeysInv, Keeps, KeepsOtherKeys
<1> QED
  BY <1>1, Invariant, PTL

(* An update that says it was rolled back has brought back the instance it *)
(* found, whole: image, environment, volume and route, which Caddy serves, *)
(* or had not loaded before.                                               *)
THEOREM RollbackIsWhole == Spec => []RolledBackAsItWas
<1>1. DeployInv => RolledBackAsItWas
  <2> SUFFICES ASSUME DeployInv, outcome = "rolledback"
               PROVE  /\ inst = [old EXCEPT !.image = IF path = "pull" THEN old.ref ELSE @,
                                            !.ran = old.env, !.ready = TRUE, !.up = TRUE,
                                            !.addr = inst.addr]
                      /\ Healthy(inst)
                      /\ Points(inst.addr) /\ Served
    BY DEF RolledBackAsItWas
  <2>1. /\ Points(inst.addr) /\ pc = "ended" /\ path \in {"back", "pull"}
        /\ Served
    BY DEF DeployInv, RouteInv, ServeInv, RunInv, PathInv
  <2>2. old \in Instances
    BY <2>1 DEF DeployInv, RunInv, PathInv
  <2>3. /\ inst \in Instances /\ inst.up
        /\ inst.image = (IF path = "pull" THEN old.ref ELSE old.image)
        /\ inst.ref = old.ref /\ inst.vol = old.vol
        /\ inst.env = old.env /\ inst.extra = old.extra /\ inst.ran = old.env
        /\ inst.ready /\ Healthy(inst)
    BY <2>1 DEF DeployInv, BackInv, BackAt, BackLaunched
  <2>4. inst = [old EXCEPT !.image = IF path = "pull" THEN old.ref ELSE @, !.ran = old.env,
                           !.ready = TRUE, !.up = TRUE, !.addr = inst.addr]
    BY <2>2, <2>3 DEF Instances
  <2> QED
    BY <2>1, <2>3, <2>4
<1> QED
  BY <1>1, Invariant, PTL

(* Where the volume is, and what its snapshots hold.  A snapshot holds     *)
(* what had run by then; without one, nothing has run but the image of the *)
(* instance the volume is attached to, and Update, which goes on with what *)
(* it has read of that instance, finds no volume, or takes the snapshot.   *)
SnapInv ==
  /\ \A s \in snaps : s \subseteq data
  /\ snaps = {} => data = {} \/ (inst # NoInstance /\ inst.vol /\ data = {inst.image})
  /\ path = "fresh" /\ pc \in {"pre", "launch"} => inst = NoInstance
  /\ path = "new" /\ pc \in {"pre", "snapshot"} => inst = old
  /\ path # "inplace" /\ pc = "attach" => ~inst.vol
  /\ path \in {"new", "back", "pull"} /\ pc \in ReplaceSteps /\ snaps = {}
       => data = {} /\ ~old.vol

(* What the volume holds is not changed, and the instance stays as far as  *)
(* the volume goes, or nothing has run on it.                              *)
LEMMA SameVolume ==
  ASSUME RunInv, SnapInv, UNCHANGED <<data, snaps>>,
         \/ inst' = inst
         \/ inst # NoInstance /\ inst' # NoInstance /\ inst'.vol = inst.vol
              /\ inst'.image = inst.image
         \/ snaps = {} => data = {}
  PROVE  /\ \A s \in snaps' : s \subseteq data'
         /\ snaps' = {} => data' = {}
                          \/ (inst' # NoInstance /\ inst'.vol /\ data' = {inst'.image})
  BY DEF SnapInv

(* A step of Update that is not the snapshot.                              *)
LEMMA StepReplace ==
  ASSUME RunInv, SnapInv, UNCHANGED <<data, snaps>>,
         \/ UNCHANGED <<path, old>> /\ pc \in ReplaceSteps
         \/ pc' \notin ReplaceSteps
         \/ Raise
         \/ path' \in {"fresh", "inplace"}
  PROVE  path' \in {"new", "back", "pull"} /\ pc' \in ReplaceSteps /\ snaps' = {}
           => data' = {} /\ ~old'.vol
<1>1. CASE Raise /\ pc' \in ReplaceSteps
  BY <1>1 DEF Raise, BacksBy, ReplaceSteps, SnapInv
<1>2. CASE UNCHANGED <<path, old>> /\ pc \in ReplaceSteps
  BY <1>2 DEF SnapInv
<1> QED
  BY <1>1, <1>2

LEMMA StepSnap == RunInv /\ SnapInv /\ [Next]_vars => SnapInv'
<1> SUFFICES ASSUME RunInv, SnapInv, [Next]_vars PROVE SnapInv'
  OBVIOUS
<1>0. /\ pc \in LiveSteps => inst \in Instances /\ inst # NoInstance
      /\ path \in Paths
      /\ path = "fresh" => pc \in FreshSteps
      /\ path = "inplace" => pc \in InplaceSteps
      /\ path = "new" => old \in Instances
      /\ path \in {"back", "pull"} => pc \in BackSteps
      /\ NoInstance \notin Instances
  BY DeployAssumption DEF RunInv, TypeOK, PathInv, LiveInv
<1>1. CASE Begin
  <2>1. UNCHANGED <<data, snaps, inst>>
    BY <1>1 DEF Begin, hostVars
  <2>2. /\ path' = "fresh" => inst' = NoInstance
        /\ path' = "new" => inst' = old'
        /\ pc' \notin ReplaceSteps \/ path' = "inplace"
    BY <1>1, <2>1 DEF Begin, ReplaceSteps
  <2>3. path' # "inplace" => pc' # "attach"
    BY <2>2 DEF ReplaceSteps
  <2> QED
    BY <2>1, <2>2, <2>3, SameVolume DEF SnapInv
<1>2. CASE PreDeploy
  <2>1. /\ UNCHANGED <<data, snaps, inst, path, old>>
        /\ pc' = IF path = "fresh" THEN "launch" ELSE "snapshot"
    BY <1>2 DEF PreDeploy, hostVars, Goto
  <2>2. path \in {"fresh", "new"}
    BY <1>0, <1>2 DEF PreDeploy, Paths, InplaceSteps, BackSteps, ReplaceSteps
  <2>3. path = "fresh" => inst = NoInstance
    BY <1>2 DEF PreDeploy, SnapInv
  <2>4. path = "new" => inst = old
    BY <1>2 DEF PreDeploy, SnapInv
  <2>5. pc' \in ReplaceSteps => path = "fresh"
    BY <2>1, <2>2 DEF ReplaceSteps
  <2> QED
    BY <2>1, <2>2, <2>3, <2>4, <2>5, SameVolume, StepReplace DEF SnapInv
<1>3. CASE Snapshot
  <2>1. UNCHANGED <<data, inst, path, old>> /\ pc' = "delete"
        /\ snaps' = IF old.vol THEN snaps \cup {data} ELSE snaps
    BY <1>3 DEF Snapshot, Goto
  <2>2. path = "new" /\ inst = old /\ inst \in Instances
    BY <1>0, <1>3 DEF Snapshot, SnapInv, Paths, FreshSteps, InplaceSteps, BackSteps, ReplaceSteps
  <2>3. CASE old.vol
    BY <2>1, <2>2, <2>3 DEF SnapInv
  <2>4. CASE ~old.vol
    <3>1. snaps' = snaps /\ (snaps = {} => data = {})
      BY <2>1, <2>2, <2>4 DEF SnapInv
    <3> QED
      BY <2>1, <2>2, <2>4, <3>1 DEF SnapInv
  <2> QED
    BY <2>3, <2>4
<1>4. CASE Delete
  <2>1. UNCHANGED <<data, snaps, path, old>> /\ pc' = "launch"
    BY <1>4 DEF Delete, Goto
  <2>2. path \in {"new", "back", "pull"} /\ pc \in ReplaceSteps
    BY <1>0, <1>4 DEF Delete, Paths, FreshSteps, InplaceSteps, ReplaceSteps
  <2>3. snaps = {} => data = {}
    BY <2>2 DEF SnapInv
  <2> QED
    BY <2>1, <2>2, <2>3, SameVolume, StepReplace DEF SnapInv
<1>5. CASE Launch
  <2>1. UNCHANGED <<data, snaps>> /\ pc = "launch" /\ pc \in ReplaceSteps
    BY <1>5 DEF Launch, ReplaceSteps
  <2>2. snaps = {} => data = {}
    <3>1. path = "fresh" => inst = NoInstance
      BY <2>1 DEF SnapInv
    <3>2. path # "fresh" => path \in {"new", "back", "pull"}
      BY <1>0, <2>1 DEF Paths, InplaceSteps
    <3> QED
      BY <2>1, <3>1, <3>2 DEF SnapInv
  <2>3. Goto("attach") \/ Raise
    BY <1>5 DEF Launch
  <2>4. pc' \in {"attach", "delete", "ended"} /\ (UNCHANGED <<path, old>> \/ Raise)
    BY <2>3 DEF Goto, Raise
  <2>5. pc' = "attach" => ~inst'.vol
    BY <1>5, <2>3 DEF Launch, Fresh, Goto, Raise
  <2> QED
    BY <2>1, <2>2, <2>4, <2>5, SameVolume, StepReplace DEF SnapInv
<1>6. CASE Attach
  <2>1. /\ inst \in Instances /\ inst # NoInstance /\ inst' = [inst EXCEPT !.vol = @ \/ Attaches]
        /\ snaps' = snaps /\ UNCHANGED <<path, old>> /\ pc' = AfterAttach /\ pc = "attach"
        /\ data' = IF inst'.vol /\ inst.up THEN data \cup {inst.image} ELSE data
    BY <1>0, <1>6 DEF Attach, Goto, LiveSteps
  <2>2. /\ inst' # NoInstance /\ inst'.image = inst.image
        /\ inst'.vol = (inst.vol \/ Attaches)
    <3>1. inst' \in Instances /\ inst'.image = inst.image /\ inst'.vol = (inst.vol \/ Attaches)
      <4>1. Attaches \in BOOLEAN
        BY <1>0, DeployAssumption DEF Attaches, RunInv, TypeOK, PathInv, Instances, Declarable,
                                      Paths
      <4> QED
        BY <2>1, <4>1 DEF Instances
    <3> QED
      BY <1>0, <3>1
  <2>3. \A s \in snaps' : s \subseteq data'
    BY <2>1 DEF SnapInv
  <2>4. snaps' = {} => data' = {} \/ (inst'.vol /\ data' = {inst'.image})
    BY <2>1, <2>2 DEF SnapInv
  <2>5. path \in {"new", "back", "pull"} /\ snaps = {} => data' = {} /\ ~old.vol
    <3>1. path \in {"new", "back", "pull"} /\ snaps = {} => data = {} /\ ~old.vol /\ ~inst.vol
      BY <2>1 DEF SnapInv, ReplaceSteps
    <3> QED
      BY <2>1, <2>2, <3>1 DEF Attaches
  <2>6. pc' \notin {"pre", "launch", "snapshot", "attach"}
    BY <2>1 DEF AfterAttach
  <2> QED
    BY <2>1, <2>2, <2>3, <2>4, <2>5, <2>6 DEF SnapInv
<1>7. CASE CommandFails
  <2>1. UNCHANGED <<data, snaps>> /\ pc \notin {"idle", "ended"}
    BY <1>7 DEF CommandFails
  <2>2. \/ inst' = inst
        \/ inst # NoInstance /\ inst' # NoInstance /\ inst'.vol = inst.vol
             /\ inst'.image = inst.image
        \/ snaps = {} => data = {}
    <3>1. CASE pc \notin {"delete", "launch"}
      BY <1>7, <3>1 DEF CommandFails
    <3>2. CASE pc \in {"delete", "launch"}
      <4>1. path = "fresh" => inst = NoInstance
        BY <1>0, <3>2 DEF SnapInv, FreshSteps
      <4>2. path # "fresh" => path \in {"new", "back", "pull"}
        BY <1>0, <3>2 DEF Paths, InplaceSteps
      <4>3. pc \in ReplaceSteps
        BY <3>2 DEF ReplaceSteps
      <4> QED
        BY <4>1, <4>2, <4>3 DEF SnapInv
    <3> QED
      BY <3>1, <3>2
  <2>3. Raise \/ (Goto(AfterEnv) /\ pc = "envrestart" /\ inst' = inst)
    BY <1>7 DEF CommandFails, EnvNotRestarted
  <2>4. /\ pc' \in {"delete", "ended", "publish", "check"}
        /\ pc' = "check" => path' = path /\ path \notin {"new", "back", "pull"}
    <3>1. path \notin {"back", "pull"} \/ pc # "envrestart"
      BY <1>0 DEF BackSteps, ReplaceSteps
    <3> QED
      BY <1>0, <2>3, <3>1 DEF Raise, Goto, AfterEnv, Paths
  <2>5. path' \in {"new", "back", "pull"} /\ pc' \in ReplaceSteps /\ snaps' = {}
           => data' = {} /\ ~old'.vol
    <3>1. CASE Raise
      BY <2>1, <3>1, StepReplace
    <3>2. CASE ~Raise
      BY <2>3, <2>4, <3>2 DEF Goto, AfterEnv, ReplaceSteps
    <3> QED
      BY <3>1, <3>2
  <2> QED
    BY <2>1, <2>2, <2>4, <2>5, SameVolume DEF SnapInv
<1>8. CASE WriteEnvFile \/ ContainerInit \/ Restart \/ HealthGate
  <2>1. /\ UNCHANGED <<data, snaps>>
        /\ pc \in ReplaceSteps /\ pc \in {"envfile", "init", "restart", "check"}
    BY <1>8 DEF WriteEnvFile, ContainerInit, Restart, HealthGate, hostVars, ReplaceSteps
  <2>2. inst \in Instances /\ inst # NoInstance
    BY <1>0, <2>1 DEF LiveSteps
  <2>3. inst' \in Instances /\ inst'.vol = inst.vol /\ inst'.image = inst.image
    <3>1. CASE WriteEnvFile
      <4>1. old \in Instances
        BY <1>0, <3>1 DEF WriteEnvFile, FreshSteps, InplaceSteps, Paths, RunInv, PathInv
      <4> QED
        BY <2>2, <3>1, <4>1 DEF WriteEnvFile, Instances
    <3>2. CASE ContainerInit
      BY <2>2, <3>2 DEF ContainerInit, Instances
    <3>3. CASE Restart
      BY <2>2, <3>3 DEF Restart, Instances
    <3>4. CASE HealthGate
      BY <2>2, <3>4 DEF HealthGate, hostVars
    <3> QED
      BY <1>8, <3>1, <3>2, <3>3, <3>4
  <2>4. (UNCHANGED <<path, old>> /\ pc' \notin {"pre", "launch", "snapshot", "attach"}) \/ Raise
    BY <1>8 DEF WriteEnvFile, ContainerInit, Restart, HealthGate, Goto
  <2>5. pc' \notin {"pre", "launch", "snapshot", "attach"}
    BY <2>4 DEF Raise
  <2>6. inst' # NoInstance
    BY <1>0, <2>3
  <2> QED
    BY <2>1, <2>2, <2>3, <2>4, <2>5, <2>6, SameVolume, StepReplace DEF SnapInv
<1>9. CASE Adopt
  <2>1. /\ UNCHANGED <<data, snaps, path>> /\ inst' = [inst EXCEPT !.ref = svc.image]
        /\ inst \in Instances /\ inst # NoInstance /\ pc' = "attach"
    BY <1>0, <1>9 DEF Adopt, Goto, LiveSteps
  <2>2. /\ inst' \in Instances /\ inst' # NoInstance
        /\ inst'.vol = inst.vol /\ inst'.image = inst.image
    BY <1>0, <2>1, DeployAssumption DEF Instances, References, RunInv, TypeOK, Declarable
  <2>3. path = "inplace"
    BY <1>0, <1>9 DEF Adopt, Paths, FreshSteps, BackSteps, ReplaceSteps, RunInv, PathInv
  <2> QED
    BY <2>1, <2>2, <2>3, SameVolume DEF SnapInv
<1>10. CASE SetEnv \/ RestartEnv
  <2>1. /\ UNCHANGED <<data, snaps>> /\ pc \in {"env", "envrestart"}
        /\ inst \in Instances /\ inst # NoInstance
    BY <1>0, <1>10 DEF SetEnv, RestartEnv, LiveSteps
  <2>2. inst' \in Instances /\ inst'.vol = inst.vol /\ inst'.image = inst.image
    <3>1. CASE SetEnv
      BY <2>1, <3>1, DeployAssumption DEF SetEnv, Instances, RunInv, TypeOK, Declarable
    <3>2. CASE RestartEnv
      BY <2>1, <3>2 DEF RestartEnv, Instances
    <3> QED
      BY <1>10, <3>1, <3>2
  <2>3. path \in {"fresh", "inplace", "new"}
    BY <1>0, <2>1 DEF Paths, BackSteps, ReplaceSteps
  <2>4. Raise \/ Goto(AfterEnv) \/ Goto("envrestart")
    BY <1>10 DEF SetEnv, RestartEnv, EnvNotRestarted
  <2>5. /\ pc' \notin {"pre", "launch", "snapshot", "attach"}
        /\ path' \in {"new", "back", "pull"} /\ pc' \in ReplaceSteps => Raise
    BY <2>3, <2>4 DEF Raise, Goto, AfterEnv, ReplaceSteps
  <2>6. inst' # NoInstance
    BY <1>0, <2>2
  <2> QED
    BY <2>1, <2>2, <2>5, <2>6, SameVolume, StepReplace DEF SnapInv
<1>11. CASE Repoint \/ Publish \/ ReplaceSite \/ PostDeploy
  <2>1. UNCHANGED <<data, snaps, inst>>
    BY <1>11 DEF Repoint, Publish, ReplaceSite, PostDeploy, hostVars
  <2>2. pc \in {"repoint", "publish", "post"}
    BY <1>11 DEF Repoint, Publish, ReplaceSite, PostDeploy, Validate, Restore, Reload, RunInv,
                 PathInv
  <2>3. Raise \/ pc' \in {"repoint", "publish", "post", "env", "ended"}
    BY <1>11, <2>2 DEF Repoint, Publish, ReplaceSite, PostDeploy, AfterRepoint, AfterPublish, Goto,
                 End, runVars
  <2>4. pc' \notin {"pre", "launch", "snapshot", "attach"}
    BY <2>3 DEF Raise
  <2>5. Raise \/ pc' \notin ReplaceSteps
    BY <2>3 DEF ReplaceSteps
  <2> QED
    BY <2>1, <2>4, <2>5, SameVolume, StepReplace DEF SnapInv
<1>12. CASE Return \/ Kill
  <2>1. UNCHANGED <<data, snaps, inst>> /\ pc' = "idle" /\ path' = "inplace"
    BY <1>12 DEF Return, Kill, Forget, hostVars
  <2> QED
    BY <2>1, SameVolume DEF SnapInv
<1>13. CASE Reboot \/ Push \/ SetOtherKey \/ Expire
  <2>1. UNCHANGED <<data, snaps, runVars>> /\ pc = "idle" /\ path = "inplace"
    BY <1>13 DEF Reboot, Push, SetOtherKey, Expire, hostVars, RunInv, PathInv
  <2>2. inst' = inst \/ (inst # NoInstance /\ inst \in Instances)
    BY <1>13 DEF Reboot, Push, SetOtherKey, Expire, hostVars, Running, RunInv, TypeOK
  <2>3. inst' = inst \/ (inst' \in Instances /\ inst'.vol = inst.vol /\ inst'.image = inst.image)
    <3>1. CASE Reboot
      BY <2>2, <3>1 DEF Reboot, Instances
    <3>2. CASE SetOtherKey
      BY <2>2, <3>2 DEF SetOtherKey, Instances
    <3> QED
      BY <1>13, <3>1, <3>2 DEF Push, Expire, hostVars
  <2>4. inst' = inst \/ inst' # NoInstance
    BY <1>0, <2>3
  <2> QED
    BY <2>1, <2>2, <2>3, <2>4, SameVolume DEF SnapInv, runVars
<1>14. CASE UNCHANGED vars
  BY <1>14 DEF vars, runVars, hostVars, SnapInv
<1> QED
  BY <1>1, <1>2, <1>3, <1>4, <1>5, <1>6, <1>7, <1>8, <1>9, <1>10, <1>11, <1>12, <1>13, <1>14
     DEF Next, Deploy

(* The first image to run on the volume is the only one that may have run  *)
(* without a snapshot from before it: when another is attached, what the   *)
(* volume holds has been snapshotted, so its first image can be told.      *)
LEMMA StepFirst == RunInv /\ SnapInv /\ SnapshotFirst /\ [Next]_vars => SnapshotFirst'
<1> SUFFICES ASSUME RunInv, SnapInv, SnapshotFirst, [Next]_vars PROVE SnapshotFirst'
  OBVIOUS
<1>1. CASE ~Attach
  <2>1. data' = data /\ snaps \subseteq snaps'
    BY <1>1 DEF Next, Deploy, Begin, Adopt, PreDeploy, Snapshot, Delete, Launch, WriteEnvFile,
                ContainerInit, Restart, HealthGate, SetEnv, RestartEnv, Repoint, Publish,
                ReplaceSite, PostDeploy, Return, CommandFails, Kill, Reboot, Push, SetOtherKey,
                Expire, vars, hostVars
  <2> QED
    BY <2>1 DEF SnapshotFirst
<1>2. CASE Attach /\ data' # data
  <2>1. snaps' = snaps /\ data' = data \cup {inst.image} /\ inst.image \notin data
    BY <1>2 DEF Attach
  <2>2. CASE data = {}
    BY <2>1, <2>2 DEF SnapshotFirst
  <2>3. CASE data # {}
    <3>1. PICK s \in snaps : TRUE
      BY <2>1, <2>3 DEF SnapInv
    <3>2. inst.image \notin s
      BY <2>1, <3>1 DEF SnapInv
    <3>3. PICK first \in data : \A i \in data \ {first} : \E t \in snaps : i \notin t
      BY <2>3 DEF SnapshotFirst
    <3>4. \A i \in data' \ {first} : \E t \in snaps' : i \notin t
      BY <2>1, <3>2, <3>3
    <3> QED
      BY <2>1, <3>3, <3>4 DEF SnapshotFirst
  <2> QED
    BY <2>2, <2>3
<1>3. CASE Attach /\ data' = data
  BY <1>3 DEF Attach, SnapshotFirst
<1> QED
  BY <1>1, <1>2, <1>3

LEMMA InitSnap == Init => RunInv /\ SnapInv /\ SnapshotFirst
<1> SUFFICES ASSUME Init PROVE RunInv /\ SnapInv /\ SnapshotFirst
  OBVIOUS
<1>1. RunInv /\ snaps = {} /\ pc = "idle" /\ path = "inplace"
  BY InitRun DEF Init
<1>2. data = {} \/ (inst # NoInstance /\ inst.vol /\ data = {inst.image})
  <2>1. CASE data # {}
    <3>1. PICK d \in Manifests, a \in Addresses :
                 inst = Legacy(d, a) /\ data = IF d.vol THEN {d.image} ELSE {}
      BY <2>1, Zenon DEF Init
    <3>2. inst \in Instances
      BY <3>1, DeployAssumption DEF Legacy, Instances, Declarable, References
    <3> QED
      BY <2>1, <3>1, <3>2, DeployAssumption DEF Legacy
  <2> QED
    BY <2>1
<1>3. SnapInv
  BY <1>1, <1>2 DEF SnapInv, ReplaceSteps
<1>4. SnapshotFirst
  BY <1>2 DEF SnapshotFirst
<1> QED
  BY <1>1, <1>3, <1>4

(* Update snapshots every attached volume before it deletes anything, and  *)
(* no failure, kill or rerun lets another image at the data first:         *)
(* whatever it does to them, there is a snapshot from before.              *)
THEOREM SnapshotAlwaysFirst == Spec => []SnapshotFirst
<1> DEFINE Inv == RunInv /\ SnapInv /\ SnapshotFirst
<1>1. Init => Inv
  BY InitSnap
<1>2. Inv /\ [Next]_vars => Inv'
  BY StepRun, StepSnap, StepFirst
<1>3. Inv => SnapshotFirst
  OBVIOUS
<1> QED
  BY <1>1, <1>2, <1>3, PTL DEF Spec
----------------------------------------------------------------------------
(* What a deploy has done by the steps it has passed, when nothing of it   *)
(* was undone: the image, the volume, the environment, the route.          *)
ImageSteps == {"attach", "envfile", "init", "restart", "check", "repoint", "env",
               "envrestart", "publish", "post"}
VolumeSteps == {"init", "env", "envrestart", "check", "publish", "post"}
SetSteps == {"envrestart", "publish", "post"} \cup (IF path = "new" THEN {} ELSE {"check"})

DoneAt(steps) == pc \in steps \/ outcome = "ok"

ImageDone == (IF oci THEN inst.ref ELSE inst.image) = svc.image
RouteDone == svc.route # NoRoute => file = Desired

DoneInv ==
  /\ outcome = "ok" => pc = "ended" /\ path \in {"fresh", "inplace", "new"}
  /\ path \in {"fresh", "inplace", "new"} =>
       /\ DoneAt(ImageSteps) => inst \in Instances /\ ImageDone
       /\ path # "new" /\ DoneAt(VolumeSteps) /\ svc.vol => inst.vol
       /\ DoneAt(SetSteps) => svc.env \in {NoEnv, inst.env}
       /\ DoneAt({"post"}) => RouteDone
       /\ path = "inplace" /\ DoneAt({"publish"}) => inst.up
  /\ pc = "publish" /\ replacing # "no" => RouteDone
  /\ pc = "adopt" => oci

(* A way back, an error and the end of a job leave nothing to show.        *)
LEMMA NothingDone ==
  ASSUME outcome' # "ok", pc' \in {"idle", "pre", "snapshot", "delete", "launch", "ended"}
  PROVE  DoneInv'
  BY DEF DoneInv, DoneAt, ImageSteps, VolumeSteps, SetSteps

LEMMA RaiseDone ==
  ASSUME Raise, outcome # "ok"
  PROVE  DoneInv'
<1>1. outcome' # "ok" /\ pc' \in {"delete", "ended"}
  BY DEF Raise
<1> QED
  BY <1>1, NothingDone

LEMMA StepDone == RunInv /\ DoneInv /\ [Next]_vars => DoneInv'
<1> SUFFICES ASSUME RunInv, DoneInv, [Next]_vars PROVE DoneInv'
  OBVIOUS
<1>0. /\ pc \in LiveSteps => inst \in Instances /\ inst # NoInstance
      /\ path \in Paths /\ oci \in BOOLEAN
      /\ path = "fresh" => pc \in FreshSteps
      /\ path = "inplace" => pc \in InplaceSteps
      /\ path = "new" => old \in Instances
      /\ path \in {"back", "pull"} => pc \in BackSteps /\ old \in Instances
      /\ NoInstance \notin Instances /\ svc \in Declarable
      /\ svc.image \in Images /\ svc.env \in Values /\ svc.vol \in BOOLEAN
      /\ pc # "ended" => outcome # "ok"
      /\ replacing # "no" => pc \in {"repoint", "publish"}
  BY DeployAssumption DEF RunInv, TypeOK, PathInv, LiveInv, Declarable, DoneInv
<1>1. CASE Raise /\ pc # "ended"
  BY <1>0, <1>1, RaiseDone
<1>2. CASE Return \/ Kill
  BY <1>2, NothingDone DEF Return, Kill, Forget
<1>3. CASE PreDeploy \/ Snapshot \/ Delete
  BY <1>0, <1>3, NothingDone DEF PreDeploy, Snapshot, Delete, Goto
<1>4. CASE Begin
  <2>1. outcome' # "ok"
    BY <1>0, <1>4 DEF Begin
  <2>2. CASE pc' = "attach"
    <3>1. /\ inst # NoInstance /\ inst \in Instances /\ ~Replaces /\ ~Adopts
          /\ UNCHANGED <<inst, svc, oci, replacing>> /\ path' = "inplace"
      BY <1>4, <2>2 DEF Begin, hostVars, siteVars, RunInv, TypeOK
    <3>2. ImageDone
      BY <1>0, <3>1 DEF Replaces, Adopts, ImageDone
    <3> QED
      BY <2>1, <2>2, <3>1, <3>2 DEF DoneInv, DoneAt, VolumeSteps, SetSteps, ImageDone
  <2>3. CASE pc' = "pre"
    BY <1>4, <2>1, <2>3, NothingDone DEF Begin
  <2>4. CASE pc' = "adopt"
    <3>1. oci' /\ path' = "inplace" /\ UNCHANGED replacing
      BY <1>4, <2>4 DEF Begin, Adopts, siteVars
    <3> QED
      BY <2>1, <2>4, <3>1 DEF DoneInv, DoneAt, ImageSteps, VolumeSteps, SetSteps
  <2> QED
    BY <1>4, <2>2, <2>3, <2>4 DEF Begin
<1>5. CASE Adopt
  <2>1. /\ UNCHANGED <<svc, oci, replacing, path, outcome>> /\ pc' = "attach" /\ pc = "adopt"
        /\ inst \in Instances /\ inst' = [inst EXCEPT !.ref = svc.image]
    BY <1>0, <1>5 DEF Adopt, Goto, siteVars, LiveSteps
  <2>2. inst' \in Instances /\ inst'.ref = svc.image
    BY <1>0, <2>1 DEF Instances, References
  <2>3. ImageDone'
    BY <2>1, <2>2 DEF ImageDone, DoneInv
  <2> QED
    BY <1>0, <2>1, <2>2, <2>3 DEF DoneInv, DoneAt, VolumeSteps, SetSteps
<1>6. CASE Launch /\ ~Raise
  <2>1. PICK a \in Addresses : inst' = Fresh(a)
    BY <1>6 DEF Launch
  <2>2. /\ UNCHANGED <<svc, oci, replacing, path, outcome>> /\ pc' = "attach" /\ pc = "launch"
    BY <1>6 DEF Launch, Goto, siteVars
  <2>3. inst' \in Instances
    BY <2>1, <2>2, FreshInstance
  <2>4. path \in {"fresh", "new"} => inst'.image = svc.image /\ inst'.ref = svc.image
    BY <2>1 DEF Fresh, Launched
  <2>5. path # "inplace"
    BY <1>0, <2>2 DEF InplaceSteps
  <2> QED
    BY <1>0, <2>2, <2>3, <2>4, <2>5 DEF DoneInv, DoneAt, VolumeSteps, SetSteps, ImageDone
<1>7. CASE Attach
  <2>1. /\ UNCHANGED <<svc, oci, replacing, path, outcome>> /\ pc' = AfterAttach /\ pc = "attach"
        /\ inst \in Instances /\ inst' = [inst EXCEPT !.vol = @ \/ Attaches]
    BY <1>0, <1>7 DEF Attach, Goto, siteVars, LiveSteps
  <2>2. Attaches \in BOOLEAN
    BY <1>0 DEF Attaches, Instances, Paths
  <2>3. /\ inst' \in Instances /\ inst'.image = inst.image /\ inst'.ref = inst.ref
        /\ inst'.vol = (inst.vol \/ Attaches)
    BY <2>1, <2>2 DEF Instances
  <2>4. path \in {"fresh", "inplace"} /\ svc.vol => inst'.vol
    BY <2>3 DEF Attaches
  <2>5. pc' \in {"init", "env", "envfile"}
    BY <2>1 DEF AfterAttach
  <2>6. path \in {"fresh", "inplace", "new"} => ImageDone
    BY <2>1 DEF DoneInv, DoneAt, ImageSteps
  <2>7. outcome' # "ok" /\ pc' # "publish"
    BY <1>0, <2>1, <2>5
  <2> QED
    BY <2>1, <2>3, <2>4, <2>5, <2>6, <2>7 DEF DoneInv, DoneAt, SetSteps, ImageDone
<1>8. CASE WriteEnvFile
  <2>1. /\ UNCHANGED <<svc, oci, replacing, path, outcome>> /\ pc' = "init" /\ pc = "envfile"
        /\ inst \in Instances /\ old \in Instances
    BY <1>0, <1>8 DEF WriteEnvFile, Goto, siteVars, LiveSteps, FreshSteps, InplaceSteps, Paths
  <2>2. inst' \in Instances /\ inst'.image = inst.image /\ inst'.ref = inst.ref
    BY <1>8, <2>1 DEF WriteEnvFile, Instances
  <2>3. path \notin {"fresh", "inplace"}
    BY <1>0, <2>1 DEF FreshSteps, InplaceSteps
  <2>4. path = "new" => ImageDone
    BY <2>1 DEF DoneInv, DoneAt, ImageSteps
  <2> QED
    BY <1>0, <2>1, <2>2, <2>3, <2>4 DEF DoneInv, DoneAt, SetSteps, ImageDone
<1>9. CASE ContainerInit /\ ~Raise
  <2>1. /\ UNCHANGED <<svc, oci, replacing, path, outcome>> /\ pc = "init"
        /\ pc' = (IF path = "fresh" THEN "env" ELSE "restart")
        /\ inst \in Instances /\ inst' = [inst EXCEPT !.ready = TRUE]
    BY <1>0, <1>9 DEF ContainerInit, Goto, siteVars, LiveSteps
  <2>2. /\ inst' \in Instances /\ inst'.image = inst.image /\ inst'.ref = inst.ref
        /\ inst'.vol = inst.vol
    BY <2>1 DEF Instances
  <2>3. path # "inplace"
    BY <1>0, <2>1 DEF InplaceSteps
  <2>4. path = "new" \/ path = "fresh" => ImageDone
    BY <2>1 DEF DoneInv, DoneAt, ImageSteps
  <2>5. path = "fresh" /\ svc.vol => inst.vol
    BY <2>1 DEF DoneInv, DoneAt, VolumeSteps
  <2> QED
    BY <1>0, <2>1, <2>2, <2>3, <2>4, <2>5 DEF DoneInv, DoneAt, SetSteps, ImageDone, VolumeSteps
<1>10. CASE Restart
  <2>1. /\ UNCHANGED <<svc, oci, replacing, path, outcome>> /\ pc' = "check" /\ pc = "restart"
        /\ inst \in Instances
    BY <1>0, <1>10 DEF Restart, Goto, siteVars, LiveSteps
  <2>2. inst' \in Instances /\ inst'.image = inst.image /\ inst'.ref = inst.ref
    BY <1>10, <2>1 DEF Restart, Instances
  <2>3. path \notin {"fresh", "inplace"}
    BY <1>0, <2>1 DEF FreshSteps, InplaceSteps
  <2>4. path = "new" => ImageDone
    BY <2>1 DEF DoneInv, DoneAt, ImageSteps
  <2> QED
    BY <1>0, <2>1, <2>2, <2>3, <2>4 DEF DoneInv, DoneAt, SetSteps, ImageDone
<1>11. CASE HealthGate /\ ~Raise
  <2>1. /\ UNCHANGED <<svc, oci, replacing, path, outcome, inst>> /\ pc = "check"
        /\ pc' = (IF path \in {"fresh", "inplace"} THEN "publish" ELSE "repoint")
        /\ inst \in Instances /\ inst.up
    BY <1>0, <1>11 DEF HealthGate, Healthy, Running, Goto, siteVars, hostVars, LiveSteps
  <2>2. path \in {"fresh", "inplace", "new"} => ImageDone
    BY <2>1 DEF DoneInv, DoneAt, ImageSteps
  <2>3. path \in {"fresh", "inplace"} => /\ svc.vol => inst.vol
                                         /\ svc.env \in {NoEnv, inst.env}
    BY <2>1 DEF DoneInv, DoneAt, VolumeSteps, SetSteps
  <2>4. replacing = "no"
    BY <1>0, <2>1
  <2> QED
    BY <1>0, <2>1, <2>2, <2>3, <2>4 DEF DoneInv, DoneAt, SetSteps, ImageDone, VolumeSteps
<1>12. CASE SetEnv
  <2>1. /\ UNCHANGED <<svc, oci, replacing, path, outcome>> /\ pc = "env"
        /\ pc' = (IF svc.env \in {NoEnv, inst.env} THEN AfterEnv ELSE "envrestart")
        /\ inst' = (IF svc.env \in {NoEnv, inst.env} THEN inst ELSE [inst EXCEPT !.env = svc.env])
        /\ inst \in Instances
    BY <1>0, <1>12 DEF SetEnv, Goto, siteVars, LiveSteps
  <2>2. /\ inst' \in Instances /\ inst'.image = inst.image /\ inst'.ref = inst.ref
        /\ inst'.vol = inst.vol /\ inst'.up = inst.up /\ svc.env \in {NoEnv, inst'.env}
    BY <1>0, <2>1 DEF Instances
  <2>3. path \in {"fresh", "inplace", "new"}
    BY <1>0, <2>1 DEF BackSteps, ReplaceSteps, Paths
  <2>4. ImageDone /\ (path # "new" /\ svc.vol => inst.vol)
    BY <2>1, <2>3 DEF DoneInv, DoneAt, ImageSteps, VolumeSteps
  <2>5. replacing = "no" /\ outcome' # "ok" /\ pc' \in {"envrestart", "publish", "check"}
        /\ (pc' = "publish" => path = "new")
    BY <1>0, <2>1 DEF AfterEnv
  <2> QED
    BY <2>1, <2>2, <2>3, <2>4, <2>5 DEF DoneInv, DoneAt, ImageDone
<1>13. CASE (RestartEnv \/ CommandFails) /\ ~Raise
  <2>1. /\ UNCHANGED <<svc, oci, path, outcome>> /\ pc = "envrestart" /\ pc' = AfterEnv
        /\ inst \in Instances
        /\ inst' \in {inst, [inst EXCEPT !.ran = inst.env]} /\ replacing = "no"
    BY <1>0, <1>13 DEF RestartEnv, CommandFails, EnvNotRestarted, Goto, LiveSteps
  <2>2. /\ inst' \in Instances /\ inst'.image = inst.image /\ inst'.ref = inst.ref
        /\ inst'.vol = inst.vol /\ inst'.up = inst.up /\ inst'.env = inst.env
    BY <2>1 DEF Instances
  <2>3. path \in {"fresh", "inplace", "new"}
    BY <1>0, <2>1 DEF BackSteps, ReplaceSteps, Paths
  <2>4. ImageDone /\ (path # "new" /\ svc.vol => inst.vol) /\ svc.env \in {NoEnv, inst.env}
    BY <2>1, <2>3 DEF DoneInv, DoneAt, ImageSteps, VolumeSteps, SetSteps
  <2>5. /\ replacing' = "no" /\ outcome' # "ok" /\ pc' \in {"publish", "check"}
        /\ pc' = "publish" => path = "new"
    BY <1>0, <1>13, <2>1 DEF AfterEnv, RestartEnv, CommandFails, siteVars
  <2> QED
    BY <2>1, <2>2, <2>3, <2>4, <2>5 DEF DoneInv, DoneAt, ImageDone
<1>14. CASE (Repoint \/ Publish \/ ReplaceSite) /\ ~Raise
  <2>1. UNCHANGED <<svc, oci, inst>> /\ pc \in {"repoint", "publish"}
    BY <1>0, <1>14 DEF Repoint, Publish, ReplaceSite, hostVars, Validate, Reload
  <2>2. inst \in Instances
    BY <1>0, <2>1 DEF LiveSteps
  <2>3. CASE UNCHANGED runVars
    <3>1. UNCHANGED <<pc, path, outcome>>
      BY <2>3 DEF runVars
    <3>2. pc = "publish" /\ replacing' # "no" => RouteDone'
      <4>1. CASE Publish
        BY <2>1, <4>1, <3>1 DEF Publish, WriteSite, RouteDone, Desired, siteVars
      <4>2. CASE ReplaceSite
        <5>1. replacing' # "no" => replacing # "no" /\ file' = file
          BY <4>2 DEF ReplaceSite, Validate, Restore, Reload
        <5> QED
          BY <2>1, <3>1, <5>1 DEF RouteDone, Desired, DoneInv
      <4>3. CASE Repoint
        BY <4>3 DEF Repoint
      <4> QED
        BY <1>14, <4>1, <4>2, <4>3
    <3>3. pc # "post" /\ outcome # "ok"
      BY <1>0, <2>1
    <3> QED
      BY <2>1, <3>1, <3>2, <3>3 DEF DoneInv, DoneAt, ImageDone, SetSteps
  <2>4. CASE pc = "repoint" /\ AfterRepoint
    <3>1. CASE path = "new"
      <4>1. UNCHANGED <<path, outcome>> /\ pc' = "env"
        BY <2>4, <3>1 DEF AfterRepoint, Goto
      <4>2. ImageDone
        BY <2>4, <3>1 DEF DoneInv, DoneAt, ImageSteps
      <4> QED
        BY <1>0, <2>1, <2>2, <2>4, <3>1, <4>1, <4>2 DEF DoneInv, DoneAt, ImageDone, SetSteps
    <3>2. CASE path # "new"
      BY <2>4, <3>2, NothingDone DEF AfterRepoint, End
    <3> QED
      BY <3>1, <3>2
  <2>5. CASE pc = "publish" /\ AfterPublish /\ ~UNCHANGED runVars
    <3>1. RouteDone /\ UNCHANGED <<file, path>> /\ pc' \in {"post", "ended"}
          /\ (pc' = "post" => path # "inplace" /\ outcome' = outcome)
      <4>1. CASE Publish
        BY <2>5, <4>1 DEF Publish, AfterPublish, Goto, End, RouteDone, Published, siteVars
      <4>2. CASE ReplaceSite
        <5>1. replacing # "no" /\ file' = file
          BY <1>14, <2>5, <4>2 DEF ReplaceSite, Validate, Reload
        <5> QED
          BY <2>5, <5>1 DEF AfterPublish, Goto, End, DoneInv
      <4> QED
        BY <1>14, <2>5, <4>1, <4>2 DEF Repoint
    <3>2. path \in {"fresh", "inplace", "new"}
      BY <1>0, <2>5 DEF BackSteps, ReplaceSteps, Paths
    <3>3. /\ ImageDone /\ (path # "new" /\ svc.vol => inst.vol) /\ svc.env \in {NoEnv, inst.env}
          /\ path = "inplace" => inst.up
      BY <2>5, <3>2 DEF DoneInv, DoneAt, ImageSteps, VolumeSteps, SetSteps
    <3>4. RouteDone' /\ ImageDone'
      BY <2>1, <3>1, <3>3 DEF RouteDone, ImageDone, Desired
    <3>5. outcome' = "ok" => pc' = "ended"
      BY <1>0, <3>1, <2>5
    <3> QED
      BY <2>1, <2>2, <3>1, <3>2, <3>3, <3>4, <3>5 DEF DoneInv, DoneAt
  <2> QED
    BY <1>14, <2>1, <2>3, <2>4, <2>5 DEF Repoint, Publish, ReplaceSite
<1>15. CASE PostDeploy
  <2>1. /\ UNCHANGED <<svc, oci, inst, file, path, replacing>> /\ pc = "post" /\ pc' = "ended"
        /\ inst \in Instances
    BY <1>0, <1>15 DEF PostDeploy, End, hostVars, siteVars, LiveSteps
  <2>2. path \in {"fresh", "new"}
    BY <1>0, <2>1 DEF BackSteps, ReplaceSteps, Paths, InplaceSteps
  <2>3. /\ ImageDone /\ (path # "new" /\ svc.vol => inst.vol) /\ svc.env \in {NoEnv, inst.env}
        /\ RouteDone
    BY <2>1, <2>2 DEF DoneInv, DoneAt, ImageSteps, VolumeSteps, SetSteps
  <2>4. RouteDone' /\ ImageDone'
    BY <2>1, <2>3 DEF RouteDone, ImageDone, Desired
  <2> QED
    BY <2>1, <2>2, <2>3, <2>4 DEF DoneInv, DoneAt
<1>16. CASE Reboot \/ Push \/ SetOtherKey \/ Expire
  <2>1. pc' = "idle" /\ outcome' = outcome /\ pc = "idle"
    BY <1>16 DEF Reboot, Push, SetOtherKey, Expire, runVars
  <2> QED
    BY <1>0, <2>1, NothingDone
<1>17. CASE UNCHANGED vars
  BY <1>17 DEF vars, siteVars, runVars, hostVars, DoneInv, DoneAt, SetSteps, ImageDone, RouteDone,
               Desired
<1>18. Launch \/ ContainerInit \/ HealthGate \/ RestartEnv \/ CommandFails \/ Repoint \/ Publish
       \/ ReplaceSite => pc # "ended"
  BY <1>0 DEF Launch, ContainerInit, HealthGate, RestartEnv, CommandFails, Repoint, Publish,
              ReplaceSite, Validate, Restore, Reload
<1> QED
  BY <1>1, <1>2, <1>3, <1>4, <1>5, <1>6, <1>7, <1>8, <1>9, <1>10, <1>11, <1>12, <1>13, <1>14,
     <1>15, <1>16, <1>17, <1>18 DEF Next, Deploy

(* What the deploy found is there until the step that changes it: in       *)
(* place, the instance as Update read it; on a replacement, its            *)
(* environment.                                                            *)
EnvKeptSteps == {"init", "restart", "check", "repoint", "env"}

FoundInv ==
  /\ path = "inplace" /\ pc # "idle" =>
       /\ old \in Instances /\ inst \in Instances
       /\ inst.up = old.up /\ inst.addr = old.addr
       /\ pc \in {"adopt", "attach"} => inst.vol = old.vol
       /\ pc \in {"adopt", "attach", "env"} => inst.env = old.env
       /\ pc = "envrestart" => svc.env \notin {NoEnv, old.env}
  /\ path = "new" /\ (pc \in EnvKeptSteps \/ (oci /\ pc \in {"attach", "envfile"}))
       => inst.env = old.env
  /\ pc = "launch" => inst = NoInstance

LEMMA RaiseFound ==
  ASSUME RunInv, FoundInv, Raise, pc \notin {"idle", "ended"}, UNCHANGED svc,
         path = "inplace" => inst' = inst
  PROVE  FoundInv'
<1>1. CASE pc' = "delete"
  <2>1. path' \in {"back", "pull"}
    BY <1>1 DEF Raise
  <2> QED
    BY <1>1, <2>1 DEF FoundInv
<1>2. CASE pc' = "ended" /\ UNCHANGED <<path, old>>
  BY <1>2 DEF FoundInv, EnvKeptSteps
<1> QED
  BY <1>1, <1>2 DEF Raise

LEMMA StepFound == RunInv /\ SnapInv /\ FoundInv /\ [Next]_vars => FoundInv'
<1> SUFFICES ASSUME RunInv, SnapInv, FoundInv, [Next]_vars PROVE FoundInv'
  OBVIOUS
<1>0. /\ pc \in LiveSteps => inst \in Instances /\ inst # NoInstance
      /\ path \in Paths /\ oci \in BOOLEAN
      /\ path = "fresh" => pc \in FreshSteps
      /\ path = "inplace" => pc \in InplaceSteps
      /\ path = "new" => old \in Instances
      /\ path \in {"back", "pull"} => pc \in BackSteps /\ old \in Instances
      /\ NoInstance \notin Instances /\ svc \in Declarable
      /\ svc.image \in Images /\ svc.env \in Values /\ svc.vol \in BOOLEAN
      /\ replacing # "no" => pc \in {"repoint", "publish"}
      /\ inst \in Instances \cup {NoInstance}
  BY DeployAssumption DEF RunInv, TypeOK, PathInv, LiveInv, Declarable
<1>1. CASE Return \/ Kill
  BY <1>1 DEF Return, Kill, Forget, FoundInv, EnvKeptSteps
<1>2. CASE Begin
  <2>1. UNCHANGED <<inst, svc>> /\ old' = inst
    BY <1>2 DEF Begin, hostVars
  <2> QED
    BY <1>0, <1>2, <2>1 DEF Begin, FoundInv, EnvKeptSteps
<1>3. CASE Adopt
  <2>1. /\ UNCHANGED <<svc, path, old>> /\ pc' = "attach" /\ pc = "adopt"
        /\ inst \in Instances /\ inst' = [inst EXCEPT !.ref = svc.image]
    BY <1>0, <1>3 DEF Adopt, Goto, LiveSteps
  <2>2. /\ inst' \in Instances /\ inst'.vol = inst.vol /\ inst'.env = inst.env
        /\ inst'.up = inst.up /\ inst'.addr = inst.addr
    BY <1>0, <2>1 DEF Instances, References
  <2>3. path = "inplace"
    BY <1>0, <2>1 DEF Paths, FreshSteps, BackSteps, ReplaceSteps, RunInv, PathInv
  <2> QED
    BY <2>1, <2>2, <2>3 DEF FoundInv
<1>4. CASE PreDeploy \/ Snapshot \/ Delete
  <2>1. UNCHANGED <<path, old>> /\ path # "inplace"
    BY <1>0, <1>4 DEF PreDeploy, Snapshot, Delete, Goto, InplaceSteps
  <2>2. pc' \in {"launch", "snapshot", "delete"}
    BY <1>4 DEF PreDeploy, Snapshot, Delete, Goto
  <2>3. pc' = "launch" => inst' = NoInstance
    BY <1>4 DEF PreDeploy, Snapshot, Delete, Goto, SnapInv, hostVars
  <2> QED
    BY <2>1, <2>2, <2>3 DEF FoundInv, EnvKeptSteps
<1>5. CASE Launch
  <2>1. path # "inplace" /\ pc = "launch" /\ UNCHANGED svc
    BY <1>0, <1>5 DEF Launch, InplaceSteps
  <2>2. CASE Raise
    BY <2>1, <2>2, RaiseFound
  <2>3. CASE ~Raise
    <3>1. PICK a \in Addresses : inst' = Fresh(a)
      BY <1>5, <2>3 DEF Launch
    <3>2. UNCHANGED <<path, old, oci>> /\ pc' = "attach"
      BY <1>5, <2>3 DEF Launch, Goto
    <3>3. path = "new" /\ oci => inst'.env = old.env
      BY <3>1 DEF Fresh
    <3> QED
      BY <2>1, <3>2, <3>3 DEF FoundInv, EnvKeptSteps
  <2> QED
    BY <2>2, <2>3
<1>6. CASE Attach
  <2>1. /\ UNCHANGED <<svc, oci, path, old>> /\ pc' = AfterAttach /\ pc = "attach"
        /\ inst \in Instances /\ inst' = [inst EXCEPT !.vol = @ \/ Attaches]
    BY <1>0, <1>6 DEF Attach, Goto, LiveSteps
  <2>2. Attaches \in BOOLEAN
    BY <1>0 DEF Attaches, Instances, Paths
  <2>3. /\ inst' \in Instances /\ inst'.env = inst.env /\ inst'.up = inst.up
        /\ inst'.addr = inst.addr
    BY <2>1, <2>2 DEF Instances
  <2>4. /\ path = "inplace" => pc' = "env"
        /\ path = "new" => pc' = "envfile"
        /\ pc' # "launch"
    BY <2>1 DEF AfterAttach
  <2> QED
    BY <2>1, <2>3, <2>4 DEF FoundInv, EnvKeptSteps
<1>7. CASE WriteEnvFile
  <2>1. /\ UNCHANGED <<path, old, oci>> /\ pc' = "init" /\ pc = "envfile"
        /\ inst \in Instances /\ path # "inplace"
    BY <1>0, <1>7 DEF WriteEnvFile, Goto, LiveSteps, InplaceSteps
  <2>2. path = "new" => inst'.env = old.env
    BY <1>0, <1>7, <2>1 DEF WriteEnvFile, FoundInv, Instances
  <2> QED
    BY <2>1, <2>2 DEF FoundInv
<1>8. CASE ContainerInit \/ Restart \/ HealthGate
  <2>1. pc \in {"init", "restart", "check"} /\ inst \in Instances /\ UNCHANGED <<svc, oci>>
    BY <1>0, <1>8 DEF ContainerInit, Restart, HealthGate, LiveSteps
  <2>2. /\ inst' \in Instances /\ inst'.env = inst.env /\ inst'.up = inst.up
        /\ inst'.addr = inst.addr
    <3>1. CASE ContainerInit
      BY <2>1, <3>1 DEF ContainerInit, Instances
    <3>2. CASE Restart
      BY <2>1, <3>2 DEF Restart, Instances
    <3>3. CASE HealthGate
      BY <2>1, <3>3 DEF HealthGate, hostVars
    <3> QED
      BY <1>8, <3>1, <3>2, <3>3
  <2>3. CASE Raise
    <3>1. path = "inplace" => inst' = inst
      BY <1>0, <1>8 DEF ContainerInit, Restart, HealthGate, InplaceSteps, hostVars
    <3> QED
      BY <2>1, <2>3, <3>1, RaiseFound
  <2>4. CASE ~Raise
    <3>1. UNCHANGED <<path, old>> /\ pc' \in {"env", "restart", "check", "publish", "repoint"}
          /\ (pc' = "env" => path # "inplace")
      BY <1>8, <2>4 DEF ContainerInit, Restart, HealthGate, Goto
    <3>2. path = "new" => inst.env = old.env
      BY <2>1 DEF FoundInv, EnvKeptSteps
    <3> QED
      BY <2>1, <2>2, <3>1, <3>2 DEF FoundInv, EnvKeptSteps
  <2> QED
    BY <2>3, <2>4
<1>9. CASE SetEnv
  <2>1. /\ UNCHANGED <<svc, oci, path, old>> /\ pc = "env"
        /\ pc' = (IF svc.env \in {NoEnv, inst.env} THEN AfterEnv ELSE "envrestart")
        /\ inst' = (IF svc.env \in {NoEnv, inst.env} THEN inst ELSE [inst EXCEPT !.env = svc.env])
        /\ inst \in Instances
    BY <1>0, <1>9 DEF SetEnv, Goto, LiveSteps
  <2>2. /\ inst' \in Instances /\ inst'.up = inst.up /\ inst'.addr = inst.addr
    BY <1>0, <2>1 DEF Instances
  <2>3. /\ pc' \in {"envrestart", "publish", "check"} /\ (pc' = "check" => path # "new")
        /\ pc' = "envrestart" => svc.env \notin {NoEnv, inst.env}
    BY <2>1 DEF AfterEnv
  <2>4. path = "inplace" => inst.env = old.env
    BY <2>1 DEF FoundInv
  <2> QED
    BY <2>1, <2>2, <2>3, <2>4 DEF FoundInv, EnvKeptSteps
<1>10. CASE RestartEnv
  <2>1. /\ pc = "envrestart" /\ inst \in Instances /\ UNCHANGED <<svc, oci>>
        /\ inst' \in {inst, [inst EXCEPT !.ran = inst.env]}
    BY <1>0, <1>10 DEF RestartEnv, LiveSteps
  <2>2. /\ inst' \in Instances /\ inst'.up = inst.up /\ inst'.addr = inst.addr
    BY <2>1 DEF Instances
  <2>3. CASE Raise /\ inst' = inst
    BY <2>1, <2>3, RaiseFound
  <2>4. CASE Goto(AfterEnv)
    <3>1. UNCHANGED <<path, old>> /\ pc' \in {"publish", "check"} /\ (pc' = "check" => path # "new")
      BY <2>4 DEF Goto, AfterEnv
    <3> QED
      BY <2>1, <2>2, <3>1 DEF FoundInv, EnvKeptSteps
  <2> QED
    BY <1>10, <2>3, <2>4 DEF RestartEnv, EnvNotRestarted
<1>11. CASE Repoint \/ Publish \/ ReplaceSite \/ PostDeploy
  <2>1. UNCHANGED <<svc, oci, inst>> /\ pc \in {"repoint", "publish", "post"}
    BY <1>0, <1>11 DEF Repoint, Publish, ReplaceSite, PostDeploy, hostVars, Validate, Restore,
                       Reload
  <2>2. CASE Raise
    BY <2>1, <2>2, RaiseFound
  <2>3. CASE ~Raise
    <3>1. UNCHANGED <<path, old>> /\ pc' \in {pc, "env", "ended", "post"}
          /\ (pc' = "env" => pc = "repoint")
      BY <1>11, <2>1, <2>3 DEF Repoint, Publish, ReplaceSite, PostDeploy, AfterRepoint,
                               AfterPublish, Goto, End, runVars
    <3>2. path = "inplace" => pc # "repoint"
      BY <1>0 DEF InplaceSteps
    <3> QED
      BY <2>1, <3>1, <3>2 DEF FoundInv, EnvKeptSteps
  <2> QED
    BY <2>2, <2>3
<1>12. CASE CommandFails
  <2>1. pc \notin {"idle", "ended"} /\ UNCHANGED <<svc, oci>>
    BY <1>12 DEF CommandFails
  <2>2. pc \notin {"delete", "launch"} => inst' = inst
    BY <1>12 DEF CommandFails
  <2>3. CASE Raise
    BY <1>0, <2>1, <2>2, <2>3, RaiseFound DEF InplaceSteps
  <2>4. CASE pc = "envrestart" /\ Goto(AfterEnv)
    <3>1. UNCHANGED <<path, old>> /\ pc' \in {"publish", "check"} /\ (pc' = "check" => path # "new")
      BY <2>4 DEF Goto, AfterEnv
    <3> QED
      BY <2>1, <2>2, <2>4, <3>1 DEF FoundInv, EnvKeptSteps
  <2> QED
    BY <1>12, <2>3, <2>4 DEF CommandFails, EnvNotRestarted
<1>13. CASE Reboot \/ Push \/ SetOtherKey \/ Expire
  <2>1. pc' = "idle" /\ path' = "inplace"
    BY <1>13 DEF Reboot, Push, SetOtherKey, Expire, runVars, RunInv, PathInv
  <2> QED
    BY <2>1 DEF FoundInv
<1>14. CASE UNCHANGED vars
  BY <1>14 DEF vars, runVars, hostVars, FoundInv
<1> QED
  BY <1>1, <1>2, <1>3, <1>4, <1>5, <1>6, <1>7, <1>8, <1>9, <1>10, <1>11, <1>12, <1>13, <1>14
     DEF Next, Deploy

(* What the plan says of what the deploy found, and no more: each change   *)
(* announced has its reason in the manifest, and each reason is announced. *)
RouteKinds == {"publish-route", "update-route"}

Planned(kind) == kind \in plan.changes
RoutePlanned  == \E kind \in RouteKinds : Planned(kind)

Reasoned ==
  /\ Planned("adopt-image") => oci
  /\ Planned("attach-volume") => svc.vol /\ path \in {"fresh", "inplace"}
  /\ Planned("set-env") => svc.env # NoEnv
  /\ RoutePlanned => svc.route # NoRoute
  /\ plan.action = "blocked" => path = "inplace" /\ ~old.up

AllAnnounced ==
  /\ path = "fresh" =>
       /\ Planned("create-instance")
       /\ svc.vol => Planned("attach-volume")
       /\ svc.env # NoEnv => Planned("set-env")
       /\ svc.route # NoRoute => RoutePlanned
       /\ replacing # "no" => RoutePlanned
  /\ path \in {"new", "back", "pull"} =>
       /\ Planned("replace-image")
       /\ svc.env \notin {NoEnv, old.env} => Planned("set-env")
  /\ path = "inplace" =>
       /\ pc = "adopt" => Planned("adopt-image")
       /\ svc.vol /\ ~old.vol => Planned("attach-volume")
       /\ svc.env \notin {NoEnv, old.env} => Planned("set-env") /\ Planned("restart")
       /\ replacing # "no" => RoutePlanned
       /\ svc.route # NoRoute /\ old.up /\ pc # "ended" => RoutePlanned \/ file = Desired

PlanInv == pc # "idle" => Reasoned /\ AllAnnounced

LEMMA PlanReasoned ==
  /\ "adopt-image" \in PlanService.changes => inst # NoInstance /\ Adopts
  /\ "attach-volume" \in PlanService.changes => svc.vol /\ (inst # NoInstance => ~Replaces)
  /\ "set-env" \in PlanService.changes => svc.env # NoEnv
  /\ PlanService.changes \cap RouteKinds # {} => svc.route # NoRoute
  /\ PlanService.action = "blocked" => inst # NoInstance /\ ~Replaces /\ ~inst.up
<1>1. planRoute # {} => svc.route # NoRoute
  BY DEF planRoute, If
<1>2. planRoute \subseteq RouteKinds /\ hooksOf \subseteq {"run-hook"}
  BY DEF planRoute, If, FreshSite, SiteChange, RouteKinds, hooksOf
<1>3. PlanService.changes = IF inst = NoInstance THEN planFresh
                            ELSE planConverge \ If(NoAddress, {"publish-route", "update-route"})
  BY DEF PlanService
<1>4. \A k \in planFresh : \/ k \in {"create-instance", "run-hook"}
                           \/ k = "attach-volume" /\ svc.vol
                           \/ k = "set-env" /\ svc.env # NoEnv
                           \/ k \in RouteKinds /\ svc.route # NoRoute
  BY <1>1, <1>2 DEF planFresh, If
<1>5. \A k \in planConverge : \/ k \in {"replace-image", "run-hook", "restart"}
                              \/ k = "adopt-image" /\ Adopts
                              \/ k = "attach-volume" /\ svc.vol /\ ~Replaces
                              \/ k = "set-env" /\ svc.env # NoEnv
                              \/ k \in RouteKinds /\ svc.route # NoRoute
  BY <1>1, <1>2 DEF planConverge, If
<1>6. PlanService.action = "blocked" => NoAddress
  BY DEF PlanService, finish
<1> QED
  BY <1>3, <1>4, <1>5, <1>6 DEF NoAddress, Running, RouteKinds

LEMMA PlanAnnounces ==
  /\ inst = NoInstance =>
       /\ "create-instance" \in PlanService.changes
       /\ svc.vol => "attach-volume" \in PlanService.changes
       /\ svc.env # NoEnv => "set-env" \in PlanService.changes
       /\ svc.route # NoRoute => \E k \in RouteKinds : k \in PlanService.changes
  /\ inst # NoInstance =>
       /\ Replaces => "replace-image" \in PlanService.changes
       /\ svc.env \notin {NoEnv, inst.env} => {"set-env", "restart"} \subseteq PlanService.changes
       /\ ~Replaces =>
            /\ Adopts => "adopt-image" \in PlanService.changes
            /\ svc.vol /\ ~inst.vol => "attach-volume" \in PlanService.changes
            /\ svc.route # NoRoute /\ inst.up /\ file # Desired
                 => \E k \in RouteKinds : k \in PlanService.changes
<1>1. CASE inst = NoInstance
  <2>1. PlanService.changes = planFresh
    BY <1>1 DEF PlanService
  <2>2. svc.route # NoRoute => \E k \in RouteKinds : k \in planRoute
    BY <1>1 DEF planRoute, If, FreshSite, RouteKinds
  <2> QED
    BY <1>1, <2>1, <2>2 DEF planFresh, If
<1>2. CASE inst # NoInstance
  <2>1. PlanService.changes = planConverge \ If(NoAddress, {"publish-route", "update-route"})
    BY <1>2 DEF PlanService
  <2>2. \A k \in planConverge : k \notin RouteKinds => k \in PlanService.changes
    BY <2>1 DEF If, RouteKinds
  <2>3. /\ Replaces => "replace-image" \in planConverge
        /\ ~Replaces /\ Adopts => "adopt-image" \in planConverge
        /\ ~Replaces /\ svc.vol /\ ~inst.vol => "attach-volume" \in planConverge
        /\ svc.env \notin {NoEnv, inst.env} => {"set-env", "restart"} \subseteq planConverge
    BY DEF planConverge, If
  <2>4. ~Replaces /\ svc.route # NoRoute /\ inst.up /\ file # Desired
          => \E k \in RouteKinds : k \in PlanService.changes
    <3> SUFFICES ASSUME ~Replaces, svc.route # NoRoute, inst.up, file # Desired
                 PROVE  \E k \in RouteKinds : k \in PlanService.changes
      OBVIOUS
    <3>1. PlanService.changes = planConverge
      BY <1>2, <2>1 DEF If, NoAddress, Running
    <3>2. \E k \in RouteKinds : k \in planRoute
      BY <1>2 DEF planRoute, If, SiteChange, Published, RouteKinds
    <3> QED
      BY <3>1, <3>2 DEF planConverge
  <2> QED
    BY <1>2, <2>2, <2>3, <2>4 DEF RouteKinds
<1> QED
  BY <1>1, <1>2

PlanStep == [PlanNext]_<<vars, plan>>

LEMMA StepPlan ==
  RunInv /\ SnapInv /\ FoundInv /\ DoneInv /\ PlanInv /\ PlanStep => PlanInv'
<1> SUFFICES ASSUME RunInv, SnapInv, FoundInv, DoneInv, PlanInv, PlanStep, pc' # "idle"
             PROVE  Reasoned' /\ AllAnnounced'
  BY DEF PlanInv
<1>0. /\ pc \in LiveSteps => inst \in Instances /\ inst # NoInstance
      /\ path \in Paths /\ oci \in BOOLEAN
      /\ path = "fresh" => pc \in FreshSteps
      /\ path = "inplace" => pc \in InplaceSteps
      /\ path \in {"back", "pull"} => pc \in BackSteps
      /\ replacing # "no" => pc \in {"repoint", "publish"}
      /\ NoInstance \notin Instances
      /\ [Next]_vars
  BY DeployAssumption DEF RunInv, TypeOK, PathInv, LiveInv, PlanStep, PlanNext, vars
<1>1. CASE pc = "idle"
  <2>1. Begin
    BY <1>0, <1>1 DEF Next, Deploy, Begin, Adopt, PreDeploy, Snapshot, Delete, Launch, Attach,
                WriteEnvFile, ContainerInit, Restart, HealthGate, SetEnv, RestartEnv, Repoint,
                Publish, ReplaceSite, Validate, Restore, Reload, PostDeploy, Return, CommandFails,
                Kill, Reboot, Push, SetOtherKey, Expire, vars, runVars
  <2>2. /\ plan' = PlanService
        /\ old' = inst /\ UNCHANGED <<inst, svc, oci, file, replacing>> /\ replacing = "no"
    <3>1. PlanNext
      BY <1>1 DEF PlanStep, vars, runVars
    <3>2. plan' = PlanService
      BY <1>1, <3>1 DEF PlanNext
    <3>3. replacing = "no"
      BY <1>0, <1>1
    <3> QED
      BY <2>1, <3>2, <3>3 DEF Begin, hostVars, siteVars
  <2>3. /\ path' = "fresh" <=> inst = NoInstance
        /\ path' = "new" <=> inst # NoInstance /\ Replaces
        /\ path' = "inplace" <=> inst # NoInstance /\ ~Replaces
        /\ path' \in {"fresh", "new", "inplace"}
        /\ path' = "inplace" /\ pc' = "adopt" => Adopts
    BY <2>1 DEF Begin
  <2>4. Reasoned'
    BY <2>2, <2>3, PlanReasoned DEF Reasoned, Planned, RoutePlanned, Adopts
  <2>5. Desired' = Desired
    BY <2>2 DEF Desired
  <2>6. AllAnnounced'
    <3>1. CASE inst = NoInstance
      BY <2>2, <2>3, <3>1, PlanAnnounces DEF AllAnnounced, Planned, RoutePlanned
    <3>2. CASE inst # NoInstance
      BY <2>2, <2>3, <2>5, <3>2, PlanAnnounces DEF AllAnnounced, Planned, RoutePlanned
    <3> QED
      BY <3>1, <3>2
  <2> QED
    BY <2>4, <2>6
<1>2. CASE pc # "idle"
  <2>1. plan' = plan /\ Reasoned /\ AllAnnounced
    BY <1>2 DEF PlanStep, PlanNext, PlanInv
  <2>2. UNCHANGED <<svc, oci>>
    BY <1>0, <1>2 DEF Next, Deploy, Begin, Adopt, PreDeploy, Snapshot, Delete, Launch, Attach,
                WriteEnvFile, ContainerInit, Restart, HealthGate, SetEnv, RestartEnv, Repoint,
                Publish, ReplaceSite, PostDeploy, Return, CommandFails,
                Kill, Reboot, Push, SetOtherKey, Expire, vars
  <2>3. /\ UNCHANGED old /\ (pc' = "adopt" => pc = "adopt")
        /\ path' = path \/ (path \in {"new", "back"} /\ path' \in {"back", "pull"})
    <3>1. CASE Raise
      BY <3>1 DEF Raise, BacksBy
    <3>2. CASE ~Raise /\ ~UNCHANGED runVars
      BY <1>0, <1>2, <3>2 DEF Next, Deploy, Begin, Adopt, PreDeploy, Snapshot, Delete, Launch,
                Attach, AfterAttach, WriteEnvFile, ContainerInit, Restart, HealthGate, SetEnv,
                RestartEnv, AfterEnv, EnvNotRestarted, Repoint, AfterRepoint, Publish,
                AfterPublish, ReplaceSite, PostDeploy, Return, CommandFails, Kill, Reboot, Push,
                SetOtherKey, Expire, vars, Goto, End, Forget
    <3>3. CASE UNCHANGED runVars
      BY <3>3 DEF runVars
    <3> QED
      BY <3>1, <3>2, <3>3
  <2>4. pc = "ended" => pc' = "ended"
    BY <1>0 DEF Next, Deploy, Begin, Adopt, PreDeploy, Snapshot, Delete, Launch, Attach,
                WriteEnvFile, ContainerInit, Restart, HealthGate, SetEnv, RestartEnv, Repoint,
                Publish, ReplaceSite, Validate, Restore, Reload, PostDeploy, Return, Forget,
                CommandFails, Kill, Reboot, Push, SetOtherKey, Expire, vars, runVars
  <2>5. Reasoned'
    BY <2>1, <2>2, <2>3 DEF Reasoned, Planned, RoutePlanned
  <2>6. path = "inplace" /\ path' = "inplace" =>
          /\ replacing' # "no" => RoutePlanned
          /\ svc.route # NoRoute /\ old.up /\ pc' # "ended" => RoutePlanned \/ file' = Desired'
    <3> SUFFICES ASSUME path = "inplace", path' = "inplace"
                 PROVE  /\ replacing' # "no" => RoutePlanned
                        /\ svc.route # NoRoute /\ old.up /\ pc' # "ended"
                             => RoutePlanned \/ file' = Desired'
      OBVIOUS
    <3>1. /\ inst.up = old.up /\ inst.addr = old.addr /\ pc \in InplaceSteps
          /\ replacing # "no" => RoutePlanned
          /\ svc.route # NoRoute /\ old.up /\ pc # "ended" => RoutePlanned \/ file = Desired
      BY <1>0, <1>2, <2>1 DEF FoundInv, AllAnnounced
    <3>2. inst'.addr = old.addr
      <4>1. FoundInv' => inst'.addr = old.addr
        BY <2>3, <1>2 DEF FoundInv
      <4> QED
        BY <1>0, <4>1, StepFound
    <3>3. Desired' = Desired
      BY <2>2, <3>1, <3>2 DEF Desired
    <3>4. CASE UNCHANGED siteVars
      BY <2>1, <2>4, <3>1, <3>3, <3>4 DEF siteVars
    <3>5. CASE replacing # "no"
      BY <3>1, <3>5
    <3>6. CASE Publish /\ ~Published(Desired) /\ svc.route # NoRoute
      <4>1. pc = "publish" /\ inst.up
        BY <3>6 DEF Publish, DoneInv, DoneAt
      <4> QED
        BY <3>1, <3>6, <4>1 DEF Published
    <3>7. CASE LeaveSite /\ replacing = "no"
      BY <2>1, <2>4, <3>1, <3>3, <3>7 DEF LeaveSite
    <3> QED
      BY <1>0, <1>2, <3>1, <3>4, <3>5, <3>6, <3>7 DEF Next, Deploy, Begin, Adopt, PreDeploy,
                Snapshot, Delete, Launch, Attach, WriteEnvFile, ContainerInit, Restart, HealthGate,
                SetEnv, RestartEnv, Repoint, Publish, ReplaceSite, Validate, Restore, Reload,
                PostDeploy, Return, CommandFails, Kill, Reboot, Push, SetOtherKey, Expire, vars,
                InplaceSteps
  <2>7. path = "fresh" /\ replacing' # "no" => RoutePlanned
    <3> SUFFICES ASSUME path = "fresh", replacing' # "no"
                 PROVE  RoutePlanned
      OBVIOUS
    <3>1. CASE replacing # "no"
      BY <2>1, <3>1 DEF AllAnnounced
    <3>2. CASE Publish /\ svc.route # NoRoute
      BY <2>1, <3>2 DEF AllAnnounced
    <3>3. pc # "repoint"
      BY <1>0 DEF FreshSteps
    <3> QED
      BY <1>0, <1>2, <3>1, <3>2, <3>3 DEF Next, Deploy, Begin, Adopt, PreDeploy,
                Snapshot, Delete, Launch, Attach, WriteEnvFile, ContainerInit, Restart, HealthGate,
                SetEnv, RestartEnv, Repoint, Publish, ReplaceSite, Validate, Restore, Reload,
                PostDeploy, Return, CommandFails, Kill, LeaveSite, Reboot, Push, SetOtherKey,
                Expire, vars, siteVars
  <2>8. AllAnnounced'
    BY <2>1, <2>2, <2>3, <2>6, <2>7 DEF AllAnnounced, Planned, RoutePlanned
  <2> QED
    BY <2>5, <2>8
<1> QED
  BY <1>1, <1>2

(* What a step changes on the host or the edge has been announced.         *)
LEMMA StepAnnounced ==
  ASSUME RunInv, SnapInv, FoundInv, DoneInv, PlanInv, [Next]_vars, pc \notin {"idle", "ended"}
  PROVE  /\ (inst = NoInstance) # (inst' = NoInstance) =>
              Announced({"create-instance", "replace-image"})
         /\ inst # NoInstance /\ inst' # NoInstance =>
              /\ inst'.ref # inst.ref => Announced({"adopt-image"})
              /\ inst'.vol # inst.vol => Announced({"attach-volume", "replace-image"})
              /\ inst'.env # inst.env =>
                   IF pc = "env" THEN Announced({"set-env"}) ELSE Announced({"replace-image"})
              /\ inst'.ran # inst.ran => Announced({"create-instance", "replace-image", "restart"})
         /\ file' # file => Announced({"publish-route", "update-route", "replace-image"})
<1>0. /\ pc \in LiveSteps => inst \in Instances /\ inst # NoInstance
      /\ path \in Paths /\ oci \in BOOLEAN
      /\ path = "fresh" => pc \in FreshSteps
      /\ path = "inplace" => pc \in InplaceSteps
      /\ path = "new" => old \in Instances
      /\ path \in {"back", "pull"} => pc \in BackSteps /\ old \in Instances
      /\ NoInstance \notin Instances /\ svc \in Declarable
      /\ svc.image \in Images /\ svc.env \in Values /\ svc.vol \in BOOLEAN
      /\ replacing # "no" => pc \in {"repoint", "publish"}
      /\ inst \in Instances \cup {NoInstance}
      /\ AllAnnounced
  BY DeployAssumption DEF RunInv, TypeOK, PathInv, LiveInv, Declarable, PlanInv
<1>1. file' # file => Announced({"publish-route", "update-route", "replace-image"})
  <2> SUFFICES ASSUME file' # file
               PROVE  \E k \in {"publish-route", "update-route", "replace-image"} : Planned(k)
    BY DEF Announced, Planned
  <2>1. CASE path \in {"new", "back", "pull"}
    BY <1>0, <2>1 DEF AllAnnounced
  <2>2. CASE path \in {"fresh", "inplace"}
    <3>1. pc # "repoint"
      BY <1>0, <2>2 DEF FreshSteps, InplaceSteps
    <3>2. CASE replacing # "no"
      BY <1>0, <2>2, <3>2 DEF AllAnnounced, RoutePlanned, RouteKinds
    <3>3. CASE Publish /\ ~Published(Desired) /\ svc.route # NoRoute
      <4>1. path = "inplace" => old.up
        BY <3>3 DEF Publish, DoneInv, DoneAt, FoundInv
      <4>2. RoutePlanned
        BY <1>0, <2>2, <3>3, <4>1 DEF AllAnnounced, Published, Publish
      <4> QED
        BY <4>2 DEF RoutePlanned, RouteKinds
    <3> QED
      BY <1>0, <3>1, <3>2, <3>3 DEF Next, Deploy, Begin, Adopt, PreDeploy, Snapshot, Delete, Launch,
                Attach, WriteEnvFile, ContainerInit, Restart, HealthGate, SetEnv, RestartEnv,
                Repoint, Publish, ReplaceSite, Validate, Restore, Reload, PostDeploy, Return,
                CommandFails, Kill, LeaveSite, Reboot, Push, SetOtherKey, Expire, vars, siteVars
  <2> QED
    BY <1>0, <2>1, <2>2 DEF Paths
<1>2. CASE inst' = inst
  BY <1>1, <1>2
<1>3. CASE Delete
  <2>1. path \in {"new", "back", "pull"} /\ inst' = NoInstance
    BY <1>0, <1>3 DEF Delete, Paths, FreshSteps, InplaceSteps
  <2>2. Announced({"create-instance", "replace-image"})
    BY <1>0, <2>1 DEF AllAnnounced, Announced, Planned
  <2> QED
    BY <1>1, <2>1, <2>2
<1>4. CASE pc = "launch"
  <2>1. path \in {"fresh", "new", "back", "pull"} /\ inst = NoInstance
    BY <1>0, <1>4 DEF FoundInv, Paths, InplaceSteps
  <2>2. Announced({"create-instance", "replace-image"})
    BY <1>0, <2>1 DEF AllAnnounced, Announced, Planned
  <2> QED
    BY <1>1, <2>1, <2>2
<1>5. CASE CommandFails /\ pc = "delete"
  <2>1. inst' = inst \/ (inst \in Instances /\ inst' = [inst EXCEPT !.up = FALSE])
    BY <1>0, <1>5 DEF CommandFails
  <2>2. inst' = inst \/ ( /\ inst' \in Instances /\ inst # NoInstance /\ inst'.ref = inst.ref
                           /\ inst'.vol = inst.vol /\ inst'.env = inst.env /\ inst'.ran = inst.ran)
    BY <1>0, <2>1 DEF Instances
  <2> QED
    BY <1>0, <1>1, <2>2
<1>6. CASE Adopt
  <2>1. /\ inst \in Instances /\ inst' = [inst EXCEPT !.ref = svc.image] /\ path = "inplace"
        /\ pc = "adopt"
    BY <1>0, <1>6 DEF Adopt, LiveSteps, Paths, FreshSteps, BackSteps, ReplaceSteps, RunInv, PathInv
  <2>2. /\ inst' \in Instances /\ inst'.vol = inst.vol /\ inst'.env = inst.env
        /\ inst'.ran = inst.ran
    BY <1>0, <2>1 DEF Instances, References
  <2>3. Announced({"adopt-image"})
    BY <1>0, <2>1 DEF AllAnnounced, Announced, Planned
  <2> QED
    BY <1>0, <1>1, <2>1, <2>2, <2>3
<1>7. CASE Attach
  <2>1. /\ inst \in Instances /\ inst' = [inst EXCEPT !.vol = @ \/ Attaches] /\ pc = "attach"
    BY <1>0, <1>7 DEF Attach, LiveSteps
  <2>2. Attaches \in BOOLEAN /\ inst.vol \in BOOLEAN
    BY <1>0, <2>1 DEF Attaches, Instances, Paths
  <2>3. /\ inst' \in Instances /\ inst'.ref = inst.ref /\ inst'.env = inst.env
        /\ inst'.ran = inst.ran /\ inst'.vol = (inst.vol \/ Attaches)
    BY <2>1, <2>2 DEF Instances
  <2>4. inst'.vol # inst.vol => Announced({"attach-volume", "replace-image"})
    <3>1. inst'.vol # inst.vol => ~inst.vol /\ Attaches
      BY <2>2, <2>3
    <3>2. path \in {"fresh", "inplace"} => Attaches = svc.vol
      BY DEF Attaches
    <3>3. path = "inplace" => inst.vol = old.vol
      BY <2>1 DEF FoundInv
    <3>4. path \in {"new", "back", "pull"} => Planned("replace-image")
      BY <1>0 DEF AllAnnounced
    <3>5. path \in {"fresh", "inplace"} /\ svc.vol /\ ~inst.vol => Planned("attach-volume")
      BY <1>0, <3>3 DEF AllAnnounced
    <3> QED
      BY <1>0, <3>1, <3>2, <3>4, <3>5 DEF Announced, Planned, Paths
  <2> QED
    BY <1>0, <1>1, <2>1, <2>3, <2>4
<1>8. CASE WriteEnvFile
  <2>1. /\ inst \in Instances /\ old \in Instances /\ pc = "envfile"
        /\ path \in {"new", "back", "pull"}
    BY <1>0, <1>8 DEF WriteEnvFile, LiveSteps, FreshSteps, InplaceSteps, Paths
  <2>2. /\ inst' \in Instances /\ inst'.ref = inst.ref /\ inst'.vol = inst.vol
        /\ inst'.ran = inst.ran
    BY <1>8, <2>1 DEF WriteEnvFile, Instances
  <2>3. Announced({"replace-image"})
    BY <1>0, <2>1 DEF AllAnnounced, Announced, Planned
  <2> QED
    BY <1>0, <1>1, <2>1, <2>2, <2>3
<1>9. CASE ContainerInit
  <2>1. inst \in Instances /\ inst' \in {inst, [inst EXCEPT !.ready = TRUE]}
    BY <1>0, <1>9 DEF ContainerInit, LiveSteps
  <2>2. /\ inst' \in Instances /\ inst'.ref = inst.ref /\ inst'.vol = inst.vol
        /\ inst'.ran = inst.ran /\ inst'.env = inst.env
    BY <2>1 DEF Instances
  <2> QED
    BY <1>0, <1>1, <2>1, <2>2
<1>10. CASE Restart
  <2>1. /\ inst \in Instances /\ inst' \in {inst, [inst EXCEPT !.ran = inst.env]}
        /\ path \in {"new", "back", "pull"}
    BY <1>0, <1>10 DEF Restart, LiveSteps, FreshSteps, InplaceSteps, Paths
  <2>2. /\ inst' \in Instances /\ inst'.ref = inst.ref /\ inst'.vol = inst.vol
        /\ inst'.env = inst.env
    BY <2>1 DEF Instances
  <2>3. Announced({"create-instance", "replace-image", "restart"})
    BY <1>0, <2>1 DEF AllAnnounced, Announced, Planned
  <2> QED
    BY <1>0, <1>1, <2>1, <2>2, <2>3
<1>11. CASE SetEnv
  <2>1. /\ inst \in Instances /\ pc = "env"
        /\ inst' = (IF svc.env \in {NoEnv, inst.env} THEN inst ELSE [inst EXCEPT !.env = svc.env])
    BY <1>0, <1>11 DEF SetEnv, LiveSteps
  <2>2. /\ inst' \in Instances /\ inst'.ref = inst.ref /\ inst'.vol = inst.vol
        /\ inst'.ran = inst.ran
    BY <1>0, <2>1 DEF Instances
  <2>3. inst'.env # inst.env => svc.env \notin {NoEnv, inst.env}
    BY <2>1
  <2>4. path \in {"fresh", "inplace", "new"}
    BY <1>0, <2>1 DEF BackSteps, ReplaceSteps, Paths
  <2>5. path \in {"new", "inplace"} => inst.env = old.env
    BY <2>1 DEF FoundInv, EnvKeptSteps
  <2>6. svc.env \notin {NoEnv, inst.env} => Planned("set-env")
    BY <1>0, <2>4, <2>5 DEF AllAnnounced
  <2>7. inst'.env # inst.env => Announced({"set-env"})
    BY <2>3, <2>6 DEF Announced, Planned
  <2> QED
    BY <1>0, <1>1, <2>1, <2>2, <2>7
<1>12. CASE RestartEnv
  <2>1. /\ pc = "envrestart" /\ inst \in Instances
        /\ inst' \in {inst, [inst EXCEPT !.ran = inst.env]}
    BY <1>0, <1>12 DEF RestartEnv, LiveSteps
  <2>2. /\ inst' \in Instances /\ inst'.ref = inst.ref /\ inst'.vol = inst.vol
        /\ inst'.env = inst.env
    BY <2>1 DEF Instances
  <2>3. path \in {"fresh", "inplace", "new"}
    BY <1>0, <2>1 DEF BackSteps, ReplaceSteps, Paths
  <2>4. path = "inplace" => Planned("restart")
    BY <1>0, <2>1 DEF AllAnnounced, FoundInv
  <2>5. Announced({"create-instance", "replace-image", "restart"})
    BY <1>0, <2>3, <2>4 DEF AllAnnounced, Announced, Planned
  <2> QED
    BY <1>0, <1>1, <2>1, <2>2, <2>5
<1>13. inst' = inst \/ Delete \/ pc = "launch" \/ (CommandFails /\ pc = "delete") \/ Adopt \/ Attach
       \/ WriteEnvFile \/ ContainerInit \/ Restart \/ SetEnv \/ RestartEnv
  BY DEF Next, Deploy, Begin, PreDeploy, Snapshot, Launch, HealthGate, Repoint, Publish, ReplaceSite,
         PostDeploy, Return, CommandFails, Kill, Reboot, Push, SetOtherKey, Expire, vars, hostVars
<1> QED
  BY <1>2, <1>3, <1>4, <1>5, <1>6, <1>7, <1>8, <1>9, <1>10, <1>11, <1>12, <1>13

(* A deploy, with its plan.                                                *)
PlannedInv == DeployInv /\ SnapInv /\ FoundInv /\ DoneInv /\ PlanInv

LEMMA PlannedAlways == PlanFairSpec => []PlannedInv
<1>1. PlanInit => PlannedInv
  <2> SUFFICES ASSUME PlanInit PROVE PlannedInv
    OBVIOUS
  <2>1. /\ Init /\ pc = "idle" /\ path = "inplace" /\ outcome = "none" /\ old = NoInstance
    BY DEF PlanInit, Init
  <2>2. DeployInv
    BY <2>1, InitRun, InitServe DEF DeployInv, KeysInv, BackInv, RouteInv
  <2>3. SnapInv
    BY <2>1, InitSnap
  <2> QED
    BY <2>1, <2>2, <2>3 DEF PlannedInv, FoundInv, DoneInv, DoneAt, PlanInv, ImageSteps,
                            VolumeSteps, SetSteps
<1>2. PlannedInv /\ [PlanNext]_<<vars, plan>> => PlannedInv'
  <2>1. [PlanNext]_<<vars, plan>> => [Next]_vars
    BY DEF PlanNext, vars
  <2> QED
    BY <2>1, StepRun, StepKeys, StepBack, StepRoute, StepServe, StepSnap, StepFound, StepDone,
       StepPlan
       DEF PlannedInv, DeployInv, PlanStep
<1> QED
  BY <1>1, <1>2, PTL DEF PlanFairSpec

(* Whatever earlier deploys left half done and whatever fails, a deploy    *)
(* that says it is done has the declared image, environment and route on   *)
(* the host and the edge, and all that its plan announced, and the route   *)
(* is served, or is a file it has found that an earlier one wrote and left *)
(* without its being loaded (edge.go:320): no step that was skipped, or    *)
(* ended with an error, is reported as done.                               *)
THEOREM OkIsAlwaysTrue == PlanFairSpec => []OkIsTrue
<1>1. PlannedInv => OkIsTrue
  <2> SUFFICES ASSUME PlannedInv, outcome = "ok"
               PROVE  /\ Filed /\ (svc.vol /\ path # "new" => inst.vol) /\ Served
                      /\ AnnouncedIsDone
    BY DEF OkIsTrue, OkIsFiled, AnnouncedIsDone
  <2>1. /\ pc = "ended" /\ path \in {"fresh", "inplace", "new"} /\ inst \in Instances
        /\ ImageDone /\ RouteDone /\ svc.env \in {NoEnv, inst.env}
        /\ path # "new" /\ svc.vol => inst.vol
        /\ path = "inplace" => inst.up
    BY DEF PlannedInv, DoneInv, DoneAt
  <2>2. /\ path = "inplace" => inst.up = old.up
        /\ Reasoned /\ inst # NoInstance /\ oci \in BOOLEAN
    BY <2>1, DeployAssumption DEF PlannedInv, FoundInv, PlanInv, DeployInv, RunInv, TypeOK
  <2>3. Filed
    BY <2>1, <2>2 DEF Filed, ImageDone, RouteDone, Desired
  <2>4. plan.action # "blocked"
    BY <2>1, <2>2 DEF Reasoned
  <2>5. /\ Announced({"adopt-image"}) => oci
        /\ Announced({"attach-volume"}) => svc.vol /\ path # "new"
        /\ Announced({"set-env"}) => svc.env # NoEnv
        /\ Announced({"publish-route", "update-route"}) => svc.route # NoRoute
    BY <2>2 DEF Announced, Reasoned, Planned, RoutePlanned, RouteKinds
  <2>6. AnnouncedIsDone
    BY <2>1, <2>4, <2>5 DEF AnnouncedIsDone, ImageDone, RouteDone
  <2>7. Served
    BY <2>1 DEF PlannedInv, DeployInv, RunInv, PathInv, ServeInv
  <2> QED
    BY <2>1, <2>3, <2>6, <2>7
<1> QED
  BY <1>1, PlannedAlways, PTL

(* PlanService and DeployService read the same conditions: over the ways   *)
(* back, the failures and the kills, no step of a deploy makes, deletes or *)
(* changes anything its plan has not announced.                            *)
THEOREM NothingIsUnannounced == PlanFairSpec => NothingUnannounced
<1> DEFINE A == pc \notin {"idle", "ended"} =>
       /\ (inst = NoInstance) # (inst' = NoInstance) =>
            Announced({"create-instance", "replace-image"})
       /\ inst # NoInstance /\ inst' # NoInstance =>
            /\ inst'.ref # inst.ref => Announced({"adopt-image"})
            /\ inst'.vol # inst.vol => Announced({"attach-volume", "replace-image"})
            /\ inst'.env # inst.env =>
                 IF pc = "env" THEN Announced({"set-env"}) ELSE Announced({"replace-image"})
            /\ inst'.ran # inst.ran => Announced({"create-instance", "replace-image", "restart"})
       /\ file' # file => Announced({"publish-route", "update-route", "replace-image"})
<1>1. PlannedInv /\ [PlanNext]_<<vars, plan>> => [A]_vars
  <2> SUFFICES ASSUME PlannedInv, [PlanNext]_<<vars, plan>>, pc \notin {"idle", "ended"}
               PROVE  A
    OBVIOUS
  <2>1. [Next]_vars
    BY DEF PlanNext, vars
  <2> QED
    BY <2>1, StepAnnounced DEF PlannedInv, DeployInv
<1>2. NothingUnannounced <=> [][A]_vars
  BY DEF NothingUnannounced
<1> HIDE DEF A
<1> QED
  BY <1>1, <1>2, PlannedAlways, PTL DEF PlanFairSpec
=============================================================================
