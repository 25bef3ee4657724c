---------------------------- MODULE ServicePlan ----------------------------
(***************************************************************************)
(* PlanService (pkg/engine/plan.go): what DeployService would do for one   *)
(* service, worked out from what it reads on the host without changing     *)
(* anything.  Here a plan is made of what every deploy of ServiceDeploy    *)
(* finds when it begins, as an apply does, and kept until the deploy ends. *)
(* That a change is announced is modelled; its wording is not.             *)
(***************************************************************************)
EXTENDS ServiceDeploy

VARIABLE plan  \* the plan of the deploy that runs

Kinds == {"create-instance", "replace-image", "adopt-image", "attach-volume", "set-env",
          "restart", "publish-route", "update-route", "run-hook"}
Actions == {"create", "update", "none", "blocked"}
Plans == [action : Actions, changes : SUBSET Kinds]
NoPlan == [action |-> "none", changes |-> {}]

(* Announced: the kinds of change of which the condition holds.            *)
If(condition, kinds) == IF condition THEN kinds ELSE {}

hooksOf == If(svc.init # NoInit, {"run-hook"})

(* PlanSiteFor, for an instance that has an address.                       *)
SiteChange == If(~Published(Desired), {IF file = NoSite THEN "publish-route" ELSE "update-route"})

(* A new instance's address is assigned when it is launched.               *)
FreshSite == {IF file = NoSite THEN "publish-route" ELSE "update-route"}

(* planRoute: the route of a replacement follows it.                       *)
planRoute ==
  If(svc.route # NoRoute, CASE inst = NoInstance -> FreshSite
                            [] inst # NoInstance /\ Replaces -> {"update-route"}
                            [] OTHER -> SiteChange)

planFresh ==
  {"create-instance"} \cup If(svc.vol, {"attach-volume"}) \cup If(svc.env # NoEnv, {"set-env"})
    \cup planRoute \cup hooksOf

(* A slip: the environment of a replacement is not compared.               *)
planConvergeNoEnv ==
  If(Replaces, {"replace-image"} \cup hooksOf)
    \cup If(~Replaces /\ Adopts, {"adopt-image"})
    \cup If(~Replaces /\ svc.vol /\ ~inst.vol, {"attach-volume"})
    \cup If(~Replaces /\ svc.env \notin {NoEnv, inst.env}, {"set-env", "restart"})
    \cup planRoute

planConverge ==
  If(Replaces, {"replace-image"} \cup hooksOf)
    \cup If(~Replaces /\ Adopts, {"adopt-image"})
    \cup If(~Replaces /\ svc.vol /\ ~inst.vol, {"attach-volume"})
    \cup If(svc.env \notin {NoEnv, inst.env}, {"set-env", "restart"})
    \cup planRoute

(* An instance that is stopped has no address to check or to route to; its *)
(* replacement gets its own.                                               *)
NoAddress == inst # NoInstance /\ ~Replaces /\ ~Running(inst)

finish ==
  CASE NoAddress -> "blocked"
    [] inst = NoInstance -> "create"
    [] ~NoAddress /\ inst # NoInstance ->
         IF planConverge # {} THEN "update" ELSE "none"

PlanService ==
  [action |-> finish,
   changes |-> IF inst = NoInstance THEN planFresh
               ELSE planConverge \ If(NoAddress, {"publish-route", "update-route"})]

PlanInit == Init /\ plan = NoPlan

(* The plan is made as the deploy begins, and forgotten when it is over.   *)
PlanNext ==
  /\ Next
  /\ plan' = IF pc' = "idle" THEN NoPlan ELSE IF pc = "idle" THEN PlanService ELSE plan

PlanFairSpec == PlanInit /\ [][PlanNext]_<<vars, plan>> /\ WF_vars(Deploy)

----------------------------------------------------------------------------
(* Properties.                                                             *)

Announced(kinds) == plan.changes \cap kinds # {}

(* A deploy does nothing its plan has not announced (PlanService: "so the  *)
(* two cannot drift apart"): over its steps, its ways back and its         *)
(* failures, the instance is deleted or made, its reference, volume,       *)
(* environment and route changed, and its service restarted, only as the   *)
(* plan says of what the deploy found.                                     *)
NothingUnannounced ==
  [][pc \notin {"idle", "ended"} =>
       /\ (inst = NoInstance) # (inst' = NoInstance) =>
            Announced({"create-instance", "replace-image"})
       /\ inst # NoInstance /\ inst' # NoInstance =>
            /\ inst'.ref # inst.ref => Announced({"adopt-image"})
            /\ inst'.vol # inst.vol => Announced({"attach-volume", "replace-image"})
            /\ inst'.env # inst.env =>
                 IF pc = "env" THEN Announced({"set-env"}) ELSE Announced({"replace-image"})
            /\ inst'.ran # inst.ran => Announced({"create-instance", "replace-image", "restart"})
       /\ file' # file => Announced({"publish-route", "update-route", "replace-image"})]_vars

(* What the plan announced is done when the deploy says it is, and a       *)
(* deploy whose plan is blocked never says so (PlanService: "a manifest    *)
(* that apply would refuse is a Blocker in the plan").                     *)
AnnouncedIsDone ==
  outcome = "ok" =>
    /\ plan.action # "blocked"
    /\ Announced({"create-instance", "replace-image"}) =>
         (IF oci THEN inst.ref ELSE inst.image) = svc.image
    /\ Announced({"adopt-image"}) => inst.ref = svc.image
    /\ Announced({"attach-volume"}) => inst.vol
    /\ Announced({"set-env"}) => inst.env = svc.env
    /\ Announced({"publish-route", "update-route"}) => file = Desired

(* A deploy that says ok tells the truth: the host and the edge hold what  *)
(* the manifest declares, and what its plan announced, and Caddy serves    *)
(* the route, but for a file an earlier deploy had left there unloaded.    *)
OkIsTrue == OkIsFiled /\ AnnouncedIsDone
=============================================================================
