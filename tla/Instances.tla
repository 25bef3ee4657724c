----------------------------- MODULE Instances -----------------------------
(***************************************************************************)
(* The tenants of one host: the requests that launch, update, suspend,     *)
(* delete and move them (pkg/server/instances.go, instance_migrate.go),    *)
(* which look at the tenant and then wait in line, and the jobs they       *)
(* become (pkg/engine/instance.go), command after command, on the          *)
(* instances, the images and the edge they share (pkg/caddy/edge.go).  A   *)
(* command may fail, the daemon may die between any two, an address that   *)
(* is given up may be handed to the next instance, and image retention     *)
(* runs beside them (pkg/server/images.go).                                *)
(*                                                                         *)
(* What a launch sets up on the instance (volumes, forwards, labels, the   *)
(* environment) is one command that may fail.  Every tenant has a domain   *)
(* and a health check.  A migration is one step here (see Migration), and  *)
(* so is a build; which images retention picks of those it may delete is   *)
(* left open (see ImageRetention).                                         *)
(***************************************************************************)
EXTENDS Naturals, Sequences, FiniteSets

CONSTANTS
    Names, Images, Addresses,
    Sound,        \* the images that pass the health check
    None,         \* no instance, no site, no address, no image
    MaxRequests, MaxFaults, MaxKills   \* bounds

ASSUME InstancesAssumption ==
    /\ Sound \subseteq Images
    /\ None \notin Addresses \cup Images \cup [image : Images, addr : Addresses, moved : BOOLEAN]
    /\ "off" \notin Addresses
    /\ {MaxRequests, MaxFaults, MaxKills} \subseteq Nat

VARIABLES
    inst,    \* the instance of each name: its image, its address if it runs,
             \* whether it was migrated away
    site,    \* its site file on the edge: None, "off" or an address
    served,  \* what Caddy serves for its domain
    store,   \* the images the host has
    prune,   \* the images scheduled retention is about to delete
    line,    \* the requests that wait for the host
    job,     \* the one that has it
    spare,   \* what is left of the bounds
    off      \* history: the names that are suspended

vars == <<inst, site, served, store, prune, line, job, spare, off>>

onHost == <<inst, store, prune>>
onEdge == <<site, served>>

Idle == [op |-> "none"]
Busy == job # Idle

(* The address an instance has, and those Incus may hand out.              *)
Running(n) == inst[n] # None /\ inst[n].addr # None
Free  == Addresses \ {inst[n].addr : n \in {m \in Names : Running(m)}}
InUse == {inst[n].image : n \in {m \in Names : inst[m] # None}}

Instance(image, addr, moved) == [image |-> image, addr |-> addr, moved |-> moved]

Init ==
    /\ inst = [n \in Names |-> None]
    /\ site = [n \in Names |-> None] /\ served = site
    /\ store = Images /\ prune = {}
    /\ line = <<>> /\ job = Idle /\ off = {}
    /\ spare = [requests |-> MaxRequests, faults |-> MaxFaults, kills |-> MaxKills]

Spend(what) == spare[what] > 0 /\ spare' = [spare EXCEPT ![what] = @ - 1]

(* A command works, or fails at the cost of a fault.                       *)
Outcome(ok) == IF ok THEN UNCHANGED spare ELSE Spend("faults")

-----------------------------------------------------------------------------
(* Requests.                                                               *)

Managed(n)     == inst[n] # None
NotMigrated(n) == inst[n] # None => ~inst[n].moved

(* What the handler asks of the tenant, before the job is put in line.     *)
Accepts(r) ==
    r.op # "build" => /\ r.op # "put" => Managed(r.name)
                      /\ r.op # "delete" => NotMigrated(r.name)

Request(r) ==
    /\ Spend("requests")
    /\ Accepts(r)
    /\ line' = Append(line, r)
    /\ UNCHANGED <<onHost, onEdge, job, off>>

(* The first in line has the host, unless retention has it.                *)
Start ==
    /\ ~Busy /\ prune = {} /\ line # <<>>
    /\ job' = [op |-> Head(line).op, name |-> Head(line).name, image |-> Head(line).image,
               at |-> "look", old |-> None, prev |-> None]
    /\ line' = Tail(line)
    /\ UNCHANGED <<onHost, onEdge, spare, off>>

At(op, step) == Busy /\ job.op = op /\ job.at = step
Goto(step)   == job' = [job EXCEPT !.at = step]
End          == job' = Idle

-----------------------------------------------------------------------------
(* The edge.                                                               *)

(* replaceSite pushes the file, has Caddy validate it and reloads.         *)
Write(content) ==
    /\ \E ok \in BOOLEAN :
          /\ Outcome(ok)
          /\ site' = IF ok THEN [site EXCEPT ![job.name] = content] ELSE site
          /\ IF ok THEN job' = [job EXCEPT !.at = "validate", !.prev = site[job.name]] ELSE End
    /\ UNCHANGED <<onHost, served, line, off>>

(* A file Caddy refuses is put back, unless that fails too.                *)
Validate ==
    /\ Busy /\ job.at = "validate"
    /\ \/ Goto("reload") /\ UNCHANGED <<site, spare>>
       \/ /\ Spend("faults") /\ End
          /\ \/ site' = [site EXCEPT ![job.name] = job.prev]
             \/ UNCHANGED site
    /\ UNCHANGED <<onHost, served, line, off>>

(* Caddy loads every file there is.  One that is not reloaded, or only     *)
(* after its restart, fails the job, but not a delete.                     *)
Reload ==
    /\ Busy /\ job.at = "reload"
    /\ \E ok \in BOOLEAN :
          /\ Outcome(ok)
          /\ served' \in IF ok THEN {site} ELSE {served, site}
          /\ off' = IF ok /\ job.op = "suspend" THEN off \cup {job.name} ELSE off
    /\ IF job.op = "delete" THEN Goto("remove") ELSE End
    /\ UNCHANGED <<onHost, site, line>>

(* RemoveSite; a route that cannot be removed is a warning.                *)
RemoveSite(next) ==
    /\ \E ok \in BOOLEAN :
          /\ Outcome(ok)
          /\ IF ok /\ site[job.name] # None
             THEN site' = [site EXCEPT ![job.name] = None] /\ Goto("reload")
             ELSE UNCHANGED site /\ IF next = "end" THEN End ELSE Goto(next)
    /\ off' = off \ {job.name}
    /\ UNCHANGED <<onHost, served, line>>

(* What RepointUpstream leaves alone: a site it does not find, one without *)
(* an upstream, and one that names an address of the instance.             *)
PointsAnyhow(n) == site[n] \in {None, inst[n].addr}
Points(n) == site[n] \in {None, "off", inst[n].addr}

-----------------------------------------------------------------------------
(* PUT: Launch.                                                            *)

(* The record is read again: a copy that was migrated away is refused.     *)
Look ==
    /\ At("put", "look")
    /\ IF ~NotMigrated(job.name) THEN End /\ UNCHANGED off
       ELSE /\ Goto(IF Managed(job.name) THEN "setup" ELSE "create")
            /\ off' = off \ {job.name}
    /\ UNCHANGED <<onHost, onEdge, line, spare>>

(* `incus launch` fails, with nothing or with an instance that is stopped. *)
Launched(image, moved) ==
    /\ image \in store
    /\ \E a \in Free : inst' = [inst EXCEPT ![job.name] = Instance(image, a, moved)]
HalfLaunched(image, moved) ==
    \/ UNCHANGED inst
    \/ image \in store /\ inst' = [inst EXCEPT ![job.name] = Instance(image, None, moved)]

Create ==
    /\ At("put", "create")
    /\ \/ Launched(job.image, FALSE) /\ Goto("setup") /\ UNCHANGED spare
       \/ Spend("faults") /\ HalfLaunched(job.image, FALSE) /\ End
       \/ job.image \notin store /\ End /\ UNCHANGED <<inst, spare>>
    /\ UNCHANGED <<store, prune, onEdge, line, off>>

SetUp ==
    /\ At("put", "setup")
    /\ \E ok \in BOOLEAN : Outcome(ok) /\ IF ok THEN Goto("gate") ELSE End
    /\ UNCHANGED <<onHost, onEdge, line, off>>

Healthy(n) == Running(n) /\ inst[n].image \in Sound

Gate ==
    /\ At("put", "gate")
    /\ IF Healthy(job.name) THEN Goto("publish") ELSE End
    /\ UNCHANGED <<onHost, onEdge, line, spare, off>>

PublishSite ==
    /\ At("put", "publish")
    /\ IF site[job.name] = inst[job.name].addr
       THEN End /\ UNCHANGED <<onHost, onEdge, line, spare, off>>
       ELSE Write(inst[job.name].addr)

-----------------------------------------------------------------------------
(* Update.  What was read before the delete is all there is to go by.      *)

(* An instance that runs the image already only has its route looked at;   *)
(* the volumes of any other are snapshotted first.                         *)
LookUpdate ==
    /\ At("update", "look")
    /\ \/ /\ UNCHANGED spare
          /\ IF inst[job.name] = None \/ job.image \notin store THEN End
             ELSE IF inst[job.name].image # job.image
             THEN job' = [job EXCEPT !.at = "delete", !.old = inst[job.name]]
             ELSE IF Healthy(job.name) THEN Goto("repoint") ELSE End
       \/ Spend("faults") /\ End
    /\ UNCHANGED <<onHost, onEdge, line, off>>

(* The way back is the same way, to the image of before.                   *)
Back == IF job.image = job.old.image THEN End
        ELSE job' = [job EXCEPT !.at = "delete", !.image = job.old.image]

DeleteOld ==
    /\ At("update", "delete")
    /\ \/ inst' = [inst EXCEPT ![job.name] = None] /\ Goto("launch") /\ UNCHANGED spare
       \/ /\ Spend("faults") /\ Back
          /\ inst' \in {inst, [inst EXCEPT ![job.name] = IF @ = None THEN @ ELSE [@ EXCEPT !.addr = None]]}
    /\ UNCHANGED <<store, prune, onEdge, line, off>>

LaunchNew ==
    /\ At("update", "launch")
    /\ \/ Launched(job.image, job.old.moved) /\ Goto("setup") /\ UNCHANGED spare
       \/ Spend("faults") /\ HalfLaunched(job.image, job.old.moved) /\ Back
       \/ job.image \notin store /\ Back /\ UNCHANGED <<inst, spare>>
    /\ UNCHANGED <<store, prune, onEdge, line, off>>

SetUpNewOnly ==
    /\ At("update", "setup")
    /\ \E ok \in BOOLEAN :
          /\ Outcome(ok)
          /\ IF ok /\ Healthy(job.name)
             THEN IF job.image # job.old.image THEN Goto("repoint") ELSE End
             ELSE Back
    /\ UNCHANGED <<onHost, onEdge, line, off>>

SetUpNew ==
    /\ At("update", "setup")
    /\ \E ok \in BOOLEAN :
          /\ Outcome(ok)
          /\ IF ok /\ Healthy(job.name) THEN Goto("repoint") ELSE Back
    /\ UNCHANGED <<onHost, onEdge, line, off>>

RepointUpstream ==
    /\ At("update", "repoint")
    /\ IF Points(job.name)
       THEN End /\ UNCHANGED <<onHost, onEdge, line, spare, off>>
       ELSE Write(inst[job.name].addr)

-----------------------------------------------------------------------------
(* Suspend, delete and migrate do not look at the tenant's record again.   *)

Suspend ==
    /\ At("suspend", "look")
    /\ IF site[job.name] = "off"
       THEN End /\ UNCHANGED <<onHost, onEdge, line, spare, off>>
       ELSE Write("off")

(* With purge, the volumes to delete are read while the instance is there. *)
CannotPurge ==
    /\ End
    /\ IF Managed(job.name) THEN Spend("faults") ELSE UNCHANGED spare
    /\ UNCHANGED <<onHost, onEdge, line, off>>

Unroute == At("delete", "look") /\ (RemoveSite("remove") \/ CannotPurge)

(* The instance goes; deleting its volumes then ends the job either way.   *)
Remove ==
    /\ At("delete", "remove")
    /\ End
    /\ \/ inst' = [inst EXCEPT ![job.name] = None] /\ UNCHANGED spare
       \/ /\ Spend("faults")
          /\ inst' \in {inst, [inst EXCEPT ![job.name] = IF @ = None THEN @ ELSE [@ EXCEPT !.addr = None]]}
    /\ UNCHANGED <<store, prune, onEdge, line, off>>

(* The instance runs on another host and its copy here is stopped, and     *)
(* marked if that works; or it is as it was.                               *)
Migrate ==
    /\ At("migrate", "look")
    /\ \/ /\ Running(job.name) /\ NotMigrated(job.name)
          /\ \E marked \in BOOLEAN :
                /\ Outcome(marked)
                /\ inst' = [inst EXCEPT ![job.name].addr = None, ![job.name].moved = marked]
                /\ IF marked THEN Goto("unroute") ELSE End
       \/ End /\ UNCHANGED <<inst, spare>>
    /\ UNCHANGED <<store, prune, onEdge, line, off>>

UnrouteMoved == At("migrate", "unroute") /\ RemoveSite("end")

-----------------------------------------------------------------------------
(* Images: a build adds one and cleans up after itself, as a prune by hand *)
(* (an image of None) does.                                                *)

Build ==
    /\ At("build", "look") /\ End
    /\ LET has == store \cup ({job.image} \ {None})
       IN \E gone \in SUBSET (has \ (InUse \cup {job.image})) : store' = has \ gone
    /\ UNCHANGED <<inst, prune, onEdge, line, spare, off>>

(* Scheduled retention takes the host, or skips the round.                 *)
HostIsFreeAnyhow == TRUE
HostIsFree == ~Busy /\ line = <<>>

ChooseImages ==
    /\ HostIsFree /\ prune = {}
    /\ \E gone \in SUBSET (store \ InUse) : gone # {} /\ prune' = gone
    /\ UNCHANGED <<inst, store, onEdge, line, job, spare, off>>

DeleteImages ==
    /\ prune # {}
    /\ store' = store \ prune /\ prune' = {}
    /\ UNCHANGED <<inst, onEdge, line, job, spare, off>>

-----------------------------------------------------------------------------
(* The daemon dies, and with it the job and the line.                      *)
Kill ==
    /\ Spend("kills")
    /\ job' = Idle /\ line' = <<>> /\ prune' = {}
    /\ UNCHANGED <<inst, store, onEdge, off>>

Requests == [op : {"put", "update"}, name : Names, image : Images]
       \cup [op : {"suspend", "migrate", "delete"}, name : Names, image : {None}]
       \cup [op : {"build"}, name : {None}, image : Images \cup {None}]

Next ==
    \/ \E r \in Requests : Request(r)
    \/ Start \/ Validate \/ Reload
    \/ Look \/ Create \/ SetUp \/ Gate \/ PublishSite
    \/ LookUpdate \/ DeleteOld \/ LaunchNew \/ SetUpNew \/ RepointUpstream
    \/ Suspend \/ Unroute \/ Remove \/ Migrate \/ UnrouteMoved
    \/ Build \/ ChooseImages \/ DeleteImages
    \/ Kill

Spec == Init /\ [][Next]_vars

-----------------------------------------------------------------------------
(* Properties.                                                             *)

(* What Caddy serves for a suspended tenant is the 503 until somebody asks *)
(* for the instance again or it goes: no update, no way back, no other     *)
(* tenant's reload, failure or kill lifts it (edge.go:325-331, the way     *)
(* RepointUpstream finds no upstream in that file).                        *)
SuspendedStays == \A n \in off : site[n] = "off" /\ served[n] = "off"

(* While no command has failed and no daemon died, a domain is never sent  *)
(* to another tenant's instance, although an update gives up an address    *)
(* the next launch may get (RepointUpstream, RemoveSite before the delete).*)
Unhurt == spare.faults = MaxFaults /\ spare.kills = MaxKills
RouteLeadsHome ==
    Unhurt => \A n, m \in Names : n # m /\ Running(m) => served[n] # inst[m].addr

(* The image an update would go back to is on the host, although no        *)
(* instance runs it once the old one is deleted, and retention deletes     *)
(* what no instance runs (imageprune.go: "an update's rollback to the      *)
(* image the instance ran, are never affected").                           *)
RollbackPossible == Busy /\ job.op = "update" /\ job.old # None => job.old.image \in store

(* A copy that was migrated away is not started again here: "Nothing on    *)
(* this host may start or change that copy any more" (incus/env.go:26).    *)
MovedStaysDown == \A n \in Names : inst[n] # None /\ inst[n].moved => inst[n].addr = None
=============================================================================
