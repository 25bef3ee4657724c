-------------------------------- MODULE Fleet --------------------------------
(***************************************************************************)
(* A fleet of several hosts, one daemon each, over one fleet.yml.  This    *)
(* module models what the daemons do to what they share and to their own   *)
(* side of it:                                                             *)
(*                                                                         *)
(*   - which host a daemon is and what its share is (DaemonHost, shareOf,  *)
(*     checkShare: pkg/config/hosts.go, pkg/engine/plan.go);               *)
(*   - PlanFleet and ApplyPlan (plan.go): the mesh first, then the network,*)
(*     then the services, stopping at the first failure;                   *)
(*   - applyMesh (mesh.go) and applyNetwork (network.go), one command or   *)
(*     one call to the DNS provider at a time;                             *)
(*   - the people around them: whoever commits to fleet.yml, and whoever   *)
(*     edits the zone by hand, reboots a host or rebuilds one.             *)
(*                                                                         *)
(* A plan is approved as PlanApproval models it; here it is applied sooner *)
(* or later.  The services are one, app, routed under the fleet's domain   *)
(* (ServiceDeploy models how one is deployed).                             *)
(***************************************************************************)
EXTENDS Dns, Mesh

CONSTANTS
  Hosts,        \* the hosts there may be
  DefaultHost,  \* fleet.yml's default_host
  Starts,       \* the fleet.yml's to begin with
  Troubles,     \* bounds: [faults, edits], how many of each happen together
  Joins, Moves, \* what edits of fleet.yml there may be: a host added, app moved from and to
  MaxKeys       \* bound: how many key pairs are made

(* A record of fleet.yml, and fleet.yml.                                   *)
Declarations == [type : STRING, name : STRING, zone : STRING, ttl : Nat, service : STRING, value : STRING]
FleetYmls == [hosts : SUBSET Hosts, mesh : BOOLEAN, key : [Hosts -> Nat], ep : [Hosts -> {0, 1}],
              home : Hosts, records : Seq(Declarations)]

(* Of the constants.                                                       *)
Assumption ==
  /\ IsFiniteSet(Hosts) /\ DefaultHost \in Hosts
  /\ Starts \subseteq FleetYmls
  /\ Moves \subseteq Hosts \X Hosts
  /\ Joins \subseteq Hosts
  /\ Troubles \subseteq [faults : Nat, edits : Nat]
  /\ MaxKeys \in Nat

VARIABLES
  yml,   \* fleet.yml, at the tip: [hosts, mesh, key, ep, home, records]
  st,    \* what the mesh probe would read of each host
  zone,  \* the domain's records at the provider
  app,   \* the hosts where app runs as its manifest says
  pc,    \* where each daemon's apply is
  plan,  \* the plan each daemon applies
  todo,  \* the calls SyncRecords still has to make
  made,  \* how many key pairs were made
  left,  \* what is left of the bounds
  unstarted  \* history: where an apply wrote the config and was cut off before it restarted

vars == <<yml, st, zone, app, pc, plan, todo, made, left, unstarted>>

Domain == "z"
Stages == {"idle", "mesh", "dns", "list", "call", "service"} \cup {Steps[i] : i \in DOMAIN Steps}

(* fleet.yml as the DNS rules read it.  Every host has an IPv4 address.    *)
DnsFleet(y) ==
  [hosts |-> y.hosts, default |-> DefaultHost, address |-> [h \in y.hosts |-> "A"],
   domain |-> Domain, records |-> y.records]
Services(y) == [n \in {"app"} |-> [host |-> y.home, route |-> "app"]]

(* DaemonHost, for a daemon told its host's name (--host-name): whether it *)
(* may plan this fleet.yml at all.                                         *)
DaemonHost(y, d) == d \in y.hosts

(* Its share is all there is in a fleet of one host.                       *)
Mine(y, d) == Cardinality(y.hosts) < 2 \/ y.home = d

(* Every host's records, and those that are a daemon's own.                *)
RecordsOf(y)   == DNSRecordsByHost(DnsFleet(y), Services(y))
ShareOf(y, d)  == Share(DnsFleet(y), RecordsOf(y), Domain, d)

(* fleet.yml refused for its records, or for one that reconcile writes too:*)
(* the network is blocked, and no record of it planned.                    *)
Refuses(y, d) ==
  \/ RecordsOf(y) = Refused
  \/ \E i \in DOMAIN ShareOf(y, d) :
       ShareOf(y, d)[i].type = "A" /\ ShareOf(y, d)[i].name \in {"@", "*"}

AsWanted(rs) ==
  [i \in DOMAIN rs |-> [type |-> rs[i].type, name |-> rs[i].name,
                        value |-> rs[i].value, ttl |-> rs[i].ttl]]

(* As it would be if each daemon planned every host's records.             *)
DesiredOfAll(y, d) == IF Refuses(y, d) THEN <<>> ELSE AsWanted(RecordsOf(y))

Desired(y, d) == IF Refuses(y, d) THEN <<>> ELSE AsWanted(ShareOf(y, d))

NoPlan == [none |-> TRUE]

PlanFleet(y, d) ==
  [y |-> y,
   mesh |-> IF y.mesh THEN planMesh(y, d, st[d]) ELSE NoMesh,
   dns |-> dnsDetails(PlanDNSSync(zone, Desired(y, d))),
   refused |-> Refuses(y, d),
   service |-> Mine(y, d) /\ d \notin app]

NetworkChanges(p) == DOMAIN p.dns # {}
Blocked(p) == MeshBlocked(p.mesh) \/ p.refused
Pending(p) == p.service \/ NetworkChanges(p) \/ MeshChanges(p.mesh)

(***************************************************************************)
(* One daemon's apply.                                                     *)
(***************************************************************************)
Goto(d, s) == pc' = [pc EXCEPT ![d] = s]
Stop(d) ==
  /\ pc' = [pc EXCEPT ![d] = "idle"]
  /\ plan' = [plan EXCEPT ![d] = NoPlan]
  /\ todo' = [todo EXCEPT ![d] = <<>>]

(* A plan of the tip that changes something and is not blocked is approved.*)
Plan(d) ==
  /\ pc[d] = "idle"
  /\ DaemonHost(yml, d)
  /\ LET p == PlanFleet(yml, d)
     IN  /\ Pending(p) /\ ~Blocked(p)
         /\ plan' = [plan EXCEPT ![d] = p]
  /\ Goto(d, "mesh")
  /\ UNCHANGED <<yml, st, zone, app, todo, made, left, unstarted>>

(* applyMesh works the plan out again and refuses another one; a key that  *)
(* was missing is all it makes.                                            *)
MeshBegin(d) ==
  /\ pc[d] = "mesh"
  /\ LET m == plan[d].mesh
         now == planMesh(plan[d].y, d, st[d])
     IN  IF ~MeshChanges(m)
         THEN Goto(d, "dns") /\ UNCHANGED <<st, plan, todo, made>>
         ELSE IF now # m THEN Stop(d) /\ UNCHANGED <<st, made>>
         ELSE IF m.genKey
         THEN /\ st[d].key = 0 => made < MaxKeys
              /\ st' = [st EXCEPT ![d] = KeyMade(@, made + 1)]
              /\ made' = IF st[d].key = 0 THEN made + 1 ELSE made
              /\ Goto(d, "dns") /\ UNCHANGED <<plan, todo>>
         ELSE Goto(d, Steps[1]) /\ UNCHANGED <<st, plan, todo, made>>
  /\ UNCHANGED <<yml, zone, app, left, unstarted>>

MeshCommand(d) == \E i \in DOMAIN Steps :
  /\ pc[d] = Steps[i]
  /\ st' = [st EXCEPT ![d] = MeshStep(@, plan[d].mesh, Steps[i])]
  /\ Goto(d, IF i = Len(Steps) THEN "dns" ELSE Steps[i + 1])
  /\ unstarted' = IF Steps[i] = "restart" /\ plan[d].mesh.restart THEN unstarted \ {d} ELSE unstarted
  /\ UNCHANGED <<yml, zone, app, plan, todo, made, left>>

(* The zone is read again, and must still need what the plan says.         *)
DnsCheck(d) ==
  /\ pc[d] = "dns"
  /\ IF ~NetworkChanges(plan[d]) THEN Goto(d, "service") /\ UNCHANGED <<plan, todo>>
     ELSE IF dnsDetails(PlanDNSSync(zone, Desired(plan[d].y, d))) # plan[d].dns THEN Stop(d)
     ELSE Goto(d, "list") /\ UNCHANGED <<plan, todo>>
  /\ UNCHANGED <<yml, st, zone, app, made, left, unstarted>>

(* SyncRecords reads it once more, and makes its calls.                    *)
DnsList(d) ==
  /\ pc[d] = "list"
  /\ todo' = [todo EXCEPT ![d] = PlanDNSSync(zone, Desired(plan[d].y, d))]
  /\ Goto(d, "call")
  /\ UNCHANGED <<yml, st, zone, app, plan, made, left, unstarted>>

DnsCall(d) ==
  /\ pc[d] = "call"
  /\ IF todo[d] = <<>>
     THEN Goto(d, "service") /\ UNCHANGED <<zone, todo, plan>>
     ELSE IF Accepted(zone, Head(todo[d]))
     THEN /\ zone' = Called(zone, Head(todo[d]))
          /\ todo' = [todo EXCEPT ![d] = Tail(@)]
          /\ UNCHANGED <<pc, plan>>
     ELSE Stop(d) /\ UNCHANGED zone
  /\ UNCHANGED <<yml, st, app, made, left, unstarted>>

(* The service last: created where the plan says it is not yet.            *)
ApplyService(d) ==
  /\ pc[d] = "service"
  /\ app' = IF plan[d].service THEN app \cup {d} ELSE app
  /\ Stop(d)
  /\ UNCHANGED <<yml, st, zone, made, left, unstarted>>

(***************************************************************************)
(* A command or a call fails, or the daemon dies: the apply stops there.   *)
(* genkey may have made the key and not its public half, ufw may have      *)
(* taken some of the rules, and a restart that fails leaves the interface  *)
(* down.                                                                   *)
(***************************************************************************)
Broken(d) ==
  LET s == st[d]
      m == plan[d].mesh
  IN  CASE pc[d] = "mesh" /\ m # NoMesh /\ m.genKey /\ s.key = 0 /\ made < MaxKeys ->
             {s, [s EXCEPT !.key = made + 1]}
        [] pc[d] = "rules" -> {s, [s EXCEPT !.rules = @ \ m.delRules]}
        [] pc[d] = "restart" /\ m.restart -> {s, [s EXCEPT !.active = FALSE, !.live = NoConf, !.livePub = 0]}
        [] OTHER -> {s}

(* An apply that wrote the config has not restarted the interface yet.     *)
CutOff(d) == pc[d] \in {"rules", "enable", "restart"} /\ plan[d].mesh.conf # NoConf

Fail(d) ==
  /\ pc[d] # "idle"
  /\ left.faults > 0
  /\ left' = [left EXCEPT !.faults = @ - 1]
  /\ \E s \in Broken(d) :
       /\ st' = [st EXCEPT ![d] = s]
       /\ made' = IF s.key # st[d].key THEN made + 1 ELSE made
  /\ unstarted' = IF CutOff(d) THEN unstarted \cup {d} ELSE unstarted
  /\ Stop(d)
  /\ UNCHANGED <<yml, zone, app>>

Daemon(d) ==
  \/ Plan(d) \/ MeshBegin(d) \/ MeshCommand(d)
  \/ DnsCheck(d) \/ DnsList(d) \/ DnsCall(d) \/ ApplyService(d)

(***************************************************************************)
(* The people around the daemons.                                          *)
(***************************************************************************)
(* A plan reports the host's public key, to commit in fleet.yml.           *)
CommitKey(h) ==
  /\ yml.mesh /\ h \in yml.hosts
  /\ st[h].pub # 0 /\ yml.key[h] # st[h].pub
  /\ yml' = [yml EXCEPT !.key[h] = st[h].pub]
  /\ UNCHANGED <<st, zone, app, pc, plan, todo, made, left, unstarted>>

Edit == left.edits > 0 /\ left' = [left EXCEPT !.edits = @ - 1]

AddHost(h) ==
  /\ h \in Joins \ yml.hosts /\ Edit
  /\ yml' = [yml EXCEPT !.hosts = @ \cup {h}]
  /\ UNCHANGED <<st, zone, app, pc, plan, todo, made, unstarted>>

MoveEndpoint(h) ==
  /\ yml.mesh /\ h \in yml.hosts /\ Edit
  /\ yml' = [yml EXCEPT !.ep[h] = 1 - @]
  /\ UNCHANGED <<st, zone, app, pc, plan, todo, made, unstarted>>

MoveApp(h) ==
  /\ h \in yml.hosts /\ <<yml.home, h>> \in Moves /\ Edit
  /\ yml' = [yml EXCEPT !.home = h]
  /\ UNCHANGED <<st, zone, app, pc, plan, todo, made, unstarted>>

(* app's record, given another value or made by hand.                      *)
Elsewhere == "elsewhere"
EditZone ==
  /\ Edit
  /\ zone' \in {[zone EXCEPT ![i].value = Elsewhere] : i \in {j \in DOMAIN zone : zone[j].name = "app"}}
       \cup (IF \E i \in DOMAIN zone : zone[i].name = "app" THEN {}
             ELSE {Called(zone, [record |-> [type |-> "A", name |-> "app", value |-> Elsewhere, ttl |-> 0],
                                 id |-> 0])})
  /\ UNCHANGED <<yml, st, app, pc, plan, todo, made, unstarted>>

(* A host reboots, its daemon with it.                                     *)
Reboot(h) ==
  /\ left.faults > 0
  /\ left' = [left EXCEPT !.faults = @ - 1]
  /\ st' = [st EXCEPT ![h] = Rebooted(@)]
  /\ unstarted' = unstarted \ {h}
  /\ Stop(h)
  /\ UNCHANGED <<yml, zone, app, made>>

(* A host is built again from scratch: its key is gone with it.            *)
Rebuild(h) ==
  /\ Edit
  /\ st' = [st EXCEPT ![h] = FreshHost]
  /\ app' = app \ {h}
  /\ unstarted' = unstarted \ {h}
  /\ Stop(h)
  /\ UNCHANGED <<yml, zone, made>>

Init ==
  /\ yml \in Starts
  /\ st = [h \in Hosts |-> FreshHost]
  /\ zone = <<[type |-> "A", name |-> "*", value |-> DefaultHost, ttl |-> DefaultTTL, id |-> 1]>>
  /\ app = {}
  /\ pc = [d \in Hosts |-> "idle"]
  /\ plan = [d \in Hosts |-> NoPlan]
  /\ todo = [d \in Hosts |-> <<>>]
  /\ made = 0
  /\ left \in Troubles
  /\ unstarted = {}

Next ==
  \/ \E d \in Hosts : Daemon(d) \/ Fail(d)
  \/ \E h \in Hosts : CommitKey(h) \/ AddHost(h) \/ MoveEndpoint(h) \/ MoveApp(h)
  \/ \E h \in Hosts : Reboot(h) \/ Rebuild(h)
  \/ EditZone

Spec == Init /\ [][Next]_vars

(* Whoever moves a tag deploys again while a plan has changes, an apply    *)
(* that began goes on, and keys that are reported are committed.  The first*)
(* is WF_vars(Daemon(d)) with its ENABLED written out.                     *)
CanGoOn(d) ==
  \/ pc[d] # "idle"
  \/ /\ DaemonHost(yml, d)
     /\ LET p == PlanFleet(yml, d) IN Pending(p) /\ ~Blocked(p)

FairSpec ==
  /\ Spec
  /\ \A d \in Hosts :
       /\ []<>(~CanGoOn(d)) \/ []<><<Daemon(d)>>_vars
       /\ WF_vars(CommitKey(d))

(***************************************************************************)
(* What the fleet promises.                                                *)
(***************************************************************************)
Names(n) == {i \in DOMAIN zone : zone[i].type = "A" /\ zone[i].name = n}

(* Where app's name leads: its own records, else the wildcard's.           *)
LeadsTo == {zone[i].value : i \in IF Names("app") # {} THEN Names("app") ELSE Names("*")}

AsFleetYmlSays ==
  /\ yml.mesh => \A h \in yml.hosts :
       /\ ConfiguredAsWanted(yml, h, st[h])
       /\ h \notin unstarted => RunsItsConfig(st[h])
  /\ yml.home \in app
  /\ \/ LeadsTo \ {Elsewhere} = {yml.home}
     \/ yml.home = DefaultHost /\ LeadsTo = {Elsewhere}

NothingPlanned(d) ==
  /\ pc[d] = "idle"
  /\ LET p == PlanFleet(yml, d) IN ~Pending(p) /\ ~Blocked(p)

(* When no daemon would change anything any more, the fleet is what        *)
(* fleet.yml says: every tunnel runs with the keys and endpoints committed,*)
(* whatever applies were cut short and whatever was edited meanwhile, and  *)
(* app's name leads to the host that runs it.  One case is excepted, where *)
(* the code does not keep this: an apply that was cut off after it wrote   *)
(* the config and before it restarted the interface (mesh.go, applyMesh).  *)
(* A plan reads the file and the routes, not what the interface runs       *)
(* (RestartReason): where only a key or an endpoint was new, it finds      *)
(* nothing to do, and the old one runs on until the host reboots or its    *)
(* config changes again.  A record somebody made by hand is kept beside    *)
(* app's own, or in its place where fleet.yml declares none.               *)
QuietMeansDone == (\A d \in yml.hosts : NothingPlanned(d)) => AsFleetYmlSays

(* A plan never replaces a host's key: it is lost only with the host.      *)
KeyStays ==
  [][\A h \in Hosts : st[h].key # 0 /\ st'[h].key # st[h].key => st'[h] = FreshHost]_vars

(* Two daemons that apply the same fleet.yml never write one record.       *)
OneWriter ==
  \A d, e \in Hosts :
    /\ d # e /\ todo[d] # <<>> /\ todo[e] # <<>> /\ plan[d].y = plan[e].y =>
         \A i \in DOMAIN todo[d], j \in DOMAIN todo[e] :
            dnsKey(todo[d][i].record) # dnsKey(todo[e][j].record)

(* Each host's key needs every other's in fleet.yml before its interface   *)
(* runs, and a plan that lacks one is blocked whole: still no two daemons  *)
(* wait for each other, and the fleet becomes what fleet.yml says (but for *)
(* an interface whose restart was cut off, as above).                      *)
DoneInTheEnd == <>[]AsFleetYmlSays
==============================================================================
