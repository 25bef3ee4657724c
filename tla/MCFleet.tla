------------------------------- MODULE MCFleet -------------------------------
(* Several hosts, for TLC: Migration, Fleet and Reconcile on two of them,  *)
(* and the DNS decisions on small inputs.  Fleet's hosts have an address   *)
(* in fleet.yml, Reconcile is about those that have none yet, and what a   *)
(* migration moves is in neither: a behaviour is one of a single module,   *)
(* with the others at rest.                                                *)
EXTENDS Migration, MCTopology

CONSTANTS
  DefaultHost, Starts, Troubles, Joins, Moves, MaxKeys,  \* of Fleet
  HostFleets, Budgets, AddressLate,                      \* of Reconcile
  Parts,                                                 \* the modules that are checked
  v1, v2

VARIABLES
  yml, st, zone, app, apply, plan, todo, made, budget, unstarted,
  fleet, cloud, apex, run, last, spare,
  part  \* the module whose behaviour it is

Net == INSTANCE Fleet WITH pc <- apply, left <- budget
netVars == <<yml, st, zone, app, apply, plan, todo, made, budget, unstarted>>

Hosting == INSTANCE Reconcile WITH Fleets <- HostFleets
hostVars == <<fleet, cloud, apex, run, last, spare>>

ASSUME FleetAssumption == Net!Assumption

TwoVolumes == {v1, v2}
TwoHosts == {"a", "b"}
Yml(mesh, hosts, home, records) ==
  [mesh |-> mesh, hosts |-> hosts, key |-> [h \in TwoHosts |-> 0],
   ep |-> [h \in TwoHosts |-> 0], home |-> home, records |-> records]

(* A record that follows app, and one that is the default host's.          *)
Mail == [type |-> "A", name |-> "mail", zone |-> "", ttl |-> 0, service |-> "app", value |-> ""]
Spf  == [type |-> "TXT", name |-> "@", zone |-> "", ttl |-> 0, service |-> "", value |-> "spf"]

Meshes == {Yml(TRUE, {"a", "b"}, "b", <<>>), Yml(TRUE, {"a"}, "a", <<>>)}
Routed2 == {Yml(FALSE, {"a", "b"}, "b", <<Mail, Spf>>), Yml(FALSE, {"a", "b"}, "a", <<Spf>>)}
AllStarts == Meshes \cup Routed2

FaultsAndEdits == {[faults |-> n, edits |-> 2 - n] : n \in 0 .. 2}
Joining == {"b"}
Away    == {<<"a", "b">>}

(* Hosts to make, beside one that has an address or that reconcile does    *)
(* not provision.                                                          *)
Hostful(names, kind, def) == [names |-> names, kind |-> kind, default |-> def, domain |-> TRUE]
AllHostFleets ==
  {Hostful(<<"a">>, [h \in {"a"} |-> "auto"], "a"),
   Hostful(<<"a", "b">>, [h \in {"a", "b"} |-> "auto"], "a"),
   Hostful(<<"a", "b">>, [h \in {"a", "b"} |-> IF h = "a" THEN "given" ELSE "auto"], "b"),
   Hostful(<<"a", "b">>, [h \in {"a", "b"} |-> IF h = "a" THEN "other" ELSE "auto"], "b")}
AllBudgets == {[faults |-> 2, bare |-> 0, edits |-> 1], [faults |-> 1, bare |-> 1, edits |-> 0]}

MCInit ==
  /\ Init /\ Net!Init /\ Hosting!Init
  /\ part \in Parts
  /\ part # "daemons" => yml = Yml(FALSE, {"a", "b"}, "a", <<Spf>>) /\ budget.faults = 0
  /\ part # "hosts" =>
       fleet = Hostful(<<"a">>, [h \in {"a"} |-> "auto"], "a") /\ apex = <<>> /\ spare.bare = 0

MCNext ==
  \/ part = "migration" /\ Next /\ UNCHANGED <<netVars, hostVars, part>>
  \/ part = "daemons" /\ Net!Next /\ UNCHANGED <<vars, hostVars, part>>
  \/ part = "hosts" /\ Hosting!Next /\ UNCHANGED <<vars, netVars, part>>

allVars == <<vars, netVars, hostVars, part>>

(* The fairness of Fleet and Reconcile, for the one that moves.            *)
MCSpec ==
  /\ MCInit /\ [][MCNext]_allVars
  /\ \A d \in Hosts :
       /\ []<>(part # "daemons" \/ ~Net!CanGoOn(d)) \/ []<><<Net!Daemon(d)>>_netVars
       /\ WF_netVars(part = "daemons" /\ Net!CommitKey(d) /\ UNCHANGED <<vars, hostVars, part>>)
  /\ WF_hostVars(part = "hosts" /\ Hosting!Step /\ UNCHANGED <<vars, netVars, part>>)
  /\ WF_hostVars(part = "hosts" /\ Hosting!ComeUp /\ UNCHANGED <<vars, netVars, part>>)
  /\ WF_hostVars(part = "hosts" /\ Hosting!Start("operator") /\ UNCHANGED <<vars, netVars, part>>)
  /\ WF_hostVars(part = "hosts" /\ Hosting!TurnedOn /\ UNCHANGED <<vars, netVars, part>>)

(* The properties of Fleet and Reconcile.                                  *)
QuietMeansDone == Net!QuietMeansDone
OneWriter      == Net!OneWriter
KeyStays       == Net!KeyStays
FleetDone      == part = "daemons" => Net!DoneInTheEnd
OneDroplet     == Hosting!OneDroplet
OkIsWhole      == Hosting!OkIsWhole
HostsComeUp    == part = "hosts" => Hosting!HostsComeUp

(* Runs of reconcile that say ok are whole, and runs are enough.           *)
ReconcileWorks == OkIsWhole /\ HostsComeUp

(***************************************************************************)
(* PlanDNSSync against what dnssync.go says of it: applying it and planning*)
(* again changes nothing, for every small zone and wanted records that list*)
(* no value twice.  (A value listed twice, with two TTLs, may take another *)
(* pass.)                                                                  *)
(***************************************************************************)
SomeTTLs == {0, 1}
Existing == [type : {"A"}, name : {"n"}, value : {"u", "v"}, ttl : SomeTTLs]
Wanted   == [type : {"A", "TXT"}, name : {"n"}, value : {"u", "v"}, ttl : SomeTTLs]
SeqsTo(S, n) == UNION {[1 .. k -> S] : k \in 0 .. n}

Zones(type) ==
  {[i \in DOMAIN s |-> [type |-> type, name |-> "n", value |-> s[i].value, ttl |-> s[i].ttl, id |-> i]]
     : s \in SeqsTo(Existing, 3)}
OneValueEach(w) == \A i, j \in DOMAIN w : i # j => w[i].value # w[j].value

ASSUME SyncConverges ==
  \A type \in {"A", "TXT"} : \A z \in Zones(type), w \in SeqsTo({r \in Wanted : r.type = type}, 2) :
    OneValueEach(w) => Net!PlanDNSSync(Net!CalledAll(z, Net!PlanDNSSync(z, w)), w) = <<>>

(***************************************************************************)
(* What fleet.yml and the manifests may say of a name, in a fleet of two:  *)
(* no record is written by two hosts, no CNAME stands beside another host's*)
(* record, and the apex and wildcard are the default host's alone.         *)
(***************************************************************************)
SmallFleets ==
  [hosts : {{"a", "b"}}, default : {"a"}, address : {[h \in TwoHosts |-> IF h = "a" THEN "A" ELSE x] : x \in {"A", "none"}},
   domain : {"", "z"},
   records : SeqsTo([type : {"A", "CNAME"}, name : {"@", "*", "app"}, zone : {"", "z"}, ttl : {0},
                     service : {"", "s", "x"}, value : {"", "v"}], 2)]
SmallServices ==
  {[n \in {"s", "t"} |-> IF n = "s" THEN s ELSE [host |-> "b", route |-> "app"]]
     : s \in [host : {"", "b"}, route : {"none", "outside", "@", "*", "app"}]}

ASSUME EachRecordOnce ==
  \A f \in SmallFleets, svcs \in SmallServices :
    LET all == Net!DNSRecordsByHost(f, svcs)
    IN  all # Net!Refused =>
          \A i, j \in DOMAIN all :
            /\ (Net!SameName(all[i], all[j]) /\ all[i].host # all[j].host) =>
                 all[i].type # all[j].type /\ "CNAME" \notin {all[i].type, all[j].type}
            /\ (all[i].zone = f.domain /\ all[i].name \in {"@", "*"} /\ all[i].type = "A") =>
                 all[i].host = f.default
=============================================================================
