------------------------------ MODULE Reconcile ------------------------------
(***************************************************************************)
(* native-ops reconcile (pkg/engine/reconciler.go): it makes sure each host*)
(* of fleet.yml exists, points the domain at the default host and prepares *)
(* each host over SSH.  A run may be cut short anywhere and started again; *)
(* what it left at the provider is all that the next one knows.            *)
(*                                                                         *)
(*   - provisionHost, classifyHost, waitHostActive, PrepareAccess and      *)
(*     CreateHost, one call to the provider at a time;                     *)
(*   - syncDNS, with PlanDNSSync of module Dns;                            *)
(*   - bootstrapHost, whose commands run repeatedly to the same end and are*)
(*     one step.                                                           *)
(*                                                                         *)
(* One run at a time.  A machine's number is its id and its address.       *)
(* --deploy-services is left out (ServiceDeploy models what it calls).     *)
(***************************************************************************)
EXTENDS Dns

CONSTANTS
  Fleets,      \* fleet.yml's: [names, kind, default, domain]
  Budgets,     \* bounds: [faults, bare, edits] there may be
  AddressLate  \* whether a droplet may be active before it has its address

VARIABLES
  fleet,   \* fleet.yml: its hosts' names in order, each one's kind, the default host, whether it has a domain
  cloud,   \* the machines there are or were, by number
  apex,    \* the domain's records
  run,     \* where the run is, and what it knows
  last,    \* how the last run ended
  spare    \* what is left of the bounds

vars == <<fleet, cloud, apex, run, last, spare>>

several == Len(fleet.names) >= 2

(* A machine: listed by the provider unless fleet.yml gives its address;   *)
(* key is what it trusts: the operator's, this run's own, or one that is   *)
(* gone with the run that made it.                                         *)
Machine(name, listed, key) ==
  [name |-> name, listed |-> listed, status |-> IF listed THEN "new" ELSE "active",
   ip |-> ~listed, up |-> ~listed, key |-> key, boot |-> FALSE]

Idle == [pc |-> "idle"]

(* GET /droplets: what classifyHost has to decide on.                      *)
Listed(h) == {j \in DOMAIN cloud : cloud[j].name = h /\ cloud[j].listed /\ cloud[j].status # "gone"}

(* As it would be if only active hosts counted.                            *)
classifyActive(found) ==
  CASE {j \in found : cloud[j].status = "active"} = {} -> "create"
    [] Cardinality(found) > 1 -> "refuse"
    [] OTHER -> "use"

classifyHost(found) ==
  CASE found = {} -> "create"
    [] Cardinality(found) > 1 -> "refuse"
    [] OTHER -> LET d == cloud[CHOOSE j \in found : TRUE]
                IN  CASE d.status = "active" -> "use" [] d.status = "new" -> "wait" [] OTHER -> "refuse"

(***************************************************************************)
(* The run, one host after the other.                                      *)
(***************************************************************************)
Host == fleet.names[run.i]

(* The run's own key goes with the run.                                    *)
Forgotten(c) == [j \in DOMAIN c |-> IF c[j].key = "run" THEN [c[j] EXCEPT !.key = "gone"] ELSE c[j]]

End(how) ==
  /\ run' = Idle
  /\ last' = how
  /\ cloud' = Forgotten(cloud)

(* The next host, or the DNS after the last one.                           *)
Onward(r) == IF r.i < Len(fleet.names) THEN [r EXCEPT !.i = @ + 1, !.pc = "list"]
             ELSE [r EXCEPT !.pc = "dns"]
Found(ip) == run' = Onward([run EXCEPT !.ip[Host] = ip]) /\ UNCHANGED <<cloud, last>>

(* As it would be if an error of the DNS were only logged.                 *)
ResultOfHosts(r) == IF r.failed = {} THEN "ok" ELSE "failed"

Result(r) == IF r.failed = {} /\ ~r.dnsErr THEN "ok" ELSE "failed"

(* bootstrapHost of the next host that did not fail, or the run's end.     *)
Booting(r, i) ==
  LET rest == {k \in i .. Len(fleet.names) :
                 fleet.names[k] \notin r.failed /\ r.ip[fleet.names[k]] # 0}
  IN  IF rest = {} THEN [r EXCEPT !.pc = "end"]
      ELSE [r EXCEPT !.pc = "boot", !.i = CHOOSE k \in rest : \A j \in rest : k <= j]

(* As it would be if a host's failure ended the run.                       *)
HostFailsAlone == End("failed")

(* failed: with several hosts the others carry on.                         *)
HostFails ==
  IF ~several THEN End("failed")
  ELSE /\ LET r == [run EXCEPT !.failed = @ \cup {Host}]
          IN  run' = IF run.pc = "boot" THEN Booting(r, run.i + 1) ELSE Onward(r)
       /\ UNCHANGED <<cloud, last>>

(* LoadSSHCredentials: without a key of the operator's the run makes one.  *)
Start(key) ==
  /\ run = Idle
  /\ spare' = IF key = "run" THEN [spare EXCEPT !.bare = @ - 1] ELSE spare
  /\ key = "run" => spare.bare > 0
  /\ run' = [pc |-> "list", i |-> 1, key |-> key, id |-> 0, todo |-> <<>>, dnsErr |-> FALSE,
             failed |-> {}, ip |-> [h \in {fleet.names[k] : k \in DOMAIN fleet.names} |-> 0]]
  /\ UNCHANGED <<cloud, apex, last, fleet>>

(* provisionHost: a host with an address, one of a provider reconcile does *)
(* not provision, and one to look for.                                     *)
Look ==
  /\ run.pc = "list"
  /\ CASE fleet.kind[Host] = "given" ->
            Found(CHOOSE j \in DOMAIN cloud : cloud[j].name = Host /\ ~cloud[j].listed)
       [] fleet.kind[Host] = "other" -> Found(0)
       [] OTHER ->
            LET found  == Listed(Host)
                action == classifyHost(found)
                one    == CHOOSE j \in found : TRUE
            IN  CASE action = "refuse" -> HostFails
                  [] action = "wait" -> run' = [run EXCEPT !.pc = "wait", !.id = one] /\ UNCHANGED <<cloud, last>>
                  [] action = "use" /\ cloud[one].ip ->
                       run' = [run EXCEPT !.pc = "verify", !.id = one] /\ UNCHANGED <<cloud, last>>
                  [] OTHER -> run' = [run EXCEPT !.pc = "access"] /\ UNCHANGED <<cloud, last>>
  /\ UNCHANGED <<apex, spare, fleet>>

Ready(j) == cloud[j].status = "active" /\ cloud[j].ip
Dead(j)  == cloud[j].status \in {"off", "gone"}

(* waitHostActive, and the poll at the end of CreateHost, give up in time  *)
(* on a machine that will not come up.                                     *)
Wait ==
  /\ run.pc \in {"wait", "created"}
  /\ IF Ready(run.id)
     THEN IF run.pc = "wait" THEN run' = [run EXCEPT !.pc = "verify"] /\ UNCHANGED <<cloud, last>>
                             ELSE Found(run.id)
     ELSE Dead(run.id) /\ HostFails
  /\ UNCHANGED <<apex, spare, fleet>>

LetsIn(j) == Ready(j) /\ cloud[j].up /\ cloud[j].key = run.key

(* An existing host must answer to the run's key, now.                     *)
Verify ==
  /\ run.pc = "verify"
  /\ IF LetsIn(run.id) THEN Found(run.id) ELSE HostFails
  /\ UNCHANGED <<apex, spare, fleet>>

(* PrepareAccess registers the key first; then the droplet is created.     *)
Access ==
  /\ run.pc = "access"
  /\ run' = [run EXCEPT !.pc = "create"]
  /\ UNCHANGED <<cloud, apex, last, spare, fleet>>

WithDroplet == Append(cloud, Machine(Host, TRUE, run.key))

Create ==
  /\ run.pc = "create"
  /\ cloud' = WithDroplet
  /\ run' = [run EXCEPT !.pc = "created", !.id = Len(cloud) + 1]
  /\ UNCHANGED <<apex, last, spare, fleet>>

(***************************************************************************)
(* The domain, which points at the default host.                           *)
(***************************************************************************)
Apex(ip) == <<[type |-> "A", name |-> "@", value |-> ip, ttl |-> 0],
              [type |-> "A", name |-> "*", value |-> ip, ttl |-> 0]>>

AfterDns(err) ==
  /\ run' = Booting([run EXCEPT !.dnsErr = err, !.todo = <<>>], 1)
  /\ UNCHANGED <<cloud, last>>

SyncDns ==
  /\ run.pc = "dns"
  /\ IF ~fleet.domain \/ fleet.default \notin DOMAIN run.ip THEN AfterDns(FALSE)
     ELSE IF several /\ fleet.default \in run.failed THEN AfterDns(TRUE)
     ELSE IF run.ip[fleet.default] = 0 THEN AfterDns(FALSE)
     ELSE /\ run' = [run EXCEPT !.pc = "call", !.todo = PlanDNSSync(apex, Apex(run.ip[fleet.default]))]
          /\ UNCHANGED <<cloud, last>>
  /\ UNCHANGED <<apex, spare, fleet>>

DnsCall ==
  /\ run.pc = "call"
  /\ IF run.todo = <<>> THEN AfterDns(FALSE) /\ UNCHANGED apex
     ELSE /\ apex' = Called(apex, Head(run.todo))
          /\ run' = [run EXCEPT !.todo = Tail(@)]
          /\ UNCHANGED <<cloud, last>>
  /\ UNCHANGED <<spare, fleet>>

(***************************************************************************)
(* bootstrapHost waits for SSH and logs in; what its commands answer is    *)
(* not looked at.                                                          *)
(***************************************************************************)
Boot ==
  /\ run.pc = "boot"
  /\ LET j == run.ip[Host]
     IN  IF LetsIn(j)
         THEN /\ cloud' = [cloud EXCEPT ![j].boot = TRUE]
              /\ run' = Booting(run, run.i + 1)
              /\ UNCHANGED last
         ELSE (Dead(j) \/ (cloud[j].up /\ cloud[j].key # run.key)) /\ HostFails
  /\ UNCHANGED <<apex, spare, fleet>>

Finish ==
  /\ run.pc = "end"
  /\ End(Result(run))
  /\ UNCHANGED <<apex, spare, fleet>>

Step == Look \/ Wait \/ Verify \/ Access \/ Create \/ SyncDns \/ DnsCall \/ Boot \/ Finish

(***************************************************************************)
(* What goes wrong: a call fails, a machine takes longer than a wait, the  *)
(* answer to a creation is lost, or the run is killed.                     *)
(***************************************************************************)
Fault == spare.faults > 0 /\ spare' = [spare EXCEPT !.faults = @ - 1]

CallFails ==
  /\ Fault
  /\ \/ run.pc \in {"wait", "access", "create", "created", "boot"} /\ HostFails
     \/ run.pc = "list" /\ fleet.kind[Host] = "auto" /\ HostFails
     \/ run.pc = "call" /\ AfterDns(TRUE)
  /\ UNCHANGED <<apex, fleet>>

(* The DNS provider cannot be made.                                        *)
NoDnsProvider ==
  /\ Fault
  /\ run.pc = "dns" /\ fleet.domain /\ fleet.default \in DOMAIN run.ip
  /\ fleet.default \notin run.failed /\ run.ip[fleet.default] # 0
  /\ IF several THEN AfterDns(TRUE) ELSE End("failed")
  /\ UNCHANGED <<apex, fleet>>

(* The host fails, as in HostFails, and its droplet comes up all the same. *)
AnswerLost ==
  /\ Fault
  /\ run.pc = "create"
  /\ IF several
     THEN run' = Onward([run EXCEPT !.failed = @ \cup {Host}]) /\ cloud' = WithDroplet /\ UNCHANGED last
     ELSE run' = Idle /\ cloud' = Forgotten(WithDroplet) /\ last' = "failed"
  /\ UNCHANGED <<apex, fleet>>

Kill ==
  /\ run # Idle /\ Fault
  /\ run' = Idle
  /\ cloud' = Forgotten(cloud)
  /\ last' = "killed"
  /\ UNCHANGED <<apex, fleet>>

(***************************************************************************)
(* The provider, and the operator.                                         *)
(***************************************************************************)
ComesUp(j) ==
  /\ \/ /\ cloud[j].status = "new"
        /\ \E ip \in {TRUE, ~AddressLate} : cloud' = [cloud EXCEPT ![j].status = "active", ![j].ip = ip]
     \/ cloud[j].status = "active" /\ ~cloud[j].ip /\ cloud' = [cloud EXCEPT ![j].ip = TRUE]
     \/ Ready(j) /\ ~cloud[j].up /\ cloud' = [cloud EXCEPT ![j].up = TRUE]
  /\ UNCHANGED <<apex, run, last, spare, fleet>>

Edit == spare.edits > 0 /\ spare' = [spare EXCEPT !.edits = @ - 1]

(* A droplet is turned off, or destroyed.                                  *)
Lose(j) ==
  /\ cloud[j].listed /\ cloud[j].status = "active" /\ Edit
  /\ \E s \in {"off", "gone"} : cloud' = [cloud EXCEPT ![j].status = s, ![j].up = FALSE]
  /\ UNCHANGED <<apex, run, last, fleet>>

(* "Start it", says the error.                                             *)
TurnOn(j) ==
  /\ cloud[j].status = "off"
  /\ cloud' = [cloud EXCEPT ![j].status = "active"]
  /\ UNCHANGED <<apex, run, last, spare, fleet>>

Given(f) == {f.names[k] : k \in {i \in DOMAIN f.names : f.kind[f.names[i]] = "given"}}

Init ==
  /\ fleet \in Fleets
  /\ \E n \in 0 .. Len(fleet.names) : \E order \in [1 .. n -> Given(fleet)] :
       /\ \A h \in Given(fleet) : \E k \in 1 .. n : order[k] = h
       /\ \A j, k \in 1 .. n : order[j] = order[k] => j = k
       /\ cloud = [k \in 1 .. n |-> Machine(order[k], FALSE, "operator")]
  /\ apex \in {<<>>, <<[type |-> "A", name |-> "*", value |-> 99, ttl |-> DefaultTTL, id |-> 1]>>}
  /\ run = Idle
  /\ last = "none"
  /\ spare \in Budgets

Next ==
  \/ \E key \in {"operator", "run"} : Start(key)
  \/ Step
  \/ CallFails \/ NoDnsProvider \/ AnswerLost \/ Kill
  \/ \E j \in DOMAIN cloud : ComesUp(j) \/ Lose(j) \/ TurnOn(j)

Spec == Init /\ [][Next]_vars

(* Droplets come up, the operator turns on what is off and runs reconcile  *)
(* again with the key.                                                     *)
ComeUp == \E j \in DOMAIN cloud : ComesUp(j)
TurnedOn == \E j \in DOMAIN cloud : TurnOn(j)

FairSpec == Spec /\ WF_vars(Step) /\ WF_vars(ComeUp) /\ WF_vars(Start("operator")) /\ WF_vars(TurnedOn)

(***************************************************************************)
(* What a reconcile promises.                                              *)
(***************************************************************************)
(* However often a run is killed, times out or loses an answer, the next   *)
(* one takes up the droplet it left: there are never two of one name.      *)
OneDroplet ==
  \A h \in {fleet.names[k] : k \in DOMAIN fleet.names} : \A i, j \in Listed(h) : i = j

Leads(ip) == \A n \in {"@", "*"} : \E i \in DOMAIN apex :
               apex[i].type = "A" /\ apex[i].name = n /\ apex[i].value = ip

(* A run that says it is done has logged in to every host it has an address*)
(* for, found or made every one it provisions, and pointed the domain at   *)
(* the default host's address of this run.                                 *)
OkIsWhole ==
  [][run # Idle /\ run' = Idle /\ last' = "ok" =>
       /\ \A h \in DOMAIN run.ip :
            /\ fleet.kind[h] # "other" => run.ip[h] # 0
            /\ run.ip[h] # 0 => cloud[run.ip[h]].boot /\ cloud[run.ip[h]].name = h
       /\ fleet.domain /\ fleet.kind[fleet.default] # "other" => Leads(run.ip[fleet.default])]_vars

(* A host nobody can log in to any more: its run's key is gone.            *)
Locked(h) == \E j \in Listed(h) : cloud[j].key = "gone"
Up(h) == \E j \in DOMAIN cloud : cloud[j].name = h /\ Ready(j) /\ cloud[j].boot

(* With the operator's key every host comes up in the end, whatever one run*)
(* of them did and though another host never lets anybody in; and the      *)
(* domain points at the default host.                                      *)
HostsComeUp ==
  <>[](\A h \in {fleet.names[k] : k \in DOMAIN fleet.names} :
         fleet.kind[h] # "other" =>
           /\ Locked(h) \/ Up(h)
           /\ (h = fleet.default /\ fleet.domain /\ ~Locked(h)) =>
                \E j \in DOMAIN cloud : cloud[j].name = h /\ Ready(j) /\ Leads(j))
==============================================================================
