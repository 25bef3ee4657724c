--------------------------------- MODULE Dns ---------------------------------
(***************************************************************************)
(* The decisions about DNS records, which change nothing:                  *)
(*                                                                         *)
(*   - PlanDNSSync (pkg/provider/dnssync.go): the calls that make a zone   *)
(*     contain the records that are wanted;                                *)
(*   - what a call to the provider does to the zone (SyncRecords);         *)
(*   - DNSRecordsByHost (pkg/config/dns.go): which host's daemon writes    *)
(*     which record, or why fleet.yml is refused.                          *)
(*                                                                         *)
(* A value is its normalised form (normValue), and a name its lower case.  *)
(* ttl stands for the TTL and the priority, which are treated alike: 0 is  *)
(* one the manifest does not set.                                          *)
(***************************************************************************)
EXTENDS Naturals, Sequences, FiniteSets

AddressTypes == {"A", "AAAA"}
singleValued == AddressTypes \cup {"CNAME"}

dnsKey(r) == <<r.type, r.name>>

(* A desired record goes to the first existing record of its key that has  *)
(* its value and was not taken yet; without one it is missing.             *)
MatchOne(existing, s, d) ==
  LET hits == {i \in DOMAIN existing \ s.used : dnsKey(existing[i]) = dnsKey(d) /\ existing[i].value = d.value}
      hit  == CHOOSE i \in hits : \A j \in hits : i <= j
  IN  IF hits = {} THEN [s EXCEPT !.missing = Append(@, d)]
      ELSE [s EXCEPT !.used = @ \cup {hit},
                     !.changes = IF d.ttl > 0 /\ existing[hit].ttl # d.ttl
                                 THEN Append(@, [record |-> d, id |-> existing[hit].id]) ELSE @]

(* The loop over one key's desired records: where it is after n of all.    *)
Matching(existing, desired, k) ==
  LET match[n \in 0 .. Len(desired)] ==
        IF n = 0 THEN [used |-> {}, missing |-> <<>>, changes |-> <<>>]
        ELSE IF dnsKey(desired[n]) = k THEN MatchOne(existing, match[n - 1], desired[n])
        ELSE match[n - 1]
  IN  match

(* One key: a single-valued type whose only record left over has another   *)
(* value is updated in place, every other missing record is created (id 0).*)
SyncKey(existing, desired, k) ==
  LET s     == Matching(existing, desired, k)[Len(desired)]
      spare == {i \in DOMAIN existing \ s.used : dnsKey(existing[i]) = k}
  IN  IF Len(s.missing) = 1 /\ Cardinality(spare) = 1 /\ k[1] \in singleValued
      THEN Append(s.changes, [record |-> s.missing[1],
                              id |-> existing[CHOOSE i \in spare : TRUE].id])
      ELSE s.changes \o [i \in DOMAIN s.missing |-> [record |-> s.missing[i], id |-> 0]]

(* The keys are taken in the order of their first records.                 *)
FirstOfKey(desired, n) == \A m \in 1 .. n - 1 : dnsKey(desired[m]) # dnsKey(desired[n])

Syncing(existing, desired) ==
  LET sync[n \in 0 .. Len(desired)] ==
        IF n = 0 THEN <<>>
        ELSE IF FirstOfKey(desired, n)
        THEN sync[n - 1] \o SyncKey(existing, desired, dnsKey(desired[n]))
        ELSE sync[n - 1]
  IN  sync

PlanDNSSync(existing, desired) == Syncing(existing, desired)[Len(desired)]

(* dnsDetails: the changes as the plan prints them, in no order.  A line   *)
(* says what record is wanted, not whether one is created or replaced.     *)
dnsDetails(changes) ==
  [r \in {changes[i].record : i \in DOMAIN changes} |->
     Cardinality({i \in DOMAIN changes : changes[i].record = r})]

DefaultTTL == 1800

(* A new record's id is one that no record of the zone has.                *)
FreshId(zone) == CHOOSE n \in 1 .. (Len(zone) + 1) : \A i \in DOMAIN zone : zone[i].id # n

(* An update names a record by its id: the provider refuses one it no      *)
(* longer has.                                                             *)
Accepted(zone, c) == c.id = 0 \/ \E i \in DOMAIN zone : zone[i].id = c.id

(* What one call of SyncRecords does to the zone.                          *)
Called(zone, c) ==
  IF c.id = 0
  THEN Append(zone, [type |-> c.record.type, name |-> c.record.name, value |-> c.record.value,
                     ttl |-> IF c.record.ttl > 0 THEN c.record.ttl ELSE DefaultTTL,
                     id |-> FreshId(zone)])
  ELSE [i \in DOMAIN zone |->
         IF zone[i].id # c.id THEN zone[i]
         ELSE [zone[i] EXCEPT !.value = c.record.value,
                              !.ttl = IF c.record.ttl > 0 THEN c.record.ttl ELSE @]]

CalledAll(zone, changes) ==
  LET made[n \in 0 .. Len(changes)] ==
        IF n = 0 THEN zone ELSE Called(made[n - 1], changes[n])
  IN  made[Len(changes)]

(***************************************************************************)
(* fleet.yml's records.  f has hosts, default (DefaultHostName), address   *)
(* (each host's: "A", "AAAA" or "none", by its family), domain and records *)
(* (dns_records); svcs gives each service its host ("" when the manifest   *)
(* names none) and its route.                                              *)
(***************************************************************************)
HostOf(f, s) == IF s.host # "" THEN s.host ELSE f.default

(* addressFor: a host's address stands for itself.                         *)
HasAddress(f, h, type) == f.address[h] = type

ZoneOf(f, r) == IF r.zone # "" THEN r.zone ELSE f.domain

RefusedRecord(f, svcs, r) ==
  \/ ZoneOf(f, r) = ""
  \/ /\ r.service # ""
     /\ \/ r.service \notin DOMAIN svcs
        \/ r.name = "*"
        \/ /\ r.type \in AddressTypes
           /\ r.value # "" \/ ~HasAddress(f, HostOf(f, svcs[r.service]), r.type)

Declared(f, svcs, r) ==
  LET h == IF r.service = "" THEN f.default ELSE HostOf(f, svcs[r.service])
  IN  [type |-> r.type, name |-> r.name, zone |-> ZoneOf(f, r), ttl |-> r.ttl, host |-> h,
       value |-> IF r.service # "" /\ r.type \in AddressTypes THEN h ELSE r.value]

(* Services off the default host that are routed, in a fleet of several.  A*)
(* route is "none" (or external), "outside" (of the fleet's domain), "@",  *)
(* "*" (a wildcard) or a name under the domain.                            *)
Routed(f, svcs) ==
  {n \in DOMAIN svcs : /\ Cardinality(f.hosts) >= 2
                       /\ HostOf(f, svcs[n]) # f.default
                       /\ svcs[n].route # "none"}

(* The ones outside the domain, or in a fleet that has none, get no record.*)
RoutedHere(f, svcs) ==
  {n \in Routed(f, svcs) : svcs[n].route # "outside" /\ f.domain # ""}

RefusedRoute(f, s) ==
  \/ s.route = "*"
  \/ f.domain # "" /\ s.route # "outside" /\ (s.route = "@" \/ ~HasAddress(f, HostOf(f, s), "A"))

RouteRecord(f, s) ==
  [type |-> "A", name |-> s.route, zone |-> f.domain, ttl |-> 0,
   host |-> HostOf(f, s), value |-> HostOf(f, s)]

(* The apex and wildcard that reconcile writes are the default host's.     *)
ReconcileClaims(f) ==
  IF f.domain = "" \/ f.default = "" THEN {}
  ELSE {[type |-> "A", name |-> n, zone |-> f.domain, host |-> f.default] : n \in {"@", "*"}}

SameName(r, o) == r.zone = o.zone /\ r.name = o.name

(* Two hosts claim one record, or a CNAME stands beside another's record.  *)
ClaimedTwice(f, all) ==
  \E r \in all, o \in all \cup ReconcileClaims(f) :
    /\ SameName(r, o)
    /\ r.host # o.host
    /\ r.type = o.type \/ "CNAME" \in {r.type, o.type}

Refused == "refused"

(* Every record the fleet's daemons write, with its host: dns_records in   *)
(* fleet.yml's order, then the routes', in one of their own.               *)
InOrder(S) == CHOOSE s \in [1 .. Cardinality(S) -> S] : \A r \in S : \E i \in DOMAIN s : s[i] = r

DNSRecordsByHost(f, svcs) ==
  IF \/ \E i \in DOMAIN f.records : RefusedRecord(f, svcs, f.records[i])
     \/ \E n \in Routed(f, svcs) : RefusedRoute(f, svcs[n])
  THEN Refused
  ELSE LET recs == [i \in DOMAIN f.records |-> Declared(f, svcs, f.records[i])]
           all  == recs \o InOrder({RouteRecord(f, svcs[n]) : n \in RoutedHere(f, svcs)})
       IN  IF ClaimedTwice(f, {all[i] : i \in DOMAIN all}) THEN Refused ELSE all

(* planDNS's part of them, of one zone: the records that point at the      *)
(* daemon's host, in a fleet of several; all of them otherwise.            *)
InShare(f, r, zone, h) == r.zone = zone /\ (Cardinality(f.hosts) >= 2 => r.host = h)

Sharing(f, all, zone, h) ==
  LET mine[n \in 0 .. Len(all)] ==
        IF n = 0 THEN <<>>
        ELSE IF InShare(f, all[n], zone, h) THEN Append(mine[n - 1], all[n])
        ELSE mine[n - 1]
  IN  mine

Share(f, all, zone, h) == Sharing(f, all, zone, h)[Len(all)]
==============================================================================
