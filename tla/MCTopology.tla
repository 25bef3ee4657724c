----------------------------- MODULE MCTopology -----------------------------
(***************************************************************************)
(* Topology over every small fleet: of up to three hosts, with addresses   *)
(* of five bits.                                                           *)
(***************************************************************************)
EXTENDS Naturals, FiniteSets

Map == INSTANCE Topology WITH AddressBits <- 5

NoneOf(hosts) == [h \in hosts |-> <<>>]

(* What is said of hosts, and of their networks.                           *)
Named ==
  UNION {[hosts : {H}, default : 0 .. 3, own : {NoneOf(H)}, network : {<<0>>},
          remote : [H -> 0 .. 1], flagName : 0 .. 2, mesh : {<<>>}, addr : {NoneOf(H)}]
         : H \in SUBSET (1 .. 3)}

Cidrs == {<<0, 3>>, <<7, 3>>, <<4, 4>>, <<8, 2>>, <<16, 1>>, <<0>>}
Networked(H, cidrs, given) ==
  [hosts : {H}, default : {1}, own : [H -> cidrs \cup {<<>>}], network : cidrs,
   remote : {[h \in H |-> 0]}, flagName : {0}, mesh : cidrs \cup {<<>>},
   addr : [H -> {<<>>} \cup {<<a>> : a \in given}]]
Wired == Networked({1}, Cidrs, {9, 24}) \cup Networked({1, 2}, Cidrs, {8, 10, 24})
           \cup Networked({1, 2, 3}, {<<0, 3>>, <<7, 3>>, <<8, 3>>, <<24, 2>>}, {30})

(* In a fleet that is accepted, whoever plans a tree, each service is      *)
(* planned by the daemon of one host and of no other; a daemon that does   *)
(* not know its host, among several, plans nothing, nor does one told of a *)
(* host that is not there (pkg/config/hosts.go: "each daemon plans and     *)
(* applies only the services of the host it is").                          *)
ASSUME EachServiceOnce ==
  \A f \in Named, services \in [{"s", "t"} -> 0 .. 3] :
    LET share(name) == Map!shareOf(f, services, name)
    IN  Map!LoadFleetConfig(f) =>
          /\ \A s \in DOMAIN services : \A g, h \in f.hosts :
               share(g).ok /\ share(h).ok /\ s \in share(g).mine \cap share(h).mine => g = h
          /\ \A h \in f.hosts : share(h).ok =>
               UNION {share(g).mine : g \in f.hosts} = DOMAIN services
          /\ share(0).ok => /\ Cardinality(f.hosts) < 2
                            /\ \A h \in f.hosts : share(h).mine = share(0).mine
          /\ \A name \in 1 .. 3 : share(name).ok => name \in f.hosts

(* A daemon that may plan knows the bridge of the host it is.              *)
ASSUME OwnBridge ==
  \A f \in Wired, name \in 0 .. 3 :
    LET d == Map!DaemonHost(f, name)
    IN  d.ok => Map!LocalNetwork(f, name) = <<Map!HostNetwork(f, d.host)>>

(* In a mesh that is accepted what is routed to each host, its tunnel      *)
(* address and its bridge, is routed to no other, and the bridge's own     *)
(* address is none of the tunnel's.                                        *)
RoutedTo(p) == {p.address} \cup Map!AddressesIn(p.bridge)
Meshed == {f \in Wired : f.mesh # <<>>}
ASSUME RoutesApart ==
  \A f \in {g \in Meshed : Map!LoadFleetConfig(g)} :
    /\ Cardinality(Map!MeshPeers(f)) = Cardinality(f.hosts)
    /\ \A p, q \in Map!MeshPeers(f) : p # q => RoutedTo(p) \cap RoutedTo(q) = {}
    /\ \A p, q \in Map!MeshPeers(f) :
         Map!BridgeAddress(p.bridge) \in Map!AddressesIn(p.bridge) \ {q.address}

(* The cases above are there: three hosts with addresses given and derived.*)
ASSUME SomeAreMeshed ==
  \E f \in Meshed : /\ Map!LoadFleetConfig(f) /\ Cardinality(f.hosts) = 3
                    /\ f.addr[1] = <<>> /\ f.addr[2] # <<>>
=============================================================================
