------------------------------ MODULE Topology ------------------------------
(***************************************************************************)
(* What fleet.yml says of its hosts (pkg/config/hosts.go, network.go and   *)
(* mesh.go): which host a daemon is and which services are its share, the  *)
(* bridge of each host, and the tunnel address of each in the mesh; and    *)
(* what LoadFleetConfig refuses of it.                                     *)
(*                                                                         *)
(* Addresses are the numbers of AddressBits bits.  A CIDR is <<address,    *)
(* bits>>, <<>> where none is given, and of one element where the text is  *)
(* not a CIDR.  Hosts are numbers, in the order of their names; 0 is none. *)
(*                                                                         *)
(* fleet.yml is a record f: hosts, default (default_host), own (each host's*)
(* network.ipv4_cidr), network (the fleet's), remote (each host's          *)
(* incus_remote), flagName (the --host-name of daemon.flags), mesh (the    *)
(* subnet of a mesh that is enabled), addr (each host's mesh.address, <<>> *)
(* or <<address>>).                                                        *)
(***************************************************************************)
EXTENDS Naturals, FiniteSets

CONSTANT AddressBits  \* 32

----------------------------------------------------------------------------
(* CIDRs.                                                                  *)

NotGiven == <<>>
NotCidr  == <<0>>

IsCidr(c) == c # NotGiven /\ c # NotCidr
Size(c)   == 2 ^ (AddressBits - c[2])
Masked(c) == c[1] - (c[1] % Size(c))
lastAddr(c) == Masked(c) + Size(c) - 1
AddressesIn(c) == Masked(c) .. lastAddr(c)
Overlaps(c, d) == AddressesIn(c) \cap AddressesIn(d) # {}

(* Subnet and MeshSubnet: a CIDR with room for two hosts.                  *)
IsSubnet(c) == IsCidr(c) /\ c[2] + 2 <= AddressBits

(* BridgeAddress: as written, where that names a host.                     *)
BridgeAddress(c) == IF c[1] = Masked(c) THEN c[1] + 1 ELSE c[1]

----------------------------------------------------------------------------
(* The bridges.                                                            *)

HostNetwork(f, h) == IF h \in f.hosts /\ f.own[h] # NotGiven THEN f.own[h] ELSE f.network

(* LocalNetwork: <<>> when it cannot be told.                              *)
LocalNetwork(f, name) ==
  IF name \in f.hosts THEN <<HostNetwork(f, name)>>
  ELSE CASE f.hosts = {} -> <<f.network>>
         [] Cardinality(f.hosts) = 1 -> <<HostNetwork(f, CHOOSE h \in f.hosts : TRUE)>>
         [] OTHER -> <<>>

ValidateHostNetworks(f) ==
  /\ \A h \in f.hosts : f.own[h] # NotGiven => IsSubnet(f.own[h])
  /\ \A g, h \in f.hosts :
       g # h /\ IsSubnet(HostNetwork(f, g)) /\ IsSubnet(HostNetwork(f, h)) =>
         ~Overlaps(HostNetwork(f, g), HostNetwork(f, h))

----------------------------------------------------------------------------
(* The mesh.                                                               *)

(* A host that is given no address takes one by its place among the names. *)
TunnelAddress(f, h) ==
  IF f.addr[h] # NotGiven THEN f.addr[h][1]
  ELSE Masked(f.mesh) + Cardinality({g \in f.hosts : g <= h})

Usable(f, a) == a \in AddressesIn(f.mesh) \ {Masked(f.mesh), lastAddr(f.mesh)}

(* MeshPeers, when nothing is wrong with it.                               *)
MeshPeers(f) ==
  {[host |-> h, address |-> TunnelAddress(f, h), bridge |-> HostNetwork(f, h)] : h \in f.hosts}

ValidateMesh(f) ==
  f.mesh # NotGiven =>
    /\ IsSubnet(f.mesh) /\ f.hosts # {}
    /\ \A h \in f.hosts :
         /\ Usable(f, TunnelAddress(f, h))
         /\ \A g \in f.hosts \ {h} : TunnelAddress(f, g) # TunnelAddress(f, h)
         /\ IsSubnet(HostNetwork(f, h)) /\ ~Overlaps(HostNetwork(f, h), f.mesh)

----------------------------------------------------------------------------
(* The hosts.                                                              *)

Only(f) == CHOOSE h \in f.hosts : TRUE
Several(f) == Cardinality(f.hosts) >= 2

DefaultHostName(f) ==
  IF f.default # 0 THEN f.default
  ELSE IF Cardinality(f.hosts) = 1 THEN Only(f) ELSE 0

HostOf(f, host) == IF host # 0 THEN host ELSE DefaultHostName(f)

ValidateHosts(f) ==
  /\ f.default # 0 => f.default \in f.hosts
  /\ Several(f) => f.default # 0
  /\ \A g, h \in f.hosts : f.remote[g] # 0 /\ f.remote[g] = f.remote[h] => g = h
  /\ f.flagName # 0 => f.hosts = {f.flagName}

LoadFleetConfig(f) == ValidateHostNetworks(f) /\ ValidateHosts(f) /\ ValidateMesh(f)

ValidateServiceHost(f, host) == host # 0 => host \in f.hosts

(* DaemonHost, for a daemon that is told a name or none: whether it takes  *)
(* the fleet at all, which host it is, and whether its plan is a share.    *)
DaemonHost(f, name) ==
  IF Several(f) THEN [ok |-> name \in f.hosts, host |-> name, filtered |-> TRUE]
  ELSE [ok |-> name = 0 \/ name \in f.hosts, filtered |-> FALSE,
        host |-> IF f.hosts = {} THEN 0 ELSE Only(f)]

(* shareOf: services is the host: of each.                                 *)
shareOf(f, services, name) ==
  LET d == DaemonHost(f, name)
  IN  [ok |-> d.ok /\ \A s \in DOMAIN services : ValidateServiceHost(f, services[s]),
       mine |-> IF d.filtered THEN {s \in DOMAIN services : HostOf(f, services[s]) = d.host}
                ELSE DOMAIN services]
=============================================================================
