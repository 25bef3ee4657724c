-------------------------------- MODULE Mesh --------------------------------
(***************************************************************************)
(* One host's side of the WireGuard mesh (pkg/engine/mesh.go): what the    *)
(* probe reads of the host, what planMesh makes of it and of fleet.yml, and*)
(* what each command of applyMesh does to the host.                        *)
(*                                                                         *)
(* A key pair is a number, 0 is none.  fleet.yml is a record y: y.hosts,   *)
(* y.key (each host's mesh.public_key) and y.ep (its mesh.endpoint, else   *)
(* its address).  The tunnel addresses, bridges and ports that MeshPeers   *)
(* works out are the same for every daemon and stand with the host's name. *)
(***************************************************************************)
EXTENDS Naturals, FiniteSets

others(y, h) == y.hosts \ {h}

(* meshConf: the config file has an [Interface] block for the host itself, *)
(* without its key, and a [Peer] block for every other host.               *)
meshConf(y, h) ==
  [p \in y.hosts |-> IF p = h THEN [key |-> 0, ep |-> 0]
                     ELSE [key |-> y.key[p], ep |-> y.ep[p]]]
NoConf == <<>>

(* meshRules: the WireGuard port's rule stands for the host itself.        *)
meshRules(y, h) == y.hosts

(* meshState, and the config the running interface was started with (the   *)
(* probe sees of it the routes and the key).  forward stands for the sysctl*)
(* and its file.                                                           *)
FreshHost == [key |-> 0, pub |-> 0, conf |-> NoConf, active |-> FALSE, enabled |-> FALSE,
              live |-> NoConf, livePub |-> 0, forward |-> FALSE, rules |-> {}]

Routes(st) == IF st.active THEN DOMAIN st.live ELSE {}

(* A plan that a blocker or a missing key cut short changes nothing else.  *)
NoMesh == [off |-> TRUE]
CutShort(st, gen, why) ==
  [pub |-> st.pub, genKey |-> gen, blockers |-> why, conf |-> NoConf, routes |-> {},
   forward |-> FALSE, enable |-> FALSE, restart |-> FALSE, addRules |-> {}, delRules |-> {}]

Blockers(y, h, st) ==
  {p \in y.hosts : y.key[p] = 0} \cup (IF y.key[h] # st.pub THEN {h} ELSE {})

MissingRoutes(y, h, st) == others(y, h) \ Routes(st)

(* As it would be if only an interface that is down were started.          *)
RestartReasonDown(y, h, st) == ~st.active \/ MissingRoutes(y, h, st) # {}

(* Why the interface is (re)started.                                       *)
RestartReason(y, h, st) ==
  \/ ~st.active
  \/ st.conf # meshConf(y, h)
  \/ MissingRoutes(y, h, st) # {}
  \/ st.livePub # 0 /\ st.livePub # st.pub

(* What differs from what fleet.yml wants.                                 *)
Differs(y, h, st) ==
  [pub |-> st.pub, genKey |-> FALSE, blockers |-> {},
   conf |-> IF st.conf # meshConf(y, h) THEN meshConf(y, h) ELSE NoConf,
   routes |-> MissingRoutes(y, h, st),
   forward |-> ~st.forward,
   enable |-> ~st.enabled,
   restart |-> RestartReason(y, h, st),
   addRules |-> meshRules(y, h) \ st.rules,
   delRules |-> st.rules \ meshRules(y, h)]

(* As it would be if a plan asked for the other hosts' keys first.         *)
planMeshKeysFirst(y, h, st) ==
  IF \E p \in others(y, h) : y.key[p] = 0 THEN CutShort(st, FALSE, others(y, h))
  ELSE IF st.key = 0 \/ st.pub = 0 THEN CutShort(st, TRUE, {})
  ELSE IF Blockers(y, h, st) # {} THEN CutShort(st, FALSE, Blockers(y, h, st))
  ELSE Differs(y, h, st)

planMesh(y, h, st) ==
  IF st.key = 0 \/ st.pub = 0 THEN CutShort(st, TRUE, {})
  ELSE IF Blockers(y, h, st) # {} THEN CutShort(st, FALSE, Blockers(y, h, st))
  ELSE Differs(y, h, st)

(* len(m.Changes) > 0, and whether the plan is blocked.                    *)
MeshChanges(m) ==
  /\ m # NoMesh
  /\ \/ m.genKey \/ m.conf # NoConf \/ m.routes # {} \/ m.forward
     \/ m.enable \/ m.restart \/ m.addRules # {} \/ m.delRules # {}

MeshBlocked(m) == m # NoMesh /\ m.blockers # {}

(* As it would be if it made a key whenever the public half is missing.    *)
KeyMadeAnew(st, fresh) == [st EXCEPT !.key = fresh, !.pub = fresh]

(* meshKeyScript: a key only where there is none, and always its public    *)
(* half.                                                                   *)
KeyMade(st, fresh) ==
  LET k == IF st.key = 0 THEN fresh ELSE st.key IN [st EXCEPT !.key = k, !.pub = k]

(* The commands of applyMesh in their order, and what each does.           *)
Steps == <<"forward", "conf", "rules", "enable", "restart">>

Started(st) == [st EXCEPT !.active = TRUE, !.live = st.conf, !.livePub = st.key]

MeshStep(st, m, step) ==
  CASE step = "forward" -> IF m.forward THEN [st EXCEPT !.forward = TRUE] ELSE st
    [] step = "conf"    -> IF m.conf # NoConf THEN [st EXCEPT !.conf = m.conf] ELSE st
    [] step = "rules"   -> [st EXCEPT !.rules = (@ \ m.delRules) \cup m.addRules]
    [] step = "enable"  -> IF m.enable THEN [st EXCEPT !.enabled = TRUE] ELSE st
    [] step = "restart" -> IF m.restart THEN Started(st) ELSE st

(* The host reboots: wg-quick comes up with what is on the disk, if it is  *)
(* enabled and can; the rules and the sysctl file stay.                    *)
Rebooted(st) ==
  IF st.enabled /\ st.conf # NoConf /\ st.key # 0 THEN Started(st)
  ELSE [st EXCEPT !.active = FALSE, !.live = NoConf, !.livePub = 0]

(* The host is as fleet.yml wants it: the interface is up, with this host's*)
(* key and every route, its config is the one on the disk, and the rest is *)
(* there too.                                                              *)
ConfiguredAsWanted(y, h, st) ==
  /\ st.active /\ st.livePub = y.key[h] /\ MissingRoutes(y, h, st) = {}
  /\ st.conf = meshConf(y, h) /\ st.enabled /\ st.forward /\ meshRules(y, h) = st.rules

(* And the interface runs what its config says.                            *)
RunsItsConfig(st) == st.live = st.conf
==============================================================================
