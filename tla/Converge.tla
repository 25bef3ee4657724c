------------------------------ MODULE Converge ------------------------------
(***************************************************************************)
(* What a deploy corrects in place (pkg/engine: labels.go, forwards.go,    *)
(* snapshots.go, and the environment, limits and volumes of deployer.go):  *)
(* for each, a function says how what is there differs from what the       *)
(* manifest declares, and commands remove the difference one by one.  A    *)
(* map is a function on the keys it has; an absent key reads as "".        *)
(***************************************************************************)
EXTENDS SequencesExt

Value(map, k) == IF k \in DOMAIN map THEN map[k] ELSE ""

(* The drift written: a key whose new value is "" is removed.  Commands    *)
(* that were cut off have written the part of it that is in done.          *)
Corrected(map, drift, done) ==
  LET new  == Restrict(drift, done \cap DOMAIN drift) @@ map
  IN  Restrict(new, {k \in DOMAIN new : new[k] # ""})

(* The keys of want that are missing from map or have another value there. *)
Differing(map, want) == {k \in DOMAIN want : k \notin DOMAIN map \/ map[k] # want[k]}

----------------------------------------------------------------------------
(* The environment.                                                        *)

(* declaredEnv: env_file, then env, then the secrets env_from names; one   *)
(* that is not set is an error.                                            *)
MissingSecrets(from, secrets) == {s \in Range(from) : Value(secrets, s) = ""}
declaredEnv(envFile, env, from, secrets) ==
  [k \in {k \in DOMAIN from : from[k] \notin MissingSecrets(from, secrets)} |-> secrets[from[k]]]
    @@ env @@ envFile

(* ParseEnv takes a pair of quotes off a value; RenderEnv puts none on.    *)
Parsed(value) == [value EXCEPT !.quotes = IF @ = 0 THEN 0 ELSE @ - 1]
ParseEnv(text) == [k \in DOMAIN text |-> Parsed(text[k])]

MergeEnv(live, declared) == declared @@ live

(* The environment file [found, text], and whether it was written.         *)
ensureEnv(file, declared) ==
  LET live == IF file.found THEN ParseEnv(file.text) ELSE <<>>
      due  == DOMAIN declared # {} /\ (~file.found \/ Differing(live, declared) # {})
  IN  [file |-> IF due THEN [found |-> TRUE, text |-> MergeEnv(live, declared)] ELSE file,
       changed |-> due]

(* SetEnvKeys edits the lines of a file: the first of a key is replaced,   *)
(* its others are dropped, missing keys follow, and the rest stays.  A     *)
(* line is its key and value; of a key's lines the last counts.            *)
LastOf(lines, k) == Max({i \in DOMAIN lines : lines[i].key = k})
ReadLines(lines) ==
  [k \in {lines[i].key : i \in DOMAIN lines} |-> lines[LastOf(lines, k)].value]

SetEnvKeys(lines, set) ==
  LET Line(k) == [key |-> k, value |-> set[k]]
      Keep(out, line) ==
        CASE line.key \notin DOMAIN set -> Append(out, line)
          [] line.key \in DOMAIN set /\ Line(line.key) \in Range(out) -> out
          [] OTHER -> Append(out, Line(line.key))
  IN  FoldLeft(Keep, <<>>, lines)
        \o SetToSeq({Line(k) : k \in DOMAIN set \ DOMAIN ReadLines(lines)})

(* An OCI instance: SetEnvironment's script sets one key after another,    *)
(* and what it answers is what the last of its commands did.  Keys are     *)
(* numbered in their order.                                                *)
ensureOCIEnv(live, declared, failing) ==
  LET set == Differing(live, declared)
  IN  [env |-> Restrict(declared, set \ failing) @@ live,
       changed |-> set # {},
       ok |-> set = {} \/ Max(set) \notin failing]

(* usesOCIEnv: the reference, the recorded one, the marker, or any key.    *)
usesOCIEnv(ociRef, inst) ==
  ociRef \/ inst.oci \/ inst.recordedOCI \/ DOMAIN inst.env # {}

----------------------------------------------------------------------------
(* Labels, limits and snapshot schedules are single keys of a              *)
(* configuration.  The changes reconcileLabels makes: want is the whole set.*)
LabelChanges(have, want) ==
  [k \in Differing(have, want) \cup (DOMAIN have \ DOMAIN want) |-> Value(want, k)]

(* A manifest without labels declares nothing about them.                  *)
labelsDrift(have, declared, want) == IF declared THEN LabelChanges(have, want) ELSE <<>>

(* SetLabels: the labels an instance is to have.                           *)
SetLabels(have, set, remove) == set @@ Restrict(have, DOMAIN have \ remove)

limitsDrift(config, limits) ==
  Restrict(limits, {k \in DOMAIN limits : Value(config, k) # limits[k]})

SnapshotKeys == {"schedule", "expiry", "pattern"}

(* A policy is all the keys; a volume's own goes before the fleet's.       *)
SnapshotPolicyFor(own, default) == IF DOMAIN own # {} THEN own ELSE default
volumeSnapshotDrift(live, policy) ==
  Restrict(policy, {k \in DOMAIN policy : Value(live, k) # policy[k]})

----------------------------------------------------------------------------
(* Host ports.  An instance has devices, by name, and the names it records *)
(* as published by native-ops; a forward is its device's name and where it *)
(* leads.                                                                  *)
Proxy(to) == [type |-> "proxy", to |-> to]
Names(forwards) == {forwards[i].name : i \in DOMAIN forwards}

TwoForwardsOfAName(forwards) == Cardinality(Names(forwards)) # Len(forwards)

Publishes(inst, forwards) ==
  {i \in DOMAIN forwards : \/ forwards[i].name \notin DOMAIN inst.devices
                           \/ inst.devices[forwards[i].name] # Proxy(forwards[i].to)}
Removes(inst, forwards) ==
  {n \in inst.managed \ Names(forwards) : n \in DOMAIN inst.devices /\ inst.devices[n].type = "proxy"}

forwardsDrift(inst, forwards) ==
  [publish |-> {forwards[i] : i \in Publishes(inst, forwards)},
   remove  |-> Removes(inst, forwards),
   record  |-> Names(forwards) # inst.managed]

First(s, n) == SubSeq(s, 1, Min({n, Len(s)}))

(* The first n of the commands of ensureForwards, the record being the     *)
(* last: devices are published in the manifest's order, then removed.      *)
ensureForwards(inst, forwards, n) ==
  LET publish == SelectSeq(forwards, LAMBDA f : f \in forwardsDrift(inst, forwards).publish)
      remove  == SetToSeq(Removes(inst, forwards))
      set(d, f) == (f.name :> Proxy(f.to)) @@ d
      unset(d, x) == Restrict(d, DOMAIN d \ {x})
      shown   == FoldLeft(set, inst.devices, First(publish, n))
  IN  [devices |-> FoldLeft(unset, shown, First(remove, n - Len(publish))),
       managed |-> IF n > Len(publish) + Len(remove) THEN Names(forwards) ELSE inst.managed]

----------------------------------------------------------------------------
(* Volumes.  An attachment is a volume, a path and the device name the     *)
(* path gives it (other paths may give the same).                          *)
Disk(a) == [type |-> "disk", vol |-> a.vol, path |-> a.path]

Attached(devices, a) == Disk(a) \in Range(devices)

(* VolumeAttachment's clash: another disk is there, or the volume is       *)
(* somewhere else, or the device's name is taken.                          *)
Clash(devices, a) ==
  /\ ~Attached(devices, a)
  /\ \/ \E d \in Range(devices) : d.type = "disk" /\ (d.path = a.path \/ d.vol = a.vol)
     \/ a.device \in DOMAIN devices

(* EnsureVolumeAttached for each volume, in the manifest's order; an error *)
(* ends the deploy.                                                        *)
EnsureVolumeAttached(state, a) ==
  IF state.failed \/ Clash(state.devices, a) THEN [state EXCEPT !.failed = TRUE]
  ELSE IF Attached(state.devices, a) THEN state
  ELSE [state EXCEPT !.devices = (a.device :> Disk(a)) @@ @]

AttachVolumes(devices, volumes) ==
  FoldLeft(EnsureVolumeAttached, [devices |-> devices, failed |-> FALSE], volumes)

(* planConverge compares each with what is there before any is attached.   *)
VolumesBlocked(devices, volumes) == \E i \in DOMAIN volumes : Clash(devices, volumes[i])
=============================================================================
