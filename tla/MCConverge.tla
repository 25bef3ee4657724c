---------------------------- MODULE MCConverge ----------------------------
(***************************************************************************)
(* What a deploy corrects in place, over small maps: the commands may be   *)
(* cut off after any of them, and a deploy that is run again goes on from  *)
(* there.                                                                  *)
(***************************************************************************)
EXTENDS Converge

Keys == {"schedule", "expiry", "a"}
MapsOf(keys, values) == UNION {[K -> values] : K \in SUBSET keys}
StringMaps == MapsOf(Keys, {"1", "2"})
Nothing == <<>>

(* Labels end as declared, from any labels and after any cut; a manifest   *)
(* without labels leaves them.  Two changes of other labels that have read *)
(* the same ones both take effect.                                         *)
ASSUME LabelsConverge ==
  \A have, want \in StringMaps :
    LET drift == labelsDrift(have, TRUE, want)
        all   == Corrected(have, drift, Keys)
    IN  /\ all = want
        /\ (drift = Nothing) = (have = want)
        /\ labelsDrift(have, FALSE, want) = Nothing
        /\ \A done \in SUBSET Keys :
             LET cut == Corrected(have, drift, done)
             IN  Corrected(cut, labelsDrift(cut, TRUE, want), Keys) = want

ASSUME LabelChangesCommute ==
  \A have \in StringMaps, one \in MapsOf({"a"}, {"1", "2"}), gone \in SUBSET {"expiry"} :
    LET change(from, set, remove) == LabelChanges(from, SetLabels(from, set, remove))
    IN  Corrected(Corrected(have, change(have, one, {}), Keys), change(have, Nothing, gone), Keys)
          = SetLabels(have, one, gone)

(* Limits and snapshot schedules: the next plan is empty, and keys that    *)
(* nobody declares stay.                                                   *)
ASSUME SettingsConverge ==
  /\ \A config, limits \in StringMaps :
       LET after == Corrected(config, limitsDrift(config, limits), Keys)
       IN  /\ limitsDrift(after, limits) = Nothing
           /\ \A k \in Keys \ DOMAIN limits : Value(after, k) = Value(config, k)
  /\ \A live \in StringMaps, own, default \in {Nothing} \cup [SnapshotKeys -> {"", "1"}] :
       LET policy == SnapshotPolicyFor(own, default)
           after  == Corrected(live, volumeSnapshotDrift(live, policy), SnapshotKeys)
       IN  policy # Nothing => /\ volumeSnapshotDrift(after, policy) = Nothing
                          /\ Value(after, "a") = Value(live, "a")

(* What is declared is never an empty secret, and env_from goes first.     *)
ASSUME SecretsAreWhole ==
  \A secrets \in MapsOf({"s", "t"}, {"", "v"}), from \in MapsOf({"a", "b"}, {"s", "t"}) :
    LET declared == declaredEnv([a |-> "file"], [b |-> "env"], from, secrets)
    IN  MissingSecrets(from, secrets) = {} => \A k \in DOMAIN from : declared[k] = "v"

(* The environment file has what is declared, and keys that are not        *)
(* declared read as they did.  A second deploy writes nothing, but for     *)
(* values declared in quotes: reading takes them off, and every deploy     *)
(* finds them different.                                                   *)
Texts == [word : {"1", "2"}, quotes : 0 .. 1]
Files == [found : {TRUE}, text : MapsOf({"a", "b"}, Texts)] \cup {[found |-> FALSE, text |-> <<>>]}
ASSUME EnvConverges ==
  \A file \in Files, declared \in MapsOf({"a", "b"}, Texts) :
    LET after == ensureEnv(file, declared).file
    IN  /\ \A k \in DOMAIN declared : Parsed(after.text[k]) = Parsed(declared[k])
        /\ \A k \in DOMAIN file.text \ DOMAIN declared :
             Parsed(after.text[k]) = Parsed(file.text[k])
        /\ ensureEnv(after, declared).changed
              = (\E k \in DOMAIN declared : declared[k].quotes > 0)

(* An update that sets keys changes what these read as, in files with      *)
(* repeated keys too, and nothing else.                                    *)
Lines == [key : {"a", "b"}, value : {"1", "2"}]
ASSUME OnlySetKeysChange ==
  \A lines \in UNION {[1 .. n -> Lines] : n \in 0 .. 3}, set \in MapsOf({"a", "c"}, {"1", "3"}) :
    LET after == SetEnvKeys(lines, set)
    IN  /\ ReadLines(after) = MergeEnv(ReadLines(lines), set)
        /\ SelectSeq(after, LAMBDA l : l.key = "b") = SelectSeq(lines, LAMBDA l : l.key = "b")

(* An OCI instance: a key whose command failed may go unnoticed, but the   *)
(* next deploy writes it.  With its environment written, the instance is   *)
(* known for one by its keys alone.                                        *)
ASSUME OCIEnvConverges ==
  \A live, declared \in MapsOf(1 .. 3, {"1", "2"}), failing \in SUBSET (1 .. 3) :
    LET first  == ensureOCIEnv(live, declared, failing)
        second == ensureOCIEnv(first.env, declared, {})
    IN  /\ second.env = MergeEnv(live, declared)
        /\ ~first.ok => second.changed
        /\ ~ensureOCIEnv(second.env, declared, failing).changed
        /\ second.env # Nothing =>
             usesOCIEnv(FALSE, [oci |-> FALSE, recordedOCI |-> FALSE, env |-> second.env])

(* Host ports are as declared, and a second deploy has nothing to do; what *)
(* others published stays, and so does every other device but one that has *)
(* a forward's name.  A deploy that was cut off is completed by another of *)
(* the same manifest.                                                      *)
Ports == {"p", "q"}
PortDevices == MapsOf(Ports \cup {"r"}, {Proxy("1"), Proxy("2"), [type |-> "nic"]})
Forwards == [name : Ports, to : {"1", "2"}]
ASSUME PortsConverge ==
  \A devices \in PortDevices, managed \in SUBSET (Ports \cup {"r"}),
     forwards \in {<<>>} \cup {<<f>> : f \in Forwards} \cup (Forwards \X Forwards) :
    LET inst == [devices |-> devices, managed |-> managed]
        all  == ensureForwards(inst, forwards, 4)
    IN  ~TwoForwardsOfAName(forwards) =>
          /\ forwardsDrift(all, forwards) = [publish |-> {}, remove |-> {}, record |-> FALSE]
          /\ \A i \in DOMAIN forwards : all.devices[forwards[i].name] = Proxy(forwards[i].to)
          /\ \A n \in DOMAIN devices \ (managed \cup Names(forwards)) :
               n \in DOMAIN all.devices /\ all.devices[n] = devices[n]
          /\ \A cut \in 0 .. 3 :
               ensureForwards(ensureForwards(inst, forwards, cut), forwards, 4) = all

(* A plan is blocked exactly when the deploy would be refused a volume: so *)
(* long as the manifest's own volumes do not clash with each other.  A     *)
(* deploy that is not refused attaches all of them, moves none, and        *)
(* attaches none twice.                                                    *)
Mounts == [vol : {"u", "v"}, path : {"/a", "/b"}, device : {"a"}]
            \cup [vol : {"u", "v"}, path : {"/c"}, device : {"c"}]
Disks == MapsOf({"a", "c"}, {Disk(m) : m \in Mounts} \cup {[type |-> "nic"]})
Of(devices, v) == {k \in DOMAIN devices : devices[k].type = "disk" /\ devices[k].vol = v}
Apart(m, n) == m.vol # n.vol /\ m.path # n.path /\ m.device # n.device
ASSUME PlanSeesClash ==
  \A devices \in Disks, m, n \in Mounts :
    LET volumes  == <<m, n>>
        attached == AttachVolumes(devices, volumes)
    IN  /\ Apart(m, n) => attached.failed = VolumesBlocked(devices, volumes)
        /\ VolumesBlocked(devices, volumes) => attached.failed
        /\ \A k \in DOMAIN devices : attached.devices[k] = devices[k]
        /\ \A v \in {"u", "v"} : Of(attached.devices, v) \subseteq Of(devices, v)
                                \/ Cardinality(Of(attached.devices, v)) = 1
        /\ ~attached.failed =>
             /\ Attached(attached.devices, m) /\ Attached(attached.devices, n)
             /\ AttachVolumes(attached.devices, volumes) = attached
=============================================================================
