---------------------------- MODULE MCInstances ----------------------------
(* Instances with two tenants, for TLC: one image of the three is refused  *)
(* by the health check.                                                    *)
EXTENDS Instances, TLC

CONSTANTS a, b, i1, i2, x, ip1, ip2

TwoNames     == {a, b}
ThreeImages  == {i1, i2, x}
TwoSound     == {i1, i2}
TwoAddresses == {ip1, ip2}

Symmetry == Permutations(TwoNames) \cup Permutations(TwoSound) \cup Permutations(TwoAddresses)

-----------------------------------------------------------------------------
(* Image retention, over every host of up to four images.                  *)

R == INSTANCE ImageRetention WITH Foreign <- x, Latest <- i1

Tag(app, ref) == [app |-> app, ref |-> ref]
AliasSets == {{}, {Tag(a, i2)}, {Tag(a, i1)}, {Tag(a, i1), Tag(a, i2)}, {Tag(b, i2)},
              {Tag(a, i2), Tag(b, i2)}, {Tag(a, i2), Tag(x, x)}}
ImageOf(t, aliases, cached) == [fp |-> t, aliases |-> aliases, created |-> t, cached |-> cached]
Hosts == {{ImageOf(t, f[t], t = 1 /\ f[t] = {}) : t \in 1..4} : f \in [1..4 -> AliasSets]}
Rules == [keepTags : {0, 1, 2}, orphanAge : {0, 2}, app : {None, a}, displaced : {None, 3}]
Now   == 4

(* No rule of any caller deletes an image an instance runs, the newest     *)
(* images of an app and its :latest, an image somebody named by hand, or a *)
(* young orphan no build displaced; a second round finds nothing more to   *)
(* delete; and a build deletes no more than retention would, but what it   *)
(* displaced.                                                              *)
KeptByAny(img, host, inUse, rule) ==
    \/ img.fp \in inUse
    \/ img.aliases # {} /\ (~R!OwnApp(img) \/ R!HasLatest(img) \/ rule.keepTags = 0)
    \/ /\ R!OwnApp(img)
       /\ Cardinality({j \in host : /\ R!OwnApp(j) /\ R!AppOf(j) = R!AppOf(img)
                                    /\ j.fp \notin inUse /\ j.created > img.created}) < rule.keepTags
    \/ img.aliases = {} /\ img.fp # rule.displaced /\ (img.cached \/ Now - img.created < 2)

ASSUME RetentionKeeps ==
    \A host \in Hosts, inUse \in {{}, {2}, {2, 4}}, rule \in Rules :
       LET gone == R!ImagesToPrune(host, inUse, rule, Now)
       IN  /\ \A img \in gone : ~KeptByAny(img, host, inUse, rule)
           /\ R!ImagesToPrune(host \ gone, inUse, rule, Now) = {}
           /\ gone \subseteq R!ImagesToPrune(host, inUse, [rule EXCEPT !.app = None], Now)
=============================================================================
