--------------------------- MODULE ImageRetention ---------------------------
(***************************************************************************)
(* Which images retention deletes (ImagesToPrune, ownApp and hasLatest in  *)
(* pkg/engine/imageprune.go), as pure operators.  An image has a           *)
(* fingerprint, a set of aliases, the time it was created and whether it   *)
(* is a cache of a remote image; an alias under the daemon's prefix has an *)
(* app and a ref, any other is foreign.  A rule has the number of tags to  *)
(* keep, the age from which an orphan goes (both 0 for "never"), the app   *)
(* and the displaced fingerprint of a build (or None).                     *)
(***************************************************************************)
EXTENDS Integers, FiniteSets, SequencesExt

CONSTANTS None, Foreign, Latest

(* Every alias names one app, and that is under the prefix.                *)
AppsOf(img) == {a.app : a \in img.aliases}
OwnApp(img) == Cardinality(AppsOf(img)) = 1 /\ Foreign \notin AppsOf(img)
AppOf(img)  == CHOOSE a \in AppsOf(img) : TRUE

HasLatest(img) == \E a \in img.aliases : a.ref = Latest

Orphans(host, inUse, rule, now) ==
  {img \in host : /\ img.fp \notin inUse /\ img.aliases = {} /\ ~img.cached
                  /\ \/ img.fp = rule.displaced
                     \/ /\ rule.app = None /\ rule.orphanAge > 0
                        /\ now - img.created >= rule.orphanAge}

(* The tagged images of one app that no instance runs, newest first.       *)
TaggedOf(app, host, inUse) ==
  SetToSortSeq({img \in host : img.fp \notin inUse /\ OwnApp(img) /\ AppOf(img) = app},
               LAMBDA x, y : x.created > y.created)

(* One image of that walk: it is kept and counted, or it goes.             *)
Walk(rule, acc, img) ==
  IF HasLatest(img) \/ acc.kept < rule.keepTags
  THEN [acc EXCEPT !.kept = @ + 1]
  ELSE [acc EXCEPT !.gone = @ \cup {img}]

OldTags(host, inUse, rule) ==
  LET apps == {AppOf(img) : img \in {i \in host : OwnApp(i)}}
      walk(app) == FoldLeft(LAMBDA acc, img : Walk(rule, acc, img), [kept |-> 0, gone |-> {}],
                            TaggedOf(app, host, inUse))
  IN  IF rule.keepTags = 0 THEN {}
      ELSE UNION {walk(app).gone : app \in {a \in apps : rule.app \in {None, a}}}

ImagesToPrune(host, inUse, rule, now) ==
  Orphans(host, inUse, rule, now) \cup OldTags(host, inUse, rule)
=============================================================================
