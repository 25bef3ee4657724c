------------------------------ MODULE Recipes ------------------------------
(***************************************************************************)
(* The recipes images are built from (pkg/server/recipes.go): only an      *)
(* approved one is built (images.go), as it stands when that is asked.  An *)
(* admin approves one and takes the approval back, and the deploy of a     *)
(* protected tag approves its own (deploy.go).  Each method runs under the *)
(* store's lock and writes the whole file, which may fail: what it changed *)
(* in memory stays.  A record is when the recipe was last seen and whether *)
(* it is approved.                                                         *)
(***************************************************************************)
EXTENDS Naturals, FiniteSets

CONSTANTS
  Digests,      \* the recipes
  KeepRecipes,  \* keepRecipes, 200
  MaxCalls,     \* bound: calls of the store
  MaxFailed,    \* bound: writes that fail
  MaxStarts     \* bound: restarts of the daemon

VARIABLES
  recs,    \* s.recs
  file,    \* what was written last
  calls,   \* how many calls there were: the time of the next
  told,    \* history: what the last answer about each recipe said of it, "nothing" when it failed
  wasted   \* how many writes failed, and restarts there were

recipeVars == <<recs, file, calls, told, wasted>>

None == <<>>
Records == [seen : 0 .. MaxCalls, approved : BOOLEAN]
Approved(rs) == {d \in DOMAIN rs : rs[d].approved}

Init ==
  /\ recs = None /\ file = None /\ calls = 0
  /\ told = [d \in Digests |-> "nothing"]
  /\ wasted = [writes |-> 0, starts |-> 0]

TypeOK ==
  /\ DOMAIN recs \cup DOMAIN file \subseteq Digests
  /\ \A d \in DOMAIN recs : recs[d] \in Records
  /\ \A d \in DOMAIN file : file[d] \in Records
  /\ calls \in 0 .. MaxCalls /\ told \in [Digests -> {"nothing", "approved", "revoked"}]
  /\ wasted \in [writes : 0 .. MaxFailed, starts : 0 .. MaxStarts]

(* How many of the records that are kept were seen after d.                *)
Before(rs, d) == {e \in DOMAIN rs : rs[e].seen > rs[d].seen}

(* As it would be if the most recently seen recipes were all that is kept. *)
KeptRecent(rs) == {d \in DOMAIN rs : Cardinality(Before(rs, d)) < KeepRecipes}

(* Every approved recipe, and the most recently seen of the rest.          *)
Kept(rs) == Approved(rs) \cup {d \in DOMAIN rs : Cardinality(Before(rs, d)) < KeepRecipes}

(* save: what is left out is left out in memory too, and before the write. *)
Called(rs) ==
  /\ calls < MaxCalls /\ calls' = calls + 1
  /\ recs' = IF Cardinality(DOMAIN rs) > KeepRecipes THEN [d \in Kept(rs) |-> rs[d]] ELSE rs

Saved(rs) == Called(rs) /\ file' = recs' /\ UNCHANGED wasted

SaveFails(rs) ==
  /\ Called(rs) /\ UNCHANGED file
  /\ wasted.writes < MaxFailed /\ wasted' = [wasted EXCEPT !.writes = @ + 1]

Tell(d, what) == told' = [told EXCEPT ![d] = what]

IsApproved(d) == d \in Approved(recs)

(* The records with d's as it is now.                                      *)
With(d, record) == [e \in DOMAIN recs \cup {d} |-> IF e = d THEN record ELSE recs[e]]

(* Seen, for a request to build, which goes on if the recipe was approved. *)
Build(d) ==
  /\ UNCHANGED told
  /\ LET seen == With(d, [seen |-> calls, approved |-> IsApproved(d)])
     IN  Saved(seen) \/ SaveFails(seen)

(* A recipe that was not seen yet is approved ahead of its first build.    *)
AsApproved(d) ==
  With(d, [seen |-> IF d \in DOMAIN recs THEN recs[d].seen ELSE calls, approved |-> TRUE])

Approve(d) ==
  \/ Saved(AsApproved(d)) /\ Tell(d, "approved")
  \/ SaveFails(AsApproved(d)) /\ Tell(d, "nothing")

(* The deploy of a tag: an approved recipe is left as it is, and nothing   *)
(* is said of it.  A failure is logged, and the deploy goes on.            *)
ApproveFromGit(d) == ~IsApproved(d) /\ Approve(d)

Revoke(d) ==
  /\ d \in DOMAIN recs
  /\ LET without == [recs EXCEPT ![d].approved = FALSE]
     IN  \/ Saved(without) /\ Tell(d, "revoked")
         \/ SaveFails(without) /\ Tell(d, "nothing")

(* OpenRecipeStore.                                                        *)
Restart ==
  /\ wasted.starts < MaxStarts /\ wasted' = [wasted EXCEPT !.starts = @ + 1]
  /\ recs' = file
  /\ UNCHANGED <<file, calls, told>>

Next ==
  \/ \E d \in Digests : Build(d) \/ Approve(d) \/ ApproveFromGit(d) \/ Revoke(d)
  \/ Restart

Spec == Init /\ [][Next]_recipeVars

----------------------------------------------------------------------------
(* What was answered about a recipe stands, in the daemon and after it     *)
(* starts again, until there is another answer about it: whatever is seen, *)
(* approved and revoked besides, beyond the number of records that is kept *)
(* and with writes that fail (recipes.go: "Keep every approved recipe").   *)
AnswersStand ==
  \A d \in Digests :
    /\ told[d] = "approved" => d \in Approved(recs) \cap Approved(file)
    /\ told[d] = "revoked" => d \notin Approved(recs) \cup Approved(file)
=============================================================================
