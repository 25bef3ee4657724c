---------------------------- MODULE ServeFlags ----------------------------
(***************************************************************************)
(* The files by which a deploy changes the daemon's flags                  *)
(* (pkg/serveflags/serveflags.go): the set in use, a set staged for the    *)
(* next start and how often that was started; and the steps that change    *)
(* them: Stage, Load at each start, and Commit.  DeployFollow runs them.   *)
(***************************************************************************)
EXTENDS Naturals

CONSTANTS
  Sets,     \* flag sets
  UnitSet,  \* the empty set: the flags on the unit's command line
  NoSet,    \* no file
  MaxStarts \* serveflags.MaxAttempts

ASSUME SetAssumption ==
  /\ UnitSet \in Sets
  /\ NoSet \notin Sets
  /\ MaxStarts \in Nat \ {0}

VARIABLES
  kept,   \* serve.flags; no file is the unit's own
  staged, \* serve.flags.pending
  starts  \* serve.flags.attempts; no file counts as 0

setVars == <<kept, staged, starts>>

SetTypeOK ==
  /\ kept \in Sets
  /\ staged \in Sets \cup {NoSet}
  /\ starts \in 0 .. MaxStarts

SetInit == kept \in Sets /\ staged = NoSet /\ starts = 0

(* Stage: the attempts of an earlier set are forgotten.                    *)
Stage(set) ==
  /\ staged' = set
  /\ starts' = 0
  /\ UNCHANGED kept

(* A slip: the starts are not counted.                                     *)
LoadUncounted(set) ==
  /\ set = IF staged = NoSet THEN kept ELSE staged
  /\ UNCHANGED setVars

(* A slip: one start too many.                                             *)
LoadOnceMore(set) ==
  \/ /\ staged = NoSet
     /\ set = kept
     /\ UNCHANGED setVars
  \/ /\ staged # NoSet
     /\ set = staged
     /\ starts' = starts + 1
     /\ starts <= MaxStarts
     /\ UNCHANGED <<kept, staged>>

(* Load: the set this start runs with.  A staged one is counted, and given *)
(* up after its last start.                                                *)
Load(set) ==
  \/ /\ staged = NoSet
     /\ set = kept
     /\ UNCHANGED setVars
  \/ /\ staged # NoSet /\ starts < MaxStarts
     /\ set = staged
     /\ starts' = starts + 1
     /\ UNCHANGED <<kept, staged>>
  \/ /\ staged # NoSet /\ starts >= MaxStarts
     /\ set = kept
     /\ staged' = NoSet
     /\ starts' = 0
     /\ UNCHANGED kept

(* A slip: the set on trial is dropped when it should be kept.             *)
CommitSetDrops ==
  /\ staged # UnitSet \/ kept = UnitSet
  /\ staged' = NoSet
  /\ starts' = 0
  /\ UNCHANGED kept

(* Commit, after the wait: whatever is staged by then is the set in use.   *)
(* The empty set is two removals, serve.flags first; any other a rename.   *)
(* (The staged file is there: only Commit, and a start, remove it.)        *)
ForgetKept ==
  /\ staged = UnitSet /\ kept # UnitSet
  /\ kept' = UnitSet
  /\ UNCHANGED <<staged, starts>>

CommitSet ==
  /\ staged # UnitSet \/ kept = UnitSet
  /\ kept' = staged
  /\ staged' = NoSet
  /\ starts' = 0

----------------------------------------------------------------------------
(* The trial these files stand for; a set that is in use already is none.  *)
TriedSet == IF staged = kept THEN NoSet ELSE staged
SetTries == IF TriedSet = NoSet THEN 0 ELSE starts
=============================================================================
