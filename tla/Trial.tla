------------------------------- MODULE Trial -------------------------------
(***************************************************************************)
(* What pkg/selfupdate and pkg/serveflags both promise: something stable,  *)
(* and at times something on trial.  The trial is started a bounded number *)
(* of times; it becomes the stable thing only by being started, and it is  *)
(* dropped only after its last start.  What was stable stays until then.   *)
(***************************************************************************)
EXTENDS Naturals

CONSTANTS Things, NoThing, MaxTries

VARIABLES stable, trial, tries

trialVars == <<stable, trial, tries>>

TrialInit == stable \in Things /\ trial = NoThing /\ tries = 0

StageTrial ==
  /\ trial = NoThing
  /\ trial' \in Things
  /\ UNCHANGED <<stable, tries>>

Try ==
  /\ trial # NoThing
  /\ tries < MaxTries
  /\ tries' = tries + 1
  /\ UNCHANGED <<stable, trial>>

Keep ==
  /\ trial # NoThing
  /\ tries > 0
  /\ stable' = trial
  /\ trial' = NoThing
  /\ tries' = 0

Drop ==
  /\ trial # NoThing
  /\ tries = MaxTries
  /\ trial' = NoThing
  /\ tries' = 0
  /\ UNCHANGED stable

TrialNext == StageTrial \/ Try \/ Keep \/ Drop

TrialSpec == TrialInit /\ [][TrialNext]_trialVars
=============================================================================
