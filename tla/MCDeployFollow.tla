--------------------------- MODULE MCDeployFollow ---------------------------
(* Instances of DeployFollow for TLC: b2 never stays up, and only b1 knows *)
(* the flag in f1.                                                         *)
EXTENDS DeployFollow

CONSTANTS b0, b1, b2, f0, f1, d1, d2, u1

ThreeBinaries == {b0, b1, b2}
TwoSets       == {f0, f1}
SoundPairs    == {<<b0, f0>>, <<b1, f0>>, <<b1, f1>>}
FourCommits   == {<<NoBinary, f0>>, <<NoBinary, f1>>, <<b1, f1>>, <<b2, f1>>}
BadCommit     == {<<b2, f0>>}

OneDeploy  == {d1}
TwoDeploys == {d1, d2}
OneUpgrade == {u1}
NoRequest  == {}
=============================================================================
