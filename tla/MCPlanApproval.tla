--------------------------- MODULE MCPlanApproval ---------------------------
(* PlanApproval with one tree, for TLC: a host that is h0 needs changes, on *)
(* h1 they are blocked, and t1 is the tree itself.                         *)
EXTENDS PlanApproval, TLC

CONSTANTS t1, h0, h1, a1, a2, d1, o1, p1

OneTree    == {t1}
TwoHosts   == {h0, t1}
ThreeHosts == {h0, h1, t1}
NoneBlocked == {}
OneBlocked  == {<<t1, h1>>}
OneApply   == {a1}
TwoApplies == {a1, a2}
OneDeploy  == {d1}
OneOther   == {o1}
NoJob      == {}
OnePlanner == {p1}

Symmetry == Permutations(TwoApplies)
=============================================================================
