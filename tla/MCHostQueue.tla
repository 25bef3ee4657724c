---------------------------- MODULE MCHostQueue ----------------------------
(* HostQueue on small sets of requests, for TLC.                           *)
EXTENDS HostQueue, TLC

CONSTANTS a1, u1, q1, q2, q3, q4, q5

(* An apply and two changes that queue; or three.                          *)
SmallChanges == {a1, q1, q2}
LineChanges  == {a1, q1, q2, q3}
OneApply     == {a1}
OneImmediate == {u1}
OneTimer     == {q2}

(* Changes that all queue, enough of them for prune to have work.          *)
QueuedChanges == {u1, q1, q2, q3, q4, q5}
NoChange      == {}

Symmetry == Permutations({q1, q2, q3, q4, q5})
=============================================================================
