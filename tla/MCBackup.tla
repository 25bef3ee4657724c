------------------------------ MODULE MCBackup ------------------------------
(* Backup on two volumes and two containers, for TLC.                      *)
EXTENDS Backup

CONSTANTS v1, v2, c1, c2

TwoVolumes  == {v1, v2}
TwoServices == {c1, c2}
BothOnFirst == [c \in TwoServices |-> v1]
OnlySecond  == {v2}
OneAside    == {c2}
AtOne       == {1}

(* A check finds a backup due exactly when one of the daily times fell     *)
(* after the last check, however long ago that was (dueBetween).           *)
ASSUME DueIsExact ==
  \A last \in 0..(2 * DayLength), now \in 0..(4 * DayLength) :
    last < now => (DueBetween(last, now) # {} <=> \E s \in (last + 1)..now : s % DayLength \in Times)
=============================================================================
