----------------------------- MODULE Retention -----------------------------
(***************************************************************************)
(* Two pure functions of the backup code: which keys of one volume         *)
(* retention deletes (selectPrune, pkg/backup/manager.go), and whether one *)
(* of the daily times fell between two checks of the schedule (dueBetween, *)
(* pkg/server/backup_schedule.go).  Times are numbers; how long a day and  *)
(* a month last in them is a parameter.                                    *)
(***************************************************************************)
EXTENDS Integers, FiniteSets

CONSTANTS
  RetainDaily,   \* keep the newest so many; 0: no such rule
  RetainMonthly, \* keep the newest of each of so many months
  RetainDays,    \* keep all that are younger than so many days
  DayLength, MonthLength,
  Times          \* the schedule's daily times, in 0..(DayLength - 1)

ASSUME RetentionAssumption ==
  /\ RetainDaily \in Nat /\ RetainMonthly \in Nat /\ RetainDays \in Nat
  /\ DayLength \in Nat \ {0} /\ MonthLength \in Nat \ {0}
  /\ Times \subseteq 0..(DayLength - 1)

Newer(k, keys) == {j \in keys : j > k}
MonthOf(k)     == k \div MonthLength
Months(keys)   == {MonthOf(k) : k \in keys}

KeptNewest(keys)    == {k \in keys : Newer(k, keys) = {}}
KeptDaily(keys)     == {k \in keys : Cardinality(Newer(k, keys)) < RetainDaily}
KeptDays(keys, now) == {k \in keys : RetainDays > 0 /\ k > now - RetainDays * DayLength}
KeptMonthly(keys)   == {k \in keys : /\ MonthOf(k) \notin Months(Newer(k, keys))
                                     /\ Cardinality(Months(Newer(k, keys))) < RetainMonthly}

(* As a bug would have it: only the objects that are not the newest of     *)
(* their month are counted by retain_daily's rule, off by one.             *)
PrunedOneMore(keys, now) ==
  keys \ ({k \in keys : Cardinality(Newer(k, keys)) + 1 < RetainDaily}
          \cup KeptDays(keys, now) \cup KeptMonthly(keys))

(* What a prune deletes.  With no rule at all it deletes nothing.          *)
Pruned(keys, now) ==
  IF RetainDaily + RetainMonthly + RetainDays = 0 THEN {}
  ELSE keys \ (KeptNewest(keys) \cup KeptDaily(keys) \cup KeptDays(keys, now) \cup KeptMonthly(keys))

(* The slots in (last, now].  A gap of a day or more is looked at as one   *)
(* day, so that one run answers it.                                        *)
DueBetween(last, now) ==
  LET from == IF now - last >= DayLength THEN now - DayLength ELSE last
  IN  {s \in (from + 1)..now : s % DayLength \in Times}
=============================================================================
