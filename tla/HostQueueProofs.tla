-------------------------- MODULE HostQueueProofs --------------------------
(* What HostQueue's runs show of a few changes, proved for any set of them.*)
EXTENDS HostQueue, FiniteSetTheorems, SequenceTheorems, TLAPS

(* A job's rank counts the records made so far, so it is a number.         *)
LEMMA RankIsNat ==
  ASSUME TypeOK
  PROVE  Cardinality({d \in Changes : born[d] > 0}) + 1 \in Nat
<1>1. IsFiniteSet({d \in Changes : born[d] > 0})
  BY FS_Subset, QueueAssumption
<1>2. QED
  BY <1>1, FS_CardinalityType

(* create leaves the store well typed.                                     *)
LEMMA CreateType ==
  ASSUME TypeOK, NEW c \in Changes, Create(c)
  PROVE  /\ mem' \in [Changes -> Statuses]
         /\ disk' \in [Changes -> Statuses]
         /\ born' \in [Changes -> Nat]
         /\ lastEnded' \in SUBSET Changes
BY RankIsNat DEF Create, Without, TypeOK, Statuses

(* So do update, Interrupt and Finish.                                     *)
LEMMA UpdateType ==
  ASSUME TypeOK, NEW c \in Changes, NEW status \in Statuses, Update(c, status)
  PROVE  /\ mem' \in [Changes -> Statuses]
         /\ disk' \in [Changes -> Statuses]
         /\ born' \in [Changes -> Nat]
         /\ lastEnded' \in SUBSET Changes
BY DEF Update, TypeOK

(* And the end of the process.                                             *)
LEMMA DieType ==
  ASSUME TypeOK, Die, stops' \in Nat
  PROVE  TypeOK'
BY EmptySeq DEF Die, TypeOK, Phases, Statuses, Steps

(* Removing one place from the line leaves a line.                         *)
LEMMA RemoveType ==
  ASSUME NEW S, NEW s \in Seq(S), NEW i \in DOMAIN s
  PROVE  SubSeq(s, 1, i - 1) \o SubSeq(s, i + 1, Len(s)) \in Seq(S)
<1>1. SubSeq(s, 1, i - 1) \in Seq(S)
  OBVIOUS
<1>2. SubSeq(s, i + 1, Len(s)) \in Seq(S)
  OBVIOUS
<1>3. QED
  BY <1>1, <1>2

LEMMA TypeStep ==
  ASSUME TypeOK, [Next]_vars
  PROVE  TypeOK'
<1>1. ASSUME NEW c \in Changes, QueueJob(c)
      PROVE  TypeOK'
  <2>1. Append(waiting, c) \in Seq(Changes)
    BY AppendProperties DEF TypeOK
  <2>2. QED
    BY <1>1, <2>1 DEF QueueJob, GrantAtOnce, Goto, TypeOK, queueVars, jobVars, procVars, Steps
<1>2. ASSUME NEW c \in Changes, TryTicket(c)
      PROVE  TypeOK'
  BY <1>2 DEF TryTicket, GrantAtOnce, Goto, TypeOK, queueVars, jobVars, procVars, Steps
<1>3. ASSUME NEW c \in Changes, Planned(c)
      PROVE  TypeOK'
  BY <1>3 DEF Planned, Goto, TypeOK, queueVars, jobVars, procVars, Steps
<1>4. ASSUME NEW c \in Changes, CreateQueued(c)
      PROVE  TypeOK'
  BY <1>4, CreateType DEF CreateQueued, Goto, TypeOK, queueVars, jobVars, procVars, Steps
<1>5. ASSUME NEW c \in Changes, Abandon(c)
      PROVE  TypeOK'
  <2>1. ASSUME NEW i \in DOMAIN waiting
        PROVE  SubSeq(waiting, 1, i - 1) \o SubSeq(waiting, i + 1, Len(waiting)) \in Seq(Changes)
    BY RemoveType DEF TypeOK
  <2>2. waiting' \in Seq(Changes)
    BY <1>5, <2>1 DEF Abandon, TypeOK
  <2>3. QED
    BY <1>5, <2>2 DEF Abandon, Goto, TypeOK, jobVars, procVars, Steps
<1>6. ASSUME NEW c \in Changes, StartGranted(c)
      PROVE  TypeOK'
  <2>1. "running" \in Statuses
    BY DEF Statuses
  <2>2. QED
    BY <1>6, <2>1, UpdateType DEF StartGranted, Goto, TypeOK, queueVars, jobVars, procVars, Steps
<1>7. ASSUME NEW c \in Changes, Prepare(c)
      PROVE  TypeOK'
  BY <1>7 DEF Prepare, Goto, TypeOK, queueVars, jobVars, procVars, Steps
<1>8. ASSUME NEW c \in Changes, Receive(c)
      PROVE  TypeOK'
  <2>1. "running" \in Statuses /\ "notstarted" \in Statuses
    BY DEF Statuses
  <2>2. QED
    BY <1>8, <2>1, UpdateType DEF Receive, Goto, TypeOK, queueVars, jobVars, procVars, Steps
<1>9. ASSUME NEW c \in Changes, BeginWork(c) \/ EndWork(c)
      PROVE  TypeOK'
  BY <1>9 DEF BeginWork, EndWork, Goto, TypeOK, queueVars, jobVars, procVars, Steps
<1>10. ASSUME NEW c \in Changes, Finish(c)
       PROVE  TypeOK'
  <2>1. "succeeded" \in Statuses /\ "failed" \in Statuses
    BY DEF Statuses
  <2>2. QED
    BY <1>10, <2>1, UpdateType DEF Finish, Goto, TypeOK, queueVars, jobVars, procVars, Steps
<1>11. ASSUME NEW c \in Changes, Release(c)
       PROVE  TypeOK'
  <2>1. waiting # <<>> => Head(waiting) \in Changes /\ Tail(waiting) \in Seq(Changes)
    BY DEF TypeOK
  <2>2. QED
    BY <1>11, <2>1 DEF Release, Goto, TypeOK, jobVars, procVars, Steps
<1>12. ASSUME NEW c \in Changes, Client(c)
       PROVE  TypeOK'
  BY <1>12 DEF Client, Poll, PollEnds, TypeOK, queueVars, jobVars
<1>13. ASSUME Stop \/ ShutdownReturns
       PROVE  TypeOK'
  BY <1>13 DEF Stop, ShutdownReturns, TypeOK, queueVars, jobVars, Phases
<1>14. ASSUME CloseQueue
       PROVE  TypeOK'
  BY <1>14 DEF CloseQueue, TypeOK, jobVars, Phases
<1>15. ASSUME ShutdownTimesOut \/ Drained \/ DrainExpires \/ Crash
       PROVE  TypeOK'
  <2>1. Die /\ stops' \in Nat
    BY <1>15 DEF ShutdownTimesOut, Drained, DrainExpires, Crash, TypeOK
  <2>2. QED
    BY <2>1, DieType
<1>16. ASSUME Restart
       PROVE  TypeOK'
  <2>1. \A status \in Statuses : Reopened(status) \in Statuses
    BY DEF Reopened, Statuses
  <2> DEFINE reopened == [c \in Changes |-> Reopened(disk[c])]
  <2>2. mem' \in [Changes -> Statuses] /\ disk' \in [Changes -> Statuses]
    <3>1. ASSUME NEW unsaved \in SUBSET Changes
          PROVE  [c \in Changes |-> IF c \in unsaved THEN disk[c] ELSE reopened[c]]
                   \in [Changes -> Statuses]
      BY <2>1 DEF TypeOK
    <3>2. reopened \in [Changes -> Statuses]
      BY <2>1 DEF TypeOK
    <3>3. ASSUME NEW m \in [Changes -> Statuses], NEW gone
          PROVE  Without(m, gone) \in [Changes -> Statuses]
      BY DEF Without, Statuses
    <3>4. PICK unsaved \in SUBSET {c \in Changes : disk[c] \in Pending} :
            /\ mem' = Without(reopened, Pruned(reopened, born))
            /\ disk' = Without([c \in Changes |-> IF c \in unsaved THEN disk[c] ELSE reopened[c]],
                                Pruned(reopened, born))
      BY <1>16 DEF Restart
    <3>5. unsaved \in SUBSET Changes
      OBVIOUS
    <3> HIDE DEF reopened
    <3>6. QED
      BY <3>1, <3>2, <3>3, <3>4, <3>5
  <2>3. lastEnded' \in SUBSET Changes
    BY <1>16 DEF Restart, TypeOK
  <2>4. QED
    BY <1>16, <2>2, <2>3 DEF Restart, TypeOK, queueVars, Phases
<1>17. ASSUME UNCHANGED vars
       PROVE  TypeOK'
  BY <1>17 DEF vars, TypeOK
<1>18. QED
  BY <1>1, <1>2, <1>3, <1>4, <1>5, <1>6, <1>7, <1>8, <1>9, <1>10, <1>11,
     <1>12, <1>13, <1>14, <1>15, <1>16, <1>17 DEF Next, Job, Process

(* The queue, the store and the process stay in the states the code knows. *)
THEOREM TypeCorrect == Spec => []TypeOK
<1>1. Init => TypeOK
  <2> SUFFICES ASSUME Init
               PROVE  TypeOK
    OBVIOUS
  <2>1. waiting \in Seq(Changes)
    BY EmptySeq DEF Init
  <2>2. /\ turn \in [Changes -> {"none", "run", "stop"}]
        /\ pc \in [Changes -> Steps]
        /\ mem \in [Changes -> Statuses]
        /\ disk \in [Changes -> Statuses]
        /\ born \in [Changes -> Nat]
    BY DEF Init, Steps, Statuses
  <2>3. QED
    BY <2>1, <2>2 DEF Init, TypeOK, Phases
<1>2. TypeOK /\ [Next]_vars => TypeOK'
  BY TypeStep
<1>3. QED
  BY <1>1, <1>2, PTL DEF Spec

----------------------------------------------------------------------------
(* What appending, removing and taking the head do to who is in a line.    *)

Elems(s) == {s[i] : i \in DOMAIN s}

Distinct(s) == \A i, j \in DOMAIN s : s[i] = s[j] => i = j

LEMMA AppendToLine ==
  ASSUME NEW S, NEW s \in Seq(S), NEW e \in S, e \notin Elems(s), Distinct(s)
  PROVE  /\ Elems(Append(s, e)) = Elems(s) \cup {e}
         /\ Distinct(Append(s, e))
<1> DEFINE t == Append(s, e)
<1>1. /\ DOMAIN s = 1 .. Len(s) /\ Len(s) \in Nat
      /\ DOMAIN t = 1 .. Len(s) + 1
      /\ \A i \in 1 .. Len(s) : t[i] = s[i]
      /\ t[Len(s) + 1] = e
  OBVIOUS
<1> HIDE DEF t
<1>2. Elems(t) = Elems(s) \cup {e}
  BY <1>1 DEF Elems
<1>3. Distinct(t)
  BY <1>1 DEF Distinct, Elems
<1>4. QED
  BY <1>2, <1>3 DEF t

LEMMA TailOfLine ==
  ASSUME NEW S, NEW s \in Seq(S), s # <<>>, Distinct(s)
  PROVE  /\ Elems(Tail(s)) = Elems(s) \ {Head(s)}
         /\ Distinct(Tail(s))
         /\ Head(s) \in Elems(s)
<1> DEFINE t == Tail(s)
<1>1. /\ DOMAIN s = 1 .. Len(s) /\ Len(s) \in Nat /\ Len(s) # 0
      /\ DOMAIN t = 1 .. Len(s) - 1
      /\ \A i \in 1 .. Len(s) - 1 : t[i] = s[i + 1]
      /\ Head(s) = s[1]
  OBVIOUS
<1> HIDE DEF t
<1>2. Head(s) \in Elems(s)
  BY <1>1 DEF Elems
<1>3. \A x \in Elems(t) : x \in Elems(s) \ {Head(s)}
  BY <1>1 DEF Elems, Distinct
<1>4. \A x \in Elems(s) \ {Head(s)} : x \in Elems(t)
  <2> SUFFICES ASSUME NEW i \in 1 .. Len(s), s[i] # s[1]
               PROVE  s[i] \in Elems(t)
    BY <1>1 DEF Elems
  <2>1. i - 1 \in 1 .. Len(s) - 1 /\ t[i - 1] = s[i]
    BY <1>1
  <2>2. QED
    BY <2>1, <1>1 DEF Elems
<1>5. Distinct(t)
  BY <1>1 DEF Distinct
<1>6. QED
  BY <1>2, <1>3, <1>4, <1>5 DEF t

(* Where each stands once one place is taken out of a line.                *)
LEMMA RemovedAt ==
  ASSUME NEW S, NEW s \in Seq(S), NEW k \in DOMAIN s
  PROVE  LET t == SubSeq(s, 1, k - 1) \o SubSeq(s, k + 1, Len(s))
         IN  /\ Len(t) = Len(s) - 1
             /\ DOMAIN t = 1 .. Len(s) - 1
             /\ \A i \in 1 .. Len(s) - 1 : t[i] = IF i < k THEN s[i] ELSE s[i + 1]
<1> DEFINE l == SubSeq(s, 1, k - 1)
           r == SubSeq(s, k + 1, Len(s))
<1>1. /\ DOMAIN s = 1 .. Len(s) /\ Len(s) \in Nat /\ k \in 1 .. Len(s)
  OBVIOUS
<1>2. /\ l \in Seq(S) /\ Len(l) = k - 1
      /\ \A i \in 1 .. k - 1 : l[i] = s[i]
  BY <1>1
<1>3. /\ r \in Seq(S) /\ Len(r) = Len(s) - k
      /\ \A i \in 1 .. Len(s) - k : r[i] = s[i + k]
  BY <1>1
<1> HIDE DEF l, r
<1>4. /\ l \o r \in Seq(S)
      /\ Len(l \o r) = Len(s) - 1
      /\ \A i \in 1 .. Len(s) - 1 :
           (l \o r)[i] = IF i <= k - 1 THEN l[i] ELSE r[i - (k - 1)]
  <2>1. /\ l \o r \in Seq(S)
        /\ Len(l \o r) = Len(l) + Len(r)
        /\ \A i \in 1 .. Len(l) + Len(r) :
             (l \o r)[i] = IF i <= Len(l) THEN l[i] ELSE r[i - Len(l)]
    BY <1>2, <1>3, ConcatProperties
  <2>2. Len(l) + Len(r) = Len(s) - 1
    BY <1>1, <1>2, <1>3
  <2> QED
    BY <2>1, <2>2, <1>2
<1>5. DOMAIN (l \o r) = 1 .. Len(s) - 1
  BY <1>4, LenProperties
<1>6. \A i \in 1 .. Len(s) - 1 : (l \o r)[i] = IF i < k THEN s[i] ELSE s[i + 1]
  <2> SUFFICES ASSUME NEW i \in 1 .. Len(s) - 1
               PROVE  (l \o r)[i] = IF i < k THEN s[i] ELSE s[i + 1]
    OBVIOUS
  <2>1. CASE i < k
    BY <2>1, <1>2, <1>4, <1>1
  <2>2. CASE ~(i < k)
    <3>1. i - (k - 1) \in 1 .. Len(s) - k
      BY <2>2, <1>1
    <3>2. r[i - (k - 1)] = s[(i - (k - 1)) + k]
      BY <3>1, <1>3
    <3> QED
      BY <3>1, <3>2, <2>2, <1>4, <1>1
  <2> QED
    BY <2>1, <2>2, <1>1
<1> QED
  BY <1>4, <1>5, <1>6 DEF l, r

LEMMA RemoveFromLine ==
  ASSUME NEW S, NEW s \in Seq(S), NEW k \in DOMAIN s, Distinct(s)
  PROVE  LET t == SubSeq(s, 1, k - 1) \o SubSeq(s, k + 1, Len(s))
         IN  Elems(t) = Elems(s) \ {s[k]} /\ Distinct(t)
<1> DEFINE t == SubSeq(s, 1, k - 1) \o SubSeq(s, k + 1, Len(s))
<1>1. /\ DOMAIN s = 1 .. Len(s) /\ Len(s) \in Nat /\ k \in 1 .. Len(s)
  OBVIOUS
<1>2. /\ DOMAIN t = 1 .. Len(s) - 1
      /\ \A i \in 1 .. Len(s) - 1 : t[i] = IF i < k THEN s[i] ELSE s[i + 1]
  BY RemovedAt
<1> HIDE DEF t
<1>3. \A x \in Elems(t) : x \in Elems(s) \ {s[k]}
  BY <1>1, <1>2, SMTT(30) DEF Elems, Distinct
<1>4. \A x \in Elems(s) \ {s[k]} : x \in Elems(t)
  <2> SUFFICES ASSUME NEW i \in 1 .. Len(s), s[i] # s[k]
               PROVE  s[i] \in Elems(t)
    BY <1>1 DEF Elems
  <2>1. CASE i < k
    <3>1. i \in 1 .. Len(s) - 1 /\ t[i] = s[i]
      BY <1>1, <1>2, <2>1
    <3>2. QED
      BY <3>1, <1>2 DEF Elems
  <2>2. CASE i > k
    <3>1. i - 1 \in 1 .. Len(s) - 1 /\ t[i - 1] = s[i]
      BY <1>1, <1>2, <2>2
    <3>2. QED
      BY <3>1, <1>2 DEF Elems
  <2>3. QED
    BY <1>1, <2>1, <2>2
<1>5. Distinct(t)
  <2> SUFFICES ASSUME NEW i \in 1 .. Len(s) - 1, NEW j \in 1 .. Len(s) - 1, t[i] = t[j]
               PROVE  i = j
    BY <1>2 DEF Distinct
  <2> DEFINE at(n) == IF n < k THEN n ELSE n + 1
  <2>1. /\ at(i) \in 1 .. Len(s) /\ t[i] = s[at(i)]
        /\ at(j) \in 1 .. Len(s) /\ t[j] = s[at(j)]
    BY <1>1, <1>2
  <2>2. at(i) = at(j)
    BY <2>1, <1>1 DEF Distinct
  <2>3. QED
    BY <2>2, <1>1
<1>6. QED
  BY <1>3, <1>4, <1>5 DEF t

----------------------------------------------------------------------------
(* Who is in line is what the sequence holds, before a step and after it.  *)
LEMMA LineIsElems ==
  /\ InLine = Elems(waiting) /\ InLine' = Elems(waiting')
  /\ LineInv <=> /\ \A c \in InLine : turn[c] = "none" /\ pc[c] \in LineSteps /\ c \notin Applies
                 /\ Distinct(waiting)
                 /\ closed \/ ~busy => waiting = <<>>
  /\ LineInv' <=> /\ \A c \in InLine' : turn'[c] = "none" /\ pc'[c] \in LineSteps /\ c \notin Applies
                  /\ Distinct(waiting')
                  /\ closed' \/ ~busy' => waiting' = <<>>
BY DEF InLine, Elems, LineInv, Distinct

LEMMA InLineType == ASSUME TypeOK PROVE InLine \subseteq Changes
<1>1. waiting \in Seq(Changes) /\ DOMAIN waiting = 1 .. Len(waiting)
  BY DEF TypeOK
<1>2. QED
  BY <1>1, ElementOfSeq DEF InLine

(* A step of one change that leaves the queue alone and neither takes nor  *)
(* gives up the host.                                                      *)
LEMMA OwnStep ==
  ASSUME TypeOK, HostInv, NEW c \in Changes, NEW step \in Steps \ Ended,
         pc[c] \notin Ended, Goto(c, step), UNCHANGED queueVars,
         step \in HolderSteps => turn[c] = "run",
         c \in InLine => step \in LineSteps,
         \A d \in Changes : mem'[d] = "running" =>
           turn[d] = "run" /\ pc'[d] \in {"prepare", "parked", "started", "working", "finish", "fail"}
  PROVE  HostInv'
<1>1. /\ pc' = [pc EXCEPT ![c] = step]
      /\ busy' = busy /\ closed' = closed /\ waiting' = waiting
      /\ turn' = turn /\ granted' = granted
  BY DEF Goto, queueVars
<1>2. \A d \in Changes : pc'[d] = IF d = c THEN step ELSE pc[d]
  BY <1>1 DEF TypeOK
<1>3. InLine' = InLine
  BY <1>1 DEF InLine
<1>4. \A d \in Changes : HasHost(d)' <=> HasHost(d)
  BY <1>1, <1>2 DEF HasHost
<1>5. LineInv'
  BY <1>1, <1>2, <1>3, InLineType DEF LineInv, HostInv
<1>6. TicketInv'
  BY <1>1, <1>2, <1>3 DEF TicketInv, HostInv, Ended
<1>7. BusyInv' /\ OneHolder'
  BY <1>1, <1>4 DEF BusyInv, OneHolder, HostInv
<1>8. RecordInv'
  BY <1>1 DEF RecordInv
<1>9. QED
  BY <1>5, <1>6, <1>7, <1>8 DEF HostInv

(* A step that changes nothing but what the store or the process keeps.    *)
LEMMA AsideStep ==
  ASSUME HostInv, UNCHANGED <<queueVars, pc>>,
         \A d \in Changes : mem'[d] = "running" => mem[d] = "running"
  PROVE  HostInv'
BY DEF HostInv, LineInv, TicketInv, BusyInv, RecordInv, OneHolder, HasHost, InLine, queueVars

(* The end of the process takes every goroutine and the queue with it.     *)
LEMMA DieStep ==
  ASSUME TypeOK, Die
  PROVE  HostInv'
<1>1. /\ \A c \in Changes : pc'[c] \in {"new", "done", "refused", "lost"} /\ turn'[c] = "none" /\ mem'[c] = "none"
      /\ waiting' = <<>> /\ busy' = FALSE /\ closed' = FALSE /\ granted' = {}
  BY DEF Die, TypeOK, Ended
<1>2. InLine' = {}
  BY <1>1 DEF InLine
<1>3. QED
  BY <1>1, <1>2 DEF HostInv, LineInv, TicketInv, BusyInv, RecordInv, OneHolder, HasHost, Ended, HolderSteps

(* A free host that nobody waits for has no holder.                        *)
LEMMA FreeHost ==
  ASSUME HostInv, ~closed, ~busy
  PROVE  waiting = <<>> /\ \A c \in Changes : ~HasHost(c)
BY DEF HostInv, LineInv, BusyInv

LEMMA GrantStep ==
  ASSUME TypeOK, HostInv, NEW c \in Changes, NEW step \in {"ticket", "planning"},
         pc[c] = "new", ~closed, ~busy, GrantAtOnce(c, step), UNCHANGED mem
  PROVE  HostInv'
<1>1. /\ pc' = [pc EXCEPT ![c] = step] /\ turn' = [turn EXCEPT ![c] = "run"]
      /\ busy' = TRUE /\ closed' = closed /\ waiting' = waiting /\ granted' = granted \cup {c}
  BY DEF GrantAtOnce, Goto
<1>2. /\ pc'[c] = step /\ \A d \in Changes \ {c} : pc'[d] = pc[d]
      /\ turn'[c] = "run" /\ \A d \in Changes \ {c} : turn'[d] = turn[d]
  BY <1>1 DEF TypeOK
<1>3. InLine = {} /\ InLine' = {} /\ waiting = <<>>
  BY <1>1, FreeHost DEF InLine
<1>4. HasHost(c)' /\ \A d \in Changes \ {c} : ~HasHost(d)'
  BY <1>2, FreeHost DEF HasHost, Ended
<1>5. LineInv'
  BY <1>1, <1>3 DEF LineInv
<1>6. TicketInv'
  BY <1>1, <1>2, <1>3 DEF TicketInv, HostInv, Ended
<1>7. BusyInv' /\ OneHolder'
  BY <1>1, <1>4 DEF BusyInv, OneHolder
<1>8. RecordInv'
  BY <1>1, <1>2 DEF RecordInv, HostInv
<1>9. QED
  BY <1>5, <1>6, <1>7, <1>8 DEF HostInv

(* A change that is refused, or that is told it will not run, leaves       *)
(* nothing behind.                                                         *)
LEMMA LeaveStep ==
  ASSUME TypeOK, HostInv, NEW c \in Changes, NEW step \in {"refused", "done"},
         turn[c] # "run", c \notin InLine, Goto(c, step), UNCHANGED queueVars,
         \A d \in Changes : mem'[d] = "running" => mem[d] = "running"
  PROVE  HostInv'
<1>1. /\ pc' = [pc EXCEPT ![c] = step]
      /\ busy' = busy /\ closed' = closed /\ waiting' = waiting
      /\ turn' = turn /\ granted' = granted
  BY DEF Goto, queueVars
<1>2. \A d \in Changes : pc'[d] = IF d = c THEN step ELSE pc[d]
  BY <1>1 DEF TypeOK
<1>3. InLine' = InLine
  BY <1>1 DEF InLine
<1>4. \A d \in Changes : HasHost(d)' <=> HasHost(d)
  BY <1>1, <1>2 DEF HasHost, Ended
<1>5. LineInv'
  BY <1>1, <1>2, <1>3, InLineType DEF LineInv, HostInv
<1>6. TicketInv'
  BY <1>1, <1>2, <1>3 DEF TicketInv, HostInv, Ended, HolderSteps
<1>7. BusyInv' /\ OneHolder'
  BY <1>1, <1>4 DEF BusyInv, OneHolder, HostInv
<1>8. RecordInv'
  BY <1>1, <1>2 DEF RecordInv, HostInv
<1>9. QED
  BY <1>5, <1>6, <1>7, <1>8 DEF HostInv

LEMMA QueueJobStep ==
  ASSUME TypeOK, HostInv, NEW c \in Changes, QueueJob(c)
  PROVE  HostInv'
<1>1. pc[c] = "new" /\ turn[c] = "none" /\ c \notin InLine \cup Applies \cup granted /\ mem' = mem
  BY DEF QueueJob, HostInv, TicketInv, LineInv, LineSteps, jobVars
<1>2. CASE ~closed /\ ~busy /\ GrantAtOnce(c, "ticket")
  BY <1>1, <1>2, GrantStep
<1>3. CASE /\ ~closed /\ busy
           /\ waiting' = Append(waiting, c)
           /\ Goto(c, "ticket")
           /\ UNCHANGED <<busy, closed, turn, granted>>
  <2>1. /\ pc' = [pc EXCEPT ![c] = "ticket"]
        /\ \A d \in Changes : pc'[d] = IF d = c THEN "ticket" ELSE pc[d]
    BY <1>3 DEF Goto, TypeOK
  <2>2. InLine' = InLine \cup {c} /\ Distinct(waiting')
    BY <1>1, <1>3, AppendToLine, LineIsElems DEF TypeOK, HostInv
  <2>3. \A d \in Changes : HasHost(d)' <=> HasHost(d)
    BY <1>1, <1>3, <2>1 DEF HasHost
  <2>4. LineInv'
    BY <1>1, <1>3, <2>1, <2>2, InLineType, LineIsElems DEF HostInv, LineSteps
  <2>5. TicketInv'
    BY <1>1, <1>3, <2>1, <2>2 DEF TicketInv, HostInv, Ended, HolderSteps
  <2>6. BusyInv' /\ OneHolder'
    BY <1>3, <2>3 DEF BusyInv, OneHolder, HostInv
  <2>7. RecordInv'
    BY <1>1, <1>3, <2>1 DEF RecordInv, HostInv
  <2>8. QED
    BY <2>4, <2>5, <2>6, <2>7 DEF HostInv
<1>4. CASE Goto(c, "refused") /\ UNCHANGED queueVars
  BY <1>1, <1>4, LeaveStep
<1>5. QED
  BY <1>2, <1>3, <1>4 DEF QueueJob

LEMMA TryTicketStep ==
  ASSUME TypeOK, HostInv, NEW c \in Changes, TryTicket(c)
  PROVE  HostInv'
<1>1. pc[c] = "new" /\ turn[c] = "none" /\ c \notin InLine /\ mem' = mem
  BY DEF TryTicket, HostInv, TicketInv, LineInv, LineSteps, jobVars
<1>2. CASE closed \/ busy \/ waiting # <<>>
  BY <1>1, <1>2, LeaveStep DEF TryTicket
<1>3. CASE ~closed /\ ~busy /\ waiting = <<>>
  <2>1. PICK step \in {"ticket", "planning"} : GrantAtOnce(c, step)
    BY <1>3 DEF TryTicket
  <2>2. QED
    BY <1>1, <1>3, <2>1, GrantStep
<1>4. QED
  BY <1>2, <1>3 DEF TypeOK

LEMMA CreateStep ==
  ASSUME TypeOK, NEW c \in Changes, Create(c)
  PROVE  \A d \in Changes : mem'[d] = "running" => mem[d] = "running" /\ d # c
BY DEF Create, Without, TypeOK

LEMMA UpdateStep ==
  ASSUME TypeOK, NEW c \in Changes, NEW status \in Statuses, Update(c, status)
  PROVE  \A d \in Changes : mem'[d] = IF d = c THEN status ELSE mem[d]
BY DEF Update, TypeOK

(* What launch and its goroutine do of their own.                          *)
LEMMA LaunchStep ==
  ASSUME TypeOK, HostInv, NEW c \in Changes,
         Planned(c) \/ CreateQueued(c) \/ StartGranted(c) \/ Prepare(c)
  PROVE  HostInv'
<1>1. /\ UNCHANGED queueVars
      /\ pc[c] \in {"planning", "ticket", "recorded", "prepare"}
  BY DEF Planned, CreateQueued, StartGranted, Prepare
<1>2. /\ c \in InLine => pc[c] \in LineSteps
      /\ pc[c] \in HolderSteps => turn[c] = "run" /\ c \notin InLine
      /\ c \in granted \cup Applies => turn[c] = "run" /\ c \notin InLine
      /\ \A d \in Changes : mem[d] = "running" =>
           turn[d] = "run" /\ pc[d] \in {"prepare", "parked", "started", "working", "finish", "fail"}
  BY <1>1, InLineType DEF HostInv, LineInv, TicketInv, RecordInv, LineSteps, HolderSteps, Ended
<1>3. ASSUME NEW step \in Steps, Goto(c, step)
      PROVE  \A d \in Changes : pc'[d] = IF d = c THEN step ELSE pc[d]
  BY <1>3 DEF Goto, TypeOK
<1>4. CASE Planned(c)
  <2>1. PICK step \in {"ticket", "release"} : Goto(c, step)
    BY <1>4 DEF Planned
  <2>2. mem' = mem /\ pc[c] = "planning"
    BY <1>4 DEF Planned, jobVars
  <2>3. QED
    BY <1>1, <1>2, <1>3, <2>1, <2>2, OwnStep DEF Steps, Ended, HolderSteps, LineSteps
<1>5. CASE CreateQueued(c)
  <2>1. PICK step \in {"recorded", "abandon"} : Goto(c, step)
    BY <1>5 DEF CreateQueued
  <2>2. pc[c] = "ticket" /\ (Create(c) \/ mem' = mem)
    BY <1>5 DEF CreateQueued, jobVars
  <2>3. \A d \in Changes : mem'[d] = "running" => mem[d] = "running"
    BY <2>2, CreateStep
  <2>4. QED
    BY <1>1, <1>2, <1>3, <2>1, <2>2, <2>3, OwnStep DEF Steps, Ended, HolderSteps, LineSteps
<1>6. CASE StartGranted(c)
  <2>1. PICK step \in {"prepare", "parked"} : Goto(c, step) /\ (step = "prepare" => c \in Applies)
    BY <1>6 DEF StartGranted
  <2>2. pc[c] = "recorded"
    BY <1>6 DEF StartGranted
  <2>3. \A d \in Changes : mem'[d] = "running" => mem[d] = "running" \/ (d = c /\ c \in granted)
    <3>1. CASE c \in granted
      <4>1. Update(c, "running") /\ "running" \in Statuses
        BY <1>6, <3>1 DEF StartGranted, Statuses
      <4>2. QED
        BY <3>1, <4>1, UpdateStep
    <3>2. CASE c \notin granted
      BY <1>6, <3>2 DEF StartGranted, jobVars
    <3>3. QED
      BY <3>1, <3>2
  <2>4. \A d \in Changes : mem'[d] = "running" =>
           turn[d] = "run" /\ pc'[d] \in {"prepare", "parked", "started", "working", "finish", "fail"}
    BY <1>2, <1>3, <2>1, <2>3 DEF Steps
  <2>5. QED
    BY <1>1, <1>2, <2>1, <2>2, <2>4, OwnStep DEF Steps, Ended, HolderSteps, LineSteps
<1>7. CASE Prepare(c)
  <2>1. PICK step \in {"parked", "fail"} : Goto(c, step)
    BY <1>7 DEF Prepare
  <2>2. mem' = mem /\ pc[c] = "prepare"
    BY <1>7 DEF Prepare, jobVars
  <2>3. QED
    BY <1>1, <1>2, <1>3, <2>1, <2>2, OwnStep DEF Steps, Ended, HolderSteps, LineSteps
<1>8. QED
  BY <1>4, <1>5, <1>6, <1>7

LEMMA WorkStep ==
  ASSUME TypeOK, HostInv, NEW c \in Changes,
         Receive(c) \/ BeginWork(c) \/ EndWork(c) \/ Finish(c)
  PROVE  HostInv'
<1>1. /\ UNCHANGED queueVars
      /\ pc[c] \in {"parked", "started", "working", "finish", "fail"}
  BY DEF Receive, BeginWork, EndWork, Finish
<1>2. /\ turn[c] # "none" => c \notin InLine
      /\ pc[c] \in HolderSteps => turn[c] = "run"
      /\ \A d \in Changes : mem[d] = "running" =>
           turn[d] = "run" /\ pc[d] \in {"prepare", "parked", "started", "working", "finish", "fail"}
  BY DEF HostInv, LineInv, TicketInv, RecordInv
<1>3. ASSUME NEW step \in Steps, Goto(c, step)
      PROVE  \A d \in Changes : pc'[d] = IF d = c THEN step ELSE pc[d]
  BY <1>3 DEF Goto, TypeOK
<1>4. "running" \in Statuses /\ "notstarted" \in Statuses /\ "succeeded" \in Statuses /\ "failed" \in Statuses
  BY DEF Statuses
<1>5. CASE Receive(c) /\ turn[c] = "run"
  <2>1. Goto(c, "started") /\ (Update(c, "running") \/ mem' = mem)
    BY <1>5 DEF Receive, jobVars
  <2>2. \A d \in Changes : mem'[d] = "running" => mem[d] = "running" \/ d = c
    BY <1>4, <2>1, UpdateStep
  <2>3. "started" \in Steps \ Ended
    BY DEF Steps, Ended
  <2>4. \A d \in Changes : mem'[d] = "running" =>
           turn[d] = "run" /\ pc'[d] \in {"prepare", "parked", "started", "working", "finish", "fail"}
    BY <1>2, <1>3, <1>5, <2>1, <2>2, <2>3
  <2>5. QED
    BY <1>1, <1>2, <1>5, <2>1, <2>3, <2>4, OwnStep DEF Ended
<1>6. CASE Receive(c) /\ turn[c] = "stop"
  <2>1. Goto(c, "done") /\ Update(c, "notstarted")
    BY <1>6 DEF Receive
  <2>2. \A d \in Changes : mem'[d] = "running" => mem[d] = "running"
    BY <1>4, <2>1, UpdateStep
  <2>3. QED
    BY <1>1, <1>2, <1>6, <2>1, <2>2, LeaveStep
<1>7. CASE BeginWork(c) \/ EndWork(c)
  <2>1. PICK step \in {"working", "finish", "fail"} : Goto(c, step)
    BY <1>7 DEF BeginWork, EndWork
  <2>2. mem' = mem /\ pc[c] \in HolderSteps
    BY <1>7 DEF BeginWork, EndWork, jobVars, HolderSteps
  <2>3. QED
    BY <1>1, <1>2, <1>3, <2>1, <2>2, OwnStep DEF Steps, Ended
<1>8. CASE Finish(c)
  <2>1. PICK status \in {"succeeded", "failed"} : Update(c, status)
    BY <1>8 DEF Finish
  <2>2. Goto(c, "release") /\ pc[c] \in HolderSteps
    BY <1>8 DEF Finish, HolderSteps
  <2>3. \A d \in Changes : mem'[d] = "running" => mem[d] = "running" /\ d # c
    BY <1>4, <2>1, UpdateStep
  <2>4. "release" \in Steps \ Ended /\ "release" \notin HolderSteps
    BY DEF Steps, Ended, HolderSteps
  <2>5. QED
    BY <1>1, <1>2, <1>3, <2>2, <2>3, <2>4, OwnStep DEF Ended
<1>9. QED
  BY <1>5, <1>6, <1>7, <1>8 DEF Receive

LEMMA AbandonStep ==
  ASSUME TypeOK, HostInv, NEW c \in Changes, Abandon(c)
  PROVE  HostInv'
<1>1. /\ pc[c] = "abandon" /\ mem' = mem
      /\ busy' = busy /\ closed' = closed /\ turn' = turn /\ granted' = granted
  BY DEF Abandon, jobVars
<1>2. CASE c \in InLine
  <2>1. PICK k \in DOMAIN waiting :
          /\ waiting[k] = c
          /\ waiting' = SubSeq(waiting, 1, k - 1) \o SubSeq(waiting, k + 1, Len(waiting))
          /\ Goto(c, "refused")
    BY <1>2 DEF Abandon
  <2>2. \A d \in Changes : pc'[d] = IF d = c THEN "refused" ELSE pc[d]
    BY <2>1 DEF Goto, TypeOK
  <2>3. InLine' = InLine \ {c} /\ Distinct(waiting')
    BY <2>1, RemoveFromLine, LineIsElems DEF TypeOK, HostInv
  <2>4. turn[c] = "none" /\ ~(closed \/ ~busy)
    <3>1. waiting # <<>>
      BY <2>1 DEF TypeOK
    <3>2. QED
      BY <1>2, <3>1 DEF HostInv, LineInv
  <2>5. \A d \in Changes : HasHost(d)' <=> HasHost(d)
    BY <1>1, <2>2, <2>4 DEF HasHost
  <2>6. LineInv'
    BY <1>1, <2>2, <2>3, <2>4, InLineType, LineIsElems DEF HostInv
  <2>7. TicketInv'
    BY <1>1, <2>2, <2>3 DEF TicketInv, HostInv, Ended, HolderSteps
  <2>8. BusyInv' /\ OneHolder'
    BY <1>1, <2>5 DEF BusyInv, OneHolder, HostInv
  <2>9. RecordInv'
    BY <1>1, <2>2, <2>4 DEF RecordInv, HostInv
  <2>10. QED
    BY <2>6, <2>7, <2>8, <2>9 DEF HostInv
<1>3. CASE c \notin InLine
  <2>1. waiting' = waiting /\ Goto(c, "release")
    BY <1>3 DEF Abandon, InLine
  <2>2. "release" \in Steps \ Ended /\ "release" \notin HolderSteps
    BY DEF Steps, Ended, HolderSteps
  <2>3. \A d \in Changes : mem'[d] = "running" =>
          turn[d] = "run" /\ pc'[d] \in {"prepare", "parked", "started", "working", "finish", "fail"}
    BY <1>1, <2>1 DEF HostInv, RecordInv, Goto, TypeOK
  <2>4. QED
    BY <1>1, <1>3, <2>1, <2>2, <2>3, OwnStep DEF Ended, queueVars
<1>4. QED
  BY <1>2, <1>3

(* Whoever releases has the host, or was told to stop while it had only a  *)
(* place in line.                                                          *)
LEMMA WhoReleases ==
  ASSUME TypeOK, HostInv, NEW c \in Changes, pc[c] = "release"
  PROVE  /\ c \notin InLine
         /\ mem[c] # "running"
         /\ HasHost(c) \/ (turn[c] = "stop" /\ closed)
<1>1. c \notin InLine
  BY DEF HostInv, LineInv, LineSteps
<1>2. turn[c] # "none"
  BY <1>1 DEF HostInv, TicketInv, Ended
<1>3. turn[c] \in {"none", "run", "stop"}
  BY DEF TypeOK
<1>4. QED
  BY <1>1, <1>2, <1>3 DEF HasHost, Ended, HostInv, TicketInv, RecordInv

LEMMA ReleaseStep ==
  ASSUME TypeOK, HostInv, NEW c \in Changes, Release(c)
  PROVE  HostInv'
<1>1. /\ pc[c] = "release" /\ mem' = mem
      /\ closed' = closed /\ granted' = granted
      /\ \A d \in Changes : pc'[d] = IF d = c THEN "done" ELSE pc[d]
  BY DEF Release, jobVars, Goto, TypeOK
<1>3. CASE (closed \/ waiting = <<>>) /\ busy' = FALSE /\ UNCHANGED <<waiting, turn>>
  <2>1. waiting = <<>>
    BY <1>3 DEF HostInv, LineInv
  <2>2. InLine' = {} /\ InLine = {} /\ waiting' = <<>>
    BY <1>3, <2>1 DEF InLine
  <2>3. \A d \in Changes : HasHost(d)' => HasHost(d) /\ d # c
    BY <1>1, <1>3 DEF HasHost, Ended
  <2>4. LineInv'
    BY <2>2 DEF LineInv
  <2>5. TicketInv'
    BY <1>1, <1>3, <2>2 DEF TicketInv, HostInv, Ended, HolderSteps
  <2>6. OneHolder'
    BY <2>3 DEF OneHolder, HostInv
  <2>7. BusyInv'
    BY <1>1, <1>3, <2>3, WhoReleases DEF BusyInv, OneHolder, HostInv
  <2>8. RecordInv'
    BY <1>1, <1>3, WhoReleases DEF RecordInv, HostInv
  <2>9. QED
    BY <2>4, <2>5, <2>6, <2>7, <2>8 DEF HostInv
<1>4. CASE /\ ~closed /\ waiting # <<>>
           /\ turn' = [turn EXCEPT ![Head(waiting)] = "run"]
           /\ waiting' = Tail(waiting)
           /\ busy' = busy
  <2> DEFINE h == Head(waiting)
  <2>1. InLine' = InLine \ {h} /\ Distinct(waiting') /\ h \in InLine
    BY <1>4, TailOfLine, LineIsElems DEF TypeOK, HostInv
  <2>2. /\ h \in Changes /\ turn[h] = "none" /\ pc[h] \in LineSteps /\ h # c /\ busy
    BY <1>1, <1>4, <2>1, InLineType DEF HostInv, LineInv, LineSteps
  <2> HIDE DEF h
  <2>3. \A d \in Changes : turn'[d] = IF d = h THEN "run" ELSE turn[d]
    BY <1>4 DEF h, TypeOK
  <2>4. HasHost(c) /\ \A d \in Changes : HasHost(d) => d = c
    BY <1>1, <1>4, WhoReleases DEF HostInv, OneHolder
  <2>5. \A d \in Changes : HasHost(d)' <=> d = h
    BY <1>1, <2>2, <2>3, <2>4 DEF HasHost, Ended, LineSteps
  <2>6. LineInv'
    BY <1>1, <1>4, <2>1, <2>2, <2>3, InLineType, LineIsElems, WhoReleases DEF HostInv
  <2>7. TicketInv'
    BY <1>1, <2>1, <2>2, <2>3 DEF TicketInv, HostInv, Ended, HolderSteps, LineSteps
  <2>8. BusyInv' /\ OneHolder'
    BY <1>4, <2>2, <2>5 DEF BusyInv, OneHolder
  <2>9. RecordInv'
    BY <1>1, <2>3, WhoReleases DEF RecordInv, HostInv
  <2>10. QED
    BY <2>6, <2>7, <2>8, <2>9 DEF HostInv
<1>5. QED
  BY <1>3, <1>4 DEF Release

LEMMA CloseStep ==
  ASSUME TypeOK, HostInv, CloseQueue
  PROVE  HostInv'
<1>1. /\ closed' = TRUE /\ waiting' = <<>>
      /\ busy' = busy /\ granted' = granted /\ pc' = pc /\ mem' = mem
      /\ \A d \in Changes : turn'[d] = IF d \in InLine THEN "stop" ELSE turn[d]
  BY DEF CloseQueue, jobVars
<1>2. InLine' = {}
  BY <1>1 DEF InLine
<1>3. \A d \in Changes : d \in InLine => turn[d] = "none" /\ pc[d] \in LineSteps /\ d \notin Applies
  BY DEF HostInv, LineInv
<1>4. \A d \in Changes : HasHost(d)' <=> HasHost(d)
  BY <1>1, <1>3 DEF HasHost
<1>5. LineInv'
  BY <1>1, <1>2 DEF LineInv
<1>6. TicketInv'
  BY <1>1, <1>2, <1>3 DEF TicketInv, HostInv, Ended, HolderSteps, LineSteps
<1>7. BusyInv' /\ OneHolder'
  BY <1>1, <1>4 DEF BusyInv, OneHolder, HostInv
<1>8. RecordInv'
  BY <1>1, <1>3 DEF RecordInv, HostInv
<1>9. QED
  BY <1>5, <1>6, <1>7, <1>8 DEF HostInv

LEMMA HostStep ==
  ASSUME TypeOK, HostInv, [Next]_vars
  PROVE  HostInv'
<1>1. ASSUME NEW c \in Changes, Job(c)
      PROVE  HostInv'
  BY <1>1, QueueJobStep, TryTicketStep, LaunchStep, WorkStep, AbandonStep, ReleaseStep DEF Job
<1>2. ASSUME NEW c \in Changes, Client(c)
      PROVE  HostInv'
  BY <1>2, AsideStep DEF Client, Poll, PollEnds, jobVars
<1>3. CASE Stop \/ ShutdownReturns
  BY <1>3, AsideStep DEF Stop, ShutdownReturns, jobVars
<1>4. CASE ShutdownTimesOut \/ Drained \/ DrainExpires \/ Crash
  BY <1>4, DieStep DEF ShutdownTimesOut, Drained, DrainExpires, Crash
<1>5. CASE Restart
  <2>1. \A c \in Changes : Reopened(disk[c]) # "running"
    BY DEF Reopened, TypeOK
  <2>2. \A c \in Changes : mem'[c] # "running"
    BY <1>5, <2>1 DEF Restart, Without
  <2>3. QED
    BY <1>5, <2>2, AsideStep DEF Restart
<1>6. CASE UNCHANGED vars
  BY <1>6, AsideStep DEF vars, queueVars
<1>7. QED
  BY <1>1, <1>2, <1>3, <1>4, <1>5, <1>6, CloseStep DEF Next, Process

(* Why one change has the host at a time: the queue's own bookkeeping never*)
(* disagrees with what the tickets were told.                              *)
THEOREM HostCorrect == Spec => []HostInv
<1>1. Init => HostInv
  <2> SUFFICES ASSUME Init
               PROVE  HostInv
    OBVIOUS
  <2>1. /\ \A c \in Changes : pc[c] = "new" /\ turn[c] = "none" /\ mem[c] = "none"
        /\ waiting = <<>> /\ granted = {} /\ busy = FALSE /\ closed = FALSE
    BY DEF Init
  <2>2. InLine = {}
    BY <2>1 DEF InLine
  <2>3. QED
    BY <2>1, <2>2 DEF HostInv, LineInv, TicketInv, BusyInv, RecordInv, OneHolder, HasHost, Ended, HolderSteps
<1>2. TypeOK /\ HostInv /\ [Next]_vars => HostInv'
  BY HostStep
<1>3. QED
  BY <1>1, <1>2, TypeCorrect, PTL DEF Spec

(* Two changes never have the host at once, whatever order enqueue,        *)
(* tryTicket, abandon, release and close run in.                           *)
THEOREM OneHolderAlways == Spec => []OneHolder
<1>1. HostInv => OneHolder
  BY DEF HostInv
<1>2. QED
  BY <1>1, HostCorrect, PTL

(* Only the job that has the host is recorded as running.                  *)
THEOREM RunningHasHostAlways == Spec => []RunningHasHost
<1>1. HostInv => RunningHasHost
  BY DEF HostInv, RecordInv, RunningHasHost, HasHost, Ended
<1>2. QED
  BY <1>1, HostCorrect, PTL

(* A goroutine that waits for its turn is in line or was answered, and     *)
(* somebody who will release the host is ahead of every line.              *)
THEOREM NobodyForgottenEver == Spec => []NobodyForgotten
<1>1. HostInv /\ TypeOK => NobodyForgotten
  BY DEF HostInv, LineInv, TicketInv, BusyInv, NobodyForgotten, Ended, TypeOK
<1>2. QED
  BY <1>1, HostCorrect, TypeCorrect, PTL

----------------------------------------------------------------------------
(* The store never forgets what ended last.                                *)

(* A record as the store holds it, or would read it.                       *)
Rec(c) == IF Alive THEN mem[c] ELSE disk[c]

Over      == {"succeeded", "failed", "interrupted"}
Unstarted == {"queued", "notstarted"}

(* Who holds the host, waits for it, or was told that it will not run.     *)
Now == InLine \cup {c \in Changes : HasHost(c)} \cup {c \in Changes : turn[c] = "stop"}

(* What is newer than c's record: jobs that were ahead of it and recorded  *)
(* after it, and jobs of daemons before this one that never started.       *)
Late(c)   == {d \in Changes : Rec(d) \in Over /\ born[d] > born[c]}
Before(c) == {d \in Changes : d \notin Now /\ Rec(d) \in Unstarted /\ born[d] > born[c]}

(* How many daemons there were before this one, or up to it if it is gone. *)
Lives == IF phase \in {"serving", "down"} THEN stops ELSE stops - 1
Room  == Lives * (MaxQueued + 1)

SavedInv ==
  /\ ~DiskFaults /\ Alive => disk = mem
  /\ MaxStops = 0 => phase = "serving"
  /\ stops <= MaxStops
  /\ phase \notin {"serving", "down"} => stops > 0
  /\ ~Alive => /\ \A c \in Changes : pc[c] \in Ended /\ turn[c] = "none"
               /\ waiting = <<>> /\ granted = {}

(* What a record says at each step of its change.                          *)
StepInv ==
  \A c \in Changes :
    /\ pc[c] \in {"new", "planning", "ticket", "abandon"} => Rec(c) = "none" /\ born[c] = 0
    /\ pc[c] = "prepare" \/ (c \in Applies /\ pc[c] \notin Ended) => c \in granted
    /\ Alive =>
         /\ pc[c] = "recorded" => mem[c] = "queued"
         /\ pc[c] \in {"prepare", "started", "working", "finish", "fail"} => mem[c] = "running"
         /\ pc[c] = "parked" => mem[c] = IF c \in granted THEN "running" ELSE "queued"
         /\ pc[c] = "release" => mem[c] \in {"none", "succeeded", "failed"}
         /\ pc[c] \in {"done", "refused", "lost"} => mem[c] \notin Pending

RankInv == \A d \in Changes : born[d] <= Cardinality({e \in Changes : born[e] > 0})

LengthInv ==
  /\ Len(waiting) <= MaxQueued
  /\ Cardinality({c \in Changes : turn[c] = "stop"}) <= MaxQueued

(* Of who is i-th in line at most MaxQueued - i were ahead of it and have  *)
(* ended, and one more once the holder has.                                *)
Passed == IF \E h \in Changes : HasHost(h) /\ pc[h] # "release" THEN 0 ELSE 1
AheadInv ==
  /\ \A i \in DOMAIN waiting, c \in Changes :
       waiting[i] = c /\ Rec(c) # "none" => Cardinality(Late(c)) + i <= MaxQueued + Passed
  /\ \A c \in Changes :
       HasHost(c) /\ Rec(c) \in Pending => Cardinality(Late(c)) <= MaxQueued
  /\ Alive => \A c \in Changes : mem[c] \in Pending => Before(c) = {}

(* The last that ended, and the one that a restart will find cut off.      *)
Heads == lastEnded \cup {c \in Changes : ~Alive /\ disk[c] = "running"}
HeadsInv ==
  /\ \A c \in Heads : Cardinality(Late(c)) <= MaxQueued /\ Cardinality(Before(c)) <= Room
  /\ \A c \in lastEnded : Rec(c) \in Over
  /\ ~Alive => \A c, d \in Changes : disk[c] = "running" /\ disk[d] = "running" => c = d

KeepInv == SavedInv /\ StepInv /\ RankInv /\ LengthInv /\ AheadInv /\ HeadsInv

(* Records are written, or nothing is ever read back.                      *)
Written == ~DiskFaults \/ MaxStops = 0

(* And there is room for what can be newer.                                *)
RoomEnough == Written /\ KeepJobs >= 2 * MaxQueued + 2 + MaxStops * (MaxQueued + 1)

(* How many there can be.                                                  *)
LEMMA CountType ==
  ASSUME NEW S \in SUBSET Changes
  PROVE  IsFiniteSet(S) /\ Cardinality(S) \in Nat
BY QueueAssumption, FS_Subset, FS_CardinalityType

LEMMA CountLess ==
  ASSUME NEW S \in SUBSET Changes, NEW T \in SUBSET S
  PROVE  Cardinality(T) <= Cardinality(S)
<1>1. IsFiniteSet(S)
  BY CountType
<1> QED
  BY ONLY <1>1, FS_Subset

LEMMA CountBoth ==
  ASSUME NEW S \in SUBSET Changes, NEW T \in SUBSET Changes
  PROVE  Cardinality(S \cup T) <= Cardinality(S) + Cardinality(T)
<1>1. IsFiniteSet(S) /\ IsFiniteSet(T) /\ IsFiniteSet(S \cap T)
  BY CountType
<1>2. Cardinality(S \cap T) \in Nat /\ Cardinality(S) \in Nat /\ Cardinality(T) \in Nat
  BY <1>1, FS_CardinalityType
<1>3. Cardinality(S \cup T) = Cardinality(S) + Cardinality(T) - Cardinality(S \cap T)
  BY <1>1, FS_Union
<1> QED
  BY <1>2, <1>3

LEMMA CountOne ==
  ASSUME NEW S \in SUBSET Changes, \A x, y \in S : x = y
  PROVE  Cardinality(S) <= 1
<1>1. CASE S = {}
  BY <1>1, FS_EmptySet
<1>2. CASE S # {}
  <2>1. PICK x : S = {x}
    BY <1>2
  <2> QED
    BY <2>1, FS_Singleton
<1> QED
  BY <1>1, <1>2

LEMMA CountLine ==
  ASSUME NEW s \in Seq(Changes)
  PROVE  Elems(s) \in SUBSET Changes /\ Cardinality(Elems(s)) <= Len(s)
<1>1. Len(s) \in Nat /\ DOMAIN s = 1 .. Len(s) /\ \A i \in 1 .. Len(s) : s[i] \in Changes
  BY ElementOfSeq, LenProperties
<1>2. Elems(s) \in SUBSET Changes
  BY <1>1 DEF Elems
<1>3. s \in Surjection(1 .. Len(s), Elems(s))
  BY <1>1 DEF Surjection, Elems
<1>4. ExistsSurjection(1 .. Len(s), Elems(s))
  BY <1>3 DEF ExistsSurjection
<1> QED
  BY <1>1, <1>2, <1>4, FS_SurjCardinalityBound

(* One daemon has at most so many in hand.                                 *)
LEMMA NowCount ==
  ASSUME TypeOK, HostInv, LengthInv
  PROVE  Now \in SUBSET Changes /\ Cardinality(Now) <= MaxQueued + 1
<1> DEFINE held == {c \in Changes : HasHost(c)}
           told == {c \in Changes : turn[c] = "stop"}
<1>1. InLine = Elems(waiting) /\ waiting \in Seq(Changes) /\ Len(waiting) \in Nat
  BY LineIsElems DEF TypeOK
<1>2. InLine \in SUBSET Changes /\ Cardinality(InLine) <= Len(waiting)
  BY <1>1, CountLine
<1>3. Cardinality(held) <= 1
  BY CountOne DEF HostInv, OneHolder
<1>4. /\ Cardinality(InLine) \in Nat /\ Cardinality(held) \in Nat /\ Cardinality(told) \in Nat
      /\ Cardinality(InLine \cup told) \in Nat
  BY <1>2, CountType
<1>5. Cardinality(InLine \cup told) <= MaxQueued
  <2>1. CASE closed
    <3>1. InLine = {}
      BY <2>1 DEF HostInv, LineInv, InLine
    <3> QED
      BY <3>1 DEF LengthInv
  <2>2. CASE ~closed
    <3>1. told = {}
      BY <2>2 DEF HostInv, TicketInv
    <3>2. InLine \cup told = InLine
      BY <3>1
    <3>3. Cardinality(InLine \cup told) = Cardinality(InLine) /\ Len(waiting) <= MaxQueued
      BY <3>2 DEF LengthInv
    <3> HIDE DEF told
    <3> QED
      BY <1>1, <1>2, <1>4, <3>3, QueueAssumption
  <2> QED
    BY <2>1, <2>2
<1>6. Now = (InLine \cup told) \cup held
  BY DEF Now
<1>7. Cardinality(Now) <= Cardinality(InLine \cup told) + Cardinality(held) /\ Now \in SUBSET Changes
  BY <1>2, <1>6, CountBoth
<1>8. Cardinality(Now) \in Nat
  BY <1>7, CountType
<1> QED
  BY <1>3, <1>4, <1>5, <1>7, <1>8, QueueAssumption

LEMMA RoomType ==
  ASSUME TypeOK, SavedInv
  PROVE  /\ Lives \in Nat /\ Lives <= MaxStops /\ Room \in Nat
         /\ Room <= MaxStops * (MaxQueued + 1)
<1>1. Lives \in Nat /\ Lives <= MaxStops /\ MaxStops \in Nat /\ MaxQueued + 1 \in Nat
  BY QueueAssumption DEF TypeOK, SavedInv, Lives, Phases
<1>2. \A l, m, k \in Nat : l <= m => l * k \in Nat /\ l * k <= m * k
  <2> TAKE l, m, k \in Nat
  <2> HAVE l <= m
  <2>1. PICK e \in Nat : m = l + e
    <3>1. m - l \in Nat /\ m = l + (m - l)
      OBVIOUS
    <3> QED
      BY <3>1
  <2>2. m * k = l * k + e * k /\ e * k \in Nat /\ l * k \in Nat
    BY <2>1
  <2> QED
    BY <2>2
<1> QED
  BY <1>1, <1>2 DEF Room

(* What the steps do to what is newer than a record: nothing but Finish and*)
(* a restart ends a job, and only the daemon's death leaves one behind.    *)
NoneEnds == \A d \in Changes : Rec(d)' \in Over => Rec(d) \in Over
NoneLeft == \A d \in Changes : d \notin Now' /\ Rec(d)' \in Unstarted => d \notin Now /\ Rec(d) \in Unstarted
OwnRank  == \A d \in Changes : born'[d] = born[d] \/ (Rec(d)' = "queued" /\ Rec(d) = "none" /\ d \in Now')

LEMMA LateType == ASSUME NEW c PROVE Late(c) \in SUBSET Changes /\ Before(c) \in SUBSET Changes
BY DEF Late, Before

LEMMA LateKept ==
  ASSUME NEW c \in Changes, OwnRank, NoneEnds, born'[c] = born[c]
  PROVE  Late(c)' \in SUBSET Late(c)
BY DEF Late, OwnRank, NoneEnds, Over

LEMMA BeforeKept ==
  ASSUME NEW c \in Changes, OwnRank, NoneLeft, born'[c] = born[c]
  PROVE  Before(c)' \in SUBSET Before(c)
BY DEF Before, OwnRank, NoneLeft, Unstarted

LEMMA LateLess ==
  ASSUME NEW c \in Changes, OwnRank, NoneEnds, born'[c] = born[c]
  PROVE  Cardinality(Late(c)') <= Cardinality(Late(c)) /\ Cardinality(Late(c)') \in Nat /\ Cardinality(Late(c)) \in Nat
<1>1. Late(c) \in SUBSET Changes /\ Late(c)' \in SUBSET Late(c)
  BY LateType, LateKept
<1> QED
  BY <1>1, CountLess, CountType

LEMMA BeforeLess ==
  ASSUME NEW c \in Changes, OwnRank, NoneLeft, born'[c] = born[c]
  PROVE  /\ Cardinality(Before(c)') <= Cardinality(Before(c)) /\ Cardinality(Before(c)') \in Nat
         /\ Cardinality(Before(c)) \in Nat
<1>1. Before(c) \in SUBSET Changes /\ Before(c)' \in SUBSET Before(c)
  BY LateType, BeforeKept
<1> QED
  BY <1>1, CountLess, CountType

LEMMA PassedType == Passed \in {0, 1} /\ Passed' \in {0, 1}
BY DEF Passed

(* Each that is in line, or has the host, was so before, or is new.        *)
LineMoves ==
  /\ \A i \in DOMAIN waiting', c \in Changes : waiting'[i] = c /\ Rec(c)' # "none" =>
       \/ Rec(c) # "none" /\ \E j \in DOMAIN waiting : waiting[j] = c /\ i - Passed' <= j - Passed
       \/ Late(c)' = {} /\ i <= MaxQueued
  /\ \A c \in Changes : HasHost(c)' /\ Rec(c)' \in Pending =>
       \/ HasHost(c) /\ Rec(c) \in Pending
       \/ Rec(c) # "none" /\ Passed = 1 /\ waiting # <<>> /\ waiting[1] = c
       \/ Late(c)' = {}
  /\ \A c \in Changes : mem'[c] \in Pending => mem[c] \in Pending \/ Before(c)' = {}

LEMMA AheadKept ==
  ASSUME TypeOK, TypeOK', Alive, Alive', AheadInv, OwnRank, NoneEnds, NoneLeft, LineMoves
  PROVE  AheadInv'
<1>0. /\ Passed \in {0, 1} /\ Passed' \in {0, 1} /\ MaxQueued \in Nat
      /\ \A i \in DOMAIN waiting : waiting[i] \in Changes /\ i \in Nat
      /\ \A i \in DOMAIN waiting' : waiting'[i] \in Changes /\ i \in Nat
      /\ Cardinality({}) = 0
  BY PassedType, QueueAssumption, FS_EmptySet DEF TypeOK
<1>1. ASSUME NEW i \in DOMAIN waiting', NEW c \in Changes, waiting'[i] = c, Rec(c)' # "none"
      PROVE  Cardinality(Late(c)') + i <= MaxQueued + Passed'
  <2>1. CASE Late(c)' = {} /\ i <= MaxQueued
    BY <1>0, <2>1
  <2>2. ASSUME NEW j \in DOMAIN waiting, waiting[j] = c, Rec(c) # "none", i - Passed' <= j - Passed
        PROVE  Cardinality(Late(c)') + i <= MaxQueued + Passed'
    <3>1. born'[c] = born[c]
      BY <2>2 DEF OwnRank
    <3>2. /\ Cardinality(Late(c)') <= Cardinality(Late(c))
          /\ Cardinality(Late(c)') \in Nat /\ Cardinality(Late(c)) \in Nat
      BY <3>1, LateLess
    <3>3. Cardinality(Late(c)) + j <= MaxQueued + Passed
      BY <2>2 DEF AheadInv
    <3>4. i \in Nat /\ j \in Nat
      BY <1>0
    <3> QED
      BY <1>0, <2>2, <3>2, <3>3, <3>4
  <2> QED
    BY <1>1, <2>1, <2>2 DEF LineMoves
<1>2. ASSUME NEW c \in Changes, HasHost(c)', Rec(c)' \in Pending
      PROVE  Cardinality(Late(c)') <= MaxQueued
  <2>1. CASE Late(c)' = {}
    BY <1>0, <2>1
  <2>2. CASE Rec(c) # "none" /\ Cardinality(Late(c)) <= MaxQueued
    <3>1. born'[c] = born[c]
      BY <2>2 DEF OwnRank
    <3> QED
      BY <1>0, <2>2, <3>1, LateLess
  <2>3. CASE HasHost(c) /\ Rec(c) \in Pending
    BY <2>2, <2>3 DEF AheadInv, Pending
  <2>4. ASSUME waiting # <<>>, waiting[1] = c, Rec(c) # "none", Passed = 1
        PROVE  Cardinality(Late(c)) <= MaxQueued
    <3>1. 1 \in DOMAIN waiting
      BY <2>4 DEF TypeOK
    <3>2. Cardinality(Late(c)) + 1 <= MaxQueued + 1
      BY <2>4, <3>1 DEF AheadInv
    <3>3. Cardinality(Late(c)) \in Nat
      BY LateType, CountType
    <3> QED
      BY <1>0, <3>2, <3>3
  <2> QED
    BY <1>2, <2>1, <2>2, <2>3, <2>4 DEF LineMoves
<1>3. ASSUME NEW c \in Changes, mem'[c] \in Pending
      PROVE  Before(c)' = {}
  <2>1. CASE Before(c)' = {}
    BY <2>1
  <2>2. CASE mem[c] \in Pending
    <3>1. born'[c] = born[c]
      BY <2>2 DEF OwnRank, Rec, Pending
    <3> QED
      BY <2>2, <3>1, BeforeKept DEF AheadInv
  <2> QED
    BY <1>3, <2>1, <2>2 DEF LineMoves
<1> QED
  BY <1>1, <1>2, <1>3 DEF AheadInv

LEMMA HeadsKept ==
  ASSUME TypeOK, TypeOK', Alive, Alive', HeadsInv, SavedInv, SavedInv', OwnRank, NoneEnds, NoneLeft, Lives' = Lives,
         lastEnded' = lastEnded, \A c \in lastEnded : Rec(c)' \in Over
  PROVE  HeadsInv'
<1>1. Room \in Nat /\ Room' = Room
  BY RoomType DEF Room
<1>2. ASSUME NEW c \in lastEnded
      PROVE  Cardinality(Late(c)') <= MaxQueued /\ Cardinality(Before(c)') <= Room
  <2>1. c \in Changes /\ Rec(c) \in Over
    BY DEF TypeOK, HeadsInv
  <2>2. born'[c] = born[c]
    BY <2>1 DEF OwnRank, Over
  <2>3. Cardinality(Late(c)) <= MaxQueued /\ Cardinality(Before(c)) <= Room
    BY DEF HeadsInv, Heads
  <2> QED
    BY <1>1, <2>1, <2>2, <2>3, LateLess, BeforeLess, QueueAssumption
<1> QED
  BY <1>1, <1>2 DEF HeadsInv, Heads
(* The parts that each step keeps for itself.                              *)
LEMMA SavedStep ==
  ASSUME TypeOK, SavedInv, [Next]_vars
  PROVE  SavedInv'
<1>0. MaxStops \in Nat /\ stops \in Nat
  BY QueueAssumption DEF TypeOK
<1>1. ASSUME NEW c \in Changes, NEW status \in Statuses, Update(c, status)
      PROVE  ~DiskFaults /\ disk = mem => disk' = mem'
  BY <1>1 DEF Update
<1>2. ASSUME NEW c \in Changes, Job(c)
      PROVE  SavedInv'
  <2>1. Alive /\ UNCHANGED <<phase, stops>>
    BY <1>2 DEF Job, QueueJob, TryTicket, Planned, CreateQueued, Abandon, StartGranted, Prepare, Receive,
                BeginWork, EndWork, Finish, Release, procVars, Alive, Serving
  <2>2. ~DiskFaults /\ disk = mem => disk' = mem'
    <3>1. CASE UNCHANGED jobVars
      BY <3>1 DEF jobVars
    <3>2. CASE Create(c)
      BY <3>2 DEF Create
    <3>3. CASE \E status \in Statuses : Update(c, status)
      BY <1>1, <3>3
    <3> QED
      BY <1>2, <3>1, <3>2, <3>3 DEF Job, QueueJob, TryTicket, Planned, CreateQueued, Abandon, StartGranted, Prepare,
                Receive, BeginWork, EndWork, Finish, Release, Statuses
  <2> QED
    BY <2>1, <2>2 DEF SavedInv, Alive
<1>3. ASSUME NEW c \in Changes, Client(c)
      PROVE  SavedInv'
  BY <1>3 DEF Client, Poll, PollEnds, queueVars, jobVars, SavedInv, Alive
<1>4. CASE Stop \/ CloseQueue \/ ShutdownReturns
  BY <1>0, <1>4 DEF Stop, CloseQueue, ShutdownReturns, queueVars, jobVars, SavedInv, Alive
<1>5. CASE ShutdownTimesOut \/ Drained \/ DrainExpires \/ Crash
  <2>1. /\ phase' = "down" /\ MaxStops # 0 /\ stops' <= MaxStops
        /\ waiting' = <<>> /\ granted' = {}
    BY <1>0, <1>5 DEF ShutdownTimesOut, Drained, DrainExpires, Crash, Die, SavedInv
  <2>2. \A c \in Changes : pc'[c] \in Ended /\ turn'[c] = "none"
    BY <1>5 DEF ShutdownTimesOut, Drained, DrainExpires, Crash, Die, Ended
  <2> QED
    BY <2>1, <2>2 DEF SavedInv, Alive
<1>6. CASE Restart
  <2>1. phase = "down" /\ phase' = "serving" /\ UNCHANGED stops
    BY <1>6 DEF Restart
  <2>2. ~DiskFaults => disk' = mem'
    BY <1>6 DEF Restart, Without
  <2> QED
    BY <2>1, <2>2 DEF SavedInv, Alive
<1>7. CASE UNCHANGED vars
  BY <1>7 DEF vars, SavedInv, Alive
<1> QED
  BY <1>2, <1>3, <1>4, <1>5, <1>6, <1>7 DEF Next, Process

LEMMA AliveStep ==
  ASSUME TypeOK, NEW c \in Changes, Job(c)
  PROVE  /\ Alive /\ Alive' /\ UNCHANGED <<phase, stops>>
         /\ \A d \in Changes \ {c} : pc'[d] = pc[d]
         /\ \A d \in Changes : Rec(d) = mem[d] /\ Rec(d)' = mem'[d]
         /\ pc[c] \notin Ended \/ pc[c] = "new"
<1>1. Alive /\ UNCHANGED <<phase, stops>>
  BY DEF Job, QueueJob, TryTicket, Planned, CreateQueued, Abandon, StartGranted, Prepare, Receive,
         BeginWork, EndWork, Finish, Release, procVars, Alive, Serving
<1>2. Alive'
  BY <1>1 DEF Alive
<1>3. \E s : Goto(c, s)
  BY DEF Job, QueueJob, TryTicket, GrantAtOnce, Planned, CreateQueued, Abandon, StartGranted, Prepare, Receive,
         BeginWork, EndWork, Finish, Release
<1>4. pc[c] \notin Ended \/ pc[c] = "new"
  BY DEF Job, QueueJob, TryTicket, Planned, CreateQueued, Abandon, StartGranted, Prepare, Receive,
         BeginWork, EndWork, Finish, Release, Ended
<1> QED
  BY <1>1, <1>2, <1>3, <1>4 DEF Goto, TypeOK, Rec

(* A new record is the newest, and prune leaves the pending ones.          *)
LEMMA CreatedIsNewest ==
  ASSUME TypeOK, RankInv, NEW c \in Changes, Create(c), born[c] = 0
  PROVE  /\ born'[c] \in Nat /\ \A d \in Changes \ {c} : born'[d] = born[d] /\ born'[d] < born'[c]
         /\ RankInv'
<1> DEFINE made == {e \in Changes : born[e] > 0}
           made2 == {e \in Changes : born'[e] > 0}
<1>1. Cardinality(made) \in Nat /\ IsFiniteSet(made)
  BY CountType
<1>2. /\ born'[c] = Cardinality(made) + 1
      /\ \A d \in Changes \ {c} : born'[d] = born[d]
  BY DEF Create, TypeOK
<1>3. \A d \in Changes : born[d] \in Nat /\ born[d] <= Cardinality(made)
  BY DEF RankInv, TypeOK
<1>4. made2 = made \cup {c} /\ c \notin made
  <2>1. born'[c] > 0
    BY <1>1, <1>2
  <2> QED
    BY <1>2, <2>1, SMTT(30)
<1>5. Cardinality(made2) = Cardinality(made) + 1
  BY <1>1, <1>4, FS_AddElement
<1> HIDE DEF made, made2
<1>6. \A d \in Changes : born'[d] <= Cardinality(made2)
  BY <1>1, <1>2, <1>3, <1>5
<1> QED
  BY <1>1, <1>2, <1>3, <1>6 DEF RankInv, made2

LEMMA CreateRecords ==
  ASSUME TypeOK, NEW c \in Changes, Create(c)
  PROVE  /\ mem'[c] = "queued" /\ lastEnded' = lastEnded
         /\ \A d \in Changes \ {c} : mem'[d] = mem[d] \/ (mem'[d] = "none" /\ mem[d] \notin Pending)
BY DEF Create, Without, Pruned, Pending, TypeOK

(* A daemon that may die has written what it knows.                        *)
LEMMA DeathIsSaved ==
  ASSUME TypeOK, SavedInv, SavedInv', Written, ShutdownTimesOut \/ Drained \/ DrainExpires \/ Crash
  PROVE  Die /\ Alive /\ disk = mem
BY QueueAssumption DEF ShutdownTimesOut, Drained, DrainExpires, Crash, Die, Alive, SavedInv, Written

LEMMA StepStep ==
  ASSUME TypeOK, HostInv, SavedInv, SavedInv', Written, StepInv, [Next]_vars
  PROVE  StepInv'
<1> DEFINE Fits(s, m, g) ==
             /\ s = "recorded" => m = "queued"
             /\ s \in {"prepare", "started", "working", "finish", "fail"} => m = "running"
             /\ s = "parked" => m = IF g THEN "running" ELSE "queued"
             /\ s = "release" => m \in {"none", "succeeded", "failed"}
             /\ s \in {"done", "refused", "lost"} => m \notin Pending
             /\ s \in {"new", "planning", "ticket", "abandon"} => m = "none"
             /\ s = "prepare" => g
<1>1. ASSUME NEW c \in Changes, Job(c)
      PROVE  StepInv'
  <2>1. \A d \in Changes : /\ pc[d] \in {"new", "planning", "ticket", "abandon"} => born[d] = 0
                           /\ Fits(pc[d], mem[d], d \in granted)
                           /\ d \in Applies /\ pc[d] \notin Ended => d \in granted
    BY <1>1, AliveStep DEF StepInv
  <2>2. \A d \in Changes \ {c} : d \in granted' <=> d \in granted
    BY <1>1 DEF Job, QueueJob, TryTicket, GrantAtOnce, Planned, CreateQueued, Abandon, StartGranted, Prepare, Receive,
                BeginWork, EndWork, Finish, Release, queueVars
  <2>3. /\ \A d \in Changes \ {c} : born'[d] = born[d]
        /\ \A d \in Changes \ {c} : mem'[d] = mem[d] \/ (mem'[d] = "none" /\ mem[d] \notin Pending)
    <3>1. CASE UNCHANGED jobVars
      BY <3>1 DEF jobVars
    <3>2. CASE Create(c)
      BY <3>2, CreateRecords DEF Create, TypeOK
    <3>3. CASE \E status \in Statuses : Update(c, status)
      BY <3>3 DEF Update, TypeOK
    <3> QED
      BY <1>1, <3>1, <3>2, <3>3 DEF Job, QueueJob, TryTicket, Planned, CreateQueued, Abandon, StartGranted, Prepare,
                Receive, BeginWork, EndWork, Finish, Release, Statuses
  <2>4. /\ pc'[c] \in {"new", "planning", "ticket", "abandon"} => born'[c] = 0
        /\ Fits(pc'[c], mem'[c], c \in granted')
        /\ c \in Applies /\ pc'[c] \notin Ended => c \in granted'
    <3>0. pc \in [Changes -> Steps] /\ mem \in [Changes -> Statuses]
      BY DEF TypeOK
    <3>1. CASE QueueJob(c) \/ TryTicket(c)
      BY <2>1, <3>0, <3>1 DEF QueueJob, TryTicket, GrantAtOnce, Goto, Ended, queueVars, jobVars, Pending
    <3>2. CASE Planned(c) \/ Abandon(c) \/ Prepare(c) \/ BeginWork(c) \/ EndWork(c) \/ Release(c)
      BY <2>1, <3>0, <3>2 DEF Planned, Abandon, Prepare, BeginWork, EndWork, Release, Goto, Ended, queueVars, jobVars, Pending
    <3>3. CASE CreateQueued(c)
      BY <2>1, <3>0, <3>3, CreateRecords DEF CreateQueued, Goto, Ended, queueVars, jobVars, Pending
    <3>4. CASE StartGranted(c)
      <4>1. c \in Applies => c \in granted
        BY <2>1, <3>4 DEF StartGranted, Ended
      <4> QED
        BY <2>1, <3>0, <3>4, <4>1 DEF StartGranted, Update, Goto, Ended, queueVars, jobVars, Pending
    <3>5. CASE Receive(c)
      BY <2>1, <3>0, <3>5 DEF Receive, Update, Goto, Ended, queueVars, jobVars, Pending
    <3>6. CASE Finish(c)
      BY <2>1, <3>0, <3>6 DEF Finish, Update, Goto, Ended, queueVars, jobVars, Pending
    <3> QED
      BY <1>1, <3>1, <3>2, <3>3, <3>4, <3>5, <3>6 DEF Job
  <2> QED
    BY <1>1, <2>1, <2>2, <2>3, <2>4, AliveStep DEF StepInv, Pending
<1>2. ASSUME NEW c \in Changes, Client(c)
      PROVE  StepInv'
  BY <1>2 DEF Client, Poll, PollEnds, queueVars, jobVars, StepInv, Alive, Rec
<1>3. CASE Stop \/ CloseQueue \/ ShutdownReturns
  <2>1. Alive /\ Alive' /\ UNCHANGED <<granted, jobVars, pc>>
    BY <1>3 DEF Stop, CloseQueue, ShutdownReturns, queueVars, Alive
  <2> QED
    BY <2>1 DEF jobVars, StepInv, Rec
<1>4. CASE ShutdownTimesOut \/ Drained \/ DrainExpires \/ Crash
  <2>1. Alive /\ Die /\ disk = mem
    BY <1>4, DeathIsSaved
  <2>2. ~Alive' /\ \A c \in Changes : Rec(c)' = Rec(c) /\ born'[c] = born[c] /\ pc'[c] \in Ended
    BY <2>1 DEF Die, Alive, Rec, Ended
  <2>3. \A c \in Changes : pc'[c] = "new" => pc[c] = "new"
    BY <2>1 DEF Die, TypeOK
  <2> QED
    BY <2>2, <2>3 DEF StepInv, Ended
<1>5. CASE Restart
  <2>1. ~Alive /\ Alive' /\ UNCHANGED <<born, pc, granted>> /\ \A c \in Changes : pc[c] \in Ended
    BY <1>5 DEF Restart, Alive, SavedInv, queueVars
  <2>2. \A c \in Changes : Rec(c) = disk[c] /\ Rec(c)' = mem'[c]
    BY <2>1 DEF Rec
  <2>3. \A c \in Changes : mem'[c] = Reopened(disk[c]) \/ mem'[c] = "none"
    BY <1>5 DEF Restart, Without
  <2>4. \A c \in Changes : mem'[c] \notin Pending /\ (disk[c] = "none" => mem'[c] = "none")
    BY <2>3 DEF Reopened, Pending, TypeOK
  <2> QED
    BY <2>1, <2>2, <2>4 DEF StepInv, Ended
<1>6. CASE UNCHANGED vars
  BY <1>6 DEF vars, StepInv, Rec, Alive
<1> QED
  BY <1>1, <1>2, <1>3, <1>4, <1>5, <1>6 DEF Next, Process

(* The line has its places, and so has who was told.                      *)
LEMMA LengthStep ==
  ASSUME TypeOK, HostInv, LengthInv, [Next]_vars
  PROVE  LengthInv'
<1> DEFINE told == {c \in Changes : turn[c] = "stop"}
<1>0. /\ waiting \in Seq(Changes) /\ Len(waiting) \in Nat /\ MaxQueued \in Nat
      /\ Cardinality({}) = 0 /\ Len(<<>>) = 0
  BY QueueAssumption, FS_EmptySet DEF TypeOK
<1>1. ASSUME Len(waiting') <= MaxQueued, \A c \in Changes : turn'[c] = "stop" => turn[c] = "stop"
      PROVE  LengthInv'
  <2>1. told' \in SUBSET told /\ told \in SUBSET Changes
    BY <1>1
  <2>2. Cardinality(told') <= Cardinality(told) /\ Cardinality(told') \in Nat /\ Cardinality(told) \in Nat
    BY <2>1, CountLess, CountType
  <2> QED
    BY <1>0, <1>1, <2>2 DEF LengthInv
<1>2. CASE waiting' = waiting /\ \A c \in Changes : turn'[c] = "stop" => turn[c] = "stop"
  BY <1>1, <1>2 DEF LengthInv
<1>3. ASSUME NEW c \in Changes, QueueJob(c)
      PROVE  LengthInv'
  <2>1. CASE waiting' = Append(waiting, c) /\ Len(waiting) < MaxQueued /\ turn' = turn
    <3>1. Len(waiting') = Len(waiting) + 1
      BY <1>0, <2>1
    <3> QED
      BY <1>0, <1>1, <2>1, <3>1
  <2> QED
    BY <1>2, <1>3, <2>1 DEF QueueJob, GrantAtOnce, queueVars, TypeOK
<1>4. ASSUME NEW c \in Changes, Abandon(c)
      PROVE  LengthInv'
  <2>1. ASSUME NEW i \in DOMAIN waiting,
               waiting' = SubSeq(waiting, 1, i - 1) \o SubSeq(waiting, i + 1, Len(waiting))
        PROVE  Len(waiting') <= MaxQueued
    <3>1. Len(waiting') = Len(waiting) - 1
      BY <1>0, <2>1, RemovedAt
    <3> QED
      BY <1>0, <3>1 DEF LengthInv
  <2> QED
    BY <1>1, <1>2, <1>4, <2>1 DEF Abandon
<1>5. ASSUME NEW c \in Changes, Release(c)
      PROVE  LengthInv'
  <2>1. CASE waiting # <<>> /\ waiting' = Tail(waiting) /\ turn' = [turn EXCEPT ![Head(waiting)] = "run"]
    <3>1. Len(waiting') = Len(waiting) - 1
      BY <1>0, <2>1
    <3> QED
      BY <1>0, <1>1, <2>1, <3>1 DEF LengthInv, TypeOK
  <2> QED
    BY <1>2, <1>5, <2>1 DEF Release
<1>6. ASSUME NEW c \in Changes, Job(c)
      PROVE  LengthInv'
  BY <1>2, <1>3, <1>4, <1>5, <1>6 DEF Job, TryTicket, GrantAtOnce, Planned, CreateQueued, StartGranted, Prepare, Receive,
       BeginWork, EndWork, Finish, queueVars, TypeOK
<1>7. CASE CloseQueue
  <2>1. waiting' = <<>> /\ \A c \in Changes : turn'[c] = "stop" <=> turn[c] = "stop" \/ c \in InLine
    BY <1>7 DEF CloseQueue, TypeOK
  <2>2. CASE waiting = <<>>
    <3>1. InLine = {}
      BY <2>2 DEF InLine
    <3> QED
      BY <1>0, <1>1, <2>1, <2>2, <3>1 DEF LengthInv
  <2>3. CASE waiting # <<>>
    <3>1. ~closed
      BY <2>3 DEF HostInv, LineInv
    <3>2. told' = InLine /\ InLine = Elems(waiting)
      BY <2>1, <3>1, InLineType, LineIsElems DEF HostInv, TicketInv
    <3>3. Cardinality(told') <= Len(waiting) /\ Cardinality(told') \in Nat
      BY <1>0, <3>2, CountLine, CountType
    <3> QED
      BY <1>0, <2>1, <3>3 DEF LengthInv
  <2> QED
    BY <2>2, <2>3
<1>8. CASE ShutdownTimesOut \/ Drained \/ DrainExpires \/ Crash
  BY <1>0, <1>1, <1>8 DEF ShutdownTimesOut, Drained, DrainExpires, Crash, Die
<1> QED
  BY <1>2, <1>6, <1>7, <1>8 DEF Next, Process, Client, Poll, PollEnds, Stop, ShutdownReturns, Restart, vars, queueVars

LEMMA RankStep ==
  ASSUME TypeOK, RankInv, StepInv, [Next]_vars
  PROVE  RankInv'
<1>1. CASE UNCHANGED born
  BY <1>1 DEF RankInv
<1>2. ASSUME NEW c \in Changes, CreateQueued(c)
      PROVE  RankInv'
  BY <1>1, <1>2, CreatedIsNewest DEF CreateQueued, jobVars, StepInv
<1> QED
  BY <1>1, <1>2 DEF Next, Process, Job, Client, Poll, PollEnds, Stop, CloseQueue, ShutdownReturns, Restart, vars, jobVars,
       ShutdownTimesOut, Drained, DrainExpires, Crash, Die, Update,
       QueueJob, TryTicket, Planned, Abandon, StartGranted, Prepare, Receive, BeginWork, EndWork, Finish, Release

----------------------------------------------------------------------------
(* Who has the host, who is in line and who was told, after each step.     *)
LEMMA Holding ==
  ASSUME TypeOK, HostInv
  PROVE  /\ \A c \in Changes : HasHost(c) => c \in Now
         /\ \A c \in Changes : c \in InLine => c \in Now
         /\ \A i \in DOMAIN waiting : waiting[i] \in Now /\ waiting[i] \in Changes
BY DEF Now, InLine, TypeOK

(* No step of a change takes anybody out of this but itself.               *)
LEMMA StaysNow ==
  ASSUME TypeOK, HostInv, NEW c \in Changes, Job(c), NEW d \in Changes, d \in Now, d \notin Now'
  PROVE  d = c /\ (Abandon(c) \/ Release(c))
<1>0. InLine = Elems(waiting) /\ InLine' = Elems(waiting') /\ Distinct(waiting) /\ waiting \in Seq(Changes)
  BY LineIsElems DEF HostInv, TypeOK
<1>1. /\ \A e \in Changes : e \in Now <=> e \in InLine \/ HasHost(e) \/ turn[e] = "stop"
      /\ \A e \in Changes : e \in Now' <=> e \in InLine' \/ HasHost(e)' \/ turn'[e] = "stop"
  BY DEF Now
<1>2. \A e \in Changes \ {c} : pc'[e] = pc[e]
  BY AliveStep
<1>3. CASE waiting' = waiting /\ turn' = turn
  <2>1. InLine' = InLine
    BY <1>0, <1>3
  <2>2. d = c /\ turn[c] = "run" /\ pc[c] \notin Ended /\ pc'[c] \in Ended
    BY <1>1, <1>2, <1>3, <2>1 DEF HasHost
  <2> QED
    BY <2>2, <1>3 DEF Job, QueueJob, TryTicket, GrantAtOnce, Planned, CreateQueued, Abandon, StartGranted, Prepare, Receive,
                      BeginWork, EndWork, Finish, Release, Goto, Ended, TypeOK
<1>4. CASE pc[c] = "new" /\ waiting' = waiting /\ turn' = [turn EXCEPT ![c] = "run"] /\ pc'[c] \notin Ended
  <2>1. InLine' = InLine
    BY <1>0, <1>4
  <2>2. \A e \in Changes : turn'[e] = IF e = c THEN "run" ELSE turn[e]
    BY <1>4 DEF TypeOK
  <2>3. HasHost(c)'
    BY <1>4, <2>2 DEF HasHost
  <2> QED
    BY <1>1, <1>2, <2>1, <2>2, <2>3 DEF HasHost
<1>5. CASE QueueJob(c)
  <2>1. CASE ~closed /\ busy /\ waiting' = Append(waiting, c) /\ turn' = turn
    <3>1. pc[c] = "new" /\ c \notin InLine
      BY <1>5 DEF QueueJob, HostInv, LineInv, LineSteps
    <3>2. InLine' = InLine \cup {c}
      BY <1>0, <2>1, <3>1, AppendToLine
    <3> QED
      BY <1>1, <1>2, <2>1, <3>1, <3>2 DEF HasHost, Ended
  <2>2. CASE GrantAtOnce(c, "ticket")
    BY <1>4, <1>5, <2>2 DEF QueueJob, GrantAtOnce, Goto, Ended, TypeOK
  <2> QED
    BY <1>3, <1>5, <2>1, <2>2 DEF QueueJob, queueVars
<1>6. CASE TryTicket(c)
  <2>1. CASE GrantAtOnce(c, "ticket") \/ GrantAtOnce(c, "planning")
    BY <1>4, <1>6, <2>1 DEF TryTicket, GrantAtOnce, Goto, Ended, TypeOK
  <2> QED
    BY <1>3, <1>6, <2>1 DEF TryTicket, queueVars
<1>7. CASE Abandon(c)
  <2>1. turn' = turn
    BY <1>7 DEF Abandon
  <2>2. CASE waiting' = waiting
    BY <1>3, <2>1, <2>2
  <2>3. ASSUME NEW k \in DOMAIN waiting, waiting[k] = c,
               waiting' = SubSeq(waiting, 1, k - 1) \o SubSeq(waiting, k + 1, Len(waiting))
        PROVE  d = c /\ (Abandon(c) \/ Release(c))
    <3>1. InLine' = InLine \ {c}
      BY <1>0, <2>3, RemoveFromLine
    <3> QED
      BY <1>1, <1>2, <1>7, <2>1, <3>1 DEF HasHost
  <2> QED
    BY <1>7, <2>2, <2>3 DEF Abandon
<1>8. CASE Release(c)
  <2>1. CASE waiting # <<>> /\ turn' = [turn EXCEPT ![Head(waiting)] = "run"] /\ waiting' = Tail(waiting)
    <3>1. PICK h : h = Head(waiting)
      OBVIOUS
    <3>2. InLine' = InLine \ {h} /\ h \in InLine
      BY <1>0, <2>1, <3>1, TailOfLine
    <3>3. h \in Changes /\ h # c /\ pc[h] \notin Ended
      BY <1>8, <3>2, InLineType DEF HostInv, LineInv, LineSteps, Ended, Release
    <3>4. \A e \in Changes : turn'[e] = IF e = h THEN "run" ELSE turn[e]
      BY <2>1, <3>1, <3>3 DEF TypeOK
    <3>5. HasHost(h)'
      BY <1>2, <3>3, <3>4 DEF HasHost
    <3> QED
      BY <1>1, <1>2, <1>8, <3>2, <3>4, <3>5 DEF HasHost
  <2> QED
    BY <1>3, <1>8, <2>1 DEF Release
<1> QED
  BY <1>3, <1>5, <1>6, <1>7, <1>8 DEF Job, Planned, CreateQueued, StartGranted, Prepare, Receive,
     BeginWork, EndWork, Finish, queueVars

(* What a step of a change does to the records: one new at most, and none  *)
(* that ends but by Finish.                                                *)
LEMMA MemMoves ==
  ASSUME TypeOK, HostInv, StepInv, NEW c \in Changes, Job(c)
  PROVE  /\ \A d \in Changes \ {c} : mem'[d] = mem[d] \/ (mem'[d] = "none" /\ mem[d] \in Over \cup {"none", "notstarted"})
         /\ CreateQueued(c) \/ UNCHANGED born
         /\ \/ mem'[c] = mem[c]
            \/ CreateQueued(c) /\ mem'[c] = "queued" /\ mem[c] = "none"
            \/ HasHost(c) /\ mem[c] = "queued" /\ mem'[c] = "running"
            \/ turn[c] = "stop" /\ mem'[c] = "notstarted"
            \/ Finish(c)
<1>0. mem \in [Changes -> Statuses] /\ mem[c] = Rec(c)
  BY AliveStep DEF TypeOK
<1>1. CASE UNCHANGED jobVars
  BY <1>1 DEF jobVars
<1>2. CASE CreateQueued(c) /\ Create(c)
  <2>1. mem[c] = "none"
    BY <1>0, <1>2 DEF CreateQueued, StepInv
  <2> QED
    BY <1>0, <1>2, <2>1, CreateRecords DEF Pending, Over, Statuses
<1>3. ASSUME NEW status \in Statuses, Update(c, status)
      PROVE  born' = born /\ mem'[c] = status /\ \A d \in Changes \ {c} : mem'[d] = mem[d]
  BY <1>0, <1>3 DEF Update
<1>4. "running" \in Statuses /\ "notstarted" \in Statuses /\ "succeeded" \in Statuses /\ "failed" \in Statuses
  BY DEF Statuses
<1>5. CASE StartGranted(c) /\ c \in granted
  <2>1. turn[c] = "run" /\ pc[c] = "recorded"
    BY <1>5 DEF HostInv, TicketInv, StartGranted, Ended
  <2>2. HasHost(c) /\ mem[c] = "queued"
    BY <1>5, <2>1 DEF HasHost, Ended, StepInv, StartGranted
  <2> QED
    BY <1>3, <1>4, <1>5, <2>2 DEF StartGranted
<1>6. CASE Receive(c)
  <2>1. CASE turn[c] = "run" /\ c \notin granted /\ Update(c, "running")
    <3>1. HasHost(c) /\ mem[c] = "queued"
      BY <1>6, <2>1 DEF HasHost, Ended, StepInv, Receive
    <3> QED
      BY <1>3, <1>4, <2>1, <3>1
  <2>2. CASE turn[c] = "stop" /\ Update(c, "notstarted")
    BY <1>3, <1>4, <2>2
  <2> QED
    BY <1>1, <1>6, <2>1, <2>2 DEF Receive
<1>7. CASE Finish(c)
  BY <1>3, <1>4, <1>7 DEF Finish
<1> QED
  BY <1>1, <1>2, <1>5, <1>6, <1>7 DEF Job, QueueJob, TryTicket, Planned, CreateQueued, Abandon, StartGranted, Prepare,
     BeginWork, EndWork, Release

(* So what is newer than a record grows only when a job ends, and only what*)
(* a change of this daemon left behind would be new from before.           *)
LEMMA JobMoves ==
  ASSUME TypeOK, TypeOK', HostInv, StepInv, NEW c \in Changes, Job(c)
  PROVE  OwnRank /\ NoneLeft /\ (~Finish(c) => NoneEnds)
<1>0. Alive /\ Alive' /\ \A d \in Changes : Rec(d) = mem[d] /\ Rec(d)' = mem'[d]
  BY AliveStep
<1>1. OwnRank
  <2>1. CASE UNCHANGED born
    BY <2>1 DEF OwnRank
  <2>2. CASE CreateQueued(c) /\ ~UNCHANGED born
    <3>1. Create(c) /\ pc[c] = "ticket"
      BY <2>2 DEF CreateQueued, jobVars
    <3>2. turn[c] # "none" \/ c \in InLine
      BY <3>1 DEF HostInv, TicketInv, Ended
    <3>3. turn[c] \in {"none", "run", "stop"}
      BY DEF TypeOK
    <3>4. c \in Now
      BY <3>1, <3>2, <3>3 DEF Now, HasHost, Ended
    <3>5. c \in Now'
      BY <3>1, <3>4, StaysNow DEF Abandon, Release
    <3>6. mem[c] = "none" /\ mem'[c] = "queued"
      BY <1>0, <3>1, CreateRecords DEF StepInv
    <3>7. \A d \in Changes \ {c} : born'[d] = born[d]
      BY <3>1 DEF Create, TypeOK
    <3> QED
      BY <1>0, <3>5, <3>6, <3>7 DEF OwnRank
  <2> QED
    BY <2>1, <2>2, MemMoves
<1>2. NoneLeft
  <2> SUFFICES ASSUME NEW d \in Changes, d \notin Now', mem'[d] \in Unstarted
               PROVE  d \notin Now /\ mem[d] \in Unstarted
    BY <1>0 DEF NoneLeft
  <2>1. CASE d # c
    BY <2>1, MemMoves, StaysNow DEF Unstarted
  <2>2. CASE d = c /\ c \in Now
    <3>1. Abandon(c) \/ Release(c)
      BY <2>2, StaysNow
    <3>2. mem' = mem /\ pc[c] \in {"abandon", "release"}
      BY <3>1 DEF Abandon, Release, jobVars
    <3>3. mem[c] \in {"none", "succeeded", "failed"}
      BY <1>0, <3>2 DEF StepInv
    <3> QED
      BY <2>2, <3>2, <3>3 DEF Unstarted
  <2>3. CASE d = c /\ c \notin Now
    <3>1. turn[c] \in {"none", "run", "stop"}
      BY DEF TypeOK
    <3>2. ~HasHost(c) /\ turn[c] # "stop" /\ c \notin InLine
      BY <2>3 DEF Now
    <3>3. pc[c] \in Ended
      BY <3>1, <3>2 DEF HostInv, TicketInv, HasHost
    <3>4. pc[c] = "new"
      BY <3>3, AliveStep
    <3>5. mem'[c] = mem[c]
      BY <3>2, <3>4, MemMoves DEF CreateQueued, Finish
    <3> QED
      BY <2>3, <3>5
  <2> QED
    BY <2>1, <2>2, <2>3
<1>3. ~Finish(c) => NoneEnds
  BY <1>0, MemMoves DEF NoneEnds, Over
<1> QED
  BY <1>1, <1>2, <1>3

LEMMA PassedKept ==
  ASSUME TypeOK, HostInv, NEW c \in Changes, Job(c), turn' = turn
  PROVE  Passed <= Passed'
<1> SUFFICES ASSUME NEW h \in Changes, HasHost(h)', pc'[h] # "release"
             PROVE  HasHost(h) /\ pc[h] # "release"
  BY DEF Passed
<1>1. CASE h # c
  BY <1>1, AliveStep DEF HasHost
<1>2. CASE h = c
  <2>1. turn[c] = "run" /\ pc[c] \notin Ended
    BY <1>2, AliveStep DEF HasHost, HostInv, TicketInv
  <2>2. pc[c] # "release"
    BY <1>2 DEF Job, QueueJob, TryTicket, Planned, CreateQueued, Abandon, StartGranted, Prepare, Receive,
       BeginWork, EndWork, Finish, Release, Goto, TypeOK, HasHost, Ended
  <2> QED
    BY <1>2, <2>1, <2>2 DEF HasHost
<1> QED
  BY <1>1, <1>2

(* Nothing is newer than a record just made.                               *)
LEMMA CreatedFresh ==
  ASSUME TypeOK, TypeOK', RankInv, StepInv, NEW c \in Changes, CreateQueued(c), mem'[c] # mem[c]
  PROVE  Late(c)' = {} /\ Before(c)' = {}
<1>1. Create(c) /\ born[c] = 0
  BY DEF CreateQueued, jobVars, StepInv
<1>2. born' \in [Changes -> Nat] /\ \A d \in Changes \ {c} : born'[d] < born'[c]
  BY <1>1, CreatedIsNewest DEF TypeOK
<1>3. \A d \in Changes : ~(born'[d] > born'[c])
  BY <1>2
<1> QED
  BY <1>3 DEF Late, Before

(* A step that leaves the line and what each ticket was told alone.        *)
LEMMA StandStill ==
  ASSUME TypeOK, TypeOK', HostInv, StepInv, RankInv, LengthInv, NEW c \in Changes, Job(c), ~Finish(c),
         waiting' = waiting, turn' = turn
  PROVE  LineMoves
<1>0. /\ Alive /\ Alive' /\ \A d \in Changes : Rec(d) = mem[d] /\ Rec(d)' = mem'[d]
      /\ \A d \in Changes \ {c} : pc'[d] = pc[d]
      /\ pc[c] \notin Ended \/ pc[c] = "new"
  BY AliveStep
<1>1. mem'[c] # mem[c] /\ CreateQueued(c) => Late(c)' = {} /\ Before(c)' = {}
  BY CreatedFresh
<1>2. \A d \in Changes :
        /\ mem'[d] \in Pending => mem[d] \in Pending \/ (Late(d)' = {} /\ Before(d)' = {})
        /\ mem'[d] # "none" => mem[d] # "none" \/ Late(d)' = {} \/ turn[d] = "stop"
  <2> TAKE d \in Changes
  <2>1. CASE d # c
    BY <2>1, MemMoves DEF Pending
  <2>2. CASE d = c
    BY <1>1, <2>2, MemMoves DEF Pending
  <2> QED
    BY <2>1, <2>2
<1>3. ASSUME NEW i \in DOMAIN waiting', NEW d \in Changes, waiting'[i] = d, Rec(d)' # "none"
      PROVE  \/ Rec(d) # "none" /\ \E j \in DOMAIN waiting : waiting[j] = d /\ i - Passed' <= j - Passed
             \/ Late(d)' = {} /\ i <= MaxQueued
  <2>1. i \in Nat /\ i <= Len(waiting) /\ Len(waiting) \in Nat /\ MaxQueued \in Nat
    BY <1>3, QueueAssumption DEF TypeOK
  <2>2. i <= MaxQueued
    BY <2>1 DEF LengthInv
  <2>3. i - Passed' <= i - Passed
    BY <2>1, PassedKept, PassedType
  <2>4. turn[d] = "none"
    BY <1>3 DEF HostInv, LineInv, InLine
  <2> QED
    BY <1>0, <1>2, <1>3, <2>2, <2>3, <2>4
<1>4. ASSUME NEW d \in Changes, HasHost(d)', Rec(d)' \in Pending
      PROVE  (HasHost(d) /\ Rec(d) \in Pending) \/ Late(d)' = {}
  <2>1. turn[d] = "run"
    BY <1>4 DEF HasHost
  <2>2. pc[d] \notin Ended
    BY <1>0, <1>4, <2>1 DEF HasHost, HostInv, TicketInv
  <2>3. mem[d] \in Pending \/ Late(d)' = {}
    BY <1>0, <1>2, <1>4
  <2> QED
    BY <1>0, <2>1, <2>2, <2>3 DEF HasHost
<1>5. ASSUME NEW d \in Changes, mem'[d] \in Pending
      PROVE  mem[d] \in Pending \/ Before(d)' = {}
  BY <1>2, <1>5
<1> QED
  BY <1>3, <1>4, <1>5 DEF LineMoves

(* The host granted at once, to a change that has no record yet.           *)
LEMMA GrantMoves ==
  ASSUME TypeOK, TypeOK', HostInv, StepInv, NEW c \in Changes, NEW step, Job(c), pc[c] = "new", ~closed, ~busy,
         GrantAtOnce(c, step), UNCHANGED mem
  PROVE  LineMoves
<1>0. Alive /\ Alive' /\ \A d \in Changes : Rec(d) = mem[d] /\ Rec(d)' = mem'[d]
  BY AliveStep
<1>1. waiting' = <<>> /\ \A d \in Changes : ~HasHost(d)
  BY FreeHost DEF GrantAtOnce
<1>2. DOMAIN waiting' = {}
  BY <1>1
<1>3. mem[c] = "none"
  BY <1>0 DEF StepInv
<1>4. \A d \in Changes : HasHost(d)' => d = c
  BY <1>1, AliveStep DEF GrantAtOnce, TypeOK, HasHost
<1> QED
  BY <1>0, <1>2, <1>3, <1>4 DEF LineMoves, Pending

(* A place at the end of the line.                                         *)
LEMMA AppendMoves ==
  ASSUME TypeOK, TypeOK', HostInv, StepInv, NEW c \in Changes, Job(c), pc[c] = "new",
         waiting' = Append(waiting, c), turn' = turn, UNCHANGED mem
  PROVE  LineMoves
<1>0. /\ Alive /\ Alive' /\ \A d \in Changes : Rec(d) = mem[d] /\ Rec(d)' = mem'[d]
      /\ \A d \in Changes \ {c} : pc'[d] = pc[d]
  BY AliveStep
<1>1. /\ DOMAIN waiting = 1 .. Len(waiting) /\ Len(waiting) \in Nat /\ DOMAIN waiting' = 1 .. Len(waiting) + 1
      /\ \A i \in 1 .. Len(waiting) : waiting'[i] = waiting[i]
      /\ waiting'[Len(waiting) + 1] = c
  BY DEF TypeOK
<1>2. mem[c] = "none" /\ turn[c] = "none"
  BY <1>0 DEF StepInv, HostInv, TicketInv
<1>3. Passed <= Passed' /\ Passed \in {0, 1} /\ Passed' \in {0, 1}
  BY PassedKept, PassedType
<1>4. ASSUME NEW i \in DOMAIN waiting', NEW d \in Changes, waiting'[i] = d, Rec(d)' # "none"
      PROVE  Rec(d) # "none" /\ \E j \in DOMAIN waiting : waiting[j] = d /\ i - Passed' <= j - Passed
  <2>1. i \in 1 .. Len(waiting) /\ waiting[i] = d /\ Rec(d) # "none"
    BY <1>0, <1>1, <1>2, <1>4
  <2> QED
    BY <1>1, <1>3, <2>1
<1>5. \A d \in Changes : HasHost(d)' => HasHost(d)
  BY <1>0, <1>2 DEF HasHost
<1> QED
  BY <1>0, <1>4, <1>5 DEF LineMoves

(* A place given up: those behind it move up.                              *)
LEMMA AbandonMoves ==
  ASSUME TypeOK, TypeOK', HostInv, StepInv, RankInv, LengthInv, NEW c \in Changes, Abandon(c)
  PROVE  LineMoves
<1>0. /\ Alive /\ Alive' /\ \A d \in Changes : Rec(d) = mem[d] /\ Rec(d)' = mem'[d]
      /\ \A d \in Changes \ {c} : pc'[d] = pc[d]
      /\ Passed <= Passed' /\ Passed \in {0, 1} /\ Passed' \in {0, 1}
  BY AliveStep, PassedKept, PassedType DEF Job, Abandon
<1>1. CASE waiting' = waiting
  BY <1>1, StandStill DEF Abandon, Finish, Job
<1>2. ASSUME NEW k \in DOMAIN waiting, waiting' = SubSeq(waiting, 1, k - 1) \o SubSeq(waiting, k + 1, Len(waiting))
      PROVE  LineMoves
  <2>1. /\ waiting \in Seq(Changes) /\ DOMAIN waiting = 1 .. Len(waiting) /\ Len(waiting) \in Nat /\ k \in Nat
        /\ DOMAIN waiting' = 1 .. Len(waiting) - 1
        /\ \A i \in 1 .. Len(waiting) - 1 : waiting'[i] = IF i < k THEN waiting[i] ELSE waiting[i + 1]
    <3>1. waiting \in Seq(Changes)
      BY DEF TypeOK
    <3>2. /\ DOMAIN waiting' = 1 .. Len(waiting) - 1
          /\ \A i \in 1 .. Len(waiting) - 1 : waiting'[i] = IF i < k THEN waiting[i] ELSE waiting[i + 1]
      BY <1>2, <3>1, RemovedAt
    <3> QED
      BY <3>1, <3>2
  <2>2. mem' = mem /\ turn' = turn
    BY DEF Abandon, jobVars
  <2>3. ASSUME NEW i \in DOMAIN waiting', NEW d \in Changes, waiting'[i] = d, Rec(d)' # "none"
        PROVE  Rec(d) # "none" /\ \E j \in DOMAIN waiting : waiting[j] = d /\ i - Passed' <= j - Passed
    <3>1. PICK j \in DOMAIN waiting : waiting[j] = d /\ i <= j
      <4>1. i \in 1 .. Len(waiting) - 1 /\ i \in DOMAIN waiting /\ i + 1 \in DOMAIN waiting
        BY <2>1, <2>3
      <4> QED
        BY <2>1, <2>3, <4>1
    <3>2. i \in Nat /\ j \in Nat
      BY <2>1, <2>3, <3>1
    <3> QED
      BY <1>0, <2>2, <2>3, <3>1, <3>2
  <2>4. \A d \in Changes : HasHost(d)' => HasHost(d)
    BY <1>0, <2>2 DEF HasHost, Abandon, Ended
  <2> QED
    BY <1>0, <2>2, <2>3, <2>4 DEF LineMoves
<1> QED
  BY <1>1, <1>2 DEF Abandon

(* The host handed on: all move up by one, and the releasing one passes.   *)
LEMMA ReleaseMoves ==
  ASSUME TypeOK, TypeOK', HostInv, StepInv, RankInv, LengthInv, NEW c \in Changes, Release(c)
  PROVE  LineMoves
<1>0. /\ Alive /\ Alive' /\ \A d \in Changes : Rec(d) = mem[d] /\ Rec(d)' = mem'[d]
      /\ \A d \in Changes \ {c} : pc'[d] = pc[d]
      /\ Passed \in {0, 1} /\ Passed' \in {0, 1}
  BY AliveStep, PassedType DEF Job
<1>1. CASE waiting' = waiting /\ turn' = turn
  BY <1>1, StandStill DEF Release, Finish, Job
<1>2. CASE waiting # <<>> /\ turn' = [turn EXCEPT ![Head(waiting)] = "run"] /\ waiting' = Tail(waiting)
  <2>1. /\ DOMAIN waiting = 1 .. Len(waiting) /\ Len(waiting) \in Nat /\ Len(waiting) # 0
        /\ DOMAIN waiting' = 1 .. Len(waiting) - 1
        /\ \A i \in 1 .. Len(waiting) - 1 : waiting'[i] = waiting[i + 1]
        /\ Head(waiting) = waiting[1] /\ waiting[1] \in Changes
    BY <1>2 DEF TypeOK
  <2>2. mem' = mem /\ pc[c] = "release"
    BY DEF Release, jobVars
  <2>3. Passed = 1
    <3>1. ~closed
      BY <1>2 DEF HostInv, LineInv
    <3>2. HasHost(c)
      BY <2>2, <3>1, WhoReleases
    <3> QED
      BY <2>2, <3>2 DEF Passed, HostInv, OneHolder
  <2>4. ASSUME NEW i \in DOMAIN waiting', NEW d \in Changes, waiting'[i] = d, Rec(d)' # "none"
        PROVE  Rec(d) # "none" /\ \E j \in DOMAIN waiting : waiting[j] = d /\ i - Passed' <= j - Passed
    <3>1. i \in Nat /\ i + 1 \in DOMAIN waiting /\ waiting[i + 1] = d
      BY <2>1, <2>4
    <3>2. i - Passed' <= (i + 1) - Passed
      BY <1>0, <2>3, <3>1
    <3> QED
      BY <1>0, <2>2, <2>4, <3>1, <3>2
  <2>5. \A d \in Changes : HasHost(d)' => HasHost(d) \/ d = waiting[1]
    BY <1>0, <1>2, <2>1, <2>2 DEF HasHost, TypeOK, Ended
  <2> QED
    BY <1>0, <1>2, <2>2, <2>3, <2>4, <2>5 DEF LineMoves, Pending
<1> QED
  BY <1>1, <1>2 DEF Release

LEMMA JobLine ==
  ASSUME TypeOK, TypeOK', HostInv, StepInv, RankInv, LengthInv, NEW c \in Changes, Job(c), ~Finish(c)
  PROVE  LineMoves
<1>1. CASE waiting' = waiting /\ turn' = turn
  BY <1>1, StandStill
<1>2. CASE QueueJob(c)
  <2>1. pc[c] = "new" /\ UNCHANGED mem
    BY <1>2 DEF QueueJob, jobVars
  <2> QED
    BY <1>1, <1>2, <2>1, GrantMoves, AppendMoves DEF QueueJob, queueVars
<1>3. CASE TryTicket(c)
  <2>1. pc[c] = "new" /\ UNCHANGED mem
    BY <1>3 DEF TryTicket, jobVars
  <2>2. CASE closed \/ busy \/ waiting # <<>>
    BY <1>1, <1>3, <2>2 DEF TryTicket, queueVars
  <2>3. CASE ~(closed \/ busy \/ waiting # <<>>)
    <3>1. PICK step : GrantAtOnce(c, step)
      BY <1>3, <2>3 DEF TryTicket
    <3> QED
      BY <2>1, <2>3, <3>1, GrantMoves
  <2> QED
    BY <2>2, <2>3
<1>4. CASE Abandon(c)
  BY <1>4, AbandonMoves
<1>5. CASE Release(c)
  BY <1>5, ReleaseMoves
<1> QED
  BY <1>1, <1>2, <1>3, <1>4, <1>5 DEF Job, Planned, CreateQueued, StartGranted, Prepare, Receive,
     BeginWork, EndWork, queueVars

(* The job that ends was the one that ran: it had been passed by no more   *)
(* than were in line with it.                                              *)
LEMMA FinishKeeps ==
  ASSUME TypeOK, TypeOK', HostInv, StepInv, SavedInv, AheadInv, HeadsInv, NEW c \in Changes, Finish(c)
  PROVE  AheadInv' /\ HeadsInv'
<1>0. /\ Alive /\ Alive' /\ \A d \in Changes : Rec(d) = mem[d] /\ Rec(d)' = mem'[d]
      /\ \A d \in Changes \ {c} : pc'[d] = pc[d]
      /\ UNCHANGED <<phase, stops>>
      /\ OwnRank /\ NoneLeft
  BY AliveStep, JobMoves DEF Job
<1>1. /\ pc[c] \in {"finish", "fail"} /\ pc'[c] = "release" /\ UNCHANGED queueVars /\ born' = born
      /\ mem'[c] \in {"succeeded", "failed"} /\ \A d \in Changes \ {c} : mem'[d] = mem[d]
      /\ lastEnded' = {c}
  BY DEF Finish, Update, Goto, TypeOK
<1>2. HasHost(c) /\ mem[c] = "running"
  BY <1>0, <1>1 DEF StepInv, HostInv, TicketInv, HolderSteps, HasHost, Ended
<1>3. \A d \in Changes : HasHost(d)' => d = c
  BY <1>0, <1>1, <1>2 DEF queueVars, HasHost, HostInv, OneHolder
<1>4. Passed = 0 /\ Passed' = 1
  BY <1>1, <1>2, <1>3 DEF Passed
<1>5. ASSUME NEW d \in Changes
      PROVE  /\ Cardinality(Late(d)') <= Cardinality(Late(d)) + 1
             /\ Cardinality(Late(d)') \in Nat /\ Cardinality(Late(d)) \in Nat
  <2>1. Late(d)' \in SUBSET (Late(d) \cup {c}) /\ Late(d) \cup {c} \in SUBSET Changes
    BY <1>0, <1>1 DEF Late
  <2>2. /\ Cardinality(Late(d)') \in Nat /\ Cardinality(Late(d)) \in Nat /\ Cardinality(Late(d) \cup {c}) \in Nat
        /\ Cardinality(Late(d)') <= Cardinality(Late(d) \cup {c})
        /\ Cardinality(Late(d) \cup {c}) <= Cardinality(Late(d)) + Cardinality({c})
        /\ Cardinality({c}) = 1
    BY <2>1, LateType, CountType, CountLess, CountBoth, FS_Singleton
  <2> QED
    BY <2>2
<1>6. ASSUME NEW i \in DOMAIN waiting', NEW d \in Changes, waiting'[i] = d, Rec(d)' # "none"
      PROVE  Cardinality(Late(d)') + i <= MaxQueued + Passed'
  <2>1. waiting' = waiting /\ i \in Nat /\ MaxQueued \in Nat
    BY <1>1, <1>6, QueueAssumption DEF queueVars, TypeOK
  <2>2. d # c
    BY <1>2, <1>6, <2>1 DEF HostInv, LineInv, InLine, HasHost
  <2>3. Cardinality(Late(d)) + i <= MaxQueued + Passed
    BY <1>0, <1>1, <1>6, <2>1, <2>2 DEF AheadInv
  <2> QED
    BY <1>4, <1>5, <2>1, <2>3
<1>7. ASSUME NEW d \in Changes, mem'[d] \in Pending
      PROVE  Before(d)' = {}
  <2>1. mem[d] \in Pending
    BY <1>1, <1>7 DEF Pending
  <2> QED
    BY <1>0, <1>1, <2>1, BeforeKept DEF AheadInv
<1>8. AheadInv'
  BY <1>0, <1>1, <1>3, <1>6, <1>7 DEF AheadInv, Pending
<1>9. Late(c)' \in SUBSET Late(c) /\ Before(c)' = {}
  <2>1. Before(c)' \in SUBSET Before(c) /\ Before(c) = {}
    BY <1>0, <1>1, <1>2, BeforeKept DEF AheadInv, Pending
  <2>2. born[c] \in Nat
    BY DEF TypeOK
  <2>3. \A d \in Late(c)' : d # c /\ d \in Changes
    BY <1>1, <2>2 DEF Late
  <2> QED
    BY <1>0, <1>1, <2>1, <2>3 DEF Late
<1>10. Cardinality(Late(c)') <= MaxQueued /\ Cardinality(Before(c)') <= Room'
  <2>1. Cardinality(Late(c)) <= MaxQueued
    BY <1>0, <1>2 DEF AheadInv, Pending
  <2>2. Room' = Room /\ Room \in Nat /\ MaxQueued \in Nat
    BY <1>0, RoomType, QueueAssumption DEF Room, Lives
  <2>3. /\ Cardinality(Late(c)') <= Cardinality(Late(c)) /\ Cardinality(Late(c)) \in Nat
        /\ Cardinality(Late(c)') \in Nat /\ Cardinality(Before(c)') = 0
    BY <1>9, LateType, CountLess, CountType, FS_EmptySet
  <2> QED
    BY <2>1, <2>2, <2>3
<1> QED
  BY <1>0, <1>1, <1>8, <1>10 DEF HeadsInv, Heads, Over

(* What can be newer than the last that ended when a new record is made.   *)
LEMMA NewerCount ==
  ASSUME TypeOK, HostInv, SavedInv, LengthInv, HeadsInv, RoomEnough,
         NEW c \in lastEnded, NEW N \in SUBSET (Late(c) \cup Before(c) \cup Now)
  PROVE  ~(Cardinality(N) >= KeepJobs)
<1>0. MaxQueued \in Nat /\ KeepJobs \in Nat /\ MaxStops * (MaxQueued + 1) \in Nat
  BY QueueAssumption
<1>1. /\ Late(c) \in SUBSET Changes /\ Before(c) \in SUBSET Changes /\ Now \in SUBSET Changes
      /\ Late(c) \cup Before(c) \in SUBSET Changes /\ Late(c) \cup Before(c) \cup Now \in SUBSET Changes
  BY LateType, NowCount
<1>2. /\ Cardinality(N) <= Cardinality(Late(c) \cup Before(c) \cup Now)
      /\ Cardinality(Late(c) \cup Before(c) \cup Now) <= Cardinality(Late(c) \cup Before(c)) + Cardinality(Now)
      /\ Cardinality(Late(c) \cup Before(c)) <= Cardinality(Late(c)) + Cardinality(Before(c))
  BY <1>1, CountLess, CountBoth
<1>3. /\ Cardinality(N) \in Nat /\ Cardinality(Now) \in Nat /\ Cardinality(Late(c)) \in Nat /\ Cardinality(Before(c)) \in Nat
      /\ Cardinality(Late(c) \cup Before(c)) \in Nat /\ Cardinality(Late(c) \cup Before(c) \cup Now) \in Nat
  BY <1>1, CountType
<1>4. Cardinality(Late(c)) <= MaxQueued /\ Cardinality(Before(c)) <= Room /\ Cardinality(Now) <= MaxQueued + 1
  BY NowCount DEF HeadsInv, Heads
<1>5. Room \in Nat /\ Room <= MaxStops * (MaxQueued + 1)
  BY RoomType
<1>6. KeepJobs >= 2 * MaxQueued + 2 + MaxStops * (MaxQueued + 1)
  BY DEF RoomEnough
<1> QED
  BY <1>0, <1>2, <1>3, <1>4, <1>5, <1>6

LEMMA CreateKeepsLast ==
  ASSUME TypeOK, HostInv, SavedInv, StepInv, LengthInv, HeadsInv, RoomEnough, NEW x \in Changes, CreateQueued(x), Create(x)
  PROVE  \A c \in lastEnded : mem'[c] = mem[c]
<1> SUFFICES ASSUME NEW c \in lastEnded
             PROVE  mem'[c] = mem[c]
  OBVIOUS
<1> DEFINE m == [mem EXCEPT ![x] = "queued"]
<1>0. /\ Alive /\ \A d \in Changes : Rec(d) = mem[d]
      /\ mem \in [Changes -> Statuses] /\ born \in [Changes -> Nat] /\ c \in Changes
  BY DEF CreateQueued, Alive, Rec, TypeOK
<1>1. pc[x] = "ticket" /\ mem[x] = "none" /\ mem[c] \in Over
  BY <1>0 DEF CreateQueued, StepInv, HeadsInv
<1>2. /\ mem' = Without(m, Pruned(m, born'))
      /\ born'[c] = born[c] /\ \A d \in Changes \ {x} : born'[d] = born[d]
  BY <1>0, <1>1 DEF Create, Over
<1>3. Newer(m, born', c) \in SUBSET (Late(c) \cup Before(c) \cup Now)
  <2> SUFFICES ASSUME NEW d \in Changes, m[d] # "none", born'[d] > born'[c]
               PROVE  d \in Late(c) \cup Before(c) \cup Now
    BY DEF Newer
  <2>1. CASE d = x
    <3>1. turn[x] \in {"none", "run", "stop"}
      BY DEF TypeOK
    <3> QED
      BY <1>1, <2>1, <3>1 DEF HostInv, TicketInv, Now, HasHost, Ended
  <2>2. CASE d # x
    <3>1. mem[d] # "none" /\ born[d] > born[c] /\ mem[d] \in Statuses
      BY <1>0, <1>2, <2>2
    <3>2. mem[d] = "running" => d \in Now
      BY DEF HostInv, RecordInv, Now, HasHost, Ended
    <3> QED
      BY <1>0, <3>1, <3>2 DEF Late, Before, Over, Unstarted, Statuses
  <2> QED
    BY <2>1, <2>2
<1>4. c \notin Pruned(m, born')
  BY <1>3, NewerCount DEF Pruned
<1> HIDE DEF m
<1>5. mem'[c] = m[c]
  BY <1>0, <1>2, <1>4 DEF Without
<1> QED
  BY <1>0, <1>1, <1>5 DEF m, Over

(* A step of a change keeps how much can be newer than what.               *)
LEMMA JobKeeps ==
  ASSUME TypeOK, TypeOK', HostInv, SavedInv, SavedInv', StepInv, RankInv, LengthInv, AheadInv, HeadsInv, RoomEnough,
         NEW c \in Changes, Job(c)
  PROVE  AheadInv' /\ HeadsInv'
<1>1. CASE Finish(c)
  BY <1>1, FinishKeeps
<1>2. CASE ~Finish(c)
  <2>0. /\ Alive /\ Alive' /\ \A d \in Changes : Rec(d) = mem[d] /\ Rec(d)' = mem'[d]
        /\ UNCHANGED <<phase, stops>>
        /\ OwnRank /\ NoneLeft /\ NoneEnds /\ LineMoves
    BY <1>2, AliveStep, JobMoves, JobLine
  <2>1. AheadInv'
    BY <2>0, AheadKept
  <2>2. lastEnded' = lastEnded /\ \A d \in lastEnded : mem'[d] = mem[d]
    <3>1. CASE UNCHANGED jobVars
      BY <3>1 DEF jobVars
    <3>2. CASE CreateQueued(c) /\ Create(c)
      BY <3>2, CreateKeepsLast DEF Create
    <3>3. ASSUME NEW status \in {"running", "notstarted"}, Update(c, status), mem[c] \in Pending
          PROVE  lastEnded' = lastEnded /\ \A d \in lastEnded : mem'[d] = mem[d]
      BY <2>0, <3>3 DEF Update, HeadsInv, Over, Pending, TypeOK
    <3>4. StartGranted(c) \/ Receive(c) => mem[c] \in Pending
      BY <2>0 DEF StartGranted, Receive, StepInv, Pending
    <3> QED
      BY <1>2, <3>1, <3>2, <3>3, <3>4 DEF Job, QueueJob, TryTicket, Planned, CreateQueued, Abandon, StartGranted, Prepare,
         Receive, BeginWork, EndWork, Release
  <2>3. Lives' = Lives
    BY <2>0 DEF Lives
  <2>4. \A d \in lastEnded : Rec(d)' \in Over
    BY <2>0, <2>2 DEF HeadsInv, TypeOK
  <2> QED
    BY <2>0, <2>1, <2>2, <2>3, <2>4, HeadsKept
<1> QED
  BY <1>1, <1>2

(* Clients, and the process while it is alive, touch no record.            *)
LEMMA AsideKeeps ==
  ASSUME TypeOK, TypeOK', HostInv, SavedInv, SavedInv', AheadInv, HeadsInv, Alive, Alive', UNCHANGED jobVars,
         Lives' = Lives, UNCHANGED pc,
         \A d \in Changes : d \in Now => d \in Now', \A d \in Changes : HasHost(d)' <=> HasHost(d),
         waiting' = waiting \/ waiting' = <<>>
  PROVE  AheadInv' /\ HeadsInv'
<1>1. \A d \in Changes : Rec(d)' = Rec(d) /\ born'[d] = born[d] /\ mem'[d] = mem[d]
  BY DEF Rec, jobVars
<1>2. OwnRank /\ NoneEnds /\ NoneLeft
  BY <1>1 DEF OwnRank, NoneEnds, NoneLeft
<1>3. Passed' = Passed
  BY DEF Passed
<1>4. \A i \in DOMAIN waiting' : i \in Nat /\ i \in DOMAIN waiting /\ waiting'[i] = waiting[i]
  BY DEF TypeOK
<1>5. LineMoves
  BY <1>1, <1>3, <1>4, PassedType DEF LineMoves
<1>6. lastEnded' = lastEnded /\ \A d \in lastEnded : Rec(d)' \in Over
  BY <1>1 DEF jobVars, HeadsInv, TypeOK
<1> QED
  BY <1>2, <1>5, <1>6, AheadKept, HeadsKept

LEMMA ClientKeeps ==
  ASSUME TypeOK, TypeOK', HostInv, SavedInv, SavedInv', AheadInv, HeadsInv, NEW c \in Changes, Client(c)
  PROVE  AheadInv' /\ HeadsInv'
<1>1. Alive /\ UNCHANGED <<phase, stops, queueVars, jobVars, pc>>
  BY DEF Client, Poll, PollEnds, Alive
<1>2. Alive' /\ Lives' = Lives /\ waiting' = waiting
  BY <1>1 DEF Alive, Lives, queueVars
<1>3. \A d \in Changes : (HasHost(d)' <=> HasHost(d)) /\ (d \in Now' <=> d \in Now)
  BY <1>1 DEF HasHost, Now, InLine, queueVars
<1> QED
  BY <1>1, <1>2, <1>3, AsideKeeps

LEMMA StopKeeps ==
  ASSUME TypeOK, TypeOK', HostInv, SavedInv, SavedInv', AheadInv, HeadsInv, Stop \/ CloseQueue \/ ShutdownReturns
  PROVE  AheadInv' /\ HeadsInv'
<1>1. Alive /\ Alive' /\ UNCHANGED <<jobVars, pc>> /\ stops \in Nat
  BY DEF Stop, CloseQueue, ShutdownReturns, Alive, TypeOK
<1>2. Lives' = Lives
  BY <1>1 DEF Stop, CloseQueue, ShutdownReturns, Lives
<1>3. waiting' = waiting \/ waiting' = <<>>
  BY DEF Stop, CloseQueue, ShutdownReturns, queueVars
<1>4. \A d \in Changes : (HasHost(d)' <=> HasHost(d)) /\ (d \in Now => d \in Now')
  <2>1. CASE Stop \/ ShutdownReturns
    BY <1>1, <2>1 DEF Stop, ShutdownReturns, queueVars, HasHost, Now, InLine
  <2>2. CASE CloseQueue
    <3> TAKE d \in Changes
    <3>1. turn'[d] = IF d \in InLine THEN "stop" ELSE turn[d]
      BY <2>2 DEF CloseQueue
    <3>2. d \in InLine => turn[d] = "none"
      BY DEF HostInv, LineInv
    <3> QED
      BY <1>1, <3>1, <3>2 DEF HasHost, Now
  <2> QED
    BY <2>1, <2>2
<1> QED
  BY <1>1, <1>2, <1>3, <1>4, AsideKeeps

(* The daemon's end leaves behind at most one life's jobs.                 *)
LEMMA DeathKeeps ==
  ASSUME TypeOK, TypeOK', HostInv, SavedInv, SavedInv', StepInv, LengthInv, AheadInv, HeadsInv, RoomEnough,
         ShutdownTimesOut \/ Drained \/ DrainExpires \/ Crash
  PROVE  AheadInv' /\ HeadsInv'
<1>0. /\ Die /\ Alive /\ ~Alive' /\ disk = mem
      /\ MaxQueued \in Nat /\ stops \in Nat
  BY DeathIsSaved, QueueAssumption DEF Die, Alive, TypeOK, RoomEnough
<1>1. /\ waiting' = <<>> /\ \A d \in Changes : ~HasHost(d)' /\ turn'[d] = "none"
      /\ lastEnded' = lastEnded /\ born' = born /\ disk' = mem
      /\ \A d \in Changes : mem'[d] = "none" /\ Rec(d)' = mem[d] /\ Rec(d) = mem[d]
  BY <1>0 DEF Die, HasHost, Rec
<1>2. AheadInv'
  <2>1. DOMAIN waiting' = {}
    BY <1>1
  <2> QED
    BY <1>0, <1>1, <2>1 DEF AheadInv, Pending
<1>3. Lives' \in Nat /\ Lives \in Nat /\ Lives' >= Lives + 1
  <2>1. Lives' = stops'
    BY <1>0 DEF Die, Lives
  <2>2. CASE Crash
    BY <1>0, <2>1, <2>2 DEF Crash, Lives, Alive, SavedInv
  <2>3. CASE ShutdownTimesOut \/ Drained \/ DrainExpires
    BY <1>0, <2>1, <2>3 DEF ShutdownTimesOut, Drained, DrainExpires, Lives, SavedInv
  <2> QED
    BY <2>2, <2>3
<1>4. Room \in Nat /\ Room' \in Nat /\ Room' >= Room + (MaxQueued + 1)
  <2>1. Room \in Nat /\ Room' \in Nat
    <3>1. \A l, q \in Nat : l * (q + 1) \in Nat
      OBVIOUS
    <3> QED
      BY <1>0, <1>3, <3>1 DEF Room
  <2>2. ASSUME NEW l \in Nat, NEW m \in Nat, NEW k \in Nat
        PROVE  m >= l + 1 => m * k >= l * k + k
    <3> HAVE m >= l + 1
    <3>1. m - (l + 1) \in Nat /\ m = (m - (l + 1)) + (l + 1)
      OBVIOUS
    <3>2. PICK e \in Nat : m = e + (l + 1)
      BY <3>1
    <3>3. m * k = e * k + l * k + k /\ e * k \in Nat /\ l * k \in Nat
      BY <3>2
    <3> QED
      BY <3>3
  <2>3. Lives' * (MaxQueued + 1) >= Lives * (MaxQueued + 1) + (MaxQueued + 1)
    <3>1. MaxQueued + 1 \in Nat
      BY <1>0
    <3> QED
      BY <1>3, <2>2, <3>1
  <2>4. Room' = Lives' * (MaxQueued + 1)
    BY DEF Room
  <2> QED
    BY <2>1, <2>3, <2>4 DEF Room
<1>5. Now' = {} /\ Now \in SUBSET Changes /\ Cardinality(Now) <= MaxQueued + 1 /\ Cardinality(Now) \in Nat
  <2>1. InLine' = {}
    BY <1>1 DEF InLine
  <2> QED
    BY <1>1, <2>1, NowCount, CountType DEF Now
<1>6. ASSUME NEW c \in Changes
      PROVE  Late(c)' = Late(c) /\ Before(c)' \in SUBSET (Before(c) \cup Now)
  BY <1>1 DEF Late, Before
<1>7. ASSUME NEW c \in Changes, Cardinality(Before(c)) <= Room
      PROVE  Cardinality(Before(c)') <= Room'
  <2>1. Before(c) \in SUBSET Changes /\ Before(c) \cup Now \in SUBSET Changes
    BY LateType, <1>5
  <2>2. /\ Cardinality(Before(c)') <= Cardinality(Before(c) \cup Now)
        /\ Cardinality(Before(c) \cup Now) <= Cardinality(Before(c)) + Cardinality(Now)
        /\ Cardinality(Before(c) \cup Now) \in Nat /\ Cardinality(Before(c)) \in Nat /\ Cardinality(Before(c)') \in Nat
    <3>1. Before(c)' \in SUBSET (Before(c) \cup Now) /\ Before(c)' \in SUBSET Changes
      BY <1>6, <2>1
    <3> QED
      BY <1>5, <2>1, <3>1, CountLess, CountBoth, CountType
  <2> QED
    BY <1>0, <1>4, <1>5, <1>7, <2>2
<1>8. ASSUME NEW c \in Changes, mem[c] = "running"
      PROVE  HasHost(c) /\ Cardinality(Late(c)) <= MaxQueued /\ Cardinality(Before(c)) <= Room
  <2>1. HasHost(c)
    BY <1>8 DEF HostInv, RecordInv, HasHost, Ended
  <2>2. Cardinality(Late(c)) <= MaxQueued /\ Before(c) = {}
    BY <1>0, <1>1, <1>8, <2>1 DEF AheadInv, Pending
  <2> QED
    BY <1>4, <2>1, <2>2, FS_EmptySet
<1>9. ASSUME NEW c \in Heads'
      PROVE  c \in Changes /\ Cardinality(Late(c)) <= MaxQueued /\ Cardinality(Before(c)) <= Room
  <2>1. c \in lastEnded \/ (c \in Changes /\ mem[c] = "running")
    BY <1>1 DEF Heads
  <2> QED
    BY <1>8, <2>1 DEF HeadsInv, Heads, TypeOK
<1>10. \A c \in Heads' : Cardinality(Late(c)') <= MaxQueued /\ Cardinality(Before(c)') <= Room'
  BY <1>6, <1>7, <1>9
<1>11. \A c, d \in Changes : mem[c] = "running" /\ mem[d] = "running" => c = d
  BY <1>8 DEF HostInv, OneHolder
<1>12. \A c \in lastEnded' : Rec(c)' \in Over
  BY <1>1 DEF HeadsInv, TypeOK
<1> QED
  BY <1>1, <1>2, <1>10, <1>11, <1>12 DEF HeadsInv

(* The next daemon finds what ended last, and the one that was cut off.    *)
LEMMA RestartKeeps ==
  ASSUME TypeOK, TypeOK', HostInv, SavedInv, SavedInv', StepInv, LengthInv, HeadsInv, RoomEnough, Restart
  PROVE  AheadInv' /\ HeadsInv'
<1> DEFINE m == [c \in Changes |-> Reopened(disk[c])]
           cut == {c \in Changes : disk[c] = "running"}
<1>0. /\ ~Alive /\ Alive' /\ UNCHANGED <<waiting, turn, pc, born, stops>>
      /\ \A d \in Changes : Rec(d) = disk[d] /\ Rec(d)' = mem'[d]
      /\ \A d \in Changes : ~HasHost(d) /\ ~HasHost(d)' /\ turn[d] = "none"
      /\ waiting = <<>>
  BY DEF Restart, Alive, queueVars, Rec, SavedInv, HasHost
<1>1. /\ mem' = Without(m, Pruned(m, born)) /\ lastEnded' = IF cut # {} THEN cut ELSE lastEnded
      /\ \A d \in Changes : m[d] = Reopened(disk[d]) /\ disk[d] \in Statuses /\ born[d] \in Nat
  BY DEF Restart, TypeOK
<1> HIDE DEF m
<1>2. \A d \in Changes : mem'[d] = m[d] \/ mem'[d] = "none"
  BY <1>1 DEF Without
<1>3. AheadInv'
  <2>1. \A d \in Changes : mem'[d] \notin Pending
    BY <1>1, <1>2 DEF Reopened, Pending
  <2>2. DOMAIN waiting' = {}
    BY <1>0
  <2> QED
    BY <1>0, <2>1, <2>2 DEF AheadInv
<1>4. Now = {} /\ Now' = {}
  <2>1. InLine = {} /\ InLine' = {}
    BY <1>0 DEF InLine
  <2> QED
    BY <1>0, <2>1 DEF Now
<1>5. ASSUME NEW c \in lastEnded'
      PROVE  /\ c \in Changes /\ c \in Heads /\ disk[c] \in Over \cup {"running"}
             /\ \A d \in cut : d = c
  <2>1. CASE cut # {}
    BY <1>1, <1>5, <2>1, <1>0 DEF Heads, HeadsInv
  <2>2. CASE cut = {}
    BY <1>0, <1>1, <1>5, <2>2 DEF Heads, HeadsInv, TypeOK
  <2> QED
    BY <2>1, <2>2
<1> HIDE DEF cut
<1>6. ASSUME NEW c \in lastEnded', NEW d \in Changes, born[d] > born[c], m[d] # "none"
      PROVE  d \in Late(c) \/ d \in Before(c)
  <2>1. disk[d] # "running"
    BY <1>1, <1>5, <1>6 DEF cut
  <2>2. disk[d] \in Over \cup Unstarted
    BY <1>1, <1>6, <2>1 DEF Reopened, Statuses, Over, Unstarted
  <2> QED
    BY <1>0, <1>4, <1>6, <2>2 DEF Late, Before
<1>7. ASSUME NEW c \in lastEnded'
      PROVE  mem'[c] \in Over
  <2>1. Newer(m, born, c) \in SUBSET (Late(c) \cup Before(c))
    BY <1>6 DEF Newer
  <2>2. Cardinality(Newer(m, born, c)) < KeepJobs
    <3>0. MaxQueued \in Nat /\ KeepJobs \in Nat /\ MaxStops * (MaxQueued + 1) \in Nat
      BY QueueAssumption
    <3>1. Late(c) \in SUBSET Changes /\ Before(c) \in SUBSET Changes /\ Late(c) \cup Before(c) \in SUBSET Changes
      BY LateType
    <3>2. /\ Cardinality(Newer(m, born, c)) <= Cardinality(Late(c) \cup Before(c))
          /\ Cardinality(Late(c) \cup Before(c)) <= Cardinality(Late(c)) + Cardinality(Before(c))
          /\ Cardinality(Newer(m, born, c)) \in Nat /\ Cardinality(Late(c)) \in Nat /\ Cardinality(Before(c)) \in Nat
          /\ Cardinality(Late(c) \cup Before(c)) \in Nat
      <4>1. Newer(m, born, c) \in SUBSET Changes
        BY <2>1, <3>1
      <4> QED
        BY <2>1, <3>1, <4>1, CountLess, CountBoth, CountType
    <3>3. Cardinality(Late(c)) <= MaxQueued /\ Cardinality(Before(c)) <= Room
      BY <1>5 DEF HeadsInv
    <3>4. Room \in Nat /\ Room <= MaxStops * (MaxQueued + 1)
      BY RoomType
    <3>5. KeepJobs >= 2 * MaxQueued + 2 + MaxStops * (MaxQueued + 1)
      BY DEF RoomEnough
    <3> QED
      BY <3>0, <3>2, <3>3, <3>4, <3>5
  <2>3. c \notin Pruned(m, born)
    <3>1. Cardinality(Newer(m, born, c)) \in Nat /\ KeepJobs \in Nat
      <4>1. Newer(m, born, c) \in SUBSET Changes
        BY DEF Newer
      <4> QED
        BY <4>1, CountType, QueueAssumption
    <3> QED
      BY <2>2, <3>1 DEF Pruned
  <2>4. mem'[c] = m[c]
    BY <1>1, <1>5, <2>3 DEF Without
  <2> QED
    BY <1>1, <1>5, <2>4 DEF Reopened, Over
<1>8. ASSUME NEW c \in lastEnded'
      PROVE  Late(c)' \in SUBSET Late(c) /\ Before(c)' \in SUBSET Before(c)
  <2>1. ASSUME NEW d \in Changes, mem'[d] \in Over, born[d] > born[c]
        PROVE  disk[d] \in Over
    <3>1. m[d] \in Over /\ disk[d] # "running"
      BY <1>1, <1>2, <1>5, <2>1 DEF Over, cut
    <3> QED
      BY <1>1, <3>1 DEF Reopened, Over, Statuses
  <2>2. ASSUME NEW d \in Changes, mem'[d] \in Unstarted
        PROVE  disk[d] \in Unstarted
    BY <1>1, <1>2, <2>2 DEF Reopened, Unstarted, Statuses
  <2> QED
    BY <1>0, <1>4, <1>5, <2>1, <2>2 DEF Late, Before
<1>9. Room' = Room /\ Room \in Nat
  BY RoomType, <1>0 DEF Restart, Room, Lives
<1>10. \A c \in lastEnded' : Cardinality(Late(c)') <= MaxQueued /\ Cardinality(Before(c)') <= Room'
  <2> TAKE c \in lastEnded'
  <2>1. /\ Cardinality(Late(c)') <= Cardinality(Late(c)) /\ Cardinality(Late(c)) \in Nat /\ Cardinality(Late(c)') \in Nat
        /\ Cardinality(Before(c)') <= Cardinality(Before(c)) /\ Cardinality(Before(c)) \in Nat /\ Cardinality(Before(c)') \in Nat
    <3>1. Late(c) \in SUBSET Changes /\ Before(c) \in SUBSET Changes /\ Late(c)' \in SUBSET Changes /\ Before(c)' \in SUBSET Changes
      BY <1>8, LateType
    <3> QED
      BY <1>8, <3>1, CountLess, CountType
  <2>2. Cardinality(Late(c)) <= MaxQueued /\ Cardinality(Before(c)) <= Room
    BY <1>5 DEF HeadsInv
  <2> QED
    BY <1>9, <2>1, <2>2, QueueAssumption
<1> QED
  BY <1>0, <1>3, <1>5, <1>7, <1>10 DEF HeadsInv, Heads

LEMMA KeepStep ==
  ASSUME TypeOK, TypeOK', HostInv, RoomEnough, KeepInv, [Next]_vars
  PROVE  KeepInv'
<1>1. SavedInv' /\ StepInv' /\ RankInv' /\ LengthInv'
  BY SavedStep, StepStep, RankStep, LengthStep DEF KeepInv, RoomEnough
<1>2. CASE \E c \in Changes : Job(c)
  BY <1>1, <1>2, JobKeeps DEF KeepInv
<1>3. CASE \E c \in Changes : Client(c)
  BY <1>1, <1>3, ClientKeeps DEF KeepInv
<1>4. CASE Stop \/ CloseQueue \/ ShutdownReturns
  BY <1>1, <1>4, StopKeeps DEF KeepInv
<1>5. CASE ShutdownTimesOut \/ Drained \/ DrainExpires \/ Crash
  BY <1>1, <1>5, DeathKeeps DEF KeepInv
<1>6. CASE Restart
  BY <1>1, <1>6, RestartKeeps DEF KeepInv
<1>7. CASE UNCHANGED vars
  <2>1. /\ UNCHANGED <<phase, stops, waiting, turn, granted, pc, mem, disk, born, lastEnded>>
        /\ Alive' = Alive /\ Passed' = Passed /\ Now' = Now /\ Room' = Room
    BY <1>7 DEF vars, Alive, Passed, HasHost, Now, InLine, Room, Lives
  <2>2. \A c \in Changes : Rec(c)' = Rec(c)
    BY <2>1 DEF Rec
  <2>3. \A c : Late(c)' = Late(c) /\ Before(c)' = Before(c)
    BY <2>1, <2>2 DEF Late, Before
  <2>4. Heads' = Heads
    BY <2>1 DEF Heads
  <2>5. AheadInv' /\ HeadsInv'
    BY <2>1, <2>2, <2>3, <2>4 DEF KeepInv, AheadInv, HeadsInv, HasHost, TypeOK
  <2> QED
    BY <1>1, <2>5 DEF KeepInv
<1> QED
  BY <1>2, <1>3, <1>4, <1>5, <1>6, <1>7 DEF Next, Process

LEMMA SavedInit == Init => SavedInv /\ StepInv
BY QueueAssumption DEF Init, Alive, Rec, SavedInv, StepInv, Ended, Pending

LEMMA KeepInit ==
  ASSUME Init, RoomEnough
  PROVE  KeepInv
<1>0. Cardinality({}) = 0 /\ MaxQueued \in Nat /\ MaxStops \in Nat
  BY FS_EmptySet, QueueAssumption
<1>1. Alive /\ waiting = <<>> /\ Len(waiting) = 0 /\ DOMAIN waiting = {} /\ lastEnded = {}
      /\ \A c \in Changes : Rec(c) = "none" /\ born[c] = 0 /\ ~HasHost(c) /\ turn[c] = "none" /\ pc[c] = "new"
  BY DEF Init, Alive, Rec, HasHost, Ended
<1>2. SavedInv /\ StepInv
  BY SavedInit
<1>3. RankInv
  <2>1. {e \in Changes : born[e] > 0} = {}
    BY <1>1
  <2>2. Cardinality({e \in Changes : born[e] > 0}) = 0
    BY <1>0, <2>1
  <2> QED
    BY <1>1, <2>2 DEF RankInv
<1>4. LengthInv
  <2>1. {c \in Changes : turn[c] = "stop"} = {}
    BY <1>1
  <2>2. Cardinality({c \in Changes : turn[c] = "stop"}) = 0
    BY <1>0, <2>1
  <2> QED
    BY <1>0, <1>1, <2>2 DEF LengthInv
<1>5. AheadInv
  BY <1>1 DEF Init, AheadInv, Pending
<1>6. HeadsInv
  BY <1>1 DEF HeadsInv, Heads
<1> QED
  BY <1>2, <1>3, <1>4, <1>5, <1>6 DEF KeepInv

(* lastHostChange always has its record: with room for twice the line, for *)
(* the one that runs and the one just made, and for a line and a holder of *)
(* each daemon before, prune never drops the job that ended last, however  *)
(* many changes are asked and in whatever order they are recorded, end or  *)
(* are cut off.                                                            *)
THEOREM LastEndedAlwaysKept == ASSUME RoomEnough PROVE Spec => []LastEndedKept
<1>1. Init => KeepInv
  BY KeepInit
<1>2. TypeOK /\ TypeOK' /\ HostInv /\ KeepInv /\ [Next]_vars => KeepInv'
  BY KeepStep
<1>3. KeepInv => LastEndedKept
  <2> SUFFICES ASSUME KeepInv, Alive, NEW c \in lastEnded
               PROVE  mem[c] # "none"
    BY DEF LastEndedKept
  <2> QED
    BY DEF KeepInv, HeadsInv, Rec, Over
<1> QED
  BY <1>1, <1>2, <1>3, TypeCorrect, HostCorrect, PTL DEF Spec

----------------------------------------------------------------------------
(* What was begun is never recorded as something that did not start.       *)
BeganInv ==
  /\ ~Alive => \A c \in Changes : mem[c] = "none"
  /\ \A c \in began : /\ Rec(c) \notin Unstarted
                      /\ pc[c] \in {"working", "finish", "fail", "release", "done", "lost"}

LEMMA BeganStep ==
  ASSUME TypeOK, TypeOK', HostInv, SavedInv, SavedInv', StepInv, Written, BeganInv, [Next]_vars
  PROVE  BeganInv'
<1>1. ASSUME NEW c \in Changes, Job(c)
      PROVE  BeganInv'
  <2>0. /\ Alive /\ Alive' /\ \A d \in Changes : Rec(d) = mem[d] /\ Rec(d)' = mem'[d]
        /\ \A d \in Changes \ {c} : pc'[d] = pc[d]
        /\ began \in SUBSET Changes /\ began' \in SUBSET Changes
    BY <1>1, AliveStep DEF TypeOK
  <2>1. ASSUME NEW d \in began, d # c
        PROVE  mem'[d] \notin Unstarted /\ pc'[d] \in {"working", "finish", "fail", "release", "done", "lost"}
    BY <1>1, <2>0, <2>1, MemMoves DEF BeganInv, Unstarted
  <2>2. CASE c \in began
    <3>1. mem[c] \notin Unstarted /\ pc[c] \in {"working", "finish", "fail", "release", "done", "lost"}
      BY <2>0, <2>2 DEF BeganInv
    <3>2. EndWork(c) \/ Finish(c) \/ Release(c)
      BY <1>1, <3>1, SMTT(30) DEF Job, QueueJob, TryTicket, Planned, CreateQueued, Abandon, StartGranted, Prepare, Receive, BeginWork
    <3>3. mem'[c] \notin Unstarted /\ pc'[c] \in {"working", "finish", "fail", "release", "done", "lost"} /\ began' = began
      BY <3>1, <3>2 DEF EndWork, Finish, Release, Update, Goto, jobVars, Unstarted, TypeOK
    <3> QED
      BY <2>0, <2>1, <3>3 DEF BeganInv
  <2>3. CASE BeginWork(c)
    <3>1. began' = began \cup {c} /\ mem[c] = "running" /\ mem' = mem /\ pc'[c] = "working"
      BY <2>0, <2>3 DEF BeginWork, StepInv, jobVars, Goto, TypeOK
    <3> QED
      BY <2>0, <2>1, <3>1 DEF BeganInv, Unstarted
  <2>4. CASE c \notin began /\ ~BeginWork(c)
    <3>1. began' = began
      BY <1>1, <2>4 DEF Job, QueueJob, TryTicket, Planned, CreateQueued, Abandon, StartGranted, Prepare, Receive,
         EndWork, Finish, Release
    <3> QED
      BY <2>0, <2>1, <2>4, <3>1 DEF BeganInv
  <2> QED
    BY <2>2, <2>3, <2>4
<1>2. CASE (\E c \in Changes : Client(c)) \/ Stop \/ CloseQueue \/ ShutdownReturns
  <2>1. Alive /\ Alive' /\ UNCHANGED <<jobVars, pc, began>>
    BY <1>2 DEF Client, Poll, PollEnds, Stop, CloseQueue, ShutdownReturns, Alive
  <2> QED
    BY <2>1 DEF BeganInv, Rec, jobVars
<1>3. CASE ShutdownTimesOut \/ Drained \/ DrainExpires \/ Crash
  <2>1. Die /\ Alive /\ ~Alive' /\ disk = mem
    BY <1>3, DeathIsSaved DEF Die, Alive
  <2>2. /\ \A c \in Changes : Rec(c)' = Rec(c) /\ mem'[c] = "none" /\ pc'[c] \in {pc[c], "lost"}
        /\ began' = began /\ began \in SUBSET Changes
    BY <2>1 DEF Die, Rec, TypeOK
  <2> QED
    BY <2>1, <2>2 DEF BeganInv
<1>4. CASE Restart
  <2>1. ~Alive /\ Alive' /\ UNCHANGED <<pc, began>> /\ began \in SUBSET Changes
    BY <1>4 DEF Restart, Alive, TypeOK
  <2>2. \A c \in Changes : mem'[c] = Reopened(disk[c]) \/ mem'[c] = "none"
    BY <1>4 DEF Restart, Without
  <2>3. \A c \in began : mem'[c] \notin Unstarted
    BY <2>1, <2>2 DEF BeganInv, Rec, Reopened, Unstarted
  <2> QED
    BY <2>1, <2>3 DEF BeganInv, Rec
<1>5. CASE UNCHANGED vars
  BY <1>5 DEF vars, BeganInv, Rec, Alive
<1> QED
  BY <1>1, <1>2, <1>3, <1>4, <1>5 DEF Next, Process

(* A record that says its change was never started tells the truth, in the *)
(* daemon that wrote it and in every later one, as long as records reach   *)
(* the disk.                                                               *)
THEOREM NotStartedIsTrue == ASSUME ~DiskFaults PROVE Spec => []NotStartedNeverRan
<1> DEFINE I == SavedInv /\ StepInv /\ BeganInv
<1>1. Init => I
  BY SavedInit DEF Init, BeganInv, Alive
<1>2. TypeOK /\ TypeOK' /\ HostInv /\ I /\ [Next]_vars => I'
  BY SavedStep, StepStep, BeganStep DEF Written
<1>3. TypeOK /\ I => NotStartedNeverRan
  <2> SUFFICES ASSUME TypeOK, I, NEW c \in began, c \in Changes
               PROVE  mem[c] # "notstarted" /\ disk[c] # "notstarted"
    BY DEF NotStartedNeverRan
  <2>1. Rec(c) # "notstarted"
    BY DEF BeganInv, Unstarted
  <2>2. CASE Alive
    BY <2>1, <2>2 DEF SavedInv, Rec
  <2>3. CASE ~Alive
    BY <2>1, <2>3 DEF BeganInv, Rec
  <2> QED
    BY <2>2, <2>3
<1> HIDE DEF I
<1> QED
  BY <1>1, <1>2, <1>3, TypeCorrect, HostCorrect, PTL DEF Spec

----------------------------------------------------------------------------
(* The queue, launch, the store and the process implement HostLock.        *)

holdersBar == {c \in Changes : HasHost(c)}
workingBar == {c \in Changes : pc[c] = "working"}

(* A step that changes neither who has the host, nor the line, nor who     *)
(* works, is a stutter of the lock.                                        *)
LEMMA LockStutter ==
  ASSUME waiting' = waiting,
         \A c \in Changes : HasHost(c)' <=> HasHost(c),
         \A c \in Changes : pc'[c] = "working" <=> pc[c] = "working"
  PROVE  [Lock!LockNext]_(Lock!lockVars)
<1>1. holdersBar' = holdersBar /\ workingBar' = workingBar
  BY DEF holdersBar, workingBar
<1>2. QED
  BY <1>1 DEF Lock!lockVars, holdersBar, workingBar

(* Who works has the host, so nobody else works.                           *)
LEMMA WorkerHolds ==
  ASSUME HostInv
  PROVE  workingBar \subseteq holdersBar
BY DEF HostInv, TicketInv, workingBar, holdersBar, HasHost, HolderSteps, Ended

LEMMA LockGrant ==
  ASSUME TypeOK, HostInv, NEW c \in Changes, NEW step \in {"ticket", "planning"},
         pc[c] = "new", ~closed, ~busy, GrantAtOnce(c, step)
  PROVE  Lock!Take(c)
<1>1. waiting = <<>> /\ waiting' = waiting
  BY FreeHost DEF GrantAtOnce
<1>2. /\ \A d \in Changes : pc'[d] = IF d = c THEN step ELSE pc[d]
      /\ \A d \in Changes : turn'[d] = IF d = c THEN "run" ELSE turn[d]
  BY DEF GrantAtOnce, Goto, TypeOK
<1>3. holdersBar = {} /\ holdersBar' = {c}
  BY <1>2, FreeHost DEF holdersBar, HasHost, Ended
<1>4. workingBar' = workingBar
  BY <1>2 DEF workingBar
<1>5. QED
  BY <1>1, <1>3, <1>4 DEF Lock!Take, holdersBar, workingBar

LEMMA LockRequest ==
  ASSUME TypeOK, HostInv, NEW c \in Changes, QueueJob(c) \/ TryTicket(c)
  PROVE  [Lock!LockNext]_(Lock!lockVars)
<1>1. pc[c] = "new" /\ turn[c] = "none" /\ c \notin InLine
  BY DEF QueueJob, TryTicket, HostInv, TicketInv, LineInv, LineSteps
<1>2. CASE Goto(c, "refused") /\ UNCHANGED queueVars
  <2>1. /\ turn' = turn /\ waiting' = waiting
        /\ \A d \in Changes : pc'[d] = IF d = c THEN "refused" ELSE pc[d]
    BY <1>2 DEF Goto, queueVars, TypeOK
  <2>2. QED
    BY <1>1, <2>1, LockStutter DEF HasHost, Ended
<1>3. CASE ~closed /\ ~busy /\ \E step \in {"ticket", "planning"} : GrantAtOnce(c, step)
  BY <1>1, <1>3, LockGrant DEF Lock!LockNext
<1>4. CASE /\ ~closed /\ busy
           /\ waiting' = Append(waiting, c)
           /\ Goto(c, "ticket")
           /\ UNCHANGED <<busy, closed, turn, granted>>
  <2>1. \A d \in Changes : pc'[d] = IF d = c THEN "ticket" ELSE pc[d]
    BY <1>4 DEF Goto, TypeOK
  <2>2. holdersBar # {} /\ c \notin holdersBar
    BY <1>1, <1>4 DEF HostInv, BusyInv, holdersBar, HasHost
  <2>3. holdersBar' = holdersBar /\ workingBar' = workingBar
    BY <1>1, <1>4, <2>1 DEF holdersBar, workingBar, HasHost
  <2>4. Lock!Wait(c)
    BY <1>1, <1>4, <2>2, <2>3 DEF Lock!Wait, Lock!Waiters, InLine, holdersBar, workingBar
  <2>5. QED
    BY <2>4 DEF Lock!LockNext
<1>5. QED
  BY <1>2, <1>3, <1>4 DEF QueueJob, TryTicket, TypeOK

(* A step of one change that keeps the queue as it is, and that neither    *)
(* begins nor ends work, is no step of the lock.                           *)
LEMMA LockOwnStep ==
  ASSUME TypeOK, NEW c \in Changes, NEW step \in Steps \ {"working"}, Goto(c, step),
         UNCHANGED <<waiting, turn>>, pc[c] \notin Ended \cup {"working"},
         step \notin Ended \/ turn[c] # "run"
  PROVE  [Lock!LockNext]_(Lock!lockVars)
<1>1. \A d \in Changes : pc'[d] = IF d = c THEN step ELSE pc[d]
  BY DEF Goto, TypeOK
<1>2. QED
  BY <1>1, LockStutter DEF HasHost

LEMMA LockLaunch ==
  ASSUME TypeOK, NEW c \in Changes,
         Planned(c) \/ CreateQueued(c) \/ StartGranted(c) \/ Prepare(c) \/ Receive(c) \/ Finish(c)
  PROVE  [Lock!LockNext]_(Lock!lockVars)
<1>1. UNCHANGED <<waiting, turn>>
  BY DEF Planned, CreateQueued, StartGranted, Prepare, Receive, Finish, queueVars
<1>2. pc[c] \in {"planning", "ticket", "recorded", "prepare", "parked", "finish", "fail"}
  BY DEF Planned, CreateQueued, StartGranted, Prepare, Receive, Finish
<1>3. \E step \in {"ticket", "release", "recorded", "abandon", "prepare", "parked", "fail", "started", "done"} :
         Goto(c, step) /\ (step = "done" => turn[c] = "stop")
  BY DEF Planned, CreateQueued, StartGranted, Prepare, Receive, Finish
<1>4. QED
  BY <1>1, <1>2, <1>3, LockOwnStep DEF Steps, Ended

LEMMA LockWork ==
  ASSUME TypeOK, HostInv, NEW c \in Changes, BeginWork(c) \/ EndWork(c)
  PROVE  [Lock!LockNext]_(Lock!lockVars)
<1>1. UNCHANGED <<waiting, turn>>
  BY DEF BeginWork, EndWork, queueVars
<1>2. HasHost(c) /\ \A d \in Changes : HasHost(d) => d = c
  BY DEF BeginWork, EndWork, HostInv, OneHolder, TicketInv, HasHost, Ended, HolderSteps
<1>3. CASE BeginWork(c)
  <2>1. \A d \in Changes : pc'[d] = IF d = c THEN "working" ELSE pc[d]
    BY <1>3 DEF BeginWork, Goto, TypeOK
  <2>2. holdersBar' = holdersBar /\ c \in holdersBar
    BY <1>1, <1>2, <1>3, <2>1 DEF holdersBar, HasHost, BeginWork, Ended
  <2>3. workingBar' = {c}
    BY <1>2, <2>1, WorkerHolds DEF workingBar, holdersBar
  <2>4. Lock!Begin(c)
    BY <1>1, <2>2, <2>3 DEF Lock!Begin, holdersBar, workingBar
  <2>5. QED
    BY <2>4 DEF Lock!LockNext
<1>4. CASE EndWork(c)
  <2>1. PICK step \in {"finish", "fail"} : \A d \in Changes : pc'[d] = IF d = c THEN step ELSE pc[d]
    BY <1>4 DEF EndWork, Goto, TypeOK
  <2>2. holdersBar' = holdersBar
    BY <1>1, <1>2, <1>4, <2>1 DEF holdersBar, HasHost, EndWork, Ended
  <2>3. workingBar = {c} /\ workingBar' = {}
    BY <1>2, <1>4, <2>1, WorkerHolds DEF workingBar, holdersBar, EndWork
  <2>4. Lock!End(c)
    BY <1>1, <2>2, <2>3 DEF Lock!End, holdersBar, workingBar
  <2>5. QED
    BY <2>4 DEF Lock!LockNext
<1>5. QED
  BY <1>3, <1>4

LEMMA LockAbandon ==
  ASSUME TypeOK, HostInv, NEW c \in Changes, Abandon(c)
  PROVE  [Lock!LockNext]_(Lock!lockVars)
<1>1. pc[c] = "abandon" /\ turn' = turn
  BY DEF Abandon
<1>2. CASE c \in InLine
  <2>1. PICK k \in DOMAIN waiting :
          /\ waiting[k] = c
          /\ waiting' = SubSeq(waiting, 1, k - 1) \o SubSeq(waiting, k + 1, Len(waiting))
          /\ Goto(c, "refused")
    BY <1>2 DEF Abandon
  <2>2. turn[c] = "none"
    BY <1>2 DEF HostInv, LineInv
  <2>3. \A d \in Changes : pc'[d] = IF d = c THEN "refused" ELSE pc[d]
    BY <2>1 DEF Goto, TypeOK
  <2>4. holdersBar' = holdersBar /\ workingBar' = workingBar
    BY <1>1, <2>2, <2>3 DEF holdersBar, workingBar, HasHost
  <2>5. Lock!GiveUp(c)
    BY <2>1, <2>4 DEF Lock!GiveUp, holdersBar, workingBar
  <2>6. QED
    BY <2>5 DEF Lock!LockNext
<1>3. CASE c \notin InLine
  <2>1. waiting' = waiting /\ Goto(c, "release")
    BY <1>3 DEF Abandon, InLine
  <2>2. QED
    BY <1>1, <2>1, LockOwnStep DEF Steps, Ended
<1>4. QED
  BY <1>2, <1>3

LEMMA LockRelease ==
  ASSUME TypeOK, HostInv, NEW c \in Changes, Release(c)
  PROVE  [Lock!LockNext]_(Lock!lockVars)
<1>1. /\ pc[c] = "release" /\ closed' = closed
      /\ \A d \in Changes : pc'[d] = IF d = c THEN "done" ELSE pc[d]
  BY DEF Release, Goto, TypeOK
<1>2. CASE ~HasHost(c)
  <2>1. turn[c] = "stop" /\ closed
    BY <1>1, <1>2, WhoReleases
  <2>2. waiting' = waiting /\ turn' = turn
    BY <2>1 DEF Release
  <2>3. QED
    BY <1>1, <2>1, <2>2, LockStutter DEF HasHost, Ended
<1>3. CASE HasHost(c)
  <2>1. holdersBar = {c} /\ workingBar = {}
    <3>1. holdersBar = {c}
      BY <1>3 DEF HostInv, OneHolder, holdersBar
    <3>2. QED
      BY <1>1, <3>1, WorkerHolds DEF workingBar
  <2>2. workingBar' = {}
    BY <1>1, <2>1 DEF workingBar
  <2>3. CASE (closed \/ waiting = <<>>) /\ UNCHANGED <<waiting, turn>>
    <3>1. waiting = <<>>
      BY <2>3 DEF HostInv, LineInv
    <3>2. holdersBar' = {}
      BY <1>1, <2>1, <2>3 DEF holdersBar, HasHost, Ended
    <3>3. Lock!HandOn(c)
      BY <2>1, <2>2, <2>3, <3>1, <3>2 DEF Lock!HandOn, holdersBar, workingBar
    <3>4. QED
      BY <3>3 DEF Lock!LockNext
  <2>4. CASE /\ ~closed /\ waiting # <<>>
             /\ turn' = [turn EXCEPT ![Head(waiting)] = "run"]
             /\ waiting' = Tail(waiting)
    <3> DEFINE h == Head(waiting)
    <3>1. h \in InLine
      BY <2>4, TailOfLine, LineIsElems DEF TypeOK, HostInv
    <3>2. h \in Changes /\ pc[h] \in LineSteps /\ h # c
      BY <1>1, <3>1, InLineType DEF HostInv, LineInv, LineSteps
    <3>3. \A d \in Changes : turn'[d] = IF d = h THEN "run" ELSE turn[d]
      BY <2>4 DEF TypeOK
    <3> HIDE DEF h
    <3>4. holdersBar' = {h}
      BY <1>1, <2>1, <3>2, <3>3 DEF holdersBar, HasHost, Ended, LineSteps
    <3>5. Lock!HandOn(c)
      BY <2>1, <2>2, <2>4, <3>4 DEF h, Lock!HandOn, holdersBar, workingBar
    <3>6. QED
      BY <3>5 DEF Lock!LockNext
  <2>5. QED
    BY <2>3, <2>4 DEF Release
<1>4. QED
  BY <1>2, <1>3

LEMMA LockDie ==
  ASSUME TypeOK, Die
  PROVE  [Lock!LockNext]_(Lock!lockVars)
<1>1. /\ waiting' = <<>>
      /\ \A d \in Changes : turn'[d] = "none" /\ pc'[d] # "working"
  BY DEF Die, TypeOK, Ended
<1>2. holdersBar' = {} /\ workingBar' = {}
  BY <1>1 DEF holdersBar, workingBar, HasHost
<1>3. Lock!Vanish
  BY <1>1, <1>2 DEF Lock!Vanish, holdersBar, workingBar
<1>4. QED
  BY <1>3 DEF Lock!LockNext

LEMMA LockClose ==
  ASSUME TypeOK, HostInv, CloseQueue
  PROVE  [Lock!LockNext]_(Lock!lockVars)
<1>1. /\ waiting' = <<>> /\ pc' = pc
      /\ \A d \in Changes : turn'[d] = IF d \in InLine THEN "stop" ELSE turn[d]
  BY DEF CloseQueue
<1>2. \A d \in InLine : turn[d] = "none"
  BY DEF HostInv, LineInv
<1>3. holdersBar' = holdersBar /\ workingBar' = workingBar
  BY <1>1, <1>2 DEF holdersBar, workingBar, HasHost
<1>4. Lock!Dismiss
  BY <1>1, <1>3 DEF Lock!Dismiss, holdersBar, workingBar
<1>5. QED
  BY <1>4 DEF Lock!LockNext

(* The rest leaves the queue and every goroutine where they are.           *)
LEMMA LockAside ==
  ASSUME UNCHANGED <<waiting, turn, pc>>
  PROVE  [Lock!LockNext]_(Lock!lockVars)
BY LockStutter DEF HasHost

LEMMA LockStep ==
  ASSUME TypeOK, HostInv, [Next]_vars
  PROVE  [Lock!LockNext]_(Lock!lockVars)
<1>1. ASSUME NEW c \in Changes, Job(c)
      PROVE  [Lock!LockNext]_(Lock!lockVars)
  BY <1>1, LockRequest, LockLaunch, LockWork, LockAbandon, LockRelease DEF Job
<1>2. ASSUME NEW c \in Changes, Client(c)
      PROVE  [Lock!LockNext]_(Lock!lockVars)
  BY <1>2, LockAside DEF Client, Poll, PollEnds, queueVars
<1>3. CASE Stop \/ ShutdownReturns \/ Restart \/ UNCHANGED vars
  BY <1>3, LockAside DEF Stop, ShutdownReturns, Restart, queueVars, vars
<1>4. CASE ShutdownTimesOut \/ Drained \/ DrainExpires \/ Crash
  BY <1>4, LockDie DEF ShutdownTimesOut, Drained, DrainExpires, Crash
<1>5. QED
  BY <1>1, <1>2, <1>3, <1>4, LockClose DEF Next, Process

(* Every behaviour of the daemon is one of a lock with a line: the host is *)
(* taken free or handed to the first in line, and only its holder works.   *)
THEOREM HostLockImplemented == Spec => ImplementsHostLock
<1>1. Init => Lock!LockInit
  BY DEF Init, Lock!LockInit, HasHost, Ended
<1>2. TypeOK /\ HostInv /\ [Next]_vars => [Lock!LockNext]_(Lock!lockVars)
  BY LockStep
<1>3. QED
  BY <1>1, <1>2, TypeCorrect, HostCorrect, PTL DEF Spec, ImplementsHostLock, Lock!LockSpec
=============================================================================
