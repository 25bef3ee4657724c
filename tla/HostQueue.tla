----------------------------- MODULE HostQueue -----------------------------
(***************************************************************************)
(* The daemon runs one change of its host at a time.  This module models   *)
(* how a request becomes a job, waits for the host, runs and ends:         *)
(*                                                                         *)
(*   - hostQueue (pkg/server/queue.go): tickets, the line, closing it;     *)
(*   - queueJob, runJobNow, launch and the part of handleApply that holds  *)
(*     the host while it plans (pkg/server/apply.go);                      *)
(*   - the job store (pkg/server/jobs.go): each record in memory and on    *)
(*     disk, pruning, and what OpenJobs makes of the records at a start;   *)
(*   - Serve's shutdown (pkg/server/server.go), and a daemon that dies.    *)
(*                                                                         *)
(* Each critical section of hostQueue.mu and of Jobs.mu is one action, and *)
(* so is each step a goroutine takes between them.                         *)
(***************************************************************************)
EXTENDS Naturals, Sequences, FiniteSets

CONSTANTS
  Changes,     \* the changes asked of the daemon, one request each
  Applies,     \* those that are applies: they hold the host while they plan
  Immediate,   \* those that cannot wait in line: daemon upgrade, scheduled image retention
  Scheduled,   \* those the daemon asks of itself, on a timer: no HTTP handler runs them
  MaxQueued,   \* maxQueuedJobs
  KeepJobs,    \* keepJobs
  MaxStops,    \* bound: how often the daemon stops or dies
  DiskFaults   \* whether writing a job's record may fail

ASSUME QueueAssumption ==
  /\ IsFiniteSet(Changes)
  /\ Applies \subseteq Changes
  /\ Immediate \subseteq Changes
  /\ Scheduled \subseteq Changes
  /\ Applies \cap (Immediate \cup Scheduled) = {}
  /\ MaxQueued \in Nat
  /\ KeepJobs \in Nat
  /\ MaxStops \in Nat
  /\ DiskFaults \in BOOLEAN

VARIABLES
  phase,    \* where the daemon's process is
  stops,    \* how often it has stopped or died
  busy,     \* hostQueue.busy
  closed,   \* hostQueue.closed
  waiting,  \* hostQueue.waiting, the changes whose tickets are in line
  turn,     \* what each ticket's channel was sent: "run" (true), "stop" (false)
  granted,  \* the changes whose ticket has granted = true
  pc,       \* where each change's handler, then its goroutine, is
  mem,      \* the job's status in Jobs.jobs
  disk,     \* the job's status in its JSON file
  born,     \* the rank of a job's Created (0: no record was ever made)
  polls,    \* jobs a client waits on with GET /v1/jobs/{id}?wait=
  began,    \* history: the changes whose work was ever begun
  lastEnded \* history: the jobs whose Finished is the latest, those that never started apart

queueVars == <<busy, closed, waiting, turn, granted>>
jobVars   == <<mem, disk, born, lastEnded>>
procVars  == <<phase, stops, polls>>
vars == <<phase, stops, busy, closed, waiting, turn, granted, pc,
          mem, disk, born, polls, began, lastEnded>>

Phases == {"serving", "stopping", "shutdown", "draining", "down"}

Steps == {"new", "planning", "ticket", "abandon", "recorded", "prepare",
          "parked", "started", "working", "finish", "fail", "release",
          "done", "refused", "lost"}

(* JobStatus.  "notstarted" is JobInterrupted with the error notStarted,   *)
(* "interrupted" is JobInterrupted with the error that says the host may   *)
(* be part-way through it; "none" is no record.                            *)
Statuses == {"none", "queued", "running", "succeeded", "failed",
             "interrupted", "notstarted"}

Pending == {"queued", "running"}

InLine == {waiting[i] : i \in DOMAIN waiting}

(* The steps a change takes inside its HTTP handler, and those of the      *)
(* goroutine launch starts (which Server.jobsWG counts).                   *)
HandlerSteps   == {"planning", "ticket", "abandon", "recorded", "prepare"}
GoroutineSteps == {"parked", "started", "working", "finish", "fail", "release"}

Ended == {"new", "done", "refused", "lost"}

(* A change has the host from the moment its ticket is granted until its   *)
(* release.                                                                *)
HasHost(c) == turn[c] = "run" /\ pc[c] \notin Ended

Serving == phase \in {"serving", "stopping", "shutdown"}
Alive   == phase # "down"

TypeOK ==
  /\ phase \in Phases
  /\ stops \in Nat
  /\ busy \in BOOLEAN
  /\ closed \in BOOLEAN
  /\ waiting \in Seq(Changes)
  /\ turn \in [Changes -> {"none", "run", "stop"}]
  /\ granted \in SUBSET Changes
  /\ pc \in [Changes -> Steps]
  /\ mem \in [Changes -> Statuses]
  /\ disk \in [Changes -> Statuses]
  /\ born \in [Changes -> Nat]
  /\ polls \in SUBSET Changes
  /\ began \in SUBSET Changes
  /\ lastEnded \in SUBSET Changes

Init ==
  /\ phase = "serving"
  /\ stops = 0
  /\ busy = FALSE
  /\ closed = FALSE
  /\ waiting = <<>>
  /\ turn = [c \in Changes |-> "none"]
  /\ granted = {}
  /\ pc = [c \in Changes |-> "new"]
  /\ mem = [c \in Changes |-> "none"]
  /\ disk = [c \in Changes |-> "none"]
  /\ born = [c \in Changes |-> 0]
  /\ polls = {}
  /\ began = {}
  /\ lastEnded = {}

----------------------------------------------------------------------------
(* The job store.                                                          *)

Goto(c, step) == pc' = [pc EXCEPT ![c] = step]

(* persist: a temporary file and a rename, so a failed write leaves the    *)
(* record that was there.  update, Finish and Interrupt ignore its error.  *)
Update(c, status) ==
  /\ mem' = [mem EXCEPT ![c] = status]
  /\ \/ disk' = [disk EXCEPT ![c] = status]
     \/ DiskFaults /\ disk' = disk
  /\ lastEnded' = IF status \in {"succeeded", "failed"} THEN {c} ELSE lastEnded
  /\ UNCHANGED born

(* The records newer than c's, among those that exist in m.                *)
Newer(m, b, c) == {d \in Changes : m[d] # "none" /\ b[d] > b[c]}

(* A slip: one record too few is kept.                                     *)
PrunedOneMore(m, b) ==
  {c \in Changes : /\ m[c] \notin Pending \cup {"none"}
                   /\ Cardinality(Newer(m, b, c)) >= KeepJobs - 1}

(* prune keeps the newest KeepJobs records; a pending one is never removed.*)
Pruned(m, b) ==
  {c \in Changes : /\ m[c] \notin Pending \cup {"none"}
                   /\ Cardinality(Newer(m, b, c)) >= KeepJobs}

(* A slip: readers of the store meet a key that is gone.                   *)
WithoutKeys(m, gone) == [c \in Changes \ gone |-> m[c]]

Without(m, gone) == [c \in Changes |-> IF c \in gone THEN "none" ELSE m[c]]

(* create, as CreateQueued: the record, then prune.                        *)
Create(c) ==
  LET b == [born EXCEPT ![c] = Cardinality({d \in Changes : born[d] > 0}) + 1]
      m == [mem EXCEPT ![c] = "queued"]
      gone == Pruned(m, b)
  IN  /\ born' = b
      /\ mem'  = Without(m, gone)
      /\ disk' = Without([disk EXCEPT ![c] = "queued"], gone)
      /\ UNCHANGED lastEnded

(* A slip: every pending record is taken for one that never started.       *)
ReopenedAlike(status) == IF status \in Pending THEN "notstarted" ELSE status

(* What OpenJobs makes of a record the previous daemon left.               *)
Reopened(status) ==
  CASE status = "running" -> "interrupted"
    [] status = "queued"  -> "notstarted"
    [] OTHER              -> status

----------------------------------------------------------------------------
(* Getting a ticket.                                                       *)

GrantAtOnce(c, step) ==
  /\ busy' = TRUE
  /\ turn' = [turn EXCEPT ![c] = "run"]
  /\ granted' = granted \cup {c}
  /\ Goto(c, step)
  /\ UNCHANGED <<closed, waiting>>

(* queueJob: enqueue takes the host if it is free, else a place in line.   *)
QueueJob(c) ==
  /\ Serving
  /\ pc[c] = "new"
  /\ c \notin Applies \cup Immediate
  /\ \/ /\ ~closed /\ ~busy
        /\ GrantAtOnce(c, "ticket")
     \/ /\ ~closed /\ busy /\ Len(waiting) < MaxQueued
        /\ waiting' = Append(waiting, c)
        /\ Goto(c, "ticket")
        /\ UNCHANGED <<busy, closed, turn, granted>>
     \/ /\ closed \/ (busy /\ Len(waiting) >= MaxQueued)
        /\ Goto(c, "refused")
        /\ UNCHANGED queueVars
  /\ UNCHANGED <<jobVars, procVars, began>>

(* A slip: only the line is looked at, not the host.                       *)
TryTicketUnseen(c) ==
  /\ Serving
  /\ pc[c] = "new"
  /\ c \in Applies \cup Immediate
  /\ IF closed \/ waiting # <<>>
     THEN Goto(c, "refused") /\ UNCHANGED queueVars
     ELSE GrantAtOnce(c, IF c \in Applies THEN "planning" ELSE "ticket")
  /\ UNCHANGED <<jobVars, procVars, began>>

(* tryTicket: the host only if it is free and nobody waits.  An apply then *)
(* plans with the host held; runJobNow goes on to launch.                  *)
TryTicket(c) ==
  /\ Serving
  /\ pc[c] = "new"
  /\ c \in Applies \cup Immediate
  /\ IF closed \/ busy \/ waiting # <<>>
     THEN Goto(c, "refused") /\ UNCHANGED queueVars
     ELSE GrantAtOnce(c, IF c \in Applies THEN "planning" ELSE "ticket")
  /\ UNCHANGED <<jobVars, procVars, began>>

(* handleApply's plan is the approved one, so launch takes over; or the    *)
(* request is answered without a job and the deferred release runs.        *)
Planned(c) ==
  /\ Alive
  /\ pc[c] = "planning"
  /\ Goto(c, "ticket") \/ Goto(c, "release")
  /\ UNCHANGED <<queueVars, jobVars, procVars, began>>

----------------------------------------------------------------------------
(* launch.                                                                 *)

CreateQueued(c) ==
  /\ Alive
  /\ pc[c] = "ticket"
  /\ \/ Create(c) /\ Goto(c, "recorded")
     \/ DiskFaults /\ Goto(c, "abandon") /\ UNCHANGED jobVars
  /\ UNCHANGED <<queueVars, procVars, began>>

(* A slip: the place in line is not given up, the host is released.        *)
AbandonReleases(c) ==
  /\ Alive
  /\ pc[c] = "abandon"
  /\ Goto(c, "release")
  /\ UNCHANGED <<waiting, busy, closed, turn, granted, jobVars, procVars, began>>

(* abandon: give up the place in line, or release the host if the ticket   *)
(* is not in line any more.                                                *)
Abandon(c) ==
  /\ Alive
  /\ pc[c] = "abandon"
  /\ \/ \E i \in DOMAIN waiting :
          /\ waiting[i] = c
          /\ waiting' = SubSeq(waiting, 1, i - 1) \o SubSeq(waiting, i + 1, Len(waiting))
          /\ Goto(c, "refused")
     \/ /\ c \notin InLine
        /\ Goto(c, "release")
        /\ UNCHANGED waiting
  /\ UNCHANGED <<busy, closed, turn, granted, jobVars, procVars, began>>

(* A slip: a job that waits in line is started as well.                    *)
StartAny(c) ==
  /\ Alive
  /\ pc[c] = "recorded"
  /\ Update(c, "running")
  /\ Goto(c, IF c \in Applies THEN "prepare" ELSE "parked")
  /\ UNCHANGED <<queueVars, procVars, began>>

(* A ticket granted at once starts its job before the goroutine exists.    *)
(* Only an apply has something to prepare.                                 *)
StartGranted(c) ==
  /\ Alive
  /\ pc[c] = "recorded"
  /\ IF c \in granted THEN Update(c, "running") ELSE UNCHANGED jobVars
  /\ Goto(c, IF c \in Applies THEN "prepare" ELSE "parked")
  /\ UNCHANGED <<queueVars, procVars, began>>

(* prepare uses the approval up; its error ends the job as failed.         *)
Prepare(c) ==
  /\ Alive
  /\ pc[c] = "prepare"
  /\ Goto(c, "parked") \/ Goto(c, "fail")
  /\ UNCHANGED <<queueVars, jobVars, procVars, began>>

(* The goroutine receives from the ticket's channel.                       *)
Receive(c) ==
  /\ Alive
  /\ pc[c] = "parked"
  /\ \/ /\ turn[c] = "run"
        /\ IF c \in granted THEN UNCHANGED jobVars ELSE Update(c, "running")
        /\ Goto(c, "started")
     \/ /\ turn[c] = "stop"
        /\ Update(c, "notstarted")
        /\ Goto(c, "done")
  /\ UNCHANGED <<queueVars, procVars, began>>

BeginWork(c) ==
  /\ Alive
  /\ pc[c] = "started"
  /\ began' = began \cup {c}
  /\ Goto(c, "working")
  /\ UNCHANGED <<queueVars, jobVars, procVars>>

(* The work returns, or panics (which counts as an error).                 *)
EndWork(c) ==
  /\ Alive
  /\ pc[c] = "working"
  /\ Goto(c, "finish") \/ Goto(c, "fail")
  /\ UNCHANGED <<queueVars, jobVars, procVars, began>>

(* end: Finish is recorded, and only then is the host handed on.           *)
Finish(c) ==
  /\ Alive
  /\ \/ pc[c] = "finish" /\ Update(c, "succeeded")
     \/ pc[c] = "fail" /\ Update(c, "failed")
  /\ Goto(c, "release")
  /\ UNCHANGED <<queueVars, procVars, began>>

(* A slip: the host goes to the last in line.                              *)
ReleaseToLast(c) ==
  /\ Alive
  /\ pc[c] = "release"
  /\ \/ /\ closed \/ waiting = <<>>
        /\ busy' = FALSE
        /\ UNCHANGED <<waiting, turn>>
     \/ /\ ~closed /\ waiting # <<>>
        /\ turn' = [turn EXCEPT ![waiting[Len(waiting)]] = "run"]
        /\ waiting' = SubSeq(waiting, 1, Len(waiting) - 1)
        /\ UNCHANGED busy
  /\ Goto(c, "done")
  /\ UNCHANGED <<closed, granted, jobVars, procVars, began>>

(* A slip: the host is freed, and the line is left to wait.                *)
ReleaseOnly(c) ==
  /\ Alive
  /\ pc[c] = "release"
  /\ busy' = FALSE
  /\ Goto(c, "done")
  /\ UNCHANGED <<waiting, turn, closed, granted, jobVars, procVars, began>>

(* release: hand the host to the next in line, or free it.                 *)
Release(c) ==
  /\ Alive
  /\ pc[c] = "release"
  /\ \/ /\ closed \/ waiting = <<>>
        /\ busy' = FALSE
        /\ UNCHANGED <<waiting, turn>>
     \/ /\ ~closed /\ waiting # <<>>
        /\ turn' = [turn EXCEPT ![Head(waiting)] = "run"]
        /\ waiting' = Tail(waiting)
        /\ UNCHANGED busy
  /\ Goto(c, "done")
  /\ UNCHANGED <<closed, granted, jobVars, procVars, began>>

----------------------------------------------------------------------------
(* handleJob with wait: the handler stays until the job ends or the wait   *)
(* (at most a minute) is over.  One client at a time is enough to see it.  *)

Poll(c) ==
  /\ phase \in {"serving", "stopping"}
  /\ polls = {}
  /\ mem[c] \in Pending
  /\ polls' = {c}
  /\ UNCHANGED <<phase, stops, queueVars, jobVars, pc, began>>

PollEnds(c) ==
  /\ Alive
  /\ c \in polls
  /\ polls' = polls \ {c}
  /\ UNCHANGED <<phase, stops, queueVars, jobVars, pc, began>>

----------------------------------------------------------------------------
(* The process: a stop (a signal, or Restart after an upgrade) cancels the *)
(* context Serve waits on.                                                 *)

Stop ==
  /\ phase = "serving"
  /\ stops < MaxStops
  /\ phase' = "stopping"
  /\ stops' = stops + 1
  /\ UNCHANGED <<queueVars, jobVars, polls, pc, began>>

(* A slip: the line is dropped, and nobody in it is told.                  *)
CloseSilently ==
  /\ phase = "stopping"
  /\ phase' = "shutdown"
  /\ closed' = TRUE
  /\ waiting' = <<>>
  /\ UNCHANGED <<stops, polls, busy, turn, granted, jobVars, pc, began>>

(* hostQueue.close: everyone in line is told it will not run.              *)
CloseQueue ==
  /\ phase = "stopping"
  /\ phase' = "shutdown"
  /\ closed' = TRUE
  /\ turn' = [c \in Changes |-> IF c \in InLine THEN "stop" ELSE turn[c]]
  /\ waiting' = <<>>
  /\ UNCHANGED <<stops, polls, busy, granted, jobVars, pc, began>>

(* http.Server.Shutdown returns once no handler is left; a timer's         *)
(* goroutine is none.                                                      *)
ShutdownReturns ==
  /\ phase = "shutdown"
  /\ polls = {}
  /\ \A c \in Changes \ Scheduled : pc[c] \notin HandlerSteps
  /\ phase' = "draining"
  /\ UNCHANGED <<stops, polls, queueVars, jobVars, pc, began>>

(* The process is gone: its goroutines and its memory with it.             *)
Die ==
  /\ phase' = "down"
  /\ pc' = [c \in Changes |-> IF pc[c] \in Ended THEN pc[c] ELSE "lost"]
  /\ mem' = [c \in Changes |-> "none"]
  /\ busy' = FALSE /\ closed' = FALSE /\ waiting' = <<>>
  /\ turn' = [c \in Changes |-> "none"]
  /\ granted' = {}
  /\ polls' = {}
  /\ UNCHANGED <<disk, born, began, lastEnded>>

(* Handlers that can outlast the ten seconds Shutdown is given: a client   *)
(* waiting on a job, and an apply that is still reading or planning.       *)
SlowHandlers == polls \cup {c \in Changes : pc[c] = "planning"}

(* Shutdown's timeout is an error of Serve, which ends the process         *)
(* (log.Fatalf in handleServeCommand) without WaitForJobs.                 *)
ShutdownTimesOut ==
  /\ phase = "shutdown"
  /\ SlowHandlers # {}
  /\ Die
  /\ UNCHANGED stops

(* WaitForJobs: every goroutine has ended, or JobDrain is over.            *)
Drained ==
  /\ phase = "draining"
  /\ \A c \in Changes : pc[c] \notin GoroutineSteps
  /\ Die
  /\ UNCHANGED stops

DrainExpires ==
  /\ phase = "draining"
  /\ \E c \in Changes : pc[c] \in GoroutineSteps
  /\ Die
  /\ UNCHANGED stops

(* The daemon dies at any point (killed, power lost).                      *)
Crash ==
  /\ Alive
  /\ stops < MaxStops
  /\ Die
  /\ stops' = stops + 1

(* The next start: OpenJobs ends the records the last daemon left pending, *)
(* saves them (ignoring an error) and prunes.                              *)
Restart ==
  /\ phase = "down"
  /\ phase' = "serving"
  /\ LET m == [c \in Changes |-> Reopened(disk[c])]
         gone == Pruned(m, born)
         cut == {c \in Changes : disk[c] = "running"}
     IN  /\ lastEnded' = IF cut # {} THEN cut ELSE lastEnded
         /\ \E unsaved \in SUBSET {c \in Changes : disk[c] \in Pending} :
              /\ DiskFaults \/ unsaved = {}
              /\ mem' = Without(m, gone)
              /\ disk' = Without([c \in Changes |-> IF c \in unsaved THEN disk[c] ELSE m[c]], gone)
  /\ UNCHANGED <<stops, polls, queueVars, born, pc, began>>

----------------------------------------------------------------------------

Job(c) ==
  \/ QueueJob(c) \/ TryTicket(c) \/ Planned(c)
  \/ CreateQueued(c) \/ Abandon(c) \/ StartGranted(c) \/ Prepare(c)
  \/ Receive(c) \/ BeginWork(c) \/ EndWork(c) \/ Finish(c) \/ Release(c)

Client(c) == Poll(c) \/ PollEnds(c)

Process ==
  \/ Stop \/ CloseQueue \/ ShutdownReturns \/ ShutdownTimesOut
  \/ Drained \/ DrainExpires \/ Crash \/ Restart

Next == (\E c \in Changes : Job(c) \/ Client(c)) \/ Process

Spec == Init /\ [][Next]_vars

(* A goroutine that can take a step takes it.  Work ends: its context is   *)
(* cancelled after maxApplyDuration.  Handlers run to their answer, a wait *)
(* ends, and a stop goes on to the exit.                                   *)
(* Nothing says that a request ever arrives or that the daemon ever stops. *)
Fairness ==
  /\ \A c \in Changes :
       /\ WF_vars(Planned(c) \/ CreateQueued(c) \/ Abandon(c) \/ StartGranted(c) \/ Prepare(c))
       /\ WF_vars(Receive(c) \/ BeginWork(c) \/ EndWork(c) \/ Finish(c) \/ Release(c))
       /\ WF_vars(PollEnds(c))
  /\ WF_vars(CloseQueue)
  /\ WF_vars(ShutdownReturns \/ ShutdownTimesOut)
  /\ WF_vars(Drained \/ DrainExpires)

FairSpec == Spec /\ Fairness

----------------------------------------------------------------------------
(* Properties.                                                             *)

(* One change has the host at a time: two jobs that both touch Incus, the  *)
(* edge or the images would step on each other (queue.go's header).        *)
OneHolder == \A c, d \in Changes : HasHost(c) /\ HasHost(d) => c = d

(* A record says "running" only while its job has the host, so GET         *)
(* /v1/jobs never shows two, and no job is Started before the one it       *)
(* followed is Finished (the order of Finish and release in launch's end). *)
RunningHasHost == \A c \in Changes : mem[c] = "running" => HasHost(c)

(* Nobody is forgotten: a goroutine that waits on its channel was sent an  *)
(* answer or is in line, and a line always has somebody ahead of it who    *)
(* will release the host (release, abandon and close against each other).  *)
NobodyForgotten ==
  /\ \A c \in Changes : pc[c] = "parked" /\ turn[c] = "none" => c \in InLine
  /\ waiting # <<>> => \E c \in Changes : HasHost(c)

(* First come first served, one at a time, and only the holder works: the  *)
(* steps of the queue, of launch and of a stop are steps of a lock with a  *)
(* line, or change nothing of it (queue.go's header).                      *)
Lock == INSTANCE HostLock WITH
          holders <- {c \in Changes : HasHost(c)},
          line    <- waiting,
          working <- {c \in Changes : pc[c] = "working"}

ImplementsHostLock == Lock!LockSpec

(* Why that is so, from one step to the next: who is in line, what each    *)
(* ticket was told, and what busy and closed say of who has the host.      *)
LineSteps   == {"ticket", "abandon", "recorded", "parked"}
HolderSteps == {"planning", "prepare", "started", "working", "finish", "fail"}

LineInv ==
  /\ \A c \in InLine : turn[c] = "none" /\ pc[c] \in LineSteps /\ c \notin Applies
  /\ \A i, j \in DOMAIN waiting : waiting[i] = waiting[j] => i = j
  /\ closed \/ ~busy => waiting = <<>>

TicketInv ==
  \A c \in Changes :
    /\ pc[c] = "new" => turn[c] = "none" /\ c \notin granted
    /\ turn[c] = "stop" => closed
    /\ pc[c] \notin Ended /\ turn[c] = "none" => c \in InLine
    /\ pc[c] \in HolderSteps => turn[c] = "run"
    /\ pc[c] \notin Ended /\ c \in granted \cup Applies => turn[c] = "run"

BusyInv ==
  /\ \A c \in Changes : HasHost(c) => busy \/ closed
  /\ busy /\ ~closed => \E c \in Changes : HasHost(c)

RecordInv ==
  \A c \in Changes :
    mem[c] = "running" =>
      /\ turn[c] = "run"
      /\ pc[c] \in {"prepare", "parked", "started", "working", "finish", "fail"}

HostInv == LineInv /\ TicketInv /\ BusyInv /\ RecordInv /\ OneHolder

(* A record that says nothing was done (notStarted) tells the truth: the   *)
(* job's work never began, in this daemon or in one that died before it.   *)
NotStartedNeverRan ==
  \A c \in Changes : "notstarted" \in {mem[c], disk[c]} => c \notin began

(* prune never drops the record lastHostChange is answered from: the job   *)
(* that ended last.  Newer by Created are at most those ahead of it in line*)
(* that were recorded late (MaxQueued), and those behind it with the one   *)
(* that runs (MaxQueued + 1), so KeepJobs >= 2 * MaxQueued + 2 is enough   *)
(* while the daemon runs (keepJobs is 200, maxQueuedJobs 20); each restart *)
(* can add MaxQueued + 1 that never started.                               *)
LastEndedKept == Alive => \A c \in lastEnded : mem[c] # "none"

(* Every job that is recorded ends, or its daemon does: no waiter starves, *)
(* and no wakeup is lost between release, abandon and close.               *)
EveryJobEnds == \A c \in Changes : mem[c] \in Pending ~> mem[c] \notin Pending

(* Every job ends, and what its record says of it then is true.            *)
EndsAsTold == []NotStartedNeverRan /\ EveryJobEnds

(* What the unit file, the daemon's documentation and Serve's comment say  *)
(* of a stop: the job that runs is finished before the daemon exits, unless*)
(* that takes longer than JobDrain.                                        *)
StopLetsWorkFinish ==
  [][phase = "shutdown" /\ phase' = "down" /\ stops' = stops
       => \A c \in Changes : pc[c] # "working"]_vars
=============================================================================
