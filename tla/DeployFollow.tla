--------------------------- MODULE DeployFollow ---------------------------
(***************************************************************************)
(* A deploy first brings the daemon to the release and the flags its       *)
(* commit names, restarting it for each, and goes on as a new job on the   *)
(* daemon that comes up.  This module is that deploy (pkg/server/pin.go,   *)
(* deploy.go), an admin's upgrade (upgrade.go), and the process around     *)
(* them (cmd/native-ops/serve.go and its unit): the guard, the load of the *)
(* flags, the two waits after which a start counts, the resume, and the    *)
(* stop that drains.  The host is the lock HostQueue implements.           *)
(***************************************************************************)
EXTENDS SelfUpdate, ServeFlags, FiniteSets

CONSTANTS
  Deploys,    \* deploys asked for
  Upgrades,   \* upgrades an admin asks for
  Commits,    \* what a tag may name: <<the release (or none), the flags>>
  Sound,      \* the pairs <<binary, flags>> that stay up
  MaxKills,   \* bound: how often a daemon that would stay up is killed
  Overlaps,   \* whether requests may arrive while the daemon is not at rest
  DiskFaults  \* whether writing the resume file may fail

Pairs == Binaries \X Sets
Wanted == (Binaries \cup {NoBinary}) \X Sets

ASSUME FollowAssumption ==
  /\ Deploys \cap Upgrades = {}
  /\ Commits \subseteq Wanted
  /\ Sound \subseteq Pairs
  /\ MaxKills \in Nat
  /\ Overlaps \in BOOLEAN
  /\ DiskFaults \in BOOLEAN

Requests == Deploys \cup Upgrades

VARIABLES
  proc,     \* where the process is
  running,  \* the binary it runs
  runset,   \* the flags it runs with (DaemonFlags.Running and Managed)
  binTimer, \* selfupdate.Commit in this process
  setTimer, \* serveflags.Commit in this process
  resumer,  \* what follows the two: ResumeDeploy
  restart,  \* whether Restart was called
  holder,   \* the request that has the host
  at,       \* where each request's job is
  from,     \* what the job was resumed from: deployResume, or "none"
  commit,   \* the commit its tag named
  resume,   \* ResumeFile
  taken,    \* the record ResumeDeploy has read and removed
  proven,   \* history: the pairs that have served for CommitAfter
  moves,    \* history: how often a deploy restarted the daemon, for what
  kills

procVars   == <<proc, running, runset, binTimer, setTimer, resumer, restart, kills>>
deployVars == <<holder, at, from, commit, moves>>
fileVars   == <<resume, taken>>
vars == <<binVars, setVars, procVars, deployVars, fileVars, proven>>

Causes == {"version", "flags"}
NoRecord == <<>>
ResumeRecords == Deploys \X Pairs \X Causes

(* "parked": the job restarted the daemon, and its deploy waits to be      *)
(* resumed; "lost": nothing will resume it.                                *)
Steps == {"new", "waiting", "fetch", "version", "installing", "record",
          "flags", "recordflags", "work", "ending", "finish",
          "parked", "done", "refused", "lost"}

Alive == proc \in {"loading", "up", "restarting", "closing"}

TypeOK ==
  /\ BinTypeOK
  /\ SetTypeOK
  /\ proc \in {"down", "clearing", "exec", "loading", "up", "restarting", "closing"}
  /\ running \in Binaries
  /\ runset \in Sets
  /\ binTimer \in {"none", "armed", "fired", "done"}
  /\ setTimer \in {"none", "armed", "fired", "done"}
  /\ resumer \in {"waiting", "taken", "over"}
  /\ restart \in BOOLEAN
  /\ holder \in SUBSET Requests
  /\ at \in [Requests -> Steps]
  /\ from \in [Requests -> Causes \cup {"none"}]
  /\ commit \in [Requests -> Wanted]
  /\ resume \in ResumeRecords \cup {NoRecord}
  /\ taken \in ResumeRecords \cup {NoRecord}
  /\ proven \in SUBSET Pairs
  /\ moves \in [Requests -> [Causes -> 0 .. 2]]
  /\ kills \in 0 .. MaxKills

(* A daemon that has served for a while, with whatever flags.             *)
Init ==
  /\ BinInit
  /\ SetInit
  /\ proc = "up"
  /\ <<cur, kept>> \in Sound
  /\ running = cur
  /\ runset = kept
  /\ binTimer = "none" /\ setTimer = "none"
  /\ resumer = "over"
  /\ restart = FALSE
  /\ holder = {}
  /\ at = [r \in Requests |-> "new"]
  /\ from = [r \in Requests |-> "none"]
  /\ commit = [r \in Requests |-> <<cur, kept>>]
  /\ resume = NoRecord
  /\ taken = NoRecord
  /\ proven = {<<cur, kept>>}
  /\ moves = [r \in Requests |-> [c \in Causes |-> 0]]
  /\ kills = 0

----------------------------------------------------------------------------
(* The process.                                                            *)

Guard ==
  /\ proc = "down"
  /\ \/ GuardCounts /\ proc' = "exec"
     \/ GuardRestores /\ proc' = "clearing"
  /\ UNCHANGED <<setVars, running, runset, binTimer, setTimer, resumer, restart, kills,
                 deployVars, fileVars, proven>>

ClearUpgrade ==
  /\ proc = "clearing"
  /\ GuardClears
  /\ proc' = "exec"
  /\ UNCHANGED <<setVars, running, runset, binTimer, setTimer, resumer, restart, kills,
                 deployVars, fileVars, proven>>

Exec ==
  /\ proc = "exec"
  /\ proc' = "loading"
  /\ running' = cur
  /\ UNCHANGED <<binVars, setVars, runset, binTimer, setTimer, resumer, restart, kills,
                 deployVars, fileVars, proven>>

(* The flags are loaded, the daemon serves, and each Commit looks whether  *)
(* something is pending.  Files that cannot be read or counted are left    *)
(* out (Load's errors start the daemon with the unit's flags).             *)
Serve ==
  /\ proc = "loading"
  /\ proc' = "up"
  /\ \E set \in Sets : Load(set) /\ runset' = set
  /\ binTimer' = IF pending THEN "armed" ELSE "none"
  /\ setTimer' = IF staged' # NoSet THEN "armed" ELSE "none"
  /\ resumer' = "waiting"
  /\ UNCHANGED <<binVars, running, restart, kills, deployVars, fileVars, proven>>

StaysUp == <<running, runset>> \in Sound

(* The wait is over before the stop; then the files are changed.           *)
BinServed ==
  /\ proc = "up" /\ StaysUp
  /\ binTimer = "armed"
  /\ binTimer' = "fired"
  /\ proven' = proven \cup {<<running, runset>>}
  /\ UNCHANGED <<binVars, setVars, proc, running, runset, setTimer, resumer, restart, kills,
                 deployVars, fileVars>>

BinCommitted ==
  /\ Alive
  /\ binTimer = "fired"
  /\ binTimer' = "done"
  /\ CommitBinary
  /\ UNCHANGED <<setVars, proc, running, runset, setTimer, resumer, restart, kills,
                 deployVars, fileVars, proven>>

SetServed ==
  /\ proc = "up" /\ StaysUp
  /\ setTimer = "armed"
  /\ setTimer' = "fired"
  /\ proven' = proven \cup {<<running, runset>>}
  /\ UNCHANGED <<binVars, setVars, proc, running, runset, binTimer, resumer, restart, kills,
                 deployVars, fileVars>>

SetCommitted ==
  /\ Alive
  /\ setTimer = "fired"
  /\ \/ ForgetKept /\ UNCHANGED setTimer
     \/ CommitSet /\ setTimer' = "done"
  /\ UNCHANGED <<binVars, proc, running, runset, binTimer, resumer, restart, kills,
                 deployVars, fileVars, proven>>

(* The daemon dies: whatever ran in it is cut off, and a record that was   *)
(* removed to be resumed is gone.                                          *)
Cut(r) ==
  IF at[r] \in {"new", "done", "refused", "lost"} THEN at[r]
  ELSE IF at[r] = "parked" /\ (taken = NoRecord \/ taken[1] # r) THEN "parked"
  ELSE IF at[r] = "ending" /\ resume # NoRecord /\ resume[1] = r THEN "parked"
  ELSE "lost"

Down ==
  /\ proc' = "down"
  /\ binTimer' = "none" /\ setTimer' = "none"
  /\ resumer' = "over"
  /\ restart' = FALSE
  /\ install' = "idle"
  /\ holder' = {}
  /\ at' = [r \in Requests |-> Cut(r)]
  /\ taken' = NoRecord
  /\ UNCHANGED <<binFiles, target, setVars, running, runset, from, commit, moves, resume, proven>>

(* A pair that cannot stay up ends before its wait is over; a binary that  *)
(* stays up with no flags may not get as far as them.                      *)
Fails ==
  /\ \/ proc \in {"up", "restarting", "closing"} /\ ~StaysUp
     \/ proc = "loading" /\ \A set \in Sets : <<running, set>> \notin Sound
  /\ Down
  /\ UNCHANGED kills

(* Killed, or the power is lost, at any point; the guard too.              *)
Kill ==
  /\ proc # "down"
  /\ kills < MaxKills
  /\ kills' = kills + 1
  /\ Down

(* Restart cancels the context; Serve closes the queue, and everyone in    *)
(* line is told it never started.                                          *)
RestartNow ==
  /\ proc = "up" /\ restart
  /\ proc' = "restarting"
  /\ UNCHANGED <<binVars, setVars, running, runset, binTimer, setTimer, resumer, restart, kills,
                 deployVars, fileVars, proven>>

CloseQueue ==
  /\ proc = "restarting"
  /\ proc' = "closing"
  /\ at' = [r \in Requests |-> IF at[r] = "waiting" THEN "refused" ELSE at[r]]
  /\ UNCHANGED <<binVars, setVars, running, runset, binTimer, setTimer, resumer, restart, kills,
                 holder, from, commit, moves, fileVars, proven>>

(* WaitForJobs returns, or JobDrain is over.                               *)
Drained ==
  /\ proc = "closing" /\ holder = {}
  /\ Down
  /\ UNCHANGED kills

DrainExpires ==
  /\ proc = "closing" /\ holder # {}
  /\ Down
  /\ UNCHANGED kills

----------------------------------------------------------------------------
(* ResumeDeploy, after both waits.                                         *)

(* A slip: the deploy goes on before its daemon counts as good.            *)
TakeResumeEarly ==
  /\ proc = "up" /\ resumer = "waiting"
  /\ taken' = resume
  /\ resume' = NoRecord
  /\ resumer' = IF resume = NoRecord THEN "over" ELSE "taken"
  /\ UNCHANGED <<binVars, setVars, proc, running, runset, binTimer, setTimer, restart, kills,
                 deployVars, proven>>

(* A slip: only a daemon that has committed both resumes.                  *)
TakeResumeCommitted ==
  /\ proc = "up" /\ resumer = "waiting"
  /\ binTimer = "done" /\ setTimer = "done"
  /\ taken' = resume
  /\ resume' = NoRecord
  /\ resumer' = IF resume = NoRecord THEN "over" ELSE "taken"
  /\ UNCHANGED <<binVars, setVars, proc, running, runset, binTimer, setTimer, restart, kills,
                 deployVars, proven>>

(* The record is read and removed.                                         *)
TakeResume ==
  /\ proc = "up" /\ resumer = "waiting"
  /\ binTimer \in {"none", "done"} /\ setTimer \in {"none", "done"}
  /\ taken' = resume
  /\ resume' = NoRecord
  /\ resumer' = IF resume = NoRecord THEN "over" ELSE "taken"
  /\ UNCHANGED <<binVars, setVars, proc, running, runset, binTimer, setTimer, restart, kills,
                 deployVars, proven>>

(* Whether the daemon is what the record says.                             *)
AsRecorded == taken[2][1] = running /\ (taken[3] = "flags" => taken[2][2] = runset)

(* A slip: a deploy that cannot go on is not recorded.                     *)
ResumeSilent ==
  /\ Alive /\ resumer = "taken"
  /\ resumer' = "over"
  /\ taken' = NoRecord
  /\ LET d == taken[1]
     IN  /\ at' = [at EXCEPT ![d] = IF ~AsRecorded THEN @
                                   ELSE IF proc = "closing" THEN "lost" ELSE "waiting"]
         /\ from' = [from EXCEPT ![d] = taken[3]]
  /\ UNCHANGED <<binVars, setVars, proc, running, runset, binTimer, setTimer, restart, kills,
                 holder, commit, moves, resume, proven>>

(* The deploy waits in line as a new job (unless the queue is closed), or  *)
(* is recorded as failed.                                                  *)
Resume ==
  /\ Alive /\ resumer = "taken"
  /\ resumer' = "over"
  /\ taken' = NoRecord
  /\ LET d == taken[1]
     IN  /\ at' = [at EXCEPT ![d] = IF ~AsRecorded THEN "done"
                                    ELSE IF proc = "closing" THEN "lost" ELSE "waiting"]
         /\ from' = [from EXCEPT ![d] = taken[3]]
  /\ UNCHANGED <<binVars, setVars, proc, running, runset, binTimer, setTimer, restart, kills,
                 holder, commit, moves, resume, proven>>

----------------------------------------------------------------------------
(* Requests.                                                               *)

Goto(r, step) == at' = [at EXCEPT ![r] = step]

(* Nothing is on trial, installed for a later start, about to restart, or  *)
(* asked of the daemon.                                                    *)
AtRest ==
  /\ cur = running /\ staged = NoSet
  /\ binTimer \in {"none", "done"} /\ setTimer \in {"none", "done"}
  /\ resumer = "over" /\ ~restart
  /\ \A r \in Requests : at[r] \in {"new", "done", "refused", "lost"}

(* A deploy waits in line; an upgrade takes the host or is refused.        *)
Ask(r) ==
  /\ at[r] = "new"
  /\ proc \in {"up", "restarting"}
  /\ Overlaps \/ AtRest
  /\ \/ r \in Deploys /\ Goto(r, "waiting") /\ UNCHANGED <<holder, commit>>
     \/ /\ r \in Upgrades /\ holder = {}
        /\ \A o \in Requests : at[o] # "waiting"
        /\ holder' = {r}
        /\ commit' \in {[commit EXCEPT ![r] = <<b, runset>>] : b \in Binaries}
        /\ Goto(r, "version")
  /\ UNCHANGED <<binVars, setVars, procVars, fileVars, from, moves, proven>>

TakeHost(d) ==
  /\ at[d] = "waiting"
  /\ proc \in {"up", "restarting"}
  /\ holder = {}
  /\ holder' = {d}
  /\ Goto(d, "fetch")
  /\ UNCHANGED <<binVars, setVars, procVars, fileVars, from, commit, moves, proven>>

(* resolveTag and fetchCommit, at each job anew: a tag may have been moved.*)
Fetch(d) ==
  /\ Alive /\ at[d] = "fetch"
  /\ \/ \E c \in Commits : commit' = [commit EXCEPT ![d] = c] /\ Goto(d, "version")
     \/ Goto(d, "finish") /\ UNCHANGED commit
  /\ UNCHANGED <<binVars, setVars, procVars, fileVars, holder, from, moves, proven>>

(* A slip: a deploy that was resumed may restart the daemon again.         *)
FollowVersionAgain(r) ==
  /\ Alive /\ at[r] = "version"
  /\ \/ /\ r \in Deploys /\ commit[r][1] \in {running, NoBinary}
        /\ Goto(r, "flags")
        /\ UNCHANGED binVars
     \/ /\ r \in Upgrades \/ commit[r][1] \notin {running, NoBinary}
        /\ BeginInstall(commit[r][1])
        /\ Goto(r, "installing")
  /\ UNCHANGED <<setVars, procVars, fileVars, holder, from, commit, moves, proven>>

(* followVersion: no pin, or on it already; else a deploy that was resumed *)
(* ends, and another installs it.  An admin's upgrade always installs.     *)
FollowVersion(r) ==
  /\ Alive /\ at[r] = "version"
  /\ \/ /\ r \in Deploys /\ commit[r][1] \in {running, NoBinary}
        /\ Goto(r, "flags")
        /\ UNCHANGED binVars
     \/ /\ r \in Deploys /\ commit[r][1] \notin {running, NoBinary} /\ from[r] # "none"
        /\ Goto(r, "finish")
        /\ UNCHANGED binVars
     \/ /\ r \in Upgrades \/ (commit[r][1] \notin {running, NoBinary} /\ from[r] = "none")
        /\ BeginInstall(commit[r][1])
        /\ Goto(r, "installing")
  /\ UNCHANGED <<setVars, procVars, fileVars, holder, from, commit, moves, proven>>

Install ==
  /\ Alive
  /\ InstallStep
  /\ UNCHANGED <<setVars, procVars, fileVars, deployVars, proven>>

Installed(r) ==
  /\ Alive /\ at[r] = "installing"
  /\ install \in {"installed", "failed"}
  /\ install' = "idle"
  /\ Goto(r, IF install = "installed" THEN "record" ELSE "finish")
  /\ UNCHANGED <<binFiles, target, setVars, procVars, fileVars, holder, from, commit, moves, proven>>

(* writeResume.                                                            *)
Record(rec) == resume' = rec

Moved(r, cause) == moves' = [moves EXCEPT ![r][cause] = @ + 1]

(* The deploy is recorded before Restart; an upgrade has nothing to resume.*)
RecordUpgrade(r) ==
  /\ Alive /\ at[r] = "record"
  /\ \/ /\ IF r \in Deploys THEN Record(<<r, commit[r], "version">>) ELSE UNCHANGED resume
        /\ restart' = TRUE
        /\ Moved(r, "version")
        /\ Goto(r, "ending")
     \/ /\ r \in Deploys /\ DiskFaults
        /\ Goto(r, "finish")
        /\ UNCHANGED <<resume, restart, moves>>
  /\ UNCHANGED <<binVars, setVars, proc, running, runset, binTimer, setTimer, resumer, kills,
                 taken, holder, from, commit, proven>>

(* followFlags: the set in use already; else a deploy that restarted for   *)
(* its flags ends, a set may be refused, or it is staged.                  *)
FollowFlags(d) ==
  /\ Alive /\ at[d] = "flags"
  /\ LET want == commit[d][2]
     IN  \/ want = runset /\ Goto(d, "work") /\ UNCHANGED setVars
         \/ want # runset /\ Goto(d, "finish") /\ UNCHANGED setVars
         \/ want # runset /\ from[d] # "flags" /\ Stage(want) /\ Goto(d, "recordflags")
  /\ UNCHANGED <<binVars, procVars, fileVars, holder, from, commit, moves, proven>>

RecordFlags(d) ==
  /\ Alive /\ at[d] = "recordflags"
  /\ \/ /\ Record(<<d, <<running, commit[d][2]>>, "flags">>)
        /\ restart' = TRUE
        /\ Moved(d, "flags")
        /\ Goto(d, "ending")
     \/ /\ DiskFaults
        /\ Goto(d, "finish")
        /\ UNCHANGED <<resume, restart, moves>>
  /\ UNCHANGED <<binVars, setVars, proc, running, runset, binTimer, setTimer, resumer, kills,
                 taken, holder, from, commit, proven>>

(* The plan and the apply.                                                 *)
Work(d) ==
  /\ Alive /\ at[d] = "work"
  /\ Goto(d, "finish")
  /\ UNCHANGED <<binVars, setVars, procVars, fileVars, holder, from, commit, moves, proven>>

(* The job ends and the host is released.                                  *)
End(r) ==
  /\ Alive
  /\ \/ at[r] = "finish" /\ Goto(r, "done")
     \/ at[r] = "ending" /\ Goto(r, IF r \in Deploys THEN "parked" ELSE "done")
  /\ holder' = {}
  /\ UNCHANGED <<binVars, setVars, procVars, fileVars, from, commit, moves, proven>>

----------------------------------------------------------------------------

Start == Guard \/ ClearUpgrade \/ Exec \/ Serve
Halt  == RestartNow \/ CloseQueue \/ Drained \/ DrainExpires
Waits == BinServed \/ BinCommitted \/ SetServed \/ SetCommitted

Job(r) ==
  \/ FollowVersion(r) \/ Installed(r) \/ RecordUpgrade(r) \/ End(r)
  \/ /\ r \in Deploys
     /\ \/ TakeHost(r) \/ Fetch(r) \/ FollowFlags(r) \/ RecordFlags(r) \/ Work(r)

Next ==
  \/ Start \/ Halt \/ Waits \/ Fails \/ Kill
  \/ TakeResume \/ Resume
  \/ Install
  \/ \E r \in Requests : Ask(r) \/ Job(r)

Spec == Init /\ [][Next]_vars

(* The unit starts the daemon again (Restart=on-failure, and its start     *)
(* limit is never met); a pair that cannot stay up ends; a wait is over    *)
(* after CommitAfter, and what follows it runs; a job goes on.  Nothing    *)
(* says that anything is asked, or that the daemon is killed.              *)
Fairness ==
  /\ WF_vars(Start)
  /\ WF_vars(Halt)
  /\ WF_vars(Fails)
  /\ WF_vars(BinServed) /\ WF_vars(BinCommitted)
  /\ WF_vars(SetServed) /\ WF_vars(SetCommitted)
  /\ WF_vars(TakeResume \/ Resume)
  /\ WF_vars(Install)
  /\ \A r \in Requests : WF_vars(Job(r))

FairSpec == Spec /\ Fairness

----------------------------------------------------------------------------
(* Properties.                                                             *)

(* What the daemon goes back to when a trial fails, the binary and the     *)
(* flags together, has stayed up before (the headers of selfupdate.go and  *)
(* serveflags.go), wherever an install or a guard was cut off.             *)
FallsBackToProven ==
  <<IF pending /\ prev # NoBinary THEN prev ELSE cur, kept>> \in proven

(* A deploy restarts the daemon at most once for a version and once for    *)
(* flags (followPin), whatever its tag is moved to meanwhile: no deploy    *)
(* restarts its host for ever.                                             *)
RestartsOnceEach == \A d \in Deploys : \A c \in Causes : moves[d][c] <= 1

(* A deploy that is resumed runs on a daemon that has stayed up, so that   *)
(* its apply is not cut off by the daemon it asked for (ResumeDeploy).     *)
ResumedOnProven ==
  \A d \in Deploys :
    from[d] # "none" /\ at[d] \in Steps \ {"parked", "ending", "done", "refused", "lost"}
      => <<running, runset>> \in proven

(* A deploy that restarted the daemon is named by the record it is resumed *)
(* from until it is: a kill loses it only after the record was removed.    *)
RestartIsFollowed ==
  \A d \in Deploys :
    at[d] = "parked" => \E rec \in {resume, taken} \ {NoRecord} : rec[1] = d

(* The three together: wherever a deploy's restart is cut off, the daemon  *)
(* it leaves, goes on with and is remembered by are sound.                 *)
RestartIsSafe == FallsBackToProven /\ ResumedOnProven /\ RestartIsFollowed

(* Whatever is asked, the host is left with a daemon that stays up.        *)
ServesInTheEnd == <>[](proc = "up" /\ StaysUp)

(* A deploy that restarted the daemon goes on, is recorded as failed, or   *)
(* was lost to a kill: it does not wait for ever.                          *)
RestartEnds == \A d \in Deploys : at[d] = "parked" ~> at[d] # "parked"

(* Both, of the daemon and of the deploys that restarted it.               *)
SettlesInTheEnd == ServesInTheEnd /\ RestartEnds

(* The two trials.  A binary, or a set of flags, is kept only after it was *)
(* started, dropped only after its last start, and nothing else ever       *)
(* takes the place of what is stable.                                      *)
BinaryTrial == INSTANCE Trial WITH
                 Things <- Binaries, NoThing <- NoBinary, MaxTries <- MaxAttempts,
                 stable <- StableBinary, trial <- TriedBinary, tries <- BinaryTries

FlagsTrial == INSTANCE Trial WITH
                Things <- Sets, NoThing <- NoSet, MaxTries <- MaxStarts,
                stable <- kept, trial <- TriedSet, tries <- SetTries

BinaryOnTrial == BinaryTrial!TrialSpec
FlagsOnTrial  == FlagsTrial!TrialSpec
BothOnTrial   == BinaryOnTrial /\ FlagsOnTrial

(* What upgrade.go and selfupdate.go say: a binary that cannot stay up is  *)
(* swapped back.                                                           *)
BadBinarySwappedBack ==
  \A b \in Binaries :
    (\A set \in Sets : <<b, set>> \notin Sound) => (cur = b ~> cur # b)
=============================================================================
