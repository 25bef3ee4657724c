------------------------- MODULE DeployFollowProofs -------------------------
(* No deploy restarts its host for ever: proved for any deploys, upgrades, *)
(* releases, flag sets and commits, requests that overlap included.  And   *)
(* a restart is safe, wherever it is cut off, and the binary and the flags *)
(* each follow Trial: proved for requests that come to a daemon at rest.   *)
EXTENDS DeployFollow, TLAPS

(* What the process knows of the two trials.                               *)
ProcInv ==
  /\ proc \in {"down", "clearing", "exec", "loading"} => setTimer = "none" /\ resumer = "over"
  /\ setTimer \in {"armed", "fired"} => staged \in Sets
  /\ resumer = "taken" => taken \in ResumeRecords

(* Where a request may be that has restarted the daemon: past it for good, *)
(* unless it was resumed, and then it knows from what.                     *)
Gone == {"ending", "parked", "done", "lost"}

MovesInv ==
  \A r \in Requests :
    /\ moves[r]["version"] <= 1 /\ moves[r]["flags"] <= 1
    /\ moves[r]["version"] = 1 => at[r] \in Gone \/ from[r] # "none"
    /\ moves[r]["flags"] = 1 => at[r] \in Gone \/ from[r] = "flags"
    /\ at[r] \in {"installing", "record"} => from[r] = "none" /\ commit[r] \in Pairs
    /\ at[r] = "recordflags" => from[r] # "flags"
    /\ r \in Upgrades => from[r] = "none" /\ commit[r] \in Pairs

(* A record is of a deploy that is not yet resumed, and says so if its     *)
(* flags were followed already; no deploy is in two records.               *)
Follows(rec) ==
  /\ at[rec[1]] \in {"ending", "parked"}
  /\ moves[rec[1]]["flags"] = 1 => rec[3] = "flags"

RecordInv ==
  /\ resume # NoRecord => Follows(resume)
  /\ taken # NoRecord => Follows(taken)
  /\ resume # NoRecord /\ taken # NoRecord => resume[1] # taken[1]

FollowInv == ProcInv /\ MovesInv /\ RecordInv
----------------------------------------------------------------------------

LEMMA PairTypes ==
  /\ NoRecord \notin ResumeRecords
  /\ \A rec \in ResumeRecords :
       rec[1] \in Deploys /\ rec[2] \in Pairs /\ rec[3] \in Causes
  /\ \A p \in Wanted : p[1] \in Binaries \cup {NoBinary} /\ p[2] \in Sets
  /\ \A p \in Pairs : p[1] \in Binaries /\ p[2] \in Sets
  /\ Pairs \subseteq Wanted
BY DEF NoRecord, ResumeRecords, Wanted, Pairs

(* The guard, whichever of its steps.                                      *)
LEMMA GuardTypes ==
  ASSUME BinTypeOK, GuardCounts \/ GuardRestores \/ GuardClears
  PROVE  BinTypeOK'
<1>1. MaxAttempts \in Nat
  BY BinaryAssumption
<1>2. CASE GuardCounts
  BY <1>1, <1>2 DEF BinTypeOK, GuardCounts, Counted
<1>3. CASE GuardRestores
  BY <1>1, <1>3 DEF BinTypeOK, GuardRestores, Restores, Counted
<1>4. CASE GuardClears
  <2>1. pending' \in BOOLEAN
    BY <1>4 DEF GuardClears
  <2>2. QED
    BY <1>1, <1>4, <2>1 DEF BinTypeOK, GuardClears
<1>5. QED
  BY <1>2, <1>3, <1>4

LEMMA InstallTypes ==
  ASSUME BinTypeOK, InstallStep
  PROVE  BinTypeOK'
<1>1. MaxAttempts \in Nat
  BY BinaryAssumption
<1>2. pending' \in BOOLEAN
  BY Zenon DEF BinTypeOK, InstallStep, KeepCurrent, ForgetAttempts, Arm, Swap
<1>3. QED
  BY <1>1, <1>2 DEF BinTypeOK, InstallStep, KeepCurrent, ForgetAttempts, Arm, Swap, InstallSteps

LEMMA LoadTypes ==
  ASSUME SetTypeOK, NEW set, Load(set)
  PROVE  SetTypeOK' /\ set \in Sets
<1>1. MaxStarts \in Nat
  BY SetAssumption
<1>2. QED
  BY <1>1 DEF SetTypeOK, Load, setVars

(* What the files of the two trials and the process around them leave of   *)
(* the types is the rest.                                                  *)
LEMMA DownTypes ==
  ASSUME TypeOK, Down, kills' \in 0 .. MaxKills
  PROVE  TypeOK'
<1>1. BinTypeOK'
  BY DEF TypeOK, Down, BinTypeOK, binFiles, InstallSteps
<1>2. SetTypeOK'
  BY DEF TypeOK, Down, SetTypeOK, setVars
<1>3. at' \in [Requests -> Steps]
  <2>1. \A r \in Requests : Cut(r) \in Steps
    BY DEF TypeOK, Cut, Steps
  <2>2. QED
    BY <2>1 DEF Down
<1>4. QED
  BY <1>1, <1>2, <1>3 DEF TypeOK, Down

LEMMA TypeStep ==
  ASSUME TypeOK, FollowInv, [Next]_vars
  PROVE  TypeOK'
<1>1. CASE Start
  <2>1. CASE Guard
    <3>1. BinTypeOK' /\ SetTypeOK'
      BY <2>1, GuardTypes DEF TypeOK, Guard, SetTypeOK, setVars
    <3>2. QED
      BY <2>1, <3>1 DEF TypeOK, Guard, deployVars, fileVars
  <2>2. CASE ClearUpgrade
    <3>1. BinTypeOK' /\ SetTypeOK'
      BY <2>2, GuardTypes DEF TypeOK, ClearUpgrade, SetTypeOK, setVars
    <3>2. QED
      BY <2>2, <3>1 DEF TypeOK, ClearUpgrade, deployVars, fileVars
  <2>3. CASE Exec
    BY <2>3 DEF TypeOK, Exec, BinTypeOK, SetTypeOK, binVars, setVars, deployVars, fileVars
  <2>4. CASE Serve
    <3>1. BinTypeOK'
      BY <2>4 DEF TypeOK, Serve, BinTypeOK, binVars
    <3>2. SetTypeOK' /\ runset' \in Sets
      BY <2>4, LoadTypes DEF TypeOK, Serve
    <3>3. QED
      BY <2>4, <3>1, <3>2 DEF TypeOK, Serve, deployVars, fileVars
  <2>5. QED
    BY <1>1, <2>1, <2>2, <2>3, <2>4 DEF Start
<1>2. CASE RestartNow
  BY <1>2 DEF TypeOK, RestartNow, BinTypeOK, SetTypeOK, binVars, setVars, deployVars, fileVars
<1>3. CASE CloseQueue
  <2>1. at' \in [Requests -> Steps]
    BY <1>3 DEF TypeOK, CloseQueue, Steps
  <2>2. QED
    BY <1>3, <2>1 DEF TypeOK, CloseQueue, BinTypeOK, SetTypeOK, binVars, setVars, fileVars
<1>4. CASE Drained \/ DrainExpires \/ Fails \/ Kill
  <2>1. MaxKills \in Nat
    BY FollowAssumption
  <2>2. kills' \in 0 .. MaxKills /\ Down
    BY <1>4, <2>1 DEF TypeOK, Drained, DrainExpires, Fails, Kill
  <2>3. QED
    BY <2>2, DownTypes
<1>5. CASE Waits
  <2>1. CASE BinServed \/ SetServed
    BY <2>1 DEF TypeOK, BinServed, SetServed, Pairs, BinTypeOK, SetTypeOK, binVars, setVars,
                deployVars, fileVars
  <2>2. CASE BinCommitted
    <3>1. BinTypeOK' /\ SetTypeOK'
      BY <2>2, GuardTypes DEF TypeOK, BinCommitted, CommitBinary, GuardClears, SetTypeOK, setVars
    <3>2. QED
      BY <2>2, <3>1 DEF TypeOK, BinCommitted, deployVars, fileVars
  <2>3. CASE SetCommitted
    <3>1. MaxStarts \in Nat /\ UnitSet \in Sets
      BY SetAssumption
    <3>2. SetTypeOK'
      BY <2>3, <3>1 DEF TypeOK, SetCommitted, ForgetKept, CommitSet, SetTypeOK, FollowInv, ProcInv
    <3>3. QED
      BY <2>3, <3>2 DEF TypeOK, SetCommitted, BinTypeOK, binVars, deployVars, fileVars
  <2>4. QED
    BY <1>5, <2>1, <2>2, <2>3 DEF Waits
<1>6. CASE TakeResume
  BY <1>6 DEF TypeOK, TakeResume, BinTypeOK, SetTypeOK, binVars, setVars, deployVars
<1>7. CASE Resume
  <2>1. taken \in ResumeRecords /\ taken[1] \in Requests /\ taken[3] \in Causes
    BY <1>7, PairTypes DEF Resume, FollowInv, ProcInv, Requests
  <2>2. at' \in [Requests -> Steps] /\ from' \in [Requests -> Causes \cup {"none"}]
    BY <1>7, <2>1 DEF TypeOK, Resume, Steps
  <2>3. QED
    BY <1>7, <2>2 DEF TypeOK, Resume, BinTypeOK, SetTypeOK, binVars, setVars
<1>8. CASE Install
  <2>1. BinTypeOK' /\ SetTypeOK'
    BY <1>8, InstallTypes DEF TypeOK, Install, SetTypeOK, setVars
  <2>2. QED
    BY <1>8, <2>1 DEF TypeOK, Install, procVars, deployVars, fileVars
<1>9. ASSUME NEW r \in Requests, Ask(r) \/ Job(r)
      PROVE  TypeOK'
  <2>1. \A step \in Steps : Goto(r, step) => at' \in [Requests -> Steps]
    BY DEF TypeOK, Goto
  <2>2. CASE Ask(r)
    <3>1. at' \in [Requests -> Steps]
      BY <2>1, <2>2 DEF Ask, Steps
    <3>2. commit' \in [Requests -> Wanted] /\ holder' \in SUBSET Requests
      BY <2>2 DEF TypeOK, Ask, Wanted
    <3>3. QED
      BY <2>2, <3>1, <3>2 DEF TypeOK, Ask, BinTypeOK, SetTypeOK, binVars, setVars, procVars, fileVars
  <2>3. CASE r \in Deploys /\ TakeHost(r)
    <3>1. at' \in [Requests -> Steps]
      BY <2>1, <2>3 DEF TakeHost, Steps
    <3>2. QED
      BY <2>3, <3>1 DEF TypeOK, TakeHost, BinTypeOK, SetTypeOK, binVars, setVars, procVars, fileVars
  <2>4. CASE r \in Deploys /\ Fetch(r)
    <3>1. at' \in [Requests -> Steps]
      BY <2>1, <2>4 DEF Fetch, Steps
    <3>2. commit' \in [Requests -> Wanted]
      BY <2>4, FollowAssumption DEF TypeOK, Fetch
    <3>3. QED
      BY <2>4, <3>1, <3>2 DEF TypeOK, Fetch, BinTypeOK, SetTypeOK, binVars, setVars, procVars, fileVars
  <2>5. CASE FollowVersion(r)
    <3>1. at' \in [Requests -> Steps]
      BY <2>1, <2>5 DEF FollowVersion, Steps
    <3>2. commit[r] \in Wanted
      BY DEF TypeOK
    <3>3. r \in Upgrades => commit[r] \in Pairs
      BY DEF FollowInv, MovesInv
    <3>4. /\ commit[r][1] \in Binaries \cup {NoBinary}
          /\ r \in Upgrades => commit[r][1] \in Binaries
      BY <3>2, <3>3, PairTypes
    <3>5. BinTypeOK'
      <4>1. CASE UNCHANGED binVars
        BY <4>1 DEF TypeOK, BinTypeOK, binVars
      <4>2. CASE /\ r \in Upgrades \/ commit[r][1] \notin {running, NoBinary}
                 /\ BeginInstall(commit[r][1])
        BY <3>4, <4>2 DEF TypeOK, BinTypeOK, BeginInstall, binFiles, InstallSteps
      <4>3. QED
        BY <2>5, <4>1, <4>2 DEF FollowVersion
    <3>6. QED
      BY <2>5, <3>1, <3>5 DEF TypeOK, FollowVersion, SetTypeOK, setVars, procVars, fileVars
  <2>6. CASE Installed(r)
    <3>1. at' \in [Requests -> Steps]
      BY <2>1, <2>6 DEF Installed, Steps
    <3>2. BinTypeOK'
      BY <2>6 DEF TypeOK, Installed, BinTypeOK, binFiles, InstallSteps
    <3>3. QED
      BY <2>6, <3>1, <3>2 DEF TypeOK, Installed, SetTypeOK, setVars, procVars, fileVars
  <2>7. CASE RecordUpgrade(r)
    <3>1. at' \in [Requests -> Steps]
      BY <2>1, <2>7 DEF RecordUpgrade, Steps
    <3>2. resume' \in ResumeRecords \cup {NoRecord}
      BY <2>7 DEF TypeOK, RecordUpgrade, Record, FollowInv, MovesInv, ResumeRecords, Causes
    <3>3. moves' \in [Requests -> [Causes -> 0 .. 2]]
      <4>1. moves[r] \in [Causes -> 0 .. 2] /\ moves[r]["version"] <= 1 /\ "version" \in Causes
        BY DEF TypeOK, FollowInv, MovesInv, Causes
      <4>2. QED
        BY <2>7, <4>1 DEF TypeOK, RecordUpgrade, Moved
    <3>4. restart' \in BOOLEAN
      BY <2>7 DEF TypeOK, RecordUpgrade
    <3>5. QED
      BY <2>7, <3>1, <3>2, <3>3, <3>4 DEF TypeOK, RecordUpgrade, BinTypeOK, SetTypeOK, binVars, setVars
  <2>8. CASE r \in Deploys /\ FollowFlags(r)
    <3>1. at' \in [Requests -> Steps]
      BY <2>1, <2>8 DEF FollowFlags, Steps
    <3>2. commit[r][2] \in Sets /\ MaxStarts \in Nat
      BY PairTypes, SetAssumption DEF TypeOK
    <3>3. SetTypeOK'
      BY <2>8, <3>2 DEF TypeOK, FollowFlags, Stage, SetTypeOK, setVars
    <3>4. QED
      BY <2>8, <3>1, <3>3 DEF TypeOK, FollowFlags, BinTypeOK, binVars, procVars, fileVars
  <2>9. CASE r \in Deploys /\ RecordFlags(r)
    <3>1. at' \in [Requests -> Steps]
      BY <2>1, <2>9 DEF RecordFlags, Steps
    <3>2. commit[r][2] \in Sets
      BY PairTypes DEF TypeOK
    <3>3. resume' \in ResumeRecords \cup {NoRecord}
      BY <2>9, <3>2 DEF TypeOK, RecordFlags, Record, ResumeRecords, Causes, Pairs
    <3>4. moves' \in [Requests -> [Causes -> 0 .. 2]]
      <4>1. moves[r] \in [Causes -> 0 .. 2] /\ moves[r]["flags"] <= 1 /\ "flags" \in Causes
        BY DEF TypeOK, FollowInv, MovesInv, Causes
      <4>2. CASE Moved(r, "flags")
        BY <4>1, <4>2 DEF TypeOK, Moved
      <4>3. QED
        BY <2>9, <4>2 DEF TypeOK, RecordFlags
    <3>5. restart' \in BOOLEAN
      BY <2>9 DEF TypeOK, RecordFlags
    <3>6. QED
      BY <2>9, <3>1, <3>3, <3>4, <3>5 DEF TypeOK, RecordFlags, BinTypeOK, SetTypeOK, binVars, setVars
  <2>10. CASE (r \in Deploys /\ Work(r)) \/ End(r)
    <3>1. at' \in [Requests -> Steps]
      BY <2>1, <2>10 DEF Work, End, Steps
    <3>2. holder' \in SUBSET Requests
      BY <2>10 DEF TypeOK, Work, End
    <3>3. QED
      BY <2>10, <3>1, <3>2 DEF TypeOK, Work, End, BinTypeOK, SetTypeOK, binVars, setVars, procVars, fileVars
  <2>11. QED
    BY <1>9, <2>2, <2>3, <2>4, <2>5, <2>6, <2>7, <2>8, <2>9, <2>10 DEF Job
<1>10. CASE UNCHANGED vars
  BY <1>10 DEF TypeOK, BinTypeOK, SetTypeOK, vars, binVars, setVars, procVars, deployVars, fileVars
<1>11. QED
  BY <1>1, <1>2, <1>3, <1>4, <1>5, <1>6, <1>7, <1>8, <1>9, <1>10 DEF Next, Halt

----------------------------------------------------------------------------

LEMMA ProcStep ==
  ASSUME TypeOK, FollowInv, [Next]_vars
  PROVE  ProcInv'
<1>1. CASE Start
  <2>1. NoSet \notin Sets
    BY SetAssumption
  <2>2. CASE Serve
    <3>1. staged' \in Sets \cup {NoSet}
      BY <2>2, LoadTypes DEF Serve, TypeOK, SetTypeOK
    <3>2. QED
      BY <2>1, <2>2, <3>1 DEF Serve, ProcInv
  <2>3. CASE Guard \/ ClearUpgrade \/ Exec
    BY <2>3 DEF Guard, ClearUpgrade, Exec, FollowInv, ProcInv, setVars, fileVars
  <2>4. QED
    BY <1>1, <2>2, <2>3 DEF Start
<1>2. CASE RestartNow \/ CloseQueue
  BY <1>2 DEF RestartNow, CloseQueue, FollowInv, ProcInv, setVars, fileVars
<1>3. CASE Drained \/ DrainExpires \/ Fails \/ Kill
  BY <1>3 DEF Drained, DrainExpires, Fails, Kill, Down, ProcInv
<1>4. CASE Waits
  <2>1. CASE BinServed \/ BinCommitted
    BY <2>1 DEF BinServed, BinCommitted, FollowInv, ProcInv, setVars, fileVars
  <2>2. CASE SetServed
    BY <2>2 DEF SetServed, FollowInv, ProcInv, setVars, fileVars
  <2>3. CASE SetCommitted
    BY <2>3 DEF SetCommitted, ForgetKept, CommitSet, FollowInv, ProcInv, Alive, fileVars
  <2>4. QED
    BY <1>4, <2>1, <2>2, <2>3 DEF Waits
<1>5. CASE TakeResume
  BY <1>5 DEF TakeResume, FollowInv, ProcInv, TypeOK, setVars
<1>6. CASE Resume
  BY <1>6 DEF Resume, FollowInv, ProcInv, setVars
<1>7. CASE Install
  BY <1>7 DEF Install, FollowInv, ProcInv, setVars, procVars, fileVars
<1>8. ASSUME NEW r \in Requests, Ask(r) \/ Job(r)
      PROVE  ProcInv'
  <2>1. CASE r \in Deploys /\ FollowFlags(r)
    <3>1. commit[r][2] \in Sets
      BY PairTypes DEF TypeOK
    <3>2. staged' \in Sets \/ UNCHANGED staged
      BY <2>1, <3>1 DEF FollowFlags, Stage, setVars
    <3>3. QED
      BY <2>1, <3>2 DEF FollowFlags, FollowInv, ProcInv, procVars, fileVars
  <2>2. CASE \/ Ask(r) \/ FollowVersion(r) \/ Installed(r) \/ RecordUpgrade(r) \/ End(r)
             \/ r \in Deploys /\ (TakeHost(r) \/ Fetch(r) \/ RecordFlags(r) \/ Work(r))
    BY <2>2 DEF Ask, FollowVersion, Installed, RecordUpgrade, End, TakeHost, Fetch, RecordFlags, Work,
                FollowInv, ProcInv, setVars, procVars, fileVars
  <2>3. QED
    BY <1>8, <2>1, <2>2 DEF Job
<1>9. CASE UNCHANGED vars
  BY <1>9 DEF FollowInv, ProcInv, vars, setVars, procVars, fileVars
<1>10. QED
  BY <1>1, <1>2, <1>3, <1>4, <1>5, <1>6, <1>7, <1>8, <1>9 DEF Next, Halt

----------------------------------------------------------------------------

(* The records name deploys and causes.                                    *)
LEMMA RecordTypes ==
  ASSUME TypeOK
  PROVE  /\ resume # NoRecord => resume[1] \in Deploys /\ resume[3] \in Causes
         /\ taken # NoRecord => taken[1] \in Deploys /\ taken[3] \in Causes
BY PairTypes DEF TypeOK

(* A step that leaves the deploys and the records alone.                   *)
LEMMA SameStep ==
  ASSUME MovesInv, RecordInv, UNCHANGED <<at, from, commit, moves, resume, taken>>
  PROVE  MovesInv' /\ RecordInv'
BY DEF MovesInv, RecordInv, Follows

(* A step of one request, which is in no record, that writes no record.    *)
LEMMA JobStep ==
  ASSUME TypeOK, FollowInv, NEW r \in Requests, NEW step \in Steps, Goto(r, step),
         at[r] \notin {"ending", "parked"}, at[r] \in Gone => step \in Gone,
         UNCHANGED <<from, moves, resume, taken>>,
         \A o \in Requests \ {r} : commit'[o] = commit[o],
         step \in {"installing", "record"} => from[r] = "none" /\ commit'[r] \in Pairs,
         step = "recordflags" => from[r] # "flags",
         r \in Upgrades => commit'[r] \in Pairs
  PROVE  MovesInv' /\ RecordInv'
<1>1. at'[r] = step /\ \A o \in Requests \ {r} : at'[o] = at[o]
  BY DEF Goto, TypeOK
<1>2. MovesInv'
  BY <1>1 DEF FollowInv, MovesInv
<1>3. RecordInv'
  BY <1>1, RecordTypes DEF FollowInv, RecordInv, Follows, Requests
<1>4. QED
  BY <1>2, <1>3

(* A step of one request that records it and restarts the daemon.          *)
LEMMA RestartStep ==
  ASSUME TypeOK, FollowInv, NEW r \in Requests, NEW c \in Causes, NEW p,
         Goto(r, "ending"), at[r] \notin Gone,
         Moved(r, c), moves[r][c] = 0, c = "version" => moves[r]["flags"] = 0,
         UNCHANGED <<from, commit, taken>>,
         (resume' = <<r, p, c>> /\ r \in Deploys) \/ UNCHANGED resume
  PROVE  MovesInv' /\ RecordInv'
<1>1. at'[r] = "ending" /\ \A o \in Requests \ {r} : at'[o] = at[o]
  BY DEF Goto, TypeOK
<1>2. /\ moves'[r][c] = 1
      /\ \A b \in Causes \ {c} : moves'[r][b] = moves[r][b]
      /\ \A o \in Requests \ {r} : moves'[o] = moves[o]
  BY DEF Moved, TypeOK
<1>3. MovesInv'
  BY <1>1, <1>2 DEF FollowInv, MovesInv, Gone, Causes
<1>4. RecordInv'
  <2>1. (resume # NoRecord => resume[1] # r) /\ (taken # NoRecord => taken[1] # r)
    BY DEF FollowInv, RecordInv, Follows, Gone
  <2>2. taken # NoRecord => Follows(taken)'
    BY <1>1, <1>2, <2>1, RecordTypes DEF FollowInv, RecordInv, Follows, Requests
  <2>3. CASE resume' = <<r, p, c>>
    BY <1>1, <1>2, <2>1, <2>2, <2>3 DEF RecordInv, Follows, Causes
  <2>4. CASE UNCHANGED resume
    BY <1>1, <1>2, <2>1, <2>2, <2>4, RecordTypes DEF FollowInv, RecordInv, Follows, Requests
  <2>5. QED
    BY <2>3, <2>4
<1>5. QED
  BY <1>3, <1>4

LEMMA FollowStep ==
  ASSUME TypeOK, FollowInv, [Next]_vars
  PROVE  MovesInv' /\ RecordInv'
<1>1. CASE Start \/ RestartNow \/ Waits \/ Install
  BY <1>1, SameStep DEF FollowInv, Start, Guard, ClearUpgrade, Exec, Serve, RestartNow, Waits,
       BinServed, BinCommitted, SetServed, SetCommitted, Install, deployVars, fileVars
<1>2. CASE CloseQueue
  <2>1. ASSUME NEW r \in Requests
        PROVE  (at'[r] = at[r]) \/ (at[r] = "waiting" /\ at'[r] = "refused")
    <3>1. at'[r] = IF at[r] = "waiting" THEN "refused" ELSE at[r]
      BY <1>2 DEF CloseQueue
    <3>2. CASE at[r] = "waiting"
      BY <3>1, <3>2
    <3>3. CASE at[r] # "waiting"
      BY <3>1, <3>3
    <3>4. QED
      BY <3>2, <3>3
  <2>2. UNCHANGED <<from, commit, moves, resume, taken>>
    BY <1>2 DEF CloseQueue, fileVars
  <2>3. MovesInv'
    BY <2>1, <2>2 DEF FollowInv, MovesInv, Gone
  <2>4. RecordInv'
    BY <2>1, <2>2, RecordTypes DEF FollowInv, RecordInv, Follows, Requests
  <2>5. QED
    BY <2>3, <2>4
<1>3. CASE Drained \/ DrainExpires \/ Fails \/ Kill
  <2>1. Down
    BY <1>3 DEF Drained, DrainExpires, Fails, Kill
  <2>2. \A r \in Requests :
          /\ at'[r] = at[r] \/ at'[r] \in {"parked", "lost"}
          /\ at'[r] \in {"installing", "record", "recordflags"} => FALSE
          /\ at[r] \in {"ending", "parked"} /\ resume # NoRecord /\ resume[1] = r
               /\ (taken = NoRecord \/ taken[1] # r) => at'[r] = "parked"
    BY <2>1 DEF Down, Cut
  <2>3. UNCHANGED <<from, commit, moves, resume>> /\ taken' = NoRecord
    BY <2>1 DEF Down
  <2>4. MovesInv'
    BY <2>2, <2>3 DEF FollowInv, MovesInv, Gone
  <2>5. RecordInv'
    BY <2>2, <2>3, RecordTypes DEF FollowInv, RecordInv, Follows, Requests
  <2>6. QED
    BY <2>4, <2>5
<1>4. CASE TakeResume
  BY <1>4 DEF TakeResume, FollowInv, MovesInv, RecordInv, Follows, deployVars
<1>5. CASE Resume
  <2>1. PICK d \in Deploys : d = taken[1]
    BY <1>5, PairTypes DEF Resume, FollowInv, ProcInv
  <2>2. taken # NoRecord /\ taken[3] \in Causes /\ Follows(taken)
    BY <1>5, PairTypes DEF Resume, FollowInv, ProcInv, RecordInv
  <2>3. /\ at'[d] \in {"done", "lost", "waiting"} /\ from'[d] = taken[3]
        /\ \A o \in Requests \ {d} : at'[o] = at[o] /\ from'[o] = from[o]
        /\ UNCHANGED <<commit, moves, resume>> /\ taken' = NoRecord
    BY <1>5, <2>1 DEF Resume, TypeOK, Requests
  <2>4. MovesInv'
    BY <2>1, <2>2, <2>3, FollowAssumption DEF FollowInv, MovesInv, Follows, Causes, TypeOK, Requests
  <2>5. RecordInv'
    BY <2>1, <2>2, <2>3, RecordTypes DEF FollowInv, RecordInv, Follows, Requests
  <2>6. QED
    BY <2>4, <2>5
<1>6. ASSUME NEW r \in Requests, Ask(r) \/ Job(r)
      PROVE  MovesInv' /\ RecordInv'
  <2>1. CASE Ask(r)
    <3>1. PICK step \in {"waiting", "version"} : Goto(r, step)
      BY <2>1 DEF Ask
    <3>2. /\ \A o \in Requests \ {r} : commit'[o] = commit[o]
          /\ r \in Upgrades => commit'[r] \in Pairs
      BY <2>1, FollowAssumption DEF Ask, TypeOK, SetTypeOK, Pairs
    <3>3. QED
      BY <2>1, <3>1, <3>2, JobStep DEF Ask, Steps, Gone, fileVars
  <2>2. CASE r \in Deploys /\ (TakeHost(r) \/ Fetch(r) \/ Work(r))
    <3>1. PICK step \in {"fetch", "version", "finish"} : Goto(r, step)
      BY <2>2 DEF TakeHost, Fetch, Work
    <3>2. \A o \in Requests \ {r} : commit'[o] = commit[o]
      BY <2>2 DEF TakeHost, Fetch, Work, TypeOK
    <3>3. r \notin Upgrades /\ at[r] \notin Gone /\ UNCHANGED <<from, moves, resume, taken>>
      BY <2>2, FollowAssumption DEF TakeHost, Fetch, Work, Gone, fileVars
    <3>4. QED
      BY <3>1, <3>2, <3>3, JobStep DEF Steps, Gone
  <2>3. CASE FollowVersion(r)
    <3>1. PICK step \in {"flags", "finish", "installing"} :
            /\ Goto(r, step)
            /\ step = "installing" => from[r] = "none" /\ commit[r] \in Pairs
      <4>1. r \in Upgrades => from[r] = "none" /\ commit[r] \in Pairs
        BY DEF FollowInv, MovesInv
      <4>2. commit[r][1] # NoBinary => commit[r] \in Pairs
        BY DEF TypeOK, Wanted, Pairs
      <4>3. QED
        BY <2>3, <4>1, <4>2 DEF FollowVersion
    <3>2. at[r] \notin Gone /\ UNCHANGED <<from, moves, resume, taken, commit>>
      BY <2>3 DEF FollowVersion, Gone, fileVars
    <3>3. r \in Upgrades => commit[r] \in Pairs
      BY DEF FollowInv, MovesInv
    <3>4. QED
      BY <3>1, <3>2, <3>3, JobStep DEF Steps, Gone
  <2>4. CASE Installed(r)
    <3>1. PICK step \in {"record", "finish"} : Goto(r, step)
      BY <2>4 DEF Installed
    <3>2. at[r] = "installing" /\ UNCHANGED <<from, moves, resume, taken, commit>>
      BY <2>4 DEF Installed, fileVars
    <3>3. from[r] = "none" /\ commit[r] \in Pairs
      BY <3>2 DEF FollowInv, MovesInv
    <3>4. QED
      BY <3>1, <3>2, <3>3, JobStep DEF Steps, Gone
  <2>5. CASE RecordUpgrade(r)
    <3>1. at[r] = "record" /\ UNCHANGED <<from, commit, taken>>
      BY <2>5 DEF RecordUpgrade
    <3>2. CASE Moved(r, "version") /\ Goto(r, "ending")
               /\ ((resume' = <<r, commit[r], "version">> /\ r \in Deploys) \/ UNCHANGED resume)
      <4>1. moves[r]["version"] = 0 /\ moves[r]["flags"] = 0
        <5>1. moves[r]["version"] \in 0 .. 2 /\ moves[r]["flags"] \in 0 .. 2
          BY DEF TypeOK, Causes
        <5>2. QED
          BY <3>1, <5>1 DEF FollowInv, MovesInv, Gone
      <4>2. "version" \in Causes /\ at[r] \notin Gone
        BY <3>1 DEF Causes, Gone
      <4>3. QED
        BY <3>1, <3>2, <4>1, <4>2, RestartStep
    <3>3. CASE Goto(r, "finish") /\ UNCHANGED <<resume, moves>>
      <4>1. r \in Upgrades => commit[r] \in Pairs
        BY DEF FollowInv, MovesInv
      <4>2. QED
        BY <3>1, <3>3, <4>1, JobStep DEF Steps, Gone
    <3>4. QED
      BY <2>5, <3>2, <3>3 DEF RecordUpgrade, Record
  <2>6. CASE r \in Deploys /\ FollowFlags(r)
    <3>1. PICK step \in {"work", "finish", "recordflags"} :
            Goto(r, step) /\ (step = "recordflags" => from[r] # "flags")
      BY <2>6 DEF FollowFlags
    <3>2. r \notin Upgrades /\ at[r] \notin Gone /\ UNCHANGED <<from, moves, resume, taken, commit>>
      BY <2>6, FollowAssumption DEF FollowFlags, Gone, fileVars
    <3>3. QED
      BY <3>1, <3>2, JobStep DEF Steps, Gone
  <2>7. CASE r \in Deploys /\ RecordFlags(r)
    <3>1. at[r] = "recordflags" /\ UNCHANGED <<from, commit, taken>> /\ r \notin Upgrades
      BY <2>7, FollowAssumption DEF RecordFlags
    <3>2. CASE Moved(r, "flags") /\ Goto(r, "ending")
               /\ resume' = <<r, <<running, commit[r][2]>>, "flags">>
      <4>1. moves[r]["flags"] = 0
        <5>1. moves[r]["flags"] \in 0 .. 2
          BY DEF TypeOK, Causes
        <5>2. QED
          BY <3>1, <5>1 DEF FollowInv, MovesInv, Gone
      <4>2. "flags" \in Causes /\ at[r] \notin Gone
        BY <3>1 DEF Causes, Gone
      <4>3. QED
        BY <2>7, <3>1, <3>2, <4>1, <4>2, RestartStep
    <3>3. CASE Goto(r, "finish") /\ UNCHANGED <<resume, moves>>
      BY <3>1, <3>3, JobStep DEF Steps, Gone
    <3>4. QED
      BY <2>7, <3>2, <3>3 DEF RecordFlags, Record
  <2>8. CASE End(r)
    <3>1. UNCHANGED <<from, commit, moves, resume, taken>>
      BY <2>8 DEF End, fileVars
    <3>2. /\ \A o \in Requests \ {r} : at'[o] = at[o]
          /\ \/ at[r] = "finish" /\ at'[r] = "done"
             \/ at[r] = "ending" /\ r \in Deploys /\ at'[r] = "parked"
             \/ at[r] = "ending" /\ r \notin Deploys /\ at'[r] = "done"
      BY <2>8 DEF End, Goto, TypeOK
    <3>3. MovesInv'
      BY <3>1, <3>2 DEF FollowInv, MovesInv, Gone
    <3>4. RecordInv'
      BY <3>1, <3>2, RecordTypes DEF FollowInv, RecordInv, Follows, Requests
    <3>5. QED
      BY <3>3, <3>4
  <2>9. QED
    BY <1>6, <2>1, <2>2, <2>3, <2>4, <2>5, <2>6, <2>7, <2>8 DEF Job
<1>7. CASE UNCHANGED vars
  BY <1>7, SameStep DEF FollowInv, vars, deployVars, fileVars
<1>8. QED
  BY <1>1, <1>2, <1>3, <1>4, <1>5, <1>6, <1>7 DEF Next, Halt

----------------------------------------------------------------------------

LEMMA FollowCorrect == Spec => [](TypeOK /\ FollowInv)
<1>1. Init => TypeOK
  <2> SUFFICES ASSUME Init PROVE TypeOK
    OBVIOUS
  <2>1. MaxAttempts \in Nat /\ MaxStarts \in Nat /\ MaxKills \in Nat
    BY BinaryAssumption, SetAssumption, FollowAssumption
  <2>2. BinTypeOK /\ SetTypeOK
    <3>1. pending \in BOOLEAN
      BY DEF Init, BinInit
    <3>2. QED
      BY <2>1, <3>1 DEF Init, BinInit, SetInit, BinTypeOK, SetTypeOK, InstallSteps
  <2>3. <<cur, kept>> \in Pairs
    BY <2>2 DEF BinTypeOK, SetTypeOK, Pairs
  <2>4. restart \in BOOLEAN
    BY DEF Init
  <2>5. at \in [Requests -> Steps] /\ moves \in [Requests -> [Causes -> 0 .. 2]]
    BY DEF Init, Steps
  <2>6. QED
    BY <2>1, <2>2, <2>3, <2>4, <2>5, PairTypes DEF Init, TypeOK
<1>2. Init => FollowInv
  <2> SUFFICES ASSUME Init PROVE FollowInv
    OBVIOUS
  <2>1. <<cur, kept>> \in Pairs
    BY DEF Init, BinInit, SetInit, Pairs
  <2>2. QED
    BY <2>1 DEF Init, FollowInv, ProcInv, MovesInv, RecordInv, Causes, Gone
<1>3. TypeOK /\ FollowInv /\ [Next]_vars => (TypeOK /\ FollowInv)'
  BY TypeStep, ProcStep, FollowStep DEF FollowInv
<1>4. QED
  BY <1>1, <1>2, <1>3, PTL DEF Spec

(* Whatever is asked of the daemon, and wherever it dies, its files, its   *)
(* process and its deploys stay in the states the code knows.              *)
THEOREM FollowTypes == Spec => []TypeOK
BY FollowCorrect, PTL

(* A deploy restarts the daemon at most once for a version and once for    *)
(* flags, even if its tag moves at every job, other deploys and upgrades   *)
(* run in between, and the daemon dies at any step.                        *)
THEOREM RestartsOnceEachAlways == Spec => []RestartsOnceEach
<1>1. FollowInv => RestartsOnceEach
  BY DEF FollowInv, MovesInv, RestartsOnceEach, Requests, Causes
<1>2. QED
  BY <1>1, FollowCorrect, PTL

----------------------------------------------------------------------------
(* What a restart leaves.  The invariant: there is one request at a time,  *)
(* on a daemon no longer on trial, so each finds its files untouched; and  *)
(* what a daemon serves with has stayed up, or is what its files have on   *)
(* trial.                                                                  *)

(* The files alone, whichever process there is.                            *)
DiskInv ==
  /\ pending => staged = NoSet
  /\ proc = "clearing" => prev = NoBinary

Over == {"new", "done", "refused", "lost"}
Busy(r) == at[r] \notin Over \cup {"parked"}

Serving == proc \in {"up", "restarting", "closing"}
BinTried == binTimer \in {"armed", "fired"}
SetTried == setTimer \in {"armed", "fired"}

(* One request at a time, on a daemon that is no longer on trial.          *)
OneInv ==
  /\ \A r, q \in Requests : at[r] \notin Over /\ at[q] \notin Over => r = q
  /\ \A r \in Requests : at[r] = "new" => from[r] = "none"
  /\ \A r \in Requests : Busy(r) => Serving /\ resumer = "over" /\ ~BinTried /\ ~SetTried
  /\ install # "idle" => \E r \in Requests : at[r] = "installing"
  /\ taken # NoRecord => resumer = "taken"
  /\ \A d \in Deploys : at[d] = "ending" => resume # NoRecord /\ resume[1] = d

(* A daemon that serves: what it is on trial for, and what its files and   *)
(* its own memory say of each other.                                       *)
ServingInv ==
  IF Serving
  THEN /\ BinTried => pending
       /\ SetTried => staged = runset
       /\ ~SetTried => runset = kept
       /\ binTimer # "armed" /\ setTimer # "armed" => <<running, runset>> \in proven
       /\ BinTried \/ SetTried \/ resumer # "over" => cur = running /\ ~restart
       /\ ~BinTried /\ resumer # "over" => ~pending
       /\ ~SetTried /\ resumer # "over" => staged = NoSet
       /\ resumer = "taken" => ~BinTried /\ ~SetTried
       /\ pending /\ ~BinTried => \/ restart \/ cur # running
                                  \/ \E r \in Requests : at[r] \in {"installing", "record"}
  ELSE /\ ~restart /\ binTimer = "none" /\ setTimer = "none"
       /\ proc = "loading" => cur = running

(* What a request finds at each of its steps.                              *)
Untouched == cur = running /\ ~pending /\ staged = NoSet /\ ~restart

JobFinds(r) ==
  /\ at[r] \in {"waiting", "fetch", "version", "flags"} => Untouched /\ install = "idle"
  /\ at[r] = "installing" =>
       /\ staged = NoSet /\ ~restart /\ install # "idle"
       /\ install \in {"keep", "forget", "arm", "failed"} => Untouched
       /\ install \in {"forget", "arm", "swap", "installed"} => prev = running
       /\ install = "swap" => pending /\ cur = running
       /\ install = "installed" => pending /\ cur = target
       /\ r \in Deploys => target # running
  /\ at[r] = "record" => /\ pending /\ prev = running
                         /\ r \in Deploys => cur # running
  /\ at[r] = "recordflags" => ~pending /\ cur = running /\ ~restart

JobInv == \A r \in Requests : JobFinds(r)

SafeInv == DiskInv /\ OneInv /\ ServingInv /\ JobInv /\ FallsBackToProven /\ RestartIsFollowed

(* What the type invariant says of the names used below.                   *)
LEMMA AtTypes ==
  ASSUME TypeOK
  PROVE  /\ \A r \in Requests : at[r] \in Steps
         /\ NoSet \notin Sets /\ NoBinary \notin Binaries
         /\ cur \in Binaries /\ target \in Binaries /\ running \in Binaries /\ kept \in Sets /\ runset \in Sets
         /\ install \in InstallSteps
BY BinaryAssumption, SetAssumption DEF TypeOK, BinTypeOK, SetTypeOK

(* A step of the one job there is.                                         *)
LEMMA SafeJob ==
  ASSUME TypeOK, SafeInv, NEW r \in Requests, NEW step \in Steps \ {"new"}, Goto(r, step), Busy(r),
         UNCHANGED <<from, taken, proc, running, runset, resumer, binTimer, setTimer, proven, kept>>,
         DiskInv', FallsBackToProven', JobFinds(r)',
         pending' => restart' \/ cur' # running \/ step \in {"installing", "record"},
         install' # "idle" => step = "installing",
         r \in Deploys /\ step \in {"ending", "parked"} => resume' # NoRecord /\ resume'[1] = r
  PROVE  SafeInv'
<1>1. at'[r] = step /\ \A o \in Requests \ {r} : at'[o] = at[o] /\ at[o] \in Over
  BY DEF Goto, TypeOK, SafeInv, OneInv, Busy
<1>2. at[r] \notin Over /\ Serving /\ resumer = "over" /\ ~BinTried /\ ~SetTried
  BY DEF SafeInv, OneInv, Busy
<1>3. OneInv'
  BY <1>1, <1>2 DEF SafeInv, OneInv, Busy, Over, Serving, BinTried, SetTried, Requests
<1>4. ServingInv'
  <2>1. runset = kept /\ <<running, runset>> \in proven
    BY <1>2 DEF SafeInv, ServingInv, BinTried, SetTried
  <2> QED
    BY <1>1, <1>2, <2>1 DEF SafeInv, ServingInv, Serving, BinTried, SetTried
<1>5. JobInv'
  <2>1. \A o \in Requests \ {r} : JobFinds(o)'
    BY <1>1 DEF JobFinds, Over
  <2> QED
    BY <2>1 DEF JobInv
<1>6. RestartIsFollowed'
  BY <1>1 DEF RestartIsFollowed, Over, Requests
<1> QED
  BY <1>3, <1>4, <1>5, <1>6 DEF SafeInv

(* The guard, the binary and the flags of a new start.                     *)
LEMMA SafeStart ==
  ASSUME TypeOK, FollowInv, SafeInv, Start
  PROVE  SafeInv'
<1>1. /\ UNCHANGED <<restart, holder, at, from, commit, moves, resume, taken, proven, target, install>>
      /\ ~Serving /\ setTimer = "none" /\ resumer = "over" /\ binTimer = "none" /\ ~restart
  BY DEF Start, Guard, ClearUpgrade, Exec, Serve, GuardCounts, GuardRestores, GuardClears, binVars, deployVars, fileVars,
         Serving, SafeInv, ServingInv, FollowInv, ProcInv
<1>2. \A r \in Requests : at[r] \in Over \cup {"parked"}
  BY <1>1 DEF SafeInv, OneInv, Busy
<1>3. install = "idle"
  BY <1>2 DEF SafeInv, OneInv, Over
<1>4. JobInv' /\ RestartIsFollowed'
  BY <1>1, <1>2 DEF JobInv, JobFinds, SafeInv, RestartIsFollowed, Over
<1>5. OneInv'
  <2>1. taken = NoRecord
    BY <1>1 DEF SafeInv, OneInv
  <2> QED
    BY <1>1, <1>2, <1>3, <2>1 DEF SafeInv, OneInv, Busy, Over
<1>6. CASE Guard
  <2>1. /\ UNCHANGED <<setVars, proc>> \/ (UNCHANGED setVars /\ proc' \in {"exec", "clearing"})
        /\ UNCHANGED <<running, runset, binTimer, setTimer>>
    BY <1>6 DEF Guard
  <2>2. ServingInv'
    BY <1>1, <1>6, <2>1 DEF Guard, ServingInv, Serving
  <2>3. DiskInv' /\ FallsBackToProven'
    BY <1>1, <1>6 DEF Guard, GuardCounts, GuardRestores, Restores, SafeInv, DiskInv, FallsBackToProven, setVars
  <2> QED
    BY <1>4, <1>5, <2>2, <2>3 DEF SafeInv
<1>7. CASE ClearUpgrade
  <2>1. ServingInv'
    BY <1>1, <1>7 DEF ClearUpgrade, ServingInv, Serving
  <2>2. DiskInv' /\ FallsBackToProven'
    BY <1>1, <1>7 DEF ClearUpgrade, GuardClears, SafeInv, DiskInv, FallsBackToProven, setVars
  <2> QED
    BY <1>4, <1>5, <2>1, <2>2 DEF SafeInv
<1>8. CASE Exec
  <2>1. ServingInv'
    BY <1>1, <1>8 DEF Exec, ServingInv, Serving, binVars
  <2>2. DiskInv' /\ FallsBackToProven'
    BY <1>1, <1>8 DEF Exec, SafeInv, DiskInv, FallsBackToProven, setVars, binVars
  <2> QED
    BY <1>4, <1>5, <2>1, <2>2 DEF SafeInv
<1>9. CASE Serve
  <2>1. PICK set \in Sets : Load(set) /\ runset' = set
    BY <1>9 DEF Serve
  <2>2. /\ proc' = "up" /\ resumer' = "waiting" /\ running' = running /\ cur = running
        /\ binTimer' = (IF pending THEN "armed" ELSE "none")
        /\ setTimer' = (IF staged' # NoSet THEN "armed" ELSE "none")
        /\ UNCHANGED <<cur, prev, pending, attempts, install, target>>
    BY <1>1, <1>9 DEF Serve, binVars, SafeInv, ServingInv, Serving
  <2>3. /\ kept' = kept
        /\ \/ staged' = NoSet /\ runset' = kept
           \/ staged # NoSet /\ staged' = staged /\ runset' = staged
    BY <2>1 DEF Load, setVars
  <2>4. DiskInv' /\ FallsBackToProven'
    BY <1>1, <2>2, <2>3 DEF SafeInv, DiskInv, FallsBackToProven
  <2>5. CASE pending
    <3>1. staged = NoSet /\ binTimer' = "armed" /\ setTimer' = "none" /\ runset' = kept
      BY <2>2, <2>3, <2>5 DEF SafeInv, DiskInv
    <3>2. ServingInv'
      BY <1>1, <2>2, <2>3, <2>5, <3>1 DEF ServingInv, Serving, BinTried, SetTried
    <3> QED
      BY <1>4, <1>5, <2>4, <3>2 DEF SafeInv
  <2>6. CASE ~pending
    <3>1. <<cur, kept>> \in proven /\ binTimer' = "none"
      BY <2>2, <2>6 DEF SafeInv, FallsBackToProven
    <3>2. ServingInv'
      BY <1>1, <2>2, <2>3, <2>6, <3>1 DEF ServingInv, Serving, BinTried, SetTried
    <3> QED
      BY <1>4, <1>5, <2>4, <3>2 DEF SafeInv
  <2> QED
    BY <2>5, <2>6
<1> QED
  BY <1>6, <1>7, <1>8, <1>9 DEF Start

(* The daemon dies, or stops.                                              *)
LEMMA SafeDown ==
  ASSUME TypeOK, FollowInv, SafeInv, Down
  PROVE  SafeInv'
<1>1. /\ proc' = "down" /\ binTimer' = "none" /\ setTimer' = "none" /\ resumer' = "over" /\ ~restart'
      /\ install' = "idle" /\ taken' = NoRecord /\ at' = [r \in Requests |-> Cut(r)]
      /\ UNCHANGED <<cur, prev, pending, kept, staged, running, runset, from, resume, proven>>
  BY DEF Down, binFiles, setVars
<1>2. \A r \in Requests :
        /\ at'[r] \in Over \cup {"parked"} /\ (at'[r] = "new" => at[r] = "new")
        /\ at'[r] \notin Over => at[r] \notin Over
        /\ at'[r] = "parked" => \/ at[r] = "parked" /\ (taken = NoRecord \/ taken[1] # r)
                                \/ at[r] = "ending" /\ resume # NoRecord /\ resume[1] = r
  BY <1>1 DEF Cut, Over
<1>3. OneInv'
  BY <1>1, <1>2 DEF SafeInv, OneInv, Busy, Over, Requests
<1>4. ServingInv' /\ DiskInv' /\ FallsBackToProven'
  BY <1>1 DEF SafeInv, ServingInv, Serving, DiskInv, FallsBackToProven
<1>5. JobInv'
  BY <1>2 DEF JobInv, JobFinds, Over
<1>6. RestartIsFollowed'
  <2> SUFFICES ASSUME NEW d \in Deploys, at'[d] = "parked"
               PROVE  resume # NoRecord /\ resume[1] = d
    BY <1>1 DEF RestartIsFollowed
  <2> QED
    BY <1>2 DEF SafeInv, RestartIsFollowed, Requests
<1> QED
  BY <1>3, <1>4, <1>5, <1>6 DEF SafeInv

(* The daemon begins to stop: it no longer counts as good for a trial.     *)
LEMMA SafeHalt ==
  ASSUME TypeOK, FollowInv, SafeInv, RestartNow \/ CloseQueue
  PROVE  SafeInv'
<1>1. /\ UNCHANGED <<binVars, setVars, running, runset, binTimer, setTimer, resumer, restart, from, resume, taken, proven>>
      /\ proc' \in {"restarting", "closing"} /\ Serving
      /\ \/ at' = at
         \/ at' = [r \in Requests |-> IF at[r] = "waiting" THEN "refused" ELSE at[r]]
  BY DEF RestartNow, CloseQueue, Serving, deployVars, fileVars
<1>2. \A r \in Requests : at'[r] = at[r] \/ (at[r] = "waiting" /\ at'[r] = "refused")
  BY <1>1
<1>3. OneInv'
  <2>1. \A r \in Requests : at[r] = "installing" => at'[r] = "installing"
    BY <1>2
  <2>2. \A r \in Requests : at'[r] \notin Over => at[r] \notin Over
    BY <1>2 DEF Over
  <2>3. \A r \in Requests : Busy(r)' => Busy(r)
    BY <1>2 DEF Busy, Over
  <2>4. \A r \in Requests : (at'[r] = "new" => at[r] = "new") /\ (at'[r] = "ending" => at[r] = "ending")
    BY <1>2
  <2> QED
    BY <1>1, <2>1, <2>2, <2>3, <2>4 DEF SafeInv, OneInv, Serving, BinTried, SetTried, binVars, Requests
<1>4. ServingInv'
  <2>1. (\E r \in Requests : at[r] \in {"installing", "record"}) => \E r \in Requests : at'[r] \in {"installing", "record"}
    BY <1>2
  <2> QED
    BY <1>1, <2>1 DEF SafeInv, ServingInv, Serving, BinTried, SetTried, binVars, setVars
<1>5. DiskInv' /\ FallsBackToProven'
  BY <1>1 DEF SafeInv, DiskInv, FallsBackToProven, binVars, setVars
<1>6. JobInv'
  BY <1>1, <1>2 DEF SafeInv, JobInv, JobFinds, Untouched, binVars, setVars
<1>7. RestartIsFollowed'
  BY <1>1, <1>2 DEF SafeInv, RestartIsFollowed, Requests
<1> QED
  BY <1>3, <1>4, <1>5, <1>6, <1>7 DEF SafeInv

(* While a trial is on, no request is under way.                           *)
LEMMA NoneBusy ==
  ASSUME SafeInv, ~Serving \/ resumer # "over" \/ BinTried \/ SetTried
  PROVE  /\ \A r \in Requests : at[r] \in Over \cup {"parked"}
         /\ install = "idle"
<1>1. \A r \in Requests : at[r] \in Over \cup {"parked"}
  BY DEF SafeInv, OneInv, Busy
<1> QED
  BY <1>1 DEF SafeInv, OneInv, Over

(* The two waits, and what follows them.                                   *)
LEMMA SafeWaits ==
  ASSUME TypeOK, FollowInv, SafeInv, Waits
  PROVE  SafeInv'
<1>1. /\ UNCHANGED <<proc, running, runset, resumer, restart, at, from, resume, taken, cur, prev, install, target>>
      /\ BinTried \/ SetTried
  BY DEF Waits, BinServed, BinCommitted, SetServed, SetCommitted, CommitBinary, CommitSet, ForgetKept,
         binVars, deployVars, fileVars, BinTried, SetTried
<1>2. Serving
  BY <1>1 DEF SafeInv, ServingInv, BinTried, SetTried
<1>3. (\A r \in Requests : at[r] \in Over \cup {"parked"}) /\ install = "idle"
  BY <1>1, NoneBusy
<1>4. OneInv' /\ JobInv' /\ RestartIsFollowed'
  BY <1>1, <1>3 DEF SafeInv, OneInv, JobInv, JobFinds, RestartIsFollowed, Busy, Over
<1>5. cur = running /\ ~restart
  BY <1>1, <1>2 DEF SafeInv, ServingInv
<1>6. ASSUME UNCHANGED <<pending, kept, staged>>, proven' = proven \cup {<<running, runset>>},
             \/ binTimer = "armed" /\ binTimer' = "fired" /\ setTimer' = setTimer
             \/ setTimer = "armed" /\ setTimer' = "fired" /\ binTimer' = binTimer
      PROVE  SafeInv'
  <2>1. ServingInv'
    BY <1>1, <1>2, <1>6 DEF SafeInv, ServingInv, Serving, BinTried, SetTried
  <2>2. DiskInv' /\ FallsBackToProven'
    BY <1>1, <1>6 DEF SafeInv, DiskInv, FallsBackToProven
  <2> QED
    BY <1>4, <2>1, <2>2 DEF SafeInv
<1>7. CASE BinServed
  BY <1>6, <1>7 DEF BinServed, binVars, setVars
<1>8. CASE SetServed
  BY <1>6, <1>8 DEF SetServed, binVars, setVars
<1>9. CASE BinCommitted
  <2>1. /\ binTimer = "fired" /\ binTimer' = "done" /\ ~pending' /\ UNCHANGED <<setTimer, kept, staged, proven>>
    BY <1>9 DEF BinCommitted, CommitBinary, setVars
  <2>2. pending /\ staged = NoSet /\ ~SetTried /\ runset = kept /\ <<running, runset>> \in proven
    BY <1>2, <2>1, AtTypes DEF SafeInv, ServingInv, DiskInv, BinTried, SetTried
  <2>3. ServingInv'
    BY <1>1, <1>2, <1>5, <2>1, <2>2 DEF SafeInv, ServingInv, Serving, BinTried, SetTried
  <2>4. DiskInv' /\ FallsBackToProven'
    BY <1>1, <1>5, <2>1, <2>2 DEF SafeInv, DiskInv, FallsBackToProven
  <2> QED
    BY <1>4, <2>3, <2>4 DEF SafeInv
<1>10. CASE SetCommitted
  <2>1. /\ setTimer = "fired" /\ UNCHANGED <<binTimer, pending, proven>>
        /\ \/ setTimer' = setTimer /\ kept' = UnitSet /\ staged = UnitSet /\ staged' = staged
           \/ setTimer' = "done" /\ kept' = staged /\ staged' = NoSet
    BY <1>10 DEF SetCommitted, ForgetKept, CommitSet, binVars
  <2>2. staged = runset /\ staged # NoSet /\ ~pending /\ ~BinTried /\ <<running, runset>> \in proven
    BY <1>2, <2>1, AtTypes DEF SafeInv, ServingInv, DiskInv, BinTried, SetTried
  <2>3. ServingInv'
    BY <1>1, <1>2, <1>5, <2>1, <2>2 DEF SafeInv, ServingInv, Serving, BinTried, SetTried
  <2>4. DiskInv' /\ FallsBackToProven'
    BY <1>1, <1>5, <2>1, <2>2 DEF SafeInv, DiskInv, FallsBackToProven
  <2> QED
    BY <1>4, <2>3, <2>4 DEF SafeInv
<1> QED
  BY <1>7, <1>8, <1>9, <1>10 DEF Waits

(* The record is taken, and its deploy goes on, on a daemon that is good.  *)
LEMMA SafeResume ==
  ASSUME TypeOK, FollowInv, SafeInv, TakeResume \/ Resume
  PROVE  SafeInv'
<1>1. /\ UNCHANGED <<proc, running, runset, restart, cur, prev, pending, install, target, kept, staged,
                     binTimer, setTimer, proven>>
      /\ resumer # "over"
  BY DEF TakeResume, Resume, binVars, setVars
<1>2. Serving
  BY <1>1 DEF FollowInv, ProcInv, TypeOK, Serving
<1>3. (\A r \in Requests : at[r] \in Over \cup {"parked"}) /\ install = "idle"
  BY <1>1, NoneBusy
<1>4. DiskInv' /\ FallsBackToProven'
  BY <1>1 DEF SafeInv, DiskInv, FallsBackToProven
<1>5. CASE TakeResume
  <2>1. /\ at' = at /\ from' = from /\ taken' = resume /\ resume' = NoRecord /\ ~BinTried /\ ~SetTried
        /\ resumer = "waiting" /\ resumer' = IF resume = NoRecord THEN "over" ELSE "taken"
    BY <1>5 DEF TakeResume, deployVars, BinTried, SetTried
  <2>2. taken = NoRecord
    BY <2>1 DEF SafeInv, OneInv
  <2>3. OneInv' /\ JobInv'
    BY <1>1, <1>3, <2>1, <2>2 DEF SafeInv, OneInv, JobInv, JobFinds, Busy, Over, Requests
  <2>4. RestartIsFollowed'
    BY <2>1, <2>2 DEF SafeInv, RestartIsFollowed
  <2>5. ServingInv'
    BY <1>1, <1>2, <2>1 DEF SafeInv, ServingInv, Serving, BinTried, SetTried
  <2> QED
    BY <1>4, <2>3, <2>4, <2>5 DEF SafeInv
<1>6. CASE Resume
  <2>1. taken # NoRecord /\ taken[1] \in Deploys /\ resumer = "taken" /\ at[taken[1]] = "parked"
    BY <1>3, <1>6, PairTypes DEF Resume, FollowInv, ProcInv, RecordInv, Follows, Requests, Over
  <2>2. PICK d \in Deploys : d = taken[1]
    BY <2>1
  <2>3. /\ at'[d] \in {"done", "lost", "waiting"} /\ resumer' = "over" /\ taken' = NoRecord /\ resume' = resume
        /\ \A o \in Requests \ {d} : at'[o] = at[o] /\ from'[o] = from[o]
    BY <1>6, <2>2 DEF Resume, TypeOK, Requests
  <2>4. /\ cur = running /\ ~restart /\ ~BinTried /\ ~SetTried /\ ~pending /\ staged = NoSet
    BY <1>1, <1>2, <2>1 DEF SafeInv, ServingInv
  <2>5. \A o \in Requests \ {d} : at[o] \in Over
    BY <2>1, <2>2 DEF SafeInv, OneInv, Requests, Over
  <2>6. OneInv'
    BY <1>1, <1>2, <1>3, <2>3, <2>4, <2>5 DEF SafeInv, OneInv, Busy, Over, Requests, Serving, BinTried, SetTried
  <2>7. ServingInv'
    BY <1>1, <1>2, <2>3, <2>4 DEF SafeInv, ServingInv, Serving, BinTried, SetTried
  <2>8. JobInv'
    BY <1>1, <1>3, <2>3, <2>4, <2>5 DEF JobInv, JobFinds, Over, Untouched
  <2>9. RestartIsFollowed'
    BY <2>3, <2>5 DEF RestartIsFollowed, Over, Requests
  <2> QED
    BY <1>4, <2>6, <2>7, <2>8, <2>9 DEF SafeInv
<1> QED
  BY <1>5, <1>6

(* A request that comes while the daemon is at rest.                       *)
LEMMA SafeAsk ==
  ASSUME ~Overlaps, TypeOK, FollowInv, SafeInv, NEW r \in Requests, Ask(r)
  PROVE  SafeInv'
<1>1. /\ AtRest /\ at[r] = "new" /\ Serving
      /\ UNCHANGED <<from, taken, resume, proc, running, runset, restart, resumer, binTimer, setTimer, proven, kept,
                     staged, cur, prev, pending, install, target>>
  BY DEF Ask, binVars, setVars, procVars, fileVars, Serving
<1>2. PICK step \in {"waiting", "version"} : Goto(r, step) /\ (step = "version" => r \in Upgrades)
  BY DEF Ask
<1>3. at'[r] = step /\ \A o \in Requests \ {r} : at'[o] = at[o] /\ at[o] \in Over
  BY <1>1, <1>2 DEF Goto, TypeOK, AtRest, Over
<1>4. cur = running /\ staged = NoSet /\ ~BinTried /\ ~SetTried /\ resumer = "over" /\ ~restart
  BY <1>1 DEF AtRest, BinTried, SetTried
<1>5. install = "idle" /\ ~pending
  <2>1. \A q \in Requests : at[q] \notin {"installing", "record"}
    BY <1>1, <1>3 DEF Over
  <2> QED
    BY <1>1, <1>4, <2>1 DEF SafeInv, OneInv, ServingInv
<1>6. OneInv'
  BY <1>1, <1>3, <1>4, <1>5 DEF SafeInv, OneInv, Busy, Over, Serving, BinTried, SetTried, Requests
<1>7. ServingInv'
  BY <1>1, <1>4, <1>5 DEF SafeInv, ServingInv, Serving, BinTried, SetTried
<1>8. JobInv'
  BY <1>1, <1>3, <1>4, <1>5 DEF JobInv, JobFinds, Over, Untouched
<1>9. DiskInv' /\ FallsBackToProven' /\ RestartIsFollowed'
  BY <1>1, <1>3 DEF SafeInv, DiskInv, FallsBackToProven, RestartIsFollowed, Over, Requests
<1> QED
  BY <1>6, <1>7, <1>8, <1>9 DEF SafeInv

(* What a job finds when nothing was installed or staged.                  *)
LEMMA SafePlain ==
  ASSUME TypeOK, SafeInv, NEW r \in Requests, NEW step \in {"fetch", "version", "flags", "work", "finish", "done"},
         Goto(r, step), at[r] \in {"waiting", "fetch", "version", "flags", "work", "finish"},
         at[r] \in {"work", "finish"} => step \in {"finish", "done"},
         UNCHANGED <<from, taken, resume, proc, running, runset, restart, resumer, binTimer, setTimer, proven, kept,
                     staged, cur, prev, pending, install, target>>
  PROVE  SafeInv'
<1>1. Busy(r) /\ step \in Steps \ {"new"} /\ at'[r] = step
  BY DEF Busy, Over, Steps, Goto, TypeOK
<1>2. at[r] \in {"waiting", "fetch", "version", "flags"} => Untouched
  BY DEF SafeInv, JobInv, JobFinds
<1>3. install = "idle"
  <2>1. \A q \in Requests : at[q] # "installing"
    BY <1>1 DEF SafeInv, OneInv, Busy, Over
  <2> QED
    BY <2>1 DEF SafeInv, OneInv
<1>4. DiskInv' /\ FallsBackToProven'
  BY DEF SafeInv, DiskInv, FallsBackToProven
<1>5. JobFinds(r)'
  BY <1>1, <1>2, <1>3 DEF JobFinds, Untouched
<1>6. pending => restart \/ cur # running
  <2>1. \A q \in Requests : at[q] \notin {"installing", "record"}
    BY <1>1 DEF SafeInv, OneInv, Busy, Over
  <2>2. Serving /\ ~BinTried
    BY <1>1 DEF SafeInv, OneInv
  <2> QED
    BY <2>1, <2>2 DEF SafeInv, ServingInv
<1> QED
  BY <1>1, <1>3, <1>4, <1>5, <1>6, SafeJob

(* The install, step by step, from the copy of what runs to the restart.   *)
LEMMA SafeBinary ==
  ASSUME TypeOK, FollowInv, SafeInv, NEW r \in Requests,
         FollowVersion(r) \/ (Install /\ at[r] = "installing") \/ Installed(r) \/ RecordUpgrade(r)
  PROVE  SafeInv'
<1>1. /\ UNCHANGED <<from, taken, proc, running, runset, resumer, binTimer, setTimer, proven, kept, staged>>
      /\ Busy(r)
  BY DEF FollowVersion, Install, Installed, RecordUpgrade, setVars, procVars, fileVars, deployVars, Busy, Over
<1>2. JobFinds(r) /\ Serving /\ ~BinTried /\ ~SetTried
  BY <1>1 DEF SafeInv, JobInv, OneInv
<1>3. runset = kept /\ <<running, runset>> \in proven
  BY <1>2 DEF SafeInv, ServingInv, BinTried, SetTried
<1>4. proc' # "clearing" /\ at[r] \in Steps
  BY <1>1, <1>2 DEF Serving, TypeOK
<1>5. CASE FollowVersion(r)
  <2>1. CASE at[r] = "version" /\ Goto(r, "flags") /\ UNCHANGED binVars
    BY <1>1, <1>5, <2>1, SafePlain DEF FollowVersion, procVars, fileVars, setVars, binVars
  <2>2. CASE at[r] = "version" /\ Goto(r, "finish") /\ UNCHANGED binVars
    BY <1>1, <1>5, <2>2, SafePlain DEF FollowVersion, procVars, fileVars, setVars, binVars
  <2>3. CASE BeginInstall(commit[r][1]) /\ Goto(r, "installing") /\ (r \in Deploys => commit[r][1] # running)
    <3>1. /\ UNCHANGED <<cur, prev, pending, restart, resume>> /\ target' = commit[r][1]
          /\ install' \in {"keep", "failed"} /\ at[r] = "version"
      BY <1>5, <2>3 DEF FollowVersion, BeginInstall, binFiles, procVars, fileVars
    <3>2. at'[r] = "installing" /\ Untouched
      BY <1>2, <2>3, <3>1 DEF Goto, TypeOK, JobFinds
    <3>3. JobFinds(r)'
      BY <1>1, <2>3, <3>1, <3>2 DEF JobFinds, Untouched
    <3>4. DiskInv' /\ FallsBackToProven'
      BY <1>1, <1>4, <3>1 DEF SafeInv, DiskInv, FallsBackToProven
    <3> QED
      BY <1>1, <2>3, <3>3, <3>4, SafeJob DEF Steps
  <2> QED
    BY <1>5, <2>1, <2>2, <2>3, FollowAssumption DEF FollowVersion, Requests
<1>6. CASE Install /\ at[r] = "installing"
  <2>1. /\ at' = at /\ UNCHANGED <<restart, resume, target>> /\ InstallStep
    BY <1>6 DEF Install, procVars, fileVars, deployVars, InstallStep, KeepCurrent, ForgetAttempts, Arm, Swap
  <2>2. Goto(r, "installing")
    BY <1>6, <2>1 DEF Goto, TypeOK
  <2>3. /\ staged = NoSet /\ ~restart
        /\ install \in {"keep", "forget", "arm", "failed"} => cur = running /\ ~pending
        /\ install \in {"forget", "arm", "swap", "installed"} => prev = running
        /\ install = "swap" => pending /\ cur = running
        /\ r \in Deploys => target # running
    BY <1>2, <1>6 DEF JobFinds, Untouched
  <2>4. CASE KeepCurrent
    <3>1. /\ UNCHANGED <<cur, pending>> /\ cur = running /\ ~pending
          /\ \/ prev' = cur /\ install' = "forget"
             \/ install' = "failed"
      BY <2>3, <2>4 DEF KeepCurrent
    <3>2. JobFinds(r)'
      BY <1>1, <1>6, <2>1, <2>3, <3>1 DEF JobFinds, Untouched
    <3>3. DiskInv' /\ FallsBackToProven'
      BY <1>1, <1>3, <1>4, <3>1 DEF DiskInv, FallsBackToProven
    <3> QED
      BY <1>1, <2>1, <2>2, <3>1, <3>2, <3>3, SafeJob DEF Steps
  <2>5. CASE ForgetAttempts
    <3>1. /\ UNCHANGED <<cur, prev, pending>> /\ cur = running /\ ~pending /\ prev = running /\ install' = "arm"
      BY <2>3, <2>5 DEF ForgetAttempts
    <3>2. JobFinds(r)'
      BY <1>1, <1>6, <2>1, <2>3, <3>1 DEF JobFinds, Untouched
    <3>3. DiskInv' /\ FallsBackToProven'
      BY <1>1, <1>3, <1>4, <3>1 DEF DiskInv, FallsBackToProven
    <3> QED
      BY <1>1, <2>1, <2>2, <3>1, <3>2, <3>3, SafeJob DEF Steps
  <2>6. CASE Arm
    <3>1. /\ UNCHANGED <<cur, prev>> /\ cur = running /\ prev = running
          /\ \/ pending' /\ install' = "swap"
             \/ ~pending' /\ install' = "failed"
      BY <2>3, <2>6 DEF Arm
    <3>2. JobFinds(r)'
      BY <1>1, <1>6, <2>1, <2>3, <3>1 DEF JobFinds, Untouched
    <3>3. DiskInv' /\ FallsBackToProven'
      BY <1>1, <1>3, <1>4, <2>3, <3>1 DEF DiskInv, FallsBackToProven
    <3> QED
      BY <1>1, <2>1, <2>2, <3>1, <3>2, <3>3, SafeJob DEF Steps
  <2>7. CASE Swap
    <3>1. /\ UNCHANGED prev /\ prev = running
          /\ \/ pending' /\ cur' = target /\ install' = "installed"
             \/ ~pending' /\ cur' = running /\ install' = "failed"
      BY <2>3, <2>7 DEF Swap
    <3>2. JobFinds(r)'
      BY <1>1, <1>6, <2>1, <2>3, <3>1 DEF JobFinds, Untouched
    <3>3. DiskInv' /\ FallsBackToProven'
      BY <1>1, <1>3, <1>4, <2>3, <3>1, AtTypes DEF DiskInv, FallsBackToProven
    <3> QED
      BY <1>1, <2>1, <2>2, <3>1, <3>2, <3>3, SafeJob DEF Steps
  <2> QED
    BY <2>1, <2>4, <2>5, <2>6, <2>7 DEF InstallStep
<1>7. CASE Installed(r)
  <2>1. /\ at[r] = "installing" /\ UNCHANGED <<cur, prev, pending, target, restart, resume>> /\ install' = "idle"
        /\ \/ install = "installed" /\ Goto(r, "record")
           \/ install = "failed" /\ Goto(r, "finish")
    BY <1>7 DEF Installed, binFiles, procVars, fileVars
  <2>2. DiskInv' /\ FallsBackToProven'
    BY <1>1, <1>4, <2>1 DEF SafeInv, DiskInv, FallsBackToProven
  <2>3. CASE install = "installed" /\ Goto(r, "record")
    <3>1. at'[r] = "record" /\ pending /\ prev = running /\ (r \in Deploys => cur # running)
      BY <1>2, <2>1, <2>3 DEF Goto, TypeOK, JobFinds
    <3>2. JobFinds(r)'
      BY <1>1, <2>1, <3>1 DEF JobFinds
    <3> QED
      BY <1>1, <2>1, <2>2, <2>3, <3>2, SafeJob DEF Steps
  <2>4. CASE install = "failed" /\ Goto(r, "finish")
    <3>1. at'[r] = "finish" /\ ~pending
      BY <1>2, <2>1, <2>4 DEF Goto, TypeOK, JobFinds, Untouched
    <3>2. JobFinds(r)'
      BY <3>1 DEF JobFinds
    <3> QED
      BY <1>1, <2>1, <2>2, <2>4, <3>1, <3>2, SafeJob DEF Steps
  <2> QED
    BY <2>1, <2>3, <2>4
<1>8. CASE RecordUpgrade(r)
  <2>1. /\ at[r] = "record" /\ UNCHANGED <<cur, prev, pending, install, target>>
        /\ \/ /\ r \in Deploys => resume' = <<r, commit[r], "version">>
              /\ restart' /\ Goto(r, "ending")
           \/ r \in Deploys /\ Goto(r, "finish") /\ UNCHANGED <<resume, restart>>
    BY <1>8 DEF RecordUpgrade, Record, binVars
  <2>2. pending /\ prev = running /\ (r \in Deploys => cur # running) /\ install = "idle"
    <3>1. \A q \in Requests : at[q] # "installing"
      BY <1>1, <2>1 DEF SafeInv, OneInv, Busy, Over
    <3> QED
      BY <1>2, <2>1, <3>1 DEF JobFinds, SafeInv, OneInv
  <2>3. DiskInv' /\ FallsBackToProven'
    BY <1>1, <1>4, <2>1 DEF SafeInv, DiskInv, FallsBackToProven
  <2>4. CASE Goto(r, "ending") /\ restart' /\ (r \in Deploys => resume' = <<r, commit[r], "version">>)
    <3>1. JobFinds(r)'
      BY <2>4 DEF JobFinds, Goto, TypeOK
    <3>2. r \in Deploys => resume' # NoRecord /\ resume'[1] = r
      BY <2>4, SMTT(30) DEF NoRecord
    <3> QED
      BY <1>1, <2>1, <2>2, <2>3, <2>4, <3>1, <3>2, SafeJob DEF Steps
  <2>5. CASE r \in Deploys /\ Goto(r, "finish") /\ UNCHANGED <<resume, restart>>
    <3>1. JobFinds(r)'
      BY <2>5 DEF JobFinds, Goto, TypeOK
    <3> QED
      BY <1>1, <2>1, <2>2, <2>3, <2>5, <3>1, SafeJob DEF Steps
  <2> QED
    BY <2>1, <2>4, <2>5
<1> QED
  BY <1>5, <1>6, <1>7, <1>8

(* A deploy stages the flags of its commit, and records itself.            *)
LEMMA SafeFlags ==
  ASSUME TypeOK, FollowInv, SafeInv, NEW r \in Deploys, FollowFlags(r) \/ RecordFlags(r)
  PROVE  SafeInv'
<1>1. /\ UNCHANGED <<from, taken, proc, running, runset, resumer, binTimer, setTimer, proven,
                     cur, prev, pending, install, target, kept>>
      /\ Busy(r) /\ r \in Requests
  BY DEF FollowFlags, RecordFlags, Stage, setVars, binVars, procVars, fileVars, Busy, Over, Requests
<1>2. JobFinds(r) /\ Serving /\ ~BinTried /\ ~SetTried
  BY <1>1 DEF SafeInv, JobInv, OneInv
<1>3. proc' # "clearing" /\ ~pending /\ cur = running /\ ~restart
  BY <1>1, <1>2 DEF Serving, JobFinds, Untouched, FollowFlags, RecordFlags
<1>4. install = "idle"
  <2>1. \A q \in Requests : at[q] # "installing"
    BY <1>1 DEF SafeInv, OneInv, Busy, Over, FollowFlags, RecordFlags
  <2> QED
    BY <2>1 DEF SafeInv, OneInv
<1>5. DiskInv' /\ FallsBackToProven'
  BY <1>1, <1>3 DEF SafeInv, DiskInv, FallsBackToProven
<1>6. CASE FollowFlags(r)
  <2>1. at[r] = "flags" /\ UNCHANGED <<restart, resume>>
    BY <1>6 DEF FollowFlags, procVars, fileVars
  <2>2. CASE (Goto(r, "work") \/ Goto(r, "finish")) /\ staged' = staged
    BY <1>1, <2>1, <2>2, SafePlain
  <2>3. CASE Goto(r, "recordflags")
    <3>1. JobFinds(r)'
      BY <1>1, <1>3, <2>1, <2>3 DEF JobFinds, Goto, TypeOK
    <3> QED
      BY <1>1, <1>3, <1>4, <1>5, <2>1, <2>3, <3>1, SafeJob DEF Steps
  <2> QED
    BY <1>6, <2>2, <2>3 DEF FollowFlags, setVars
<1>7. CASE RecordFlags(r)
  <2>1. /\ at[r] = "recordflags"
        /\ \/ resume' = <<r, <<running, commit[r][2]>>, "flags">> /\ Goto(r, "ending")
           \/ Goto(r, "finish") /\ UNCHANGED <<resume, restart>>
    BY <1>7 DEF RecordFlags, Record
  <2>3. CASE resume' = <<r, <<running, commit[r][2]>>, "flags">> /\ Goto(r, "ending")
    <3>1. resume' # NoRecord /\ resume'[1] = r
      BY <2>3 DEF NoRecord
    <3>2. at'[r] = "ending"
      BY <1>1, <2>3 DEF Goto, TypeOK
    <3>3. JobFinds(r)'
      BY <3>2 DEF JobFinds
    <3> QED
      BY <1>1, <1>3, <1>4, <1>5, <2>3, <3>1, <3>3, SafeJob DEF Steps
  <2>4. CASE Goto(r, "finish") /\ UNCHANGED <<resume, restart>>
    <3>1. at'[r] = "finish"
      BY <1>1, <2>4 DEF Goto, TypeOK
    <3>2. JobFinds(r)'
      BY <3>1 DEF JobFinds
    <3> QED
      BY <1>1, <1>3, <1>4, <1>5, <2>4, <3>2, SafeJob DEF Steps
  <2> QED
    BY <2>1, <2>3, <2>4
<1> QED
  BY <1>6, <1>7

(* The job ends; a deploy that is recorded is left to be resumed.          *)
LEMMA SafeEnd ==
  ASSUME TypeOK, FollowInv, SafeInv, NEW r \in Requests, End(r)
  PROVE  SafeInv'
<1>1. /\ UNCHANGED <<from, taken, resume, proc, running, runset, restart, resumer, binTimer, setTimer, proven, kept,
                     staged, cur, prev, pending, install, target>>
      /\ \/ at[r] = "finish" /\ Goto(r, "done")
         \/ at[r] = "ending" /\ Goto(r, IF r \in Deploys THEN "parked" ELSE "done")
  BY DEF End, binVars, setVars, procVars, fileVars
<1>2. CASE at[r] = "finish" /\ Goto(r, "done")
  BY <1>1, <1>2, SafePlain
<1>3. CASE at[r] = "ending" /\ Goto(r, IF r \in Deploys THEN "parked" ELSE "done")
  <2>1. PICK step \in {"parked", "done"} : Goto(r, step) /\ (step = "parked" => r \in Deploys)
    BY <1>3
  <2>2. Busy(r) /\ JobFinds(r)'
    BY <1>3, <2>1 DEF Busy, Over, JobFinds, Goto, TypeOK
  <2>3. r \in Deploys => resume # NoRecord /\ resume[1] = r
    BY <1>3 DEF SafeInv, OneInv
  <2>4. \A q \in Requests : at[q] \notin {"installing", "record"}
    BY <1>3, <2>2 DEF SafeInv, OneInv, Busy, Over
  <2>5. install = "idle" /\ (pending => restart \/ cur # running)
    BY <2>2, <2>4 DEF SafeInv, OneInv, ServingInv
  <2>6. DiskInv' /\ FallsBackToProven'
    BY <1>1 DEF SafeInv, DiskInv, FallsBackToProven
  <2> QED
    BY <1>1, <2>1, <2>2, <2>3, <2>5, <2>6, SafeJob DEF Steps
<1> QED
  BY <1>1, <1>2, <1>3

(* No step of the daemon, its guard or its requests breaks it.             *)
LEMMA SafeStep ==
  ASSUME ~Overlaps, TypeOK, FollowInv, SafeInv, [Next]_vars
  PROVE  SafeInv'
<1>1. CASE UNCHANGED vars
  BY <1>1 DEF vars, binVars, setVars, procVars, deployVars, fileVars, SafeInv, DiskInv, OneInv, ServingInv, JobInv, JobFinds,
              Untouched, Busy, Serving, BinTried, SetTried, FallsBackToProven, RestartIsFollowed
<1>2. CASE Start \/ Waits \/ TakeResume \/ Resume \/ RestartNow \/ CloseQueue
  BY <1>2, SafeStart, SafeWaits, SafeResume, SafeHalt
<1>3. CASE Drained \/ DrainExpires \/ Fails \/ Kill
  BY <1>3, SafeDown DEF Drained, DrainExpires, Fails, Kill
<1>4. CASE Install
  <2>1. install # "idle"
    BY <1>4 DEF Install, InstallStep, KeepCurrent, ForgetAttempts, Arm, Swap
  <2>2. PICK r \in Requests : at[r] = "installing"
    BY <2>1 DEF SafeInv, OneInv
  <2> QED
    BY <1>4, <2>2, SafeBinary
<1>5. ASSUME NEW r \in Requests, Ask(r) \/ Job(r)
      PROVE  SafeInv'
  <2>1. CASE r \in Deploys /\ (TakeHost(r) \/ Fetch(r) \/ Work(r))
    <3>1. /\ UNCHANGED <<from, taken, resume, proc, running, runset, restart, resumer, binTimer, setTimer, proven, kept,
                         staged, cur, prev, pending, install, target>>
          /\ \/ at[r] = "waiting" /\ Goto(r, "fetch")
             \/ at[r] = "fetch" /\ (Goto(r, "version") \/ Goto(r, "finish"))
             \/ at[r] = "work" /\ Goto(r, "finish")
      BY <2>1 DEF TakeHost, Fetch, Work, binVars, setVars, procVars, fileVars
    <3> QED
      BY <3>1, SafePlain
  <2> QED
    BY <1>5, <2>1, SafeAsk, SafeBinary, SafeFlags, SafeEnd DEF Job
<1> QED
  BY <1>1, <1>2, <1>3, <1>4, <1>5 DEF Next, Halt

(* The invariant holds while requests come only to a daemon at rest.       *)
LEMMA SafeAlways == ASSUME ~Overlaps PROVE Spec => []SafeInv
<1>1. Init => SafeInv
  <2> SUFFICES ASSUME Init PROVE SafeInv
    OBVIOUS
  <2>1. OneInv /\ DiskInv /\ JobInv
    BY DEF Init, BinInit, SetInit, OneInv, DiskInv, JobInv, JobFinds, Busy, Over, Requests
  <2>2. ServingInv
    BY DEF Init, BinInit, SetInit, ServingInv, Serving, BinTried, SetTried
  <2>3. FallsBackToProven /\ RestartIsFollowed
    BY DEF Init, BinInit, FallsBackToProven, RestartIsFollowed, Requests
  <2> QED
    BY <2>1, <2>2, <2>3 DEF SafeInv
<1>2. TypeOK /\ FollowInv /\ SafeInv /\ [Next]_vars => SafeInv'
  BY SafeStep
<1> QED
  BY <1>1, <1>2, FollowCorrect, PTL DEF Spec

(* While requests come only to a daemon at rest, wherever a restart, an    *)
(* install or the guard is cut off: what the guard and the flag file would *)
(* go back to has stayed up (selfupdate.go, serveflags.go), a deploy goes  *)
(* on only on a daemon that has (ResumeDeploy after both waits, serve.go), *)
(* and the deploy that restarted it is named by the record until then      *)
(* (pin.go, writeResume).                                                  *)
THEOREM RestartIsAlwaysSafe == ASSUME ~Overlaps PROVE Spec => []RestartIsSafe
<1>1. SafeInv => RestartIsSafe
  <2> SUFFICES ASSUME SafeInv
               PROVE  ResumedOnProven
    BY DEF SafeInv, RestartIsSafe
  <2>1. ASSUME NEW d \in Deploys, from[d] # "none",
               at[d] \in Steps \ {"parked", "ending", "done", "refused", "lost"}
        PROVE  <<running, runset>> \in proven
    <3>1. Busy(d) /\ d \in Requests
      BY <2>1 DEF SafeInv, OneInv, Busy, Over, Requests
    <3> QED
      BY <3>1 DEF SafeInv, OneInv, ServingInv, BinTried, SetTried
  <2> QED
    BY <2>1 DEF ResumedOnProven
<1> QED
  BY <1>1, SafeAlways, PTL

----------------------------------------------------------------------------
(* The two trials.  What is counted: nothing is, unless a binary is        *)
(* pending, and then every start is; a wait that is armed was a start.     *)
TriesInv ==
  /\ ~pending => attempts = 0
  /\ pending /\ prev # NoBinary => attempts <= MaxAttempts
  /\ install \in {"swap", "installed"} => attempts = 0
  /\ proc \in {"exec", "loading"} /\ pending => attempts > 0
  /\ BinTried => attempts > 0
  /\ SetTried => starts > 0

BinaryStep == BinaryTrial!TrialNext \/ UNCHANGED <<StableBinary, TriedBinary, BinaryTries>>
FlagsStep  == FlagsTrial!TrialNext \/ UNCHANGED <<kept, TriedSet, SetTries>>

(* What leaves the files of a trial as they are leaves the trial.          *)
LEMMA FilesRest ==
  /\ UNCHANGED <<cur, prev, pending, attempts>> => BinaryStep
  /\ UNCHANGED setVars => FlagsStep
BY DEF BinaryStep, FlagsStep, setVars, StableBinary, TriedBinary, BinaryTries, TriedSet, SetTries

(* The steps that change neither file of a trial, nor begin one.           *)
LEMMA TrialRests ==
  ASSUME TriesInv, UNCHANGED <<cur, prev, pending, attempts, setVars>>,
         install' = install \/ install' \notin {"swap", "installed"},
         proc' \in {"exec", "loading"} => proc \in {"exec", "loading"},
         BinTried' => BinTried, SetTried' => SetTried
  PROVE  TriesInv' /\ BinaryStep /\ FlagsStep
BY FilesRest DEF TriesInv, setVars

(* The guard counts a start of the binary on trial, or drops it.           *)
LEMMA TrialGuard ==
  ASSUME TypeOK, FollowInv, SafeInv, TriesInv, Guard \/ ClearUpgrade
  PROVE  TriesInv' /\ BinaryStep /\ FlagsStep
<1>1. /\ UNCHANGED <<setVars, binTimer, setTimer, install>> /\ FlagsStep
      /\ ~BinTried /\ ~SetTried /\ install = "idle"
  <2>1. UNCHANGED <<setVars, binTimer, setTimer, install>> /\ ~Serving
    BY DEF Guard, ClearUpgrade, GuardCounts, GuardRestores, GuardClears, Serving
  <2>2. install = "idle"
    BY <2>1 DEF SafeInv, OneInv, Busy, Over
  <2> QED
    BY <2>1, <2>2, FilesRest DEF SafeInv, ServingInv, BinTried, SetTried
<1>2. attempts \in Nat /\ MaxAttempts \in Nat /\ NoBinary \notin Binaries /\ cur \in Binaries
  BY BinaryAssumption DEF TypeOK, BinTypeOK
<1>3. CASE Guard /\ GuardCounts
  <2>1. TriesInv'
    BY <1>1, <1>2, <1>3 DEF Guard, GuardCounts, Restores, Counted, TriesInv, BinTried, SetTried, setVars
  <2>2. CASE TriedBinary = NoBinary
    <3>1. TriedBinary' = NoBinary
      BY <1>3, <2>2 DEF GuardCounts, TriedBinary
    <3> QED
      BY <1>1, <1>3, <2>1, <2>2, <3>1 DEF GuardCounts, BinaryStep, StableBinary, BinaryTries
  <2>3. CASE TriedBinary # NoBinary
    <3>1. pending /\ prev # NoBinary /\ attempts' = attempts + 1 /\ attempts < MaxAttempts
      BY <1>2, <1>3, <2>3 DEF GuardCounts, Restores, Counted, TriedBinary
    <3>2. UNCHANGED <<TriedBinary, StableBinary>> /\ BinaryTries = attempts /\ BinaryTries' = attempts + 1
      BY <1>3, <2>3, <3>1 DEF GuardCounts, TriedBinary, StableBinary, BinaryTries
    <3>3. BinaryTrial!Try
      BY <2>3, <3>1, <3>2 DEF BinaryTrial!Try
    <3> QED
      BY <1>1, <2>1, <3>3 DEF BinaryStep, BinaryTrial!TrialNext
  <2> QED
    BY <2>2, <2>3
<1>4. CASE Guard /\ GuardRestores
  <2>1. TriesInv'
    BY <1>1, <1>2, <1>4 DEF Guard, GuardRestores, Restores, Counted, TriesInv, BinTried, SetTried, setVars
  <2>2. TriedBinary' = NoBinary /\ BinaryTries' = 0 /\ StableBinary' = prev
    BY <1>4 DEF GuardRestores, TriedBinary, BinaryTries, StableBinary
  <2>3. CASE prev = cur
    BY <1>1, <2>1, <2>2, <2>3 DEF BinaryStep, TriedBinary, BinaryTries, StableBinary
  <2>4. CASE prev # cur
    <3>1. pending /\ prev # NoBinary /\ attempts = MaxAttempts
      BY <1>2, <1>4 DEF GuardRestores, Restores, TriesInv
    <3>2. TriedBinary = cur /\ TriedBinary # NoBinary /\ BinaryTries = MaxAttempts /\ StableBinary = prev
      BY <1>2, <2>4, <3>1 DEF TriedBinary, BinaryTries, StableBinary
    <3>3. BinaryTrial!Drop
      BY <2>2, <3>2 DEF BinaryTrial!Drop
    <3> QED
      BY <1>1, <2>1, <3>3 DEF BinaryStep, BinaryTrial!TrialNext
  <2> QED
    BY <2>3, <2>4
<1>5. CASE ClearUpgrade
  <2>1. prev = NoBinary /\ UNCHANGED <<cur, prev>> /\ ~pending' /\ attempts' = 0
    BY <1>5 DEF ClearUpgrade, GuardClears, SafeInv, DiskInv
  <2>2. UNCHANGED <<StableBinary, TriedBinary, BinaryTries>>
    BY <2>1 DEF StableBinary, TriedBinary, BinaryTries
  <2>3. TriesInv'
    BY <1>1, <2>1 DEF TriesInv, BinTried, SetTried, setVars
  <2> QED
    BY <1>1, <2>2, <2>3 DEF BinaryStep
<1> QED
  BY <1>3, <1>4, <1>5 DEF Guard

(* A start counts the flags on trial, or drops them, and arms the waits.   *)
LEMMA TrialServe ==
  ASSUME TypeOK, FollowInv, SafeInv, TriesInv, Serve
  PROVE  TriesInv' /\ BinaryStep /\ FlagsStep
<1>1. /\ UNCHANGED <<cur, prev, pending, attempts, install>> /\ BinaryStep
      /\ binTimer' = (IF pending THEN "armed" ELSE "none")
      /\ setTimer' = (IF staged' # NoSet THEN "armed" ELSE "none")
      /\ proc = "loading" /\ proc' = "up"
  BY FilesRest DEF Serve, binVars
<1>2. starts \in Nat /\ starts <= MaxStarts /\ MaxStarts \in Nat /\ NoSet \notin Sets /\ kept \in Sets
  BY SetAssumption DEF TypeOK, SetTypeOK
<1>3. PICK set \in Sets : Load(set)
  BY DEF Serve
<1>4. TriesInv'
  <2>1. staged' # NoSet => starts' > 0
    BY <1>2, <1>3 DEF Load, setVars
  <2> QED
    BY <1>1, <2>1 DEF TriesInv, BinTried, SetTried
<1>5. FlagsStep
  <2>1. CASE UNCHANGED setVars
    BY <2>1, FilesRest
  <2>2. CASE staged # NoSet /\ starts < MaxStarts /\ starts' = starts + 1 /\ UNCHANGED <<kept, staged>>
    <3>1. CASE staged = kept
      BY <2>2, <3>1 DEF FlagsStep, TriedSet, SetTries
    <3>2. CASE staged # kept
      <4>1. /\ TriedSet = staged /\ TriedSet' = staged /\ SetTries = starts /\ SetTries' = starts + 1
        BY <1>2, <2>2, <3>2 DEF TriedSet, SetTries
      <4>2. FlagsTrial!Try
        BY <2>2, <4>1 DEF FlagsTrial!Try
      <4> QED
        BY <4>2 DEF FlagsStep, FlagsTrial!TrialNext
    <3> QED
      BY <3>1, <3>2
  <2>3. CASE staged # NoSet /\ starts = MaxStarts /\ staged' = NoSet /\ starts' = 0 /\ kept' = kept
    <3>1. TriedSet' = NoSet /\ SetTries' = 0
      BY <1>2, <2>3 DEF TriedSet, SetTries
    <3>2. CASE staged = kept
      BY <2>3, <3>1, <3>2 DEF FlagsStep, TriedSet, SetTries
    <3>3. CASE staged # kept
      <4>1. TriedSet = staged /\ SetTries = starts
        BY <1>2, <2>3, <3>3 DEF TriedSet, SetTries
      <4>2. FlagsTrial!Drop
        BY <2>3, <3>1, <4>1 DEF FlagsTrial!Drop
      <4> QED
        BY <4>2 DEF FlagsStep, FlagsTrial!TrialNext
    <3> QED
      BY <3>2, <3>3
  <2> QED
    BY <1>2, <1>3, <2>1, <2>2, <2>3 DEF Load
<1> QED
  BY <1>1, <1>4, <1>5

(* The two commits: what was on trial takes the place of what is stable.   *)
LEMMA TrialCommits ==
  ASSUME TypeOK, FollowInv, SafeInv, TriesInv, BinCommitted \/ SetCommitted
  PROVE  TriesInv' /\ BinaryStep /\ FlagsStep
<1>1. CASE BinCommitted
  <2>1. /\ UNCHANGED <<cur, prev, install, setVars, proc, setTimer>> /\ FlagsStep
        /\ ~pending' /\ attempts' = 0 /\ ~BinTried' /\ BinTried
    BY <1>1, FilesRest DEF BinCommitted, CommitBinary, BinTried
  <2>2. TriesInv'
    BY <2>1 DEF TriesInv, SetTried, setVars
  <2>3. TriedBinary' = NoBinary /\ BinaryTries' = 0 /\ StableBinary' = cur
    BY <2>1 DEF TriedBinary, BinaryTries, StableBinary
  <2>4. CASE TriedBinary = NoBinary
    BY <2>1, <2>2, <2>3, <2>4 DEF BinaryStep, StableBinary, BinaryTries
  <2>5. CASE TriedBinary # NoBinary
    <3>1. TriedBinary = cur /\ BinaryTries > 0
      BY <2>1, <2>5 DEF TriedBinary, BinaryTries, TriesInv
    <3>2. BinaryTrial!Keep
      BY <2>3, <2>5, <3>1 DEF BinaryTrial!Keep
    <3> QED
      BY <2>1, <2>2, <3>2 DEF BinaryStep, BinaryTrial!TrialNext
  <2> QED
    BY <2>4, <2>5
<1>2. CASE SetCommitted
  <2>1. /\ UNCHANGED <<cur, prev, pending, attempts, install, proc, binTimer>> /\ BinaryStep /\ SetTried
    BY <1>2, FilesRest DEF SetCommitted, binVars, SetTried
  <2>2. staged \in Sets /\ kept \in Sets /\ UnitSet \in Sets /\ NoSet \notin Sets /\ starts > 0
    BY <2>1, SetAssumption DEF FollowInv, ProcInv, SetTried, TypeOK, SetTypeOK, TriesInv
  <2>3. TriesInv'
    BY <1>2, <2>1 DEF SetCommitted, ForgetKept, CommitSet, TriesInv, BinTried, SetTried
  <2>4. kept' = staged
    BY <1>2 DEF SetCommitted, ForgetKept, CommitSet
  <2>5. TriedSet' = NoSet /\ SetTries' = 0
    BY <1>2, <2>2, <2>4 DEF SetCommitted, ForgetKept, CommitSet, TriedSet, SetTries
  <2>6. CASE staged = kept
    BY <2>1, <2>3, <2>4, <2>5, <2>6 DEF FlagsStep, TriedSet, SetTries
  <2>7. CASE staged # kept
    <3>1. TriedSet = staged /\ TriedSet # NoSet /\ SetTries > 0
      BY <2>2, <2>7 DEF TriedSet, SetTries
    <3>2. FlagsTrial!Keep
      BY <2>4, <2>5, <3>1 DEF FlagsTrial!Keep
    <3> QED
      BY <2>1, <2>3, <3>2 DEF FlagsStep, FlagsTrial!TrialNext
  <2> QED
    BY <2>6, <2>7
<1> QED
  BY <1>1, <1>2

(* Of Install's steps only the swap puts a binary on trial.                *)
LEMMA TrialInstall ==
  ASSUME TypeOK, FollowInv, SafeInv, TriesInv, Install
  PROVE  TriesInv' /\ BinaryStep /\ FlagsStep
<1>1. UNCHANGED <<setVars, binTimer, setTimer, proc>> /\ FlagsStep
  BY FilesRest DEF Install, procVars
<1>2. PICK r \in Requests : at[r] = "installing"
  BY DEF Install, InstallStep, KeepCurrent, ForgetAttempts, Arm, Swap, SafeInv, OneInv
<1>3. JobFinds(r) /\ Serving /\ ~BinTried /\ ~SetTried
  BY <1>2 DEF SafeInv, JobInv, OneInv, Busy, Over
<1>4. NoBinary \notin Binaries /\ target \in Binaries /\ cur \in Binaries /\ MaxAttempts \in Nat
  BY BinaryAssumption DEF TypeOK, BinTypeOK
<1>5. proc' \notin {"exec", "loading"} /\ ~BinTried' /\ ~SetTried'
  BY <1>1, <1>3 DEF Serving, BinTried, SetTried
<1>6. CASE KeepCurrent \/ ForgetAttempts
  <2>1. ~pending /\ ~pending' /\ cur' = cur /\ attempts' = 0 /\ install' \in {"forget", "failed", "arm"}
    BY <1>2, <1>3, <1>6 DEF JobFinds, Untouched, KeepCurrent, ForgetAttempts, TriesInv
  <2> QED
    BY <1>1, <1>5, <2>1 DEF TriesInv, BinaryStep, StableBinary, TriedBinary, BinaryTries
<1>7. CASE Arm
  <2>1. prev = cur /\ ~pending /\ attempts = 0 /\ UNCHANGED <<cur, prev, attempts>>
    BY <1>2, <1>3, <1>7 DEF JobFinds, Untouched, Arm, TriesInv
  <2>2. TriesInv'
    BY <1>4, <1>5, <2>1 DEF TriesInv
  <2> QED
    BY <1>1, <2>1, <2>2 DEF BinaryStep, StableBinary, TriedBinary, BinaryTries
<1>8. CASE Swap
  <2>1. prev = cur /\ pending /\ attempts = 0 /\ UNCHANGED <<prev, attempts>>
    BY <1>2, <1>3, <1>8 DEF JobFinds, Swap, TriesInv
  <2>2. TriesInv'
    BY <1>4, <1>5, <2>1 DEF TriesInv
  <2>3. TriedBinary = NoBinary /\ StableBinary = cur /\ BinaryTries = 0
    BY <2>1 DEF StableBinary, TriedBinary, BinaryTries
  <2>4. CASE cur' = cur
    BY <1>1, <2>1, <2>2, <2>3, <2>4 DEF BinaryStep, StableBinary, TriedBinary, BinaryTries
  <2>5. CASE cur' # cur
    <3>1. cur' = target /\ pending'
      BY <1>8, <2>1, <2>5 DEF Swap
    <3>2. TriedBinary' = target /\ StableBinary' = cur /\ BinaryTries' = 0
      BY <1>4, <2>1, <2>5, <3>1 DEF StableBinary, TriedBinary, BinaryTries
    <3>3. BinaryTrial!StageTrial
      BY <1>4, <2>3, <3>2 DEF BinaryTrial!StageTrial
    <3> QED
      BY <1>1, <2>2, <3>3 DEF BinaryStep, BinaryTrial!TrialNext
  <2> QED
    BY <2>4, <2>5
<1> QED
  BY <1>6, <1>7, <1>8 DEF Install, InstallStep

(* A deploy stages flags only where none are on trial.                     *)
LEMMA TrialStage ==
  ASSUME TypeOK, FollowInv, SafeInv, TriesInv, NEW d \in Deploys, FollowFlags(d)
  PROVE  TriesInv' /\ BinaryStep /\ FlagsStep
<1>1. UNCHANGED <<cur, prev, pending, attempts, install, proc, binTimer, setTimer>> /\ BinaryStep
  BY FilesRest DEF FollowFlags, binVars, procVars
<1>2. CASE UNCHANGED setVars
  BY <1>1, <1>2, TrialRests DEF BinTried, SetTried
<1>3. CASE commit[d][2] # runset /\ Stage(commit[d][2])
  <2>1. d \in Requests /\ Busy(d) /\ at[d] = "flags"
    BY DEF FollowFlags, Busy, Over, Requests
  <2>2. staged = NoSet /\ Serving /\ ~SetTried /\ runset = kept
    BY <2>1 DEF SafeInv, JobInv, JobFinds, Untouched, OneInv, ServingInv
  <2>3. commit[d][2] \in Sets /\ NoSet \notin Sets /\ kept \in Sets
    BY <2>1, SetAssumption DEF TypeOK, SetTypeOK, Wanted
  <2>4. TriedSet = NoSet /\ SetTries = 0
    BY <2>2, <2>3 DEF TriedSet, SetTries
  <2>5. kept' = kept /\ TriedSet' = commit[d][2] /\ SetTries' = 0
    BY <1>3, <2>2, <2>3 DEF Stage, TriedSet, SetTries
  <2>6. FlagsTrial!StageTrial
    BY <2>3, <2>4, <2>5 DEF FlagsTrial!StageTrial
  <2>7. TriesInv'
    BY <1>1, <2>2 DEF TriesInv, BinTried, SetTried
  <2> QED
    BY <1>1, <2>6, <2>7 DEF FlagsStep, FlagsTrial!TrialNext
<1> QED
  BY <1>2, <1>3 DEF FollowFlags

(* Every step is a step of both trials, or none.                           *)
LEMMA TrialStep ==
  ASSUME TypeOK, FollowInv, SafeInv, TriesInv, [Next]_vars
  PROVE  TriesInv' /\ BinaryStep /\ FlagsStep
<1>1. CASE UNCHANGED vars
  BY <1>1, TrialRests DEF vars, binVars, procVars, BinTried, SetTried
<1>2. CASE Exec \/ BinServed \/ SetServed \/ TakeResume \/ Resume \/ RestartNow \/ CloseQueue
  <2>1. UNCHANGED <<cur, prev, pending, attempts, setVars, install>>
    BY <1>2 DEF Exec, BinServed, SetServed, TakeResume, Resume, RestartNow, CloseQueue, binVars
  <2>2. proc' \in {"exec", "loading"} => proc \in {"exec", "loading"}
    BY <1>2 DEF Exec, BinServed, SetServed, TakeResume, Resume, RestartNow, CloseQueue
  <2>3. (BinTried' => BinTried) /\ (SetTried' => SetTried)
    BY <1>2 DEF Exec, BinServed, SetServed, TakeResume, Resume, RestartNow, CloseQueue, BinTried, SetTried
  <2> QED
    BY <2>1, <2>2, <2>3, TrialRests
<1>3. CASE Drained \/ DrainExpires \/ Fails \/ Kill
  <2>1. Down
    BY <1>3 DEF Drained, DrainExpires, Fails, Kill
  <2> QED
    BY <2>1, TrialRests DEF Down, binFiles, BinTried, SetTried
<1>4. CASE Guard \/ ClearUpgrade \/ Serve \/ BinCommitted \/ SetCommitted \/ Install
  BY <1>4, TrialGuard, TrialServe, TrialCommits, TrialInstall
<1>5. ASSUME NEW r \in Requests, Ask(r) \/ Job(r)
      PROVE  TriesInv' /\ BinaryStep /\ FlagsStep
  <2>1. CASE r \in Deploys /\ FollowFlags(r)
    BY <2>1, TrialStage
  <2>2. CASE FollowVersion(r) \/ Installed(r)
    <3>1. /\ UNCHANGED <<cur, prev, pending, attempts, setVars, proc, binTimer, setTimer>>
          /\ install' = install \/ install' \notin {"swap", "installed"}
      BY <2>2 DEF FollowVersion, Installed, BeginInstall, binVars, binFiles, procVars
    <3> QED
      BY <3>1, TrialRests DEF BinTried, SetTried
  <2>3. CASE \/ Ask(r) \/ RecordUpgrade(r) \/ End(r)
             \/ r \in Deploys /\ (TakeHost(r) \/ Fetch(r) \/ RecordFlags(r) \/ Work(r))
    <3>1. UNCHANGED <<cur, prev, pending, attempts, setVars, proc, binTimer, setTimer, install>>
      BY <2>3 DEF Ask, RecordUpgrade, End, TakeHost, Fetch, RecordFlags, Work, binVars, procVars
    <3> QED
      BY <3>1, TrialRests DEF BinTried, SetTried
  <2> QED
    BY <1>5, <2>1, <2>2, <2>3 DEF Job
<1> QED
  BY <1>1, <1>2, <1>3, <1>4, <1>5 DEF Next, Start, Halt, Waits

(* While requests come only to a daemon at rest, the daemon's binary and   *)
(* its flags each follow Trial: what selfupdate.go and serveflags.go do to *)
(* their files, kills between any two of their steps included, is to stage *)
(* one thing, to start it a bounded number of times, and to keep it only   *)
(* after it was started or drop it only after its last start.              *)
THEOREM BothAlwaysOnTrial == ASSUME ~Overlaps PROVE Spec => BothOnTrial
<1>1. Init => TriesInv
  BY BinaryAssumption DEF Init, BinInit, TriesInv, BinTried, SetTried
<1>2. Init => BinaryTrial!TrialInit /\ FlagsTrial!TrialInit
  <2> SUFFICES ASSUME Init PROVE BinaryTrial!TrialInit /\ FlagsTrial!TrialInit
    OBVIOUS
  <2>1. TriedBinary = NoBinary /\ StableBinary \in Binaries /\ BinaryTries = 0
    BY DEF Init, BinInit, TriedBinary, StableBinary, BinaryTries
  <2>2. TriedSet = NoSet /\ kept \in Sets /\ SetTries = 0
    BY SetAssumption DEF Init, SetInit, TriedSet, SetTries
  <2> QED
    BY <2>1, <2>2 DEF BinaryTrial!TrialInit, FlagsTrial!TrialInit
<1>3. TypeOK /\ FollowInv /\ SafeInv /\ TriesInv /\ [Next]_vars => TriesInv' /\ BinaryStep /\ FlagsStep
  BY TrialStep
<1>4. BinaryStep => [BinaryTrial!TrialNext]_(BinaryTrial!trialVars)
  BY DEF BinaryStep, BinaryTrial!trialVars
<1>5. FlagsStep => [FlagsTrial!TrialNext]_(FlagsTrial!trialVars)
  BY DEF FlagsStep, FlagsTrial!trialVars
<1> QED
  BY <1>1, <1>2, <1>3, <1>4, <1>5, FollowCorrect, SafeAlways, PTL
     DEF Spec, BothOnTrial, BinaryOnTrial, FlagsOnTrial, BinaryTrial!TrialSpec, FlagsTrial!TrialSpec
=============================================================================
