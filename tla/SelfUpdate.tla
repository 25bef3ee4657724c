---------------------------- MODULE SelfUpdate ----------------------------
(***************************************************************************)
(* The files by which the daemon replaces its own binary                   *)
(* (pkg/selfupdate/selfupdate.go): the binary the unit starts, the one it  *)
(* replaced, upgrade.pending and upgrade.attempts; and the steps that      *)
(* change them: Install's, the unit's guard, and Commit.  A step is one    *)
(* change of one file (or of several no reader can tell apart), so that    *)
(* the daemon can die between any two.  DeployFollow runs them.            *)
(***************************************************************************)
EXTENDS Naturals

CONSTANTS
  Binaries,   \* the releases
  NoBinary,   \* no file
  MaxAttempts \* selfupdate.MaxAttempts

ASSUME BinaryAssumption ==
  /\ NoBinary \notin Binaries
  /\ MaxAttempts \in Nat \ {0}

VARIABLES
  cur,      \* native-ops
  prev,     \* native-ops.prev
  pending,  \* whether upgrade.pending exists
  attempts, \* upgrade.attempts; no file counts as 0
  install,  \* how far Install has come in this process
  target    \* the release it installs

binFiles == <<cur, prev, pending, attempts>>
binVars  == <<cur, prev, pending, attempts, install, target>>

InstallSteps == {"idle", "keep", "forget", "arm", "swap", "installed", "failed"}

BinTypeOK ==
  /\ cur \in Binaries
  /\ prev \in Binaries \cup {NoBinary}
  /\ pending \in BOOLEAN
  /\ attempts \in 0 .. MaxAttempts + 1
  /\ install \in InstallSteps
  /\ target \in Binaries

BinInit ==
  /\ cur \in Binaries
  /\ prev = NoBinary
  /\ pending = FALSE
  /\ attempts = 0
  /\ install = "idle"
  /\ target = cur

----------------------------------------------------------------------------
(* Install.                                                                *)

(* The download, its checksum and its version are right, or nothing is     *)
(* changed.                                                                *)
BeginInstall(b) ==
  /\ install = "idle"
  /\ target' = b
  /\ install' \in {"keep", "failed"}
  /\ UNCHANGED binFiles

(* A slip: a copy that failed goes unnoticed.                              *)
KeepUnchecked ==
  /\ install = "keep"
  /\ prev' \in {cur, prev}
  /\ install' = "forget"
  /\ UNCHANGED <<cur, pending, attempts, target>>

(* copyFile(cur, prev): a temporary file and a rename.                     *)
KeepCurrent ==
  /\ install = "keep"
  /\ \/ prev' = cur /\ install' = "forget"
     \/ prev' = prev /\ install' = "failed"
  /\ UNCHANGED <<cur, pending, attempts, target>>

ForgetAttempts ==
  /\ install = "forget"
  /\ attempts' = 0
  /\ install' = "arm"
  /\ UNCHANGED <<cur, prev, pending, target>>

Arm ==
  /\ install = "arm"
  /\ \/ pending' = TRUE /\ install' = "swap"
     \/ pending' = pending /\ install' = "failed"
  /\ UNCHANGED <<cur, prev, attempts, target>>

Swap ==
  /\ install = "swap"
  /\ \/ cur' = target /\ install' = "installed" /\ UNCHANGED pending
     \/ cur' = cur /\ install' = "failed" /\ pending' = FALSE
  /\ UNCHANGED <<prev, attempts, target>>

InstallStep == KeepCurrent \/ ForgetAttempts \/ Arm \/ Swap

----------------------------------------------------------------------------
(* Guard, before every start.                                              *)

(* A slip: one start too many.                                             *)
RestoresLate == pending /\ attempts > MaxAttempts /\ prev # NoBinary

Restores == pending /\ attempts + 1 > MaxAttempts /\ prev # NoBinary

(* The count it writes; beyond MaxAttempts every count is the same.        *)
Counted == IF attempts <= MaxAttempts THEN attempts + 1 ELSE attempts

(* The start is counted; or the previous binary is moved back ...          *)
GuardCounts ==
  /\ ~Restores
  /\ attempts' = IF pending THEN Counted ELSE attempts
  /\ UNCHANGED <<cur, prev, pending, install, target>>

GuardRestores ==
  /\ Restores
  /\ cur' = prev
  /\ prev' = NoBinary
  /\ attempts' = Counted
  /\ UNCHANGED <<pending, install, target>>

(* ... and then the upgrade's files are removed.                           *)
GuardClears ==
  /\ pending' = FALSE
  /\ attempts' = 0
  /\ UNCHANGED <<cur, prev, install, target>>

(* Commit, after the wait: upgrade.pending is removed, whoever wrote it.   *)
CommitBinary ==
  /\ pending' = FALSE
  /\ attempts' = 0
  /\ UNCHANGED <<cur, prev, install, target>>

----------------------------------------------------------------------------
(* The trial these files stand for: a binary that is pending beside the    *)
(* one it would give way to.                                               *)
TriedBinary  == IF pending /\ prev \notin {NoBinary, cur} THEN cur ELSE NoBinary
StableBinary == IF TriedBinary = NoBinary THEN cur ELSE prev
BinaryTries  == IF TriedBinary = NoBinary THEN 0 ELSE attempts
=============================================================================
