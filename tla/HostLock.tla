------------------------------ MODULE HostLock ------------------------------
(***************************************************************************)
(* What the daemon promises of its host: a lock with a line.  One change   *)
(* has the host at a time, only the one that has it works, and it goes to  *)
(* the first in line.  HostQueue implements this.                          *)
(***************************************************************************)
EXTENDS Naturals, Sequences

CONSTANT Changes

VARIABLES
  holders,  \* the change that has the host, if any
  line,     \* the changes that wait for it, in order
  working   \* the change whose work is under way, if any

lockVars == <<holders, line, working>>

Waiters == {line[i] : i \in DOMAIN line}

LockInit ==
  /\ holders = {}
  /\ line = <<>>
  /\ working = {}

(* A free host that nobody waits for is taken at once.                     *)
Take(c) ==
  /\ holders = {} /\ line = <<>>
  /\ holders' = {c}
  /\ UNCHANGED <<line, working>>

(* Somebody has the host, so there is somebody who will hand it on.        *)
Wait(c) ==
  /\ holders # {}
  /\ c \notin holders \cup Waiters
  /\ line' = Append(line, c)
  /\ UNCHANGED <<holders, working>>

GiveUp(c) ==
  /\ \E i \in DOMAIN line :
       /\ line[i] = c
       /\ line' = SubSeq(line, 1, i - 1) \o SubSeq(line, i + 1, Len(line))
  /\ UNCHANGED <<holders, working>>

Begin(c) ==
  /\ c \in holders
  /\ working' = {c}
  /\ UNCHANGED <<holders, line>>

End(c) ==
  /\ working = {c}
  /\ working' = {}
  /\ UNCHANGED <<holders, line>>

HandOn(c) ==
  /\ holders = {c}
  /\ working = {}
  /\ \/ line = <<>> /\ holders' = {} /\ line' = line
     \/ line # <<>> /\ holders' = {Head(line)} /\ line' = Tail(line)
  /\ UNCHANGED working

(* The daemon stops: nobody in line will have the host.                    *)
Dismiss ==
  /\ line' = <<>>
  /\ UNCHANGED <<holders, working>>

(* The daemon is gone.                                                     *)
Vanish ==
  /\ holders' = {} /\ line' = <<>> /\ working' = {}

LockNext ==
  \/ \E c \in Changes :
       Take(c) \/ Wait(c) \/ GiveUp(c) \/ Begin(c) \/ End(c) \/ HandOn(c)
  \/ Dismiss
  \/ Vanish

LockSpec == LockInit /\ [][LockNext]_lockVars
=============================================================================
