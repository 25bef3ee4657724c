----------------------------- MODULE FileStore -----------------------------
(***************************************************************************)
(* A store that keeps its records in one file which other processes write  *)
(* too: TokenStore and UserStore (pkg/server/tokens.go, users.go).  The    *)
(* daemon has a copy and re-reads the file when it is another file than    *)
(* the one it read or wrote last; a change is made to the copy, and saved  *)
(* by putting a new file in the place of the old one.                      *)
(***************************************************************************)
VARIABLES mem, file, same, owner

NowStale == mem

(* The copy is re-read first, unless the file is the one it was read from. *)
Now == IF same THEN mem ELSE file

(* The file has the mode 0600: the daemon reads its own.                   *)
Readable == same \/ owner = "daemon"

(* A change of the copy, saved or not; a save that fails takes nothing     *)
(* back.                                                                   *)
Change(new, ok) ==
    /\ Readable
    /\ mem' = new /\ same' = TRUE
    /\ IF ok THEN file' = new /\ owner' = "daemon" ELSE UNCHANGED <<file, owner>>

ReplaceUnnoticed(new, by) ==
    /\ file' = new /\ owner' = by
    /\ UNCHANGED <<mem, same>>

(* A command on the host saves what it made of its own copy: another file, *)
(* which is told by its identity, its time or its size.                    *)
Replace(new, by) ==
    /\ file' = new /\ owner' = by /\ same' = FALSE
    /\ UNCHANGED mem

(* A daemon that cannot read its files does not start.                     *)
Start == owner = "daemon" /\ mem' = file /\ same' = TRUE /\ UNCHANGED <<file, owner>>
=============================================================================
