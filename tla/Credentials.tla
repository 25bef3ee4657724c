---------------------------- MODULE Credentials ----------------------------
(***************************************************************************)
(* Who may do what: the users and the API tokens of a daemon               *)
(* (pkg/server/users.go, tokens.go), changed over the API by admins and    *)
(* directories (admin.go), by people who sign in (auth.go, oidc.go), and   *)
(* by `native-ops user` and `native-ops token` on the host, which write    *)
(* the same files from a process of their own.                             *)
(*                                                                         *)
(* A person is a username and the email that goes with it; whoever has an  *)
(* account may be signed in, for a session is a signed cookie and what it  *)
(* allows is read from the store at every request.  Passwords, names and   *)
(* times of sign-in are left out: setting one saves the store as it is.    *)
(***************************************************************************)
EXTENDS Naturals

CONSTANTS
    People,       \* usernames, each with its email
    Tokens,       \* tokens that may be made
    Admins,       \* the admins of the file the daemon starts with
    Callers,      \* who sends such requests: people, "token" for an admin token
    Slots,        \* requests that change a user at the same time
    HostUser,     \* who runs the commands on the host: "daemon" or "root"
    Overlap,      \* whether such a command may run while the daemon writes
    MaxRequests, MaxCommands, MaxFaults, MaxRestarts  \* bounds

VARIABLES
    userMem, userFile, userSame, userOwner,      \* UserStore
    tokenMem, tokenFile, tokenSame, tokenOwner,  \* TokenStore
    req,     \* what is left to do of each request that changes a user
    cli,     \* the command that runs on the host
    minted,  \* the tokens made so far
    spare,   \* what is left of the bounds
    said,    \* history: what a person's account may be, by what was answered
    gone     \* history: the tokens whose revocation was answered

Users     == INSTANCE FileStore WITH mem <- userMem, file <- userFile, same <- userSame, owner <- userOwner
TokenFile == INSTANCE FileStore WITH mem <- tokenMem, file <- tokenFile, same <- tokenSame, owner <- tokenOwner

userVars  == <<userMem, userFile, userSame, userOwner>>
tokenVars == <<tokenMem, tokenFile, tokenSame, tokenOwner>>
vars == <<userVars, tokenVars, req, cli, minted, spare, said, gone>>

Roles   == {"viewer", "admin"}
NoUser  == [role |-> "none", off |-> FALSE]
Account == [role : Roles \cup {"none"}, off : BOOLEAN]
Idle    == [at |-> "idle"]

FirstUsers == [p \in People |-> IF p \in Admins THEN [role |-> "admin", off |-> FALSE] ELSE NoUser]

Init ==
    /\ userMem = FirstUsers /\ userFile = FirstUsers /\ userSame = TRUE /\ userOwner = "daemon"
    /\ tokenMem = {} /\ tokenFile = {} /\ tokenSame = TRUE /\ tokenOwner = "daemon"
    /\ req = [s \in Slots |-> Idle]
    /\ cli = Idle /\ minted = {} /\ gone = {}
    /\ spare = [requests |-> MaxRequests, commands |-> MaxCommands, faults |-> MaxFaults, restarts |-> MaxRestarts]
    /\ said = [p \in People |-> {FirstUsers[p]}]

-----------------------------------------------------------------------------
(* Helpers.                                                                *)

Spend(what) == spare[what] > 0 /\ spare' = [spare EXCEPT ![what] = @ - 1]
SaveEnds(ok) == IF ok THEN UNCHANGED spare ELSE Spend("faults")

(* Nothing of the daemon runs between a command's read and its write.      *)
HostQuiet == Overlap \/ cli = Idle

Exists(users, p) == users[p].role # "none"

(* currentSession and authWith: the account as it is in the store now.     *)
MayAdmin(p) == Users!Readable /\ Users!Now[p].role = "admin" /\ ~Users!Now[p].off

(* The account p becomes a; what may be found later is what was answered,  *)
(* or, after a failed save, either.                                        *)
SetAccount(p, a, ok) ==
    /\ Users!Change([Users!Now EXCEPT ![p] = a], ok)
    /\ SaveEnds(ok)
    /\ said' = [said EXCEPT ![p] = IF ok THEN {a} ELSE @ \cup {a}]

SaveAsIs(ok) == Users!Change(Users!Now, ok) /\ SaveEnds(ok) /\ UNCHANGED said

-----------------------------------------------------------------------------
(* Requests that change a user: PATCH /v1/users/{username} and             *)
(* PUT /v1/users/by-email/{email}, by somebody signed in or by a token.    *)

(* Somebody signed in may not demote or disable themselves.                *)
Self(by, p, role, off) == by = p /\ (role \notin {"admin", "-"} \/ off = "yes")

(* Who it is, whether they may, and that it is not themselves, is seen     *)
(* before the store is changed, under a lock of its own.                   *)
BeginUpdate(s, by, p, role, off) ==
    /\ req[s] = Idle /\ HostQuiet
    /\ Spend("requests")
    /\ <<role, off>> # <<"-", "-">>
    /\ by # "token" => MayAdmin(by) /\ ~Self(by, p, role, off)
    /\ Users!Readable /\ Exists(Users!Now, p)
    /\ req' = [req EXCEPT ![s] = [at |-> "update", who |-> p, role |-> role, off |-> off]]
    /\ UNCHANGED <<userVars, tokenVars, cli, minted, said, gone>>

BeginUpsert(s, by, p, role, off) ==
    /\ req[s] = Idle /\ HostQuiet
    /\ Spend("requests")
    /\ role # "-"
    /\ by # "token" => MayAdmin(by) /\ ~Self(by, p, role, off)
    /\ req' = [req EXCEPT ![s] = [at |-> "upsert", who |-> p, role |-> role, off |-> off]]
    /\ UNCHANGED <<userVars, tokenVars, cli, minted, said, gone>>

(* A change that fails ends the request; what it has done stays done.      *)
Left(s, ok, rest) == req' = [req EXCEPT ![s] = IF ok /\ rest # "-" THEN [@ EXCEPT !.role = "-"] ELSE Idle]

SetRole(s) ==
    /\ req[s].at = "update" /\ req[s].role # "-" /\ HostQuiet
    /\ Exists(Users!Now, req[s].who)
    /\ \E ok \in BOOLEAN :
          /\ SetAccount(req[s].who, [Users!Now[req[s].who] EXCEPT !.role = req[s].role], ok)
          /\ Left(s, ok, req[s].off)
    /\ UNCHANGED <<tokenVars, cli, minted, gone>>

SetDisabled(s) ==
    /\ req[s].at = "update" /\ req[s].role = "-" /\ HostQuiet
    /\ Exists(Users!Now, req[s].who)
    /\ \E ok \in BOOLEAN :
          /\ SetAccount(req[s].who, [Users!Now[req[s].who] EXCEPT !.off = (req[s].off = "yes")], ok)
          /\ Left(s, ok, "-")
    /\ UNCHANGED <<tokenVars, cli, minted, gone>>

(* The account is made if there is none.                                   *)
UpsertByEmail(s) ==
    /\ req[s].at = "upsert" /\ HostQuiet
    /\ \E ok \in BOOLEAN :
          /\ SetAccount(req[s].who, [role |-> req[s].role,
                                     off  |-> IF req[s].off = "-" THEN Users!Now[req[s].who].off ELSE req[s].off = "yes"], ok)
          /\ Left(s, ok, "-")
    /\ UNCHANGED <<tokenVars, cli, minted, gone>>

(* The store cannot be read, or the account is not there any more.         *)
UpdateFails(s) ==
    /\ req[s] # Idle /\ HostQuiet
    /\ ~Users!Readable \/ (req[s].at = "update" /\ ~Exists(Users!Now, req[s].who))
    /\ req' = [req EXCEPT ![s] = Idle]
    /\ UNCHANGED <<userVars, tokenVars, cli, minted, spare, said, gone>>

-----------------------------------------------------------------------------
(* People who sign in.                                                     *)

(* Over OIDC: an account that is there is kept as it is, whoever is new    *)
(* gets one.                                                               *)
FindOrCreateOIDC(p) ==
    /\ HostQuiet
    /\ \E ok \in BOOLEAN :
          IF Exists(Users!Now, p) THEN SaveAsIs(ok)
          ELSE SetAccount(p, [role |-> "viewer", off |-> FALSE], ok)
    /\ UNCHANGED <<tokenVars, req, cli, minted, gone>>

(* The end of every sign-in, and a new password: the store is saved.       *)
TouchLogin(p) ==
    /\ HostQuiet /\ Exists(Users!Now, p)
    /\ \E ok \in BOOLEAN : SaveAsIs(ok)
    /\ UNCHANGED <<tokenVars, req, cli, minted, gone>>

-----------------------------------------------------------------------------
(* Tokens over the API.                                                    *)

(* Create and Revoke re-read the file first, whether it changed or not.    *)
Reread == tokenFile

CreateToken(t) ==
    /\ HostQuiet /\ t \notin minted
    /\ minted' = minted \cup {t}
    /\ \E ok \in BOOLEAN : TokenFile!Change(Reread \cup {t}, ok) /\ SaveEnds(ok)
    /\ UNCHANGED <<userVars, req, cli, said, gone>>

RevokeToken(t) ==
    /\ HostQuiet /\ t \in Reread
    /\ \E ok \in BOOLEAN :
          /\ TokenFile!Change(Reread \ {t}, ok) /\ SaveEnds(ok)
          /\ gone' = IF ok THEN gone \cup {t} ELSE gone
    /\ UNCHANGED <<userVars, req, cli, minted, said>>

(* List re-reads; so does Verify, if the file changed.                     *)
ListTokens ==
    /\ HostQuiet /\ tokenMem # tokenFile
    /\ tokenMem' = tokenFile /\ tokenSame' = TRUE
    /\ UNCHANGED <<userVars, tokenFile, tokenOwner, req, cli, minted, spare, said, gone>>

-----------------------------------------------------------------------------
(* Commands on the host.                                                   *)

CommandReads(what) ==
    /\ cli = Idle
    /\ Spend("commands")
    /\ cli' = [at |-> "read", what |-> what, users |-> userFile, tokens |-> tokenFile]
    /\ UNCHANGED <<userVars, tokenVars, req, minted, said, gone>>

(* user create, role, disable and enable.                                  *)
HostChanges(u) ==
    IF u = NoUser THEN [role : Roles, off : {FALSE}]
    ELSE {[u EXCEPT !.role = r] : r \in Roles} \cup {[u EXCEPT !.off = ~@]}

CommandSetsUser(p, a) ==
    /\ cli # Idle /\ cli.what = "user"
    /\ a \in HostChanges(cli.users[p])
    /\ Users!Replace([cli.users EXCEPT ![p] = a], HostUser)
    /\ said' = [said EXCEPT ![p] = {a}]
    /\ cli' = Idle
    /\ UNCHANGED <<tokenVars, req, minted, spare, gone>>

(* token create and token revoke: the file keeps its owner.                *)
CommandCreatesToken(t) ==
    /\ cli # Idle /\ cli.what = "token" /\ t \notin minted
    /\ minted' = minted \cup {t}
    /\ TokenFile!Replace(cli.tokens \cup {t}, tokenOwner)
    /\ cli' = Idle
    /\ UNCHANGED <<userVars, req, spare, said, gone>>

CommandRevokesToken(t) ==
    /\ cli # Idle /\ cli.what = "token" /\ t \in cli.tokens
    /\ TokenFile!Replace(cli.tokens \ {t}, tokenOwner)
    /\ gone' = gone \cup {t}
    /\ cli' = Idle
    /\ UNCHANGED <<userVars, req, minted, spare, said>>

CommandFails == cli # Idle /\ cli' = Idle /\ UNCHANGED <<userVars, tokenVars, req, minted, spare, said, gone>>

-----------------------------------------------------------------------------
(* The daemon starts again, from the files, which it must be able to read. *)
Restart ==
    /\ HostQuiet
    /\ Spend("restarts")
    /\ Users!Start /\ TokenFile!Start
    /\ req' = [s \in Slots |-> Idle]
    /\ UNCHANGED <<cli, minted, said, gone>>

Next ==
    \/ \E s \in Slots, by \in Callers, p \in People, role \in Roles \cup {"-"}, off \in {"-", "yes", "no"} :
          BeginUpdate(s, by, p, role, off) \/ BeginUpsert(s, by, p, role, off)
    \/ \E s \in Slots : SetRole(s) \/ SetDisabled(s) \/ UpsertByEmail(s) \/ UpdateFails(s)
    \/ \E p \in People : FindOrCreateOIDC(p) \/ TouchLogin(p)
    \/ \E t \in Tokens : CreateToken(t) \/ RevokeToken(t) \/ CommandCreatesToken(t) \/ CommandRevokesToken(t)
    \/ ListTokens
    \/ \E what \in {"user", "token"} : CommandReads(what)
    \/ \E p \in People, a \in [role : Roles, off : BOOLEAN] : CommandSetsUser(p, a)
    \/ CommandFails
    \/ Restart

Spec == Init /\ [][Next]_vars

-----------------------------------------------------------------------------
(* Properties.                                                             *)

TypeOK ==
    /\ userMem \in [People -> Account] /\ userFile \in [People -> Account]
    /\ tokenMem \in SUBSET Tokens /\ tokenFile \in SUBSET Tokens
    /\ {userSame, tokenSame} \subseteq BOOLEAN /\ {userOwner, tokenOwner} \subseteq {"daemon", "root"}
    /\ req \in [Slots -> {Idle} \cup [at : {"update", "upsert"}, who : People,
                                      role : Roles \cup {"-"}, off : {"-", "yes", "no"}]]
    /\ cli \in {Idle} \cup [at : {"read"}, what : {"user", "token"}, users : [People -> Account], tokens : SUBSET Tokens]
    /\ minted \in SUBSET Tokens /\ gone \in SUBSET Tokens
    /\ said \in [People -> SUBSET Account]
    /\ spare \in [requests : Nat, commands : Nat, faults : Nat, restarts : Nat]

(* What the daemon goes by: nobody is let in when the file cannot be read. *)
Seen == IF Users!Readable THEN Users!Now ELSE [p \in People |-> NoUser]

(* A change of an account that was answered, by the API or on the host,    *)
(* stands until the next change of that account: in what the daemon goes   *)
(* by and in the file it will start from, whatever is changed of other     *)
(* accounts, whoever signs in, and whatever save fails in between          *)
(* (docs/daemon.md:788 "A running daemon honours user changes immediately",*)
(* users.go:40).                                                           *)
ChangesStand == \A p \in People : Seen[p] \in said[p] /\ userFile[p] \in said[p]

(* A token whose revocation was answered is refused from then on, and does *)
(* not come back from a copy somebody else still had (docs/daemon.md:603). *)
RevokedIsRefused == gone \cap (TokenFile!Now \cup tokenFile) = {}

(* An admin remains, while only people who are signed in as admins change  *)
(* accounts (admin.go:145 "so the last way in is never closed by           *)
(* accident").                                                             *)
AdminRemains == \E p \in People : Seen[p].role = "admin" /\ ~Seen[p].off
=============================================================================
