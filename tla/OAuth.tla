------------------------------- MODULE OAuth -------------------------------
(***************************************************************************)
(* The daemon as an authorization server for its own MCP endpoint: the     *)
(* store of clients and grants (pkg/server/oauth.go), kept in one file     *)
(* that every change replaces, the codes that live in memory only, and the *)
(* token endpoint (oauth_handlers.go), which looks at the client, changes  *)
(* the store and looks at the person in three steps, so that requests,     *)
(* revocations, evictions and restarts come in between.                    *)
(*                                                                         *)
(* Codes, grants and refresh tokens are numbers given out in order: what   *)
(* is random in the code is only ever compared.  That a code's minute or a *)
(* refresh token's thirty days are over is a choice at each use.           *)
(***************************************************************************)
EXTENDS Naturals, FiniteSets, FiniteSetsExt, Functions

CONSTANTS
    People,       \* the users of the user store
    Slots,        \* requests to the token endpoint at the same time
    MaxClients,   \* maxOAuthClients
    MaxRegister,  \* bound: clients that register
    MaxCodes,     \* bound: consents given
    MaxRefresh,   \* bound: refresh tokens made
    MaxFaults,    \* bound: writes of the file that fail
    MaxRestarts,  \* bound: starts of the daemon after the first
    MaxBars       \* bound: times somebody is disabled

ASSUME OAuthAssumption ==
    {MaxClients, MaxRegister, MaxCodes, MaxRefresh, MaxFaults, MaxRestarts, MaxBars} \subseteq Nat

VARIABLES
    clients,  \* s.clients: numbered as they registered
    grants,   \* s.grants
    codes,    \* s.codes
    disk,     \* oauth.json
    allowed,  \* the people the user store lets in
    req,      \* what each request to the token endpoint has come to
    held,     \* the refresh tokens that reached a client
    given,    \* how many clients, codes, grants and refresh tokens there were
    spare,    \* how many faults, restarts and bars are left
    madeFrom, \* history: the code of every grant ever made
    ended,    \* history: grants whose end was saved
    adrift    \* history: grants an answer about which was lost or withheld

vars == <<clients, grants, codes, disk, allowed, req, held, given, spare, madeFrom, ended, adrift>>

Idle == [at |-> "idle"]
NoToken == 0

Init ==
    /\ clients = {} /\ grants = <<>> /\ codes = <<>>
    /\ disk = [clients |-> {}, grants |-> <<>>]
    /\ allowed = People
    /\ req = [s \in Slots |-> Idle]
    /\ held = {}
    /\ given = [client |-> 0, code |-> 0, grant |-> 0, refresh |-> 0]
    /\ spare = [faults |-> MaxFaults, restarts |-> MaxRestarts, bars |-> MaxBars]
    /\ madeFrom = <<>> /\ ended = {} /\ adrift = {}

-----------------------------------------------------------------------------
(* The file.                                                               *)

(* save writes the clients and the grants as they are in memory, or fails  *)
(* and leaves the file as it was.                                          *)
Save(ok) ==
    IF ok THEN /\ disk' = [clients |-> clients', grants |-> grants']
               /\ UNCHANGED spare
          ELSE /\ spare.faults > 0
               /\ spare' = [spare EXCEPT !.faults = @ - 1]
               /\ UNCHANGED disk

With(f, k, v) == [x \in DOMAIN f \cup {k} |-> IF x = k THEN v ELSE f[x]]
Without(f, k) == Restrict(f, DOMAIN f \ {k})

(* The end of a request: idle again.                                       *)
Finished(s) == req' = [req EXCEPT ![s] = Idle]

(* Tokens are made and saved, not yet answered.                            *)
Issued(s, g, u, r) == req' = [req EXCEPT ![s] = [at |-> "made", grant |-> g, user |-> u, refresh |-> r]]

-----------------------------------------------------------------------------
(* Registration, consent and what happens to people.                       *)

(* A full store makes room: its oldest client without a grant goes, and    *)
(* stays gone although the file could not be written.                      *)
Evicted ==
    LET unused == clients \ {grants[g].client : g \in DOMAIN grants}
    IN  IF Cardinality(clients) < MaxClients \/ unused = {} THEN {} ELSE {Min(unused)}

RegisterClient ==
    /\ given.client < MaxRegister
    /\ given' = [given EXCEPT !.client = @ + 1]
    /\ LET kept == clients \ Evicted
           full == Cardinality(kept) >= MaxClients IN
       \/ /\ full /\ UNCHANGED <<clients, grants, disk, spare>>
       \/ /\ ~full
          /\ UNCHANGED grants
          /\ \E ok \in BOOLEAN :
                /\ clients' = IF ok THEN kept \cup {given'.client} ELSE kept
                /\ Save(ok)
    /\ UNCHANGED <<codes, allowed, req, held, madeFrom, ended, adrift>>

(* Somebody who is signed in consents to a client that is registered, and  *)
(* the client is sent a code.                                              *)
Consent(u, c) ==
    /\ u \in allowed /\ c \in clients
    /\ given.code < MaxCodes
    /\ given' = [given EXCEPT !.code = @ + 1]
    /\ codes' = With(codes, given'.code, [client |-> c, user |-> u])
    /\ UNCHANGED <<clients, grants, disk, allowed, req, held, spare, madeFrom, ended, adrift>>

(* An admin or a directory disables somebody, or lets them in again.       *)
SetDisabled(u) ==
    /\ IF u \in allowed THEN /\ spare.bars > 0
                             /\ spare' = [spare EXCEPT !.bars = @ - 1]
                             /\ allowed' = allowed \ {u}
                        ELSE allowed' = allowed \cup {u} /\ UNCHANGED spare
    /\ UNCHANGED <<clients, grants, codes, disk, req, held, given, madeFrom, ended, adrift>>

-----------------------------------------------------------------------------
(* The token endpoint.                                                     *)

(* A request with a code or a refresh token, of any client that is         *)
(* registered at this moment.                                              *)
Ask(s, c, kind, token) ==
    /\ req[s] = Idle /\ c \in clients
    /\ token \in (IF kind = "code" THEN 1..given.code ELSE held)
    /\ req' = [req EXCEPT ![s] = [at |-> "asked", client |-> c, kind |-> kind, token |-> token]]
    /\ UNCHANGED <<clients, grants, codes, disk, allowed, held, given, spare, madeFrom, ended, adrift>>

Asked(s, kind) == req[s].at = "asked" /\ req[s].kind = kind

UseUpNever(s) == codes' = codes

(* The code is used up whatever the outcome.                               *)
UseUp(s) == codes' = Without(codes, req[s].token)

(* A code that is unknown, over, of another client, with the wrong         *)
(* verifier, or of a client that was evicted.                              *)
RefuseCode(s) ==
    /\ Asked(s, "code")
    /\ UseUp(s)
    /\ Finished(s)
    /\ UNCHANGED <<clients, grants, disk, allowed, held, given, spare, madeFrom, ended, adrift>>

AcceptsUnseen(s) ==
    /\ req[s].token \in DOMAIN codes
    /\ codes[req[s].token].client = req[s].client

(* The client is looked at again: it may have been evicted since.          *)
Accepts(s) ==
    /\ req[s].token \in DOMAIN codes
    /\ codes[req[s].token].client = req[s].client
    /\ req[s].client \in clients

(* The grant is undone when it cannot be saved.                            *)
ExchangeCode(s) ==
    /\ Asked(s, "code") /\ Accepts(s)
    /\ given.refresh < MaxRefresh
    /\ UseUp(s)
    /\ LET g == given.grant + 1
           r == given.refresh + 1 IN
       \E ok \in BOOLEAN :
          /\ given' = [given EXCEPT !.grant = g, !.refresh = r]
          /\ UNCHANGED clients
          /\ grants' = IF ok THEN With(grants, g, [client |-> req[s].client, user |-> codes[req[s].token].user,
                                               cur |-> r, prev |-> NoToken])
                             ELSE grants
          /\ Save(ok)
          /\ madeFrom' = IF ok THEN With(madeFrom, g, req[s].token) ELSE madeFrom
          /\ IF ok THEN Issued(s, g, codes[req[s].token].user, r) ELSE Finished(s)
    /\ UNCHANGED <<allowed, held, ended, adrift>>

RemoveUnread(g) ==
    /\ UNCHANGED clients
    /\ grants' = Without(grants, g)
    /\ \E ok \in BOOLEAN : Save(ok)
    /\ ended' = ended \cup {g}

(* A grant leaves memory, and its end counts once it is saved.             *)
Remove(g) ==
    /\ UNCHANGED clients
    /\ grants' = Without(grants, g)
    /\ \E ok \in BOOLEAN : Save(ok) /\ ended' = IF ok THEN ended \cup {g} ELSE ended

(* The refresh token before the current one, of any client: only a copy    *)
(* could still have it.  Whether the end is saved is not looked at.        *)
SpentAgain(s) ==
    /\ Asked(s, "refresh")
    /\ \E g \in DOMAIN grants : grants[g].prev = req[s].token /\ Remove(g)
    /\ Finished(s)
    /\ UNCHANGED <<codes, allowed, held, given, madeFrom, adrift>>

(* A refresh token of no grant, of another client, or one that is over.    *)
RefuseRefresh(s) ==
    /\ Asked(s, "refresh")
    /\ \A g \in DOMAIN grants : grants[g].prev # req[s].token
    /\ Finished(s)
    /\ UNCHANGED <<clients, grants, codes, disk, allowed, held, given, spare, madeFrom, ended, adrift>>

(* The next token is current and the one presented is spent.               *)
Rotated(g, next) == With(grants, g, [grants[g] EXCEPT !.prev = grants[g].cur, !.cur = next])

UnrotatedKept(g) == Rotated(g, given.refresh + 1)

(* A rotation that cannot be saved: the grant is as it was.                *)
Unrotated(g) == grants

Refresh(s) ==
    /\ Asked(s, "refresh")
    /\ given.refresh < MaxRefresh
    /\ \E g \in DOMAIN grants, ok \in BOOLEAN :
          /\ grants[g].cur = req[s].token /\ grants[g].client = req[s].client
          /\ given' = [given EXCEPT !.refresh = @ + 1]
          /\ UNCHANGED clients
          /\ grants' = IF ok THEN Rotated(g, given'.refresh) ELSE Unrotated(g)
          /\ Save(ok)
          /\ IF ok THEN Issued(s, g, grants[g].user, given'.refresh) ELSE Finished(s)
    /\ UNCHANGED <<codes, allowed, held, madeFrom, ended, adrift>>

Made(s) == req[s].at = "made"

(* The tokens are answered if the person may still sign in, and the answer *)
(* may be lost on its way.                                                 *)
Answer(s) ==
    /\ Made(s) /\ req[s].user \in allowed
    /\ \/ held' = held \cup {req[s].refresh} /\ UNCHANGED adrift
       \/ adrift' = adrift \cup {req[s].grant} /\ UNCHANGED held
    /\ Finished(s)
    /\ UNCHANGED <<clients, grants, codes, disk, allowed, given, spare, madeFrom, ended>>

(* Else the grant is revoked, if it is still there.                        *)
Withhold(s) ==
    /\ Made(s) /\ req[s].user \notin allowed
    /\ IF req[s].grant \in DOMAIN grants THEN Remove(req[s].grant)
                                         ELSE UNCHANGED <<clients, grants, disk, spare, ended>>
    /\ adrift' = adrift \cup {req[s].grant}
    /\ Finished(s)
    /\ UNCHANGED <<codes, allowed, held, given, madeFrom>>

-----------------------------------------------------------------------------
(* Use, revocation, restart.                                               *)

(* A call of /mcp with an access token of the grant: now and then the last *)
(* use is written, and with it all that is in memory.                      *)
VerifyAccess(g) ==
    /\ g \in DOMAIN grants /\ {grants[g].cur, grants[g].prev} \cap held # {}
    /\ UNCHANGED <<clients, grants>>
    /\ \E ok \in BOOLEAN : Save(ok)
    /\ UNCHANGED <<codes, allowed, req, held, given, madeFrom, ended, adrift>>

(* DELETE /v1/oauth/grants/{id}, or the client's own request with an       *)
(* access token.  A write that fails is answered to the admin, and not to  *)
(* the client.                                                             *)
Revoke(g) ==
    /\ g \in DOMAIN grants
    /\ Remove(g)
    /\ UNCHANGED <<codes, allowed, req, held, given, madeFrom, adrift>>

(* The client's own request with a refresh token: only the current one     *)
(* names its grant.                                                        *)
RevokeRefresh(r) ==
    /\ \E g \in DOMAIN grants : grants[g].cur = r /\ Remove(g)
    /\ UNCHANGED <<codes, allowed, req, held, given, madeFrom, adrift>>

(* The daemon ends and starts: what is not in the file is gone, and so are *)
(* the answers it had not sent.                                            *)
Restart ==
    /\ spare.restarts > 0
    /\ spare' = [spare EXCEPT !.restarts = @ - 1]
    /\ clients' = disk.clients /\ grants' = disk.grants /\ codes' = <<>>
    /\ req' = [s \in Slots |-> Idle]
    /\ adrift' = adrift \cup {req[s].grant : s \in {t \in Slots : Made(t)}}
    /\ UNCHANGED <<disk, allowed, held, given, madeFrom, ended>>

Token(s) ==
    \/ \E c \in clients, t \in 1..given.code : Ask(s, c, "code", t)
    \/ \E c \in clients, t \in held : Ask(s, c, "refresh", t)
    \/ RefuseCode(s) \/ ExchangeCode(s)
    \/ SpentAgain(s) \/ RefuseRefresh(s) \/ Refresh(s)
    \/ Answer(s) \/ Withhold(s)

Next ==
    \/ RegisterClient
    \/ \E u \in People, c \in clients : Consent(u, c)
    \/ \E u \in People : SetDisabled(u)
    \/ \E s \in Slots : Token(s)
    \/ \E g \in DOMAIN grants : VerifyAccess(g) \/ Revoke(g)
    \/ \E r \in held : RevokeRefresh(r)
    \/ Restart

Spec == Init /\ [][Next]_vars

-----------------------------------------------------------------------------
(* Properties.                                                             *)

GrantRecords == [client : Nat, user : People, cur : Nat, prev : Nat]
Requests ==
    {Idle} \cup [at : {"asked"}, client : Nat, kind : {"code", "refresh"}, token : Nat]
           \cup [at : {"made"}, grant : Nat, user : People, refresh : Nat]

IsStore(c, g) ==
    /\ c \in SUBSET Nat
    /\ DOMAIN g \in SUBSET Nat /\ \A k \in DOMAIN g : g[k] \in GrantRecords

(* The values the store, the file and the requests may have.               *)
TypeOK ==
    /\ IsStore(clients, grants) /\ IsStore(disk.clients, disk.grants)
    /\ DOMAIN codes \in SUBSET Nat /\ \A k \in DOMAIN codes : codes[k] \in [client : Nat, user : People]
    /\ allowed \in SUBSET People
    /\ req \in [Slots -> Requests]
    /\ held \in SUBSET Nat /\ ended \in SUBSET Nat /\ adrift \in SUBSET Nat
    /\ given \in [client : Nat, code : Nat, grant : Nat, refresh : Nat]
    /\ spare \in [faults : Nat, restarts : Nat, bars : Nat]
    /\ DOMAIN madeFrom \in SUBSET Nat /\ \A k \in DOMAIN madeFrom : madeFrom[k] \in Nat

(* A code makes one grant: whatever requests present it at the same time,  *)
(* whether its exchange failed, and over restarts (oauth.go:271 "The code  *)
(* is used up whatever the outcome").                                      *)
OneGrantPerCode == IsInjective(madeFrom)

(* A grant whose end was saved never works again: no rotation that was     *)
(* under way, no undo of a failed write and no restart brings it back, in  *)
(* memory or in the file (docs/api.md, "Revocable").                       *)
EndedStaysEnded == ended \cap (DOMAIN grants \cup DOMAIN disk.grants) = {}

(* The client of a grant is registered, now and after a restart: making    *)
(* room evicts no client whose person consented, though the exchange looks *)
(* at the client, is overtaken by registrations and only then makes the    *)
(* grant (oauth.go:188-203).  Else its refresh is refused as invalid_client*)
(* and the grant is in the way for good.                                   *)
GrantHasClient ==
    /\ \A g \in DOMAIN grants : grants[g].client \in clients
    /\ \A g \in DOMAIN disk.grants : disk.grants[g].client \in disk.clients

(* Every grant is of one code and of a registered client.                  *)
GrantsInOrder == OneGrantPerCode /\ GrantHasClient

(* A client is never left without a way on: the refresh token its grant    *)
(* wants is one it was handed, or is about to be, unless an answer was     *)
(* lost or withheld.  A rotation that failed to be saved in particular     *)
(* leaves the old token good, before and after a restart.                  *)
NotStranded ==
    \A g \in DOMAIN grants :
        \/ grants[g].cur \in held
        \/ g \in adrift
        \/ \E s \in Slots : Made(s) /\ req[s].refresh = grants[g].cur
=============================================================================
