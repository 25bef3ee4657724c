----------------------------- MODULE EventFeed -----------------------------
(***************************************************************************)
(* GET /v1/events (pkg/server/events.go): stores and a reader of the       *)
(* host's status note what has changed, a hub keeps the notes for every    *)
(* connection, a connection's writer sends them, and the page at the other *)
(* end (ui/static/js/app.js) reads what it shows again, or takes the       *)
(* status from the note itself.  What a page shows is a version, a number. *)
(* The writer and the reader of a connection, the reader of the status,    *)
(* the stores and the pages take their steps in any order.                 *)
(***************************************************************************)
EXTENDS Naturals, FiniteSets, Sequences

CONSTANTS
  Pages,       \* pages that are open
  Topics,      \* what changes: the host's status and the plans among others
  Cookie,      \* the pages signed in by a cookie; others send a token first
  MaxSubs,     \* how many connections there may be
  MaxSigning,  \* ... and how many that have not sent their token
  MaxPending,  \* how many topics one note may have
  MaxChanges,  \* bound: changes
  MaxDials,    \* bound: connections made
  MaxFaults    \* bound: writes that fail, connections that break, sign-ins withdrawn

VARIABLES
  truth,   \* the version of each topic, as the daemon answers a read (the
           \* status: as it keeps it for some seconds)
  hub,     \* the status pushed last, the reader of the status, whether it is
           \* called, whether the daemon is stopping, and how many jobs have
           \* ended and have not yet said that the plans changed with it
  conn,    \* the server's end of each page's connection
  wire,    \* what is on its way to each page
  page,    \* the page's end
  allowed, \* the pages whose session or token is valid
  missed,  \* history: why what a page shows may be old
  spent    \* how much of each bound is used

feedVars == <<truth, hub, conn, wire, page, allowed, missed, spent>>

Versions == 0 .. MaxChanges + 1
Notes    == [type : {"hello", "change", "closed"}, topics : SUBSET Topics, status : Versions]
Message(type, topics) == [type |-> type, topics |-> topics, status |-> 0]

At == {"none", "signing", "joining", "hello", "wait", "flush", "write"}
Conns == [at : At, pending : SUBSET Topics, wake : BOOLEAN, note : Notes, cut : BOOLEAN]
NoConn == [at |-> "none", pending |-> {}, wake |-> FALSE, note |-> Message("change", {}),
           cut |-> FALSE]
PageStates == [topic : Topics, live : BOOLEAN, reading : {"no", "asked", "answered"},
               got : Versions, again : BOOLEAN, shows : Versions, error : BOOLEAN]

TypeOK ==
  /\ truth \in [Topics -> Versions]
  /\ hub \in [status : Versions, reader : {"rest", "read", "publish"},
              wake : BOOLEAN, closed : BOOLEAN, due : 0 .. MaxChanges]
  /\ conn \in [Pages -> Conns]
  /\ wire \in [Pages -> Seq(Notes)]
  /\ page \in [Pages -> PageStates]
  /\ allowed \subseteq Pages
  /\ missed \in [Pages -> {"nothing", "unsaved", "untold", "dropped", "overtaken"}]
  /\ spent \in [changes : 0 .. MaxChanges, dials : 0 .. MaxDials, faults : 0 .. MaxFaults]

(* The subscribers: the connections that have joined and not left.         *)
subs  == {p \in Pages : conn[p].at \in {"hello", "wait", "flush", "write"}}
count == Cardinality(subs)

Init ==
  /\ truth = [t \in Topics |-> 1]
  /\ hub = [status |-> 0, reader |-> "rest", wake |-> FALSE, closed |-> FALSE, due |-> 0]
  /\ conn = [p \in Pages |-> NoConn]
  /\ wire = [p \in Pages |-> <<>>]
  /\ \E of \in [Pages -> Topics] :
       page = [p \in Pages |-> [topic |-> of[p], live |-> FALSE, reading |-> "no", got |-> 0,
                                again |-> FALSE, shows |-> 0, error |-> FALSE]]
  /\ allowed = Pages
  /\ missed = [p \in Pages |-> "nothing"]
  /\ spent = [changes |-> 0, dials |-> 0, faults |-> 0]

Spend(what, max) == spent[what] < max /\ spent' = [spent EXCEPT ![what] = @ + 1]

----------------------------------------------------------------------------
(* Notes.                                                                  *)

(* add: a topic that does not fit is not noted; the writer is woken.       *)
add(c, topic) ==
  [c EXCEPT !.pending = IF Cardinality(@) < MaxPending THEN @ \cup {topic} ELSE @,
            !.wake = TRUE]

Dropped(c, topic) == Cardinality(c.pending) >= MaxPending /\ topic \notin c.pending

publish(topic) ==
  /\ conn' = [p \in Pages |-> IF p \in subs THEN add(conn[p], topic) ELSE conn[p]]
  /\ missed' = [p \in Pages |->
                  IF p \in subs /\ topic = page[p].topic /\ Dropped(conn[p], topic)
                  THEN "dropped" ELSE missed[p]]

(* Pages of the topic are not told of a change, and this is why.           *)
NotTold(topic, why) ==
  /\ missed' = [p \in Pages |-> IF page[p].topic = topic THEN why ELSE missed[p]]
  /\ UNCHANGED conn

(* A store changes and says so once it has saved, before another can read  *)
(* it; a change that could not be saved is in memory all the same.         *)
Change(topic) ==
  /\ topic # "status"
  /\ Spend("changes", MaxChanges)
  /\ truth' = [truth EXCEPT ![topic] = @ + 1]
  /\ publish(topic)
  /\ UNCHANGED <<hub, wire, page, allowed>>

ChangeUnsaved(topic) ==
  /\ topic # "status"
  /\ spent.changes < MaxChanges /\ spent.faults < MaxFaults
  /\ spent' = [spent EXCEPT !.changes = @ + 1, !.faults = @ + 1]
  /\ truth' = [truth EXCEPT ![topic] = @ + 1]
  /\ NotTold(topic, "unsaved")
  /\ UNCHANGED <<hub, wire, page, allowed>>

(* What a page reads is worked out when it is read, and changes with no    *)
(* store's change: an approval expires, a command on the host writes       *)
(* tokens.json, a waiting job's place in line moves.  Nobody says so.      *)
ChangeUntold(topic) ==
  /\ topic # "status"
  /\ Spend("changes", MaxChanges)
  /\ truth' = [truth EXCEPT ![topic] = @ + 1]
  /\ NotTold(topic, "untold")
  /\ UNCHANGED <<hub, wire, page, allowed>>

(* A job's end, which is a change of the jobs, makes older plans stale too *)
(* (viewWith); launch says so later, once the host is free again.          *)
JobEnds ==
  /\ Spend("changes", MaxChanges)
  /\ truth' = [truth EXCEPT !["plans"] = @ + 1]
  /\ hub' = [hub EXCEPT !.due = @ + 1]
  /\ UNCHANGED <<conn, wire, page, allowed, missed>>

SayPlans ==
  /\ hub.due > 0
  /\ hub' = [hub EXCEPT !.due = @ - 1]
  /\ publish("plans")
  /\ UNCHANGED <<truth, wire, page, allowed, spent>>

HostChanges ==
  /\ Spend("changes", MaxChanges)
  /\ truth' = [truth EXCEPT !["status"] = @ + 1]
  /\ UNCHANGED <<hub, conn, wire, page, allowed, missed>>

----------------------------------------------------------------------------
(* runStatusEvents.                                                        *)

(* With nobody there, the reader waits to be called.                       *)
ReaderGoes ==
  /\ hub.reader = "rest"
  /\ count > 0 \/ hub.wake
  /\ hub' = [hub EXCEPT !.reader = "read", !.wake = IF count = 0 THEN FALSE ELSE @]
  /\ UNCHANGED <<truth, conn, wire, page, allowed, missed, spent>>

(* setStatus: published only when it differs from the last one.            *)
ReadStatus ==
  /\ hub.reader = "read"
  /\ hub' = [hub EXCEPT !.status = truth["status"],
                        !.reader = IF hub.status # truth["status"] THEN "publish" ELSE "rest"]
  /\ UNCHANGED <<truth, conn, wire, page, allowed, missed, spent>>

ReadStatusFails ==
  /\ hub.reader = "read"
  /\ Spend("faults", MaxFaults)
  /\ hub' = [hub EXCEPT !.reader = "rest"]
  /\ UNCHANGED <<truth, conn, wire, page, allowed, missed>>

PublishStatus ==
  /\ hub.reader = "publish"
  /\ hub' = [hub EXCEPT !.reader = "rest"]
  /\ publish("status")
  /\ UNCHANGED <<truth, wire, page, allowed, spent>>

----------------------------------------------------------------------------
(* handleEvents: a connection.                                             *)

Sends(p, m) == wire' = [wire EXCEPT ![p] = Append(@, m)]
Goes(p, to) == conn' = [conn EXCEPT ![p].at = to]

(* close, and leave.                                                       *)
End(p) == conn' = [conn EXCEPT ![p] = NoConn] /\ Sends(p, Message("closed", {}))

Signing == {p \in Pages : conn[p].at = "signing"}

Dial(p) ==
  /\ conn[p].at = "none" /\ wire[p] = <<>> /\ ~page[p].live
  /\ p \in allowed \/ p \notin Cookie
  /\ count < MaxSubs
  /\ p \notin Cookie => Cardinality(Signing) < MaxSigning
  /\ Spend("dials", MaxDials)
  /\ Goes(p, IF p \in Cookie THEN "joining" ELSE "signing")
  /\ UNCHANGED <<truth, hub, wire, page, allowed, missed>>

(* The first message, or none in time.                                     *)
SignIn(p) ==
  /\ conn[p].at = "signing"
  /\ \/ p \in allowed /\ Goes(p, "joining") /\ UNCHANGED wire
     \/ End(p)
  /\ UNCHANGED <<truth, hub, page, allowed, missed, spent>>

(* A slip: a daemon that is stopping lets connections join.                *)
FullOnly == count >= MaxSubs

Full == hub.closed \/ count >= MaxSubs

join(p) ==
  /\ conn[p].at = "joining"
  /\ \/ Full /\ End(p) /\ UNCHANGED hub
     \/ /\ ~Full
        /\ conn' = [conn EXCEPT ![p] = [NoConn EXCEPT !.at = "hello"]]
        /\ hub' = [hub EXCEPT !.wake = TRUE]
        /\ UNCHANGED wire
  /\ UNCHANGED <<truth, page, allowed, missed, spent>>

SayHello(p) ==
  /\ conn[p].at = "hello"
  /\ Goes(p, "wait") /\ Sends(p, Message("hello", {}))
  /\ UNCHANGED <<truth, hub, page, allowed, missed, spent>>

(* A slip: it takes what was there when it was woken.                      *)
WakesTaking(p) ==
  /\ conn[p].at = "wait" /\ conn[p].wake
  /\ conn' = [conn EXCEPT ![p].at = "flush", ![p].pending = {}, ![p].wake = FALSE]
  /\ UNCHANGED <<truth, hub, wire, page, allowed, missed, spent>>

(* The writer is woken, lets changes gather, and takes them.               *)
Wakes(p) ==
  /\ conn[p].at = "wait" /\ conn[p].wake
  /\ conn' = [conn EXCEPT ![p].at = "flush", ![p].wake = FALSE]
  /\ UNCHANGED <<truth, hub, wire, page, allowed, missed, spent>>

take(p) ==
  /\ conn[p].at = "flush"
  /\ conn' = [conn EXCEPT ![p].pending = {},
                          ![p].note = Message("change", conn[p].pending),
                          ![p].at = IF conn[p].pending = {} THEN "wait" ELSE "write"]
  /\ UNCHANGED <<truth, hub, wire, page, allowed, missed, spent>>

Write(p) ==
  /\ conn[p].at = "write"
  /\ conn' = [conn EXCEPT ![p].at = "wait", ![p].note = NoConn.note]
  /\ LET note == conn[p].note
     IN  Sends(p, [note EXCEPT !.status = IF "status" \in note.topics THEN hub.status ELSE 0])
  /\ UNCHANGED <<truth, hub, page, allowed, missed, spent>>

(* The connection breaks: a write to it fails, or its reader notices.      *)
Break(p) ==
  /\ p \in subs /\ ~conn[p].cut
  /\ Spend("faults", MaxFaults)
  /\ conn' = [conn EXCEPT ![p].cut = TRUE]
  /\ UNCHANGED <<truth, hub, wire, page, allowed, missed>>

Notices(p) ==
  /\ conn[p].cut
  /\ conn[p].at \in {"hello", "wait", "write"}
  /\ End(p)
  /\ UNCHANGED <<truth, hub, page, allowed, missed, spent>>

Recheck(p) ==
  /\ conn[p].at = "wait" /\ p \notin allowed
  /\ End(p)
  /\ UNCHANGED <<truth, hub, page, allowed, missed, spent>>

Revoke(p) ==
  /\ p \in allowed /\ allowed' = allowed \ {p}
  /\ Spend("faults", MaxFaults)
  /\ UNCHANGED <<truth, hub, conn, wire, page, missed>>

(* No connection joins any more, and each that has joined is closed.       *)
closeAll ==
  /\ ~hub.closed
  /\ hub' = [hub EXCEPT !.closed = TRUE]
  /\ conn' = [p \in Pages |-> IF p \in subs THEN [conn[p] EXCEPT !.cut = TRUE] ELSE conn[p]]
  /\ UNCHANGED <<truth, wire, page, allowed, missed, spent>>

----------------------------------------------------------------------------
(* The page.                                                               *)

(* A slip: a read that is asked for during another is left to that one.    *)
refreshOnce(g) == IF g.reading = "no" THEN [g EXCEPT !.reading = "asked"] ELSE g

(* refresh: reads never overlap; one that is asked for meanwhile follows.  *)
refresh(g) == IF g.reading = "no" THEN [g EXCEPT !.reading = "asked"]
              ELSE [g EXCEPT !.again = TRUE]

Heard(p) == wire[p] # <<>> /\ wire' = [wire EXCEPT ![p] = Tail(@)]

HearHello(p) ==
  /\ Heard(p) /\ Head(wire[p]).type = "hello"
  /\ page' = [page EXCEPT ![p] = refresh([@ EXCEPT !.live = TRUE])]
  /\ UNCHANGED <<truth, hub, conn, allowed, missed, spent>>

HearClosed(p) ==
  /\ Heard(p) /\ Head(wire[p]).type = "closed"
  /\ page' = [page EXCEPT ![p].live = FALSE]
  /\ UNCHANGED <<truth, hub, conn, allowed, missed, spent>>

(* A page of the status shows the one in the note; another reads again.    *)
HearChange(p) ==
  /\ Heard(p) /\ Head(wire[p]).type = "change"
  /\ LET note == Head(wire[p])
     IN  CASE page[p].topic \notin note.topics -> UNCHANGED <<page, missed>>
           [] page[p].topic \in note.topics /\ page[p].topic = "status" ->
                /\ page' = [page EXCEPT ![p].shows = note.status]
                /\ missed' = [missed EXCEPT ![p] =
                                IF note.status < page[p].shows THEN "overtaken"
                                ELSE IF note.status = hub.status THEN "nothing" ELSE @]
           [] OTHER -> page' = [page EXCEPT ![p] = refresh(@)] /\ UNCHANGED missed
  /\ UNCHANGED <<truth, hub, conn, allowed, spent>>

(* The daemon answers a read, or the read fails.                           *)
Answer(p) ==
  /\ page[p].reading = "asked"
  /\ page' = [page EXCEPT ![p].reading = "answered",
                 ![p].got = truth[page[p].topic]]
  /\ missed' = [missed EXCEPT ![p] = "nothing"]
  /\ UNCHANGED <<truth, hub, conn, wire, allowed, spent>>

Goon(g) == [g EXCEPT !.reading = IF g.again THEN "asked" ELSE "no", !.again = FALSE, !.got = 0]

Arrive(p) ==
  /\ page[p].reading = "answered"
  /\ page' = [page EXCEPT ![p] = Goon([@ EXCEPT !.shows = page[p].got, !.error = FALSE])]
  /\ missed' = [missed EXCEPT ![p] = IF page[p].got < page[p].shows THEN "overtaken" ELSE @]
  /\ UNCHANGED <<truth, hub, conn, wire, allowed, spent>>

ReadFails(p) ==
  /\ page[p].reading = "asked"
  /\ Spend("faults", MaxFaults)
  /\ page' = [page EXCEPT ![p] = Goon([@ EXCEPT !.error = TRUE])]
  /\ UNCHANGED <<truth, hub, conn, wire, allowed, missed>>

(* Without a connection the page reads now and then.                       *)
FallBack(p) ==
  /\ ~page[p].live /\ page[p].reading = "no"
  /\ page' = [page EXCEPT ![p] = refresh(@)]
  /\ UNCHANGED <<truth, hub, conn, wire, allowed, missed, spent>>

----------------------------------------------------------------------------
Connection(p) ==
  Dial(p) \/ SignIn(p) \/ join(p) \/ SayHello(p) \/ Wakes(p) \/ take(p) \/ Write(p)
    \/ Break(p) \/ Notices(p) \/ Recheck(p) \/ Revoke(p)

PageSteps(p) ==
  HearHello(p) \/ HearClosed(p) \/ HearChange(p) \/ Answer(p) \/ Arrive(p) \/ ReadFails(p)
    \/ FallBack(p)

Next ==
  \/ \E t \in Topics : Change(t) \/ ChangeUnsaved(t) \/ ChangeUntold(t)
  \/ JobEnds \/ SayPlans
  \/ HostChanges \/ ReaderGoes \/ ReadStatus \/ ReadStatusFails
  \/ PublishStatus \/ closeAll
  \/ \E p \in Pages : Connection(p) \/ PageSteps(p)

Spec == Init /\ [][Next]_feedVars

----------------------------------------------------------------------------
(* Properties.                                                             *)

(* Nothing is on its way to the page, or being read by it.                 *)
Settled(p) ==
  /\ conn[p].at = "wait" /\ ~conn[p].wake /\ ~conn[p].cut
  /\ wire[p] = <<>> /\ page[p].reading = "no"

(* A page that is live shows what there is, when nothing is on its way to  *)
(* it (events.go: the feed "tells the UI when what it shows has changed,   *)
(* so it never polls"), that the jobs that have ended made plans stale     *)
(* included, once launch has said so.  Where missed is not "nothing" the   *)
(* code does not keep that: a change that could not be saved; one no store *)
(* makes, so that nobody says it (an approval that expires, a command on   *)
(* the host that writes tokens.json, a job's place in line); a note with   *)
(* no room for the topic; and an answer to a read of the status that a     *)
(* note has overtaken.  The page says so when it could not read.           *)
LiveIsCurrent ==
  \A p \in Pages :
    page[p].live /\ Settled(p) /\ ~page[p].error /\ missed[p] = "nothing" =>
      CASE page[p].topic = "status" -> hub.reader = "publish" \/ page[p].shows >= hub.status
        [] page[p].topic = "plans" -> hub.due > 0 \/ page[p].shows = truth["plans"]
        [] OTHER -> page[p].shows = truth[page[p].topic]

(* No connection outlives the daemon's stop: each that has joined is being *)
(* closed, whatever was joining meanwhile.                                 *)
StopEndsAll == hub.closed => \A p \in subs : conn[p].cut
=============================================================================
