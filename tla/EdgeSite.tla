----------------------------- MODULE EdgeSite -----------------------------
(***************************************************************************)
(* One service's route (pkg/caddy/edge.go): its site file on the edge, and *)
(* what the edge's Caddy has loaded of it.  A change of the file is three  *)
(* commands in the edge's container, write, validate and reload, and the   *)
(* process may be killed between any two.  ServiceDeploy runs them.        *)
(***************************************************************************)

CONSTANTS
  Routes,    \* what a manifest may say of a route, its address left out
  Refused,   \* those the edge's Caddy refuses to load
  Addresses, \* the addresses the bridge hands out
  NoSite     \* no file

Sites == [route : Routes, addr : Addresses]

ASSUME SiteAssumption ==
  /\ Refused \subseteq Routes
  /\ NoSite \notin Sites

VARIABLES
  file,    \* sites/<service>.caddy
  loaded,  \* the site Caddy serves
  before,  \* what replaceSite puts back
  replacing, \* how far replaceSite has come
  unloaded \* history: a replacement was cut off, or failed, and left its file

siteVars == <<file, loaded, before, replacing, unloaded>>

SiteTypeOK ==
  /\ file \in Sites \cup {NoSite}
  /\ loaded \in Sites \cup {NoSite}
  /\ before \in Sites \cup {NoSite}
  /\ replacing \in {"no", "validate", "reload"}
  /\ unloaded \in BOOLEAN

SiteInit ==
  /\ before = NoSite
  /\ replacing = "no"
  /\ unloaded = FALSE

Loads(site) == site # NoSite => site.route \notin Refused

(* PublishSite's test: the file is exactly what it would write.            *)
Published(site) == file = site

(* RepointUpstream's: there is no file, or its address is the instance's.  *)
Points(addr) == file # NoSite => file.addr = addr

Repointed(addr) == [file EXCEPT !.addr = addr]

(* replaceSite.                                                            *)
WriteSite(site) ==
  /\ replacing = "no"
  /\ file' = site
  /\ before' = file
  /\ replacing' = "validate"
  /\ UNCHANGED <<loaded, unloaded>>

Validate ==
  /\ replacing = "validate"
  /\ Loads(file)
  /\ replacing' = "reload"
  /\ UNCHANGED <<file, loaded, before, unloaded>>

(* A slip: what Caddy refuses is reported, and stays.                      *)
RestoreNothing ==
  /\ replacing = "validate"
  /\ before' = NoSite
  /\ replacing' = "no"
  /\ UNCHANGED <<file, loaded, unloaded>>

(* What was there is put back.                                             *)
Restore ==
  /\ replacing = "validate"
  /\ file' = before
  /\ before' = NoSite
  /\ replacing' = "no"
  /\ UNCHANGED <<loaded, unloaded>>

Reload ==
  /\ replacing = "reload"
  /\ loaded' = file
  /\ unloaded' = FALSE
  /\ before' = NoSite
  /\ replacing' = "no"
  /\ UNCHANGED file

(* Reload restarts the edge when the first try fails, and may still fail.  *)
ReloadFails ==
  /\ replacing = "reload"
  /\ loaded' \in {loaded, file}
  /\ unloaded' = TRUE
  /\ before' = NoSite
  /\ replacing' = "no"
  /\ UNCHANGED file

(* The check failed and nothing was put back, or the process is gone: the  *)
(* file stays as it is.                                                    *)
LeaveSite ==
  /\ unloaded' = (unloaded \/ replacing # "no")
  /\ before' = NoSite
  /\ replacing' = "no"
  /\ UNCHANGED <<file, loaded>>

(* The edge starts: it loads its files, or nothing.                        *)
RestartEdge ==
  /\ loaded' = IF Loads(file) THEN file ELSE NoSite
  /\ unloaded' = (unloaded /\ ~Loads(file))
  /\ UNCHANGED <<file, before, replacing>>
=============================================================================
