-------------------------- MODULE InstancesProofs --------------------------
(* For any tenants, images and addresses, and any number of requests,      *)
(* failures and kills: a suspended tenant stays suspended, the image an    *)
(* update would go back to stays on the host, and, while nothing fails, no *)
(* route leads to another tenant's instance.                               *)
EXTENDS Instances, TLAPS

-----------------------------------------------------------------------------
(* The job and the tables keep their shape.                                *)

IsJob(j) ==
    j = [op |-> j.op, name |-> j.name, image |-> j.image, at |-> j.at, old |-> j.old, prev |-> j.prev]

Held == IsJob(job) /\ (job.op # "build" => job.name \in Names)

Shape ==
    /\ site = [n \in Names |-> site[n]]
    /\ served = [n \in Names |-> served[n]]
    /\ line \in Seq(Requests)
    /\ off \subseteq Names
    /\ Busy => Held

(* A request names a tenant, unless it is for a build.                     *)
LEMMA Asked == \A r \in Requests : r.op # "build" => r.name \in Names
BY DEF Requests

(* A job that goes on is the same job at another step.                     *)
LEMMA GoesOn ==
    ASSUME NEW j, IsJob(j), NEW step
    PROVE  LET k == [j EXCEPT !.at = step]
           IN  IsJob(k) /\ k.at = step /\ k.op = j.op /\ k.name = j.name /\ k.image = j.image /\ k.old = j.old
BY DEF IsJob

(* So is one that notes what there was, or goes for another image.         *)
LEMMA NotesSite ==
    ASSUME NEW j, IsJob(j), NEW v, NEW k, k = [j EXCEPT !.prev = v]
    PROVE  IsJob(k) /\ k.at = j.at /\ k.op = j.op /\ k.name = j.name /\ k.image = j.image /\ k.old = j.old
BY DEF IsJob

LEMMA NotesOld ==
    ASSUME NEW j, IsJob(j), NEW v, NEW k, k = [j EXCEPT !.old = v]
    PROVE  IsJob(k) /\ k.at = j.at /\ k.op = j.op /\ k.name = j.name /\ k.image = j.image /\ k.old = v
BY DEF IsJob

LEMMA NotesImage ==
    ASSUME NEW j, IsJob(j), NEW v, NEW k, k = [j EXCEPT !.image = v]
    PROVE  IsJob(k) /\ k.at = j.at /\ k.op = j.op /\ k.name = j.name /\ k.image = v /\ k.old = j.old
BY DEF IsJob

(* Writing a site's file ends the job or has it validated.                 *)
LEMMA Written ==
    ASSUME Busy, IsJob(job), NEW content, Write(content)
    PROVE  /\ job' = Idle \/ ( /\ IsJob(job') /\ job'.at = "validate" /\ job'.op = job.op
                               /\ job'.name = job.name /\ job'.old = job.old)
           /\ \/ site' = site /\ job' = Idle
              \/ site' = [site EXCEPT ![job.name] = content]
<1> DEFINE k == [job EXCEPT !.at = "validate"]
<1>1. /\ IsJob(k) /\ k.at = "validate" /\ k.op = job.op /\ k.name = job.name /\ k.old = job.old
  BY GoesOn
<1> HIDE DEF k
<1>2. CASE job' = [job EXCEPT !.at = "validate", !.prev = site[job.name]] /\ site' = [site EXCEPT ![job.name] = content]
  <2>1. job' = [k EXCEPT !.prev = site[job.name]]
    BY <1>2 DEF k
  <2>2. IsJob(job') /\ job'.at = "validate" /\ job'.op = job.op /\ job'.name = job.name /\ job'.old = job.old
    BY <1>1, <2>1, NotesSite
  <2> QED
    BY <1>2, <2>2
<1>3. CASE job' = Idle /\ site' = site
  BY <1>3
<1> QED
  BY <1>2, <1>3 DEF Write, End

(* Turning back is to delete again, for the image there was, or to end.    *)
LEMMA TurnsBack ==
    ASSUME IsJob(job), Back
    PROVE  \/ job' = Idle
           \/ /\ IsJob(job') /\ job'.at = "delete" /\ job'.op = job.op
              /\ job'.name = job.name /\ job'.old = job.old
<1> DEFINE k == [job EXCEPT !.at = "delete"]
<1>1. /\ IsJob(k) /\ k.at = "delete" /\ k.op = job.op /\ k.name = job.name /\ k.old = job.old
  BY GoesOn
<1> HIDE DEF k
<1>2. CASE job' = [job EXCEPT !.at = "delete", !.image = job.old.image]
  <2>1. job' = [k EXCEPT !.image = job.old.image]
    BY <1>2 DEF k
  <2> QED
    BY <1>1, <2>1, NotesImage
<1> QED
  BY <1>2 DEF Back, End

(* A step that goes on with a job leaves it the same job, for the same     *)
(* tenant; what an update replaces is noted once.                          *)
SameJob == Busy' => /\ Busy /\ IsJob(job') /\ job'.op = job.op /\ job'.name = job.name
                    /\ job'.old = job.old \/ LookUpdate

LEMMA JobKept ==
    ASSUME Shape, [Next]_vars, ~Start
    PROVE  SameJob
<1>1. CASE ~Busy
  <2>1. job' = job \/ job' = Idle
    BY <1>1 DEF Next, Request, Validate, Reload, Look, Create, SetUp, Gate, PublishSite, LookUpdate,
                DeleteOld, LaunchNew, SetUpNew, RepointUpstream, Suspend, Unroute, Remove, Migrate,
                UnrouteMoved, Build, ChooseImages, DeleteImages, Kill, At, vars
  <2> QED
    BY <1>1, <2>1 DEF SameJob, Busy
<1>2. ASSUME Busy, IsJob(job), \/ job' = job \/ job' = Idle \/ \E step : Goto(step)
      PROVE  SameJob
  <2>1. CASE job' = job \/ job' = Idle
    BY <1>2, <2>1 DEF SameJob, Busy
  <2>2. ASSUME NEW step, Goto(step)
        PROVE  SameJob
    <3>1. IsJob(job') /\ job'.op = job.op /\ job'.name = job.name /\ job'.old = job.old
      BY <1>2, <2>2, GoesOn DEF Goto
    <3> QED
      BY <1>2, <3>1 DEF SameJob
  <2> QED
    BY <1>2, <2>1, <2>2
<1>3. ASSUME Busy, IsJob(job), \E content : Write(content)
      PROVE  SameJob
  BY <1>3, Written DEF SameJob, Busy
<1>4. ASSUME Busy, IsJob(job), Back
      PROVE  SameJob
  BY <1>4, TurnsBack DEF SameJob, Busy
<1>5. CASE Busy
  <2>1. IsJob(job)
    BY <1>5 DEF Shape, Held
  <2>2. CASE LookUpdate
    <3> DEFINE k == [job EXCEPT !.at = "delete"]
    <3>1. IsJob(k) /\ k.op = job.op /\ k.name = job.name
      BY <2>1, GoesOn
    <3> HIDE DEF k
    <3>2. CASE job' = [job EXCEPT !.at = "delete", !.old = inst[job.name]]
      <4>1. job' = [k EXCEPT !.old = inst[job.name]]
        BY <3>2 DEF k
      <4> QED
        BY <1>5, <2>2, <3>1, <4>1, NotesOld DEF SameJob
    <3>3. CASE job' = Idle \/ Goto("repoint")
      BY <1>2, <1>5, <2>1, <3>3
    <3> QED
      BY <2>2, <3>2, <3>3 DEF LookUpdate, End
  <2>3. CASE DeleteOld \/ LaunchNew \/ SetUpNew
    BY <1>2, <1>4, <1>5, <2>1, <2>3 DEF DeleteOld, LaunchNew, SetUpNew
  <2>4. CASE PublishSite \/ RepointUpstream \/ Suspend
    BY <1>2, <1>3, <1>5, <2>1, <2>4 DEF PublishSite, RepointUpstream, Suspend, End
  <2>5. CASE Validate \/ Reload \/ Look \/ Create \/ SetUp \/ Gate
    BY <1>2, <1>5, <2>1, <2>5 DEF Validate, Reload, Look, Create, SetUp, Gate, End
  <2>6. CASE Unroute \/ Remove \/ Migrate \/ UnrouteMoved
    BY <1>2, <1>5, <2>1, <2>6 DEF Unroute, CannotPurge, RemoveSite, Remove, Migrate, UnrouteMoved, End
  <2>7. CASE Build \/ ChooseImages \/ DeleteImages \/ Kill \/ UNCHANGED vars \/ \E r \in Requests : Request(r)
    BY <1>2, <1>5, <2>1, <2>7 DEF Build, ChooseImages, DeleteImages, Kill, Request, End, vars
  <2> QED
    BY <2>2, <2>3, <2>4, <2>5, <2>6, <2>7 DEF Next
<1> QED
  BY <1>1, <1>5

(* A job that starts is the request at the head of the line.               *)
LEMMA JobStarts ==
    ASSUME Shape, Start
    PROVE  Held' /\ job'.at = "look" /\ job'.old = None /\ line' \in Seq(Requests)
<1>1. line \in Seq(Requests) /\ line # <<>>
  BY DEF Shape, Start
<1>2. Head(line) \in Requests /\ Tail(line) \in Seq(Requests)
  BY <1>1
<1>3. Head(line).op # "build" => Head(line).name \in Names
  BY <1>2, Asked
<1>4. job' = [op |-> Head(line).op, name |-> Head(line).name, image |-> Head(line).image,
              at |-> "look", old |-> None, prev |-> None]
  BY DEF Start
<1>5. IsJob(job')
  BY <1>4 DEF IsJob
<1> QED
  BY <1>2, <1>3, <1>4, <1>5 DEF Held, Start, IsJob

(* Every step leaves the tables tables and the job one of a tenant.        *)
LEMMA ShapeKept == Shape /\ [Next]_vars => Shape'
<1> SUFFICES ASSUME Shape, [Next]_vars
             PROVE  Shape'
  OBVIOUS
<1>1. line' \in Seq(Requests)
  <2>1. CASE Start
    BY <2>1, JobStarts
  <2>2. ASSUME NEW r \in Requests, Request(r)
        PROVE  line' \in Seq(Requests)
    BY <2>2 DEF Shape, Request
  <2>3. CASE Kill
    BY <2>3 DEF Kill
  <2>4. ASSUME UNCHANGED line
        PROVE  line' \in Seq(Requests)
    BY <2>4 DEF Shape
  <2> QED
    BY <2>1, <2>2, <2>3, <2>4
       DEF Next, vars, Write, Validate, Reload, Look, Create, SetUp, Gate, PublishSite, LookUpdate, DeleteOld,
           LaunchNew, SetUpNew, RepointUpstream, Suspend, Unroute, CannotPurge, RemoveSite, Remove,
           Migrate, UnrouteMoved, Build, ChooseImages, DeleteImages
<1>2. Busy' => Held'
  <2>1. CASE Start
    BY <2>1, JobStarts
  <2>2. CASE ~Start
    BY <2>2, JobKept DEF SameJob, Shape, Held
  <2> QED
    BY <2>1, <2>2
<1>3. site' = [n \in Names |-> site'[n]] /\ served' = [n \in Names |-> served'[n]]
  <2>1. ASSUME NEW v, site' = [site EXCEPT ![job.name] = v]
        PROVE  site' = [n \in Names |-> site'[n]]
    BY <2>1 DEF Shape
  <2>2. site' = site \/ \E v : site' = [site EXCEPT ![job.name] = v]
    BY DEF Next, vars, onEdge, Write, Start, Request, Kill, Validate, Reload, Look, Create, SetUp, Gate, PublishSite,
           LookUpdate, DeleteOld, LaunchNew, SetUpNew, RepointUpstream, Suspend, Unroute, CannotPurge,
           RemoveSite, Remove, Migrate, UnrouteMoved, Build, ChooseImages, DeleteImages
  <2>3. served' = served \/ served' = site
    BY DEF Next, vars, onEdge, Write, Start, Request, Kill, Validate, Reload, Look, Create, SetUp, Gate, PublishSite,
           LookUpdate, DeleteOld, LaunchNew, SetUpNew, RepointUpstream, Suspend, Unroute, CannotPurge,
           RemoveSite, Remove, Migrate, UnrouteMoved, Build, ChooseImages, DeleteImages
  <2> QED
    BY <2>1, <2>2, <2>3 DEF Shape
<1>4. off' \subseteq Names
  <2>1. CASE Reload
    BY <2>1 DEF Reload, Shape, Held
  <2>2. CASE ~Reload
    <3>1. off' \subseteq off
      BY <2>2
         DEF Next, vars, Write, Start, Request, Kill, Validate, Look, Create, SetUp, Gate, PublishSite,
             LookUpdate, DeleteOld, LaunchNew, SetUpNew, RepointUpstream, Suspend, Unroute, CannotPurge,
             RemoveSite, Remove, Migrate, UnrouteMoved, Build, ChooseImages, DeleteImages
    <3> QED
      BY <3>1 DEF Shape
  <2> QED
    BY <2>1, <2>2
<1> QED
  BY <1>1, <1>2, <1>3, <1>4 DEF Shape

-----------------------------------------------------------------------------
(* What is suspended: a job that may write another site for a tenant found *)
(* it not suspended, or has lifted the suspension before.                  *)

Writes == job.op = "put" /\ job.at \in {"create", "setup", "gate", "publish"}

SuspInv ==
    /\ SuspendedStays
    /\ Busy /\ (Writes \/ job.at \in {"validate", "reload"}) => job.name \notin off
    /\ Busy /\ job.at \in {"validate", "reload"} /\ job.op = "suspend" => site[job.name] = "off"

(* Every step keeps what is suspended so.                                  *)
LEMMA SuspensionKept == Shape /\ SuspInv /\ [Next]_vars => SuspInv'
<1> SUFFICES ASSUME Shape, SuspInv, [Next]_vars
             PROVE  SuspInv'
  OBVIOUS
<1>0. Shape'
  BY ShapeKept
(* A step away from the edge, to one that does not write.                  *)
<1>1. ASSUME UNCHANGED <<site, served>>, off' \subseteq off,
             Busy' => ~Writes' /\ job'.at \notin {"validate", "reload"}
      PROVE  SuspInv'
  BY <1>1 DEF SuspInv, SuspendedStays
<1>2. ASSUME UNCHANGED <<site, served, off, job>>
      PROVE  SuspInv'
  BY <1>2 DEF SuspInv, SuspendedStays, Busy, Writes
<1>3. ASSUME Busy, NEW step, Goto(step)
      PROVE  job'.at = step /\ job'.op = job.op /\ job'.name = job.name
  BY <1>3, GoesOn DEF Goto, Shape, Held
<1>4. ASSUME End
      PROVE  ~Busy'
  BY <1>4 DEF End, Busy
(* A file is written for a tenant that is not suspended.                   *)
<1>5. ASSUME Busy, job.op # "build", job.name \notin off, NEW content, Write(content),
             job.op = "suspend" => content = "off"
      PROVE  SuspInv'
  <2>1. /\ job' = Idle \/ (job'.at = "validate" /\ job'.op = job.op /\ job'.name = job.name)
        /\ (site' = site /\ job' = Idle) \/ site' = [site EXCEPT ![job.name] = content]
    BY <1>5, Written DEF Shape, Held
  <2>2. UNCHANGED <<served, off>>
    BY <1>5 DEF Write
  <2>3. \A n \in off : site'[n] = site[n]
    BY <1>5, <2>1 DEF Shape
  <2>4. Busy' /\ job.op = "suspend" => site'[job.name] = "off"
    BY <1>5, <2>1 DEF Shape, Held, Busy
  <2> QED
    BY <1>5, <2>1, <2>2, <2>3, <2>4 DEF SuspInv, SuspendedStays, Busy, Writes
(* A site that is removed is no longer suspended.                          *)
<1>6. ASSUME Busy, job.op \in {"delete", "migrate"}, NEW next, next \in {"remove", "end"}, RemoveSite(next)
      PROVE  SuspInv'
  <2>1. off' = off \ {job.name} /\ served' = served
    BY <1>6 DEF RemoveSite
  <2>2. \A n \in off' : site'[n] = site[n]
    BY <1>6, <2>1 DEF RemoveSite, Shape
  <2>3. SuspendedStays'
    BY <2>1, <2>2 DEF SuspInv, SuspendedStays
  <2>4. ~Busy' \/ (job'.op = job.op /\ job'.name = job.name)
    BY <1>3, <1>4, <1>6 DEF RemoveSite
  <2> QED
    BY <1>6, <2>1, <2>3, <2>4 DEF SuspInv, Writes
<1>7. CASE (\E r \in Requests : Request(r)) \/ UNCHANGED vars
  BY <1>2, <1>7 DEF Request, vars, onEdge
<1>8. CASE Start
  <2>1. job'.at = "look" /\ UNCHANGED <<site, served, off>>
    BY <1>8, JobStarts DEF Start, onEdge
  <2> QED
    BY <1>1, <2>1 DEF Writes
<1>9. CASE Validate
  <2>1. job.name \notin off /\ UNCHANGED <<served, off>>
    BY <1>9 DEF Validate, SuspInv
  <2>2. CASE Goto("reload") /\ UNCHANGED site
    <3>1. job'.at = "reload" /\ job'.op = job.op /\ job'.name = job.name
      BY <1>3, <1>9, <2>2 DEF Validate
    <3> QED
      BY <1>9, <2>1, <2>2, <3>1 DEF SuspInv, SuspendedStays, Validate, Writes
  <2>3. CASE End /\ (site' = [site EXCEPT ![job.name] = job.prev] \/ UNCHANGED site)
    <3>1. \A n \in off : site'[n] = site[n]
      BY <2>1, <2>3 DEF Shape
    <3> QED
      BY <1>4, <2>1, <2>3, <3>1 DEF SuspInv, SuspendedStays
  <2> QED
    BY <1>9, <2>2, <2>3 DEF Validate
<1>10. CASE Reload
  <2>1. PICK ok \in BOOLEAN : /\ served' \in IF ok THEN {site} ELSE {served, site}
                              /\ off' = IF ok /\ job.op = "suspend" THEN off \cup {job.name} ELSE off
    BY <1>10 DEF Reload
  <2>2. site' = site /\ (ok => served' = site) /\ (served' = served \/ served' = site)
    BY <1>10, <2>1 DEF Reload
  <2>3. SuspendedStays'
    <3>1. CASE ok /\ job.op = "suspend"
      BY <1>10, <2>1, <2>2, <3>1 DEF SuspInv, SuspendedStays, Reload
    <3>2. CASE ~(ok /\ job.op = "suspend")
      BY <2>1, <2>2, <3>2 DEF SuspInv, SuspendedStays
    <3> QED
      BY <3>1, <3>2
  <2>4. ~Busy' \/ (job'.at = "remove" /\ job'.op = "delete")
    BY <1>3, <1>4, <1>10 DEF Reload
  <2> QED
    BY <2>3, <2>4 DEF SuspInv, Writes
<1>11. CASE Look
  <2>1. CASE End /\ UNCHANGED off
    BY <1>1, <1>4, <1>11, <2>1 DEF Look, onEdge
  <2>2. CASE /\ Goto(IF Managed(job.name) THEN "setup" ELSE "create")
             /\ off' = off \ {job.name}
    <3>1. job'.name = job.name /\ job'.at \in {"setup", "create"} /\ UNCHANGED <<site, served>>
      BY <1>3, <1>11, <2>2 DEF Look, At, onEdge
    <3> QED
      BY <2>2, <3>1 DEF SuspInv, SuspendedStays
  <2> QED
    BY <1>11, <2>1, <2>2 DEF Look
<1>12. CASE Create \/ SetUp \/ Gate
  <2>1. Busy /\ job.name \notin off /\ UNCHANGED <<site, served, off>>
    BY <1>12 DEF Create, SetUp, Gate, At, SuspInv, Writes, onHost, onEdge
  <2>2. ~Busy' \/ (job'.at \in {"setup", "gate", "publish"} /\ job'.name = job.name)
    BY <1>3, <1>4, <1>12, <2>1 DEF Create, SetUp, Gate
  <2> QED
    BY <2>1, <2>2 DEF SuspInv, SuspendedStays
<1>13. CASE PublishSite
  <2>1. Busy /\ job.op = "put" /\ job.name \notin off
    BY <1>13 DEF PublishSite, At, SuspInv, Writes
  <2> QED
    BY <1>1, <1>4, <1>5, <1>13, <2>1 DEF PublishSite, onEdge
<1>14. CASE LookUpdate \/ DeleteOld \/ LaunchNew \/ SetUpNew
  <2>1. Busy /\ job.op = "update" /\ UNCHANGED <<site, served, off>>
    BY <1>14 DEF LookUpdate, DeleteOld, LaunchNew, SetUpNew, At, onEdge, onHost
  <2>2. ASSUME Back
        PROVE  ~Busy' \/ (job'.op = "update" /\ job'.at = "delete")
    BY <2>1, <2>2, TurnsBack DEF Busy, Shape, Held
  <2>3. ASSUME job' = [job EXCEPT !.at = "delete", !.old = inst[job.name]]
        PROVE  job'.op = "update" /\ job'.at = "delete"
    BY <2>1, <2>3 DEF Shape, Held, IsJob
  <2>4. ~Busy' \/ (job'.op = "update" /\ job'.at \in {"delete", "repoint", "launch", "setup"})
    BY <1>3, <1>4, <1>14, <2>1, <2>2, <2>3 DEF LookUpdate, DeleteOld, LaunchNew, SetUpNew
  <2> QED
    BY <1>1, <2>1, <2>4 DEF Writes
<1>15. CASE RepointUpstream
  <2>1. Busy /\ job.op = "update" /\ (~Points(job.name) => job.name \notin off)
    BY <1>15 DEF RepointUpstream, At, Points, SuspInv, SuspendedStays
  <2> QED
    BY <1>1, <1>4, <1>5, <1>15, <2>1 DEF RepointUpstream, onEdge
<1>16. CASE Suspend
  <2>1. Busy /\ job.op = "suspend" /\ (site[job.name] # "off" => job.name \notin off)
    BY <1>16 DEF Suspend, At, SuspInv, SuspendedStays
  <2> QED
    BY <1>1, <1>4, <1>5, <1>16, <2>1 DEF Suspend, onEdge
<1>17. CASE Unroute \/ UnrouteMoved
  <2>1. CASE RemoveSite("remove") \/ RemoveSite("end")
    BY <1>6, <1>17, <2>1 DEF Unroute, UnrouteMoved, At
  <2>2. CASE CannotPurge
    BY <1>1, <1>4, <2>2 DEF CannotPurge, onEdge
  <2> QED
    BY <1>17, <2>1, <2>2 DEF Unroute, UnrouteMoved
<1>18. CASE Migrate
  <2>1. Busy /\ job.op = "migrate" /\ UNCHANGED <<site, served, off>>
    BY <1>18 DEF Migrate, At, onEdge
  <2>2. ~Busy' \/ (job'.op = "migrate" /\ job'.at = "unroute")
    BY <1>3, <1>4, <1>18, <2>1 DEF Migrate
  <2> QED
    BY <1>1, <2>1, <2>2 DEF Writes
<1>19. CASE Remove \/ Build \/ Kill
  BY <1>1, <1>4, <1>19 DEF Remove, Build, Kill, End, Busy, onEdge
<1>20. CASE ChooseImages \/ DeleteImages
  BY <1>2, <1>20 DEF ChooseImages, DeleteImages, onEdge
<1> QED
  BY <1>7, <1>8, <1>9, <1>10, <1>11, <1>12, <1>13, <1>14, <1>15, <1>16, <1>17, <1>18, <1>19, <1>20 DEF Next

(* What Caddy serves for a suspended tenant stays the 503 until somebody   *)
(* asks for the instance again or removes it (edge.go, RepointUpstream and *)
(* SuspendSite; instance.go, Launch).                                      *)
THEOREM SuspendedAlwaysStays == Spec => []SuspendedStays
<1>1. Init => Shape /\ SuspInv
  BY DEF Init, Shape, SuspInv, SuspendedStays, Busy
<1>2. Shape /\ SuspInv /\ [Next]_vars => (Shape /\ SuspInv)'
  BY ShapeKept, SuspensionKept
<1>3. SuspInv => SuspendedStays
  BY DEF SuspInv
<1> QED
  BY <1>1, <1>2, <1>3, PTL DEF Spec

-----------------------------------------------------------------------------
(* The images: what an instance runs, and what the update under way would  *)
(* go back to, is on the host, and retention never has the host together   *)
(* with a job.                                                             *)

Ran(v) == v = None \/ (v = Instance(v.image, v.addr, v.moved) /\ v.image \in store)

Tables ==
    /\ inst = [n \in Names |-> inst[n]]
    /\ \A n \in Names : Ran(inst[n])

ImagesInv ==
    /\ Tables
    /\ Busy => prune = {}
    /\ prune \cap InUse = {}
    /\ RollbackPossible

(* An instance that is marked or loses its address runs the same image.    *)
LEMMA SameImage ==
    ASSUME NEW i, i = Instance(i.image, i.addr, i.moved), NEW a, NEW m
    PROVE  /\ LET j == [i EXCEPT !.addr = a] IN j = Instance(j.image, j.addr, j.moved) /\ j.image = i.image
           /\ LET j == [i EXCEPT !.moved = m] IN j = Instance(j.image, j.addr, j.moved) /\ j.image = i.image
BY DEF Instance

(* An instance that is launched, stopped or marked is of an image the host *)
(* has.                                                                    *)
LEMMA InstanceSet ==
    ASSUME Tables, NEW v, Ran(v), inst' = [inst EXCEPT ![job.name] = v] \/ inst' = inst, store' = store
    PROVE  Tables'
BY DEF Tables, Ran

LEMMA LaunchedRuns ==
    ASSUME NEW image \in store, NEW a, NEW m
    PROVE  Ran(Instance(image, a, m))
BY DEF Instance, Ran

(* What Launch and a failing launch leave there.                           *)
LEMMA TablesLaunched ==
    ASSUME Tables, NEW image, NEW m, store' = store, Launched(image, m) \/ HalfLaunched(image, m)
    PROVE  Tables'
<1>1. CASE UNCHANGED inst
  BY <1>1 DEF Tables, Ran
<1>2. ASSUME image \in store, NEW a, inst' = [inst EXCEPT ![job.name] = Instance(image, a, m)]
      PROVE  Tables'
  BY <1>2, InstanceSet, LaunchedRuns
<1> QED
  BY <1>1, <1>2 DEF Launched, HalfLaunched

(* A delete that works, or stops the instance only.                        *)
LEMMA TablesDeleted ==
    ASSUME Tables, Busy => job.name \in Names, Busy, store' = store,
           \/ inst' = [inst EXCEPT ![job.name] = None]
           \/ inst' \in {inst, [inst EXCEPT ![job.name] = IF @ = None THEN @ ELSE [@ EXCEPT !.addr = None]]}
    PROVE  Tables'
<1>1. Ran(None) /\ Ran(inst[job.name])
  BY DEF Ran, Tables
<1>2. CASE inst[job.name] = None \/ inst' = inst \/ inst' = [inst EXCEPT ![job.name] = None]
  BY <1>1, <1>2, InstanceSet
<1>3. CASE inst[job.name] # None /\ inst' = [inst EXCEPT ![job.name] = [inst[job.name] EXCEPT !.addr = None]]
  <2>1. Ran([inst[job.name] EXCEPT !.addr = None])
    BY <1>1, <1>3, SameImage DEF Ran
  <2> QED
    BY <1>3, <2>1, InstanceSet
<1> QED
  BY <1>2, <1>3

(* A copy that was migrated away.                                          *)
LEMMA TablesMoved ==
    ASSUME Tables, job.name \in Names, inst[job.name] # None, store' = store, NEW m,
           inst' = [inst EXCEPT ![job.name].addr = None, ![job.name].moved = m]
    PROVE  Tables'
<1> DEFINE v == [inst[job.name] EXCEPT !.addr = None]
           w == [v EXCEPT !.moved = m]
<1>1. Ran(inst[job.name])
  BY DEF Tables
<1>2. v = Instance(v.image, v.addr, v.moved) /\ v.image \in store
  BY <1>1, SameImage DEF Ran
<1>3. inst' = [inst EXCEPT ![job.name] = w]
  BY DEF Tables
<1> HIDE DEF v
<1>4. Ran(w)
  BY <1>2, SameImage DEF Ran
<1> QED
  BY <1>3, <1>4, InstanceSet

(* Every step keeps them so.                                               *)
LEMMA ImagesKept == Shape /\ ImagesInv /\ [Next]_vars => ImagesInv'
<1> SUFFICES ASSUME Shape, ImagesInv, [Next]_vars
             PROVE  ImagesInv'
  OBVIOUS
<1>0. Tables /\ InUse \subseteq store /\ (Busy => (job.op # "build" => job.name \in Names))
  BY DEF ImagesInv, Tables, Ran, InUse, Shape, Held
<1>1. ~Start => SameJob
  BY JobKept
(* A step of a job that leaves the images alone, once the job has the host.*)
<1>2. ASSUME Busy, ~Start, ~LookUpdate, UNCHANGED <<store, prune>>, Tables'
      PROVE  ImagesInv'
  <2>1. prune = {} /\ prune' = {}
    BY <1>2 DEF ImagesInv
  <2>2. RollbackPossible'
    BY <1>1, <1>2 DEF SameJob, ImagesInv, RollbackPossible
  <2> QED
    BY <1>2, <2>1, <2>2 DEF ImagesInv
<1>3. ASSUME UNCHANGED <<inst, store>>
      PROVE  Tables'
  BY <1>0, <1>3 DEF Tables, Ran
<1>4. CASE (\E r \in Requests : Request(r)) \/ UNCHANGED vars
  <2>1. UNCHANGED <<inst, store, prune, job>>
    BY <1>4 DEF Request, vars, onHost
  <2> QED
    BY <1>3, <2>1 DEF ImagesInv, RollbackPossible, Busy, InUse
<1>5. CASE Start
  <2>1. prune' = {} /\ UNCHANGED <<inst, store>> /\ job'.old = None
    BY <1>5, JobStarts DEF Start, onHost
  <2> QED
    BY <1>3, <2>1 DEF ImagesInv, RollbackPossible
<1>6. CASE Validate \/ Reload \/ Look \/ SetUp \/ Gate \/ PublishSite \/ SetUpNew \/ RepointUpstream
           \/ Suspend \/ Unroute \/ UnrouteMoved
  <2>1. Busy /\ UNCHANGED <<inst, store, prune>>
    BY <1>6 DEF Validate, Reload, Look, SetUp, Gate, PublishSite, SetUpNew, RepointUpstream, Suspend, Unroute,
                UnrouteMoved, RemoveSite, CannotPurge, Write, At, onHost
  <2>2. ~Start /\ ~LookUpdate
    BY <1>6, <2>1 DEF Start, LookUpdate, Validate, Reload, Look, SetUp, Gate, PublishSite, SetUpNew,
                      RepointUpstream, Suspend, Unroute, UnrouteMoved, At
  <2> QED
    BY <1>2, <1>3, <2>1, <2>2
<1>7. CASE Create \/ LaunchNew
  <2>1. Busy /\ ~Start /\ ~LookUpdate /\ UNCHANGED <<store, prune>>
    BY <1>7 DEF Create, LaunchNew, At, Start, LookUpdate
  <2>2. Tables'
    BY <1>0, <1>3, <1>7, <2>1, TablesLaunched DEF Create, LaunchNew
  <2> QED
    BY <1>2, <2>1, <2>2
<1>8. CASE DeleteOld \/ Remove
  <2>1. Busy /\ job.name \in Names /\ ~Start /\ ~LookUpdate /\ UNCHANGED <<store, prune>>
    BY <1>0, <1>8 DEF DeleteOld, Remove, At, Start, LookUpdate
  <2>2. \/ inst' = [inst EXCEPT ![job.name] = None]
        \/ inst' \in {inst, [inst EXCEPT ![job.name] = IF @ = None THEN @ ELSE [@ EXCEPT !.addr = None]]}
    BY <1>8 DEF DeleteOld, Remove
  <2>3. Tables'
    BY <1>0, <2>1, <2>2, TablesDeleted
  <2> QED
    BY <1>2, <2>1, <2>3
<1>9. CASE Migrate
  <2>1. Busy /\ job.name \in Names /\ ~Start /\ ~LookUpdate /\ UNCHANGED <<store, prune>>
    BY <1>0, <1>9 DEF Migrate, At, Start, LookUpdate
  <2>2. CASE UNCHANGED inst
    BY <1>2, <1>3, <2>1, <2>2
  <2>3. ASSUME NEW m, Running(job.name), inst' = [inst EXCEPT ![job.name].addr = None, ![job.name].moved = m]
        PROVE  Tables'
    BY <1>0, <2>1, <2>3, TablesMoved DEF Running
  <2> QED
    BY <1>2, <1>9, <2>1, <2>2, <2>3 DEF Migrate
(* The image an update notes is one an instance runs.                      *)
<1>10. CASE LookUpdate
  <2>1. Busy /\ UNCHANGED <<inst, store, prune>> /\ job.name \in Names
    BY <1>0, <1>10 DEF LookUpdate, At, onHost
  <2>2. prune = {} /\ Tables'
    BY <1>3, <2>1 DEF ImagesInv
  <2>3. RollbackPossible'
    <3>1. CASE /\ inst[job.name] # None
               /\ job' = [job EXCEPT !.at = "delete", !.old = inst[job.name]]
      <4>1. job'.old = inst[job.name]
        BY <2>1, <3>1 DEF Shape, Held, IsJob
      <4>2. inst[job.name].image \in store
        BY <1>0, <2>1, <3>1 DEF Tables, Ran
      <4> QED
        BY <2>1, <4>1, <4>2 DEF RollbackPossible
    <3>2. CASE End
      BY <3>2 DEF End, RollbackPossible, Busy
    <3>3. CASE Goto("repoint")
      <4>1. job'.old = job.old /\ job'.op = job.op
        BY <2>1, <3>3, GoesOn DEF Goto, Shape, Held
      <4> QED
        BY <2>1, <4>1 DEF RollbackPossible, ImagesInv
    <3> QED
      BY <1>10, <3>1, <3>2, <3>3 DEF LookUpdate
  <2> QED
    BY <2>1, <2>2, <2>3 DEF ImagesInv
(* A build, or a prune by hand, deletes no image that an instance runs.    *)
<1>11. CASE Build
  <2>1. InUse \subseteq store'
    BY <1>0, <1>11 DEF Build
  <2>2. UNCHANGED <<inst, prune>> /\ ~Busy' /\ prune = {}
    BY <1>11 DEF Build, At, End, Busy, ImagesInv
  <2>3. Tables'
    BY <1>0, <2>1, <2>2 DEF Tables, Ran, InUse
  <2> QED
    BY <2>2, <2>3 DEF ImagesInv, RollbackPossible
<1>12. CASE ChooseImages
  <2>1. ~Busy' /\ prune' \cap InUse = {} /\ UNCHANGED <<inst, store>>
    BY <1>12 DEF ChooseImages, HostIsFree, Busy
  <2> QED
    BY <1>3, <2>1 DEF ImagesInv, RollbackPossible, InUse
<1>13. CASE DeleteImages
  <2>1. ~Busy /\ ~Busy' /\ prune' = {} /\ inst' = inst /\ store' = store \ prune
    BY <1>13 DEF DeleteImages, ImagesInv, Busy
  <2>2. Tables'
    BY <1>0, <2>1 DEF Tables, Ran, InUse, ImagesInv
  <2> QED
    BY <2>1, <2>2 DEF ImagesInv, RollbackPossible
<1>14. CASE Kill
  <2>1. ~Busy' /\ prune' = {} /\ UNCHANGED <<inst, store>>
    BY <1>14 DEF Kill, Busy
  <2> QED
    BY <1>3, <2>1 DEF ImagesInv, RollbackPossible
<1> QED
  BY <1>4, <1>5, <1>6, <1>7, <1>8, <1>9, <1>10, <1>11, <1>12, <1>13, <1>14 DEF Next

(* Whatever fails and whatever is cleaned up in between, the image an      *)
(* update would go back to is on the host (instance.go, Update; images.go, *)
(* the retention that takes the host only when nobody has or awaits it).   *)
THEOREM RollbackAlwaysPossible == Spec => []RollbackPossible
<1>1. Init => Shape /\ ImagesInv
  BY DEF Init, Shape, ImagesInv, Tables, Ran, RollbackPossible, Busy
<1>2. Shape /\ ImagesInv /\ [Next]_vars => (Shape /\ ImagesInv)'
  BY ShapeKept, ImagesKept
<1>3. ImagesInv => RollbackPossible
  BY DEF ImagesInv
<1> QED
  BY <1>1, <1>2, <1>3, PTL DEF Spec

-----------------------------------------------------------------------------
(* The routes, while nothing has failed.  A tenant no job is at has a      *)
(* route that is loaded and leads to its own, healthy instance, or no      *)
(* route; the tenant of the job may have one that leads to an address it   *)
(* has given up, which nobody else is given before the job has seen to it. *)

SpareInv ==
    /\ spare = [requests |-> spare.requests, faults |-> spare.faults, kills |-> spare.kills]
    /\ spare.faults \in Nat /\ spare.faults <= MaxFaults
    /\ spare.kills \in Nat /\ spare.kills <= MaxKills

Formed(i) == i # None => i.moved \in BOOLEAN /\ i.addr \in Addresses \cup {None}

Distinct == \A n, m \in Names : n # m /\ Running(n) /\ Running(m) => inst[n].addr # inst[m].addr
Apart    == \A n, m \in Names : n # m /\ Running(m) => served[n] # inst[m].addr

LeadsHome(n) == site[n] \in {None, "off"} \/ (Healthy(n) /\ site[n] = inst[n].addr)
Settled(n)   == served[n] = site[n] /\ LeadsHome(n)

Known == job.image \in Images \cup {None} /\ (job.op = "build" => job.at = "look")

JobHome(n) ==
    /\ Known
    /\ job.at = "look" \/ (job.op = "put" /\ job.at \in {"create", "setup", "gate", "publish"}) => Settled(n)
    /\ job.at = "create" => inst[n] = None
    /\ job.at = "publish" => Healthy(n)
    /\ job.op = "update" /\ job.at \in {"delete", "launch", "setup"} =>
         /\ served[n] = site[n]
         /\ site[n] \in {None, "off"} \/ job.old.image \in Sound
         /\ job.old # None /\ job.old.moved \in BOOLEAN /\ job.image \in store
    /\ job.op = "update" /\ job.at = "setup" => Running(n) /\ inst[n].image = job.image
    /\ job.at = "repoint" => Healthy(n) /\ served[n] = site[n]
    /\ job.at = "validate" => job.op \notin {"delete", "migrate"}
    /\ job.at \in {"validate", "reload"} => LeadsHome(n)
    /\ job.at = "reload" /\ job.op = "delete" => site[n] = None
    /\ job.at = "remove" => Settled(n) /\ site[n] = None
    /\ job.at = "unroute" => served[n] = site[n]

Home == /\ Distinct /\ Apart
        /\ store \subseteq Images
        /\ \A n \in Names : Formed(inst[n])
        /\ Busy => Known
        /\ \A n \in Names : IF Busy /\ job.name = n THEN JobHome(n) ELSE Settled(n)

HomeInv == Unhurt => Home

(* What was spent is not given back.                                       *)
LEMMA Spent ==
    ASSUME SpareInv, NEW what \in {"requests", "faults", "kills"}, Spend(what)
    PROVE  SpareInv' /\ (Unhurt' => Unhurt /\ what = "requests")
<1>1. MaxFaults \in Nat /\ MaxKills \in Nat
  BY InstancesAssumption
<1>2. CASE what = "requests"
  BY <1>1, <1>2 DEF Spend, SpareInv, Unhurt
<1>3. CASE what = "faults"
  <2>1. spare' = [requests |-> spare.requests, faults |-> spare.faults - 1, kills |-> spare.kills] /\ spare.faults > 0
    BY <1>3 DEF Spend, SpareInv
  <2>2. spare'.faults = spare.faults - 1 /\ spare'.kills = spare.kills /\ spare'.requests = spare.requests
    BY <2>1
  <2>3. spare'.faults \in Nat /\ spare'.faults < MaxFaults
    BY <1>1, <2>1, <2>2 DEF SpareInv
  <2>4. SpareInv'
    BY <1>1, <2>1, <2>2, <2>3 DEF SpareInv
  <2> QED
    BY <1>1, <2>3, <2>4 DEF Unhurt
<1>4. CASE what = "kills"
  <2>1. spare' = [requests |-> spare.requests, faults |-> spare.faults, kills |-> spare.kills - 1] /\ spare.kills > 0
    BY <1>4 DEF Spend, SpareInv
  <2>2. spare'.kills = spare.kills - 1 /\ spare'.faults = spare.faults /\ spare'.requests = spare.requests
    BY <2>1
  <2>3. spare'.kills \in Nat /\ spare'.kills < MaxKills
    BY <1>1, <2>1, <2>2 DEF SpareInv
  <2>4. SpareInv'
    BY <1>1, <2>1, <2>2, <2>3 DEF SpareInv
  <2> QED
    BY <1>1, <2>3, <2>4 DEF Unhurt
<1> QED
  BY <1>2, <1>3, <1>4

(* While nothing is spent on faults and kills, nothing ever was.           *)
LEMMA SpareKept ==
    ASSUME SpareInv, [Next]_vars
    PROVE  SpareInv' /\ (Unhurt' => Unhurt /\ ~Spend("faults") /\ ~Spend("kills"))
<1>1. spare' = spare \/ Spend("requests") \/ Spend("faults") \/ Spend("kills")
  BY DEF Next, vars, Outcome, Write, Start, Request, Kill, Validate, Reload, Look, Create, SetUp, Gate, PublishSite,
         LookUpdate, DeleteOld, LaunchNew, SetUpNew, RepointUpstream, Suspend, Unroute, CannotPurge,
         RemoveSite, Remove, Migrate, UnrouteMoved, Build, ChooseImages, DeleteImages
<1>2. CASE spare' = spare
  <2>1. SpareInv' /\ (Unhurt' => Unhurt)
    BY <1>2 DEF SpareInv, Unhurt
  <2>2. ~Spend("faults") /\ ~Spend("kills")
    BY <1>2 DEF Spend, SpareInv
  <2> QED
    BY <2>1, <2>2
<1>3. ASSUME NEW what \in {"requests", "faults", "kills"}, Spend(what)
      PROVE  SpareInv' /\ (Unhurt' => Unhurt /\ ~Spend("faults") /\ ~Spend("kills"))
  BY <1>3, Spent
<1> QED
  BY <1>1, <1>2, <1>3

(* A job is not what there is when there is none.                          *)
LEMMA JobIsNotIdle == ASSUME NEW j, IsJob(j) PROVE j # Idle
<1>1. DOMAIN j = {"op", "name", "image", "at", "old", "prev"}
  BY DEF IsJob
<1>2. DOMAIN Idle = {"op"}
  BY DEF Idle
<1> QED
  BY <1>1, <1>2

(* The job at another step.                                                *)
LEMMA AtStep ==
    ASSUME Busy, IsJob(job), NEW step, Goto(step)
    PROVE  /\ Busy' /\ job'.at = step
           /\ job'.op = job.op /\ job'.name = job.name /\ job'.image = job.image /\ job'.old = job.old
BY GoesOn, JobIsNotIdle DEF Goto, Busy

(* A tenant that loses its address, or goes, leaves the others at home.    *)
LEMMA HomeStays ==
    ASSUME Home, Busy, NEW n, n = job.name,
           UNCHANGED <<site, served, store>>, Formed(inst'[n]),
           \A m \in Names \ {n} : inst'[m] = inst[m],
           ~Running(n)' \/ inst'[n] = inst[n],
           Busy' => job'.name = n /\ JobHome(n)', ~Busy' => Settled(n)'
    PROVE  Home'
<1>1. \A m \in Names : Running(m)' => Running(m) /\ inst'[m] = inst[m]
  BY DEF Running
<1>2. Distinct' /\ Apart'
  BY <1>1 DEF Home, Distinct, Apart
<1>3. \A m \in Names \ {n} : Settled(m)'
  BY DEF Home, Settled, LeadsHome, Healthy, Running
<1>4. Busy' => Known'
  BY DEF JobHome
<1> QED
  BY <1>2, <1>3, <1>4 DEF Home

(* A launch is given an address nobody has and no route names.             *)
LEMMA HomeLaunched ==
    ASSUME Home, Busy, NEW n \in Names, n = job.name, inst = [m \in Names |-> inst[m]],
           UNCHANGED <<site, served, store>>, NEW image, NEW moved \in BOOLEAN, Launched(image, moved),
           Busy' => job'.name = n /\ (Running(n)' /\ inst'[n].image = image => JobHome(n)'), Busy'
    PROVE  Home'
<1>1. PICK a \in Free : inst' = [inst EXCEPT ![n] = Instance(image, a, moved)]
  BY DEF Launched
<1>2. /\ a \in Addresses /\ a # None /\ a # "off"
      /\ \A m \in Names : Running(m) => inst[m].addr # a
  BY <1>1, InstancesAssumption DEF Free
<1>3. inst'[n] = Instance(image, a, moved) /\ \A m \in Names \ {n} : inst'[m] = inst[m]
  BY <1>1
<1>4. inst'[n].addr = a /\ inst'[n].image = image
  BY <1>3 DEF Instance
<1>5. \A m \in Names \ {n} : (Running(m)' <=> Running(m)) /\ (Running(m) => inst'[m].addr # a)
  BY <1>2, <1>3 DEF Running
<1>6. Distinct'
  BY <1>3, <1>4, <1>5 DEF Home, Distinct
<1>7. Apart'
  <2>1. \A m \in Names \ {n} : served[m] # a
    BY <1>2 DEF Home, Settled, LeadsHome, Healthy
  <2>2. \A m, k \in Names : m # k /\ Running(k)' => served[m] # inst'[k].addr
    BY <1>3, <1>4, <1>5, <2>1 DEF Home, Apart
  <2> QED
    BY <2>2 DEF Apart
<1>8. \A m \in Names \ {n} : Settled(m)'
  BY <1>3 DEF Home, Settled, LeadsHome, Healthy, Running
<1>9. Running(n)'
  <2>1. image \in Images
    BY DEF Launched, Home
  <2>2. inst'[n] # None
    BY <1>2, <1>3, <2>1, InstancesAssumption DEF Instance
  <2> QED
    BY <1>2, <1>4, <2>2 DEF Running
<1>10. \A m \in Names : Formed(inst'[m])
  BY <1>2, <1>3 DEF Instance, Home, Formed
<1>11. JobHome(n)' /\ Known'
  BY <1>4, <1>9 DEF JobHome
<1> QED
  BY <1>6, <1>7, <1>8, <1>9, <1>10, <1>11 DEF Home

(* The edge is written for the tenant of the job only.                     *)
LEMMA HomeWritten ==
    ASSUME Shape, Home, Busy, NEW n \in Names, n = job.name, UNCHANGED <<inst, served, store>>,
           NEW v, site' = [site EXCEPT ![n] = v],
           Busy' => job'.name = n /\ JobHome(n)', ~Busy' => Settled(n)'
    PROVE  Home'
<1>1. \A m \in Names \ {n} : site'[m] = site[m]
  BY DEF Shape
<1>2. Distinct' /\ Apart'
  BY DEF Home, Distinct, Apart, Running
<1>3. \A m \in Names \ {n} : Settled(m)'
  BY <1>1 DEF Home, Settled, LeadsHome, Healthy, Running
<1>4. Busy' => Known'
  BY DEF JobHome
<1> QED
  BY <1>2, <1>3, <1>4 DEF Home

(* Loading every file sends each domain where its file says.               *)
LEMMA HomeLoaded ==
    ASSUME Home, Busy, NEW n \in Names, n = job.name, LeadsHome(n), UNCHANGED <<inst, site, store>>, served' = site,
           Busy' => job'.name = n /\ (Settled(n)' => JobHome(n)')
    PROVE  Home'
<1>1. \A m \in Names : LeadsHome(m) /\ Settled(m)'
  BY DEF Home, Settled, LeadsHome, Healthy, Running
<1>2. Distinct'
  BY DEF Home, Distinct, Running
<1>3. Apart'
  <2> SUFFICES ASSUME NEW m \in Names, NEW k \in Names, m # k, Running(k)
               PROVE  site[m] # inst[k].addr
    BY DEF Apart, Running
  <2>1. inst[k].addr \notin {None, "off"}
    BY InstancesAssumption DEF Home, Formed, Running
  <2> QED
    BY <1>1, <2>1 DEF LeadsHome, Healthy, Home, Distinct
<1>4. Busy' => Known'
  BY <1>1 DEF JobHome
<1> QED
  BY <1>1, <1>2, <1>3, <1>4 DEF Home

(* The outcome of a command, while nothing fails.                          *)
LEMMA Works == ASSUME ~Spend("faults"), NEW ok \in BOOLEAN, Outcome(ok) PROVE ok = TRUE
BY DEF Outcome

(* A route that is written leads home, or nowhere.                         *)
LEMMA HomeWrites ==
    ASSUME Shape, Home, ~Spend("faults"), Busy, IsJob(job), JobHome(job.name), NEW n \in Names, n = job.name,
           NEW content, Write(content), job.op \notin {"delete", "migrate", "build"},
           content = "off" \/ (Healthy(n) /\ content = inst[n].addr)
    PROVE  Home'
<1>1. /\ site' = [site EXCEPT ![n] = content] /\ UNCHANGED <<inst, served, store>>
      /\ job' = [job EXCEPT !.at = "validate", !.prev = site[n]]
  BY Works DEF Write, onHost
<1> DEFINE k == [job EXCEPT !.at = "validate"]
<1>2. IsJob(k) /\ k.at = "validate" /\ k.op = job.op /\ k.name = job.name /\ k.image = job.image
  BY GoesOn
<1>3. job' = [k EXCEPT !.prev = site[n]]
  BY <1>1
<1> HIDE DEF k
<1>4. IsJob(job') /\ job'.at = "validate" /\ job'.op = job.op /\ job'.name = n /\ job'.image = job.image
  BY <1>2, <1>3, NotesSite
<1>5. Busy'
  BY <1>4, JobIsNotIdle DEF Busy
<1>6. site'[n] = content
  BY <1>1 DEF Shape
<1>7. JobHome(n)'
  BY <1>1, <1>4, <1>6 DEF JobHome, Known, LeadsHome, Healthy, Running
<1> QED
  BY <1>1, <1>4, <1>5, <1>7, HomeWritten

(* A launch: the site is published of an instance that is healthy.         *)
LEMMA HomePut ==
    ASSUME Shape, ImagesInv, Home, ~Spend("faults"), Busy, NEW n \in Names, n = job.name,
           Look \/ Create \/ SetUp \/ Gate \/ PublishSite
    PROVE  Home'
<1>1. IsJob(job) /\ JobHome(n) /\ Tables /\ job.op = "put" /\ store' = store
  BY DEF Shape, Held, Home, ImagesInv, Look, Create, SetUp, Gate, PublishSite, Write, At, onHost
<1>2. ASSUME NEW step \in {"create", "setup", "gate", "publish"}, Goto(step), UNCHANGED <<inst, site, served>>,
             step = "create" => inst[n] = None, step = "publish" => Healthy(n), Settled(n)
      PROVE  Home'
  <2>1. /\ Busy' /\ job'.at = step /\ job'.op = "put" /\ job'.name = n /\ job'.image = job.image
    BY <1>1, <1>2, AtStep
  <2>2. Settled(n)'
    BY <1>2 DEF Settled, LeadsHome, Healthy, Running
  <2>3. JobHome(n)'
    BY <1>1, <1>2, <2>1, <2>2 DEF JobHome, Known, Healthy, Running
  <2> QED
    BY <1>1, <1>2, <2>1, <2>3, HomeStays DEF Home
<1>3. ASSUME End, UNCHANGED <<inst, site, served>>, Settled(n)
      PROVE  Home'
  <2>1. ~Busy' /\ Settled(n)'
    BY <1>3 DEF End, Busy, Settled, LeadsHome, Healthy, Running
  <2> QED
    BY <1>1, <1>3, <2>1, HomeStays DEF Home
<1>4. Settled(n)
  BY <1>1 DEF JobHome, Known, Look, Create, SetUp, Gate, PublishSite, At
<1>5. CASE Look
  BY <1>2, <1>3, <1>4, <1>5 DEF Look, onHost, onEdge, Managed
<1>6. CASE Create
  <2>1. CASE Launched(job.image, FALSE) /\ Goto("setup")
    <3>1. inst[n] = None /\ UNCHANGED <<site, served>>
      BY <1>1, <1>6 DEF JobHome, Known, Create, At, onEdge
    <3>2. /\ Busy' /\ job'.at = "setup" /\ job'.op = "put" /\ job'.name = n /\ job'.image = job.image
      BY <1>1, <2>1, AtStep
    <3>3. site[n] \in {None, "off"} /\ served[n] = site[n]
      BY <1>4, <3>1 DEF Settled, LeadsHome, Healthy, Running
    <3>4. JobHome(n)'
      BY <1>1, <3>1, <3>2, <3>3 DEF JobHome, Known, Settled, LeadsHome
    <3> QED
      BY <1>1, <2>1, <3>1, <3>2, <3>4, HomeLaunched DEF Tables
  <2>2. CASE End /\ UNCHANGED inst
    BY <1>3, <1>4, <1>6, <2>2 DEF Create, onEdge
  <2> QED
    BY <1>6, <2>1, <2>2 DEF Create
<1>7. CASE SetUp
  BY <1>2, <1>4, <1>7, Works DEF SetUp, onHost, onEdge
<1>8. CASE Gate
  BY <1>2, <1>3, <1>4, <1>8 DEF Gate, onHost, onEdge
<1>9. CASE PublishSite
  <2>1. Healthy(n)
    BY <1>1, <1>9 DEF PublishSite, At, JobHome, Known
  <2>2. CASE End /\ UNCHANGED <<inst, site, served>>
    BY <1>3, <1>4, <2>2
  <2>3. CASE Write(inst[n].addr)
    BY <1>1, <2>1, <2>3, HomeWrites
  <2> QED
    BY <1>9, <2>2, <2>3 DEF PublishSite, onHost, onEdge
<1> QED
  BY <1>5, <1>6, <1>7, <1>8, <1>9

(* An update: the address it gives up is nobody else's before its route is *)
(* seen to, and the way back runs an image that was healthy, or had no     *)
(* route.                                                                  *)
LEMMA HomeUpdate ==
    ASSUME Shape, ImagesInv, Home, ~Spend("faults"), Busy, NEW n \in Names, n = job.name,
           LookUpdate \/ DeleteOld \/ LaunchNew \/ SetUpNew \/ RepointUpstream
    PROVE  Home'
<1>1. IsJob(job) /\ JobHome(n) /\ Tables /\ job.op = "update" /\ store' = store /\ InUse \subseteq store
  BY DEF Shape, Held, Home, ImagesInv, LookUpdate, DeleteOld, LaunchNew, SetUpNew, RepointUpstream, Write, At, onHost,
         Tables, Ran, InUse
<1>2. ASSUME End, UNCHANGED <<inst, site, served>>, Settled(n)
      PROVE  Home'
  <2>1. ~Busy' /\ Settled(n)'
    BY <1>2 DEF End, Busy, Settled, LeadsHome, Healthy, Running
  <2> QED
    BY <1>1, <1>2, <2>1, HomeStays DEF Home
<1>3. ASSUME Goto("repoint"), UNCHANGED <<inst, site, served>>, Healthy(n), served[n] = site[n]
      PROVE  Home'
  <2>1. /\ Busy' /\ job'.at = "repoint" /\ job'.op = "update" /\ job'.name = n /\ job'.image = job.image
    BY <1>1, <1>3, AtStep
  <2>2. JobHome(n)'
    BY <1>1, <1>3, <2>1 DEF JobHome, Known, Healthy, Running
  <2> QED
    BY <1>1, <1>3, <2>1, <2>2, HomeStays DEF Home
<1>4. CASE LookUpdate
  <2>1. Settled(n) /\ UNCHANGED <<inst, site, served>>
    BY <1>1, <1>4 DEF LookUpdate, At, JobHome, Known, onHost, onEdge
  <2>2. CASE /\ inst[n] # None /\ job.image \in store
             /\ job' = [job EXCEPT !.at = "delete", !.old = inst[n]]
    <3> DEFINE k == [job EXCEPT !.at = "delete"]
    <3>1. IsJob(k) /\ k.at = "delete" /\ k.op = job.op /\ k.name = job.name /\ k.image = job.image
      BY <1>1, GoesOn
    <3>2. job' = [k EXCEPT !.old = inst[n]]
      BY <2>2
    <3> HIDE DEF k
    <3>3. /\ IsJob(job') /\ job'.at = "delete" /\ job'.op = "update" /\ job'.name = n /\ job'.image = job.image
          /\ job'.old = inst[n]
      BY <1>1, <3>1, <3>2, NotesOld
    <3>4. Busy'
      BY <3>3, JobIsNotIdle DEF Busy
    <3>5. site[n] \in {None, "off"} \/ inst[n].image \in Sound
      BY <2>1 DEF Settled, LeadsHome, Healthy
    <3>6. JobHome(n)'
      BY <1>1, <2>1, <2>2, <3>3, <3>5 DEF JobHome, Known, Settled, Home, Formed
    <3> QED
      BY <1>1, <2>1, <3>3, <3>4, <3>6, HomeStays DEF Home
  <2>3. CASE End
    BY <1>2, <2>1, <2>3
  <2>4. CASE Healthy(n) /\ Goto("repoint")
    BY <1>3, <2>1, <2>4 DEF Settled
  <2> QED
    BY <1>4, <2>2, <2>3, <2>4 DEF LookUpdate
(* The three steps that replace an instance.                               *)
<1>5. CASE DeleteOld \/ LaunchNew \/ SetUpNew
  <2>1. /\ served[n] = site[n] /\ (site[n] \in {None, "off"} \/ job.old.image \in Sound)
        /\ job.old # None /\ job.old.moved \in BOOLEAN /\ job.image \in store
        /\ job.old.image \in store /\ UNCHANGED <<site, served>>
    BY <1>1, <1>5 DEF DeleteOld, LaunchNew, SetUpNew, At, JobHome, Known, ImagesInv, RollbackPossible, onEdge
  <2>2. CASE DeleteOld
    <3>1. inst' = [inst EXCEPT ![n] = None] /\ Goto("launch")
      BY <2>2 DEF DeleteOld
    <3>2. /\ Busy' /\ job'.at = "launch" /\ job'.op = "update" /\ job'.name = n /\ job'.image = job.image
          /\ job'.old = job.old
      BY <1>1, <3>1, AtStep
    <3>3. JobHome(n)'
      BY <1>1, <2>1, <3>2 DEF JobHome, Known
    <3>4. inst'[n] = None /\ \A m \in Names \ {n} : inst'[m] = inst[m]
      BY <1>1, <3>1 DEF Tables
    <3> QED
      BY <1>1, <2>1, <3>2, <3>3, <3>4, HomeStays DEF Running, Formed
  <2>3. CASE LaunchNew
    <3>1. Launched(job.image, job.old.moved) /\ Goto("setup")
      BY <2>1, <2>3 DEF LaunchNew
    <3>2. /\ Busy' /\ job'.at = "setup" /\ job'.op = "update" /\ job'.name = n /\ job'.image = job.image
          /\ job'.old = job.old
      BY <1>1, <3>1, AtStep
    <3>3. Running(n)' /\ inst'[n].image = job.image => JobHome(n)'
      BY <1>1, <2>1, <3>2 DEF JobHome, Known
    <3> QED
      BY <1>1, <2>1, <3>1, <3>2, <3>3, HomeLaunched DEF Tables
  <2>4. CASE SetUpNew
    <3>1. UNCHANGED <<inst, site, served>> /\ Running(n) /\ inst[n].image = job.image
      BY <1>1, <2>4 DEF SetUpNew, At, JobHome, Known, onHost, onEdge
    <3>2. CASE Healthy(n) /\ Goto("repoint")
      BY <1>3, <2>1, <3>1, <3>2
    <3>3. CASE ~Healthy(n) /\ Back
      <4>1. CASE End /\ job.image = job.old.image
        <5>1. site[n] \in {None, "off"}
          BY <2>1, <3>1, <3>3, <4>1 DEF Healthy
        <5> QED
          BY <1>2, <2>1, <3>1, <4>1, <5>1 DEF Settled, LeadsHome
      <4>2. CASE job' = [job EXCEPT !.at = "delete", !.image = job.old.image]
        <5> DEFINE k == [job EXCEPT !.at = "delete"]
        <5>1. IsJob(k) /\ k.at = "delete" /\ k.op = job.op /\ k.name = job.name /\ k.old = job.old
          BY <1>1, GoesOn
        <5>2. job' = [k EXCEPT !.image = job.old.image]
          BY <4>2
        <5> HIDE DEF k
        <5>3. /\ IsJob(job') /\ job'.at = "delete" /\ job'.op = "update" /\ job'.name = n
              /\ job'.image = job.old.image /\ job'.old = job.old
          BY <1>1, <5>1, <5>2, NotesImage
        <5>4. Busy'
          BY <5>3, JobIsNotIdle DEF Busy
        <5>5. JobHome(n)'
          BY <1>1, <2>1, <3>1, <5>3 DEF JobHome, Known, Home
        <5> QED
          BY <1>1, <2>1, <3>1, <5>3, <5>4, <5>5, HomeStays DEF Home
      <4> QED
        BY <3>3, <4>1, <4>2 DEF Back
    <3> QED
      BY <2>4, <3>2, <3>3, Works DEF SetUpNew
  <2> QED
    BY <1>5, <2>2, <2>3, <2>4
<1>6. CASE RepointUpstream
  <2>1. Healthy(n) /\ served[n] = site[n]
    BY <1>1, <1>6 DEF RepointUpstream, At, JobHome, Known
  <2>2. CASE Points(n) /\ End /\ UNCHANGED <<inst, site, served>>
    BY <1>2, <2>1, <2>2 DEF Points, Settled, LeadsHome
  <2>3. CASE Write(inst[n].addr)
    BY <1>1, <2>1, <2>3, HomeWrites
  <2> QED
    BY <1>6, <2>2, <2>3 DEF RepointUpstream, onHost, onEdge
<1> QED
  BY <1>4, <1>5, <1>6

(* What the jobs do to the edge, and to a tenant that goes: the route goes *)
(* first.                                                                  *)
LEMMA HomeEdge ==
    ASSUME Shape, ImagesInv, Home, ~Spend("faults"), Busy, NEW n \in Names, n = job.name,
           Validate \/ Reload \/ Suspend \/ Unroute \/ Remove \/ Migrate \/ UnrouteMoved
    PROVE  Home'
<1>1. IsJob(job) /\ JobHome(n) /\ Tables /\ store' = store
  BY DEF Shape, Held, Home, ImagesInv, Validate, Reload, Suspend, Unroute, Remove, Migrate, UnrouteMoved, RemoveSite,
         CannotPurge, Write, At, onHost
<1>2. ASSUME End, UNCHANGED <<inst, site, served>>, Settled(n)
      PROVE  Home'
  <2>1. ~Busy' /\ Settled(n)'
    BY <1>2 DEF End, Busy, Settled, LeadsHome, Healthy, Running
  <2> QED
    BY <1>1, <1>2, <2>1, HomeStays DEF Home
(* A site that is removed.                                                 *)
<1>3. ASSUME NEW next \in {"remove", "end"}, RemoveSite(next), served[n] = site[n],
             job.op = IF next = "end" THEN "migrate" ELSE "delete"
      PROVE  Home'
  <2>1. UNCHANGED <<inst, served>>
    BY <1>3 DEF RemoveSite, onHost
  <2>2. CASE site' = [site EXCEPT ![n] = None] /\ Goto("reload")
    <3>1. /\ Busy' /\ job'.at = "reload" /\ job'.op = job.op /\ job'.name = n /\ job'.image = job.image
      BY <1>1, <2>2, AtStep
    <3>2. site'[n] = None
      BY <2>2 DEF Shape
    <3>3. JobHome(n)'
      BY <1>1, <1>3, <3>1, <3>2 DEF JobHome, Known, LeadsHome
    <3> QED
      BY <1>1, <2>1, <2>2, <3>1, <3>3, HomeWritten
  <2>3. CASE site[n] = None /\ UNCHANGED site /\ (IF next = "end" THEN End ELSE Goto(next))
    <3>1. CASE next = "end"
      BY <1>2, <1>3, <2>1, <2>3, <3>1 DEF Settled, LeadsHome
    <3>2. CASE next = "remove" /\ Goto("remove")
      <4>1. /\ Busy' /\ job'.at = "remove" /\ job'.op = job.op /\ job'.name = n /\ job'.image = job.image
        BY <1>1, <3>2, AtStep
      <4>2. JobHome(n)'
        BY <1>1, <1>3, <2>1, <2>3, <3>2, <4>1 DEF JobHome, Known, Settled, LeadsHome
      <4> QED
        BY <1>1, <2>1, <2>3, <4>1, <4>2, HomeStays DEF Home
    <3> QED
      BY <2>3, <3>1, <3>2
  <2> QED
    BY <1>3, <2>2, <2>3, Works DEF RemoveSite
<1>4. CASE Validate
  <2>1. Goto("reload") /\ UNCHANGED <<inst, site, served>> /\ job.at = "validate"
    BY <1>4 DEF Validate, onHost
  <2>2. /\ Busy' /\ job'.at = "reload" /\ job'.op = job.op /\ job'.name = n /\ job'.image = job.image
    BY <1>1, <2>1, AtStep
  <2>3. JobHome(n)'
    BY <1>1, <2>1, <2>2 DEF JobHome, Known, LeadsHome, Healthy, Running
  <2> QED
    BY <1>1, <2>1, <2>2, <2>3, HomeStays DEF Home
<1>5. CASE Reload
  <2>1. served' = site /\ UNCHANGED <<inst, site>> /\ LeadsHome(n) /\ (job.op = "delete" => site[n] = None)
    BY <1>1, <1>5, Works DEF Reload, JobHome, Known, onHost
  <2>2. CASE job.op = "delete" /\ Goto("remove")
    <3>1. /\ Busy' /\ job'.at = "remove" /\ job'.op = job.op /\ job'.name = n /\ job'.image = job.image
      BY <1>1, <2>2, AtStep
    <3>2. Settled(n)' => JobHome(n)'
      BY <1>1, <2>1, <2>2, <3>1 DEF JobHome, Known, Settled, LeadsHome
    <3> QED
      BY <1>1, <2>1, <3>1, <3>2, HomeLoaded
  <2>3. CASE End
    BY <1>1, <2>1, <2>3, HomeLoaded DEF End, Busy
  <2> QED
    BY <1>5, <2>2, <2>3 DEF Reload
<1>6. CASE Suspend
  <2>1. Settled(n) /\ job.op = "suspend"
    BY <1>1, <1>6 DEF Suspend, At, JobHome, Known
  <2>2. CASE End /\ UNCHANGED <<inst, site, served>>
    BY <1>2, <2>1, <2>2
  <2>3. CASE Write("off")
    BY <1>1, <2>1, <2>3, HomeWrites
  <2> QED
    BY <1>6, <2>2, <2>3 DEF Suspend, onHost, onEdge
<1>7. CASE Unroute
  <2>1. Settled(n) /\ job.op = "delete"
    BY <1>1, <1>7 DEF Unroute, At, JobHome, Known
  <2>2. CASE CannotPurge
    BY <1>2, <2>1, <2>2 DEF CannotPurge, onHost, onEdge
  <2> QED
    BY <1>3, <1>7, <2>1, <2>2 DEF Unroute, Settled
<1>8. CASE UnrouteMoved
  BY <1>1, <1>3, <1>8 DEF UnrouteMoved, At, JobHome, Known
<1>9. CASE Remove
  <2>1. Settled(n) /\ site[n] = None /\ inst' = [inst EXCEPT ![n] = None] /\ End /\ UNCHANGED <<site, served>>
    BY <1>1, <1>9 DEF Remove, At, JobHome, Known, onEdge
  <2>2. inst'[n] = None /\ \A m \in Names \ {n} : inst'[m] = inst[m]
    BY <1>1, <2>1 DEF Tables
  <2>3. ~Busy' /\ Settled(n)'
    BY <2>1 DEF End, Busy, Settled, LeadsHome
  <2> QED
    BY <1>1, <2>1, <2>2, <2>3, HomeStays DEF Running, Formed
<1>10. CASE Migrate
  <2>1. Settled(n) /\ job.op = "migrate" /\ UNCHANGED <<site, served>>
    BY <1>1, <1>10 DEF Migrate, At, JobHome, Known, onEdge
  <2>2. CASE End /\ UNCHANGED inst
    BY <1>2, <2>1, <2>2
  <2>3. CASE /\ inst[n] # None /\ Goto("unroute")
             /\ inst' = [inst EXCEPT ![n].addr = None, ![n].moved = TRUE]
    <3> DEFINE v == [[inst[n] EXCEPT !.addr = None] EXCEPT !.moved = TRUE]
    <3>1. inst'[n] = v /\ \A m \in Names \ {n} : inst'[m] = inst[m]
      BY <1>1, <2>3 DEF Tables
    <3>2. v.addr = None /\ v.moved = TRUE
      <4>1. inst[n] = Instance(inst[n].image, inst[n].addr, inst[n].moved)
        BY <1>1, <2>3 DEF Tables, Ran
      <4> QED
        BY <4>1 DEF Instance
    <3> HIDE DEF v
    <3>3. Formed(v)
      BY <3>2 DEF Formed
    <3>4. ~Running(n)'
      BY <3>1, <3>2 DEF Running
    <3>5. /\ Busy' /\ job'.at = "unroute" /\ job'.op = job.op /\ job'.name = n /\ job'.image = job.image
      BY <1>1, <2>3, AtStep
    <3>6. JobHome(n)'
      BY <1>1, <2>1, <3>5 DEF JobHome, Known, Settled
    <3> QED
      BY <1>1, <2>1, <3>1, <3>3, <3>4, <3>5, <3>6, HomeStays
  <2> QED
    BY <1>10, <2>2, <2>3, Works DEF Migrate, Running
<1> QED
  BY <1>4, <1>5, <1>6, <1>7, <1>8, <1>9, <1>10

(* Every step keeps the tenants at home while nothing fails.               *)
LEMMA HomeKept == Shape /\ ImagesInv /\ SpareInv /\ HomeInv /\ [Next]_vars => HomeInv'
<1> SUFFICES ASSUME Shape, ImagesInv, SpareInv, HomeInv, [Next]_vars, Unhurt'
             PROVE  Home'
  BY DEF HomeInv
<1>1. Home /\ ~Spend("faults") /\ ~Spend("kills")
  BY SpareKept DEF HomeInv
<1>2. ASSUME UNCHANGED <<inst, site, served>>, store' \subseteq Images, UNCHANGED job \/ (~Busy /\ ~Busy')
      PROVE  Home' \/ (Busy /\ store' # store)
  BY <1>1, <1>2 DEF Home, Distinct, Apart, Running, JobHome, Known, Settled, LeadsHome, Healthy, Busy
<1>3. CASE (\E r \in Requests : Request(r)) \/ UNCHANGED vars \/ ChooseImages \/ DeleteImages
  <2>1. UNCHANGED <<inst, site, served, job>> /\ (store' = store \/ (store' \subseteq store /\ prune # {}))
    BY <1>3 DEF Request, ChooseImages, DeleteImages, vars, onHost, onEdge
  <2>2. store' \subseteq Images /\ (Busy => prune = {})
    BY <1>1, <2>1 DEF Home, ImagesInv
  <2> QED
    BY <1>2, <2>1, <2>2
<1>4. CASE Start
  <2>1. ~Busy /\ UNCHANGED <<inst, site, served, store>>
    BY <1>4 DEF Start, onHost, onEdge
  <2>2. Head(line) \in Requests
    BY <1>4 DEF Start, Shape
  <2>3. job'.at = "look" /\ job'.image \in Images \cup {None}
    BY <1>4, <2>2 DEF Start, Requests
  <2>4. \A n \in Names : Settled(n)'
    BY <1>1, <2>1 DEF Home, Settled, LeadsHome, Healthy, Running
  <2>5. \A n \in Names : JobHome(n)'
    BY <2>3, <2>4 DEF JobHome, Known
  <2>6. Known'
    BY <2>3 DEF Known
  <2> QED
    BY <1>1, <2>1, <2>4, <2>5, <2>6 DEF Home, Distinct, Apart, Running
<1>5. CASE Build
  <2>1. ~Busy' /\ UNCHANGED <<inst, site, served>> /\ Busy /\ job.at = "look"
    BY <1>5 DEF Build, End, Busy, At, onEdge
  <2>2. \A n \in Names : Settled(n)'
    BY <1>1, <2>1 DEF Home, JobHome, Known, Settled, LeadsHome, Healthy, Running
  <2>3. store' \subseteq Images
    BY <1>1, <1>5, <2>1 DEF Build, Home, Known
  <2> QED
    BY <1>1, <2>1, <2>2, <2>3 DEF Home, Distinct, Apart, Running
<1>6. CASE \/ Look \/ Create \/ SetUp \/ Gate \/ PublishSite
           \/ LookUpdate \/ DeleteOld \/ LaunchNew \/ SetUpNew \/ RepointUpstream
           \/ Validate \/ Reload \/ Suspend \/ Unroute \/ Remove \/ Migrate \/ UnrouteMoved
  <2>1. Busy
    BY <1>6 DEF Look, Create, SetUp, Gate, PublishSite, LookUpdate, DeleteOld, LaunchNew, SetUpNew, RepointUpstream,
                Validate, Reload, Suspend, Unroute, Remove, Migrate, UnrouteMoved, At
  <2>2. job.op # "build"
    BY <1>1, <1>6, <2>1 DEF Home, Known, Look, Create, SetUp, Gate, PublishSite, LookUpdate, DeleteOld, LaunchNew, SetUpNew,
                            RepointUpstream, Validate, Reload, Suspend, Unroute, Remove, Migrate, UnrouteMoved, At
  <2>3. PICK n \in Names : n = job.name
    BY <2>1, <2>2 DEF Shape, Held
  <2> QED
    BY <1>1, <1>6, <2>1, <2>3, HomePut, HomeUpdate, HomeEdge
<1>7. ~Kill
  BY <1>1 DEF Kill
<1> QED
  BY <1>3, <1>4, <1>5, <1>6, <1>7 DEF Next

(* While no command has failed and no daemon died, no domain is sent to    *)
(* another tenant's instance, although an update gives up an address and   *)
(* the next launch may get it (instance.go, Update and Delete; edge.go,    *)
(* RepointUpstream and RemoveSite).                                        *)
THEOREM RouteAlwaysLeadsHome == Spec => []RouteLeadsHome
<1>1. Init => Shape /\ ImagesInv /\ SpareInv /\ HomeInv
  <2> SUFFICES ASSUME Init PROVE Shape /\ ImagesInv /\ SpareInv /\ HomeInv
    OBVIOUS
  <2>1. Shape /\ ImagesInv
    BY DEF Init, Shape, ImagesInv, Tables, Ran, RollbackPossible, Busy
  <2>2. SpareInv
    BY InstancesAssumption DEF Init, SpareInv
  <2>3. Home
    BY DEF Init, Home, Distinct, Apart, Formed, Known, Settled, LeadsHome, Running, Busy
  <2> QED
    BY <2>1, <2>2, <2>3 DEF HomeInv
<1>2. Shape /\ ImagesInv /\ SpareInv /\ HomeInv /\ [Next]_vars => (Shape /\ ImagesInv /\ SpareInv /\ HomeInv)'
  BY ShapeKept, ImagesKept, SpareKept, HomeKept
<1>3. HomeInv => RouteLeadsHome
  BY DEF HomeInv, Home, Apart, RouteLeadsHome
<1> QED
  BY <1>1, <1>2, <1>3, PTL DEF Spec
=============================================================================
