# native-ops, specified

native-ops keeps hosts, and the containers on them, as a Git repository
describes them. A daemon (`native-ops serve`) runs on each host, with access to
its containers; CI, people and agents ask it over HTTP to plan, apply, deploy,
build, back up, restore, change or move instances, and to replace itself. These
modules model the parts of it where the order of steps decides what is left:
who may change the host, what was approved, what a failure leaves behind, and
who is let in. The code is the reference; a definition's comment names the
function it stands for, and `PROJECT.json` maps each one to its lines.

## 1. The system

| Component | State it keeps | Operations | Talks to |
|---|---|---|---|
| host queue (`pkg/server/queue.go`) | `busy`, `closed`, the line of tickets | enqueue, tryTicket, abandon, release, close | every handler that changes the host |
| job store (`jobs.go`) | a record per job, in memory and as a JSON file | create, log, start, finish, interrupt, prune, reopen | the queue's goroutines, the UI, `lastHostChange` |
| plan store (`plans.go`, `approvals.go`, `plan.go`) | a record per plan hash: last seen, approval, use | record, approve, revoke, check, consume, use for a deploy, prune | applies, deploys, admins |
| deploys (`deploy.go`, `deploys.go`, `pin.go`, `upgrade.go`) | a deploy's job; the resume file | plan, use, work; follow the version pin, the flags, the backup schedule and the remotes; resume | self update, serve flags, the deployer |
| self update (`pkg/selfupdate`) | the binary, the previous one, `upgrade.pending`, `upgrade.attempts` | install, guard (before each start), commit (after 30 s) | the service manager, deploys |
| serve flags (`pkg/serveflags`) | the staged flags, the flags in use, attempts | load, stage, commit | the service manager, deploys |
| deployer (`pkg/engine/deployer.go`, `plan.go`) | none: it reads the host each time | plan, converge, deploy afresh, hooks | incus, edge |
| instances (`instance.go`, `instance_spec.go`) | labels on the instance | launch, update with rollback, resize, suspend, destroy | incus, edge |
| migration (`migration.go`, `instance_migrate.go`) | the copy on two hosts, a mark on the source | migrate, adopt, finalize | two Incus hosts, edge |
| edge (`pkg/caddy/edge.go`) | one site file per route, what Caddy has loaded | publish, suspend, repoint, remove, sync the Caddyfile | Caddy in the edge container |
| backups (`pkg/backup`, `backup_schedule.go`) | archives and manifests in an object store; the schedule | create, prune, restore in place or as new, tick | S3, incus, the queue |
| image retention (`imageprune.go`) | the images and who uses them | prune | incus |
| recipe approvals (`recipes.go`) | a record per recipe digest, in a file | seen, approve, approve by a tag, revoke | image builds, deploys |
| accounts (`tokens.go`, `users.go`, `sessions.go`, `throttle.go`, `oidc.go`) | files that are reloaded when they change | sign in, change, revoke, check | every request, a command on the host |
| agent sign-in (`oauth.go`, `oauth_handlers.go`) | clients and grants in a file; codes in memory | register, consent, exchange, rotate, revoke | every request of an agent |
| event feed (`events.go`, `ws.go`, `ui/static/js/app.js`) | topics waiting per connection; what a page shows | publish, join, leave, read, redial | the UI |
| fleet (`network.go`, `mesh.go`, `pkg/config`) | keys and tunnels on each host, records in a DNS zone | plan and apply the mesh, the zone and the services | several daemons, DNS providers |
| provisioning (`reconciler.go`, `host.go`, `hosts.go`) | none: what the provider lists | make the hosts, point the domain, prepare them | providers, remote hosts |
| configuration, Git source, providers, incus client, S3 client, status, command line | none of their own | functions of their input, and one external call each | all of the above |

How they meet. A request handler takes a ticket from the queue, makes a job
record, and hands both to a goroutine that waits for its turn, works, records
the end and releases the host. An apply keeps the host from before its plan to
the end of its work; a deploy plans in its job. Both record the plan they made
and ask the plan store whether it may run. A deploy may replace the daemon's
binary or its flags first: it installs them, writes what to resume, and stops
the process, which ends through the queue's close and the wait for running
jobs; the service manager starts the new binary, whose guard counts attempts
until it has stayed up, and the new daemon resumes the deploy. Jobs run one at
a time on a host; between hosts nothing is locked, and daemons meet in what they
share: the repository, the DNS zone, the object store, and an instance that is
moved from one to the other.

What is hard here: requests that interleave around one host; two critical
sections with a gap between them (check and consume, finish and release,
abandon and release, create and start, the look at a client and the grant);
stores that are written after they changed, or not at all, and that another
process writes too; a process that stops in the middle on purpose; deadlines
that race what they wait for; daemons that share no lock; a host that is left
part-way and must be understood by the next run from what it finds.

What makes each component correct (section 4 says where the code falls short of
it, and section 5 from what it is proved):

* queue: one change at a time, first come first served, nobody forgotten;
* job store: what a record says is true after any crash, and the record that
  the staleness of plans depends on is never dropped;
* plan store: what runs was approved, once, and is the plan of the host it
  runs on;
* self update and flags: what cannot stay up is swapped back, to something
  that did; what can stay up is kept, and a restart happens at most twice;
* deploys: a deploy that restarts the daemon is resumed once, or not lost
  silently;
* deployer and instances: a failed step is seen by the next run, a failed
  update brings back what ran, and a deploy does what its plan said;
* edge: what is reported as published is served, a suspended tenant stays so,
  and nobody's domain leads to another's instance;
* migration: one copy runs, and the data is never only on a host that failed;
* backups: the archive the manifest names is never pruned, a restore loses
  nothing that was written, and what was stopped for it is started again;
* image retention: nothing that runs, or may have to come back, is deleted;
* recipes, accounts, agent sign-in: what was answered stands, what was revoked
  stays so over failed writes, restarts and other processes, and nobody who is
  entitled is locked out;
* event feed: a page that says it is live shows what there is;
* fleet: when no daemon plans a change, the fleet is what `fleet.yml` says, and
  each record has one writer;
* provisioning: however often it is cut off, one machine per host.

## 2. What is modelled

| File | Role |
|---|---|
| `HostQueue`, `HostLock` | the queue and the job store in detail; the lock they implement |
| `PlanApproval` | the plan store, approvals, applies and deploys |
| `SelfUpdate`, `ServeFlags`, `DeployFollow` | the upgrade's files, the flags' files, the deploys and the process that use them |
| `Trial` | what the upgrade and the flags promise |
| `EdgeSite`, `ServiceDeploy`, `ServicePlan` | a route's file and Caddy; the deploy of a service on the host; its plan |
| `Converge` | what a deploy corrects in place, as functions of what it finds |
| `Instances`, `ImageRetention` | the tenants of a host, their requests and their sites; which images are deleted |
| `Backup`, `Retention` | backups, restores, prunes and the schedule; which archives are deleted |
| `Migration` | moving an instance between hosts |
| `Fleet`, `Mesh`, `Dns`, `Topology` | several daemons over one `fleet.yml`; one host's tunnel; decisions about records; what `fleet.yml` means |
| `Reconcile` | the provisioning of hosts |
| `OAuth`, `Credentials`, `FileStore`, `Recipes`, `EventFeed` | agent sign-in; users and tokens in files that others write; recipe approvals; the feed and its pages |
| `MC*.tla` | instances for TLC: small sets, symmetry, and functions checked over bounded inputs |
| `*Proofs.tla` | theorems and their proofs |
| `*.cfg` | one per run |

A component's operations become actions, one per handler, or per step where
something else may come between: a lock that is given up, a command on the
host, a call to a provider, a write of a file. `pc`, `at`, `job` or `req` says
where each process is. Variables marked "history" in their declarations are not
in the code; they record what was answered or done, for a property to speak of.
Several modules name a wrong variant of a decision ("A slip: ..."): the check of
the project puts it in the place of the right one and sees the property fail.

### HostQueue, HostLock

`HostQueue` is the queue, `launch` and its goroutine, the part of `handleApply`
that holds the host while it plans, the job store, and the process around them
(`Serve`'s stop, its ten seconds for handlers, the drain, the kill, the next
start). Each critical section of `hostQueue.mu` or `Jobs.mu` is one action, and
so is each step a goroutine takes between two of them: `pc[c]` says where the
handler, then the goroutine, of change `c` is. A ticket is the change it was
given to; its channel is `turn[c]`; `granted` is the flag that `launch` reads to
know whether the job was recorded as running. A record is modelled by its
status, in memory (`mem`) and on disk (`disk`), and `born` is the order of
`Created`, which is what `prune` sorts by. A write of a record may fail where
the code ignores the error (`Update`) and where it does not (`CreateQueued`).

`HostLock` is what the queue promises: a lock with a line. One holder; whoever
waits joins at the end; the first in line is the next holder, unless it leaves
or the line is dropped; only the holder works; all of it may be lost at once.
`ImplementsHostLock` says that every behaviour of `HostQueue` is one of
`HostLock`, with the holders read off the tickets.

### PlanApproval

`PlanApproval` is the plan store and everything that uses it. A host is one of a
few values; a tree is the host it would make; a plan's hash is the tree with the
host it was made against, which is what `FleetPlan.Hash` fingerprints. The exit
status is blocked, nothing to do, or changes. A record says whether the plan is
known, its approval, whether that was used, and whether the plan was seen after
the last change of the host. Requests that only plan read the host and record
later, without a ticket. An admin's request looks for staleness and approves in
two steps. An apply takes the host, plans, records, checks, starts its job,
consumes and works; a deploy takes the host, plans in its job and uses the plan
under its tag. The host's lock is what `HostLock` promises, as a variable.
Approvals are numbered, so that "the same approval" can be told from "another
approval of the same plan".

### SelfUpdate, ServeFlags, Trial, DeployFollow

`SelfUpdate` holds the files of an upgrade (the binary, the previous one, the
mark and the count) and the steps that change them: `Install` a file at a time,
the unit's guard, and `Commit`. `ServeFlags` does the same for the daemon's
flags. `DeployFollow` extends both with what runs them: the process (down,
guard, exec, loading the flags, up, stopping), the two waits of 30 seconds, the
resume record, and the requests: a deploy that follows its tag's release and
flags, restarts the daemon for each, and is resumed; and an admin's upgrade.
`at[d]` is where the deploy's job is, whichever of its jobs it is; `from[d]` is
what the present one was resumed from. The host is an exclusive holder, as
`HostLock` promises. The daemon may be killed before and after every write, the
guard between its two steps included; a binary and a flag set that cannot stay
up together (`Sound` says which can) end before their wait is over. A tag names
another commit each time it is resolved, so that a moved tag is covered.

`Trial` is what both packages promise: something stable, and at times something
on trial that is started a bounded number of times and then kept, having been
started, or dropped, after its last start. `BothOnTrial` says that the files of
both implement it.

`Overlaps` says whether requests may arrive while the daemon is not at rest
(something installed or staged and not committed, a restart asked for, a deploy
to be resumed). It is FALSE in `deploy_follow`: the code does not hold requests
back then, and with it TRUE the fall back can be lost (section 4).
`RestartsOnceEach` is proved for both.

### EdgeSite, ServiceDeploy, ServicePlan, Converge

`ServiceDeploy` is `DeployService` for one service: it launches it (path
`fresh`), corrects it in place (`inplace`), or replaces it by the safe update
(`new`), whose way back is by the image that ran (`back`), or by the reference
it was recorded with (`pull`). `pc` is the next command of the run on the host,
and each action is that command with what the code does after it; `Raise` is
what an error returned at `pc` leads to. `inst` is what Incus has: the image
and the reference recorded for it, the environment that is written (the
declared key, and whether another system's key is there, `extra`) and the one
the service started with (`ran`), whether container_init has run (`ready`),
whether the volume is attached, the address, whether it is up. `old` is what
`Update` holds in memory. `data` and `snaps` are the volume: which images have
run on it, now and at each snapshot. `oci` says which of two kinds of image the
service has: OCI images are compared by the recorded reference, carry their
environment in the instance's configuration, and may expire on the host;
others are compared by fingerprint and read a file that the update must write
back. `EdgeSite` is the route's file (`file`), and what Caddy has loaded
(`loaded`), with `replaceSite` in three commands. Two histories: `unloaded` says that the last
replacement ended, or was cut off, with a file that need not have been loaded,
and `found` is the file a deploy finds so when it begins.

Any command may fail, and leaves what that command can leave: a delete an
instance that is stopped, a launch one that was not started, a reload a
site that is loaded or not. The daemon may be killed and the host restarted;
the run is then lost and the host stays as it is. Between runs the repository
changes, another system sets a key, an image expires.

`ServicePlan` adds `PlanService`: the same manifest and host, walked through
without changing anything. A plan is made as each deploy begins, of whatever
earlier deploys left, and `NothingUnannounced` and `OkIsTrue` compare the two.

`Converge` is the rest of what a deploy corrects: labels, limits, snapshot
schedules, the environment file and the OCI environment, forwards and volumes.
Each is a function from what is found and what is declared to the drift, and
another that applies some of its commands; they have no interleaving of their
own, and `MCConverge` checks them on every small input.

Which images are healthy with which environment (`Sound`), which routes Caddy
refuses and which hooks fail are constants. A service without a health check,
the edge's own service, an image whose origin is unknown, and a service that
moves from OCI to other images are left out. A key set while a deploy runs is
left out: between the read of the file and the delete it is lost, which needs no
model.

### Instances, ImageRetention

`Instances` is one host's tenants. A request (PUT, update, suspend, DELETE,
migrate, and a build) looks at the tenant, as its handler does, and waits in
`line`; its job runs command after command (`job.at`) on what they all share:
the instances (`inst`: image, address, whether it was migrated away), the
images of the host, and the edge, whose site files (`site`) are one thing and
what Caddy has loaded (`served`) another. An address that is given up may be
handed to the next instance. Scheduled retention chooses images and deletes
them when the host is free. A failed command leaves what it can leave, the
daemon may die between any two. `ImageRetention` has `ImagesToPrune` as
operators; `MCInstances` compares it with what its comments promise, over every
host of up to four images.

A migration is one step of `Instances`, and what a launch sets up (volumes,
forwards, labels, environment) is one that may fail; `Migration`,
`ServiceDeploy` and `Converge` take those apart.

### Backup, Retention

`Backup` is the manager's `CreateVolume`, `Restore` and `Prune`, the jobs that
call them, and the schedule. A job is a record: what is still to back up
(`todo`), to prune (`prunes`), the volume, key and artifact in hand, what it
stopped, whether its thirty minutes are over. Data is a version number; an
object holds the version its volume had when it was snapshotted, or is short.
Each command to Incus and each request to the object store may work, fail, or
take effect and outlast the job, after which every command of the job fails.
Services write to the volumes while they run, an operator prunes on the host
(`hand`) without a lock, and the daemon may be killed. Of what restores stopped, `down` is what
nobody has tried to start yet, `late` says that a restore's time ran out, and
`cutoff` what was down when the daemon died. `checked`, `pending`,
`sched` and `line` are the schedule's check of every minute, its one pending
job, and the queue as far as it matters to it. `Retention` has `selectPrune`
and `dueBetween` as functions.

### Migration

`Migration` has an instance and its volumes on some hosts, one daemon each. A
daemon's job is a migration to another host, an adoption, or a finalize; its
step is `pc[h]`, and what it knows is `job[h]`. Copies are made one volume at a
time, warm and again with the source stopped, and a copy that fails may leave a
part (`Torn`). The rollback of a migration after its stop is four steps that
may fail in turn. Requests are those a fleet manager may send, in any order and
repeated; `Overlap` says whether two hosts' daemons may be at work at once.

### Fleet, Mesh, Dns, Topology

`Fleet` is several daemons that plan and apply one `fleet.yml`, which people
commit to: a key the plan of a host reported, a host that joins, an endpoint
or a service that moves. An apply is the mesh's commands (`Mesh`), then the
records (`Dns`: check, list again, call after call), then the services; it may be
cut off between any two. `st[h]` is what a probe reads of a host, and, beyond
what it can read, the config the running interface was started with; `unstarted` are
the hosts where an apply wrote the config and was cut off before it restarted
the interface. A host may reboot or be rebuilt, and somebody may edit the zone by
hand. `Dns` holds the
decisions (`PlanDNSSync`, `DNSRecordsByHost`), each loop a recursive function of the turn
it is at, and what the provider does with a call; a fleet of which
`DNSRecordsByHost` answers an error plans and applies no network. `Topology` is
what `fleet.yml` says of hosts, bridges and tunnels and which fleets are refused.

### Reconcile

`Reconcile` is `native-ops reconcile`: one call to the provider at a time it
finds, creates or waits for each host's machine, prepares access, points the
domain at the default host and logs in. A run may be killed or time out, a call
may fail or its answer be lost, machines come up, are lost and turned off and
on. The next run knows only what the provider lists.

### OAuth, Credentials, FileStore, Recipes, EventFeed

`OAuth` is the store of clients, codes and grants, and the token endpoint,
which looks at the client, changes the store and looks at the person in three
steps, so that registrations that make room, other requests with the same code
or token, revocations and restarts come in between. What is random in the code
is only ever compared, so it is a number given out in order. An expiry is a
code or token that may be refused at any use.

`Credentials` is the users and the API tokens. Each of the two files is a
`FileStore`: a copy in memory, the file, whether the copy is of this file, and
who owns it. Requests of admins and directories change a user in one or two
steps, people sign in, and `native-ops user` and `native-ops token` read and
write the files from a process of their own.

`Recipes` is the store of recipe approvals with its limit and its file.

`EventFeed` is the hub's notes for each connection, the reader of the host's
status, the two goroutines of a connection, the wire, and the page at its other
end, which redials, reads again, merges reads, and takes the status from the
note itself. What a page shows is a version. A change is one of a store, which
publishes its topic; one that no store makes, of which nobody hears
(`ChangeUntold`); or a job's end, which makes plans stale: `Finish` publishes the
job's own topics and `launch` says "plans" only after it has released the host
(`JobEnds`, `SayPlans`, and `hub.due` in between).

They share with each other whether a person may sign in and nothing else, and
`OAuth` and `EventFeed` take any answer to that for granted; `MCAccess` checks
one at a time in one run (`part` says which moves), and so does `MCFleet` for
`Migration`, `Fleet` and `Reconcile`.

## 3. What the runs show

| Run | Question | Instance |
|---|---|---|
| `host_queue` | Do releases, abandoned tickets, failed writes, a stop and a crash, in any order, ever give the host to two changes, run work without it, forget a waiter or change the order of the line? | one apply, two changes that queue, two places in line, writes may fail, one stop or crash and the restart |
| `host_queue_live` | Does every recorded job end? Is "never started" true? | the same with fairness; one change comes from a timer, which `Shutdown` does not wait for; no failed writes |
| `host_queue_prune` | Can `prune` drop the job that ended last? | five changes that queue and one that cannot, one place in line, a store of four |
| `plan_approval` | Can one approval let two applies work? | two applies, a planner, two approvals, a host the apply would fail on, failed writes, a crash |
| `plan_approval_mixed` | Does what works have an approval that stands, and is it the plan of the host it works on? | an apply, a deploy, another change, a planner, expiry, revocation, pruning, a crash |
| `deploy_follow` | Is the host always left with a daemon that stays up? Does a failed trial go back to what has served? Is a deploy that restarted its daemon resumed on one that has, at most twice, or ended? | a deploy and an upgrade, each at rest; three releases, one that never stays up and one that does only with the unit's flags; two flag sets; failed installs and records; four kills |
| `service_deploy` | Is the volume in a snapshot before another image runs on it? Is what was rolled back whole? Is what a deploy says it has done on the host, and did its plan announce it, after any half-done deploy? Do deploys that are run again get there? | two images, one healthy with one environment only; four manifests, with a volume or not, a hook that works and one that fails, a route Caddy takes, one it refuses and none; two addresses; two pushes, two faults; and `MCConverge` |
| `instances` | Does a suspended tenant stay so? Can a domain reach another tenant's instance? Can an update always go back? | two tenants, three images of which one is never healthy, two addresses, four requests, a fault, a kill; and retention over every host of up to four images |
| `backup` | Is what a service last wrote there after any restore? Is what the manifest names there? Is what a restore stopped started when it is over? Do schedules pile up? | two volumes, one mounted by a running and a suspended container, one with a backup of the old layout; three requests, one write, one kill; keep the newest two; and `dueBetween` over four days |
| `migration` | Is the data last written on some host? Does the instance run twice? Is the source of a migration that ends started again? | two hosts, two volumes, four requests, two writes, a kill and an instance that stops |
| `access` | Do revoked grants, tokens and approvals stay revoked, do answered changes stand, is no client stranded, does a live page show what there is? | two clients where one fits, two codes, two requests at once, three refresh tokens; two people, a token and a command on the host; a page of the plans or of the status and two changes; three recipes where one record fits; each with a failure and a restart or stop |
| `fleet` | When no daemon plans anything, is the fleet what `fleet.yml` says, and does it get there? Has each record one writer? Does reconcile ever make two machines, or say ok too early? | two hosts, with a mesh or a zone; two faults, two edits, or one of each; four keys; reconcile of four fleets; and `MCTopology`, `PlanDNSSync` and `DNSRecordsByHost` over small inputs |

Every property of a run has a mutant in `PROJECT.json`: a definition put in
another's place, as a plausible slip in that code would have it, with which the
run finds the property violated.

What is checked over every small input, when TLC reads the modules' assumptions
(no behaviour is involved):

* `MCConverge`: labels, limits and snapshot schedules end as declared from
  anything, after any cut, and keys nobody declares stay; secrets are whole; the
  environment file has what is declared, and a second deploy writes nothing but
  for values in quotes; OCI keys whose command failed are written by the next
  deploy; forwards end as declared and others' devices stay; a plan sees the
  clash of a volume with what is attached.
* `MCTopology`: in a fleet that is accepted, each service is planned by one
  daemon, a daemon knows its bridge, and routes and tunnel addresses are apart.
* `MCFleet`: planning after applying changes nothing (`PlanDNSSync`); no record
  is written by two hosts, no CNAME stands beside another host's record.
* `MCInstances`: retention keeps what runs, the newest of an app, `:latest`,
  what a person named, and young orphans; a second round finds nothing.
* `MCBackup`: a backup is due exactly when a daily time fell since the last check.

Why these bounds are enough. Every question about the queue is about a holder,
one ahead, one behind and one that leaves, so three changes and two places show
each order; more of them repeat it. The prune run uses the smallest store for
which `LastEndedKept` holds with one place in line, `2 * MaxQueued + 2`, and one
place fewer breaks it (the real numbers are 200 and 20). One crash is enough
because the restarted daemon begins from records only, and any record a second
crash could leave is one that the first can. For approvals, two applies are
needed to use one approval twice, two approvals to have one renewed, and three
hosts to have a plan that is current, one that is stale and one that is blocked.
A trial ends after three starts that failed, so four kills cut off every start
of a trial and the guard that ends it; an upgrade before or after the deploy
gives the files a past; and the start of the run is any pair that can serve, so
flags are both set and taken back.

For the deploy of a service, two pushes lead from one image to the other and
back, through a replacement that fails; two faults cut off a deploy and the way
back, or the deploy that was to repair it; two addresses make a new instance's
differ from the old one's; and a deploy begins from whatever the earlier ones
left. Two tenants are enough for one to get the other's address, three images
for an update, its way back and one that retention takes. A backup, a restore
and one more request make a restore's artifact older than the data, and the
prune that races it is a fourth process of its own (`hand`). Four requests move
an instance there and back with a finalize or a resume in between; it has two
hosts because the daemons' pairs are what the code speaks of, and section 4 says
what a third one shows. One client fits so that the second evicts the first; two
slots are two requests with one code. Two hosts are what the mesh's waiting for
each other's keys, a record that moves and an apply beside another need; a fault
and an edit come together, since what a cut-off apply left is only wrong when
`fleet.yml` changes.

Deadlock is checked in `service_deploy`, where a deploy can always be run again.
It is not in the others: the requests are finitely many and the daemon may stop
for good. What must still happen is said by `EndsAsTold`, `SettlesInTheEnd`,
`ConvergesInTheEnd`, `FleetDone` and `ReconcileWorks`.

Fairness. In `host_queue_live`: a goroutine or a handler that can take a
step takes it; work ends, because its context ends after `maxApplyDuration` and
a panic is recovered; a client's wait ends, because `handleJob` bounds it; a stop
that began goes on to the exit. No fairness says that a request arrives, that
the daemon is stopped, or that a write succeeds. In `deploy_follow`:
the unit starts the daemon again (`Restart=on-failure`, an exit status of 75
after a restart that was asked for, and a start limit that `RestartSec` keeps
out of reach); a pair that cannot stay up ends; a wait is over after
`CommitAfter` and what follows it runs; a job goes on to its end. Kills are
bounded and never fair. In `service_deploy`: a deploy takes its next step (every
command has a time limit, and the job itself one), and is run again when it has
failed or was cut off, as `docs/daemon.md` tells the operator ("the fix is to
apply again") and CI does on each push. In `fleet`: whoever moves a tag deploys
again while a plan has changes, and keys that are reported are committed, as
the documents tell people to do; faults and edits are bounded. A run of
reconcile goes on to its end, droplets come up, and the operator turns on what
is off and runs reconcile again with the key.

## 4. Where the code and its documents disagree

None of these is a run of the project: the properties of section 3 say in their
definitions what they leave out on this account. Where a definition is kept for
it, it can be checked as said.

Jobs, plans and deploys:

* A stop may cut a running job off. `server.go:656` says "A running apply is not
  cut off", and `docs/daemon.md:220` that a daemon that stops "lets the running
  job finish". `GET /v1/jobs/{id}?wait=` (60 s) and an apply that plans (90 s)
  outlast the ten seconds `Shutdown` has; `Serve` then returns before
  `WaitForJobs` and the process exits. To see it: `HostQueue.cfg` with
  `Changes <- LineChanges`, `DiskFaults = FALSE` and `StopLetsWorkFinish`.
* `apply.go:218` says that the host is released "BEFORE the job is reported
  finished". The code records `Finished` first and then releases
  (`apply.go:238`, for theta42/native-ops#94), and so does `HostQueue`: a client
  that reads "succeeded" may still find the host taken for a moment.
* An approval whose record could not be written (`plans.go:220`) is answered
  with "could not record the approval" (`approvals.go:111`) and is in effect
  until the daemon restarts; a withdrawal likewise. To see it:
  `PlanApprovalMixed.cfg` with one apply, no other job, `DiskFaults = TRUE`,
  two approvals and `WorkWasApproved`. The same holds of recipes: `deploy.go:150`
  says that the build of a recipe a tag could not approve in writing is refused;
  it is approved in memory, and a second deploy of the tag finds it approved
  (`recipes.go:164`) and writes nothing, so a restart loses it.
* A release that cannot stay up is not always swapped back, as `selfupdate.go:13`
  says. `Install` keeps whatever is installed as the previous binary, which is a
  release that never ran when a second deploy gets the host between the first
  one's end and the close of the queue. To see it: `DeployFollow.cfg` with
  `Overlaps = TRUE`, two deploys of `BadCommit`, no upgrade, no kills, and
  `BadBinarySwappedBack`. With overlapping requests `Commit` of either trial
  also settles an install made during its wait.
* A commit that changes the image and adds a volume deploys without the volume
  (`deployer.go:719` takes the branch of the image), while `deployer.go:457` says
  an unattached volume is corrected. `OkIsFiled` leaves it out.
* A release whose `container_init` fails leaves the instance unrouted, while
  `Update` (`instance.go:288`) says it does not leave the instance down: the way
  back runs the hook that failed again (`instance.go:385`).
* A plan does not foresee: two volumes of one manifest at one path, one volume
  at two, or two with a device name; two forwards of a name; OCI environment
  keys that `SetEnvironment` refuses; a site Caddy refuses; and a replacement
  without a route that still repoints an existing site file. `plan.go:96` says
  a manifest that apply would refuse is a blocker.
* A route that a deploy says it has published need not be live. `edge.go:605` says
  "a route that is not live is not "published"", and `Reload` returns the error;
  but where `replaceSite` wrote the file and its reload then failed, or was cut
  off, the next deploy finds the file as it wants it, neither writes nor reloads
  (`edge.go:320`, and `RepointUpstream` likewise), and says ok with Caddy still
  on the old configuration. The same is so of a file Caddy refuses, when the
  deploy is cut off before the old one was put back (`edge.go:363`).
  `ServiceDeploy`'s `Served` excepts a file that was found so, and `OkIsFiled`
  and `RolledBackAsItWas` use it. To see it: `ServiceDeploy.cfg` with
  `file = loaded` for `Served`.
* A value declared in quotes is found different by every deploy, which restarts
  the service each time (`deployer.go:448`, "It is idempotent").
* A forward that was published before the daemon was killed, and then dropped
  from the manifest, stays published (`forwards.go:90`).

Instances, migration and backups:

* A request that waited in line behind a migration starts the migrated copy
  again, though `incus/env.go:26` says nothing here may. To see it:
  `Instances.cfg` with `MovedStaysDown`. With a fault, a domain may lead to
  another tenant's instance: `Destroy` goes on when its route cannot be removed.
* Suspending an instance that has no route publishes one for it (`edge.go:329`);
  a suspension whose reload failed is answered "ok" when it is repeated.
* A migration whose status check after a successful stop fails ends without
  starting the source (`migration.go:247`). A copy that was resumed onto a
  stopped one with later data overwrites it. With `Overlap = TRUE`, `NewestKept`
  and `RunsOnce` are violated: `migrate.go:13` leaves the order to whoever asks.
  With three hosts `RunsOnce` is violated too: the stopped copy a failed
  migration leaves on the second host carries no mark and may be moved on to the
  third, and started there, while the first runs.
* `docs/daemon.md:635` says a restore "always starts the containers again"; when
  its time is over the starts fail, and when the daemon dies after the stops
  nothing starts them, as no record of the restore survives. `StartedAgain`
  leaves both out, by `late` and `cutoff`, and is violated without either. A
  restore also starts containers that were stopped on purpose. A migration whose
  daemon dies leaves its source stopped as well, and `SourceBack` speaks of those
  that end; no document says otherwise.

Accounts:

* `users.json` written by `native-ops user` as root belongs to root, and the
  daemon cannot read it (`docs/daemon.md:791`, "honours user changes
  immediately"). To see it: `Access.cfg` with `HostUser = "root"` and
  `ChangesStand`. With `Overlap = TRUE` a command and a request of the daemon
  may lose each other's change.
* Two admins may demote each other at the same time (`admin.go:145`). To see it:
  `Access.cfg` with `Updates <- TwoSlots`, `Callers <- TwoPeople` and
  `AdminRemains`.
* A refresh token older than the previous one is refused, and its grant is not
  revoked (`oauth.go:30`, `docs/api.md:277`). A revocation after a replay, whose
  save fails, is undone by a restart.
* `events.go:15` says the feed "tells the UI when what it shows has changed", and a
  page listens to one topic (`app.js:548`). It is not told of changes that no
  store makes: an approval that expires (`plans.go:69`, read by
  `approvals.go:25`), a `tokens.json` that a command on the host has written
  (`TokenStore.reload`), and the place in line on a waiting job's own page
  (`apply.go:401`), which moves when another job ends; nor is "plans" published
  for the job that a lost deploy leaves as its record (`pin.go:227`). An open page
  shows the old answer until its topic is published or it is loaded again. A
  job's end is told, but late: `GET /v1/plans` calls a plan stale from `Finish`
  on (`approvals.go:28`), and "plans" is published after the host was released
  (`apply.go:244`). `LiveIsCurrent` excepts the untold changes by `missed` and
  waits for the late ones by `hub.due`. To see it: `Access.cfg` with
  `LiveIsCurrent` without its conjunct about `missed`.
* An answer to a read of the status that was overtaken by a note replaces what
  the page shows (`app.js`, `refresh`). A topic beyond the 64th of one flush is
  dropped (`events.go:100`, against "naming every topic that changed").

Fleet:

* A mesh apply that was cut off after it wrote the config and before the
  restart leaves a tunnel with the old one and an empty next plan, where only a
  key or an endpoint changed (`mesh.go:436`, and `mesh.go:258` for what a plan
  looks at). `AsFleetYmlSays` excepts these hosts by `unstarted`, for what the
  interface runs and nothing else. To see it: `Fleet.cfg` with
  `RunsItsConfig(st[h])` for every host.
* Moving a service back to the default host leaves its record (`dns.go:110`);
  what is written follows a listing after the reviewed one
  (`digitalocean.go:407`); a plan's DNS lines do not say whether a record is
  made or changed.
* A droplet that is active before it has an address leads to another
  (`reconciler.go:547`): `AddressLate = TRUE` violates `OneDroplet`. What the
  bootstrap commands answer is ignored (`reconciler.go:647`).
* A tunnel address follows from a host's place among the names, so a host that
  joins before others renumbers them (`mesh.go`, `MeshPeers`).

What `ConvergesInTheEnd` has to except (`Blocked`) is worth a reader's time: no
number of deploys starts an instance that was created and not started,
restarts a service whose environment was written before its restart failed, or
deploys an image that is healthy only with an environment that is declared with
it, because the health gate of an update comes before the new environment.

## 5. What is proved

TLC checks the instances of section 3; these hold for every value of the
constants. Each module's proof rests on the assumptions the modelling module
names (`QueueAssumption`, `ApprovalAssumption`, ...), which only say what kind
of value a constant is.

`HostQueueProofs`, for every set of changes, every bound and every choice of
faults:

* `TypeCorrect`: `TypeOK` always holds.
* `HostCorrect`: `HostInv` always holds. It is the inductive invariant, in four
  parts. `LineInv`: who is in line has been told nothing, nobody is in it twice,
  and nobody is when the host is free. `TicketInv`: what each ticket was told
  fits where its owner is. `BusyInv`: `busy` and the holders agree. `RecordInv`:
  a running record belongs to who was told to run. `OneHolder` alone is not
  inductive: a release hands the host to the first in line, and only `LineInv`
  and `TicketInv` say that this one does not already have it and will take it.
* `OneHolderAlways`, `RunningHasHostAlways`, `NobodyForgottenEver`: the parts of
  it a reader cares about, and a consequence.
* `HostLockImplemented`: the refinement, `Spec => Lock!LockSpec`, by one lemma
  per kind of step on the same invariant.
* `LastEndedAlwaysKept`, under `RoomEnough`: `keepJobs` is at least
  `2 * MaxQueued + 2`, and `MaxQueued + 1` more for each restart, and records
  reach the disk or nothing is ever read back. With 200 and 20 that is seven
  restarts. What prune counts against the record that ended last is newer by
  `Created`, and `KeepInv` bounds it in three parts. `Late`, the jobs that ended:
  each was ahead of it in line and recorded after it, so of a change that is
  i-th in line no more than `MaxQueued - i` can be, and one more once the holder
  has ended (`AheadInv`, which every step of the line has to keep). `Before`,
  those that never started: each restart leaves at most a line and a holder
  (`LengthInv`, `Room`). And `Now`, those of this daemon, as many again.
  `StepInv` says what the record says at each step of its change, and `RankInv`
  that a new record is the newest. `HeadsInv` follows the last that ended, and
  the one a dead daemon was at work on, which the next will find cut off.
* `NotStartedIsTrue`, while records reach the disk: `NotStartedNeverRan`, the
  safety half of `EndsAsTold`, through any number of crashes; from `StepInv` and
  `BeganInv`, that what was begun is past the steps a record may be "queued" at.
  With a write that fails it is not so in the code: a job whose "running" was not
  saved is taken at the next start for one that never started.

`PlanApprovalProofs`, for every set of trees, hosts, jobs and approvals:

* `ApprovalTypes`: `TypeOK` always holds.
* `HoldCorrect` and `WorksOnPlannedHostAlways`: the inductive invariant
  `HoldInv` says that a job beyond `TakeHost` is the only holder, and that its
  plan is still that of the host.
* `SingleUseAlways`: from `ApprovalInv`: an unused approval, in memory or saved,
  was spent by nobody, and two plans never share an approval. Both stores are
  in it because a crash makes the saved one the current one.
* `WorkAlwaysApproved`, an action property, while writes succeed (`DiskFaults =
  FALSE`): from `StandInv`, that memory holds what was saved, and that an
  approval there which was not used is one that stands. With writes that fail
  it is not so in the code: an approval, or its withdrawal, that could not be
  written is in effect in memory all the same (section 4).

`DeployFollowProofs`, for every set of deploys, upgrades, releases, flag sets
and commits, whatever may stay up, and requests that overlap or not:

* `FollowTypes`: `TypeOK` always holds.
* `RestartsOnceEachAlways`: from `FollowInv`. `MovesInv`: a request that has
  restarted the daemon is past it for good or knows what it was resumed from.
  `RecordInv`: a record is of a deploy not yet resumed, says so if its flags
  were followed, and no deploy is in two. `ProcInv`: which timers and records a
  process can have. The property alone is not inductive: what forbids the
  second restart is `from`, which comes from a record that survived a death of
  the daemon.
* `RestartIsAlwaysSafe`, for requests that come to a daemon at rest
  (`~Overlaps`; section 4 shows what overlapping ones do): from `SafeInv`.
  `OneInv` and `JobInv`: one request is under way at a time, on a daemon that is
  no longer on trial, and finds the files as it left them. `ServingInv` and
  `DiskInv`: what the daemon serves with, and what a guard would go back to, has
  stayed up, unless it is what the files have on trial.
* `BothAlwaysOnTrial`, under the same assumption: the refinement. `TriesInv` says
  that nothing is counted unless a binary is pending, that every start of one
  that is pending was counted before the daemon runs, and that a guard that waits
  was started with; with it each step of `DeployFollow` is one of `Trial` or
  none, for the binary and for the flags.

`ServiceDeployProofs`, for every set of images, environments, routes, hooks and
manifests, and any number of pushes and faults, from the inductive invariant
`DeployInv`:

* `TypeCorrect`: `TypeOK` always holds. It needs `PathInv`, which steps each
  path can be at and what it has read by then, and `LiveInv`, that there is an
  instance at every step that changes one.
* `OtherKeysAreKept`: from `KeysInv`, which says at which steps another system's
  key is on the instance; on the others it is only in what `Update` has read.
* `RollbackIsWhole`: from `BackInv`, which follows the way back field by field,
  and `RouteInv`, that a site written by `repointRoute` has the instance's
  address. The property speaks of the end; each field is put back at another
  step, and the last of them must not have lost an earlier one. That its site is
  served is `ServeInv`'s, as below.
* `SnapshotAlwaysFirst`: from `SnapInv`: while there is no snapshot, nothing has
  run on the volume but the image of the instance it is attached to, and an
  update that is past its snapshot without one found no volume. Which of these
  it is depends on the path the deploy took and on the step it was cut off at.
* `OkIsAlwaysTrue`, and `NothingIsUnannounced`, an action property, with the plan
  of `ServicePlan` beside the deploy. `FoundInv`: what the plan was made of stays
  until the step that changes it. `DoneInv`: what each step behind the deploy has
  done still holds, over the later ones. `PlanInv`: each change announced has its
  reason in the manifest and in what was found, and each reason is announced.
  `ServeInv`: what Caddy has loaded is the site's file, or the one before it during
  a replacement, unless the last replacement did not end as it should
  (`unloaded`); and a deploy that goes well has loaded the file or found it so.

`AccessProofs`, for any people, clients, requests at once, and faults:

* `OAuthIsInductive`: the invariant is `TypesInv`, `GrantHasClient`, `EndsInv`,
  `CodesInv` and `KnownInv`. Each of the properties fails to be inductive for a
  different reason. `EndsInv` says that numbers are given out once and that what
  has ended is below the next, so that a grant made later is not one of them.
  `CodesInv` says that a code of which a grant was made is not there any more,
  nor the next to be given out. `KnownInv` says that somebody knows the current
  token of each grant in memory and of each in the file, for a restart makes the
  one in the file current again.
* `GrantsAlwaysInOrder`, `EndedStaysEndedAlways`, `NeverStranded` follow.
* `AnswersAlwaysStand`, of `Recipes`, for any recipes and any limit: from
  `RecipeInv`, that what was approved last is so in memory and in the file.
* `RevokedAlwaysRefused` and `ChangesAlwaysStand`, of `Credentials`, for any
  people, tokens, writes that fail and restarts, while no command on the host
  runs between the daemon's steps (`~Overlap`), and for the second while it runs
  as the daemon's user: section 4 says what the others do. `TokensInv`: what is
  gone is in no copy and in no file, and a command has read what the file holds.
  `UsersInv`: what memory has of an account and what the file has of it are each
  something that was said of it and not taken back.
* `LiveAlwaysCurrent` and `StopAlwaysEndsAll`, of `EventFeed`, for any pages,
  topics, connections and changes: from `FeedInv`. `Current`: a live page that
  does not show what there is has a note on its way, in the hub, on the wire or
  in the page, or a read under way, or a job has ended that `launch` has yet to
  speak of, or the change is one the page is not told of (`missed`; section 4
  lists them). `Connected`: what a connection holds and has
  sent at each of its steps, and that each page that is subscribed to a closed
  hub is about to be cut. `FeedAssumed` says what kind of values the constants are.

`InstancesProofs`, for any tenants, images and addresses:

* `SuspendedAlwaysStays`: from `SuspInv`: a job that may write another site for
  a tenant found it not suspended, or has lifted the suspension before; and a
  site that is not yet loaded is never a suspended tenant's, but for the 503.
* `RouteAlwaysLeadsHome`: from `HomeInv`, while no command has failed and
  nothing was killed (`Unhurt`, which is part of the property): running instances
  have distinct addresses, and no domain leads to another's. But for the one the
  job is at work on, each site is loaded as it was written, and is none, the
  503, or the address of a healthy instance; `JobHome` says what is so of that
  one at each step, as an update deletes the instance its site leads to.
* `RollbackAlwaysPossible`: from `ImagesInv`: retention deletes only what no
  instance runs, and has nothing in hand while a job has the host.

`BackupProofs`, for any volumes, containers, writes and kills:

* `NewestDataAlwaysKept`: from `Guarded`: the containers that mount a volume are
  stopped before its copy is made and stay so until the import is over, so that
  at the delete the copy holds what was written last.
* `AlwaysStartedAgain`: from `StartInv`, over the steps of the job in which it
  has stopped something: what a restore stopped and nobody has tried to start is
  in the hands of the job, unless the daemon died in it (`cutoff`) or its time ran
  out (`late`), which is where the code does not keep what its document says.
* `ScheduledAlwaysOnce`: from `SlotInv` and `OwnJobInv`: a slot is taken when
  the last job is over, and the job that gives it back is the one in line.
* `LatestAlwaysRestorable`, for any retention: from `LatestInv`. A key that
  somebody has decided to delete has as many newer keys as `retain_daily` keeps,
  and has them for good though two prunes run beside uploads: a newer key that
  goes first was itself decided on, so has as many above it. A listing that is
  old when it is used can therefore not cost a newer backup. What `latest.json`
  names, or is about to, is in the store or has that many newer keys.

`HostsProofs`, of what concerns more hosts than one:

* `NewestAlwaysKept`, `RunsOnceAlways` and `SourceAlwaysBack`, of `Migration`, for
  two hosts that take requests one after the other (`TwoHostsInTurn`), with any
  volumes, writes, failures, kills and requests. `MigrationInv` says of each host
  what its job knows (`JobClaims`), where the instance does not run at that step
  (`RunClaims`), what is still to be made up for (`BackClaims`) and whose volumes
  hold what was written last (`DataClaims`). A volume's data is on the source
  until the target has it all, and the source stays stopped that long; neither
  says so alone. `SourceAlwaysBack` is about migrations that end: a kill leaves
  the source stopped. Section 4 says what requests to both hosts at once, or a third
  host, do to the first two.
* `KeyAlwaysStays`, an action property, for any fleet: from `HostsInv`, the shape
  of what a probe reads: no command of `applyMesh`, failed or not, makes a key
  where there is one.
* `OneWriterAlways`, of `Fleet`, for any hosts, records, edits and failures, from
  `WriterInv`: every call in hand is for a record of its daemon's share of the
  `fleet.yml` it planned with, every such `fleet.yml` has the records the
  repository began with, and the shares of one `fleet.yml` are apart
  (`OneHostEach`). The loops of `PlanDNSSync`, `SyncKey` and `DNSRecordsByHost`
  are recursive functions; `LoopEnds` and `LoopStays` prove by the least
  counterexample that what one turn keeps the loop keeps. It needs
  `FleetAssumption`: finitely many hosts, and the shape of `Starts`.
* `PlannedCalls` and `PlanSuffices`, of `PlanDNSSync` for any zone and any desired
  records: each call is for a desired record, under the id of a record of that
  type and name or as a new one where there is none; and each desired record
  stands already or has a call.
* `QuietAlwaysDone`, of `Fleet`, for any number of hosts, faults and edits in any
  order: `QuietMeansDone`, with the one exception of its definition, an interface
  whose restart was cut off after the config was written (`unstarted`). It has one
  hypothesis, `NewFleets`, for a case of section 4: the service moves away from
  the default host and never back, and `dns_records` leaves its own A record to
  its route; besides, a `fleet.yml` begins with its service on one of its hosts.
  The fleets of `Fleet.cfg` satisfy it. `QuietInv` has two parts. `MeshInv`: an
  interface that runs has the host's key, and the config of its file, unless an
  apply has written another and is about to restart it, or was cut off there
  (`MeshSide`, per host). `DnsInv`: the
  wildcard leads to the default host, the service's records to its host or where
  somebody put them by hand, and each call in hand names a record that still has
  its type and name, whatever others wrote since the listing. An empty plan then
  leaves nothing to differ: of the mesh by `NothingDiffers`, and of the zone by
  `PlanSuffices`, since the host's own record is in its share (`WantsRoute`).
* `OkAlwaysWhole`, of `Reconcile`, whether or not droplets are active before they
  have an address: `OkIsWhole`, the safety half of `ReconcileWorks`. It needs that
  the hosts of `fleet.yml` have names (`HostsAreNamed`) and the default host is one
  of them (`DefaultIsNamed`), as `ValidateHosts` sees to. `WholeInv` says of each
  step of a run what it has behind it: which hosts it logged in to; that what it
  holds of the cloud is still there, for the cloud only grows; and that each of
  "@" and "*" is at the address or has a call left that puts it there.
* `OneDropletAlways`, of `Reconcile`, for any `fleet.yml` whose hosts have names
  and a provider whose active droplets have their address (section 4 says what
  the code does otherwise): from `DropletInv`. A run that is about to create a
  droplet has seen that there is none, and between that and the creation nobody
  else makes one; a droplet that is listed is found by its name in any status,
  and so is the one that a killed run left.

Only model-checked, and why:

* what needs fairness, as liveness is beyond the prover: `EndsAsTold` (its safety
  half is proved), `SettlesInTheEnd`, `ConvergesInTheEnd`, `FleetDone`,
  `ReconcileWorks` (`HostsComeUp`; its other half, `OkIsWhole`, is proved) and what
  else is stated with `~>` or under a fair specification;
* the functions over small inputs of section 3.

## 6. What is left out

Left out everywhere: the text of logs, plans and pages; a loss of power between
a write and its flush (a rename is taken as durable); a host's clock that goes
back; a daemon that an admin stops for good; a development build, which follows
no pin; and what Incus, Caddy, S3, DNS providers and Git servers do beyond
succeeding, failing, or having done it without saying so.

Components that are not modelled, and why:

* `pkg/s3`, `pkg/gitsource`, `pkg/remote`, `pkg/status`, `mcp.go` and the command
  line keep no state: each operation is a call whose effect and failure are
  choices of the models that use it.
* secrets (`secrets.go`): a map in a file that is replaced as a whole under one
  mutex; between a plan and its deploy a secret may change, which the plan does
  not show.
* sessions and the throttle: a signed cookie, and a counter of failed sign-ins.
* previews, resizing, snapshots on request, the merging of a template with a
  request: one command each, or a function without a rule of its own.
* routing, the audit file, the unpacking of an upload, bootstrap scripts and
  `daemon install`: one pass that tests before it acts.
* the edge's own Caddyfile and service; Proxmox and provider plugins.

What would come next: the copy of a volume with writes that go on (`Migration`
with a host that is not stopped in time), and a fleet's edge.
