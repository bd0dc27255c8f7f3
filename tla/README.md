# 0ops backend: TLA+ specifications

This directory holds the formal models of the 0ops backend (`src/internal/server`, `cmd/server`), the TLC
configurations that check them and the TLAPS proofs about them. Paths below are relative to the Go module
(`src/`), except `docs/` and `deploy/`, which are at the root of the repository.

0ops is a platform that deploys a user's repository to a k3s cluster. A REST API writes a Postgres database
and talks to GitHub, Cloudflare and a gitops repository; GitHub Actions (or a local builder) reports the
progress of a deploy through a callback; ArgoCD applies the manifests; a reconciler, one per replica of the
backend and gated by a leader lease, repairs what the synchronous path left behind.

## 1. Inventory

| Component | State | Operations | Hard behaviour | What makes it correct |
|---|---|---|---|---|
| Reconciliation job queue (`db/reconciler.go`, `services/reconciler/runner.go`, `jobs.go`, `incident.go`) | rows of `reconciliation_job` (status, attempts, next_attempt_at), incidents; a listed batch per replica | enqueue, list, claim, handle, complete, reschedule, fail, open incident | several replicas list the same rows; the lease moves during a batch; crash between claim and settle; handler and runner both stamp attempts | one execution at a time, terminal is final, an incident only for a permanent failure, queued jobs settle |
| Leader election (`leader/`, `cmd/server/leader.go`) | a Kubernetes Lease, a flag per replica | acquire, renew, release, the two callbacks, shutdown, restart | the flag lags the lease in both directions; time-outs; the elector returns when the lease is lost | at most one replica may renew; flags overlap only while one of the two leaves |
| Deploy-run state machine (`apps.go` callback handler, `db/apps.go`, `services/reconciler/{deploy_status,argo_sync}.go`, `services/localbuild`) | `deploy_run` rows, `webhook_dedup` | insert, callback, two scanners, cancel | callbacks repeated, lost, reordered; dedupe and update are two statements; scanners work from a stale list | a delivery is applied at most once, scanners never reopen, nothing waits for ever |
| App deletion (`services/deleteapp`, `db/deleteapp.go`, `db/retrydelete.go`) | `app`, `preview`, `domain_binding` rows, the gitops manifest, Argo's resources, jobs | preview, confirm saga R1-R6, compensate, residue handler, operator retry | every step of the saga may fail; two confirms of one preview; jobs are addressed by slug and delete by id; redeploys run meanwhile | a completed job means its app is gone, an app dies by its own job, deletion ends |
| Preview/confirm gate (`db/members.go`, every `services/*/service.go` with a Confirm) | `preview` rows | create, read, consume | the read is not locked; consumption is last | in each flow: what two confirms of one preview may do |
| App creation, redeploy and push webhook (`services/createapp`, `services/redeploy`, `services/githubwebhook`, `db/redeploy.go`) | `app`, `deploy_run`, `webhook_dedup`, DNS, manifest | confirm saga with rollback; in-flight check, insert, dispatch; loop over the live apps of a repository | partial failure; check and insert are separate statements; the delivery is registered before the loop; rollbacks beside other confirms | one run per push and app, overlapping runs only by a race, an answered create stands |
| Audit log and hash chain (`db/audit.go`, `services/audit`, `internal/cli/audit_verify.go`) | `audit_log`, `audit_chain_head` | insert under the head's lock, page the export, verify | commit order against stamp order; rows and heads are read in separate statements | the chain always verifies, an export holds each row once, a verdict is right |
| Audit retention and listing (`services/audit/{partition,query}.go`, `cmd/audit-rollover`) | monthly partitions, `audit_log_history` | create ahead, archive, drop; list page by page | two rollovers at once, one that dies; rows come and go between pages | deletions are kept for ever and the rest for the retention, writes find a partition, a listing is exact |
| Incidents (`services/reconciler/incident.go`, `db/incident.go`) | `incident` | open, close, list | a close reads, then writes without a guard | who closed an incident is not written over, a listing is exact |
| Audit notification dispatcher (`services/audit/notify`) | `webhook_delivery`, `webhook_subscription` | enqueue in the audit transaction, claim for five minutes, deliver, mark, break the circuit, redeliver | an expired claim is delivered twice; updates by id | sends stay within the claims, the circuit is announced once, deliveries settle |
| Usage metering: ledger and roll-up (`services/usage`, `db/usage.go`) | `usage_allocation_interval`, `usage_daily_rollup` | open, touch, close, guess a close, reopen, roll up, expire | the watch is late against the reconciler; a day is rolled up while its intervals change | a known end stays, the ledger catches up with the cluster, no day stays pending |
| Usage query (`usage_handlers.go`, `services/usage/query.go`) | none of its own | totals, then intervals, then detail | midnight, roll-up and retention between the reads | a figure is what the pods had of the day |
| Usage samples (`services/usage/sampler.go`) | `usage_sample` | read metrics, pods and apps; file; expire; mean and peak | apps and pods go between the reads; days with different numbers of samples | what is told is what was measured |
| Source uploads (`uploads.go`, `db/uploads.go`, `services/createapp/ingestion`, `services/reconciler/upload_gc.go`) | `app_source_uploads`, files | check the quota, receive, record, pin, fetch, expire, collect | quota counted before the insert; collection from a list against a pin; files and rows change apart | the overshoot is bounded, a pin in time holds, no tree loses its row |
| GitHub App installation (`services/githubapp`, `db/github_install.go`) | `team.github_install_id`, the status of apps | install link and callback, events, uninstall, pausing | events late, again, out of order; the clearing is two statements | a cleared team is paused, an uninstall that failed half-way is completed |
| Team membership and device login (`db/members.go`, `apps.go`) | `team`, `team_member`, `cli_token`, sessions | bootstrap, device login, personal team, invite, remove | look and write are separate statements; sessions are in memory | members were let in, an owner is removed only by a race |
| Single sign-on and bearer tokens (`auth/sso`, `db/sso.go`, `middleware`) | `idp_config`, `idp_domain`, `idp_identity`, `team_member`, `cli_token`; states and secrets in memory | configure, verify a domain, enforce, log in, issue, revoke, deprovision | a login or a token request under way while its person is deprovisioned | a deprovision covers every token, the locked out stay out |
| Custom-domain verification (`services/domainverify`; a library that nothing calls yet) | `domain_binding`, Cloudflare hostnames | add, verify, extend, watch, release, expire | the poller works from lists while calls change the rows | a verified hostname is released only after its grace |
| Rate limiter (`middleware/ratelimit`, `backendclient`) | buckets in a concurrent map | find, make, rebuild for another plan, take, sweep; retries of the client | several requests make, replace and sweep one key's bucket | a key is admitted its quota |
| External clients (`k3s`, `cloudflare`, `gitops`), CLI, observability | none that others depend on | I/O and formatting | | |

The components meet in these places. The saga of a delete *enqueues* jobs that the queue runs. The handler of such a
job *reads and deletes* the `app` row that creates, redeploys and pushes use. The reconciler's scanners and the
callback handler *write the same* `deploy_run` rows that those requests insert. Every loop of the reconciler *asks* the
leader flag before a tick. Every handler that changes something *appends* to the audit log, and the insert *enqueues*
the deliveries of the notifications; one handler (`delete_app`) goes past the hash chain. A create_app *pins* the
upload it is built from. The clearing of an installation *pauses* the apps of its team. The membership that invitations,
logins and deprovisions write is what the middleware *reads* for every request.

## 2. Modules

| Module | Role |
|---|---|
| `JobLifecycle` | abstract: what a job queue promises its callers (submit, take, release, abandon) |
| `JobQueue`, `JobQueueProofs` | the table, the loops of all replicas, the lease as they see it; implements `JobLifecycle` |
| `LeaderGate` | what loops may rely on of the election: holder and flags, without time; `JobQueue` moves its lease by it |
| `LeaderElection` | the elector with clocks, the flag and the life of a process; implements `LeaderGate` |
| `DeployRun`, `DeployRunProofs` | the writers of `deploy_run` |
| `DeleteApp`, `DeleteAppProofs` | the delete flow, composed with `JobLifecycle` (it uses the actions of that module for its jobs) |
| `DeployIntake`, `DeployIntakeProofs` | how runs come to exist: create_app, redeploy and pushes of the same apps |
| `SourceUpload` | uploads, their pins and their collection |
| `GithubInstall` | the installation a team is bound to |
| `AuditChain` | the hash chain of the audit log: writers, the paged export, `audit verify` |
| `Keyset` | the pages of a listing, used by the next two |
| `AuditRecords` | partitions, rollover and the listing of the audit log |
| `IncidentLog` | incidents, racing closes and their listing |
| `NotifyDispatch` | subscriptions, the outbox, the dispatchers |
| `UsageLedger` | allocation intervals and their daily totals, written |
| `UsageQuery` | the same, read |
| `UsageSamples` | what pods consume |
| `TeamAccess` | bootstrap, device login, invitations, removals |
| `SsoAccess` | single sign-on, personal access tokens, the checks of a bearer token |
| `DomainVerify` | a customer's hostname |
| `RateLimit` | token buckets and a client that backs off |
| `AuditTrail`, `AuditChainProofs` | `AuditChain`, `AuditRecords` and `IncidentLog` side by side |
| `LeaderLoops`, `LeaderLoopsProofs` | `LeaderElection`, and two of the loops behind its flag: `NotifyDispatch` and `UsageLedger` |
| `TeamResources`, `SourceUploadProofs` | what a team has outside the database: `SourceUpload`, `GithubInstall` and `RateLimit` |
| `AccessControl`, `TeamAccessProofs` | `TeamAccess`, `SsoAccess` and `DomainVerify` |
| `UsageAnswers`, `TeamAccessProofs` | what a team may read of its usage: `UsageQuery` and `UsageSamples` |
| `MCJobQueue`, `MCDeployRun`, `MCDeleteApp`, `MCIntake` | instances of one module: symmetry sets |
| `MCProgress`, `MCAuditChain`, `MCUsage`, `MCResources`, `MCAccess` | several modules in one run |

`DeleteApp` takes the queue at the abstract level: because `JobQueue` implements `JobLifecycle` (checked by
`MCJobQueue`, proved by `Refinement`), what `DeleteApp` shows about jobs needs nothing of leases, batches or
attempts. `JobQueue` in turn moves its lease by the actions of `LeaderGate` (held by at most one
replica, with flags that fall late), which `LeaderElection` implements with clocks (proved by `ElectionImplementsGate`). Its
mapping counts a flag as up from the moment the goroutine that raises it exists, so the queue may scan a little earlier
than a replica would, never less. `DeployIntake` takes the rest of a run's life from `DeployRun`
(in flight, ended, reopened by a late callback) and the deletion of an app from `DeleteApp` (the row goes, and its runs
with it).

`AuditTrail`, `LeaderLoops`, `TeamResources`, `AccessControl` and `UsageAnswers` compose components that share no state: a step of the
composition is a step of one of them, in any interleaving, and the theorems are about these compositions. The five
modules of the last row check the same on small instances. There a variable `part`, chosen at the start, says which of
the components moves in a behaviour, so that their state spaces add up instead of multiplying; as no component can see
another, that loses no behaviour a property could tell. Each property is about one of them and every action of each is
taken.

### How the modules correspond to the code

**JobQueue.** One action per SQL statement. `RunJobQueue` is `runJobQueue` up to `ListPendingReconciliationJobs`
(the batch is a set of snapshots: id and attempts); `Claim` is `ClaimReconciliationJob` and the handler
look-up; `Handle` is the end of `HandleResidue` with `MarkReconciliationJobAttempt` (whose error the code
drops); `Complete`, `Reschedule`, `FailPermanently` and `OpenIncident` are the four ways `processJob` ends.
A database call ends in one of three ways (`Answers`): applied and answered, not applied, applied and not
answered. A replica may crash at any step, a handler may panic (`recoverPanic` ends the loop and not the
process), and the lease may move at any step: the batch in progress goes on, as in the code.
Abstracted: the payload and the kind of a job (only whether a handler is registered), the length of a
back-off, the order of a batch (any order), the text of an incident. `runs` counts claims; it is bookkeeping.

**LeaderElection.** `Acquire`, `Renew`, `LoseLease` and `Release` are client-go's elector as `LeaseLeader`
configures it and are marked external; `OnStartedLeading` runs in a goroutine of its own, so the flag may
rise late; `OnStoppedLeading` runs after the release, so it may fall late. `Patience` is the renew deadline
plus one retry. Time is common to all replicas and does not run past an instant at which a replica has
something to do: the model is about the protocol and not about clock skew or a process stopped in the middle.
`Exit` is allowed at any time (crash, or the end of the drain) and loses the memory; `Restart` begins again.

**DeployRun.** `Deliver` is `deployRunCallbackHandler` up to `RegisterWebhookDelivery`, `Apply` is
`ApplyDeployCallback`; the two are separate because they are two statements and another request may run in
between. `ApplyFails` is the failing update: the delivery stays registered. `SendLocal` posts the statuses
in the order of the local dispatcher, each under an id of its own; `SendAction` is the workflow, whose
delivery id is the run. `ListStuck` is the query of a scanner, `PullWorkflow`, `PullArgo` and `Skip` what it does
with one row of the list; `Transition` is the compare-and-swap. `age` tells the three intervals the two
thresholds cut. Signatures, image digests, build minutes, events and trace ids are left out.

**DeleteApp.** `GetPreview`, `LoadApp`, the six steps of the saga, `MarkCompensated` and `EnqueueResidue`, and
`ConsumePreview` follow `Confirm`, `executeReversible` and `compensate` call by call. `LookupApp`, `AwaitPrune`
and `HardDelete` follow `HandleResidue`: it looks the app up *by slug*, waits for Argo, and deletes the row
*by the id in the job*. `PublishManifest` is the workflow that commits the manifest, `ArgoSync` the
ArgoCD controller. The constants `CanCancel`, `HasCloudflare`, `HasGitOps`, `HasArgoCD` say which clients the
service has: all nil checks of the code are guards on them. All apps of the model bear one slug, one
generation after the other: that is where the interesting cases are.

**AuditChain.** One team (chains of different teams share nothing but the id sequence). `StampRow`, `LockChainHead`,
`AllocateId` and `CommitRow` are the parts of `InsertAuditLog` between which another transaction can be seen to act: the
stamp is taken before the transaction, the tip is read under the lock of the head, the id is drawn under it, and the rest is
visible at the commit. `Rollback` is every failure, a lost process included; the id stays drawn. `AppendAuditLog` is the
insert of `delete_app`, which takes an id of the same sequence and leaves the hashes NULL. `ExportAuditLog` and
`ListChainHeads` are the two statements of `Export`; `fetchFullExport` repeats them page by page and keeps the first
manifest. `VerifyChain` is the verifier on rows sorted by id: because ids are unique, "the row before r" is the one with the
greatest smaller id, and no sequence is needed. A hash is what was hashed (SHA-256 is taken as injective); of the
columns of a row only the id and the stamp are kept. Stamps are arbitrary: replicas' clocks may differ. `audit verify` over several
months is this once for each month. Partitions are `AuditRecords`'.

**DeployIntake.** One action per SQL statement and per call. `Confirm` is the head of both confirm endpoints (a consumed
preview answers for itself); `LookupSlug`, `CreateApp`, `Provision`, `Dispatch`, `Rollback` and `Consume` follow `createapp`'s
`Confirm`; `LookupActive`, `CheckInFlight`, `InsertRedeployRun` and `Dispatch` follow `redeploy`; `RegisterDelivery`,
`FindLiveApps` and `NextApp` follow the push handler, which goes on with `CheckInFlight`. A call may fail before or after it
took effect. The row of an app is named after its first run, which is what tells a row from the next one with its slug.
A dispatcher that is not configured (development) is left out.

**SourceUpload.** The three queries of `checkUploadQuota`, the archive, and its row are steps of a handler; the bytes a team
stores are counted one by one (`Bytes`), so that a sum of sizes is the size of a set; `ExtractFails`
and `FormRefused` are what is left on disk when a request is refused. `Dispatch`, `PinUpload`, `ReadRow` and
`OpenArchive` are the four times a create_app touches an upload, in the code's order: the workflow is dispatched before
the pin. A collector works from a list: `DeleteTree`, then `MarkUploadGCd`. Time is cut at the two deadlines.

**GithubInstall.** An installation's life at GitHub is external; `HandleCallback` binds, an event is registered and looked
up in one step (the registration decides nothing else), and the two statements that clear are separate, for a
webhook (`HookPauses`, `HookClears`) and for an uninstall. `older` and `late` remember what a handler had seen.

**NotifyDispatch.** `Enqueue` is the insert in the audit transaction. `ClaimDue` is the claim of `dispatcher.go` with `SKIP LOCKED`,
and each row of the batch goes through `LoadSubscription`, `Deliver` and the outcome's statement. The statements after a
send are best effort. `Overrun` is a lease that runs out under a sender that is alive. `posts`, `heard` and `reclaims`
count; the code does not. Signatures, payloads and addresses are left out.

**UsageLedger.** The cluster is a log of versions for each pod; the watch delivers them one by one, may lose its place,
and a list returns the last. The watch handler, the reconcile pass and the roll-up pass are three goroutines, and each
statement is a step. `knew` and `settled` stand for the comparison of `computed_at` with `created_at` and `closed_at`. Left out:
the reaping of pods without an app, and two leaders at once.

**UsageQuery.** The reader of the same tables: `ListDailyRollups` and `ListIntervals` are its two statements, `ListDetail` a
third. The writers are one step each here, and an end may be learnt a day late; `Tick` keeps the roll-up at most `Backlog`
days behind (a pass runs every hour) and lets a query see one instant. A deleted interval is kept as `expired`, to know
the truth by. `QueryAssumption` says that the retention (390 days) is at least a pod's life and a day, and a day more than
the backlog. The second is a matter of hourly passes; the first is an assumption about the pods, which the code
does not enforce (section 3, *Usage*).

**UsageSamples.** `ListPodUsage`, `ListManagedPods`, `ListAppRefs`, `InsertUsageSamples` and `DeleteUsageSamplesBefore` are the tick of the
sampler, in that order. A bag holds the samples, because two samplers may file the same one. CPU and memory are
treated alike by the code, and the model has one number.

**TeamAccess.** Each look and each write of `BootstrapOwner`, of the device login, of an invitation and of a removal is a step;
a poll, its session and the token it is answered with are one login's. E-mail invitations, scopes and expiry are left
out.

**SsoAccess.** The requests of an owner are a check and a write each; a login is authorized, called back, provisioned and
given a token; a personal access token is a check and an insert; a deprovision is the transaction of `db/sso.go` after the
look-up of its person. `Bearer` tokens are judged by `Held`. Roles, expiry and signatures are left out.

**DomainVerify.** A request adds a hostname with its compensation, `Verify` and `Extend` are calls of the service, the poller
lists and then acts on each row. The store is modelled from its interface, because nothing in the server makes one.
A unit of time is a day.

**Keyset, AuditRecords, IncidentLog.** `Keyset` is the page: what comes below the cursor in the order of (time, id), one row more
than a page. A page is a set, as its order is that of the pairs. `AuditRecords` has writers that are stamped when they begin and land when they end, and rollovers that
create, archive and drop month by month. Its first states are those right after migration 00019, which made the
window. `IncidentLog` opens, closes and lists.

**RateLimit.** `Lookup`, `Rebuild`, `LoadOrStore` and `Take` are the steps of a request on the concurrent map; the sweeper
judges a value (`FindIdle`) and deletes a key (`SweepIdle`). A bucket refills one token in a unit of time. The client's retries are those of
`backendclient.do`. `admitted` holds a token for each request let through, numbered within its instant, and `renewed` counts what
the code gives beyond the quota: a part-used bucket replaced for another plan, or swept while in use, or used after it was
dropped.

## 3. Runs

Twelve runs: nine that hold and three in which a sentence of the repository's documents or comments is broken by what
the code does. Every property has a mutant, a plausible bug of the code under which TLC finds the property broken.

| Run | Instance | Shows |
|---|---|---|
| `MCJobQueue` | 2 jobs, one without a handler; 2 replicas and a lease that moves; limit 3; 2 faults (1,704,005 states) | `ExclusiveExecution`; a job left behind, or failed unreported, took a failure of its own; the queue implements `JobLifecycle` |
| `MCDeployRun` | a local and a workflow run, a fetcher, 1 fault (894,252 states) | a delivery is applied at most once; only a callback reopens a run that ended |
| `MCDeleteApp` | 2 apps under one slug, 1 preview, 2 confirms, 1 operator retry, 2 workers, redeploys, 1 fault (3,624,087 states) | a completed job means the app is gone; an app is deleted by its own job |
| `MCIntake` | 2 slugs, one of a legacy app; 2 previews, 1 push and its redelivery, 2 handlers, 3 runs, 1 fault (1,530,266 states) | one run for a push and an app; two runs of an app in flight only by the race of check and insert; an answered create is not taken back |
| `MCAuditChain` | the three parts below (2,154,415 states) | the chain verifies, exports are exact, verdicts are right; records are kept, writes find a partition, listings are exact, who closed an incident stands |
| `MCUsage` | 2 replicas with clocks and shutdowns; a pod and its ledger; a subscription, one event and its redelivery, 2 senders (354,527 states) | flags overlap only when one leader leaves; known ends stay, the ledger catches up, the books close; sends stay within the claims, one notice of a broken circuit, deliveries settle |
| `MCResources` | uploads, the installation and the limits (383,016 states) | the overshoot of a quota is bounded, a pin in time holds, uploads are collected; cleared teams are paused, uninstalls converge; a key is admitted its quota |
| `MCAccess` | the five parts below (1,454,802 states) | membership, revocation, lock-out, grace of a hostname, answers of the usage query |
| `MCProgress` | one job, 2 replicas that lose the lease, limit 4; one local build, 2 faults; 2 generations of an app, 2 previews, 2 confirms (68,072 states) | queued jobs settle, local builds end, a syncing run is resolved, deleting ends |
| `MCIntakeLive` | as `MCIntake` | an app that was deployed is still `queued` |
| `MCUsageDays` | a pod, three days | a day that changed after it was rolled up does not come back |
| `MCAccessDetail` | as `MCAccess` | detail of an admitted window lacks an interval |

Each union run states the fairness of its parts again, with the part's name as a condition. Its initial state chooses a part,
and for a part that is checked in two instances (a longer one without faults, a shorter one with a fault), which of them: the
larger instances below, which hold both at once, were checked when the models were made and take too long to be repeated.

### Bounds

`MaxFaults` limits crashes, panics, failed calls and lost messages together: 1 or 2, because each hazard of this code needs one
failure and a race, and what a failure leaves behind is met by later steps without faults. `MaxAttempts` stands for the 8 of the
job queue and the 6 of the outbox, `Threshold` 2 for the 20 of the circuit breaker, `BatchSize` 2 for the 50 of a listing: the
code compares with these and with nothing else, so 2 or 3 reach every branch. `MaxTime`, `MaxClock` and `Horizon` end time. Two
replicas, handlers or senders are enough for the races, all of which are between two actors; three were tried where it was
feasible.

| Part | Instance | Larger instances that were checked once |
|---|---|---|
| chain | 2 chained writers, unchained inserts, 3 ids, pages of one row, months of 4, seconds of 2, and stamps 1, 2 and 5 (551,724 states) or 1, 3 and 5 (443,532). Stamps 1 and 2 lie in the fetched window of the first month, 3 in its last second, 5 in the next; three ids make pages, a row before the cursor and a chain of three | stamps 1, 2, 3 and 5 together: 1,585,134 |
| records | 2 writers, 2 rollovers, 1 listing, months 1-4, window, page, retention and lookahead 1: 955,268 | 3 writers: 17,024,534 |
| incidents | 3 incidents, 2 closers, 2 times, 1 fault: 203,891 | 3 times: 912,298 |
| limits | 2 requests, a token and its team, quota 1, 1 retry, 2 plan changes, 3 instants: 70,302 | a fourth instant and a second retry: 211,133; 3 requests, idle time 2, quotas 1 and 2: 4,567,941 |
| ledger | 1 pod, a day, 1 fault: 206,668 | two days: 2.57 million |
| outbox | 1 subscription, 1 event with a redelivery, 2 senders, limit 2, threshold 2; without a fault, and the subscription may be deleted (10,374), or with one, and it is not (112,547) | a fault and the deletion: 307,596 |
| uploads | 2 handlers, 1 deploy, 1 collector, quota 1; 3 uploads without a fault (93,212), 2 with one | 3 uploads with a fault: 258,928; 2 deploys, quota 2, two rows per collection: 16,609,430 |
| installation | an installation and a suspension, its events, an uninstall, 1 fault: 132,513 | 2 installations: 2,848,225 |
| membership | a person who logs in twice, is invited twice and removed; without a fault, with a bootstrap that wants the person's slug (142,898), or with a fault (185,836) | both: 1,231,453 |
| sign-on | one of each request of an owner, a login, a token request, a deprovision, a fault: 365,288 | two logins: 11,570,000 |
| hostname | 1 request, 1 verify, 1 extension, days 0-4, grace 1, 1 fault: 167,150 | 2 extensions: 566,726; 2 requests: 1,400,064 |
| usage | 2 pods of an app, which are alike and permuted, two-second days, horizon 6: 549,713 | horizon 7: 1,819,863 without the symmetry |
| samples | 2 pods of an app, 3 samples, three days: 43,917 | 2 apps: 129,251; 2 samplers: 384,878 |

`CHECK_DEADLOCK FALSE` is said in every configuration because every system here may come to rest: when every job is settled, every
run ended, every request answered or time is up, there is nothing left to do.

### What the documents say and the code does not do

The three violation runs:

| Run | Property | What happens |
|---|---|---|
| `MCIntakeLive` | `DeployedAppsGoLive` | the callback writes `deploy_run` and nothing writes `app.status = 'live'`: an app made by create_app stays `queued`, and a push finds live apps only |
| `MCUsageDays` | `ChangedDaysComeBack` | the query for pending days does not list a day whose interval was reopened, or was closed with an end before that day |
| `MCAccessDetail` | `DetailIsWhole` | the handler admits 395 days, the retention keeps 390 after the end |

Both documents and code lines are quoted in `PROJECT.json`. More of the same, met while modelling; the models contain these
behaviours (except where it says otherwise), and no run is spent on them.

*Deploys and deletes*

* The callback's update does not look at the old status (`db/apps.go:401`): a final state is not immutable.
  `OnlyCallbacksReopen` says that nothing else reopens a run.
* Two confirms of one preview both run the saga of a delete (`deleteapp/service.go:266`); the preview is consumed last.
* `cmd/server` passes a nil fetcher to the deploy-status scanner, so a lost workflow callback is never polled for; a failed
  workflow posts no class, and the callback handler refuses a failure without one (`apps.go:560`).
* A failed dispatch of a redeploy leaves its run `queued`, which no scanner lists, and the app busy (`redeploy/trigger.go:155`).
* A push is registered before its loop, so a failure in the loop loses the rest of it. The comment at
  `createapp/service.go:359` ("idempotent replay safe") does not hold: a second confirm of the same preview may fail and
  roll back; the rollback deletes the row and leaves DNS and manifest. An error of a dispatch that took effect, a quick
  finish of that run and a redeploy let the rollback remove the redeploy's run with the row; `AnswersStand` is about creates.
  The check for a paused app in the push handler is dead code.
* A redeploy looks its app up whatever its status (`redeploy/action.go:247`) and may publish a manifest that a delete removed.
  `compensate` leaves an app in `delete_compensated` with a job that deletes it all the same (`cleanup.go:87`), and the
  handler finds the app by slug (`cleanup.go:59`). No client is wired into the delete service (`delete_handlers.go:31`), so
  what lies outside the database stays. No property promises more than the code can.

*Reconciler*

* A permanent failure is one statement and its incident the next (`runner.go:284`): a crash in between loses the incident. Handler
  and runner each stamp an attempt (`cleanup.go:117`): eight attempts are four to eight executions.
* The leader flag is read once per tick (`runner.go:209`); a lease is released before the flag falls (`lease.go:133`); a panic
  ends the loop of a leader who goes on renewing (`runner.go:171`); `runLeader` is started once and returns when the lease is
  lost (`main.go:177`).
* Two racing closes of an incident both succeed, and the row may end with one's name and the other's note
  (`incident.go:204`, `db/incident.go:224`). The audit row of a close is lost if its insert fails or the request dies. Gauges of
  severities that became empty keep their last value (`runner.go:434`).

*Audit log*

* The verifier formats the end of a month in whole seconds (`audit_verify.go:234`): a row of the last second is never fetched, and an
  untouched chain is reported as broken; so may be a month that is written to meanwhile, as rows and heads are read by separate
  statements (`export.go:124`). `VerdictsAreRight` says that the other verdict is right: what passes is whole and unedited.
* The export is ordered by (created_at, id) and the chain by id: the comment at `audit.go:350` ("without re-sorting") is not what
  the verifier does. Rows of `AppendAuditLog` (`deleteapp.go:316`) have no hash.
* The archive takes every action that starts with `delete_app`, without the hashes (`db/audit.go:599`); the months ahead are
  counted from the current one (`audit_partition.go:51`); history partitions are never dropped; writes fail when the current
  month has no partition. A listing with a window relative to now moves it with every page, so rows at its tail drop out.

*Usage*

* A roll-up of a day is a read and a write, and `computed_at` is the time of the write: an interval closed in between is neither in
  the total nor newer than it (`rollup_service.go:99`). More than 10,000 intervals of a day end the roll-up's tick.
* A guessed end can be after the true one; a pod closed at its deletion time is never corrected to its container's end. The seconds of
  an interval that the retention deleted are lost if a late close makes its day pending again.
* A pod that lives longer than the retention does the same without any fault: when it ends, the days since its start are pending
  again (`db/usage.go:466`), and the intervals of the pods that shared its first days are deleted by then, so the new totals lack
  their seconds. With a day of 2, a retention of 4 and lives up to 7 TLC refutes `AnswersAreExact`. The comment at
  `db/usage.go:513` takes an interval that is open for a year as a pod alive for a year; no line bounds a life.
  The runs and `AnswersExact` are therefore about pods that live at least a day less than the retention.
* One sample of an app that was deleted between the reads fails the whole batch, and the tick then skips the expiry. Metrics are
  matched to pods by uid, which the metrics API may not fill in; this repository does not decide it. `active` is written and
  never read. The limit on intervals refuses even a window whose days are all rolled up.

*Resources*

* The collector deletes what it listed (`upload_gc.go:82`), also what was pinned since: `PinsInTimeHold` is about pins that are
  in time. A pinned upload lives 30 days, the document says `terminal_at + 7 days`; the inert quota counts pinned ones too; the
  limit on pinned ones is looked at when uploading only; `_trash` is never emptied; trees without a row (after a failed
  insert or a refused form) are never collected; a confirm does not check that its upload exists.
* Unsuspending finds no team, as suspending cleared it (`githubapp/service.go:545`); the callback ignores a reinstall; pausing
  overwrites `deleting`; "all atomic via the audit transaction" (`service.go:366`) is two statements. A failure after the
  registration of an event loses it. The tokens of the App are asked for by nobody.
* The outbox may send again what a late sender is still sending, and a dropped delivery may become due again through one.

*Access*

* Two bootstraps with different slugs both succeed (`db/members.go:84`). Two first logins at once: one gets a unique violation. An
  invitation of an owner as a member demotes, also the last owner; a deprovision may take the last owner. Somebody removed from
  the own personal team can never log in again; a first login makes the bootstrap impossible; a token of an abandoned poll
  is nobody's; a used device code whose answer was lost is gone. Sessions, states and client secrets are in process memory.
* A login that was past the provider makes its person a member again after a deprovision (`db/sso.go:343`), and a configuration
  made anew between check and update is enforced without a domain (`auth/sso/handlers.go:176`). `RevocationIsWhole` and
  `LockedOutStayOut` say what still holds. A configuration that issued a token cannot be deleted (a foreign key); a create that is
  refused has overwritten the secret; the policy on tokens is read before the insert; the device login still issues tokens to
  deactivated members; accounts are matched by e-mail only; logging out works with any live token.
* The expiry of hostnames works from a list by id (`domainverify/poller.go:168`): one verified meanwhile loses its binding at
  once, without a grace. `GraceIsGranted` is about those that are released for records that went missing. Rows are never deleted, so a name
  stays taken; a failed activation is never retried; an expired binding keeps its Cloudflare hostname.
* `/v1/me` runs the limiter without the team (`apps.go:1576`), so it takes the plan to be free and a paid token's bucket is made
  anew. A token is taken though the team's bucket then refuses; buckets are per replica.

### Fairness

* Loops tick: the reconciler's `spawn` runs a function on every tick of a timer, so a step of a loop that stays
  possible is taken (`WF` of `Loop`, `ListStuck`, `HandleResidue`, `TakeJob`, `Collect`, of the watcher, the pass and the roll-up
  of `UsageLedger`, of the `Step`s of a sender). Back-offs and claims elapse, days and months pass.
* `AcquireLease` and `Acquire` are weakly fair: client-go retries every two seconds.
* Requests are served once begun (`WF` of `Confirm`, `Apply`, `HookStep`, `UninstallStep`); nobody is obliged to begin one.
* `DeployRun` assumes that Argo and the fetcher, asked over and over, give a decisive answer in the end (`SF` of `PullArgo`
  and `PullWorkflow`); with an application that is `Progressing` for ever the code too leaves the run in `syncing`.
* Nothing is assumed about crashes, losses, panics, restarts of a reconciler, cancellations or operators. `QueuedJobsSettle`
  therefore says "while some replica still campaigns": once every elector has returned no job is run at all. The
  faults are finitely many in every run, so what must happen in the end happens after the last of them.
* `DeployIntake` has a fair specification as well; no run needs it.

## 4. Proofs

All constants are arbitrary: any sets of jobs, replicas, runs, messages, apps, people and requests, any bounds, under
the `ASSUME`s of the modules (which TLC evaluates in the runs). Each module has one inductive invariant, `IInv`, a
conjunction of named parts; TLC checked it before it was proved.

| Module | Theorems | Argument |
|---|---|---|
| `JobQueueProofs` | `TypeCorrect`, `Exclusion`, `OneIncident`, `Finality`, `Freshness`, `HalfTheBudget`, `OvershootBounded`, `LossesAreCharged`, `GateIsEnough`, `Refinement` | The invariant ties each loop to its row: a loop past its claim has a row that is `in_progress` and no other loop has it; a loop about to open an incident has a row that is `failed_permanently` with no incident yet. `ExclusiveExecution` alone is not inductive: it does not say what a loop that is *opening an incident* holds. `Finality` and `Refinement` follow from the invariant step by step, because `Reschedule` and `FailPermanently` update by id and only the invariant says that the row they hit is not terminal. `Freshness` and `HalfTheBudget` share a second invariant: a job that is queued has at most two attempts per claim, and a snapshot is not ahead of the table. `OvershootBounded` is about the runner's decision on an old snapshot: from the cap on, the attempts and what is still *owed* stay within the bound, where a replica owes two for a snapshot that is below the cap, one once its handler has counted, and the execution that ends the job owes one more; a list made from then on owes nothing. TLC finds the bound reached without a fault, with two replicas and a cap of 3. `LossesAreCharged` counts: a loop minds one row at a time, so a step that loses a job loses one, and no step but a failure does. `GateIsEnough` is about lease mode: every step moves the lease as `LeaderGate` does or not at all, and `ElectionImplementsGate` gives the queue that gate |
| `AuditChainProofs` (chain) | `TypeCorrect`, `ChainsVerify`, `ExportsAreExact`, `VerdictsHold` | The writer that holds the lock of a month has read the tip the head still has, and its id is greater than every id of the chain: so the row it commits is the last one and chains to the tip. For the export: what was there at the beginning is either received or behind the cursor, what was received is not; a page is the beginning of what is left because the order of the export is total once ids are unique. For the verdicts: rows that differ have different hashes (SHA-256 is taken as injective), so a missing or edited row shows at the first row above it, which exists because ids are well-founded, and an edit of the last row shows at the head |
| `AuditChainProofs` (retention, incidents, listings) | `DeletionsStayRecorded`, `PartitionsAreFound`, `ClosuresAreFinal`, `ListingsShowAll` | A rollover drops a month only after it archived it and when the month is past the retention, and nobody writes into a month that old: a rollover that died, or another one, has archived at most more. The months from the last complete rollover to its lookahead have their partition, whoever else creates or drops. A close that lost the race finds the incident closed, and its statement writes only what was not set. What a listing has is above its cursor and what it still has to show is below it; rows may come and go on both sides, but a row does not move, because neither its time nor its id is ever written again |
| `LeaderLoopsProofs` | `MutualExclusion`, `Overlap`, `FlagsFallInTime`, `ElectionImplementsGate`, `SendsBounded`, `OneNotice`, `EndsStay` | A replica that renews and is not the holder has not renewed for a whole lease, which its patience excludes; a raised flag belongs to a replica that renews, is stopping, or terminates. The gate is held by the replica in the renewing loop, which by the first fact is the holder of the lease: an expired lease has none, so that winning it is winning a free gate. For the outbox: each delivery has a budget of attempts for its first claim and one for each claim that ran out, and every POST is paid from the budget of the claim its sender holds; the notice is in the transaction of the one update that finds the subscription enabled. For the ledger: an end that was read off the pod is an end of the pod's log, and every statement that may write over an end is guarded by how the end came about |
| `DeployRunProofs` | `AtMostOnce`, `Classification`, `Finished`, `ReopenedByCallbacks`, `ForgottenAreCharged` | A callback being handled, or applied, has its id in the dedupe table, and no two such callbacks share an id. A scanner moves a row from the unfinished status it listed; a delete's guard omits `failed_permanently`, but no run ever has it. A local build has an id for each status, so an id that is recorded is being handled, was written, or its sender was let down by a failure: a repetition that is dropped adds nothing to the forgotten |
| `DeleteAppProofs` | `Completion`, `OwnJob`, `DeletionsAreAttended`, `HandlersAreAlone`, `QueueIsEnough`, `OneIsDone` | The job a handler holds is in progress and names an app that existed when it was enqueued; a handler past the look-up has seen the slug free, or has deleted the row by id. An app is never created under a slug in use, so a slug that is free means that every app that ever existed is gone. While there was no failure, a job in progress has its handler, and a deleting app has a confirm that is about to enqueue or a job. That handlers are alone follows from the lifecycle, which `Refinement` shows the queue to implement. A confirm is told done only if it found its preview open, and that consumes the preview, which nothing opens again |
| `DeployIntakeProofs` | `TypeCorrect`, `PushesRunOnce`, `OverlapsRaced`, `AnswersAreKept`, `StrandedAreCharged` | A run that has ended, or was deleted with its app or by a rollback, never returns to the two statuses the in-flight check looks at, except reopened by a late callback; new runs are drawn from those that never existed. The one handler a registered push has still has to do only apps it has no run of yet. A run is in the hands of at most one handler and a create that was answered is in no one's, so only the rollback of its own handler could take its row. A queued run that has not started is in the hands of its handler until that dispatches or undoes it, so what strands it is the failure of that handler |
| `TeamAccessProofs` (access) | `TypeCorrect`, `LetInOnly`, `OwnersOvertaken`, `RevocationsAreWhole`, `LockedOutStay`, `ReleasesWait` | Nothing takes back a way of coming in, so "was let in" only grows. A personal team is a way in once its row is there, and then no bootstrap can take its slug. Tokens and polls carry teams whose member was let in. A removal that is past its look, and whose target is an owner all the same, was overtaken by an invitation, because the look had seen no owner. For single sign-on: a login or a token request that is past its checks and the deprovision of its person are ordered by the epoch they carry, so a token that works is younger than the last deprovision. For hostnames: a mark is older than the sweep that finds it, and a check that found the records right removes it, so a mark that is a grace old has seen no such check |
| `TeamAccessProofs` (usage answers) | `AnswersExact` | Every total stands: it is what the pods had of the day, expired intervals included, or one of them was learnt to end earlier after the total was made. Two facts carry that through expiry. A day that is pending is younger than what expires, because the interval that makes it pending reaches back no further than a life and a day; and an interval that has expired has its seconds in a total. For the query, which reads totals first and intervals later: what may expire while it is under way is in the totals it has read. So a day with a total is answered by it and another day's intervals are all still there, and the days add up because they cut the window up. For the samples the type of the rows is invariant enough: the days' counts, sums and peaks add up to the window's; rounding a day's mean errs by at most half and the division at the end by less than one |
| `SourceUploadProofs` (uploads) | `TypeCorrect`, `FilesGoFirst`, `PinsHold`, `OvershootBounded` | An upload that has expired, or is gone, is *spent*: it is not pinned in time any more and never will be, because expiry only goes forward and a pin takes a received row that has not expired. What a collector has listed is spent, and so is what turns a workflow away. A collector moves the files before it marks the row. For the quota: what is stored is no more than the quota allowed the last handler that checked and one archive for each of the others that had checked before; a handler that records moves its archive from the second to the first |
| `SourceUploadProofs` (installation) | `ClearingIsPaused` | From the pausing to the clearing of a binding, no statement unpauses one of the apps the handler found, although others create, bind and fail |
| `SourceUploadProofs` (limits) | `QuotaIsKept` | What a key was admitted since any time is *lacking* in its bucket, or was gained since, or is excused. That is inductive, and the quota follows because no bucket lacks more than all it holds. A lookup and a take are two steps, so the request's entry may have been dropped in between; the invariant says that whatever the map does not have is dropped, so a take that does not empty the live bucket is a counted one. What the sweeper found idle is full unless it was used since, so a sweep that is not counted loses nothing |

Besides type correctness, eighteen of these theorems state properties that are not among the runs': `IncidentsAreEarned`,
`TerminalIsFinal`, `ListedRowsStayFresh`, `FailureTakesHalfTheBudget`, `AttemptsOvershootIsBounded` and `RunsUnderTheGate`
of the job queue, `SoleRenewer`, `NoStaleFlagOverTime` and `ImplementsGate` of the election, `FailuresAreClassified`,
`TerminalRunsAreFinished` and `EachForgottenTakesAFault` of `DeployRun`, `DeletingIsAttended`, `OneHandlerPerJob`,
`LivesByTheLifecycle` and `OneDonePerPreview` of `DeleteApp`, `EachStrandedTakesAFault` of `DeployIntake` and
`CollectedMeansGone` of `SourceUpload`. With the proof they need no run. TLC had checked each before, in the instances of
`MCJobQueue`, `MCDeployRun`, `MCDeleteApp`, `MCIntake` and `MCResources` and in the 24,938 states of the election.

Four theorems count what failures may cost: `LossesAreCharged`, `ForgottenAreCharged`, `StrandedAreCharged` and (through
the claims that ran out) `SendsBounded`. The code has no repair for a lost job, a forgotten status or a stranded run; these
theorems say that it needs none as long as nothing fails, and that one failure does the damage of one.

Sums are sizes of sets wherever a theorem is about one (`Bytes`, `AdmittedIn`): what the library proves of cardinalities
then does for the sum, and no induction over data is needed. Where a set must have a least element (`LeastOf`, the
missing row of a chain) the well-foundedness of the naturals is used directly. `AnswersExact` is about sums that are no
sizes: they are the `SumFunction` of the community modules, a fold. Its lemmas (`SumWith`, `SumOfDays`, sums of equal,
ordered, grouped and split functions) need induction over a finite set; the library's induction theorem takes an
operator, so they go by `SubsetInduction`: the set of the subsets a sum is right for contains the empty one and, with
each, the one with an element more.

Only model-checked: all liveness, which is out of the prover's reach together with `ENABLED`, and the three violations.
Every invariant and every action property of a passing run is a theorem.

## 5. Plan and limits

The modules of the plan are written, and every safety property of a passing run is a theorem. What would come next, in
this order: revisions in `DeployRun`, so that the health Argo reports for an old revision can be told from that of the
new one; two leaders at once and orphan pods in `UsageLedger`; several categories of requests in `RateLimit`; and the
writers of `UsageQuery` as an abstraction of `UsageLedger`.

Not modelled, and why:

* The HTTP clients of Kubernetes, Cloudflare, GitHub and the registry, the gitops writer and the builder: pure I/O. The models take
  each call as one that may be applied and answered, applied and not answered, or refused. `services/gitops` is not wired into the
  server, and `Limiter.InvalidateKey` and the App's token provider have no caller.
* Observability, the error model and the transfer types: they keep no state on which another part depends. The scanner of audit
  partitions only sets a gauge.
* Most of the command line: it formats answers. Its verifier, its paging, its login and its retries are modelled. `auth.json` is
  read, changed and written without a lock by every process; nothing on the server depends on it.
* Within modelled parts: payloads, signatures, digests, build minutes, names, the content of archives, e-mail invitations,
  scopes and expiry of tokens, the mapping of groups to roles, `auth/device_flow.go` and `auth/device_handlers.go` (placeholders), and
  the deprecated device callback.
