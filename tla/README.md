# Kadran: a TLA+ verification project

Kadran is a self-hosted platform: a CLI talks through ssh to `kadrand`, an
unprivileged daemon that keeps its state in SQLite, has containers run by the
privileged `kadran-exec`, and routes traffic through Caddy. These modules
specify how `kadrand` defines apps and moves traffic between their releases, how
it watches them and itself, how the executor carries requests out and records
them, how the database survives migrations and restores, and how a client and
the desktop application's sidecar reach the daemon. TLC checks them on
small instances, and TLAPS proves what matters most for every value of the
constants. PROJECT.json maps every definition to the lines it stands for.

## 1. Inventory

| Component | State | Operations | Properties that make it correct |
|---|---|---|---|
| Release store (`internal/store`) | apps, release counter, release status, deployment history | create and delete an app, start and seal a release, set and clear the live release | one live release of an app; only built releases live; rollback target by activation order; history append-only |
| App definitions (`store/appupdate.go`, `api/appvalidate.go`, `exec/validate.go`) | the apps table | create, merge an update, delete; two validators | what is stored can be deployed; no update is lost |
| Rollout (`internal/deploy/rollout.go`) | local variables of each call | Run, Rollback, Heal, gate, switch, drain | no traffic before the gate; no stop before traffic moved |
| Reconciler (`internal/deploy/reconcile.go`) | one mutex | Reconcile, Repair | the newest plan wins; skipped apps keep their route in a repair |
| Proxy driver (`internal/proxydrv`) | the configuration in Caddy | Load with read-back, MissingHosts, LiveUpstreams | what was loaded is what is live |
| API handlers (`internal/api`) | none | Deploy, Rollback, PruneApp, DeleteApp, CreateApp, UpdateApp, VerifyAuditChain, one goroutine per call | what a call reports is what happened; prune and delete touch nothing that serves |
| Health supervisor (`internal/health`) | failures, heals and back-off of each app, in memory | cycle, visit, heal | heals what is live only; back-off grows and resets; lasting trouble raises an alarm |
| Proxy watcher, disk watcher, backup scheduler (`cmd/kadrand`) | consecutive failures | tick | lost routes come back; alarms open and close |
| Alarms (`internal/alarm`, `internal/store/alarms.go`) | active alarms | raise, clear, escalate | one notification per edge, and the last one is true |
| Executor (`internal/exec`, `internal/dockerdrv`) | containers in Docker, volume directories | network, create, start, stop, remove, build, list | a slow call touches nothing newer than its listing; answers are honest |
| Executor journal (`internal/exec/journal.go`) | a hash-chained file, its head in memory | append, verify, read a page | nothing acknowledged is lost; the file stays verifiable |
| Audit chain (`internal/audit`) | chain head | seal, append, verify | no gap, no change goes unnoticed |
| Liveness (`internal/liveness`, `cmd/kadrand/watchdog.go`) | stamps of the loops | mark, evaluate, ping | a hung loop stops the heartbeat, a slow one does not |
| Backup and restore (`internal/store`) | the database file, its log, copies | snapshot, copy before migration, restore, prune | one whole database after any crash; the old state in a copy |
| Connection bridge (`cmd/kadran-connect`, `internal/client`, `api/credentials.go`) | one connection: an ssh process, its pipes, the socket | dial, preface, handshake, pump in both directions, close | one preface first; no answer lost; failures told; every process collected |
| Sidecar (`cmd/kadran/sidecar.go`) | connections per target, running requests | read a line, call, disconnect, close all | one answer per request; one connection per target; none left behind |
| API server, authorisation, CLI, bootstrap, domain check, desktop, build files | little or none | single requests | see section 8 |

How they interact: an API handler calls the store, the executor client and the
rollout; the rollout calls the executor, then the store, then the reconciler;
the reconciler reads the store and the host and replaces the proxy's whole
configuration. The supervisor and the proxy watcher do the same on timers, in
goroutines of their own, and raise alarms in the store. Each loop stamps a beat
that the watchdog reads before it pings systemd. The executor journals every
request before it answers; `kadrand` reads that journal page by page. The store
has one connection, so a transaction is atomic, and a snapshot holds it. The
locks are `Reconciler.mu`, held from reading the store to the end of the load,
`Journal.mu`, held across a write and its sync, and the sidecar's `s.mu`, held
over a dial and the check of the protocol; nothing serialises two calls about
one app. A client reaches the daemon through ssh and `kadran-connect`, or on the
server through the socket; the desktop application writes its requests to the
sidecar, a line each, and gets them answered in any order.

Hard behaviour: interleaved handlers; a crash or a failed load between the
store and the proxy; a proxy that restarts without routes; containers that die
(their restart policy is "no"); reads that are stale when they are used; one
step of several failing; torn journal lines, failing syncs and power losses; a
notification cut off from its row; a database replaced under its own log; a
connection that dies, or is closed by another request, while it is used.

## 2. Modules

### Store and rollout

**ReleaseStore** is the record of releases, and the abstract specification of
what the daemon promises about it: `StoreSpec`. One action per transaction:

| Code | Specification |
|---|---|
| `apps`, `apps.release_seq`, `releases.status`, `deployments` | `apps`, `seq`, `status`, `history` |
| `ActiveDeployment`, `PreviousActiveRelease` | `ActiveOf`, `PreviousOf` |
| `CreateApp`, `StartRelease`, `FinishRelease`/`FailRelease` | `CreateApp`, `StartRelease`, `SealRelease` |
| `SetActiveRelease`, `ClearActiveRelease`, `DeleteApp` | the same names |

The table's constraints are guards: the insert trigger of migration 0005 is
`CanActivate`, the partial unique index and the append-only trigger are what
`OneActive` and `HistoryAppendOnly` say of every behaviour. No handler calls
`ClearActiveRelease`; it is an action of the store and not of `Rollout`.

**Rollout** EXTENDS ReleaseStore and adds everything that moves traffic. A
goroutine is a process `p`; what its handler holds between two calls (the
release, the replica count it read, the stale list, the keep set, the planned
configuration) is `job[p]`, and `job[p].at` is the call it makes next. `host` is
what the executor lists, `route` what Caddy returns, `lock` the mutex. An
action is one call:

| Code | Actions |
|---|---|
| `Deploy` to the build, `sealBuilt`, `sealFailed` | `BeginDeploy`, `BuildDone`, `BuildFailed` |
| `Rollback`, `PruneApp`, `DeleteApp`, `UpdateApp` (replica count) | `BeginRollback`, `BeginPrune`, `BeginDelete`, `BeginUpdate` |
| `Run`, `ensureReplicas` | `Inventory`, `Create`, `Start`, `Shrink` |
| `awaitReady` | `Measure`, `MeasureBad`, `GateExpires` |
| `switchTraffic` | `Activate`, `Plan`, `Load` |
| `drainStale` | `DrainList`, `DrainStop`, `DrainStopFails`, `DrainBroken` |
| `keepSet`, `staleReleases`, `removeReleases`, `removeContainers` | `KeepPrevious`, `Leftovers`, `StopLeftover`, `RemoveLeftover`, `Forget` |
| `Supervisor.visit`, `heal` | `Visit`, `Guard`, then the actions of the rollout |
| `proxyWatcher.tick` | `Repair`, `Load` |
| `reconcileAtStartup` | `Plan`, `Load`, `PlanFails`, `LoadFails` of process "main" |
| failures | `CallFails`, `PlanFails`, `LoadFails`, `ContainerDies`, `ProxyRestarts`, `DaemonRestarts` |

A container is absent, stopped, starting (it runs but does not answer its
probe) or up. `Broken` is the set of releases that never come up. `unsettled[a]`
is a history variable: it becomes true when the store changes what the routes
of `a` should be, and false when routes are loaded that agree with the store.

**Rollout_proofs** holds the theorems of both; **MCReleaseStore** and
**MCRollout** give TLC its symmetry sets and the values of `Broken`.

Abstractions. The queries of one handler that only this handler depends on are
one step (Deploy's `GetApp` and `StartRelease`; Rollback's queries); those whose
interleaving matters are apart (the two queries of `keepSet`, the guard of
`heal`). `drainStale`, prune and delete work through their list in a fixed
order, the model in any. Here every app has a domain and a health path, and an
address is the replica that has it. Waiting is left out: an interval or a drain
window may be of any length. A visit of the supervisor may find any live release
not ready, because a probe can time out. The failure of an audit record after a
finished call is left out.

### Definitions

**Definition** is what an app is defined to be, and how that reaches the proxy:
domain, replicas, environment and mounts, with the validation `kadrand` makes
(`Accepts`) and the one the executor makes for each replica (`ExecAccepts`).

| Code | Specification |
|---|---|
| the row of `apps`; the live release's running replicas; Caddy's routes by host | `defs`; `live`, `up`; `conf` |
| `App`, `AppUpdate` | `AppDefinition`, `AppUpdate`, over the keys and mounts of `Key` and `Volume` |
| `validateAppSpec`, `validateVolumes`, the executor's environment and mount checks | `Accepts`, `EnvFits`, `VolumesFit`; `ExecAccepts`, `ExecEnvFits`, `ExecVolumesFit` |
| `UpdateApp`: read, merge, validate | `BeginUpdate`, with `Apply`, `MergeEnv`, `MergeVolumes`, `Contradicts` |
| the store's update, which merges again, and the reconciliation after it | `Write`, then `Plan`, `Load`; `WriteUnrecorded` when the audit record fails |
| `Reconciler.plan`, `build`; `Repair` with `MissingHosts` | `Routes`, `Skipped`; `Missing`, `Tick`, `PlanRepair`, `Repaired` |
| deployment, heal, deletion | `BeginDeploy`, `Activate`; `BeginHeal`, `Heal`; `Delete` |
| failures | `PlanBlind`, `LoadFails`, `ReplicaDies`, `ProxyRestarts`, `Restart` |

Mount paths are sequences of segments, so that nesting is what it is in the
code; sizes are small numbers that reach both limits. A deployment is two steps
here, since `Rollout` has the rest.

### Watching

**Watch** is the supervisor with its counters and back-off, the three watchers
and the alarm table.

| Code | Specification |
|---|---|
| `Supervisor.state`, `proxyWatcher.failures`, the alarms table, the journal's last notification | `state`, `fails`, `alarms`, `told` |
| the supervisor's sleep; `Cycle`, `visit` | `TimePasses`; `BeginCycle`, `SkipCycle`, `VisitHealthy`, `VisitUnhealthy`, `VisitFails`, `EndCycle` |
| `heal` with its two reads of the store | `Guard`, `GuardFails`, `ReleaseFails`, `HealSucceeds`, `HealFails` |
| `backoff` | `Backoff` |
| `Manager.Raise`, `Clear`, with the notification after the transaction | `Raise`, `Clear`, `Notify` |
| `proxyWatcher.tick`, `checkDisk`, `takeBackup` | `ProxyTick`, `CheckDisk`, `TakeBackup` |
| what is watched changes; kadrand restarts | `Break`, `Deploy`, `ProxyChanges`, `DiskChanges`, `BackupsChange`; `Restart` |

Two variables are history. `tries` says for each app how often its release was healed
since it was last found healthy, which is what `state` counts too, except that
`state` may be forgotten (`forgotten`) while `tries` is not; `gap` is the time since
the last heal.

**Watchdog** is time: loops stamp a beat, `LoopMaxAge` is the threshold, the
watchdog's goroutine probes the database (`BeginCheck`, `Ping`, `NoPing`,
`PingFails`), and systemd ends a `kadrand` that was silent for `WatchdogSec`
(`Kill`). Time passes by `Tick`, which goes on only when nothing is due.

### Executor

**Executor** is `kadran-exec`: requests in goroutines, Docker calls, the journal
file as the kernel has it and as the disk has it, and `kadrand` verifying it
page by page. **AuditLog** is what an audit chain promises, without files,
locks or crashes; `Executor!AuditLogSpec` instantiates it with the part of the
file that is on disk and verifies (`Proper`).

| Code | Specification |
|---|---|
| journal file, its synced part, `Journal.head`, `.seq`, `.mu` | `file`, `durable`, `head`, `seq`, `mu` |
| `Journal.Append`: write, sync, then memory | `AppendWrite`, `AppendSync`; `WriteFails`, `SyncFails` |
| `OpenJournal` with its verification | `Restart` |
| `record` around every handler; refusals | `Record`, `Answered`; `Deny` |
| container operations: list, then each id | `List`, `Each`, `EachDone`; `MakeDir`, `ChownDir`, `Create` |
| network, host probe, build stream | `NetworkEnsure`, `Probe`, `BuildFrame`, `BuildEnds`, `BuildUnsent` |
| `sync.Once` of the version negotiation | `Negotiate`, `Unreachable` |
| `VerifyAuditChain` | `BeginAudit`, `AuditPage` |
| failures | `CallFails`, `Kill`, `PowerLoss`, `DockerStops`, `DockerStarts` |

A hash is the record it was computed from. A torn line stands for every line
that does not decode. The containers are the replicas of one release, and a
container created again under a name gets a new id.

### Backup

**Backup** is the database file with its write-ahead log and the copies by name:
`Snapshot` (`FindSnapshot`, `BeginSnapshot`, `WriteSnapshot`, `EndSnapshot`,
`SnapshotFails`; a file that has the name of the second is answered with as it is), the start with its copy before migrations (`Start`,
`CopyDone`, `CopyFails`, `Migrate`, `MigrationFails`), the restore command
(`BeginRestore`, `FindSafety`, `WriteSafety`, `EndSafety`, `RemoveSidecars`,
`Place`), pruning (`Pruned`), crashes and power losses. What a database holds is
the number of its writes and its schema. SQLite is external: commits go to the
log, closing folds it in, `VACUUM INTO` is incomplete until it is done.

### Connections

**Bridge** is one connection of a client, with everything between gRPC's two
ends. **Sidecar** is the process behind the desktop application: a goroutine per
request `r`, which has come as far as `at[r]`; `conns` is the connection kept for
each target, `conn` the state of each connection, `mu` who holds `s.mu`.
**RpcService** is what a sidecar promises: each request it
takes is handled once and answered once, in any order, a notification not at
all, and it does not stop before it has handled all it took. `Sidecar!ServiceSpec` instantiates it.

| Code | Specification |
|---|---|
| `dialSSH`, `dialLocal`, `pipeConn` with `wait` | `DialSSH`, `DialLocal`, `DialFails`, `Write`, `Read`, `ReadEnd`, `Close`, `Closed`, `Kill` |
| ssh and sshd (external) | `SshConnects`, `SshRefused`, `SshEnds`, `SshCut` |
| `kadran-connect`: `run`, `pump` | `Connect`, `WritePreface`, `CopyUp`, `CopyUpEnds`, `CopyDown`, `PumpEnds` |
| `callerCreds.handshake`; gRPC's server; kadrand hangs or ends | `Accept`, `Handshake`, `HandshakeFails`, `PrefaceRefused`, `DeadlinePasses`; `Serve`, `Answer`, `SessionEnds`; `Hang`, `Die` |
| sidecar `serve`, `handleLine`, `reply` | `Scan`, `EndOfInput`, `AnswerLocally`, `Reply`, `CloseAll` |
| `connFor`, `closeTarget`, `disconnect` | `Reuse`, `CannotDial`, `Dial`, `CheckPasses`, `CheckFails`, `CloseTarget`, `Disconnect` |
| `withConn`, `shouldDropConnection` | `Call`, `CannotConnect`, `CallCancelled`, `Return`, `Drop` |

What is on its way is a sequence of "preface" and "request", or a number of
answers. A stubborn ssh is one whose child holds its stderr, the case that
`sshExitGrace` is for; its stdout ends with it. (A child that held the stdout too
would keep the end from the reader without limit.) That gRPC gives up an
attempt to connect is `Close`, at any time. A transport that breaks does so
between any two steps of a request, and gRPC is taken to notice.

## 3. Runs

| Run | Instance | What it shows |
|---|---|---|
| `release_store` | 2 apps, 3 releases, 4 history rows | `OneActive`, `RollbackReturns` over every order of transactions |
| `rollout_serial` | 1 app, 1 caller, supervisor and watcher, 2 replicas, 2 releases, 3 history rows, 1 fault | `NoOrphans`, `SettledRoutes`, `SuccessMeansLive`, `NeverDark`, `DrainSparesTraffic`, `PruneKeepsRollback`; `StoreSpec` holds of the whole system |
| `rollout_two_apps` | 2 apps, 2 releases of which the second never answers, a gate of 2 measurements, 2 faults, 3 tries at start-up, fair | `BrokenNeverServes`, `RepairKeepsRoutes`, `RestartSettles` |
| `definition` | 2 apps, 2 hosts, 2 callers, 2 replicas, limits of 2 entries, 8 bytes and 2 mounts, 4 requests, 1 fault, fair | `StoredIsDeployable`, `UpdatesMerge`, `RoutesSettled`, `LostHostsReturn` |
| `watch` | 1 app, 2 releases, heal after 2 failures, alarm after 2 heals, back-off 3 up to 5, 2 changes, 1 fault, 2 restarts, fair | `ToldIsTrue`, `HealsBackOff`, `TroubleIsRaised`, `AlarmsClose` |
| `watchdog` | 3 loops with intervals 1, 2 and off, a threshold of at least 4, passes of up to 3, `WatchdogSec` 6, 1 hang, 2 faults, fair | `SlowIsNotStuck`, `KillIsEarned`, `StuckIsReplaced` |
| `executor` | 2 callers, 2 replicas, pages of 1 record, 3 requests, 1 fault, 1 torn write or failed sync | `AnswersAreHonest`, `StaleSelectionHarmless`, `VerdictCovers`, `VolumeBeforeContainer`; `AuditLogSpec` holds of the journal |
| `backup` | 2 callers, 1 copy of each kind kept, 3 schemas, 3 seconds, 1 write, 1 failure, 1 crash, 2 restores, 2 installations | `DatabaseWhole`, `OldStateIsKept`, `AnsweredBackupsStay` |
| `sidecar` | two calls to one target, one a notification, a disconnect and a malformed line, fair | `OneConnectionPerTarget`, `EndsWithItsParent`; `ServiceSpec` holds of the sidecar |
| `bridge` | over ssh or on the server, 2 requests, 2 answers, fair | `PrefaceFirst`, `EndIsTrue`, `CloseCollects` |
| `drain_race`, `journal_poisoned` | smallest instances that show it | see section 4 |

The runs check the type invariants of `Rollout`, `Executor` and `Bridge` as well;
all type invariants are proved (section 6).

Bounds. Counters that grow for ever are capped: `MaxRelease`, `MaxHistory`,
`MaxRequests`, `MaxWrites`, `MaxSeconds`, `MaxHeals`. In `release_store` three
releases and four rows are the least with which activation order and release
order differ. Two replicas tell "all" from "some" and make a scale that shrinks;
the caller, the supervisor and the watcher are
three goroutines that race; one fault stops a switch half-way, two let a
crash be followed by a failing load. A switch begins only while the history has
room (`HistoryHasRoom`), so the bound never stops a handler half-way. In
`definition` four requests are a creation, a deployment and two updates that
race. In `executor` three requests put a record before and after the one that
fails. In `watch` a back-off of 3 and a cap of 5 let the doubling and the cap be
told apart, and two restarts put one between an alarm's opening and its end. In
`watchdog` the longest pass is longer than the short interval and within the
long one's threshold, the edge the assumption allows. In `backup` three seconds
put two copies in one second and one in the next, and three schemas put a
migration behind a migration. In `sidecar` one call makes a
connection, a disconnect closes it, and another call is there to be hurt. In
`bridge` two answers are the least of which one can be lost. Deadlock is
checked in every passing run but `definition`, `executor` and `backup`, where the
requests or faults of the instance are used up and nothing is left to happen.

Fairness. In `Rollout` only the calls of `reconcileAtStartup` are fair:
straight-line code that runs before the server and the loops are started, so no
one else holds the mutex. `RestartSettles` needs `MaxFaults < StartupTries`:
three failing tries leave the routes as they were, and `kadrand` then serves and
raises an alarm. In `Definition` goroutines run on, the watcher's timer fires,
and the mutex starves nobody (Go's mutex hands over after a millisecond of
waiting); callers and faults are not fair. In `Watch` each loop is fair as a
whole: its sleep and every call it makes have a deadline. In `Watchdog` time
passes and what is due happens; a loop that hangs is exactly the one whose
`EndPass` is not enabled any more. Nothing is assumed of the environment, except
in the premises of `TroubleIsRaised` and `AlarmsClose` (trouble that stays,
trouble that stays over). In `Sidecar` its own goroutines run on, `s.mu` starves
nobody, and a call ends since each has a deadline. The parent is assumed to read the
answers, or to have closed the pipe they go through, since a reply that cannot be
written holds up the end; that it closes the requests' pipe is the premise of
`EndsWithItsParent`. In `Bridge`
kadran-connect and both its directions run on, a kadrand that does not hang
reads what comes, and a wait for ssh is bounded by `sshExitGrace`; nothing is
assumed of the client, of ssh or of a kadrand that hangs.

## 4. What the runs found

1. `drain_race`: two deployments of one app at the same time. After both have
   switched, the first drains every release but its own, the live one included
   (`rollout.go:543`). The supervisor starts it again later.
2. `journal_poisoned`: a write that left a part of a line is neither truncated
   nor remembered. The next record is glued to that part, synced and
   acknowledged; no reader finds it, and the executor refuses to start
   (`journal.go:192`).

Behaviours the models contain and no run refutes a statement with; most are
listed as hazards:

- When the deployed app itself could not be routed (listing its containers
  failed), `Deploy` and `Rollback` take the `SkippedError` for one about other
  apps and answer with success, while the proxy has no route for the app
  (`deploy.go:138`, whose comment speaks of other apps). `SuccessMeansLive`
  is checked of behaviours without a fault.
- Before a heal the supervisor reads the live release again, and takes a read that
  fails for a release that changed (`supervisor.go:357`; the line it logs says so).
  The heals and the back-off of a release that did not change are forgotten, so the
  next back-off is the shortest again, and the alarm comes later.
  `HealsBackOff` asks for the back-off only where nothing was forgotten, and for
  `FailuresBeforeHeal` intervals between two heals always.
- A second snapshot of one second answers with the file that is there
  (`snapshot.go:103`). The comment before it takes that file for the consistent image
  of this second, but another call may still be writing it, or have failed
  or been killed while it did. Pruning counts such a file among the newest.
  `AnsweredBackupsStay` says that these are the only copies that are not whole.
- A call that failed with `Unavailable` closes the connection its target has by
  then, which another call may have made since (`sidecar.go:293`; line 314 takes
  it for dead).
- A signalled sidecar looks at its context only after the next line, so its ssh
  connections stay open until the parent writes or closes the pipe
  (`sidecar.go:139`, where `cmd/kadran/main.go:83` speaks of both signals).
- The time limit of `kadran-connect` covers the connect, which the kernel grants
  for a `kadrand` that hangs; the process then stays for each connection, after
  its client is gone (`kadran-connect/main.go:194`). `CloseCollects` leaves a
  `kadrand` that hangs out.
- A deployment whose only problem is the drain of the old release is answered as
  a failure although traffic moved (`deploy.go:137`).
- Prune reads what to keep, then what the host has; a release that goes live in
  between is removed (`appprune.go:150`).
- `DeleteApp` takes every error of its liveness query for "not live" and removes
  the containers of a live app; the store refuses afterwards (`appdelete.go:78`).
- A deletion beside a first deployment leaves containers that no row names, and
  a heal beside a reduction of the scale stops a replica that still gets
  requests.
- One failed evaluation followed by a slow probe reaches systemd's deadline,
  where the comment says two (`liveness.go:190`): `KillIsEarned` asks for one.
- A copy before a migration that was cut off by a crash is taken for whole by
  the next start (`backup.go:59`); likewise the safety copy by a second restore
  of the same second.
- The first version negotiation is kept, failed or not, so an executor that
  met no Docker at first has to be restarted (`dockerdrv/client.go:89`).
- `kadrand` accepts resource limits that the executor refuses
  (`appvalidate.go:280`, `exec/validate.go:183`), and two concurrent updates can
  merge into a definition that neither validated (`store/appupdate.go:271`).
- A stale upstream under a host name that is still present is not a missing
  host; only the next heal or deployment corrects it.

## 5. Why the properties that hold hold

`NeverDark` is the promise of a blue-green switch: as long as nothing fails, a
reachable app stays reachable through deployments, rollbacks, prunes, changes of
scale and heals. It rests on the order gate, store, proxy, drain.
`DrainSparesTraffic` says the same of the drain alone but with faults: after a
failed load the drain is not reached. `SettledRoutes` is what the mutex is for:
without it a plan made before a switch may be loaded after the plan made after
it. `RoutesSettled` says what the reconciliations of updates, deployments and
heals end in when none of them failed: each change is followed by a plan that
reads the store after it. `UpdatesMerge` holds because the store merges again in
its transaction. `LostHostsReturn` rests on the watcher alone.

`AnswersAreHonest` rests on the order do, write, sync, answer; after a dirty
failure only the weaker `AuditLogSpec` is left. `StaleSelectionHarmless` holds
because the listing yields ids and not names. `VerdictCovers` holds because each
page begins right behind the last record read and the verification ends only at
an empty page; the executor has verified the lines it returns. `DatabaseWhole`
rests on a restore that removes the log before it renames the new file into
place, and on no daemon running meanwhile, which the model assumes as the
command's documentation asks. `StuckIsReplaced` and `SlowIsNotStuck` pull in
opposite directions; `loopMaxAge` with three intervals and the minimum is
between them.

`PrefaceFirst` rests on two programs that agree which of them writes the preface,
and on kadran-connect reading nothing before. `EndIsTrue` holds because the
way down alone ends kadran-connect, because a socket's reader gets what was
written before the end, and because the reader waits for ssh at the end of the
pipe. `ServiceSpec` and `NothingLeftOpen` hold because the sidecar waits
for its goroutines before it closes the connections. `OneConnectionPerTarget`
takes the mutex over the dial.

## 6. Proofs

Every proof is for any values of the constants that the named assumptions allow.

| Module | Theorems | Assumptions |
|---|---|---|
| `Rollout_proofs`, of the store | `StoreCorrect` (`StoreInv`), `StoreTypes`, `StoreOneActive`, `StoreLiveWasBuilt`, `StoreRollbackReturns`, `StoreHistoryAppendOnly`, `StoreSealedForGood`, `StoreLiveNeverForgotten` | `BoundsAssumption`: the bounds are positive |
| `Rollout_proofs`, of the daemon | `RolloutCorrect` (`RolloutInv`), `RolloutSettles` (`SettledRoutes`), `RolloutImplementsStore` (`StoreSpec`), `RolloutOneActive`, `RolloutLiveWasBuilt`, `GateCorrect` (`GateInv`), `GateKeepsBrokenOut` (`BrokenNeverServes`), `RolloutTypes` (`TypeOK`), `WorkCorrect` (`WorkInv`), `RepairsKeepRoutes` (`RepairKeepsRoutes`) | also `RolloutAssumption`: `NoProc` is no process, scale and tries are positive; `NamesAssumption`: a call is none of the daemon's own goroutines, and there is an app |
| `Rollout_proofs`, of calls that do not overlap | `ContainersTracked` (`OrphanInv`), `NoneOrphaned` (`NoOrphans`), `PrunesKeepRollback` (`PruneKeepsRollback`), `RolloutsStaySwitched` (`SwitchInv`), `DrainsSpareTraffic` (`DrainSparesTraffic`), `StaysBright` (`BrightInv`), `NeverGoesDark` (`NeverDark`), `SuccessIsLive` (`SuccessMeansLive`), `OneCallerIsSafe` | the same, and of the behaviour `[]Exclusive`: two calls in progress are never about the same app |
| `Executor_proofs` | `JournalFileCorrect` (`FileInv`), `JournalImplementsAuditLog` (`AuditLogSpec`), `JournalCorrect` (`JournalInv`), `JournalIsConsistent` (`JournalConsistent`), `ContainersCorrect` (`ContainerInv`), `StaleSelectionsAreHarmless` (`StaleSelectionHarmless`), `VolumesComeFirst` (`VolumeBeforeContainer`), `ExecutorCorrect` (`ExecInv`), `AnswersAreTrue` (`AnswersAreHonest`), `VerdictsCover` (`VerdictCovers`), `ExecutorTypes` (`ExecTypeOK`) | `ExecutorAssumption`: `Nobody` is no caller, the page size is positive |
| `Definition_proofs` | `DefinitionCorrect` (`DefInv`), `DefinitionTypes` (`DefTypeOK`), `RoutesSettle` (`RoutesSettled`), `NoUpdateIsLost` (`UpdatesMerge`), `StoredCorrect` (`StoredInv`), `StoredDeployable` (`StoredIsDeployable`) | `DefinitionAssumption`: the goroutines are distinct, `Nobody` is none of them, there are finitely many variable names and the byte limit is a number; `DataAssumption`: `CreateApp` and `UpdateApp` are called with definitions and updates, `NoApp` is not one |
| `Watch_proofs` | `WatchCorrect` (`WatchInv`), `WatchTypes`, `AlarmsAreTold` (`ToldIsTrue`), `HealsWaitForBackoff` (`HealsBackOff`) | `WatchAssumption`: thresholds and back-off base are positive, the base is not above the cap |
| `Watchdog_proofs` | `WatchdogCorrect` (`WatchdogInv`), `WatchdogTypes`, `SlowLoopsAreSpared` (`SlowIsNotStuck`), `KillsAreEarned` (`KillIsEarned`) | `WatchdogAssumption`: a probe is shorter than the interval of the pings; a slow pass is within the minimum or two intervals |
| `Backup_proofs` | `BackupCorrect` (`BackupInv`), `BackupTypes`, `BackupDatabaseWhole` (`DatabaseWhole`), `RestoreCorrect` (`KeptInv`), `OldStatesAreKept` (`OldStateIsKept`), `SnapshotsCorrect` (`AnsweredInv`), `AnswersStay` (`AnsweredBackupsStay`) | `BackupAssumption`: there is a migration, copies are kept, and the bounds are numbers |
| `Sidecar_proofs` | `SidecarCorrect` (`SidecarInv`), `SidecarTypes`, `KeptAreOpen` (`KeptIsOpen`), `TargetsAreShared` (`OneConnectionPerTarget`), `ExitClosesAll` (`NothingLeftOpen`), `SidecarServes` (`ServiceSpec`) | `SidecarAssumption`: each line has a kind and a target, `None` is no request |
| `Bridge_proofs` | `BridgeCorrect` (`BridgeInv`), `BridgeTypes` (`BridgeTypeOK`), `OnePreface` (`PrefaceFirst`), `EndsAreTrue` (`EndIsTrue`) | `BridgeAssumption`: requests and answers are numbers |

*ReleaseStore.* The inductive invariant is `StoreInv`, with one lemma per action.
`LiveWasBuilt` is not inductive alone: `StartRelease` writes a status, and it
takes `NumbersHandedOut` to know that the number is not that of a live release.
`OneActive` is stated as "only the last row may be open"; `SwitchRows` says what
a switch does to the rows, `StepRows` that nothing else adds or rewrites any.

*Rollout.* `SettledRoutes` alone says nothing of plans that wait to be loaded.
`RolloutInv` adds that whoever is between reading the store and loading the
proxy holds the mutex and has a plan that fits wherever the app is settled
(`JobInv`, `PlanFits`), and that a goroutine that will touch the store works on a
release (`Sound`). `StoreStep` is what all steps outside a reconciliation have in
common: a step of the store after which every plan that fitted still fits or its
app is unsettled. `LockKeepsInv` and `UnlockKeepsInv` treat the two ends of a
reconciliation. The same case analysis (`StepCases`) gives the refinement, and
with it the store's own theorems hold of the whole daemon.

*Gate.* `BrokenNeverServes` has to follow a release through a whole call:
`HostInv` says that containers of a broken release never answer, `Measured` that
whoever is ahead of a switch measures at least one replica (a scale of zero would
pass the gate unmeasured) and that what is about to be activated or loaded has
passed. It rests on `RolloutInv`, which knows the release a call works on.
`TypeInv` adds the fields that neither needs; that a fault stays within its bound
is the guard `Fault`, and that who is at a load holds the mutex is `JobInv`.

*Work.* `WorkInv` says which steps belong to which work and which goroutine may do
it (`Course`), that only live apps have routes or are given some (`LiveInv`), and
that what the watcher is about to load has routes wherever the proxy has some
(`RepairPlan`). `Turn` is one step of a goroutine as far as the later proofs tell
steps apart, and `TurnCases` shows that every step of the daemon is one; the lemmas
`RowCases`, `ActiveCases`, `RouteCases`, `SlotCases`, `AppCases`,
`UnsettledCases` and `ScaleChanges` say, of each shared variable, by whose step it
changes. Up to here any calls may overlap.

*One call per app.* `drain_race` shows that the other properties are false of two
deployments of one app at once, so they are proved of behaviours in which
`Exclusive` holds throughout: any number of callers, but no two of them busy with the
same app, next to the supervisor, the watcher, faults and restarts. Nothing in
`kadrand` enforces it, so it is a condition on the callers; with one caller it holds by
itself (`OneCallerIsSafe`), which is what `rollout_serial` checks. Four invariants
rest on it.
`OrphanInv`: a deletion's list covers the containers of its app, which holds beside
a heal since only a live app is healed and a live app is not forgotten.
`KeepInv`: what a prune has read of the live release and the rollback target is
still so. `SwitchInv`: from its switch until it answers, a rollout's release is the live
one, its plan fits the store and what it loaded stays settled (`PlanStays`,
`RoutesStay`), so that a drain's list has nothing that is routed to.
`BrightInv` is about behaviours without a fault: routes that are to be settled have
a caller about to do so, and the first replica of the live release, and
of whatever is routed to or planned, answers. Only replica 0 can carry this: a
smaller scale or a shrinking heal may stop any other. `StaysUp` is its core: who stops
containers of an app is a caller whose list does not hold the release in question, by the
three invariants before.

*Executor.* The refinement needs only that the durable lines are never rewritten
(`Keeps`), whatever is lost or torn behind them. `JournalConsistent` needs more:
who holds `Journal.mu`, that between the write and the sync the file is one
record ahead of the memory, and that an unclean failure is counted
(`MutexInv`, `CountInv`, `MemoryInv`).

`ContainerInv` is a second invariant of the same steps: the ids an operation
works through were handed out before its listing (`Bounded`), and whoever is at
the creation of a container finds the volume directory given away. From it follow
`StaleSelectionHarmless` and `VolumeBeforeContainer`.

`HonestInv` is the third, of the answers. `Local` says what a request holds at
each of its steps, `Effect` what it has achieved by then: the effect on the host
once it was done, and its record in the synced part of the file once it is answered
(as long as no write went wrong). Others only add to what it rests on (`Lasting`: the synced part of the file grows, an id is not used twice).
For a verification it is the page it has come to, which the next page continues
(`PageFacts`): nothing read is skipped, so the end it meets is not before the
last record that was acknowledged when it began.

*Definition.* `RoutesSettled` speaks of quiet states only. `Settling` says what is
true in between: if nothing failed and no update raced, either the proxy has the
right routes and nobody is about to load others, or the holder of the mutex is
about to load the right ones, or somebody still waits to reconcile. `WriteKeeps`
is the delicate case: the handler decides by the row it read before the
transaction whether the proxy is concerned, which is right only if that row is
the one it wrote over. `UpdatesMerge` needs that definitions keep their fields.
`StoredIsDeployable` has two halves. `AcceptedIsDeployable` compares the validators:
the executor counts no byte that `kadrand` does not count (`EnvSizes`), and its rules
for mounts are weaker. `StoredInv` says that what is in the table, and what a call is
about to write over the row it read, was accepted; a write over another row puts
the app among the `raced`.

*Watch.* `AlarmInv`: an alarm belongs to one goroutine, so what that goroutine has
yet to say of it is what the table says, and nobody else can make it false.
`ToldIsTrue` follows: a change makes something to say, and saying it makes the journal
agree with the table.
`CountInv`: unless they were forgotten, the heals since the app was healthy are those
counted in `state`, and the time since the last one
and what is left to wait add up to its back-off at least. `RestInv`, which holds
forgotten or not: no more failing visits are counted than intervals have passed since
the last heal. `SupervisorInv` knows
that between the visit and the heal the wait is over. That a back-off is a
number for any number of heals needs `PowersOfTwo`, which counts the subsets of
a set, since the exponent is beyond the solver.

*Watchdog.* `LoopInv` bounds a stamp's age by what is left of the interval or
pass, `PingInv` the time since the last ping by the timer and the probe.

*Backup.* `Owned` says who may touch the file: a daemon only on a file with its
own log, a restore only when no daemon runs, and its last step only without log.
`OldStateIsKept` would be false of a restore that takes the copy it finds under its
name for one of the database it found. `KeptInv` says why it is one: a start and a
crash take a second, so that the copy was made by a restore of the same second, and
what that one left of the database, placed or not, is what a copy holds (`Known`).
`AnsweredInv` is about the snapshots beside the pruning of others. While one is
written nobody else writes (`Busy`), so its file is there or `SnapshotKeep` later ones
are; and pruning never takes the last of these (`NewestStay`, by the latest of those it
would take). `Accounted` is about every copy that a call may answer with, whoever made
it: it is whole, or being written, or one that a failed or cut-off copy left; and a
copy before a migration keeps its name until the copy is done.

*Sidecar.* An open connection is kept for its target, or is being made by the
goroutine that holds `s.mu`; with it goes who holds the mutex and that after the
last wait no goroutine runs. The refinement maps the lines read and the answers
written; it needs only that a goroutine which has answered does nothing more.

*Bridge.* `PrefaceFirst` speaks of what kadrand has read; `Stream` extends it to
what lies in the socket, and `Roles` says who must have come how far before
somebody else moves, so that kadran-connect's preface is the first thing written
and nobody writes another. For `EndIsTrue`, `Books` counts the answers: while
ssh is not cut and the client reads, those that kadrand wrote are got or still on
their way. `Told` says of each party that left what must be over by then: it goes
only when everything behind it has ended and is empty, or marks the failure that
the next one passes on, so that the client's end is either told of a cut or comes
after the last answer.

Every invariant and action property the passing runs check is proved, those of the
third row under its condition, and so are the three
refinements. Only model-checked is what is out of the prover's reach, liveness under
fairness: `RestartSettles`, `LostHostsReturn`, `TroubleIsRaised`, `AlarmsClose`,
`StuckIsReplaced`, `EndsWithItsParent` and `CloseCollects`. `LiveWasBuilt`,
`HistoryAppendOnly`, `JournalConsistent`, `KeptIsOpen` and `NothingLeftOpen` are proved
and in no run.

## 7. Further work

Of `Rollout`, what still holds when calls about one app do overlap: the behaviours
of section 4 that break `NoOrphans` have a deletion beside a first deployment, those
that break `PruneKeepsRollback` a prune beside a switch, so that a weaker condition
than `Exclusive` may be enough for each.

## 8. Not modelled

- The CLI's commands are one call and its output each; the desktop application is
  a user interface over the sidecar.
- Parsing of targets, arguments, roles and the ssh environment, and the creation
  of the sockets, are functions of one input.
- The bootstrap installer is a linear script over ssh, run once and by hand.
- Authorisation and the domain check decide on one request from the peer's
  credentials or from DNS, with no state; git sources and the repository list
  are checks of single build requests.
- `kadrand`'s own audit chain is one transaction per record; its failure after a
  change is in `Definition`, its records are not.
- Of the build and deployment files only `WatchdogSec` and the restart by
  systemd are modelled; the rest is packaging.
- Docker's, Caddy's, SQLite's and systemd's own behaviour is modelled only as far
  as the daemon sees it; those definitions are marked external.

## 9. Running

    tlc -config RolloutSerial.cfg MCRollout.tla
    tlc -config Watch.cfg Watch.tla
    tlapm Rollout_proofs.tla

PROJECT.json names the module and the cfg of every run.
