------------------------------ MODULE Rollout ------------------------------
(***************************************************************************)
(* kadrand moving traffic between releases: the API handlers Deploy,       *)
(* Rollback, PruneApp, DeleteApp and UpdateApp, the health supervisor's    *)
(* Heal, the proxy watcher's Repair and the reconciliation at start-up,    *)
(* over the shared release store, the containers on the host and the       *)
(* routes loaded in the reverse proxy.                                     *)
(*                                                                         *)
(* Every handler runs in its own goroutine.  One action is one call it     *)
(* makes (an executor RPC, a store transaction, a proxy request), and      *)
(* whatever the handler keeps in local variables between two calls is in   *)
(* job[p].  Nothing but the reconciler's mutex orders the handlers.        *)
(*                                                                         *)
(* Containers are what Docker reports through the executor; the proxy is   *)
(* what Caddy's /config returns.  Faults (a failing call, a cancelled      *)
(* context, a dying container, a restarting proxy or daemon) are bounded   *)
(* by MaxFaults.                                                           *)
(***************************************************************************)
EXTENDS ReleaseStore, FiniteSets

CONSTANTS Op,           \* concurrent API calls
          MaxReplicas,  \* largest replica count an app may ask for
          Successes,    \* GateOptions.Successes: measurements in a row
          StartupTries, \* startupReconcileTries
          MaxFaults,    \* bound on the faults of one behaviour
          Broken,       \* releases whose image never answers its probe
          NoProc        \* nobody: the mutex is free

ASSUME RolloutAssumption ==
  /\ MaxReplicas \in Nat \ {0}
  /\ Successes \in Nat \ {0}
  /\ StartupTries \in Nat \ {0}
  /\ MaxFaults \in Nat
  /\ Broken \subseteq Release
  /\ NoProc \notin Op \cup {"main", "supervisor", "watcher"}

\* An API call is none of the daemon's own goroutines; and an idle one needs
\* some app to name.
ASSUME NamesAssumption ==
  /\ Op \cap {"main", "supervisor", "watcher"} = {}
  /\ App # {}

VARIABLES
  replicas,  \* apps.replicas, the number an app asks for
  host,      \* the containers of each app, by release and index
  route,     \* the upstreams the proxy has for each app; {} is no route
  lock,      \* who holds Reconciler.mu
  job,       \* what each goroutine is doing
  faults,    \* faults so far
  unsettled  \* history variable: the store changed after the routes were
             \* planned that are now loaded

vars == <<storeVars, replicas, host, route, lock, job, faults, unsettled>>

Proc == Op \cup {"main", "supervisor", "watcher"}
Index == 0..MaxReplicas - 1
Slot == Release \X Index
ContainerState == {"absent", "stopped", "starting", "up"}
AnyApp == CHOOSE a \in App : TRUE
NoRoutes == [a \in App |-> {}]

(***************************************************************************)
(* A job is what one goroutine holds between two calls.                    *)
(***************************************************************************)
Kind == {"none", "deploy", "rollback", "prune", "delete", "update",
         "heal", "repair", "startup"}
Step == {"idle", "build", "guard", "inventory", "create", "start", "shrink",
         "gate", "activate", "plan", "load", "list", "drain",
         "previous", "leftovers", "stop", "remove", "forget", "reply"}
Job == [kind   : Kind,
        at     : Step,
        app    : App,
        rel    : Release \cup {NoRelease},  \* the release it works on
        want   : 0..MaxReplicas,            \* app.Replicas as it was read
        have   : SUBSET Index,              \* ensureReplicas: found present
        extra  : SUBSET Index,              \* ... and found beyond the scale
        index  : Nat,                       \* next replica, or try number
        streak : Nat,                       \* awaitReady's streak
        cfg    : [App -> SUBSET Slot],      \* the configuration planned
        skip   : BOOLEAN,                   \* len(res.Skipped) > 0
        todo   : SUBSET Release,            \* releases still to stop
        keep   : SUBSET Release,            \* keepSet
        leak   : BOOLEAN,                   \* some stop failed: DrainError
        moved  : BOOLEAN,                   \* the proxy took its routes to rel
        report : {"none", "success", "failure"}]

Idle == [kind |-> "none", at |-> "idle", app |-> AnyApp, rel |-> NoRelease,
         want |-> 0, have |-> {}, extra |-> {}, index |-> 0, streak |-> 0,
         cfg |-> NoRoutes, skip |-> FALSE, todo |-> {}, keep |-> {},
         leak |-> FALSE, moved |-> FALSE, report |-> "none"]

At(p, step) == job[p].at = step
Serving == job["main"].kind = "none"
MayCall(p) == p \in Op /\ Serving /\ At(p, "idle")

\* Bound: the rows of a, with those the switches under way may still add, stay
\* within MaxHistory.
HistoryHasRoom(a) ==
  LET switching == {p \in Op : /\ job[p].kind \in {"deploy", "rollback"}
                               /\ job[p].app = a
                               /\ job[p].at # "reply"}
  IN Len(history[a]) + Cardinality(switching) < MaxHistory

\* Goroutine p goes on as j.
Goto(p, j) == job' = [job EXCEPT ![p] = j]

\* The handler returns: an API call answers its caller, a loop goes on.
Return(p, report) ==
  Goto(p, IF p \in Op
          THEN [Idle EXCEPT !.kind = job[p].kind, !.at = "reply",
                            !.moved = job[p].moved, !.report = report]
          ELSE Idle)

Reply(p) ==
  /\ At(p, "reply")
  /\ Goto(p, Idle)
  /\ UNCHANGED <<storeVars, replicas, host, route, lock, faults, unsettled>>

Fault == faults < MaxFaults /\ faults' = faults + 1

(***************************************************************************)
(* What the host shows.                                                    *)
(***************************************************************************)
Running(a, s) == host[a][s] \in {"starting", "up"}
OnHost(a) == {n \in Release : \E i \in Index : host[a][<<n, i>>] # "absent"}

\* Mutant: measurements that count the containers of every release.
ReadyAnyRelease(a, n, want) ==
  \A i \in Index : i < want => \E m \in Release : host[a][<<m, i>>] = "up"

\* readyCount >= app.Replicas.
Ready(a, n, want) == \A i \in Index : i < want => host[a][<<n, i>>] = "up"

StopAll(a, n) ==
  host' = [host EXCEPT ![a] = [s \in Slot |->
             IF s[1] = n /\ host[a][s] # "absent" THEN "stopped" ELSE host[a][s]]]

SetSlot(a, s, state) == host' = [host EXCEPT ![a][s] = state]

-----------------------------------------------------------------------------
(***************************************************************************)
(* The head of a deployment: containers of the release, then the gate.     *)
(***************************************************************************)

\* What comes after replica j.index - 1 is there: the loop of ensureReplicas
\* (and of Run, which finds nothing present and nothing beyond the scale).
NextReplica(j) ==
  IF j.index < j.want
  THEN [j EXCEPT !.at = IF j.index \in j.have THEN "start" ELSE "create"]
  ELSE [j EXCEPT !.at = IF j.extra = {} THEN "gate" ELSE "shrink",
                 !.index = 0, !.have = {}]

\* Deploy, up to the build: GetApp, then StartRelease.
BeginDeploy(p, a) ==
  /\ MayCall(p)
  /\ HistoryHasRoom(a)
  /\ StartRelease(a)
  /\ Goto(p, [Idle EXCEPT !.kind = "deploy", !.at = "build", !.app = a,
                          !.rel = seq[a] + 1, !.want = replicas[a]])
  /\ UNCHANGED <<replicas, host, route, lock, faults, unsettled>>

\* The build succeeded: sealBuilt, then Run begins with replica 0.
BuildDone(p) ==
  LET j == job[p] IN
  /\ At(p, "build")
  /\ SealRelease(j.app, j.rel, "built")
  /\ Goto(p, NextReplica(j))
  /\ UNCHANGED <<replicas, host, route, lock, faults, unsettled>>

\* The build failed, or the stream to the client did: sealFailed.
BuildFailed(p) ==
  LET j == job[p] IN
  /\ At(p, "build")
  /\ IF status[j.app][j.rel] = "building"
     THEN SealRelease(j.app, j.rel, "failed")
     ELSE UNCHANGED storeVars
  /\ Return(p, "failure")
  /\ UNCHANGED <<replicas, host, route, lock, faults, unsettled>>

\* Rollback, up to the host: the target is the latest release that lost
\* traffic.
BeginRollback(p, a) ==
  /\ MayCall(p)
  /\ HistoryHasRoom(a)
  /\ ActiveOf(a) # NoRelease
  /\ PreviousOf(a) # NoRelease
  /\ Goto(p, [Idle EXCEPT !.kind = "rollback", !.at = "inventory", !.app = a,
                          !.rel = PreviousOf(a), !.want = replicas[a]])
  /\ UNCHANGED <<storeVars, replicas, host, route, lock, faults, unsettled>>

\* ensureReplicas reads which replicas of the release the host has.
Inventory(p) ==
  LET j == job[p]
      present == {i \in Index : host[j.app][<<j.rel, i>>] # "absent"}
  IN
  /\ At(p, "inventory")
  /\ Goto(p, NextReplica([j EXCEPT
                !.have = {i \in present : i < j.want},
                !.extra = {i \in present : i >= j.want}]))
  /\ UNCHANGED <<storeVars, replicas, host, route, lock, faults, unsettled>>

\* CreateReplica: Docker refuses a name that is taken (409).
Create(p) ==
  LET j == job[p] IN
  /\ At(p, "create")
  /\ IF host[j.app][<<j.rel, j.index>>] = "absent"
     THEN /\ SetSlot(j.app, <<j.rel, j.index>>, "stopped")
          /\ Goto(p, [j EXCEPT !.at = "start"])
     ELSE /\ Return(p, "failure")
          /\ UNCHANGED host
  /\ UNCHANGED <<storeVars, replicas, route, lock, faults, unsettled>>

\* StartReplica: starting nothing is an error, starting what runs is not.
Start(p) ==
  LET j == job[p]
      s == <<j.rel, j.index>>
  IN
  /\ At(p, "start")
  /\ IF host[j.app][s] = "absent"
     THEN Return(p, "failure")
     ELSE Goto(p, NextReplica([j EXCEPT !.index = @ + 1]))
  /\ IF host[j.app][s] = "stopped"
     THEN SetSlot(j.app, s, "starting")
     ELSE UNCHANGED host
  /\ UNCHANGED <<storeVars, replicas, route, lock, faults, unsettled>>

\* StopReplica on a replica of this release beyond the scale.
Shrink(p) ==
  LET j == job[p] IN
  /\ At(p, "shrink")
  /\ \E i \in j.extra :
       /\ IF host[j.app][<<j.rel, i>>] = "absent"
          THEN UNCHANGED host
          ELSE SetSlot(j.app, <<j.rel, i>>, "stopped")
       /\ Goto(p, NextReplica([j EXCEPT !.extra = @ \ {i}, !.index = j.want]))
  /\ UNCHANGED <<storeVars, replicas, route, lock, faults, unsettled>>

\* Mutant: every rollout goes on as a heal does, without the store.
GateSkipsStore(j) ==
  IF j.streak + 1 < Successes
  THEN [j EXCEPT !.streak = @ + 1]
  ELSE [j EXCEPT !.streak = 0, !.at = "plan"]

\* What follows a measurement that counts: the next one, or the switch.
GateCounts(j) ==
  IF j.streak + 1 < Successes
  THEN [j EXCEPT !.streak = @ + 1]
  ELSE [j EXCEPT !.streak = 0,
                 !.at = IF j.kind = "heal" THEN "plan" ELSE "activate"]

\* Mutant: a container that runs is taken for one that answers.
MeasureRunning(p) ==
  LET j == job[p] IN
  /\ At(p, "gate")
  /\ \A i \in Index : i < j.want => Running(j.app, <<j.rel, i>>)
  /\ Goto(p, GateCounts(j))
  /\ UNCHANGED <<storeVars, replicas, host, route, lock, faults, unsettled>>

\* One measurement of awaitReady that counts.
Measure(p) ==
  LET j == job[p] IN
  /\ At(p, "gate")
  /\ Ready(j.app, j.rel, j.want)
  /\ Goto(p, GateCounts(j))
  /\ UNCHANGED <<storeVars, replicas, host, route, lock, faults, unsettled>>

\* One that does not (a probe may also time out on a healthy replica): the
\* streak starts over.
MeasureBad(p) ==
  /\ At(p, "gate")
  /\ job[p].streak > 0
  /\ Goto(p, [job[p] EXCEPT !.streak = 0])
  /\ UNCHANGED <<storeVars, replicas, host, route, lock, faults, unsettled>>

\* The deadline has passed after a measurement that was not the last one
\* needed, or the wait was cancelled: the release does not get traffic.
GateExpires(p) ==
  /\ At(p, "gate")
  /\ Return(p, "failure")
  /\ UNCHANGED <<storeVars, replicas, host, route, lock, faults, unsettled>>

-----------------------------------------------------------------------------
(***************************************************************************)
(* The tail: SetActiveRelease, reconcile, drain.                           *)
(***************************************************************************)

\* Mutant: the old release is drained before the routes are moved.
ActivateThenDrain(p) ==
  LET j == job[p] IN
  /\ At(p, "activate")
  /\ SetActiveRelease(j.app, j.rel)
  /\ unsettled' = [unsettled EXCEPT ![j.app] = TRUE]
  /\ Goto(p, [j EXCEPT !.at = "list"])
  /\ UNCHANGED <<replicas, host, route, lock, faults>>

\* The switch in the control plane comes before the switch in the proxy.
Activate(p) ==
  LET j == job[p] IN
  /\ At(p, "activate")
  /\ IF CanActivate(j.app, j.rel)
     THEN /\ SetActiveRelease(j.app, j.rel)
          /\ unsettled' = [unsettled EXCEPT ![j.app] = @ \/ ActiveOf(j.app) # j.rel]
          /\ Goto(p, [j EXCEPT !.at = "plan"])
     ELSE /\ Return(p, "failure")
          /\ UNCHANGED <<storeVars, unsettled>>
  /\ UNCHANGED <<replicas, host, route, lock, faults>>

\* upstreamsFor: the running replicas of the live release within the scale.
Upstreams(a) ==
  {s \in Slot : /\ s[1] = ActiveOf(a)
                /\ s[2] < replicas[a]
                /\ Running(a, s)}

\* Reconciler.plan and build, over the whole store.  The apps in lost are
\* those whose container list could not be read: they count as skipped.
Planned(lost) == [b \in App |-> IF b \in lost THEN {} ELSE Upstreams(b)]
Skipped(cfg) == {b \in App : ActiveOf(b) # NoRelease /\ cfg[b] = {}}

\* Listing the containers of the apps in lost fails; that is one fault.
ListingFails(lost) ==
  /\ lost \subseteq {b \in App : Upstreams(b) # {}}
  /\ IF lost = {} THEN UNCHANGED faults ELSE Fault

\* Mutant: Reconcile without its mutex.
PlanUnlocked(p) ==
  /\ At(p, "plan")
  /\ \E lost \in SUBSET App :
       /\ ListingFails(lost)
       /\ Goto(p, [job[p] EXCEPT !.at = "load", !.cfg = Planned(lost),
                                 !.skip = Skipped(Planned(lost)) # {}])
  /\ UNCHANGED <<storeVars, replicas, host, route, lock, unsettled>>

\* Reconcile takes the mutex and reads the store and the host.
Plan(p) ==
  /\ At(p, "plan")
  /\ lock = NoProc
  /\ lock' = p
  /\ \E lost \in SUBSET App :
       /\ ListingFails(lost)
       /\ Goto(p, [job[p] EXCEPT !.at = "load", !.cfg = Planned(lost),
                                 !.skip = Skipped(Planned(lost)) # {}])
  /\ UNCHANGED <<storeVars, replicas, host, route, unsettled>>

\* cfg agrees with the store about app b.
Fits(cfg, b) == \A s \in cfg[b] : s[1] = ActiveOf(b) /\ s[2] < replicas[b]

\* POST /load replaces everything the proxy had.
Loaded(cfg) ==
  /\ route' = cfg
  /\ unsettled' = [b \in App |-> unsettled[b] /\ ~Fits(cfg, b)]

\* Load and the read-back succeed.  A deployment whose own app was skipped
\* returns SkippedError without draining, which its handler reports as a
\* success.
Load(p) ==
  LET j == job[p]
      routed == \E i \in Index : <<j.rel, i>> \in j.cfg[j.app]
  IN
  /\ At(p, "load")
  /\ Loaded(j.cfg)
  /\ lock' = NoProc
  /\ IF j.kind \in {"deploy", "rollback"} /\ j.cfg[j.app] # {}
     THEN Goto(p, [j EXCEPT !.at = "list", !.cfg = NoRoutes, !.moved = routed])
     ELSE Return(p, "success")
  /\ UNCHANGED <<storeVars, replicas, host, faults>>

\* drainStale reads which other releases the host has, and then waits for
\* the drain window.
DrainList(p) ==
  LET j == job[p]
      stale == OnHost(j.app) \ {j.rel}
  IN
  /\ At(p, "list")
  /\ IF stale = {}
     THEN Return(p, "success")
     ELSE Goto(p, [j EXCEPT !.at = "drain", !.todo = stale])
  /\ UNCHANGED <<storeVars, replicas, host, route, lock, faults, unsettled>>

\* What the handler makes of errors.Join(skippedErr, drainErr): any
\* SkippedError in it is a success, and a DrainError alone is a failure.
Answer(j) == IF j.leak /\ ~j.skip THEN "failure" ELSE "success"

\* One release of the stale list is done; the handler returns after the last.
Drained(p, j) ==
  IF j.todo = {} THEN Return(p, Answer(j)) ELSE Goto(p, j)

DrainStop(p) ==
  LET j == job[p] IN
  /\ At(p, "drain")
  /\ \E n \in j.todo :
       /\ StopAll(j.app, n)
       /\ Drained(p, [j EXCEPT !.todo = @ \ {n}])
  /\ UNCHANGED <<storeVars, replicas, route, lock, faults, unsettled>>

\* A stop fails: the rest is still stopped, the error is kept.
DrainStopFails(p) ==
  LET j == job[p] IN
  /\ At(p, "drain")
  /\ Fault
  /\ \E n \in j.todo : Drained(p, [j EXCEPT !.todo = @ \ {n}, !.leak = TRUE])
  /\ UNCHANGED <<storeVars, replicas, host, route, lock, unsettled>>

\* The list could not be read, or the wait was cancelled: nothing is stopped.
DrainBroken(p) ==
  LET j == job[p] IN
  /\ At(p, "list")
  /\ Fault
  /\ Return(p, Answer([j EXCEPT !.leak = TRUE]))
  /\ UNCHANGED <<storeVars, replicas, host, route, lock, unsettled>>

-----------------------------------------------------------------------------
(***************************************************************************)
(* Prune and delete.                                                       *)
(***************************************************************************)

\* keepSet reads the live release first; without one nothing is pruned.
BeginPrune(p, a) ==
  /\ MayCall(p)
  /\ ActiveOf(a) # NoRelease
  /\ Goto(p, [Idle EXCEPT !.kind = "prune", !.at = "previous", !.app = a,
                          !.keep = {ActiveOf(a)}])
  /\ UNCHANGED <<storeVars, replicas, host, route, lock, faults, unsettled>>

\* Mutant: only the live release is kept.
KeepActiveOnly(p) ==
  /\ At(p, "previous")
  /\ Goto(p, [job[p] EXCEPT !.at = "leftovers"])
  /\ UNCHANGED <<storeVars, replicas, host, route, lock, faults, unsettled>>

\* ... and then the rollback target, if there is one.
KeepPrevious(p) ==
  LET j == job[p] IN
  /\ At(p, "previous")
  /\ Goto(p, [j EXCEPT !.at = "leftovers",
                       !.keep = @ \cup ({PreviousOf(j.app)} \ {NoRelease})])
  /\ UNCHANGED <<storeVars, replicas, host, route, lock, faults, unsettled>>

\* Mutant: the rows go first and the containers after them.
DeleteRowsFirst(p, a) ==
  /\ MayCall(p)
  /\ DeleteApp(a)
  /\ Goto(p, [Idle EXCEPT !.kind = "prune", !.at = "leftovers", !.app = a])
  /\ UNCHANGED <<replicas, host, route, lock, faults, unsettled>>

\* DeleteApp refuses a live app before it touches a container, but only if
\* ActiveDeployment answers: any error of that query reads as "not live".
BeginDelete(p, a) ==
  /\ MayCall(p)
  /\ a \in apps
  /\ IF ActiveOf(a) = NoRelease THEN UNCHANGED faults ELSE Fault
  /\ Goto(p, [Idle EXCEPT !.kind = "delete", !.at = "leftovers", !.app = a])
  /\ UNCHANGED <<storeVars, replicas, host, route, lock, unsettled>>

\* The releases to remove are read from the host, not from the store.
NextLeftover(p, j) ==
  IF j.todo # {} THEN Goto(p, [j EXCEPT !.at = "stop"])
  ELSE IF j.kind = "delete" THEN Goto(p, [j EXCEPT !.at = "forget"])
  ELSE Return(p, "success")

Leftovers(p) ==
  LET j == job[p] IN
  /\ At(p, "leftovers")
  /\ NextLeftover(p, [j EXCEPT !.todo = OnHost(j.app) \ j.keep])
  /\ UNCHANGED <<storeVars, replicas, host, route, lock, faults, unsettled>>

\* StopRelease with the grace period ...
StopLeftover(p) ==
  LET j == job[p] IN
  /\ At(p, "stop")
  /\ \E n \in j.todo :
       /\ StopAll(j.app, n)
       /\ Goto(p, [j EXCEPT !.at = "remove", !.rel = n])
  /\ UNCHANGED <<storeVars, replicas, route, lock, faults, unsettled>>

\* ... then RemoveRelease.
RemoveLeftover(p) ==
  LET j == job[p] IN
  /\ At(p, "remove")
  /\ host' = [host EXCEPT ![j.app] = [s \in Slot |->
                IF s[1] = j.rel THEN "absent" ELSE host[j.app][s]]]
  /\ NextLeftover(p, [j EXCEPT !.todo = @ \ {j.rel}, !.rel = NoRelease])
  /\ UNCHANGED <<storeVars, replicas, route, lock, faults, unsettled>>

\* Mutant: the app's liveness is not looked at again.
ForgetUnchecked(p) ==
  LET j == job[p] IN
  /\ At(p, "forget")
  /\ DropEvenLive(j.app)
  /\ Return(p, "success")
  /\ UNCHANGED <<replicas, host, route, lock, faults, unsettled>>

\* The rows go last, and not if the app went live in between.
Forget(p) ==
  LET j == job[p] IN
  /\ At(p, "forget")
  /\ IF j.app \in apps /\ OpenRows(j.app) = {}
     THEN /\ DeleteApp(j.app)
          /\ Return(p, "success")
     ELSE /\ UNCHANGED storeVars
          /\ Return(p, "failure")
  /\ UNCHANGED <<replicas, host, route, lock, faults, unsettled>>

-----------------------------------------------------------------------------
(***************************************************************************)
(* Definitions of apps.                                                    *)
(***************************************************************************)

Register(a, want) ==
  /\ Serving
  /\ CreateApp(a)
  /\ replicas' = [replicas EXCEPT ![a] = want]
  /\ UNCHANGED <<host, route, lock, job, faults, unsettled>>

\* UpdateApp with another replica count: the row, then Reconcile
\* (moveTraffic).
BeginUpdate(p, a, want) ==
  /\ MayCall(p)
  /\ a \in apps
  /\ want # replicas[a]
  /\ replicas' = [replicas EXCEPT ![a] = want]
  /\ unsettled' = [unsettled EXCEPT ![a] = @ \/ want < replicas[a]]
  /\ Goto(p, [Idle EXCEPT !.kind = "update", !.at = "plan", !.app = a])
  /\ UNCHANGED <<storeVars, host, route, lock, faults>>

-----------------------------------------------------------------------------
(***************************************************************************)
(* The supervisor and the proxy watcher.                                   *)
(***************************************************************************)

\* Supervisor.visit counts the live release as not ready often enough, and its
\* back-off lets it heal.  A probe may also time out on a healthy replica, so
\* that the visit constrains nothing but that the release was live.
Visit(a) ==
  /\ Serving
  /\ At("supervisor", "idle")
  /\ ActiveOf(a) # NoRelease
  /\ Goto("supervisor", [Idle EXCEPT !.kind = "heal", !.at = "guard", !.app = a,
                                     !.rel = ActiveOf(a), !.want = replicas[a]])
  /\ UNCHANGED <<storeVars, replicas, host, route, lock, faults, unsettled>>

\* Supervisor.heal reads the live release again and gives up if it changed.
Guard ==
  LET j == job["supervisor"] IN
  /\ At("supervisor", "guard")
  /\ Goto("supervisor", IF ActiveOf(j.app) = j.rel
                        THEN [j EXCEPT !.at = "inventory"]
                        ELSE Idle)
  /\ UNCHANGED <<storeVars, replicas, host, route, lock, faults, unsettled>>

\* Mutant: skipped apps are left out of the configuration.
CarryNothing(cfg) == cfg

\* The configuration Repair loads: skipped apps keep the upstreams the proxy
\* has for them.
CarryOver(cfg) == [b \in App |-> IF b \in Skipped(cfg) THEN route[b] ELSE cfg[b]]

\* Repair, when the proxy has no route for an app that could have one; it
\* loads nothing otherwise.
Repair ==
  /\ Serving
  /\ At("watcher", "idle")
  /\ lock = NoProc
  /\ \E lost \in SUBSET App :
       /\ ListingFails(lost)
       /\ \E b \in App : Planned(lost)[b] # {} /\ route[b] = {}
       /\ Goto("watcher", [Idle EXCEPT !.kind = "repair", !.at = "load",
                                       !.cfg = CarryOver(Planned(lost))])
  /\ lock' = "watcher"
  /\ UNCHANGED <<storeVars, replicas, host, route, unsettled>>

-----------------------------------------------------------------------------
(***************************************************************************)
(* Faults.                                                                 *)
(***************************************************************************)

\* A call to the executor or the store fails, or its context was cancelled.
\* (At "build" it is the sealing that fails: the release stays BUILDING.)
CallFails(p) ==
  /\ job[p].at \in {"build", "guard", "inventory", "create", "start", "shrink", "activate",
                    "previous", "leftovers", "stop", "remove", "forget"}
  /\ Fault
  /\ Return(p, "failure")
  /\ UNCHANGED <<storeVars, replicas, host, route, lock, unsettled>>

\* Mutant: nobody tries again.
NoSecondTry(p) == Return(p, "failure")

\* Reconcile returned an error; only the start-up tries again.
ReconcileFailed(p) ==
  IF p = "main" /\ job[p].index < StartupTries
  THEN Goto(p, [job[p] EXCEPT !.at = "plan", !.cfg = NoRoutes, !.skip = FALSE,
                              !.index = @ + 1])
  ELSE Return(p, "failure")

\* The store could not be read.
PlanFails(p) ==
  /\ At(p, "plan")
  /\ lock = NoProc
  /\ Fault
  /\ ReconcileFailed(p)
  /\ UNCHANGED <<storeVars, replicas, host, route, lock, unsettled>>

\* The proxy refused the configuration, or the read-back after POST failed.
LoadFails(p) ==
  /\ At(p, "load")
  /\ Fault
  /\ \/ UNCHANGED <<route, unsettled>>
     \/ Loaded(job[p].cfg)
  /\ lock' = NoProc
  /\ ReconcileFailed(p)
  /\ UNCHANGED <<storeVars, replicas, host>>

\* A starting container begins to answer its probe.
ContainerAnswers(a, s) ==
  /\ host[a][s] = "starting"
  /\ s[1] \notin Broken
  /\ SetSlot(a, s, "up")
  /\ UNCHANGED <<storeVars, replicas, route, lock, job, faults, unsettled>>

\* The restart policy of every container is "no".
ContainerDies(a, s) ==
  /\ Running(a, s)
  /\ Fault
  /\ SetSlot(a, s, "stopped")
  /\ UNCHANGED <<storeVars, replicas, route, lock, job, unsettled>>

\* Caddy comes back with no routes.
ProxyRestarts ==
  /\ Fault
  /\ route' = NoRoutes
  /\ UNCHANGED <<storeVars, replicas, host, lock, job, unsettled>>

Startup == [Idle EXCEPT !.kind = "startup", !.at = "plan", !.index = 1]
AllIdle == [p \in Proc |-> Idle]

\* kadrand dies and is started again: it reconciles before it serves.
DaemonRestarts ==
  /\ Fault
  /\ job' = [AllIdle EXCEPT !["main"] = Startup]
  /\ lock' = NoProc
  /\ UNCHANGED <<storeVars, replicas, host, route, unsettled>>

-----------------------------------------------------------------------------
Init ==
  /\ StoreInit
  /\ replicas = [a \in App |-> 1]
  /\ host = [a \in App |-> [s \in Slot |-> "absent"]]
  /\ route = NoRoutes
  /\ lock = NoProc
  /\ job = [AllIdle EXCEPT !["main"] = Startup]
  /\ faults = 0
  /\ unsettled = [a \in App |-> FALSE]

ApiCall(p) ==
  \/ \E a \in App : \/ BeginDeploy(p, a)
                    \/ BeginRollback(p, a)
                    \/ BeginPrune(p, a)
                    \/ BeginDelete(p, a)
                    \/ \E want \in 1..MaxReplicas : BeginUpdate(p, a, want)
  \/ BuildDone(p)
  \/ BuildFailed(p)
  \/ Reply(p)

Replicate(p) ==
  Inventory(p) \/ Create(p) \/ Start(p) \/ Shrink(p)

Gate(p) == Measure(p) \/ MeasureBad(p) \/ GateExpires(p)

Switch(p) == Activate(p) \/ Plan(p) \/ Load(p)

Drain(p) == DrainList(p) \/ DrainStop(p) \/ DrainStopFails(p) \/ DrainBroken(p)

Clean(p) ==
  KeepPrevious(p) \/ Leftovers(p) \/ StopLeftover(p) \/ RemoveLeftover(p) \/ Forget(p)

Next ==
  \/ \E a \in App, want \in 1..MaxReplicas : Register(a, want)
  \/ \E p \in Proc : \/ ApiCall(p)
                     \/ Replicate(p)
                     \/ Gate(p)
                     \/ Switch(p)
                     \/ Drain(p)
                     \/ Clean(p)
                     \/ CallFails(p)
                     \/ PlanFails(p)
                     \/ LoadFails(p)
  \/ \E a \in App : Visit(a)
  \/ Guard
  \/ Repair
  \/ \E a \in App, s \in Slot : ContainerAnswers(a, s) \/ ContainerDies(a, s)
  \/ ProxyRestarts
  \/ DaemonRestarts

Spec == Init /\ [][Next]_vars

\* Start-up is straight-line code that nothing waits for and that waits for
\* nobody: no other goroutine runs yet, so its mutex is free.
FairSpec == Spec /\ WF_vars(Plan("main") \/ Load("main"))

-----------------------------------------------------------------------------
(***************************************************************************)
(* Properties.                                                             *)
(***************************************************************************)

\* Types of the variables; the mutex is held exactly by the goroutine that is
\* between reading the store and loading the proxy.
TypeOK ==
  /\ StoreTypeOK
  /\ replicas \in [App -> 1..MaxReplicas]
  /\ host \in [App -> [Slot -> ContainerState]]
  /\ route \in [App -> SUBSET Slot]
  /\ job \in [Proc -> Job]
  /\ faults \in 0..MaxFaults
  /\ unsettled \in [App -> BOOLEAN]
  /\ \A p \in Proc : At(p, "load") <=> lock = p

\* A release whose image never answers its probe never goes live and never
\* gets a request, whatever else is deployed, healed or rolled back.
BrokenNeverServes ==
  \A a \in App : /\ ActiveOf(a) \notin Broken
                 /\ \A s \in route[a] : s[1] \notin Broken

\* Once the routes planned after the last change of the store are loaded, an
\* older plan never replaces them: the proxy has no upstream outside the live
\* release and its scale (what Reconciler.mu is for).
SettledRoutes ==
  \A a \in App : ~unsettled[a] => Fits(route, a)

\* No container outlives the row that names it: an app that is not on record
\* has no container that nobody could address any more.
NoOrphans ==
  \A a \in App \ apps : OnHost(a) = {}

\* The app is reachable: some container the proxy routes to answers.
Served(a) == \E s \in route[a] : host[a][s] = "up"

\* No downtime: as long as nothing fails, neither a deployment (good or bad),
\* a rollback, a prune, a change of scale nor a healing next to them takes a
\* reachable app off the air.
NeverDark ==
  [][faults' = 0 => \A a \in App : Served(a) => Served(a)']_vars

\* p stops or removes nothing the proxy is routing to.
Spares(p) == \A a \in {job[p].app} : \A s \in route[a] :
                Running(a, s) => Running(a, s)'

\* Drain stops nothing that has traffic: the old release is stopped only
\* after its routes are gone.
DrainSparesTraffic ==
  [][\A p \in Proc : (At(p, "drain") /\ job'[p] # job[p]) => Spares(p)]_vars

\* Rolling back after a prune stays a matter of starting containers: until it
\* answers, those of the live release and of its rollback target stay.
PruneKeepsRollback ==
  [][\A p \in Proc : job[p].kind = "prune" /\ ~At(p, "reply") =>
        LET a == job[p].app IN
        \A n \in {ActiveOf(a), PreviousOf(a)} \ {NoRelease}, i \in Index :
           host[a][<<n, i>>] # "absent" => host'[a][<<n, i>>] # "absent"]_vars

\* Repair never takes a live app off the proxy: what it cannot plan it keeps.
RepairKeepsRoutes ==
  [][\A a \in App : (/\ job["watcher"].kind = "repair"
                     /\ route' # route
                     /\ lock = "watcher"
                     /\ lock' = NoProc
                     /\ ActiveOf(a) # NoRelease
                     /\ route[a] # {}) => route'[a] # {}]_vars

\* A restart settles what a crash or a failed load left behind, as long as
\* fewer calls fail than the start-up has tries.
RestartSettles ==
  job["main"].kind = "startup" ~> \A a \in App : ~unsettled[a]

\* "This release WENT live": a deployment or rollback reported as a success
\* moved the app's routes to its release, as long as nothing has failed.
SuccessMeansLive ==
  faults = 0 =>
    \A p \in Op : (/\ job[p].kind \in {"deploy", "rollback"}
                   /\ job[p].report = "success") => job[p].moved
=============================================================================
