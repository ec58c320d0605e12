----------------------------- MODULE Definition -----------------------------
(***************************************************************************)
(* What an app is defined to be, and how the definition reaches the proxy: *)
(* CreateApp, UpdateApp and DeleteApp with the validation kadrand and the  *)
(* executor each make of a definition, the store's transactions, and the   *)
(* reconciliations that updates, deployments, heals, the proxy watcher and *)
(* a start of kadrand run beside each other.                               *)
(*                                                                         *)
(* Only the live release of an app is kept, by the indexes of its          *)
(* replicas that run; module Rollout has the releases and the steps of a   *)
(* deployment.  A mount path is the sequence of its segments, sizes are    *)
(* small numbers, and names, branches and the like, which no property      *)
(* tells apart, are left out.                                              *)
(***************************************************************************)
EXTENDS Naturals, Sequences, FiniteSets, SequencesExt

CONSTANTS
  Caller,         \* concurrent calls of the API
  Watcher,        \* the proxy watcher's goroutine
  Healer,         \* the supervisor's goroutine
  App, Host,
  NoApp, NoHost,  \* no such app; an app without a domain
  Keep,           \* a field an update leaves alone
  Nobody,         \* Reconciler.mu is free
  Key, Volume,    \* the variables and the mounts that are tried
  NewApp,         \* the definitions CreateApp is called with
  Change,         \* the updates UpdateApp is called with
  MaxReplicas, MaxEnvEntries, MaxEnvBytes, KeyBytes, MaxVolumes,
  Forbidden,      \* the roots nothing may be mounted under
  MaxRequests,    \* bound: calls of one behaviour
  MaxFaults       \* bound: failures and crashes of one behaviour

ASSUME DefinitionAssumption ==
  /\ MaxReplicas \in Nat \ {0} /\ KeyBytes \in Nat \ {0} /\ MaxEnvBytes \in Nat
  /\ IsFiniteSet(Key)
  /\ Watcher \notin Caller /\ Healer \notin Caller \cup {Watcher}
  /\ Nobody \notin Caller \cup {Watcher, Healer}
  /\ NoHost \notin Host /\ Keep \notin Host \cup Nat

\* A value of MaxEnvBytes is over the limit already: every entry has a key.
Environment == UNION {[K -> 0..MaxEnvBytes] : K \in SUBSET Key}
AppDefinition ==
  [domain : Host \cup {NoHost}, replicas : Nat, env : Environment, volumes : SUBSET Volume]
AppUpdate ==
  [domain : Host \cup {NoHost, Keep}, replicas : Nat \cup {Keep},
   env : Environment, envRemove : SUBSET Key,
   volumes : SUBSET Volume, volumeRemove : SUBSET {v.name : v \in Volume}]

ASSUME DataAssumption ==
  /\ NewApp \subseteq AppDefinition /\ NoApp \notin AppDefinition
  /\ Change \subseteq AppUpdate

VARIABLES
  defs,     \* the apps table
  live,     \* the apps with an active deployment
  up,       \* the replicas of the live release that answer
  conf,     \* the proxy's upstreams of each host; a host without a route has none
  mu,       \* who holds Reconciler.mu
  req,      \* what each goroutine is at
  owed,     \* history: something failed since the last reconciliation
  raced,    \* history: an update was written over another one since then
  left      \* what is left of each bound

vars == <<defs, live, up, conf, mu, req, owed, raced, left>>

Proc == Caller \cup {Watcher, Healer}
Index == 0..MaxReplicas - 1
Idle == [step |-> "idle", app |-> NoApp, upd |-> Keep, cur |-> NoApp, n |-> 0,
         repair |-> FALSE, next |-> Keep]

Spend(what) == left[what] > 0 /\ left' = [left EXCEPT ![what] = @ - 1]
Goto(p, step) == [req[p] EXCEPT !.step = step]

-----------------------------------------------------------------------------
(* Validation: of kadrand, and of the executor, which is the authority.  *)

\* The bytes of all entries, each at its place in the entry of its key.
EnvSize(env, perEntry) ==
  Cardinality(UNION {{k} \X (1..KeyBytes + env[k] + perEntry) : k \in DOMAIN env})

\* Mutant: the limit is per value, as it is for build arguments.
EachEnvFits(env) ==
  /\ Cardinality(DOMAIN env) <= MaxEnvEntries
  /\ \A k \in DOMAIN env : KeyBytes + env[k] + 1 <= MaxEnvBytes

\* kadrand counts the "=" of each entry too.
EnvFits(env) ==
  /\ Cardinality(DOMAIN env) <= MaxEnvEntries
  /\ EnvSize(env, 1) <= MaxEnvBytes

Overlap(p, q) == IsPrefix(p, q) \/ IsPrefix(q, p)
PathFits(p) == p # <<>> /\ p[1] \notin Forbidden

VolumesFit(vols) ==
  /\ Cardinality(vols) <= MaxVolumes
  /\ \A v \in vols : PathFits(v.path)
  /\ \A v, w \in vols : v # w => v.name # w.name /\ ~Overlap(v.path, w.path)

\* validateAppSpec: limits are left out, see the README.
Accepts(d) ==
  /\ EnvFits(d.env)
  /\ VolumesFit(d.volumes)
  /\ d.replicas \in 1..MaxReplicas

\* validateCreate, for one replica: names may repeat.
ExecEnvFits(env) ==
  /\ Cardinality(DOMAIN env) <= MaxEnvEntries
  /\ EnvSize(env, 0) <= MaxEnvBytes
ExecVolumesFit(vols) ==
  /\ Cardinality(vols) <= MaxVolumes
  /\ \A v \in vols : PathFits(v.path)
  /\ \A v, w \in vols : v # w => ~Overlap(v.path, w.path)
ExecAccepts(d, i) == i < MaxReplicas /\ ExecEnvFits(d.env) /\ ExecVolumesFit(d.volumes)

\* A change that sets and removes the same thing is refused.
Contradicts(u) ==
  \/ DOMAIN u.env \cap u.envRemove # {}
  \/ \E v \in u.volumes : v.name \in u.volumeRemove

-----------------------------------------------------------------------------
(* AppUpdate.Apply *)

Given(new, old) == IF new = Keep THEN old ELSE new

\* applyEnv: first set, then removed.
MergeEnv(env, set, remove) ==
  [k \in (DOMAIN env \cup DOMAIN set) \ remove |->
     IF k \in DOMAIN set THEN set[k] ELSE env[k]]

\* applyVolumes: a volume is known by its name.
MergeVolumes(vols, set, remove) ==
  {v \in set \cup {w \in vols : \A s \in set : s.name # w.name} : v.name \notin remove}

Apply(u, d) ==
  [domain   |-> Given(u.domain, d.domain),
   replicas |-> Given(u.replicas, d.replicas),
   env      |-> MergeEnv(d.env, u.env, u.envRemove),
   volumes  |-> MergeVolumes(d.volumes, u.volumes, u.volumeRemove)]

\* Mutant: a new replica count does not concern the proxy.
MovesHost(u, d) == u.domain # Keep /\ u.domain # d.domain

\* Whether an update concerns the proxy, by the definition it was read over.
Moves(u, d) ==
  \/ u.domain # Keep /\ u.domain # d.domain
  \/ u.replicas # Keep /\ u.replicas # d.replicas

\* The partial unique index on apps.domain.
Taken(host, a) ==
  host # NoHost /\ \E b \in App \ {a} : defs[b] # NoApp /\ defs[b].domain = host

-----------------------------------------------------------------------------
(* Reconciler.plan *)

Deployed == {a \in live : defs[a].domain # NoHost}
Wanted(a) == {i \in up[a] : i < defs[a].replicas}

\* The routes of the apps that can be routed; `blind' are those whose
\* containers cannot be listed.
Routes(blind) ==
  [h \in Host |->
     UNION {{<<a, i>> : i \in Wanted(a)} :
              a \in {b \in Deployed \ blind : defs[b].domain = h}}]

Skipped(blind) == {a \in Deployed : a \in blind \/ Wanted(a) = {}}

\* Repair keeps what the proxy has for the hosts of the apps it skips.
Repaired(blind) ==
  [h \in Host |->
     IF \E a \in Skipped(blind) : defs[a].domain = h THEN conf[h] ELSE Routes(blind)[h]]

Missing(blind) == {h \in Host : Routes(blind)[h] # {} /\ conf[h] = {}}

-----------------------------------------------------------------------------
(* The API's calls. *)

\* CreateApp: validate, insert; no container, so no route.
Create(c, a, d) ==
  /\ req[c].step = "idle" /\ Spend("requests")
  /\ defs' = IF Accepts(d) /\ defs[a] = NoApp /\ ~Taken(d.domain, a)
             THEN [defs EXCEPT ![a] = d] ELSE defs
  /\ UNCHANGED <<live, up, conf, mu, req, owed, raced>>

\* DeleteApp of an app that is not live; that of a live one is refused.
Delete(c, a) ==
  /\ req[c].step = "idle" /\ Spend("requests")
  /\ defs[a] # NoApp /\ a \notin live
  /\ defs' = [defs EXCEPT ![a] = NoApp]
  /\ UNCHANGED <<live, up, conf, mu, req, owed, raced>>

\* UpdateApp up to the write: read, merge, validate what was merged.
BeginUpdate(c, a, u) ==
  /\ req[c].step = "idle" /\ Spend("requests")
  /\ req' = IF Contradicts(u) \/ defs[a] = NoApp \/ ~Accepts(Apply(u, defs[a])) THEN req
            ELSE [req EXCEPT ![c] = [Idle EXCEPT !.step = "write", !.app = a,
                                                 !.upd = u, !.cur = defs[a]]]
  /\ UNCHANGED <<defs, live, up, conf, mu, owed, raced>>

Writable(c) ==
  /\ defs[req[c].app] # NoApp
  /\ ~Taken(Apply(req[c].upd, defs[req[c].app]).domain, req[c].app)

AfterWrite(c) ==
  IF Moves(req[c].upd, req[c].cur) THEN [Idle EXCEPT !.step = "plan", !.app = req[c].app]
  ELSE Idle

\* Mutant: what was validated is written, not what the row says now.
WriteValidated(c) ==
  /\ req[c].step = "write"
  /\ IF Writable(c)
     THEN /\ defs' = [defs EXCEPT ![req[c].app] = Apply(req[c].upd, req[c].cur)]
          /\ raced' = IF req[c].cur = defs[req[c].app] THEN raced
                      ELSE raced \cup {req[c].app}
          /\ req' = [req EXCEPT ![c] = AfterWrite(c)]
     ELSE UNCHANGED <<defs, raced>> /\ req' = [req EXCEPT ![c] = Idle]
  /\ UNCHANGED <<live, up, conf, mu, owed, left>>

\* Store.UpdateApp reads the row again, in the transaction that writes it;
\* what the handler compares is what it read before.
Write(c) ==
  /\ req[c].step = "write"
  /\ IF Writable(c)
     THEN /\ defs' = [defs EXCEPT ![req[c].app] = Apply(req[c].upd, @)]
          /\ raced' = IF req[c].cur = defs[req[c].app] THEN raced
                      ELSE raced \cup {req[c].app}
          /\ req' = [req EXCEPT ![c] = AfterWrite(c)]
     ELSE UNCHANGED <<defs, raced>> /\ req' = [req EXCEPT ![c] = Idle]
  /\ UNCHANGED <<live, up, conf, mu, owed, left>>

\* The row is written but its audit record is not: the handler ends.
WriteUnrecorded(c) ==
  /\ req[c].step = "write" /\ Writable(c) /\ Spend("faults")
  /\ defs' = [defs EXCEPT ![req[c].app] = Apply(req[c].upd, @)]
  /\ raced' = IF req[c].cur = defs[req[c].app] THEN raced ELSE raced \cup {req[c].app}
  /\ owed' = TRUE
  /\ req' = [req EXCEPT ![c] = Idle]
  /\ UNCHANGED <<live, up, conf, mu>>

-----------------------------------------------------------------------------
(* Containers: deployments and heals, and what happens to them. *)

\* Deploy reads the definition; a long build follows.
BeginDeploy(c, a) ==
  /\ req[c].step = "idle" /\ Spend("requests")
  /\ defs[a] # NoApp
  /\ req' = [req EXCEPT ![c] = [Idle EXCEPT !.step = "deploy", !.app = a,
                                            !.n = defs[a].replicas]]
  /\ UNCHANGED <<defs, live, up, conf, mu, owed, raced>>

\* The new release's replicas answer and it is made the active one.
Activate(c) ==
  /\ req[c].step = "deploy"
  /\ IF defs[req[c].app] = NoApp
     THEN UNCHANGED <<live, up>> /\ req' = [req EXCEPT ![c] = Idle]
     ELSE /\ live' = live \cup {req[c].app}
          /\ up' = [up EXCEPT ![req[c].app] = 0..req[c].n - 1]
          /\ req' = [req EXCEPT ![c] = [Idle EXCEPT !.step = "plan", !.app = req[c].app]]
  /\ UNCHANGED <<defs, conf, mu, owed, raced, left>>

\* Supervisor.visit finds fewer replicas answering than are wanted.
BeginHeal(a) ==
  /\ req[Healer].step = "idle" /\ a \in live
  /\ Cardinality(Wanted(a)) < defs[a].replicas
  /\ req' = [req EXCEPT ![Healer] = [Idle EXCEPT !.step = "heal", !.app = a,
                                                 !.n = defs[a].replicas]]
  /\ UNCHANGED <<defs, live, up, conf, mu, owed, raced, left>>

\* ensureReplicas starts what is missing and stops what is beyond the count it
\* was called with.
Heal ==
  /\ req[Healer].step = "heal"
  /\ up' = [up EXCEPT ![req[Healer].app] = 0..req[Healer].n - 1]
  /\ req' = [req EXCEPT ![Healer] = [Idle EXCEPT !.step = "plan", !.app = req[Healer].app]]
  /\ UNCHANGED <<defs, live, conf, mu, owed, raced, left>>

ReplicaDies(a, i) ==
  /\ i \in up[a] /\ Spend("faults")
  /\ up' = [up EXCEPT ![a] = @ \ {i}]
  /\ owed' = TRUE
  /\ UNCHANGED <<defs, live, conf, mu, req, raced>>

-----------------------------------------------------------------------------
(* Reconciler: Reconcile and Repair, under its mutex. *)

\* The watcher's timer.
Tick ==
  /\ req[Watcher].step = "idle"
  /\ req' = [req EXCEPT ![Watcher] = [Idle EXCEPT !.step = "plan", !.repair = TRUE]]
  /\ UNCHANGED <<defs, live, up, conf, mu, owed, raced, left>>

\* The new configuration is made of what the store and the host say now.
Plan(p) ==
  /\ req[p].step = "plan" /\ ~req[p].repair /\ mu = Nobody
  /\ mu' = p
  /\ req' = [req EXCEPT ![p] = [Goto(p, "load") EXCEPT !.next = Routes({})]]
  /\ owed' = FALSE
  /\ UNCHANGED <<defs, live, up, conf, raced, left>>

\* The containers of one app cannot be listed: it is skipped.
PlanBlind(p) ==
  /\ req[p].step = "plan" /\ ~req[p].repair /\ mu = Nobody /\ Spend("faults")
  /\ mu' = p
  /\ \E a \in Deployed :
       req' = [req EXCEPT ![p] = [Goto(p, "load") EXCEPT !.next = Routes({a})]]
  /\ owed' = TRUE
  /\ UNCHANGED <<defs, live, up, conf, raced>>

\* Mutant: a host that is missing is left to the next reconciliation.
PlanRepairNever ==
  /\ req[Watcher].step = "plan" /\ req[Watcher].repair /\ mu = Nobody
  /\ req' = [req EXCEPT ![Watcher] = Idle]
  /\ UNCHANGED <<defs, live, up, conf, mu, owed, raced, left>>

\* Repair loads only if a host that should have a route has none at all.
PlanRepair ==
  /\ req[Watcher].step = "plan" /\ req[Watcher].repair /\ mu = Nobody
  /\ IF Missing({}) = {}
     THEN req' = [req EXCEPT ![Watcher] = Idle] /\ UNCHANGED <<mu, owed>>
     ELSE /\ mu' = Watcher
          /\ req' = [req EXCEPT ![Watcher] = [Goto(Watcher, "load") EXCEPT !.next = Repaired({})]]
          /\ owed' = (owed /\ Skipped({}) # {})
  /\ UNCHANGED <<defs, live, up, conf, raced, left>>

Load(p) ==
  /\ req[p].step = "load"
  /\ conf' = req[p].next
  /\ mu' = Nobody
  /\ req' = [req EXCEPT ![p] = Idle]
  /\ UNCHANGED <<defs, live, up, owed, raced, left>>

\* The load fails before it takes effect, or its reading back does after it.
LoadFails(p) ==
  /\ req[p].step = "load" /\ Spend("faults")
  /\ conf' \in {conf, req[p].next}
  /\ mu' = Nobody
  /\ owed' = TRUE
  /\ req' = [req EXCEPT ![p] = Idle]
  /\ UNCHANGED <<defs, live, up, raced>>

\* Caddy comes back without routes (it is not run with --resume).
ProxyRestarts ==
  /\ Spend("faults")
  /\ conf' = [h \in Host |-> {}]
  /\ owed' = TRUE
  /\ UNCHANGED <<defs, live, up, mu, req, raced>>

\* kadrand is killed and started: what was in flight is gone, and it
\* reconciles before it listens.
Restart ==
  /\ Spend("faults")
  /\ mu' = Nobody
  /\ req' = [p \in Proc |-> IF p = Watcher THEN [Idle EXCEPT !.step = "plan"] ELSE Idle]
  /\ owed' = TRUE
  /\ UNCHANGED <<defs, live, up, conf, raced>>

Init ==
  /\ defs = [a \in App |-> NoApp]
  /\ live = {}
  /\ up = [a \in App |-> {}]
  /\ conf = [h \in Host |-> {}]
  /\ mu = Nobody
  /\ req = [p \in Proc |-> Idle]
  /\ owed = FALSE /\ raced = {}
  /\ left = [requests |-> MaxRequests, faults |-> MaxFaults]

\* What a goroutine does without being called.
Advance(p) == Plan(p) \/ Load(p) \/ (p \in Caller /\ (Write(p) \/ Activate(p)))

Next ==
  \/ \E c \in Caller, a \in App :
       \/ \E d \in NewApp : Create(c, a, d)
       \/ \E u \in Change : BeginUpdate(c, a, u)
       \/ Delete(c, a) \/ BeginDeploy(c, a)
  \/ \E c \in Caller : WriteUnrecorded(c)
  \/ \E p \in Proc : Advance(p) \/ PlanBlind(p) \/ LoadFails(p)
  \/ \E a \in App : BeginHeal(a) \/ \E i \in Index : ReplicaDies(a, i)
  \/ Heal \/ Tick \/ PlanRepair \/ ProxyRestarts \/ Restart

Spec == Init /\ [][Next]_vars

\* Goroutines run on, the watcher's timer fires, and Go's mutex starves nobody.
Fairness ==
  /\ \A p \in Proc : WF_vars(Advance(p))
  /\ WF_vars(Heal) /\ WF_vars(Tick) /\ WF_vars(PlanRepair)

FairSpec == Spec /\ Fairness

-----------------------------------------------------------------------------
(* Properties. *)

Existing == {a \in App : defs[a] # NoApp}

\* Types; a deployed app exists; Reconciler.mu is held by who loads.
DefTypeOK ==
  /\ live \subseteq Existing
  /\ \A a \in Existing : defs[a].domain \in Host \cup {NoHost}
  /\ up \in [App -> SUBSET Index] /\ conf \in [Host -> SUBSET (App \X Index)]
  /\ \A p \in Proc : (mu = p) <=> (req[p].step = "load")
  /\ owed \in BOOLEAN /\ raced \subseteq App

Deployable(d) == \A i \in 0..d.replicas - 1 : ExecAccepts(d, i)

\* appvalidate.go:59, volumevalidate.go:24 : kadrand's validation is not looser
\* than the executor's, so a definition that only ever changed under updates
\* that saw it is one the executor creates every replica of, but for its
\* limits.
StoredIsDeployable == \A a \in Existing \ raced : Deployable(defs[a])

Quiet == \A p \in Proc : req[p].step = "idle" \/ (p = Watcher /\ req[p].step = "plan" /\ req[p].repair)

\* When no call is in flight and none failed, the proxy routes every host to
\* the replicas its app is defined to have, whichever reconciliation was last.
RoutesSettled == Quiet /\ ~owed /\ raced = {} => conf = Routes({})

\* No update is lost: a field changes only by an update that names it, whatever
\* was written since that update read the row.
Names(u, field) ==
  CASE field = "domain" -> u.domain # Keep
    [] field = "replicas" -> u.replicas # Keep
    [] field = "env" -> u.env # <<>> \/ u.envRemove # {}
    [] field = "volumes" -> u.volumes \cup u.volumeRemove # {}
UpdatesMerge ==
  [][ \A a \in Existing : defs'[a] # NoApp =>
        \A f \in DOMAIN defs[a] : defs'[a][f] # defs[a][f] =>
          \E c \in Caller : req[c].step = "write" /\ req[c].app = a /\ Names(req[c].upd, f) ]_vars

\* A host whose app can be served does not stay without a route: the watcher
\* brings back what the proxy lost, whatever failed before.
LostHostsReturn ==
  \A h \in Host : []<>(Routes({})[h] # {} => conf[h] # {})
=============================================================================
