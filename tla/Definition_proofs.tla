------------------------- MODULE Definition_proofs -------------------------
(***************************************************************************)
(* For any definitions, updates, callers and faults: no update is lost to  *)
(* one that was written beside it, and when every call has returned and    *)
(* none failed the proxy routes every host as the definitions say.  What   *)
(* is stored is what the executor creates containers from.                 *)
(***************************************************************************)
EXTENDS Definition, FiniteSetTheorems, TLAPS

Routing == [Host -> SUBSET (App \X Index)]

Request ==
  [step : {"idle", "write", "deploy", "heal", "plan", "load"},
   app : App \cup {NoApp}, upd : Change \cup {Keep}, cur : AppDefinition \cup {NoApp},
   n : 0..MaxReplicas, repair : BOOLEAN, next : Routing \cup {Keep}]

\* What a goroutine needs at the step it is at.
Sound(r) ==
  /\ r \in Request
  /\ r.step \in {"write", "deploy", "heal"} => r.app \in App
  /\ r.step = "write" => r.upd \in Change /\ r.upd.replicas \in {Keep} \cup 1..MaxReplicas
  /\ r.step = "load" => r.next \in Routing

RequestsSound ==
  /\ DOMAIN req = Proc
  /\ \A p \in Proc : Sound(req[p])

Mutex == \A p \in Proc : (mu = p) <=> (req[p].step = "load")

DefsSound ==
  /\ defs \in [App -> AppDefinition \cup {NoApp}]
  /\ \A a \in Existing : defs[a].replicas \in 1..MaxReplicas
  /\ live \subseteq Existing

RoutesSound ==
  /\ up \in [App -> SUBSET Index]
  /\ conf \in Routing
  /\ owed \in BOOLEAN
  /\ raced \subseteq App

\* Someone is about to reconcile; someone is about to load the right routes.
Awaits(r) == r.step = "plan" /\ ~r.repair
Awaited == \E p \in Proc : Awaits(req[p])
Planned == \E p \in Proc : req[p].step = "load" /\ req[p].next = Routes({})
Loaded == (\A p \in Proc : req[p].step # "load") /\ conf = Routes({})

Settling == ~owed /\ raced = {} => Awaited \/ Planned \/ Loaded

DefInv == RequestsSound /\ Mutex /\ DefsSound /\ RoutesSound /\ Settling

-----------------------------------------------------------------------------
(* What the operators yield. *)

LEMMA ProcFacts ==
  /\ Nobody \notin Proc /\ Watcher \in Proc /\ Healer \in Proc /\ Caller \subseteq Proc
  /\ Watcher # Healer /\ Watcher \notin Caller /\ Healer \notin Caller
  BY DefinitionAssumption DEF Proc

LEMMA IdleIsSound == Sound(Idle) /\ Idle.step = "idle" /\ Idle.repair = FALSE
  BY DefinitionAssumption DEF Sound, Request, Idle

\* An environment that is merged is an environment.
LEMMA MergedEnvironment ==
  ASSUME NEW e \in Environment, NEW s \in Environment, NEW r
  PROVE  MergeEnv(e, s, r) \in Environment
<1>1. PICK K \in SUBSET Key : e \in [K -> 0..MaxEnvBytes]
  BY DEF Environment
<1>2. PICK S \in SUBSET Key : s \in [S -> 0..MaxEnvBytes]
  BY DEF Environment
<1> DEFINE M == (K \cup S) \ r
<1>3. MergeEnv(e, s, r) \in [M -> 0..MaxEnvBytes]
  BY <1>1, <1>2 DEF MergeEnv
<1>4. M \in SUBSET Key
  OBVIOUS
<1> QED
  BY <1>3, <1>4 DEF Environment

\* A definition that is updated is a definition.
LEMMA UpdatedDefinition ==
  ASSUME NEW u \in AppUpdate, NEW d \in AppDefinition
  PROVE  /\ Apply(u, d) \in AppDefinition
         /\ Apply(u, d) # NoApp
         /\ Apply(u, d).replicas = Given(u.replicas, d.replicas)
         /\ Apply(u, d).domain = Given(u.domain, d.domain)
<1>1. Given(u.domain, d.domain) \in Host \cup {NoHost}
  BY DEF Given, AppUpdate, AppDefinition
<1>2. Given(u.replicas, d.replicas) \in Nat
  BY DEF Given, AppUpdate, AppDefinition
<1>3. MergeEnv(d.env, u.env, u.envRemove) \in Environment
  BY MergedEnvironment DEF AppUpdate, AppDefinition
<1>4. MergeVolumes(d.volumes, u.volumes, u.volumeRemove) \in SUBSET Volume
  BY DEF MergeVolumes, AppUpdate, AppDefinition
<1>5. Apply(u, d) \in AppDefinition
  BY <1>1, <1>2, <1>3, <1>4 DEF Apply, AppDefinition
<1> QED
  BY <1>5, DataAssumption DEF Apply

\* The routes that are planned are routes.
LEMMA PlannedRoutes ==
  ASSUME RoutesSound, DefsSound, NEW blind
  PROVE  Routes(blind) \in Routing /\ Repaired(blind) \in Routing
<1>1. ASSUME NEW h \in Host
      PROVE  Routes(blind)[h] \in SUBSET (App \X Index)
  <2> DEFINE some == {b \in Deployed \ blind : defs[b].domain = h}
             of(a) == {<<a, i>> : i \in Wanted(a)}
  <2>1. \A a \in some : of(a) \subseteq App \X Index
    <3>1. \A a \in some : a \in App /\ Wanted(a) \subseteq Index
      BY DEF Deployed, DefsSound, Existing, Wanted, RoutesSound
    <3> QED
      BY <3>1
  <2>2. UNION {of(a) : a \in some} \subseteq App \X Index
    BY <2>1
  <2> QED
    BY <2>2 DEF Routes
<1>2. Routes(blind) \in Routing
  BY <1>1 DEF Routes, Routing
<1> QED
  BY <1>2 DEF Repaired, Routing, RoutesSound

\* The routes depend on the live apps, on their domains and replica counts,
\* and on the replicas that answer.
LEMMA RoutesUnchanged ==
  ASSUME live' = live, up' = up,
         \A a \in live : defs'[a].domain = defs[a].domain /\ defs'[a].replicas = defs[a].replicas
  PROVE  Routes({})' = Routes({})
<1>1. Deployed' = Deployed
  BY DEF Deployed
<1>2. ASSUME NEW a \in Deployed
      PROVE  Wanted(a)' = Wanted(a) /\ defs'[a].domain = defs[a].domain
  BY DEF Wanted, Deployed
<1>3. ASSUME NEW h \in Host
      PROVE  UNION {{<<a, i>> : i \in Wanted(a)} : a \in {b \in Deployed \ {} : defs[b].domain = h}}'
               = UNION {{<<a, i>> : i \in Wanted(a)} : a \in {b \in Deployed \ {} : defs[b].domain = h}}
  <2>1. {b \in Deployed \ {} : defs[b].domain = h}' = {b \in Deployed \ {} : defs[b].domain = h}
    BY <1>1, <1>2
  <2> QED
    BY <2>1, <1>2
<1> QED
  BY <1>3 DEF Routes

-----------------------------------------------------------------------------
(* What steps of a kind have in common. *)

Goes(p, r) == req' = [req EXCEPT ![p] = r]

LEMMA GoesFacts ==
  ASSUME RequestsSound, NEW p \in Proc, NEW r, Sound(r), Goes(p, r)
  PROVE  /\ RequestsSound'
         /\ req'[p] = r
         /\ \A q \in Proc : q # p => req'[q] = req[q]
<1>1. /\ DOMAIN req' = Proc /\ req'[p] = r
      /\ \A q \in Proc : q # p => req'[q] = req[q]
  BY DEF Goes, RequestsSound
<1>2. \A q \in Proc : Sound(req'[q])
  BY <1>1 DEF RequestsSound
<1> QED
  BY <1>1, <1>2 DEF RequestsSound

\* Goroutines that are not reconciling go on.
Aside ==
  \A q \in Proc :
    \/ req'[q] = req[q]
    \/ req[q].step # "load" /\ ~Awaits(req[q]) /\ req'[q].step # "load"

\* A step that leaves the routes as they are, and the reconciliations to others.
LEMMA AsideKeeps ==
  ASSUME Mutex, Settling, Aside, mu' = mu, conf' = conf, Routes({})' = Routes({}),
         owed => owed', raced \subseteq raced'
  PROVE  Mutex' /\ Settling'
<1>1. Mutex'
  BY DEF Mutex, Aside
<1>2. ASSUME ~owed', raced' = {}
      PROVE  (Awaited \/ Planned \/ Loaded)'
  <2>1. Awaited \/ Planned \/ Loaded
    BY <1>2 DEF Settling
  <2>2. Awaited => Awaited'
    BY DEF Awaited, Aside
  <2>3. Planned => Planned'
    BY DEF Planned, Aside
  <2>4. Loaded => Loaded'
    BY DEF Loaded, Aside
  <2> QED
    BY <2>1, <2>2, <2>3, <2>4
<1> QED
  BY <1>1, <1>2 DEF Settling

\* A goroutine that changed the routes goes on to reconcile.
LEMMA ReconcileNext ==
  ASSUME Mutex, NEW p \in Proc, req[p].step # "load", mu' = mu, Awaits(req'[p]),
         \A q \in Proc : q # p => req'[q] = req[q]
  PROVE  Mutex' /\ Settling'
<1>1. req'[p].step = "plan"
  BY DEF Awaits
<1> QED
  BY <1>1 DEF Mutex, Settling, Awaited

\* A failure is owed a reconciliation.
LEMMA FailureSettles ==
  ASSUME owed' = TRUE
  PROVE  Settling'
  BY DEF Settling

-----------------------------------------------------------------------------
LEMMA DefInvInit == Init => DefInv
<1> SUFFICES ASSUME Init PROVE DefInv
  OBVIOUS
<1>1. RequestsSound /\ Mutex
  BY IdleIsSound, ProcFacts DEF Init, RequestsSound, Mutex
<1>2. DefsSound
  BY DEF Init, DefsSound, Existing
<1>3. RoutesSound
  BY DEF Init, RoutesSound, Routing
<1>4. conf = Routes({})
  BY DEF Init, Routes, Deployed
<1>5. Loaded
  BY <1>4, IdleIsSound DEF Init, Loaded
<1> QED
  BY <1>1, <1>2, <1>3, <1>5 DEF DefInv, Settling

-----------------------------------------------------------------------------
(* The API's calls. *)

\* CreateApp and DeleteApp: the app is not live, so the routes stay.
LEMMA CreateDeleteKeep ==
  ASSUME DefInv, NEW c \in Caller, NEW a \in App,
         Delete(c, a) \/ \E d \in NewApp : Create(c, a, d)
  PROVE  DefInv'
<1> USE DEF DefInv
<1>1. UNCHANGED <<live, up, conf, mu, req, owed, raced>>
  BY DEF Create, Delete
<1>2. \/ defs' = defs
      \/ a \notin live /\ defs' = [defs EXCEPT ![a] = NoApp]
      \/ \E d \in NewApp : a \notin live /\ Accepts(d) /\ defs' = [defs EXCEPT ![a] = d]
  BY DEF Create, Delete, DefsSound, Existing
<1>3. DefsSound'
  <2>1. CASE defs' = defs
    BY <1>1, <2>1 DEF DefsSound, Existing
  <2>2. CASE a \notin live /\ defs' = [defs EXCEPT ![a] = NoApp]
    BY <1>1, <2>2 DEF DefsSound, Existing
  <2>3. ASSUME NEW d \in NewApp, a \notin live, Accepts(d), defs' = [defs EXCEPT ![a] = d]
        PROVE  DefsSound'
    <3>1. d \in AppDefinition /\ d # NoApp /\ d.replicas \in 1..MaxReplicas
      BY <2>3, DataAssumption DEF Accepts
    <3> QED
      BY <1>1, <2>3, <3>1 DEF DefsSound, Existing
  <2> QED
    BY <1>2, <2>1, <2>2, <2>3
<1>4. \A b \in live : defs'[b] = defs[b]
  BY <1>2 DEF DefsSound, Existing
<1>5. Routes({})' = Routes({})
  BY <1>1, <1>4, RoutesUnchanged
<1>6. Aside
  BY <1>1 DEF Aside
<1>7. Mutex' /\ Settling'
  BY <1>1, <1>5, <1>6, AsideKeeps
<1> QED
  BY <1>1, <1>3, <1>7 DEF RequestsSound, RoutesSound

LEMMA BeginUpdateKeeps ==
  ASSUME DefInv, NEW c \in Caller, NEW a \in App, NEW u \in Change, BeginUpdate(c, a, u)
  PROVE  DefInv'
<1> USE DEF DefInv
<1>1. UNCHANGED <<defs, live, up, conf, mu, owed, raced>> /\ req[c].step = "idle"
  BY DEF BeginUpdate
<1>2. DefsSound' /\ RoutesSound' /\ Routes({})' = Routes({})
  BY <1>1, RoutesUnchanged DEF DefsSound, Existing, RoutesSound
<1> DEFINE r == [Idle EXCEPT !.step = "write", !.app = a, !.upd = u, !.cur = defs[a]]
<1>3. CASE req' = req
  <2>1. Aside /\ RequestsSound'
    BY <1>3 DEF Aside, RequestsSound
  <2> QED
    BY <1>1, <1>2, <2>1, AsideKeeps
<1>4. CASE Goes(c, r) /\ defs[a] # NoApp /\ Accepts(Apply(u, defs[a]))
  <2>1. u \in AppUpdate /\ defs[a] \in AppDefinition
    BY <1>4, DataAssumption DEF DefsSound
  <2>2. Given(u.replicas, defs[a].replicas) \in 1..MaxReplicas
    BY <1>4, <2>1, UpdatedDefinition DEF Accepts
  <2>3. u.replicas \in {Keep} \cup 1..MaxReplicas
    BY <2>2 DEF Given
  <2>4. r \in Request /\ r.step = "write" /\ r.app = a /\ r.upd = u
    BY <2>1, IdleIsSound DEF Sound, Request, Idle
  <2> HIDE DEF r
  <2>5. Sound(r)
    BY <2>3, <2>4 DEF Sound
  <2>6. RequestsSound' /\ Aside
    BY <1>1, <1>4, <2>4, <2>5, GoesFacts, ProcFacts DEF Aside, Awaits
  <2> QED
    BY <1>1, <1>2, <2>6, AsideKeeps
<1> QED
  BY <1>3, <1>4 DEF BeginUpdate, Goes

\* What an update writes over the row it finds.
LEMMA WrittenDefinition ==
  ASSUME DefInv, NEW c \in Caller, req[c].step = "write", Writable(c),
         defs' = [defs EXCEPT ![req[c].app] = Apply(req[c].upd, @)], live' = live
  PROVE  DefsSound'
<1> DEFINE a == req[c].app
           u == req[c].upd
<1>1. Sound(req[c])
  BY ProcFacts DEF DefInv, RequestsSound
<1>2. /\ a \in App /\ u \in AppUpdate /\ u.replicas \in {Keep} \cup 1..MaxReplicas
      /\ defs[a] \in AppDefinition /\ defs[a].replicas \in 1..MaxReplicas
  BY <1>1, DataAssumption DEF Sound, Writable, DefInv, DefsSound, Existing
<1>3. /\ Apply(u, defs[a]) \in AppDefinition /\ Apply(u, defs[a]) # NoApp
      /\ Apply(u, defs[a]).replicas \in 1..MaxReplicas
  BY <1>2, UpdatedDefinition DEF Given
<1>4. defs' = [defs EXCEPT ![a] = Apply(u, defs[a])]
  OBVIOUS
<1> HIDE DEF a, u
<1> QED
  BY <1>2, <1>3, <1>4 DEF DefInv, DefsSound, Existing

LEMMA AfterWriteIsSound ==
  ASSUME DefInv, NEW c \in Caller, req[c].step = "write"
  PROVE  /\ Sound(AfterWrite(c)) /\ AfterWrite(c).step # "load"
         /\ Moves(req[c].upd, req[c].cur) => Awaits(AfterWrite(c))
<1> DEFINE r == [Idle EXCEPT !.step = "plan", !.app = req[c].app]
<1>1. req[c].app \in App \cup {NoApp}
  BY ProcFacts DEF DefInv, RequestsSound, Sound, Request
<1>2. r \in Request /\ r.step = "plan" /\ r.repair = FALSE
  BY <1>1, IdleIsSound DEF Sound, Request, Idle
<1>3. AfterWrite(c) = IF Moves(req[c].upd, req[c].cur) THEN r ELSE Idle
  BY DEF AfterWrite
<1> HIDE DEF r
<1> QED
  BY <1>2, <1>3, IdleIsSound DEF Sound, Awaits

\* The handler compares with the row it read: if that was the row it wrote
\* over, the proxy is told of all that concerns it.
LEMMA WriteKeeps ==
  ASSUME DefInv, NEW c \in Caller, Write(c)
  PROVE  DefInv'
<1> USE DEF DefInv
<1>1. UNCHANGED <<live, up, conf, mu, owed>> /\ req[c].step = "write" /\ c \in Proc
  BY ProcFacts DEF Write
<1>2. CASE ~Writable(c)
  <2>1. UNCHANGED <<defs, raced>> /\ Goes(c, Idle)
    BY <1>2 DEF Write, Goes
  <2>2. RequestsSound' /\ Aside
    BY <1>1, <2>1, GoesFacts, IdleIsSound DEF Aside, Awaits
  <2>3. DefsSound' /\ RoutesSound' /\ Routes({})' = Routes({})
    BY <1>1, <2>1, RoutesUnchanged DEF DefsSound, Existing, RoutesSound
  <2> QED
    BY <1>1, <2>1, <2>2, <2>3, AsideKeeps
<1>3. CASE Writable(c)
  <2> DEFINE a == req[c].app
             u == req[c].upd
  <2>1. /\ defs' = [defs EXCEPT ![a] = Apply(u, @)]
        /\ raced' = IF req[c].cur = defs[a] THEN raced ELSE raced \cup {a}
        /\ Goes(c, AfterWrite(c))
    BY <1>3 DEF Write, Goes
  <2>2. DefsSound'
    BY <1>1, <1>3, <2>1, WrittenDefinition
  <2>3. /\ RequestsSound' /\ req'[c] = AfterWrite(c)
        /\ \A q \in Proc : q # c => req'[q] = req[q]
    BY <1>1, <2>1, GoesFacts, AfterWriteIsSound
  <2>4. a \in App /\ u \in AppUpdate /\ defs[a] \in AppDefinition
    BY <1>1, <1>3, DataAssumption DEF RequestsSound, Sound, Writable, DefsSound
  <2>5. RoutesSound' /\ raced \subseteq raced'
    BY <1>1, <2>1, <2>4 DEF RoutesSound
  <2>6. CASE Moves(u, req[c].cur)
    BY <1>1, <2>2, <2>3, <2>5, <2>6, AfterWriteIsSound, ReconcileNext
  <2>7. CASE ~Moves(u, req[c].cur) /\ req[c].cur = defs[a]
    <3>1. Apply(u, defs[a]).domain = defs[a].domain /\ Apply(u, defs[a]).replicas = defs[a].replicas
      BY <2>4, <2>7, UpdatedDefinition DEF Moves, Given
    <3>2. defs' = [defs EXCEPT ![a] = Apply(u, defs[a])]
      BY <2>1
    <3> HIDE DEF a, u
    <3>3. \A b \in live : defs'[b].domain = defs[b].domain /\ defs'[b].replicas = defs[b].replicas
      BY <2>4, <3>1, <3>2 DEF DefsSound, Existing
    <3>4. Routes({})' = Routes({})
      BY <1>1, <3>3, RoutesUnchanged
    <3>5. Aside
      BY <1>1, <2>3, AfterWriteIsSound DEF Aside, Awaits
    <3> QED
      BY <1>1, <2>2, <2>3, <2>5, <3>4, <3>5, AsideKeeps
  <2>8. CASE req[c].cur # defs[a]
    <3>1. a \in raced'
      BY <2>1, <2>8
    <3>2. Mutex'
      BY <1>1, <2>3, AfterWriteIsSound DEF Mutex
    <3> QED
      BY <2>2, <2>3, <2>5, <3>1, <3>2 DEF Settling
  <2> QED
    BY <2>6, <2>7, <2>8
<1> QED
  BY <1>2, <1>3

LEMMA WriteUnrecordedKeeps ==
  ASSUME DefInv, NEW c \in Caller, WriteUnrecorded(c)
  PROVE  DefInv'
<1> USE DEF DefInv
<1>1. /\ UNCHANGED <<live, up, conf, mu>> /\ owed' = TRUE
      /\ req[c].step = "write" /\ Writable(c) /\ c \in Proc /\ Goes(c, Idle)
      /\ defs' = [defs EXCEPT ![req[c].app] = Apply(req[c].upd, @)]
      /\ raced' \subseteq raced \cup {req[c].app}
  BY ProcFacts DEF WriteUnrecorded, Goes
<1>2. DefsSound'
  BY <1>1, WrittenDefinition
<1>3. /\ RequestsSound' /\ req'[c] = Idle
      /\ \A q \in Proc : q # c => req'[q] = req[q]
  BY <1>1, GoesFacts, IdleIsSound
<1>4. RoutesSound'
  BY <1>1 DEF RoutesSound, RequestsSound, Sound
<1>5. Mutex' /\ Settling'
  BY <1>1, <1>3, IdleIsSound, FailureSettles DEF Mutex
<1> QED
  BY <1>2, <1>3, <1>4, <1>5

-----------------------------------------------------------------------------
(* Containers. *)

\* A goroutine that comes to wait for the reconciler.
LEMMA ToPlanIsSound ==
  ASSUME DefInv, NEW p \in Proc
  PROVE  /\ Sound([Idle EXCEPT !.step = "plan", !.app = req[p].app])
         /\ Awaits([Idle EXCEPT !.step = "plan", !.app = req[p].app])
<1> DEFINE r == [Idle EXCEPT !.step = "plan", !.app = req[p].app]
<1>1. req[p].app \in App \cup {NoApp}
  BY DEF DefInv, RequestsSound, Sound, Request
<1>2. r \in Request /\ r.step = "plan" /\ r.repair = FALSE
  BY <1>1, IdleIsSound DEF Sound, Request, Idle
<1>3. Sound(r) /\ Awaits(r)
  <2> HIDE DEF r
  <2> QED
    BY <1>2 DEF Sound, Awaits
<1> QED
  BY <1>3

\* Deploy and the supervisor start with the replica count they read.
LEMMA BeginKeeps ==
  ASSUME DefInv, NEW a \in App, BeginHeal(a) \/ \E c \in Caller : BeginDeploy(c, a)
  PROVE  DefInv'
<1> USE DEF DefInv
<1> DEFINE r(step) == [Idle EXCEPT !.step = step, !.app = a, !.n = defs[a].replicas]
<1>1. /\ UNCHANGED <<defs, live, up, conf, mu, owed, raced>> /\ a \in Existing
      /\ \E p \in Proc, step \in {"deploy", "heal"} : req[p].step = "idle" /\ Goes(p, r(step))
  BY ProcFacts DEF BeginHeal, BeginDeploy, Goes, DefsSound, Existing
<1>2. PICK p \in Proc, step \in {"deploy", "heal"} : req[p].step = "idle" /\ Goes(p, r(step))
  BY <1>1
<1>3. defs[a].replicas \in 0..MaxReplicas
  BY <1>1, DefinitionAssumption DEF DefsSound
<1>4. r(step) \in Request /\ r(step).step = step /\ r(step).app = a
  BY <1>3, IdleIsSound DEF Sound, Request, Idle
<1> HIDE DEF r
<1>5. Sound(r(step))
  BY <1>4 DEF Sound
<1>6. RequestsSound' /\ Aside
  BY <1>2, <1>4, <1>5, GoesFacts DEF Aside, Awaits
<1>7. DefsSound' /\ RoutesSound' /\ Routes({})' = Routes({})
  BY <1>1, RoutesUnchanged DEF DefsSound, Existing, RoutesSound
<1> QED
  BY <1>1, <1>6, <1>7, AsideKeeps

LEMMA UpIsTyped ==
  ASSUME RoutesSound, NEW a \in App, NEW n \in 0..MaxReplicas
  PROVE  [up EXCEPT ![a] = 0..n - 1] \in [App -> SUBSET Index]
<1>1. 0..n - 1 \in SUBSET Index
  BY DefinitionAssumption DEF Index
<1> QED
  BY <1>1 DEF RoutesSound

\* Deploy makes its release the live one, the supervisor has healed it.
LEMMA RenewKeeps ==
  ASSUME DefInv, Heal \/ \E c \in Caller : Activate(c)
  PROVE  DefInv'
<1> USE DEF DefInv
<1>1. /\ UNCHANGED <<defs, conf, mu, owed, raced>>
      /\ \E p \in Proc :
           /\ req[p].step \in {"deploy", "heal"}
           /\ \/ UNCHANGED <<live, up>> /\ Goes(p, Idle)
              \/ /\ live' \subseteq live \cup {a \in {req[p].app} : defs[a] # NoApp}
                 /\ up' = [up EXCEPT ![req[p].app] = 0..req[p].n - 1]
                 /\ Goes(p, [Idle EXCEPT !.step = "plan", !.app = req[p].app])
  BY ProcFacts DEF Heal, Activate, Goes
<1>2. PICK p \in Proc :
           /\ req[p].step \in {"deploy", "heal"}
           /\ \/ UNCHANGED <<live, up>> /\ Goes(p, Idle)
              \/ /\ live' \subseteq live \cup {a \in {req[p].app} : defs[a] # NoApp}
                 /\ up' = [up EXCEPT ![req[p].app] = 0..req[p].n - 1]
                 /\ Goes(p, [Idle EXCEPT !.step = "plan", !.app = req[p].app])
  BY <1>1
<1>3. req[p].app \in App /\ req[p].n \in 0..MaxReplicas
  BY <1>2 DEF RequestsSound, Sound, Request
<1>4. CASE UNCHANGED <<live, up>> /\ Goes(p, Idle)
  <2>1. RequestsSound' /\ Aside
    BY <1>2, <1>4, GoesFacts, IdleIsSound DEF Aside, Awaits
  <2>2. DefsSound' /\ RoutesSound' /\ Routes({})' = Routes({})
    BY <1>1, <1>4, RoutesUnchanged DEF DefsSound, Existing, RoutesSound
  <2> QED
    BY <1>1, <2>1, <2>2, AsideKeeps
<1>5. CASE /\ live' \subseteq live \cup {a \in {req[p].app} : defs[a] # NoApp}
           /\ up' = [up EXCEPT ![req[p].app] = 0..req[p].n - 1]
           /\ Goes(p, [Idle EXCEPT !.step = "plan", !.app = req[p].app])
  <2>1. /\ RequestsSound' /\ req'[p] = [Idle EXCEPT !.step = "plan", !.app = req[p].app]
        /\ \A q \in Proc : q # p => req'[q] = req[q]
    BY <1>5, GoesFacts, ToPlanIsSound
  <2>2. DefsSound' /\ RoutesSound'
    BY <1>1, <1>3, <1>5, UpIsTyped DEF DefsSound, Existing, RoutesSound
  <2>3. Awaits(req'[p])
    BY <2>1, ToPlanIsSound
  <2> QED
    BY <1>1, <1>2, <2>1, <2>2, <2>3, ReconcileNext
<1> QED
  BY <1>2, <1>4, <1>5

LEMMA ReplicaDiesKeeps ==
  ASSUME DefInv, NEW a \in App, NEW i \in Index, ReplicaDies(a, i)
  PROVE  DefInv'
<1> USE DEF DefInv
<1>1. /\ UNCHANGED <<defs, live, conf, mu, req, raced>> /\ owed' = TRUE
      /\ up' = [up EXCEPT ![a] = @ \ {i}]
  BY DEF ReplicaDies
<1>2. RequestsSound' /\ Mutex' /\ DefsSound'
  BY <1>1 DEF RequestsSound, Mutex, DefsSound, Existing
<1>3. RoutesSound'
  BY <1>1 DEF RoutesSound
<1> QED
  BY <1>1, <1>2, <1>3, FailureSettles

-----------------------------------------------------------------------------
(* The reconciliations. *)

LEMMA TickKeeps ==
  ASSUME DefInv, Tick
  PROVE  DefInv'
<1> USE DEF DefInv
<1> DEFINE r == [Idle EXCEPT !.step = "plan", !.repair = TRUE]
<1>1. /\ UNCHANGED <<defs, live, up, conf, mu, owed, raced>>
      /\ req[Watcher].step = "idle" /\ Goes(Watcher, r)
  BY DEF Tick, Goes
<1>2. r \in Request /\ r.step = "plan"
  BY IdleIsSound DEF Sound, Request, Idle
<1> HIDE DEF r
<1>3. Sound(r)
  BY <1>2 DEF Sound
<1>4. RequestsSound' /\ Aside
  BY <1>1, <1>2, <1>3, GoesFacts, ProcFacts DEF Aside, Awaits
<1>5. DefsSound' /\ RoutesSound' /\ Routes({})' = Routes({})
  BY <1>1, RoutesUnchanged DEF DefsSound, Existing, RoutesSound
<1> QED
  BY <1>1, <1>4, <1>5, AsideKeeps

Loads(p, cfg) == Goes(p, [Goto(p, "load") EXCEPT !.next = cfg])

\* Whoever plans with the mutex free is the one that loads.
LEMMA ToLoad ==
  ASSUME DefInv, NEW p \in Proc, NEW cfg \in Routing, req[p].step = "plan", mu = Nobody, mu' = p,
         Loads(p, cfg)
  PROVE  /\ RequestsSound' /\ Mutex'
         /\ req'[p].step = "load" /\ req'[p].next = cfg
         /\ \A q \in Proc : q # p => req'[q] = req[q]
<1> USE DEF DefInv
<1> DEFINE r == [Goto(p, "load") EXCEPT !.next = cfg]
<1>1. req[p] \in Request
  BY DEF RequestsSound, Sound
<1>2. r \in Request /\ r.step = "load" /\ r.next = cfg
  BY <1>1 DEF Goto, Request
<1>3. Goes(p, r)
  BY DEF Loads
<1> HIDE DEF r
<1>4. Sound(r)
  BY <1>2 DEF Sound
<1>5. RequestsSound' /\ req'[p] = r /\ \A q \in Proc : q # p => req'[q] = req[q]
  BY <1>3, <1>4, GoesFacts
<1>6. Mutex'
  BY <1>2, <1>5, ProcFacts DEF Mutex
<1> QED
  BY <1>2, <1>5, <1>6

LEMMA PlanKeeps ==
  ASSUME DefInv, NEW p \in Proc, Plan(p) \/ PlanBlind(p)
  PROVE  DefInv'
<1> USE DEF DefInv
<1>1. /\ UNCHANGED <<defs, live, up, conf, raced>> /\ req[p].step = "plan"
      /\ mu = Nobody /\ mu' = p
      /\ \E blind \in SUBSET Deployed :
           /\ Loads(p, Routes(blind))
           /\ owed' = TRUE \/ (owed' = FALSE /\ blind = {})
  <2>1. CASE Plan(p)
    <3>1. Loads(p, Routes({})) /\ owed' = FALSE
      BY <2>1 DEF Plan, Loads, Goes
    <3> QED
      BY <2>1, <3>1 DEF Plan
  <2>2. CASE PlanBlind(p)
    <3>1. PICK a \in Deployed : Loads(p, Routes({a}))
      BY <2>2 DEF PlanBlind, Loads, Goes
    <3>2. {a} \in SUBSET Deployed /\ owed' = TRUE
      BY <2>2 DEF PlanBlind
    <3>3. \E blind \in SUBSET Deployed :
             Loads(p, Routes(blind)) /\ (owed' = TRUE \/ (owed' = FALSE /\ blind = {}))
      BY <3>1, <3>2
    <3> QED
      BY <2>2, <3>3 DEF PlanBlind
  <2> QED
    BY <2>1, <2>2
<1>2. PICK blind \in SUBSET Deployed :
           /\ Loads(p, Routes(blind))
           /\ owed' = TRUE \/ (owed' = FALSE /\ blind = {})
  BY <1>1
<1>3. /\ RequestsSound' /\ Mutex'
      /\ req'[p].step = "load" /\ req'[p].next = Routes(blind)
  BY <1>1, <1>2, ToLoad, PlannedRoutes
<1>4. DefsSound' /\ RoutesSound' /\ Routes({})' = Routes({})
  BY <1>1, <1>2, RoutesUnchanged DEF DefsSound, Existing, RoutesSound
<1>5. Settling'
  BY <1>2, <1>3, <1>4 DEF Settling, Planned
<1> QED
  BY <1>3, <1>4, <1>5

\* What Repair loads when it skips nothing are the routes.
LEMMA RepairedAll ==
  ASSUME Skipped({}) = {}
  PROVE  Repaired({}) = Routes({})
<1>1. \A h \in Host : Routes({})[h] = Repaired({})[h]
  BY DEF Repaired
<1>2. Routes({}) = [h \in Host |-> Routes({})[h]]
  BY DEF Routes
<1> QED
  BY <1>1, <1>2 DEF Repaired

\* Nothing is missing when the routes are loaded.
LEMMA NothingMissing ==
  ASSUME conf = Routes({})
  PROVE  Missing({}) = {}
  BY DEF Missing

LEMMA PlanRepairKeeps ==
  ASSUME DefInv, PlanRepair
  PROVE  DefInv'
<1> USE DEF DefInv
<1>1. /\ UNCHANGED <<defs, live, up, conf, raced>>
      /\ req[Watcher].step = "plan" /\ req[Watcher].repair /\ mu = Nobody
  BY DEF PlanRepair
<1>2. DefsSound' /\ Routes({})' = Routes({})
  BY <1>1, RoutesUnchanged DEF DefsSound, Existing
<1>3. CASE Missing({}) = {}
  <2>1. Goes(Watcher, Idle) /\ UNCHANGED <<mu, owed>>
    BY <1>3 DEF PlanRepair, Goes
  <2>2. RequestsSound' /\ Aside
    BY <1>1, <2>1, GoesFacts, IdleIsSound, ProcFacts DEF Aside, Awaits
  <2>3. RoutesSound'
    BY <1>1, <2>1 DEF RoutesSound
  <2> QED
    BY <1>1, <1>2, <2>1, <2>2, <2>3, AsideKeeps
<1>4. CASE Missing({}) # {}
  <2>1. /\ Loads(Watcher, Repaired({}))
        /\ mu' = Watcher /\ owed' = (owed /\ Skipped({}) # {})
    BY <1>4 DEF PlanRepair, Loads, Goes
  <2>2. /\ RequestsSound' /\ Mutex'
        /\ req'[Watcher].step = "load" /\ req'[Watcher].next = Repaired({})
        /\ \A q \in Proc : q # Watcher => req'[q] = req[q]
    BY <1>1, <2>1, ToLoad, PlannedRoutes, ProcFacts
  <2>3. RoutesSound'
    BY <1>1, <2>1 DEF RoutesSound
  <2>4. ASSUME ~owed', raced' = {}
        PROVE  (Awaited \/ Planned \/ Loaded)'
    <3>1. CASE Skipped({}) = {}
      BY <1>2, <2>2, <3>1, RepairedAll, ProcFacts DEF Planned
    <3>2. CASE Skipped({}) # {}
      <4>1. Awaited \/ Planned \/ Loaded
        BY <1>1, <2>1, <2>4, <3>2 DEF Settling
      <4>2. ~Planned
        BY <1>1, ProcFacts DEF Planned, Mutex
      <4>3. ~Loaded
        BY <1>4, NothingMissing DEF Loaded
      <4>4. Awaited'
        BY <1>1, <2>2, <4>1, <4>2, <4>3 DEF Awaited, Awaits
      <4> QED
        BY <4>4
    <3> QED
      BY <3>1, <3>2
  <2> QED
    BY <1>2, <2>2, <2>3, <2>4 DEF Settling
<1> QED
  BY <1>3, <1>4

\* Only the holder of the mutex loads, so nobody else has a plan to load.
LEMMA LoadKeeps ==
  ASSUME DefInv, NEW p \in Proc, Load(p) \/ LoadFails(p)
  PROVE  DefInv'
<1> USE DEF DefInv
<1>1. /\ UNCHANGED <<defs, live, up, raced>> /\ req[p].step = "load"
      /\ mu' = Nobody /\ Goes(p, Idle)
      /\ conf' \in {conf, req[p].next}
      /\ owed' = TRUE \/ (owed' = owed /\ conf' = req[p].next)
  BY DEF Load, LoadFails, Goes
<1>2. /\ RequestsSound' /\ req'[p] = Idle
      /\ \A q \in Proc : q # p => req'[q] = req[q]
  BY <1>1, GoesFacts, IdleIsSound
<1>3. DefsSound' /\ Routes({})' = Routes({})
  BY <1>1, RoutesUnchanged DEF DefsSound, Existing
<1>4. RoutesSound'
  BY <1>1 DEF RoutesSound, RequestsSound, Sound
<1>5. \A q \in Proc : req'[q].step # "load"
  BY <1>1, <1>2, IdleIsSound DEF Mutex
<1>6. Mutex'
  BY <1>1, <1>5, ProcFacts DEF Mutex
<1>7. ASSUME ~owed', raced' = {}
      PROVE  (Awaited \/ Planned \/ Loaded)'
  <2>1. Awaited \/ Planned \/ Loaded
    BY <1>1, <1>7 DEF Settling
  <2>2. Awaited => Awaited'
    BY <1>1, <1>2 DEF Awaited, Awaits
  <2>3. Planned => Loaded'
    <3>1. Planned => req[p].next = Routes({})
      BY <1>1 DEF Planned, Mutex
    <3> QED
      BY <1>1, <1>3, <1>5, <1>7, <3>1 DEF Loaded
  <2>4. ~Loaded
    BY <1>1 DEF Loaded
  <2> QED
    BY <2>1, <2>2, <2>3, <2>4
<1> QED
  BY <1>2, <1>3, <1>4, <1>6, <1>7 DEF Settling

LEMMA RestartKeeps ==
  ASSUME DefInv, ProxyRestarts \/ Restart
  PROVE  DefInv'
<1> USE DEF DefInv
<1>1. UNCHANGED <<defs, live, up, raced>> /\ owed' = TRUE
  BY DEF ProxyRestarts, Restart
<1>2. DefsSound'
  BY <1>1 DEF DefsSound, Existing
<1>3. RoutesSound'
  BY <1>1 DEF RoutesSound, Routing, ProxyRestarts, Restart
<1>4. RequestsSound' /\ Mutex'
  <2>1. CASE ProxyRestarts
    BY <2>1 DEF ProxyRestarts, RequestsSound, Mutex
  <2>2. CASE Restart
    <3> DEFINE r == [Idle EXCEPT !.step = "plan"]
    <3>1. r \in Request /\ r.step = "plan"
      BY IdleIsSound DEF Sound, Request, Idle
    <3>2. mu' = Nobody /\ req' = [q \in Proc |-> IF q = Watcher THEN r ELSE Idle]
      BY <2>2 DEF Restart
    <3> HIDE DEF r
    <3>3. Sound(r)
      BY <3>1 DEF Sound
    <3> QED
      BY <3>1, <3>2, <3>3, IdleIsSound, ProcFacts DEF RequestsSound, Mutex
  <2> QED
    BY <2>1, <2>2
<1> QED
  BY <1>1, <1>2, <1>3, <1>4, FailureSettles

-----------------------------------------------------------------------------
LEMMA DefInvNext == DefInv /\ [Next]_vars => DefInv'
<1> SUFFICES ASSUME DefInv, [Next]_vars PROVE DefInv'
  OBVIOUS
<1>1. CASE UNCHANGED vars
  <2>1. UNCHANGED <<defs, live, up, conf, mu, req, owed, raced>>
    BY <1>1 DEF vars
  <2>2. RequestsSound' /\ DefsSound' /\ RoutesSound' /\ Routes({})' = Routes({}) /\ Aside
    BY <2>1, RoutesUnchanged DEF DefInv, RequestsSound, DefsSound, Existing, RoutesSound, Aside
  <2> QED
    BY <2>1, <2>2, AsideKeeps DEF DefInv
<1>2. CASE \E c \in Caller, a \in App :
             \/ \E d \in NewApp : Create(c, a, d)
             \/ \E u \in Change : BeginUpdate(c, a, u)
             \/ Delete(c, a) \/ BeginDeploy(c, a)
  BY <1>2, CreateDeleteKeep, BeginUpdateKeeps, BeginKeeps
<1>3. CASE \E c \in Caller : WriteUnrecorded(c)
  BY <1>3, WriteUnrecordedKeeps
<1>4. CASE \E p \in Proc : Advance(p) \/ PlanBlind(p) \/ LoadFails(p)
  BY <1>4, WriteKeeps, RenewKeeps, PlanKeeps, LoadKeeps DEF Advance
<1>5. CASE \E a \in App : BeginHeal(a) \/ \E i \in Index : ReplicaDies(a, i)
  BY <1>5, BeginKeeps, ReplicaDiesKeeps
<1>6. CASE Heal \/ Tick \/ PlanRepair \/ ProxyRestarts \/ Restart
  BY <1>6, RenewKeeps, TickKeeps, PlanRepairKeeps, RestartKeeps
<1> QED
  BY <1>1, <1>2, <1>3, <1>4, <1>5, <1>6 DEF Next

\* The inductive invariant of definitions, requests and routes: what every
\* goroutine needs, and who will bring a route up to date that is not.
THEOREM DefinitionCorrect == Spec => []DefInv
  BY DefInvInit, DefInvNext, PTL DEF Spec

LEMMA DefInvTypes == DefInv => DefTypeOK
<1> SUFFICES ASSUME DefInv PROVE DefTypeOK
  OBVIOUS
<1>1. \A a \in Existing : defs[a].domain \in Host \cup {NoHost}
  BY DEF DefInv, DefsSound, Existing, AppDefinition
<1> QED
  BY <1>1 DEF DefInv, DefTypeOK, DefsSound, RoutesSound, Routing, Mutex

\* A deployed app exists, and Reconciler.mu is held by who loads.
THEOREM DefinitionTypes == Spec => []DefTypeOK
  BY DefinitionCorrect, DefInvTypes, PTL

LEMMA DefInvSettled == DefInv => RoutesSettled
<1> SUFFICES ASSUME DefInv, Quiet, ~owed, raced = {} PROVE conf = Routes({})
  BY DEF RoutesSettled
<1>1. ~Awaited /\ ~Planned
  BY DEF Quiet, Awaited, Awaits, Planned
<1> QED
  BY <1>1 DEF DefInv, Settling, Loaded

\* reconcile.go : when no call is in flight and none failed, the proxy routes
\* every host to the replicas its app is defined to have.
THEOREM RoutesSettle == Spec => []RoutesSettled
  BY DefinitionCorrect, DefInvSettled, PTL

-----------------------------------------------------------------------------
(* Updates. *)

Merges ==
  \A a \in Existing : defs'[a] # NoApp =>
    \A f \in DOMAIN defs[a] : defs'[a][f] # defs[a][f] =>
      \E c \in Caller : req[c].step = "write" /\ req[c].app = a /\ Names(req[c].upd, f)

\* What an update does not name stays.
LEMMA UnnamedStays ==
  ASSUME NEW u \in AppUpdate, NEW d \in AppDefinition, NEW f \in DOMAIN d,
         Apply(u, d)[f] # d[f]
  PROVE  Names(u, f)
<1>1. f \in {"domain", "replicas", "env", "volumes"}
  BY DEF AppDefinition
<1>2. CASE f = "domain"
  BY <1>2 DEF Apply, Given, Names
<1>3. CASE f = "replicas"
  BY <1>3 DEF Apply, Given, Names
<1>4. CASE f = "env"
  <2>1. SUFFICES ASSUME u.env = <<>>, u.envRemove = {} PROVE MergeEnv(d.env, <<>>, {}) = d.env
    BY <1>4 DEF Apply, Names
  <2>2. PICK K \in SUBSET Key : d.env \in [K -> 0..MaxEnvBytes]
    BY DEF AppDefinition, Environment
  <2>3. DOMAIN <<>> = {}
    OBVIOUS
  <2> QED
    BY <2>2, <2>3 DEF MergeEnv
<1>5. CASE f = "volumes"
  <2>1. SUFFICES ASSUME u.volumes = {}, u.volumeRemove = {} PROVE MergeVolumes(d.volumes, {}, {}) = d.volumes
    BY <1>5 DEF Apply, Names
  <2> QED
    BY DEF MergeVolumes
<1> QED
  BY <1>1, <1>2, <1>3, <1>4, <1>5

LEMMA StepsMerge ==
  ASSUME DefInv, Next
  PROVE  Merges
<1>1. CASE defs' = defs
  BY <1>1 DEF Merges
<1>2. ASSUME NEW c \in Caller, NEW b \in App, NEW d \in NewApp, Create(c, b, d)
      PROVE  Merges
  BY <1>2 DEF Create, Merges, Existing, DefInv, DefsSound
<1>3. ASSUME NEW c \in Caller, NEW b \in App, Delete(c, b)
      PROVE  Merges
  BY <1>3 DEF Delete, Merges, Existing, DefInv, DefsSound
<1>4. ASSUME NEW c \in Caller, req[c].step = "write", Writable(c),
             defs' = [defs EXCEPT ![req[c].app] = Apply(req[c].upd, @)]
      PROVE  Merges
  <2>1. /\ req[c].app \in App /\ req[c].upd \in AppUpdate
        /\ defs[req[c].app] \in AppDefinition
    BY <1>4, ProcFacts, DataAssumption DEF DefInv, RequestsSound, Sound, Writable, DefsSound
  <2>2. ASSUME NEW a \in Existing, NEW f \in DOMAIN defs[a], defs'[a][f] # defs[a][f]
        PROVE  req[c].app = a /\ Names(req[c].upd, f)
    <3>1. a = req[c].app
      BY <1>4, <2>2 DEF Existing, DefInv, DefsSound
    <3>2. defs'[a] = Apply(req[c].upd, defs[a])
      BY <1>4, <2>1, <3>1 DEF DefInv, DefsSound
    <3> QED
      BY <2>1, <2>2, <3>1, <3>2, UnnamedStays
  <2> QED
    BY <1>4, <2>2 DEF Merges
<1>5. ASSUME NEW c \in Caller, Write(c) \/ WriteUnrecorded(c)
      PROVE  Merges
  BY <1>1, <1>4, <1>5 DEF Write, WriteUnrecorded
<1>6. CASE \E p \in Proc : Plan(p) \/ Load(p) \/ PlanBlind(p) \/ LoadFails(p)
  BY <1>1, <1>6 DEF Plan, Load, PlanBlind, LoadFails
<1>7. CASE \E c \in Caller, a \in App :
             BeginDeploy(c, a) \/ \E u \in Change : BeginUpdate(c, a, u)
  BY <1>1, <1>7 DEF BeginDeploy, BeginUpdate
<1>8. CASE \/ \E a \in App : BeginHeal(a) \/ \E i \in Index : ReplicaDies(a, i)
           \/ Heal \/ Tick \/ PlanRepair \/ ProxyRestarts \/ Restart
  BY <1>1, <1>8 DEF BeginHeal, ReplicaDies, Heal, Tick, PlanRepair, ProxyRestarts, Restart
<1>9. CASE \E p \in Proc : Advance(p)
  <2>1. PICK p \in Proc : Plan(p) \/ Load(p) \/ (p \in Caller /\ (Write(p) \/ Activate(p)))
    BY <1>9 DEF Advance
  <2>2. CASE p \in Caller /\ Activate(p)
    BY <1>1, <2>2 DEF Activate
  <2> QED
    BY <1>5, <1>6, <2>1, <2>2
<1>10. CASE \E c \in Caller, a \in App :
             \/ \E d \in NewApp : Create(c, a, d)
             \/ \E u \in Change : BeginUpdate(c, a, u)
             \/ Delete(c, a) \/ BeginDeploy(c, a)
  BY <1>2, <1>3, <1>7, <1>10
<1> QED
  BY <1>5, <1>6, <1>8, <1>9, <1>10 DEF Next

\* store/appupdate.go : no update is lost, a field changes only by an update
\* that names it.
THEOREM NoUpdateIsLost == Spec => UpdatesMerge
<1>1. DefInv /\ [Next]_vars => [Merges]_vars
  BY StepsMerge
<1>2. Spec => [][Merges]_vars
  BY <1>1, DefinitionCorrect, PTL DEF Spec
<1> QED
  BY <1>2 DEF Merges, UpdatesMerge

-----------------------------------------------------------------------------
(* What is stored can be deployed. *)

\* The executor counts no more of an environment than kadrand does.
LEMMA EnvSizes ==
  ASSUME NEW env \in Environment
  PROVE  EnvSize(env, 0) \in Nat /\ EnvSize(env, 1) \in Nat /\ EnvSize(env, 0) <= EnvSize(env, 1)
<1>1. PICK K \in SUBSET Key : env \in [K -> 0..MaxEnvBytes]
  BY DEF Environment
<1> DEFINE bytes(n) == UNION {{k} \X (1..KeyBytes + env[k] + n) : k \in DOMAIN env}
           all == Key \X (1..KeyBytes + MaxEnvBytes + 1)
<1>2. IsFiniteSet(all)
  <2>1. IsFiniteSet(1..KeyBytes + MaxEnvBytes + 1)
    BY DefinitionAssumption, FS_Interval
  <2> QED
    BY <2>1, DefinitionAssumption, FS_Product
<1>3. \A k \in K : k \in Key /\ env[k] \in Nat /\ env[k] <= MaxEnvBytes
  BY <1>1, DefinitionAssumption
<1>4. bytes(1) \subseteq all
  <2>1. \A k \in K : {k} \X (1..KeyBytes + env[k] + 1) \subseteq all
    BY <1>3, DefinitionAssumption
  <2> HIDE DEF all
  <2> QED
    BY <1>1, <2>1
<1>5. bytes(0) \subseteq bytes(1)
  <2>1. \A k \in K : {k} \X (1..KeyBytes + env[k] + 0) \subseteq {k} \X (1..KeyBytes + env[k] + 1)
    BY <1>3, DefinitionAssumption
  <2> QED
    BY <1>1, <2>1
<1>6. EnvSize(env, 0) = Cardinality(bytes(0)) /\ EnvSize(env, 1) = Cardinality(bytes(1))
  BY DEF EnvSize
<1> HIDE DEF bytes, all
<1>7. IsFiniteSet(bytes(1)) /\ IsFiniteSet(bytes(0)) /\ Cardinality(bytes(0)) <= Cardinality(bytes(1))
  <2>1. IsFiniteSet(bytes(1))
    BY <1>2, <1>4, FS_Subset
  <2> QED
    BY <1>5, <2>1, FS_Subset
<1> QED
  BY <1>6, <1>7, FS_CardinalityType

\* kadrand's validation is not looser than the executor's.
LEMMA AcceptedIsDeployable ==
  ASSUME NEW d \in AppDefinition, Accepts(d)
  PROVE  Deployable(d)
<1>1. d.env \in Environment
  BY DEF AppDefinition
<1>2. ExecEnvFits(d.env)
  <2>1. EnvSize(d.env, 1) <= MaxEnvBytes /\ Cardinality(DOMAIN d.env) <= MaxEnvEntries
    BY DEF Accepts, EnvFits
  <2> QED
    BY <1>1, <2>1, EnvSizes, DefinitionAssumption DEF ExecEnvFits
<1>3. ExecVolumesFit(d.volumes)
  BY DEF Accepts, VolumesFit, ExecVolumesFit
<1>4. \A i \in 0..d.replicas - 1 : i < MaxReplicas
  BY DefinitionAssumption DEF Accepts
<1> QED
  BY <1>2, <1>3, <1>4 DEF Deployable, ExecAccepts

\* What is written is validated over the row that was read, and what is in the table
\* was validated, unless an update found another row than it had read.
Validated ==
  \A c \in Caller : req[c].step = "write" =>
    req[c].cur # NoApp /\ Accepts(Apply(req[c].upd, req[c].cur))
StoredAccepted == \A a \in Existing \ raced : Accepts(defs[a])

StoredInv == DefInv /\ Validated /\ StoredAccepted

LEMMA StoredInvInit == Init => StoredInv
  BY DefInvInit, ProcFacts, IdleIsSound DEF Init, StoredInv, Validated, StoredAccepted, Existing

\* A step that neither writes a definition nor comes to write one.
Reads ==
  /\ UNCHANGED <<defs, raced>>
  /\ \A c \in Caller : req'[c].step = "write" => req'[c] = req[c]

LEMMA ReadsKeep ==
  ASSUME StoredInv, Reads
  PROVE  Validated' /\ StoredAccepted'
<1>1. Validated'
  BY DEF StoredInv, Reads, Validated
<1>2. StoredAccepted'
  BY DEF StoredInv, Reads, StoredAccepted, Existing
<1> QED
  BY <1>1, <1>2

LEMMA GoesReads ==
  ASSUME StoredInv, UNCHANGED <<defs, raced>>, NEW p \in Proc, NEW r, Goes(p, r), r.step # "write"
  PROVE  Reads
<1>1. DOMAIN req = Proc /\ Caller \subseteq Proc
  BY ProcFacts DEF StoredInv, DefInv, RequestsSound
<1> QED
  BY <1>1 DEF Goes, Reads

LEMMA OthersRead ==
  ASSUME StoredInv,
         \/ \E c \in Caller, a \in App : BeginDeploy(c, a)
         \/ \E c \in Caller : Activate(c)
         \/ \E p \in Proc : Plan(p) \/ PlanBlind(p) \/ Load(p) \/ LoadFails(p)
         \/ \E a \in App : BeginHeal(a) \/ \E i \in Index : ReplicaDies(a, i)
         \/ Heal \/ Tick \/ PlanRepair \/ ProxyRestarts \/ Restart \/ UNCHANGED vars
  PROVE  Reads
<1>1. UNCHANGED <<defs, raced>>
  BY DEF BeginDeploy, Activate, Plan, PlanBlind, Load, LoadFails, BeginHeal, ReplicaDies, Heal,
     Tick, PlanRepair, ProxyRestarts, Restart, vars
<1>2. ASSUME NEW p \in Proc, NEW r, Goes(p, r), r.step # "write"
      PROVE  Reads
  BY <1>1, <1>2, GoesReads
<1>3. Idle.step # "write"
  BY DEF Idle
<1>4. ASSUME NEW p \in Proc, NEW cfg, Goes(p, [Goto(p, "load") EXCEPT !.next = cfg])
      PROVE  Reads
  <2>1. [Goto(p, "load") EXCEPT !.next = cfg].step = "load"
    BY DEF Goto, StoredInv, DefInv, RequestsSound, Sound, Request
  <2> QED
    BY <1>2, <1>4, <2>1
<1>5. CASE (\E c \in Caller, a \in App : BeginDeploy(c, a)) \/ \E a \in App : BeginHeal(a)
  <2>1. \E p \in Proc, a \in App, step \in {"deploy", "heal"} :
          Goes(p, [Idle EXCEPT !.step = step, !.app = a, !.n = defs[a].replicas])
    BY <1>5, ProcFacts DEF BeginDeploy, BeginHeal, Goes
  <2>2. \A a \in App, step \in {"deploy", "heal"} :
          [Idle EXCEPT !.step = step, !.app = a, !.n = defs[a].replicas].step # "write"
    BY DEF Idle
  <2> QED
    BY <1>2, <2>1, <2>2
<1>6. CASE (\E c \in Caller : Activate(c)) \/ Heal
  <2>1. \E p \in Proc : Goes(p, Idle) \/ Goes(p, [Idle EXCEPT !.step = "plan", !.app = req[p].app])
    BY <1>6, ProcFacts DEF Activate, Heal, Goes
  <2>2. \A p \in Proc : [Idle EXCEPT !.step = "plan", !.app = req[p].app].step # "write"
    BY DEF Idle
  <2> QED
    BY <1>2, <1>3, <2>1, <2>2
<1>7. CASE Tick
  <2>1. Goes(Watcher, [Idle EXCEPT !.step = "plan", !.repair = TRUE])
    BY <1>7 DEF Tick, Goes
  <2>2. [Idle EXCEPT !.step = "plan", !.repair = TRUE].step # "write"
    BY DEF Idle
  <2> QED
    BY <1>2, <2>1, <2>2, ProcFacts
<1>8. CASE \E p \in Proc : Load(p) \/ LoadFails(p)
  <2>1. \E p \in Proc : Goes(p, Idle)
    BY <1>8 DEF Load, LoadFails, Goes
  <2> QED
    BY <1>2, <1>3, <2>1
<1>9. CASE \E p \in Proc : Plan(p) \/ PlanBlind(p)
  <2>1. PICK p \in Proc : Plan(p) \/ PlanBlind(p)
    BY <1>9
  <2>2. \E cfg : Goes(p, [Goto(p, "load") EXCEPT !.next = cfg])
    BY <2>1 DEF Plan, PlanBlind, Goes
  <2> QED
    BY <1>4, <2>2
<1>10. CASE PlanRepair
  <2>1. CASE Missing({}) = {}
    BY <1>2, <1>3, <1>10, <2>1, ProcFacts DEF PlanRepair, Goes
  <2>2. CASE Missing({}) # {}
    BY <1>4, <1>10, <2>2, ProcFacts DEF PlanRepair, Goes
  <2> QED
    BY <2>1, <2>2
<1>11. CASE (\E a \in App, i \in Index : ReplicaDies(a, i)) \/ ProxyRestarts \/ UNCHANGED vars
  BY <1>1, <1>11 DEF ReplicaDies, ProxyRestarts, vars, Reads
<1>12. CASE Restart
  BY <1>1, <1>3, <1>12, ProcFacts DEF Restart, Reads
<1> QED
  BY <1>5, <1>6, <1>11, <1>12, <1>7, <1>8, <1>9, <1>10

LEMMA CreateDeleteStore ==
  ASSUME StoredInv, NEW c \in Caller, NEW a \in App,
         Delete(c, a) \/ \E d \in NewApp : Create(c, a, d)
  PROVE  Validated' /\ StoredAccepted'
<1>1. UNCHANGED <<req, raced>> /\ DOMAIN defs = App
  BY DEF Create, Delete, StoredInv, DefInv, DefsSound
<1>2. Validated'
  BY <1>1 DEF StoredInv, Validated
<1>3. \/ defs' = defs
      \/ defs' = [defs EXCEPT ![a] = NoApp]
      \/ \E d \in NewApp : Accepts(d) /\ defs' = [defs EXCEPT ![a] = d]
  BY DEF Create, Delete
<1>4. \A b \in App : defs'[b] = defs[b] \/ defs'[b] = NoApp \/ Accepts(defs'[b])
  BY <1>1, <1>3
<1>5. StoredAccepted'
  BY <1>1, <1>4 DEF StoredInv, StoredAccepted, Existing
<1> QED
  BY <1>2, <1>5

LEMMA BeginUpdateValidates ==
  ASSUME StoredInv, NEW c \in Caller, NEW a \in App, NEW u \in Change, BeginUpdate(c, a, u)
  PROVE  Validated' /\ StoredAccepted'
<1>1. UNCHANGED <<defs, raced>> /\ DOMAIN req = Proc /\ Caller \subseteq Proc
  BY ProcFacts DEF BeginUpdate, StoredInv, DefInv, RequestsSound
<1>2. StoredAccepted'
  BY <1>1 DEF StoredInv, StoredAccepted, Existing
<1>3. CASE req' = req
  BY <1>2, <1>3 DEF StoredInv, Validated
<1> DEFINE r == [Idle EXCEPT !.step = "write", !.app = a, !.upd = u, !.cur = defs[a]]
<1>4. CASE req' = [req EXCEPT ![c] = r] /\ defs[a] # NoApp /\ Accepts(Apply(u, defs[a]))
  <2>1. r.upd = u /\ r.cur = defs[a]
    BY DEF Idle
  <2> HIDE DEF r
  <2>2. req'[c] = r /\ \A d \in Caller \ {c} : req'[d] = req[d]
    BY <1>1, <1>4
  <2>3. Validated'
    BY <1>4, <2>1, <2>2 DEF StoredInv, Validated
  <2> QED
    BY <1>2, <2>3
<1> QED
  BY <1>3, <1>4 DEF BeginUpdate

\* What is written was validated, or the app is known to have been raced.
LEMMA WriteStores ==
  ASSUME StoredInv, NEW c \in Caller, Write(c) \/ WriteUnrecorded(c)
  PROVE  Validated' /\ StoredAccepted'
<1>1. DOMAIN req = Proc /\ Caller \subseteq Proc /\ DOMAIN defs = App /\ req[c].step = "write"
  BY ProcFacts DEF Write, WriteUnrecorded, StoredInv, DefInv, RequestsSound, DefsSound
<1>2. \E r : req' = [req EXCEPT ![c] = r] /\ r.step # "write"
  <2>1. AfterWrite(c).step # "write" /\ Idle.step # "write"
    BY DEF AfterWrite, Idle
  <2> QED
    BY <2>1 DEF Write, WriteUnrecorded
<1>3. Validated'
  BY <1>1, <1>2 DEF StoredInv, Validated
<1>4. CASE UNCHANGED <<defs, raced>>
  BY <1>3, <1>4 DEF StoredInv, StoredAccepted, Existing
<1>5. CASE /\ defs' = [defs EXCEPT ![req[c].app] = Apply(req[c].upd, @)]
           /\ raced' = IF req[c].cur = defs[req[c].app] THEN raced ELSE raced \cup {req[c].app}
  <2> DEFINE a == req[c].app
  <2>1. \A b \in App : b # a => defs'[b] = defs[b]
    BY <1>1, <1>5
  <2>2. a \in App => defs'[a] = Apply(req[c].upd, defs[a])
    BY <1>1, <1>5
  <2>3. a \notin raced' => req[c].cur = defs[a]
    BY <1>5
  <2>4. a \in App /\ a \notin raced' => Accepts(defs'[a])
    BY <1>1, <2>2, <2>3 DEF StoredInv, Validated
  <2>5. raced \subseteq raced'
    BY <1>5
  <2> HIDE DEF a
  <2>6. StoredAccepted'
    BY <2>1, <2>4, <2>5 DEF StoredInv, StoredAccepted, Existing
  <2> QED
    BY <1>3, <2>6
<1> QED
  BY <1>4, <1>5 DEF Write, WriteUnrecorded

LEMMA StoredInvNext == StoredInv /\ [Next]_vars => StoredInv'
<1> SUFFICES ASSUME StoredInv, [Next]_vars PROVE Validated' /\ StoredAccepted'
  BY DefInvNext DEF StoredInv
<1>1. CASE \E c \in Caller, a \in App : Delete(c, a) \/ \E d \in NewApp : Create(c, a, d)
  BY <1>1, CreateDeleteStore
<1>2. CASE \E c \in Caller, a \in App, u \in Change : BeginUpdate(c, a, u)
  BY <1>2, BeginUpdateValidates
<1>3. CASE \E c \in Caller : Write(c) \/ WriteUnrecorded(c)
  BY <1>3, WriteStores
<1>4. CASE \/ \E c \in Caller, a \in App : BeginDeploy(c, a)
           \/ \E c \in Caller : Activate(c)
           \/ \E p \in Proc : Plan(p) \/ PlanBlind(p) \/ Load(p) \/ LoadFails(p)
           \/ \E a \in App : BeginHeal(a) \/ \E i \in Index : ReplicaDies(a, i)
           \/ Heal \/ Tick \/ PlanRepair \/ ProxyRestarts \/ Restart \/ UNCHANGED vars
  BY <1>4, OthersRead, ReadsKeep
<1> QED
  BY <1>1, <1>2, <1>3, <1>4 DEF Next, Advance

\* The inductive invariant of the table of definitions: what is stored, and what a call
\* is about to write over what it read, is what kadrand accepts.
THEOREM StoredCorrect == Spec => []StoredInv
  BY StoredInvInit, StoredInvNext, PTL DEF Spec

LEMMA StoredInvDeployable == StoredInv => StoredIsDeployable
<1> SUFFICES ASSUME StoredInv, NEW a \in Existing \ raced
             PROVE  Deployable(defs[a])
  BY DEF StoredIsDeployable
<1>1. defs[a] \in AppDefinition /\ Accepts(defs[a])
  BY DEF StoredInv, DefInv, DefsSound, StoredAccepted, Existing
<1> QED
  BY <1>1, AcceptedIsDeployable

\* A definition that only ever changed under updates that saw it is one the executor
\* creates every replica of, for any limits (appvalidate.go:59, volumevalidate.go:24).
THEOREM StoredDeployable == Spec => []StoredIsDeployable
  BY StoredCorrect, StoredInvDeployable, PTL
=============================================================================
