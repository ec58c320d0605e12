-------------------------------- MODULE Watch --------------------------------
(***************************************************************************)
(* How kadrand watches what it runs and says that something is wrong: the  *)
(* health supervisor with its counters and back-off, the proxy watcher,    *)
(* the disk watcher and the backup scheduler, which raise and clear the    *)
(* alarms of the store; and the notification of each change, which a crash *)
(* can cut off from it.                                                    *)
(*                                                                         *)
(* Time is counted in intervals of the supervisor.  What is watched (the   *)
(* containers, the proxy, the disk, the backup directory) changes by       *)
(* itself.                                                                 *)
(***************************************************************************)
EXTENDS Naturals

CONSTANTS
  App, Release,
  FailuresBeforeHeal, HealsBeforeAlarm, BackoffBase, BackoffMax,
  ProxyAlarmAfter,
  MaxElapsed,     \* the intervals one cycle of the supervisor takes at most
  MaxHeals,       \* the count of heals is kept up to here
  MaxChanges,     \* bound: changes of what is watched
  MaxFaults,      \* bound: failures of the store
  MaxRestarts     \* bound: crashes of kadrand

ASSUME WatchAssumption ==
  /\ FailuresBeforeHeal \in Nat \ {0} /\ HealsBeforeAlarm \in Nat \ {0}
  /\ BackoffBase \in Nat \ {0} /\ BackoffMax \in Nat /\ BackoffMax >= BackoffBase
  /\ MaxHeals \in Nat /\ MaxHeals >= HealsBeforeAlarm /\ MaxElapsed \in Nat
  /\ ProxyAlarmAfter \in Nat \ {0} /\ Release # {}

VARIABLES
  health,    \* what becomes of each app when it is measured or healed
  live,      \* the live release of each app
  proxy,     \* what Repair finds
  disk,      \* how much is free, by the thresholds
  backups,   \* whether a snapshot can be taken
  alarms,    \* the alarms table: the severity of each alarm, or "none"
  told,      \* what the journal says last of each alarm
  saying,    \* what each goroutine is about to notify
  sup,       \* the supervisor's goroutine
  state,     \* Supervisor.state
  fails,     \* proxyWatcher.failures
  tries,     \* history: the release of an app, its heals since it was last found
             \* healthy, and whether the supervisor forgot them meanwhile
  gap,       \* history: intervals since the last of them
  lost,      \* history: the alarms whose notification a crash cut off
  left       \* what is left of each bound

environment == <<health, live, proxy, disk, backups>>
vars == <<environment, alarms, told, saying, sup, state, fails, tries, gap, lost, left>>

Loop == {"supervisor", "proxy", "disk", "backup"}
Severity == {"none", "warning", "critical"}
HealAlarm(a) == <<"heal_exhausted", a>>
ProxyAlarm == <<"proxy_unreconciled", "host">>
DiskAlarm == <<"disk_low", "host">>
BackupAlarm == <<"backup_failed", "kadran.db">>
Alarm == {HealAlarm(a) : a \in App} \cup {ProxyAlarm, DiskAlarm, BackupAlarm}

Nothing == [id |-> ProxyAlarm, says |-> "nothing"]
Unseen == [rel |-> 0, failures |-> 0, heals |-> 0, wait |-> 0]
Untried == [rel |-> 0, heals |-> 0, forgotten |-> FALSE]
Asleep == [step |-> "asleep", todo |-> {}, dep |-> <<>>]

Spend(what) == left[what] > 0 /\ left' = [left EXCEPT ![what] = @ - 1]
Quiet(g) == saying[g].says = "nothing"

-----------------------------------------------------------------------------
(* alarm.Manager over the alarms table: a change is stored, then notified. *)

\* Mutant: a critical alarm is one whatever the row says.
ChangesEachTurn(now, sev) == now = "none" \/ sev = "critical"

\* A fresh row, or a row that gets worse; the severity never comes down.
Changes(now, sev) == now = "none" \/ (now = "warning" /\ sev = "critical")

\* The statement takes effect, or it fails, which is logged and nothing else.
Store(g, id, sev) ==
  \/ /\ alarms' = [alarms EXCEPT ![id] = sev]
     /\ saying' = [saying EXCEPT ![g] = [id |-> id, says |-> sev]]
     /\ UNCHANGED left
  \/ Spend("faults") /\ UNCHANGED <<alarms, saying>>

\* Mutant: a row that is there is left as it is.
RaiseOnce(g, id, sev) ==
  IF alarms[id] = "none" THEN Store(g, id, sev) ELSE UNCHANGED <<alarms, saying, left>>

Raise(g, id, sev) ==
  IF Changes(alarms[id], sev) THEN Store(g, id, sev) ELSE UNCHANGED <<alarms, saying, left>>

Clear(g, id) ==
  IF alarms[id] # "none" THEN Store(g, id, "none") ELSE UNCHANGED <<alarms, saying, left>>

Notify(g) ==
  /\ ~Quiet(g)
  /\ told' = [told EXCEPT ![saying[g].id] = saying[g].says]
  /\ saying' = [saying EXCEPT ![g] = Nothing]
  /\ lost' = lost \ {saying[g].id}
  /\ UNCHANGED <<environment, alarms, sup, state, fails, tries, gap, left>>

-----------------------------------------------------------------------------
(* health.Supervisor *)

Least(m, n) == IF m <= n THEN m ELSE n

\* Twice as long each time, up to the cap.
Backoff(n) == Least(BackoffBase * 2^(n - 1), BackoffMax)

Longest == BackoffMax + FailuresBeforeHeal

\* Sleep.
TimePasses ==
  \E elapsed \in 1..MaxElapsed :
    /\ state' = [a \in App |->
         [state[a] EXCEPT !.wait = IF @ > elapsed THEN @ - elapsed ELSE 0]]
    /\ gap' = [a \in App |-> Least(gap[a] + elapsed, Longest)]

BeginCycle ==
  /\ sup.step = "asleep" /\ Quiet("supervisor")
  /\ TimePasses
  /\ sup' = [Asleep EXCEPT !.step = "cycle", !.todo = {<<a, live[a]>> : a \in App}]
  /\ UNCHANGED <<environment, alarms, told, saying, fails, tries, lost, left>>

\* ActiveDeployments fails: nothing is visited this time.
SkipCycle ==
  /\ sup.step = "asleep" /\ Quiet("supervisor") /\ Spend("faults")
  /\ TimePasses
  /\ UNCHANGED <<environment, alarms, told, saying, sup, fails, tries, lost>>

\* stateFor: a release seen for the first time starts from nothing.
StateFor(d) == IF state[d[1]].rel = d[2] THEN state[d[1]] ELSE [Unseen EXCEPT !.rel = d[2]]
TriesFor(d) == IF tries[d[1]].rel = d[2] THEN tries[d[1]] ELSE [Untried EXCEPT !.rel = d[2]]

Leave(d) == [sup EXCEPT !.todo = @ \ {d}]

\* Mutant: the alarm is only cleared by a supervisor that saw the app fail.
VisitClearsItsOwn(d) ==
  /\ sup.step = "cycle" /\ d \in sup.todo /\ Quiet("supervisor")
  /\ health[d[1]] \in {"up", "flapping"}
  /\ IF StateFor(d).failures + StateFor(d).heals > 0
     THEN Clear("supervisor", HealAlarm(d[1])) ELSE UNCHANGED <<alarms, saying, left>>
  /\ state' = [state EXCEPT ![d[1]] = [Unseen EXCEPT !.rel = d[2]]]
  /\ tries' = [tries EXCEPT ![d[1]] = [Untried EXCEPT !.rel = d[2]]]
  /\ sup' = Leave(d)
  /\ UNCHANGED <<environment, told, fails, gap, lost>>

\* markHealthy: the alarm is cleared whether this process raised it or not.
VisitHealthy(d) ==
  /\ sup.step = "cycle" /\ d \in sup.todo /\ Quiet("supervisor")
  /\ health[d[1]] \in {"up", "flapping"}
  /\ state' = [state EXCEPT ![d[1]] = [Unseen EXCEPT !.rel = d[2]]]
  /\ tries' = [tries EXCEPT ![d[1]] = [Untried EXCEPT !.rel = d[2]]]
  /\ sup' = Leave(d)
  /\ Clear("supervisor", HealAlarm(d[1]))
  /\ UNCHANGED <<environment, told, fails, gap, lost>>

\* Too few replicas answer: after enough such visits in a row, and not before
\* the back-off is over, the app is healed.
VisitUnhealthy(d) ==
  /\ sup.step = "cycle" /\ d \in sup.todo /\ Quiet("supervisor")
  /\ health[d[1]] \in {"down", "flapping", "bad"}
  /\ LET st == [StateFor(d) EXCEPT !.failures = Least(@ + 1, FailuresBeforeHeal)]
     IN /\ state' = [state EXCEPT ![d[1]] = st]
        /\ sup' = IF st.failures >= FailuresBeforeHeal /\ st.wait = 0
                  THEN [Leave(d) EXCEPT !.step = "guard", !.dep = d] ELSE Leave(d)
        /\ tries' = [tries EXCEPT ![d[1]] = TriesFor(d)]
  /\ UNCHANGED <<environment, alarms, told, saying, fails, gap, lost, left>>

\* GetApp fails: nothing is measured.
VisitFails(d) ==
  /\ sup.step = "cycle" /\ d \in sup.todo /\ Quiet("supervisor") /\ Spend("faults")
  /\ state' = [state EXCEPT ![d[1]] = StateFor(d)]
  /\ tries' = [tries EXCEPT ![d[1]] = TriesFor(d)]
  /\ sup' = Leave(d)
  /\ UNCHANGED <<environment, alarms, told, saying, fails, gap, lost>>

\* The live release is read again; another one is not this visit's to heal.
Guard ==
  /\ sup.step = "guard"
  /\ LET a == sup.dep[1] IN
       IF live[a] # sup.dep[2]
       THEN /\ state' = [state EXCEPT ![a] = Unseen]
            /\ sup' = [sup EXCEPT !.step = "cycle"]
            /\ tries' = [tries EXCEPT ![a] = Untried]
            /\ UNCHANGED gap
       ELSE /\ LET n == Least(state[a].heals + 1, MaxHeals)
               IN state' = [state EXCEPT ![a] = [rel |-> @.rel, failures |-> 0, heals |-> n,
                                                 wait |-> Backoff(n)]]
            /\ sup' = [sup EXCEPT !.step = "heal"]
            /\ tries' = [tries EXCEPT ![a].heals = Least(@ + 1, MaxHeals)]
            /\ gap' = [gap EXCEPT ![a] = 0]
  /\ UNCHANGED <<environment, alarms, told, saying, fails, lost, left>>

\* ActiveDeployment fails: taken for another release, so the counters and the
\* back-off of the one that is live are forgotten.
GuardFails ==
  /\ sup.step = "guard" /\ Spend("faults")
  /\ state' = [state EXCEPT ![sup.dep[1]] = Unseen]
  /\ tries' = [tries EXCEPT ![sup.dep[1]].forgotten = TRUE]
  /\ sup' = [sup EXCEPT !.step = "cycle"]
  /\ UNCHANGED <<environment, alarms, told, saying, fails, gap, lost>>

\* GetRelease fails: the heal is left to the next visit.
ReleaseFails ==
  /\ sup.step = "guard" /\ live[sup.dep[1]] = sup.dep[2] /\ Spend("faults")
  /\ sup' = [sup EXCEPT !.step = "cycle"]
  /\ UNCHANGED <<environment, alarms, told, saying, state, fails, tries, gap, lost>>

\* Mutant: a heal that succeeded ends the back-off.
HealEndsBackoff ==
  /\ sup.step = "heal" /\ health[sup.dep[1]] # "bad"
  /\ health' = [health EXCEPT ![sup.dep[1]] = IF @ = "down" THEN "up" ELSE @]
  /\ state' = [state EXCEPT ![sup.dep[1]].heals = 0, ![sup.dep[1]].wait = 0]
  /\ sup' = [sup EXCEPT !.step = "cycle"]
  /\ UNCHANGED <<live, proxy, disk, backups, alarms, told, saying, fails, tries, gap, lost, left>>

\* Heal succeeds: what was down answers, what crashes again does not for long.
HealSucceeds ==
  /\ sup.step = "heal" /\ health[sup.dep[1]] # "bad"
  /\ health' = [health EXCEPT ![sup.dep[1]] = IF @ = "down" THEN "up" ELSE @]
  /\ sup' = [sup EXCEPT !.step = "cycle"]
  /\ UNCHANGED <<live, proxy, disk, backups, alarms, told, saying, state, fails, tries,
                 gap, lost, left>>

HealFails ==
  /\ sup.step = "heal" /\ health[sup.dep[1]] \in {"bad", "flapping"}
  /\ sup' = [sup EXCEPT !.step = "cycle"]
  /\ IF state[sup.dep[1]].heals >= HealsBeforeAlarm
     THEN Raise("supervisor", HealAlarm(sup.dep[1]), "critical")
     ELSE UNCHANGED <<alarms, saying, left>>
  /\ UNCHANGED <<environment, told, state, fails, tries, gap, lost>>

EndCycle ==
  /\ sup.step = "cycle" /\ sup.todo = {} /\ Quiet("supervisor")
  /\ sup' = Asleep
  /\ UNCHANGED <<environment, alarms, told, saying, state, fails, tries, gap, lost, left>>

-----------------------------------------------------------------------------
(* proxyWatcher, checkDisk, takeBackup *)

\* Repair: routes that were lost are loaded again; an error is counted; an app
\* that cannot be routed, or a route that should not be there, is left alone.
ProxyTick ==
  /\ Quiet("proxy")
  /\ IF proxy = "unreachable"
     THEN /\ fails' = Least(fails + 1, ProxyAlarmAfter)
          /\ IF fails' >= ProxyAlarmAfter THEN Raise("proxy", ProxyAlarm, "critical")
             ELSE UNCHANGED <<alarms, saying, left>>
          /\ UNCHANGED proxy
     ELSE /\ fails' = 0
          /\ proxy' = IF proxy = "lost" THEN "exact" ELSE proxy
          /\ IF proxy' = "exact" THEN Clear("proxy", ProxyAlarm) ELSE UNCHANGED <<alarms, saying, left>>
  /\ UNCHANGED <<health, live, disk, backups, told, sup, state, tries, gap, lost>>

\* diskDecision: between the thresholds nothing is decided.
Decide(level) ==
  CASE level = "full" -> "critical" [] level = "low" -> "warning"
    [] level = "free" -> "none" [] OTHER -> "hold"

CheckDisk ==
  /\ Quiet("disk")
  /\ CASE Decide(disk) = "hold" -> UNCHANGED <<alarms, saying, left>>
       [] Decide(disk) = "none" -> Clear("disk", DiskAlarm)
       [] OTHER -> Raise("disk", DiskAlarm, Decide(disk))
  /\ UNCHANGED <<environment, told, sup, state, fails, tries, gap, lost>>

TakeBackup ==
  /\ Quiet("backup")
  /\ IF backups THEN Clear("backup", BackupAlarm) ELSE Raise("backup", BackupAlarm, "critical")
  /\ UNCHANGED <<environment, told, sup, state, fails, tries, gap, lost>>

-----------------------------------------------------------------------------
(* What happens to what is watched, and to kadrand. *)

Break ==
  /\ Spend("changes")
  /\ \E a \in App : \E h \in {"up", "down", "flapping", "bad"} \ {health[a]} :
       health' = [health EXCEPT ![a] = h]
  /\ UNCHANGED <<live, proxy, disk, backups, alarms, told, saying, sup, state, fails,
                 tries, gap, lost>>

\* Another release is made live, by a deployment or a rollback.
Deploy ==
  /\ Spend("changes")
  /\ \E a \in App : \E r \in Release \ {live[a]}, h \in {"up", "bad"} :
       live' = [live EXCEPT ![a] = r] /\ health' = [health EXCEPT ![a] = h]
  /\ UNCHANGED <<proxy, disk, backups, alarms, told, saying, sup, state, fails, tries,
                 gap, lost>>

ProxyChanges ==
  /\ Spend("changes")
  /\ proxy' \in {"exact", "lost", "skips", "unreachable"} \ {proxy}
  /\ UNCHANGED <<health, live, disk, backups, alarms, told, saying, sup, state, fails,
                 tries, gap, lost>>

DiskChanges ==
  /\ Spend("changes")
  /\ disk' \in {"full", "low", "band", "free"} \ {disk}
  /\ UNCHANGED <<health, live, proxy, backups, alarms, told, saying, sup, state, fails,
                 tries, gap, lost>>

BackupsChange ==
  /\ Spend("changes")
  /\ backups' = ~backups
  /\ UNCHANGED <<health, live, proxy, disk, alarms, told, saying, sup, state, fails,
                 tries, gap, lost>>

\* kadrand dies and starts: what was in memory is gone, the store is not, and
\* the outcome of the reconciliation at start is made an alarm.
Restart ==
  /\ Spend("restarts")
  /\ proxy' = IF proxy = "lost" THEN "exact" ELSE proxy
  /\ alarms' = [alarms EXCEPT ![ProxyAlarm] = IF proxy' = "exact" THEN "none" ELSE "critical"]
  /\ saying' = [g \in Loop |->
       IF g = "proxy" /\ alarms'[ProxyAlarm] # alarms[ProxyAlarm]
       THEN [id |-> ProxyAlarm, says |-> alarms'[ProxyAlarm]] ELSE Nothing]
  /\ lost' = lost \cup {saying[g].id : g \in {h \in Loop : ~Quiet(h)}}
  /\ sup' = Asleep /\ state' = [a \in App |-> Unseen] /\ fails' = 0
  /\ tries' = [a \in App |-> Untried] /\ gap' = [a \in App |-> Longest]
  /\ UNCHANGED <<health, live, disk, backups, told>>

Init ==
  /\ health = [a \in App |-> "up"]
  /\ live \in [App -> {CHOOSE r \in Release : TRUE}]
  /\ proxy = "exact" /\ disk = "free" /\ backups = TRUE
  /\ alarms = [id \in Alarm |-> "none"] /\ told = alarms
  /\ saying = [g \in Loop |-> Nothing]
  /\ sup = Asleep /\ state = [a \in App |-> Unseen] /\ fails = 0
  /\ tries = [a \in App |-> Untried] /\ gap = [a \in App |-> Longest]
  /\ lost = {}
  /\ left = [changes |-> MaxChanges, faults |-> MaxFaults, restarts |-> MaxRestarts]

Visit == \E d \in sup.todo : VisitHealthy(d) \/ VisitUnhealthy(d)
Heal == HealSucceeds \/ HealFails
Supervise == BeginCycle \/ Visit \/ Guard \/ Heal \/ EndCycle
ReadFails == SkipCycle \/ (\E d \in sup.todo : VisitFails(d)) \/ GuardFails \/ ReleaseFails

Next ==
  \/ \E g \in Loop : Notify(g)
  \/ Supervise \/ ReadFails
  \/ ProxyTick \/ CheckDisk \/ TakeBackup
  \/ Break \/ Deploy \/ ProxyChanges \/ DiskChanges \/ BackupsChange \/ Restart

Spec == Init /\ [][Next]_vars

\* The loops run on: each sleeps for a bounded time, and each call it makes has
\* a deadline.
Fairness ==
  /\ \A g \in Loop : WF_vars(Notify(g))
  /\ WF_vars(Supervise) /\ WF_vars(ProxyTick) /\ WF_vars(CheckDisk) /\ WF_vars(TakeBackup)

FairSpec == Spec /\ Fairness

-----------------------------------------------------------------------------
(* Properties. *)

\* Types; the counters stay in their ranges.
WatchTypeOK ==
  /\ alarms \in [Alarm -> Severity] /\ told \in [Alarm -> Severity]
  /\ \A g \in Loop : saying[g].id \in Alarm /\ saying[g].says \in Severity \cup {"nothing"}
  /\ sup.step \in {"asleep", "cycle", "guard", "heal"} /\ sup.todo \subseteq App \X Release
  /\ \A a \in App : /\ state[a].rel \in Release \cup {0}
                    /\ state[a].failures \in 0..FailuresBeforeHeal
                    /\ state[a].heals \in 0..MaxHeals /\ state[a].wait \in 0..BackoffMax
  /\ fails \in 0..ProxyAlarmAfter /\ lost \subseteq Alarm

\* alarm.go:98 : what a goroutine has yet to notify is what the table says, and there
\* is something to notify of an alarm exactly while the journal's last word on it is
\* another: no change goes unsaid and nothing is said twice, a restart in between
\* included. (Left out are the alarms whose notification a crash cut off, until they
\* change again.)
ToldIsTrue ==
  /\ \A g \in Loop : ~Quiet(g) => saying[g].says = alarms[saying[g].id]
  /\ \A id \in Alarm \ lost :
       told[id] # alarms[id] <=> \E g \in Loop : saying[g].id = id /\ ~Quiet(g)

\* supervisor.go:416 : an app that crashes again and again is not restarted again and
\* again. Before a release that was never found healthy in between is healed once
\* more, FailuresBeforeHeal intervals pass, and the back-off, doubled with each heal,
\* unless a failing read of the live release made the supervisor forget those heals
\* (supervisor.go:357-361).
HealsBackOff ==
  [][ sup.step = "guard" /\ sup'.step = "heal" =>
        LET past == tries[sup.dep[1]]  since == gap[sup.dep[1]]
        IN past.heals > 0 =>
             /\ since >= FailuresBeforeHeal
             /\ past.forgotten \/ since >= Backoff(past.heals) ]_vars

\* What each alarm is about.
Severe(id) ==
  IF id = ProxyAlarm THEN proxy = "unreachable"
  ELSE IF id = DiskAlarm THEN disk = "full"
  ELSE IF id = BackupAlarm THEN ~backups
  ELSE \A a \in App : id = HealAlarm(a) => health[a] = "bad"
Over(id) ==
  IF id = ProxyAlarm THEN proxy = "exact"
  ELSE IF id = DiskAlarm THEN disk = "free"
  ELSE IF id = BackupAlarm THEN backups
  ELSE \A a \in App : id = HealAlarm(a) => health[a] = "up"

\* Trouble that stays becomes a critical alarm, also when it began as a lesser
\* one, when the store fails now and then, and when kadrand restarts meanwhile.
TroubleIsRaised == \A id \in Alarm : <>[]Severe(id) => <>[](alarms[id] = "critical")

\* supervisor.go:336, proxywatch.go:56 : an alarm whose trouble is over closes,
\* whichever process raised it.
AlarmsClose == \A id \in Alarm : <>[]Over(id) => <>[](alarms[id] = "none")
=============================================================================
