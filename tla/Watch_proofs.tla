---------------------------- MODULE Watch_proofs ----------------------------
(***************************************************************************)
(* For any apps, thresholds, back-off and faults: each change of an alarm  *)
(* is told and told once, but for what a crash cut off; and an app that    *)
(* crashes again and again is healed only when its back-off is over,       *)
(* unless a failing read of the store made the supervisor forget it.       *)
(***************************************************************************)
EXTENDS Watch, FiniteSetTheorems, TLAPS

\* The alarms a goroutine raises and clears; no two share one.
Own(g) ==
  CASE g = "supervisor" -> {HealAlarm(a) : a \in App}
    [] g = "proxy" -> {ProxyAlarm}
    [] g = "disk" -> {DiskAlarm}
    [] g = "backup" -> {BackupAlarm}

\* What a goroutine has yet to say is what the table says of an alarm of its own.
Pending(g) ==
  /\ saying[g].id \in Alarm /\ saying[g].says \in Severity \cup {"nothing"}
  /\ ~Quiet(g) => saying[g].id \in Own(g) /\ saying[g].says = alarms[saying[g].id]

AlarmInv ==
  /\ alarms \in [Alarm -> Severity] /\ told \in [Alarm -> Severity] /\ lost \subseteq Alarm
  /\ DOMAIN saying = Loop /\ \A g \in Loop : Pending(g)
  /\ ToldIsTrue

Entry ==
  [rel : Release \cup {0}, failures : 0..FailuresBeforeHeal, heals : 0..MaxHeals,
   wait : 0..BackoffMax]

Tried == [rel : Release \cup {0}, heals : 0..MaxHeals, forgotten : BOOLEAN]

\* The supervisor has the heals of the release it saw last, or forgot them.
Counted(a) ==
  \/ /\ tries[a].rel = state[a].rel
     /\ tries[a].forgotten \/ tries[a].heals = state[a].heals
  \/ tries[a].forgotten /\ state[a] = Unseen

\* The heals are counted, and of the last one's back-off no more is past than
\* time has passed.
CountInv ==
  /\ live \in [App -> Release]
  /\ state \in [App -> Entry]
  /\ gap \in [App -> Nat] /\ tries \in [App -> Tried]
  /\ \A a \in App : /\ Counted(a)
                    /\ state[a].heals > 0 =>
                         gap[a] + state[a].wait >= Backoff(state[a].heals)

\* From the visit to the heal the supervisor works on one app, and says nothing.
SupervisorInv ==
  /\ DOMAIN sup = DOMAIN Asleep
  /\ sup.step \in {"asleep", "cycle", "guard", "heal"}
  /\ sup.todo \subseteq App \X Release
  /\ sup.step \in {"guard", "heal"} => sup.dep \in App \X Release /\ Quiet("supervisor")
  /\ sup.step = "guard" => state[sup.dep[1]].wait = 0

\* An app is visited once in a cycle, and since its last heal at least as many
\* intervals are past as visits failed, one more if it is still to be visited.
RestInv ==
  /\ \A d, e \in sup.todo : d[1] = e[1] => d = e
  /\ sup.step \in {"guard", "heal"} => \A d \in sup.todo : d[1] # sup.dep[1]
  /\ sup.step = "guard" => state[sup.dep[1]].failures = FailuresBeforeHeal
  /\ \A a \in App : gap[a] >= state[a].failures
  /\ \A d \in sup.todo : gap[d[1]] >= Least(state[d[1]].failures + 1, FailuresBeforeHeal)

WatchInv == AlarmInv /\ CountInv /\ SupervisorInv /\ RestInv /\ fails \in 0..ProxyAlarmAfter

-----------------------------------------------------------------------------
(* The operators. *)

\* A set of n has 2^n subsets.
LEMMA PowersOfTwo ==
  ASSUME NEW n \in Nat
  PROVE  2^n \in Nat
<1>1. IsFiniteSet(1..n) /\ Cardinality(1..n) = n
  BY FS_Interval
<1>2. IsFiniteSet(SUBSET (1..n)) /\ Cardinality(SUBSET (1..n)) = 2^Cardinality(1..n)
  BY <1>1, FS_SUBSET
<1> QED
  BY <1>1, <1>2, FS_CardinalityType

LEMMA BackoffIsBounded ==
  ASSUME NEW n \in Nat, n > 0
  PROVE  Backoff(n) \in 0..BackoffMax
<1>1. 2^(n - 1) \in Nat
  BY PowersOfTwo
<1> DEFINE k == 2^(n - 1)
<1> HIDE DEF k
<1>2. Least(BackoffBase * k, BackoffMax) \in 0..BackoffMax
  <2>1. BackoffBase * k \in Nat
    BY <1>1, WatchAssumption DEF k
  <2> QED
    BY <2>1, WatchAssumption DEF Least
<1> QED
  BY <1>2 DEF Backoff, k

LEMMA UnseenIsEntry ==
  /\ Unseen \in Entry /\ Unseen.heals = 0 /\ Unseen.wait = 0 /\ Unseen.failures = 0
  /\ \A r \in Release : LET fresh == [Unseen EXCEPT !.rel = r]
                        IN /\ fresh \in Entry /\ fresh.rel = r
                           /\ fresh.heals = 0 /\ fresh.wait = 0 /\ fresh.failures = 0
  BY WatchAssumption DEF Unseen, Entry

LEMMA UntriedIsTried ==
  /\ Untried \in Tried
  /\ \A r \in Release : LET fresh == [Untried EXCEPT !.rel = r]
                        IN fresh \in Tried /\ fresh.rel = r /\ fresh.heals = 0
<1>1. 0 \in 0..MaxHeals /\ FALSE \in BOOLEAN
  BY WatchAssumption
<1>2. Untried \in Tried
  BY <1>1, Zenon DEF Untried, Tried
<1>3. ASSUME NEW r \in Release
      PROVE  LET fresh == [Untried EXCEPT !.rel = r]
             IN fresh \in Tried /\ fresh.rel = r /\ fresh.heals = Untried.heals
  BY <1>2 DEF Tried
<1>4. Untried.heals = 0
  BY DEF Untried
<1> QED
  BY <1>2, <1>3, <1>4

LEMMA UnseenAgrees == Untried.rel = Unseen.rel /\ Untried.heals = Unseen.heals
  BY DEF Untried, Unseen

\* A release that was seen before goes on with its counters, and both counts of its
\* heals go on together.
LEMMA StateForFacts ==
  ASSUME CountInv, NEW d \in App \X Release
  PROVE  /\ d[1] \in App /\ d[2] \in Release
         /\ StateFor(d) \in Entry /\ StateFor(d).rel = d[2]
         /\ \/ StateFor(d) = state[d[1]]
            \/ StateFor(d).heals = 0 /\ StateFor(d).wait = 0 /\ StateFor(d).failures = 0
         /\ TriesFor(d) \in Tried /\ TriesFor(d).rel = d[2]
         /\ TriesFor(d).forgotten \/ TriesFor(d).heals = StateFor(d).heals
<1> DEFINE fresh == [Unseen EXCEPT !.rel = d[2]]
           anew == [Untried EXCEPT !.rel = d[2]]
<1>1. d[1] \in App /\ d[2] \in Release /\ state[d[1]] \in Entry /\ tries[d[1]] \in Tried
      /\ Counted(d[1])
  BY DEF CountInv
<1>2. fresh \in Entry /\ fresh.rel = d[2] /\ fresh.heals = 0 /\ fresh.wait = 0 /\ fresh.failures = 0
  BY <1>1, UnseenIsEntry
<1>3. anew \in Tried /\ anew.rel = d[2] /\ anew.heals = 0
  BY <1>1, UntriedIsTried
<1>4. StateFor(d) = IF state[d[1]].rel = d[2] THEN state[d[1]] ELSE fresh
  BY DEF StateFor
<1>5. TriesFor(d) = IF tries[d[1]].rel = d[2] THEN tries[d[1]] ELSE anew
  BY DEF TriesFor
<1> HIDE DEF fresh, anew
<1>6. TriesFor(d).forgotten \/ TriesFor(d).heals = StateFor(d).heals
  <2>1. CASE tries[d[1]].rel = d[2]
    BY <1>1, <1>4, <1>5, <2>1 DEF Counted
  <2>2. CASE tries[d[1]].rel # d[2]
    BY <1>1, <1>2, <1>3, <1>4, <1>5, <2>2, UnseenIsEntry DEF Counted
  <2> QED
    BY <2>1, <2>2
<1> QED
  BY <1>1, <1>2, <1>3, <1>4, <1>5, <1>6

-----------------------------------------------------------------------------
(* Alarms. *)

Silent == UNCHANGED <<alarms, told, saying, lost>>

Stored(g, id, sev) ==
  /\ alarms' = [alarms EXCEPT ![id] = sev]
  /\ saying' = [saying EXCEPT ![g] = [id |-> id, says |-> sev]]

LEMMA SilentKeepsAlarms ==
  ASSUME AlarmInv, Silent
  PROVE  AlarmInv'
  BY DEF AlarmInv, Silent, Pending, Quiet, ToldIsTrue

LEMMA AlarmsAreOwned ==
  /\ \A g \in Loop : Own(g) \subseteq Alarm
  /\ \A g, h \in Loop : g # h => Own(g) \cap Own(h) = {}
  BY DEF Own, Loop, Alarm, HealAlarm, ProxyAlarm, DiskAlarm, BackupAlarm

LEMMA StoredKeepsAlarms ==
  ASSUME AlarmInv, NEW g \in Loop, NEW id \in Own(g), NEW sev \in Severity,
         sev # alarms[id], Quiet(g), Stored(g, id, sev), UNCHANGED <<told, lost>>
  PROVE  AlarmInv'
<1>1. id \in Alarm
  BY AlarmsAreOwned
<1>2. /\ saying'[g] = [id |-> id, says |-> sev]
      /\ DOMAIN saying' = Loop
      /\ \A h \in Loop : h # g => saying'[h] = saying[h]
  BY DEF Stored, AlarmInv
<1>3. sev # "nothing"
  BY DEF Severity
<1>4. /\ alarms' \in [Alarm -> Severity] /\ alarms'[id] = sev
      /\ \A other \in Alarm : other # id => alarms'[other] = alarms[other]
  BY <1>1 DEF Stored, AlarmInv
<1>5. ASSUME NEW h \in Loop
      PROVE  Pending(h)'
  <2>1. CASE h = g
    BY <1>1, <1>2, <1>4, <2>1 DEF Pending, Quiet
  <2>2. CASE h # g
    <3>1. ~Quiet(h) => saying[h].id # id
      BY <2>2, AlarmsAreOwned DEF AlarmInv, Pending
    <3> QED
      BY <1>2, <1>4, <2>2, <3>1 DEF AlarmInv, Pending, Quiet
  <2> QED
    BY <2>1, <2>2
<1>6. ToldIsTrue'
  <2>1. ~Quiet(g)' /\ saying'[g].id = id
    BY <1>2, <1>3 DEF Quiet
  <2>2. \A h \in Loop : saying[h].id = id => Quiet(h)
    BY AlarmsAreOwned DEF AlarmInv, Pending
  <2>3. id \notin lost => told[id] # alarms'[id]
    BY <1>1, <1>4, <2>2 DEF AlarmInv, ToldIsTrue
  <2>4. ASSUME NEW other \in Alarm, other # id
        PROVE  \A h \in Loop : saying'[h].id = other /\ ~Quiet(h)' <=> saying[h].id = other /\ ~Quiet(h)
    BY <1>2, <2>4 DEF Quiet
  <2>5. \A h \in Loop : ~Quiet(h)' => saying'[h].says = alarms'[saying'[h].id]
    BY <1>5 DEF Pending
  <2>6. ASSUME NEW other \in Alarm \ lost'
        PROVE  told'[other] # alarms'[other] <=> \E h \in Loop : saying'[h].id = other /\ ~Quiet(h)'
    <3>1. CASE other = id
      BY <2>1, <2>3, <3>1
    <3>2. CASE other # id
      BY <1>4, <2>4, <3>2 DEF AlarmInv, ToldIsTrue
    <3> QED
      BY <3>1, <3>2
  <2> QED
    BY <2>5, <2>6 DEF ToldIsTrue
<1> QED
  BY <1>2, <1>4, <1>5, <1>6 DEF AlarmInv

LEMMA RaiseClearKeepAlarms ==
  ASSUME AlarmInv, NEW g \in Loop, NEW id \in Own(g), Quiet(g), UNCHANGED <<told, lost>>,
         \/ UNCHANGED <<alarms, saying>> \/ Clear(g, id)
         \/ \E sev \in {"warning", "critical"} : Raise(g, id, sev)
  PROVE  AlarmInv'
<1>1. Silent \/ \E sev \in Severity : Stored(g, id, sev) /\ sev # alarms[id]
  BY DEF Raise, Clear, Changes, Store, Stored, Silent, Severity
<1> QED
  BY <1>1, SilentKeepsAlarms, StoredKeepsAlarms

LEMMA NotifyKeepsAlarms ==
  ASSUME AlarmInv, NEW g \in Loop, Notify(g)
  PROVE  AlarmInv'
<1> DEFINE id == saying[g].id
<1>1. /\ told' = [told EXCEPT ![id] = saying[g].says] /\ lost' = lost \ {id}
      /\ saying' = [saying EXCEPT ![g] = Nothing] /\ alarms' = alarms
      /\ ~Quiet(g) /\ id \in Alarm /\ saying[g].says = alarms[id]
  BY DEF Notify, AlarmInv, Pending
<1> HIDE DEF id
<1>2. /\ saying'[g] = Nothing /\ DOMAIN saying' = Loop
      /\ \A h \in Loop : h # g => saying'[h] = saying[h]
  BY <1>1 DEF AlarmInv
<1>3. Nothing.id \in Alarm /\ Nothing.says = "nothing"
  BY DEF Nothing, Alarm
<1>4. \A h \in Loop : Pending(h)'
  BY <1>1, <1>2, <1>3 DEF AlarmInv, Pending, Quiet
<1>5. ToldIsTrue'
  <2>1. told'[id] = alarms'[id]
    BY <1>1 DEF AlarmInv
  <2>2. \A other \in Alarm : other # id => told'[other] = told[other]
    BY <1>1 DEF AlarmInv
  <2>3. \A h \in Loop : h # g /\ ~Quiet(h) => saying[h].id # id
    BY <1>1, AlarmsAreOwned DEF AlarmInv, Pending, id
  <2>4. \A h \in Loop : saying'[h].id = id => Quiet(h)'
    BY <1>2, <1>3, <2>3 DEF Quiet
  <2>5. ASSUME NEW other \in Alarm, other # id
        PROVE  \A h \in Loop : saying'[h].id = other /\ ~Quiet(h)' <=> saying[h].id = other /\ ~Quiet(h)
    BY <1>2, <1>3, <2>5 DEF Quiet, id
  <2>6. \A h \in Loop : ~Quiet(h)' => saying'[h].says = alarms'[saying'[h].id]
    BY <1>4 DEF Pending
  <2>7. ASSUME NEW other \in Alarm \ lost'
        PROVE  told'[other] # alarms'[other] <=> \E h \in Loop : saying'[h].id = other /\ ~Quiet(h)'
    <3>1. CASE other = id
      BY <2>1, <2>4, <3>1
    <3>2. CASE other # id
      BY <1>1, <2>2, <2>5, <3>2 DEF AlarmInv, ToldIsTrue
    <3> QED
      BY <3>1, <3>2
  <2> QED
    BY <2>6, <2>7 DEF ToldIsTrue
<1> QED
  BY <1>1, <1>2, <1>4, <1>5 DEF AlarmInv

LEMMA RestartKeepsAlarms ==
  ASSUME AlarmInv, Restart
  PROVE  AlarmInv'
<1> DEFINE now == IF proxy' = "exact" THEN "none" ELSE "critical"
           changed == alarms'[ProxyAlarm] # alarms[ProxyAlarm]
<1>1. /\ alarms' = [alarms EXCEPT ![ProxyAlarm] = now] /\ told' = told
      /\ lost' = lost \cup {saying[g].id : g \in {h \in Loop : ~Quiet(h)}}
      /\ saying' = [g \in Loop |-> IF g = "proxy" /\ changed
                                   THEN [id |-> ProxyAlarm, says |-> alarms'[ProxyAlarm]]
                                   ELSE Nothing]
  BY DEF Restart
<1>2. now \in Severity /\ ProxyAlarm \in Alarm /\ ProxyAlarm \in Own("proxy")
  BY DEF Severity, Alarm, Own
<1> HIDE DEF now
<1>3. alarms' \in [Alarm -> Severity] /\ \A id \in Alarm : id # ProxyAlarm => alarms'[id] = alarms[id]
  BY <1>1, <1>2 DEF AlarmInv
<1>4. lost' \subseteq Alarm
  BY <1>1 DEF AlarmInv, Pending
<1>5. Nothing.id \in Alarm /\ Nothing.says = "nothing"
  BY <1>2 DEF Nothing
<1>6. "nothing" \notin Severity
  BY DEF Severity
<1>7. ASSUME NEW g \in Loop
      PROVE  Pending(g)'
  <2>1. CASE g = "proxy" /\ changed
    <3>1. saying'[g] = [id |-> ProxyAlarm, says |-> alarms'[ProxyAlarm]]
      BY <1>1, <2>1
    <3> QED
      BY <1>2, <1>3, <2>1, <3>1 DEF Pending
  <2>2. CASE ~(g = "proxy" /\ changed)
    <3>1. saying'[g] = Nothing
      BY <1>1, <2>2
    <3> QED
      BY <1>5, <3>1 DEF Pending, Quiet
  <2> QED
    BY <2>1, <2>2
<1>8. ToldIsTrue'
  <2>1. ASSUME NEW id \in Alarm, id \notin lost'
        PROVE  told[id] = alarms[id]
    BY <1>1, <2>1 DEF AlarmInv, ToldIsTrue
  <2>2. ASSUME NEW id \in Alarm
        PROVE  (\E g \in Loop : saying'[g].id = id /\ ~Quiet(g)') <=> id = ProxyAlarm /\ changed
    <3>1. \A g \in Loop : ~(g = "proxy" /\ changed) => Quiet(g)'
      BY <1>1, <1>5 DEF Quiet
    <3>2. changed => saying'["proxy"].id = ProxyAlarm /\ ~Quiet("proxy")'
      <4>1. SUFFICES ASSUME changed PROVE saying'["proxy"].id = ProxyAlarm /\ ~Quiet("proxy")'
        OBVIOUS
      <4>2. saying'["proxy"] = [id |-> ProxyAlarm, says |-> alarms'[ProxyAlarm]]
        BY <1>1, <4>1 DEF Loop
      <4> QED
        BY <1>2, <1>3, <1>6, <4>2 DEF Quiet
    <3>3. "proxy" \in Loop
      BY DEF Loop
    <3> QED
      BY <3>1, <3>2, <3>3
  <2>3. \A g \in Loop : ~Quiet(g)' => saying'[g].says = alarms'[saying'[g].id]
    BY <1>7 DEF Pending
  <2>4. ASSUME NEW id \in Alarm \ lost'
        PROVE  told'[id] # alarms'[id] <=> \E g \in Loop : saying'[g].id = id /\ ~Quiet(g)'
    BY <1>1, <1>3, <2>1, <2>2
  <2> QED
    BY <2>3, <2>4 DEF ToldIsTrue
<1> QED
  BY <1>1, <1>3, <1>4, <1>7, <1>8 DEF AlarmInv

-----------------------------------------------------------------------------
(* The supervisor. *)

\* Steps of others: the supervisor has no more to say than before.
LEMMA OthersKeepSupervisor ==
  ASSUME CountInv, SupervisorInv, UNCHANGED <<state, gap, tries, sup>>,
         live' \in [App -> Release], Quiet("supervisor") => Quiet("supervisor")'
  PROVE  CountInv' /\ SupervisorInv'
  BY DEF CountInv, Counted, SupervisorInv

\* Raising and clearing are said by the goroutine that does it.
LEMMA OthersSayNothing ==
  ASSUME AlarmInv, NEW g \in Loop, g # "supervisor", NEW id,
         \/ UNCHANGED saying \/ Clear(g, id)
         \/ \E sev \in {"warning", "critical"} : Raise(g, id, sev)
  PROVE  saying'["supervisor"] = saying["supervisor"]
  BY DEF Raise, Clear, Store, AlarmInv, Loop

\* Time passes for all apps, the rest of a back-off becomes shorter by no more.
LEMMA TimeKeeps ==
  ASSUME CountInv, TimePasses, live' = live, tries' = tries
  PROVE  /\ CountInv'
         /\ \A a \in App : /\ state'[a].failures = state[a].failures
                           /\ gap'[a] > gap[a] \/ gap'[a] = Longest
<1>1. PICK elapsed \in 1..MaxElapsed :
        /\ state' = [a \in App |->
             [state[a] EXCEPT !.wait = IF @ > elapsed THEN @ - elapsed ELSE 0]]
        /\ gap' = [a \in App |-> Least(gap[a] + elapsed, Longest)]
  BY DEF TimePasses
<1>2. ASSUME NEW a \in App
      PROVE  /\ state'[a] \in Entry /\ gap'[a] \in Nat /\ Counted(a)'
             /\ state'[a].failures = state[a].failures
             /\ gap'[a] > gap[a] \/ gap'[a] = Longest
             /\ state'[a].heals > 0 => gap'[a] + state'[a].wait >= Backoff(state'[a].heals)
  <2>1. state[a] \in Entry /\ gap[a] \in Nat /\ elapsed \in Nat /\ elapsed > 0
    BY WatchAssumption DEF CountInv
  <2> DEFINE wait == IF state[a].wait > elapsed THEN state[a].wait - elapsed ELSE 0
  <2>2. state'[a] = [state[a] EXCEPT !.wait = wait]
    BY <1>1
  <2>3. wait \in 0..BackoffMax /\ (state[a].wait = 0 => wait = 0)
    BY <2>1, WatchAssumption DEF Entry
  <2>4. gap'[a] = Least(gap[a] + elapsed, Longest) /\ Longest \in Nat /\ Longest > BackoffMax
    BY <1>1, WatchAssumption DEF Longest
  <2>5. gap'[a] \in Nat /\ (gap'[a] = gap[a] + elapsed \/ gap'[a] = Longest)
    BY <2>1, <2>4 DEF Least
  <2>6. /\ state'[a] \in Entry /\ state'[a].heals = state[a].heals /\ state'[a].wait = wait
        /\ state'[a].failures = state[a].failures /\ state'[a].rel = state[a].rel
    <3> HIDE DEF wait
    <3> QED
      BY <2>1, <2>2, <2>3 DEF Entry
  <2>7. ASSUME state[a].heals > 0
        PROVE  gap'[a] + wait >= Backoff(state[a].heals)
    <3>1. Backoff(state[a].heals) \in 0..BackoffMax
      BY <2>1, <2>7, BackoffIsBounded, WatchAssumption DEF Entry
    <3>2. gap[a] + state[a].wait >= Backoff(state[a].heals)
      BY <2>7 DEF CountInv
    <3>3. state[a].wait \in Nat /\ BackoffMax \in Nat
      BY <2>1, WatchAssumption DEF Entry
    <3> QED
      BY <2>1, <2>4, <2>5, <3>1, <3>2, <3>3
  <2>8. Counted(a)'
    <3>1. CASE state[a] = Unseen
      <4>1. state'[a] = Unseen
        <5>1. wait = 0
          BY <2>3, <3>1, UnseenIsEntry
        <5> HIDE DEF wait
        <5> QED
          BY <2>2, <3>1, <5>1 DEF Unseen
      <4> QED
        BY <3>1, <4>1 DEF CountInv, Counted
    <3>2. CASE state[a] # Unseen
      <4>1. Counted(a)
        BY DEF CountInv
      <4> HIDE DEF wait
      <4> QED
        BY <2>6, <3>2, <4>1 DEF Counted
    <3> QED
      BY <3>1, <3>2
  <2> QED
    BY <2>1, <2>5, <2>6, <2>7, <2>8
<1>3. CountInv'
  BY <1>1, <1>2 DEF CountInv
<1> QED
  BY <1>2, <1>3

LEMMA BeginCycleKeeps ==
  ASSUME CountInv, SupervisorInv, BeginCycle \/ SkipCycle
  PROVE  CountInv' /\ SupervisorInv'
<1>1. live' = live /\ tries' = tries /\ saying' = saying /\ TimePasses /\ sup.step = "asleep"
      /\ \/ sup' = [Asleep EXCEPT !.step = "cycle", !.todo = {<<a, live[a]>> : a \in App}]
         \/ sup' = sup
  BY DEF BeginCycle, SkipCycle, environment
<1>2. DOMAIN sup' = DOMAIN Asleep /\ sup'.step \in {"asleep", "cycle"} /\ sup'.todo \subseteq App \X Release
  <2>1. CASE sup' = sup
    BY <1>1, <2>1 DEF SupervisorInv
  <2>2. CASE sup' = [Asleep EXCEPT !.step = "cycle", !.todo = {<<a, live[a]>> : a \in App}]
    <3>1. sup'.todo = {<<a, live[a]>> : a \in App} /\ sup'.step = "cycle" /\ DOMAIN sup' = DOMAIN Asleep
      BY <2>2 DEF Asleep
    <3> QED
      BY <3>1 DEF CountInv
  <2> QED
    BY <1>1, <2>1, <2>2
<1>3. SupervisorInv'
  BY <1>2 DEF SupervisorInv
<1> QED
  BY <1>1, <1>3, TimeKeeps

LEMMA LeaveFacts ==
  ASSUME SupervisorInv, NEW d
  PROVE  /\ DOMAIN Leave(d) = DOMAIN Asleep /\ Leave(d).step = sup.step
         /\ Leave(d).todo \subseteq App \X Release
  BY DEF Leave, SupervisorInv, Asleep

\* A visit: the counters of one app are started anew, or kept.
Agree(t, st) == t.rel = st.rel /\ (t.forgotten \/ t.heals = st.heals)

LEMMA VisitedCounts ==
  ASSUME CountInv, NEW d \in App \X Release, live' = live, gap' = gap,
         NEW st \in Entry, state' = [state EXCEPT ![d[1]] = st],
         NEW t \in Tried, tries' = [tries EXCEPT ![d[1]] = t], Agree(t, st),
         st.heals > 0 => st.heals = state[d[1]].heals /\ st.wait = state[d[1]].wait
  PROVE  CountInv'
<1>1. d[1] \in App
  OBVIOUS
<1>2. /\ state'[d[1]] = st /\ tries'[d[1]] = t
      /\ \A b \in App : b # d[1] => state'[b] = state[b] /\ tries'[b] = tries[b]
  BY <1>1 DEF CountInv
<1>3. state' \in [App -> Entry] /\ tries' \in [App -> Tried]
  BY <1>1 DEF CountInv
<1>4. ASSUME NEW b \in App
      PROVE  /\ Counted(b)'
             /\ state'[b].heals > 0 => gap'[b] + state'[b].wait >= Backoff(state'[b].heals)
  <2>1. CASE b = d[1]
    BY <1>2, <2>1 DEF CountInv, Counted, Agree
  <2>2. CASE b # d[1]
    BY <1>2, <2>2 DEF CountInv, Counted
  <2> QED
    BY <2>1, <2>2
<1> QED
  BY <1>3, <1>4 DEF CountInv

LEMMA VisitHealthyKeeps ==
  ASSUME CountInv, SupervisorInv, NEW d \in sup.todo, VisitHealthy(d)
  PROVE  CountInv' /\ SupervisorInv'
<1> DEFINE st == [Unseen EXCEPT !.rel = d[2]]
           t == [Untried EXCEPT !.rel = d[2]]
<1>1. d \in App \X Release
  BY DEF SupervisorInv
<1>2. st \in Entry /\ st.heals = 0 /\ st.rel = d[2] /\ t \in Tried /\ t.heals = 0 /\ t.rel = d[2]
  BY <1>1, UnseenIsEntry, UntriedIsTried
<1>3. /\ sup.step = "cycle" /\ live' = live /\ gap' = gap /\ sup' = Leave(d)
      /\ state' = [state EXCEPT ![d[1]] = st] /\ tries' = [tries EXCEPT ![d[1]] = t]
  BY DEF VisitHealthy, environment
<1> HIDE DEF st, t
<1>4. Agree(t, st)
  BY <1>2 DEF Agree
<1>5. CountInv'
  <2>1. ~(st.heals > 0)
    BY <1>2
  <2> QED
    BY <1>1, <1>2, <1>3, <1>4, <2>1, VisitedCounts
<1>6. SupervisorInv'
  BY <1>3, LeaveFacts DEF SupervisorInv
<1> QED
  BY <1>6, <1>5

LEMMA VisitFailsKeeps ==
  ASSUME CountInv, SupervisorInv, NEW d \in sup.todo, VisitFails(d)
  PROVE  CountInv' /\ SupervisorInv'
<1>1. d \in App \X Release
  BY DEF SupervisorInv
<1>2. /\ sup.step = "cycle" /\ live' = live /\ gap' = gap /\ sup' = Leave(d)
      /\ state' = [state EXCEPT ![d[1]] = StateFor(d)] /\ tries' = [tries EXCEPT ![d[1]] = TriesFor(d)]
  BY DEF VisitFails, environment
<1>3. CountInv'
  <2>1. /\ StateFor(d) \in Entry /\ TriesFor(d) \in Tried /\ Agree(TriesFor(d), StateFor(d))
        /\ StateFor(d).heals > 0 => StateFor(d) = state[d[1]]
    BY <1>1, StateForFacts DEF Entry, Agree
  <2> QED
    BY <1>1, <1>2, <2>1, VisitedCounts
<1>4. SupervisorInv'
  BY <1>2, LeaveFacts DEF SupervisorInv
<1> QED
  BY <1>3, <1>4

LEMMA VisitUnhealthyKeeps ==
  ASSUME CountInv, SupervisorInv, NEW d \in sup.todo, VisitUnhealthy(d)
  PROVE  CountInv' /\ SupervisorInv'
<1> DEFINE st == [StateFor(d) EXCEPT !.failures = Least(@ + 1, FailuresBeforeHeal)]
<1>1. d \in App \X Release
  BY DEF SupervisorInv
<1>2. StateFor(d).failures \in 0..FailuresBeforeHeal
  BY <1>1, StateForFacts DEF Entry
<1>3. Least(StateFor(d).failures + 1, FailuresBeforeHeal) \in 0..FailuresBeforeHeal
  BY <1>2, WatchAssumption DEF Least
<1>4. /\ st \in Entry /\ st.rel = StateFor(d).rel
      /\ st.heals = StateFor(d).heals /\ st.wait = StateFor(d).wait
  BY <1>1, <1>3, StateForFacts DEF Entry
<1>5. /\ sup.step = "cycle" /\ Quiet("supervisor") /\ live' = live /\ gap' = gap /\ saying' = saying
      /\ state' = [state EXCEPT ![d[1]] = st]
      /\ sup' = IF st.failures >= FailuresBeforeHeal /\ st.wait = 0
                THEN [Leave(d) EXCEPT !.step = "guard", !.dep = d] ELSE Leave(d)
      /\ tries' = [tries EXCEPT ![d[1]] = TriesFor(d)]
  BY DEF VisitUnhealthy, environment
<1> HIDE DEF st
<1>6. CountInv'
  <2>1. /\ TriesFor(d) \in Tried /\ Agree(TriesFor(d), StateFor(d))
        /\ StateFor(d).heals > 0 => StateFor(d) = state[d[1]]
    BY <1>1, StateForFacts DEF Entry, Agree
  <2>2. Agree(TriesFor(d), st)
    BY <1>4, <2>1 DEF Agree
  <2> QED
    BY <1>1, <1>4, <1>5, <2>1, <2>2, VisitedCounts
<1>7. SupervisorInv'
  <2>1. CASE sup' = Leave(d)
    BY <1>5, <2>1, LeaveFacts DEF SupervisorInv
  <2>2. CASE sup' = [Leave(d) EXCEPT !.step = "guard", !.dep = d] /\ st.wait = 0
    <3>1. /\ DOMAIN sup' = DOMAIN Asleep /\ sup'.step = "guard" /\ sup'.dep = d
          /\ sup'.todo \subseteq App \X Release
      BY <2>2, LeaveFacts DEF Asleep
    <3>2. state'[d[1]] = st
      BY <1>1, <1>5, StateForFacts DEF CountInv
    <3> QED
      BY <1>1, <1>5, <2>2, <3>1, <3>2 DEF SupervisorInv, Quiet
  <2> QED
    BY <1>5, <2>1, <2>2
<1> QED
  BY <1>6, <1>7

\* The heal is counted: from now on its back-off passes.
LEMMA GuardKeeps ==
  ASSUME CountInv, SupervisorInv, RestInv, Guard
  PROVE  CountInv' /\ SupervisorInv'
<1> DEFINE a == sup.dep[1]
           n == Least(state[a].heals + 1, MaxHeals)
           m == Least(tries[a].heals + 1, MaxHeals)
<1>1. sup.step = "guard" /\ sup.dep \in App \X Release /\ a \in App /\ Quiet("supervisor")
      /\ live' = live /\ saying' = saying
  BY DEF Guard, SupervisorInv, environment
<1>2. state[a] \in Entry /\ tries[a] \in Tried /\ Counted(a)
  BY <1>1 DEF CountInv
<1>3. state[a] # Unseen
  BY <1>1, UnseenIsEntry, WatchAssumption DEF RestInv
<1>4. CASE live[a] # sup.dep[2]
  <2>1. /\ state' = [state EXCEPT ![a] = Unseen] /\ sup' = [sup EXCEPT !.step = "cycle"]
        /\ tries' = [tries EXCEPT ![a] = Untried] /\ gap' = gap
    BY <1>4 DEF Guard
  <2> HIDE DEF a, n, m
  <2>2. ASSUME NEW b \in App
        PROVE  /\ state'[b] \in Entry /\ tries'[b] \in Tried /\ Counted(b)'
               /\ state'[b].heals > 0 => gap'[b] + state'[b].wait >= Backoff(state'[b].heals)
    <3>1. CASE b = a
      <4>1. state'[b] = Unseen /\ tries'[b] = Untried
        BY <1>1, <2>1, <3>1 DEF CountInv
      <4> QED
        BY <4>1, UnseenAgrees, UnseenIsEntry, UntriedIsTried DEF Counted
    <3>2. CASE b # a
      BY <2>1, <3>2 DEF CountInv, Counted
    <3> QED
      BY <3>1, <3>2
  <2>3. CountInv'
    BY <1>1, <2>1, <2>2 DEF CountInv
  <2>4. SupervisorInv'
    BY <2>1 DEF SupervisorInv, Asleep
  <2> QED
    BY <2>3, <2>4
<1>5. CASE live[a] = sup.dep[2]
  <2>1. /\ state' = [state EXCEPT ![a] = [rel |-> @.rel, failures |-> 0, heals |-> n,
                                         wait |-> Backoff(n)]]
        /\ sup' = [sup EXCEPT !.step = "heal"]
        /\ tries' = [tries EXCEPT ![a].heals = m]
        /\ gap' = [gap EXCEPT ![a] = 0]
    BY <1>5 DEF Guard
  <2>2. n \in 1..MaxHeals /\ m \in 0..MaxHeals
    BY <1>2, WatchAssumption DEF Least, Entry, Tried
  <2>3. Backoff(n) \in 0..BackoffMax
    BY <2>2, BackoffIsBounded, WatchAssumption
  <2>4. tries[a].heals = state[a].heals => m = n
    OBVIOUS
  <2> HIDE DEF a, n, m
  <2>5. /\ state'[a] \in Entry /\ state'[a].heals = n /\ state'[a].wait = Backoff(n)
        /\ state'[a].rel = state[a].rel
        /\ \A b \in App : b # a => state'[b] = state[b]
        /\ DOMAIN state' = App
    <3> DEFINE st == [rel |-> state[a].rel, failures |-> 0, heals |-> n, wait |-> Backoff(n)]
    <3>1. st \in Entry /\ st.heals = n /\ st.wait = Backoff(n) /\ st.rel = state[a].rel
      BY <1>2, <2>2, <2>3, WatchAssumption DEF Entry
    <3>2. state' = [state EXCEPT ![a] = st]
      BY <2>1
    <3> HIDE DEF st
    <3> QED
      BY <1>1, <3>1, <3>2 DEF CountInv
  <2>6. /\ tries'[a] \in Tried /\ tries'[a].heals = m /\ tries'[a].rel = tries[a].rel
        /\ tries'[a].forgotten = tries[a].forgotten
        /\ \A b \in App : b # a => tries'[b] = tries[b]
        /\ DOMAIN tries' = App
    <3>1. tries' = [tries EXCEPT ![a] = [tries[a] EXCEPT !.heals = m]]
      BY <1>1, <2>1
    <3> QED
      BY <1>1, <1>2, <2>2, <3>1 DEF CountInv, Tried
  <2>7. ASSUME NEW b \in App, b = a
        PROVE  Counted(b)'
    <3>1. tries[a].rel = state[a].rel /\ (tries[a].forgotten \/ tries[a].heals = state[a].heals)
      BY <1>2, <1>3 DEF Counted
    <3>2. tries'[a].rel = state'[a].rel
      BY <2>5, <2>6, <3>1
    <3>3. tries'[a].forgotten \/ tries'[a].heals = state'[a].heals
      BY <2>4, <2>5, <2>6, <3>1
    <3> QED
      BY <2>7, <3>2, <3>3 DEF Counted
  <2>8. ASSUME NEW b \in App
        PROVE  /\ Counted(b)'
               /\ state'[b].heals > 0 => gap'[b] + state'[b].wait >= Backoff(state'[b].heals)
    <3>1. CASE b = a
      <4>1. gap'[a] = 0
        BY <1>1, <2>1 DEF CountInv
      <4>2. gap'[a] + state'[a].wait >= Backoff(state'[a].heals)
        BY <2>3, <2>5, <4>1, WatchAssumption
      <4> QED
        BY <2>7, <3>1, <4>2
    <3>2. CASE b # a
      <4>1. state'[b] = state[b] /\ tries'[b] = tries[b] /\ gap'[b] = gap[b]
        BY <1>1, <2>1, <2>5, <2>6, <3>2 DEF CountInv
      <4> QED
        BY <4>1 DEF CountInv, Counted
    <3> QED
      BY <3>1, <3>2
  <2>9. CountInv'
    BY <1>1, <2>1, <2>5, <2>6, <2>8 DEF CountInv
  <2>10. SupervisorInv'
    BY <1>1, <2>1 DEF SupervisorInv, Asleep, Quiet
  <2> QED
    BY <2>9, <2>10
<1> QED
  BY <1>4, <1>5

\* What the supervisor forgets, the history keeps, and that it was forgotten.
LEMMA GuardFailsKeeps ==
  ASSUME CountInv, SupervisorInv, GuardFails \/ ReleaseFails
  PROVE  CountInv' /\ SupervisorInv'
<1> DEFINE a == sup.dep[1]
<1>1. a \in App /\ live' = live /\ gap' = gap /\ saying' = saying
      /\ sup' = [sup EXCEPT !.step = "cycle"]
  BY DEF GuardFails, ReleaseFails, SupervisorInv, environment
<1>2. SupervisorInv'
  BY <1>1 DEF SupervisorInv, Asleep
<1>3. CASE GuardFails
  <2>1. state' = [state EXCEPT ![a] = Unseen] /\ tries' = [tries EXCEPT ![a].forgotten = TRUE]
    BY <1>3 DEF GuardFails
  <2> HIDE DEF a
  <2>2. ASSUME NEW b \in App
        PROVE  /\ state'[b] \in Entry /\ tries'[b] \in Tried /\ Counted(b)'
               /\ state'[b].heals > 0 => gap'[b] + state'[b].wait >= Backoff(state'[b].heals)
    <3>1. CASE b = a
      <4>1. state'[b] = Unseen /\ tries'[b] = [tries[b] EXCEPT !.forgotten = TRUE]
        BY <1>1, <2>1, <3>1 DEF CountInv
      <4>2. tries'[b] \in Tried /\ tries'[b].forgotten
        BY <4>1 DEF CountInv, Tried
      <4> QED
        BY <4>1, <4>2, UnseenIsEntry DEF Counted
    <3>2. CASE b # a
      BY <1>1, <2>1, <3>2 DEF CountInv, Counted
    <3> QED
      BY <3>1, <3>2
  <2>3. CountInv'
    BY <1>1, <2>1, <2>2 DEF CountInv
  <2> QED
    BY <1>2, <2>3
<1>4. CASE ReleaseFails
  <2>1. UNCHANGED <<state, tries>>
    BY <1>4 DEF ReleaseFails
  <2> QED
    BY <1>1, <1>2, <2>1 DEF CountInv, Counted
<1> QED
  BY <1>3, <1>4

\* The heal's outcome, and the end of a cycle, change no counter.
LEMMA OutcomeKeeps ==
  ASSUME CountInv, SupervisorInv, Heal \/ EndCycle
  PROVE  CountInv' /\ SupervisorInv'
<1>1. /\ UNCHANGED <<live, state, gap, tries>>
      /\ sup' = [sup EXCEPT !.step = "cycle"] \/ sup' = Asleep
  BY DEF Heal, HealSucceeds, HealFails, EndCycle, environment
<1>2. SupervisorInv'
  BY <1>1 DEF SupervisorInv, Asleep
<1> QED
  BY <1>1, <1>2 DEF CountInv, Counted

LEMMA RestartKeepsSupervisor ==
  ASSUME CountInv, SupervisorInv, Restart
  PROVE  CountInv' /\ SupervisorInv'
<1>1. /\ live' = live /\ sup' = Asleep /\ state' = [a \in App |-> Unseen]
      /\ tries' = [a \in App |-> Untried] /\ gap' = [a \in App |-> Longest]
  BY DEF Restart
<1>2. CountInv'
  BY <1>1, UnseenIsEntry, UntriedIsTried, UnseenAgrees, WatchAssumption DEF CountInv, Counted, Longest
<1>3. SupervisorInv'
  BY <1>1 DEF SupervisorInv, Asleep
<1> QED
  BY <1>2, <1>3

-----------------------------------------------------------------------------
(* The intervals between two heals. *)

LEMMA RestStays ==
  ASSUME RestInv, UNCHANGED <<state, gap, sup>>
  PROVE  RestInv'
  BY DEF RestInv

\* An app that is visited has one failure more, at most, and is not visited again.
LEMMA RestVisited ==
  ASSUME CountInv, SupervisorInv, RestInv, NEW d \in sup.todo, gap' = gap,
         NEW st \in Entry, state' = [state EXCEPT ![d[1]] = st],
         st.failures <= Least(state[d[1]].failures + 1, FailuresBeforeHeal),
         sup'.todo = sup.todo \ {d},
         \/ sup'.step = "cycle"
         \/ sup'.step = "guard" /\ sup'.dep = d /\ st.failures = FailuresBeforeHeal
  PROVE  RestInv'
<1>1. d[1] \in App /\ \A e \in sup.todo : e[1] \in App
  BY DEF SupervisorInv
<1>2. /\ state'[d[1]] = st
      /\ \A b \in App : b # d[1] => state'[b] = state[b]
  BY <1>1 DEF CountInv
<1>3. \A e \in sup'.todo : e \in sup.todo /\ e[1] # d[1]
  BY DEF RestInv
<1>4. \A e \in sup'.todo : gap'[e[1]] >= Least(state'[e[1]].failures + 1, FailuresBeforeHeal)
  BY <1>1, <1>2, <1>3 DEF RestInv
<1>5. ASSUME NEW b \in App
      PROVE  gap'[b] >= state'[b].failures
  <2>1. CASE b = d[1]
    <3>1. gap[b] >= Least(state[b].failures + 1, FailuresBeforeHeal)
      BY <2>1 DEF RestInv
    <3>2. gap[b] \in Nat /\ st.failures \in Nat /\ state[b].failures \in Nat
      BY WatchAssumption DEF CountInv, Entry
    <3>3. Least(state[b].failures + 1, FailuresBeforeHeal) \in Nat
      BY <3>2, WatchAssumption DEF Least
    <3> QED
      BY <1>2, <2>1, <3>1, <3>2, <3>3
  <2>2. CASE b # d[1]
    BY <1>2, <2>2 DEF RestInv
  <2> QED
    BY <2>1, <2>2
<1>6. \A e, f \in sup'.todo : e[1] = f[1] => e = f
  BY <1>3 DEF RestInv
<1>7. sup'.step \in {"guard", "heal"} => \A e \in sup'.todo : e[1] # sup'.dep[1]
  BY <1>3
<1>8. sup'.step = "guard" => state'[sup'.dep[1]].failures = FailuresBeforeHeal
  BY <1>2
<1> QED
  BY <1>4, <1>5, <1>6, <1>7, <1>8 DEF RestInv

LEMMA VisitsKeepRest ==
  ASSUME CountInv, SupervisorInv, RestInv, NEW d \in sup.todo,
         VisitHealthy(d) \/ VisitUnhealthy(d) \/ VisitFails(d)
  PROVE  RestInv'
<1>1. d \in App \X Release /\ sup.step = "cycle" /\ gap' = gap /\ "todo" \in DOMAIN sup
  BY DEF SupervisorInv, VisitHealthy, VisitUnhealthy, VisitFails, Asleep
<1>2. Leave(d).todo = sup.todo \ {d} /\ Leave(d).step = "cycle" /\ DOMAIN Leave(d) = DOMAIN Asleep
  BY <1>1, LeaveFacts DEF Leave
<1>3. /\ state[d[1]].failures \in 0..FailuresBeforeHeal
      /\ StateFor(d) \in Entry
      /\ StateFor(d).failures \in {state[d[1]].failures, 0}
  BY <1>1, StateForFacts DEF CountInv, Entry
<1>4. \A m, k \in 0..FailuresBeforeHeal :
        m \in {k, 0} => /\ m <= Least(k + 1, FailuresBeforeHeal)
                        /\ Least(m + 1, FailuresBeforeHeal) <= Least(k + 1, FailuresBeforeHeal)
                        /\ Least(m + 1, FailuresBeforeHeal) \in 0..FailuresBeforeHeal
  BY WatchAssumption DEF Least
<1>5. StateFor(d).failures \in 0..FailuresBeforeHeal
  BY <1>3 DEF Entry
<1>6. CASE VisitHealthy(d)
  <2> DEFINE st == [Unseen EXCEPT !.rel = d[2]]
  <2>1. st \in Entry /\ st.failures = 0
    BY <1>1, UnseenIsEntry
  <2>2. state' = [state EXCEPT ![d[1]] = st] /\ sup' = Leave(d)
    BY <1>6 DEF VisitHealthy
  <2>3. 0 \in 0..FailuresBeforeHeal
    BY WatchAssumption
  <2>4. 0 <= Least(state[d[1]].failures + 1, FailuresBeforeHeal)
    BY <1>3, <1>4, <2>3
  <2> HIDE DEF st
  <2> QED
    BY <1>1, <1>2, <2>1, <2>2, <2>4, RestVisited
<1>7. CASE VisitFails(d)
  <2>1. state' = [state EXCEPT ![d[1]] = StateFor(d)] /\ sup' = Leave(d)
    BY <1>7 DEF VisitFails
  <2> QED
    BY <1>1, <1>2, <1>3, <1>4, <1>5, <2>1, RestVisited
<1>8. CASE VisitUnhealthy(d)
  <2> DEFINE st == [StateFor(d) EXCEPT !.failures = Least(@ + 1, FailuresBeforeHeal)]
  <2>1. /\ state' = [state EXCEPT ![d[1]] = st]
        /\ sup' = IF st.failures >= FailuresBeforeHeal /\ st.wait = 0
                  THEN [Leave(d) EXCEPT !.step = "guard", !.dep = d] ELSE Leave(d)
    BY <1>8 DEF VisitUnhealthy
  <2>2. st \in Entry /\ st.failures = Least(StateFor(d).failures + 1, FailuresBeforeHeal)
    BY <1>3, <1>4, <1>5 DEF Entry
  <2>3. /\ st.failures <= Least(state[d[1]].failures + 1, FailuresBeforeHeal)
        /\ st.failures >= FailuresBeforeHeal => st.failures = FailuresBeforeHeal
    <3> DEFINE m == StateFor(d).failures
               k == state[d[1]].failures
    <3>1. m \in 0..FailuresBeforeHeal /\ k \in 0..FailuresBeforeHeal /\ m \in {k, 0}
      BY <1>3, <1>5
    <3>2. st.failures = Least(m + 1, FailuresBeforeHeal)
      BY <2>2
    <3> HIDE DEF m, st
    <3>3. st.failures <= Least(k + 1, FailuresBeforeHeal) /\ st.failures \in 0..FailuresBeforeHeal
      BY <1>4, <3>1, <3>2
    <3> QED
      BY <3>3, WatchAssumption
  <2> HIDE DEF st
  <2>4. CASE sup' = Leave(d)
    BY <1>1, <1>2, <2>1, <2>2, <2>3, <2>4, RestVisited
  <2>5. CASE sup' = [Leave(d) EXCEPT !.step = "guard", !.dep = d] /\ st.failures = FailuresBeforeHeal
    <3>1. sup'.step = "guard" /\ sup'.dep = d /\ sup'.todo = sup.todo \ {d}
      BY <1>2, <2>5 DEF Asleep
    <3> QED
      BY <1>1, <2>1, <2>2, <2>3, <2>5, <3>1, RestVisited
  <2> QED
    BY <2>1, <2>3, <2>4, <2>5
<1> QED
  BY <1>6, <1>7, <1>8

\* Each cycle comes an interval after the last.
LEMMA CyclesKeepRest ==
  ASSUME CountInv, SupervisorInv, RestInv, BeginCycle \/ SkipCycle
  PROVE  RestInv'
<1>1. /\ live' = live /\ tries' = tries /\ TimePasses /\ sup.step = "asleep"
      /\ \/ sup' = [Asleep EXCEPT !.step = "cycle", !.todo = {<<a, live[a]>> : a \in App}]
         \/ sup' = sup
  BY DEF BeginCycle, SkipCycle, environment
<1>2. /\ sup'.todo = {<<a, live[a]>> : a \in App} \/ sup'.todo = sup.todo
      /\ sup'.step \in {"asleep", "cycle"}
  BY <1>1 DEF Asleep
<1>3. \A d, e \in sup'.todo : d[1] = e[1] => d = e
  BY <1>2 DEF RestInv
<1>4. ASSUME NEW a \in App
      PROVE  /\ gap'[a] >= state'[a].failures
             /\ gap'[a] >= Least(state'[a].failures + 1, FailuresBeforeHeal)
  <2>1. state'[a].failures = state[a].failures /\ (gap'[a] > gap[a] \/ gap'[a] = Longest)
    BY <1>1, TimeKeeps
  <2>2. /\ gap[a] \in Nat /\ gap'[a] \in Nat /\ state[a].failures \in 0..FailuresBeforeHeal
        /\ gap[a] >= state[a].failures
    BY <1>1, TimeKeeps DEF CountInv, Entry, RestInv
  <2>3. Longest \in Nat /\ Longest >= FailuresBeforeHeal
    BY WatchAssumption DEF Longest
  <2> QED
    BY <2>1, <2>2, <2>3, WatchAssumption DEF Least
<1>5. \A d \in sup'.todo : d[1] \in App
  BY <1>2 DEF SupervisorInv
<1> QED
  BY <1>2, <1>3, <1>4, <1>5 DEF RestInv

\* From the guard on an app has no failures, and no other visit in this cycle.
LEMMA GuardKeepsRest ==
  ASSUME CountInv, SupervisorInv, RestInv, Guard \/ GuardFails \/ ReleaseFails \/ Heal \/ EndCycle
  PROVE  RestInv'
<1> DEFINE a == sup.dep[1]
<1>1. CASE Guard \/ GuardFails
  <2>1. sup.step = "guard" /\ a \in App
    BY <1>1 DEF Guard, GuardFails, SupervisorInv
  <2>2. /\ sup' = [sup EXCEPT !.step = "cycle"] \/ sup' = [sup EXCEPT !.step = "heal"]
        /\ gap' = gap \/ gap' = [gap EXCEPT ![a] = 0]
    BY <1>1 DEF Guard, GuardFails
  <2>3. PICK st : st.failures = 0 /\ state' = [state EXCEPT ![a] = st]
    <3>1. CASE live[a] = sup.dep[2] /\ Guard
      BY <3>1 DEF Guard
    <3>2. CASE live[a] # sup.dep[2] \/ GuardFails
      BY <1>1, <3>2, UnseenIsEntry DEF Guard, GuardFails
    <3> QED
      BY <1>1, <3>1, <3>2
  <2> HIDE DEF a
  <2>4. /\ state'[a].failures = 0
        /\ \A b \in App : b # a => state'[b] = state[b] /\ gap'[b] = gap[b]
    BY <2>1, <2>2, <2>3 DEF CountInv
  <2>5. gap'[a] \in Nat
    BY <2>1, <2>2 DEF CountInv
  <2>6. sup'.todo = sup.todo /\ sup'.dep = sup.dep /\ sup'.step \in {"cycle", "heal"}
    BY <2>2 DEF SupervisorInv, Asleep
  <2>7. \A d \in sup.todo : d[1] \in App /\ d[1] # a
    BY <2>1 DEF RestInv, SupervisorInv, a
  <2>8. \A b \in App : gap'[b] >= state'[b].failures
    BY <2>4, <2>5 DEF RestInv
  <2>9. \A d \in sup'.todo : gap'[d[1]] >= Least(state'[d[1]].failures + 1, FailuresBeforeHeal)
    BY <2>4, <2>6, <2>7 DEF RestInv
  <2> QED
    BY <2>6, <2>7, <2>8, <2>9 DEF RestInv, a
<1>2. CASE ReleaseFails \/ Heal
  <2>1. UNCHANGED <<state, gap>> /\ sup' = [sup EXCEPT !.step = "cycle"]
    BY <1>2 DEF ReleaseFails, Heal, HealSucceeds, HealFails
  <2>2. sup'.todo = sup.todo /\ sup'.step = "cycle"
    BY <2>1 DEF SupervisorInv, Asleep
  <2> QED
    BY <2>1, <2>2 DEF RestInv
<1>3. CASE EndCycle
  <2>1. UNCHANGED <<state, gap>> /\ sup'.todo = {} /\ sup'.step = "asleep"
    BY <1>3 DEF EndCycle, Asleep
  <2> QED
    BY <2>1 DEF RestInv
<1> QED
  BY <1>1, <1>2, <1>3

LEMMA RestartKeepsRest ==
  ASSUME Restart
  PROVE  RestInv'
<1>1. /\ sup'.todo = {} /\ sup'.step = "asleep"
      /\ state' = [a \in App |-> Unseen] /\ gap' = [a \in App |-> Longest]
  BY DEF Restart, Asleep
<1>2. Longest \in Nat
  BY WatchAssumption DEF Longest
<1> QED
  BY <1>1, <1>2, UnseenIsEntry DEF RestInv

-----------------------------------------------------------------------------
LEMMA WatchInvInit == Init => WatchInv
<1> SUFFICES ASSUME Init PROVE WatchInv
  OBVIOUS
<1>1. AlarmInv
  BY DEF Init, AlarmInv, Pending, Quiet, Nothing, Alarm, Severity, ToldIsTrue
<1>2. CountInv
  BY UnseenIsEntry, UntriedIsTried, UnseenAgrees, WatchAssumption DEF Init, CountInv, Counted, Longest
<1>3. SupervisorInv
  BY DEF Init, SupervisorInv, Asleep
<1>4. RestInv
  BY UnseenIsEntry, WatchAssumption DEF Init, RestInv, Asleep, Longest
<1> QED
  BY <1>1, <1>2, <1>3, <1>4, WatchAssumption DEF WatchInv, Init

\* The proxy watcher, the disk watcher and the backups.
LEMMA WatchersKeepInv ==
  ASSUME WatchInv, ProxyTick \/ CheckDisk \/ TakeBackup
  PROVE  WatchInv'
<1> USE DEF WatchInv
<1>1. /\ UNCHANGED <<live, state, gap, tries, sup, told, lost>>
  BY DEF ProxyTick, CheckDisk, TakeBackup, environment
<1>2. PICK g \in {"proxy", "disk", "backup"}, id \in Alarm :
        /\ Quiet(g) /\ id \in Own(g)
        /\ \/ UNCHANGED <<alarms, saying>> \/ Clear(g, id)
           \/ \E sev \in {"warning", "critical"} : Raise(g, id, sev)
  <2>1. CASE ProxyTick
    BY <2>1 DEF ProxyTick, Own, Severity, Alarm
  <2>2. CASE CheckDisk
    BY <2>2 DEF CheckDisk, Decide, Own, Severity, Alarm
  <2>3. CASE TakeBackup
    BY <2>3 DEF TakeBackup, Own, Severity, Alarm
  <2> QED
    BY <2>1, <2>2, <2>3
<1>3. g \in Loop /\ g # "supervisor"
  BY DEF Loop
<1>4. AlarmInv'
  BY <1>1, <1>2, <1>3, RaiseClearKeepAlarms
<1>5. saying'["supervisor"] = saying["supervisor"]
  BY <1>2, <1>3, OthersSayNothing
<1>6. CountInv' /\ SupervisorInv' /\ RestInv'
  BY <1>1, <1>5, OthersKeepSupervisor, RestStays DEF CountInv, Quiet
<1>7. fails' \in 0..ProxyAlarmAfter
  BY WatchAssumption DEF ProxyTick, CheckDisk, TakeBackup, Least
<1> QED
  BY <1>4, <1>6, <1>7

\* What is watched changes.
LEMMA ChangesKeepInv ==
  ASSUME WatchInv, Break \/ Deploy \/ ProxyChanges \/ DiskChanges \/ BackupsChange
  PROVE  WatchInv'
<1> USE DEF WatchInv
<1>1. UNCHANGED <<alarms, told, saying, sup, state, fails, tries, gap, lost>>
  BY DEF Break, Deploy, ProxyChanges, DiskChanges, BackupsChange
<1>2. live' \in [App -> Release]
  BY DEF Break, Deploy, ProxyChanges, DiskChanges, BackupsChange, CountInv
<1>3. AlarmInv'
  BY <1>1, SilentKeepsAlarms DEF Silent
<1>4. CountInv' /\ SupervisorInv' /\ RestInv'
  BY <1>1, <1>2, OthersKeepSupervisor, RestStays DEF Quiet
<1> QED
  BY <1>1, <1>3, <1>4

LEMMA NotifyKeepsInv ==
  ASSUME WatchInv, NEW g \in Loop, Notify(g)
  PROVE  WatchInv'
<1> USE DEF WatchInv
<1>1. /\ UNCHANGED <<live, sup, state, fails, tries, gap>> /\ ~Quiet(g)
      /\ saying' = [saying EXCEPT ![g] = Nothing]
  BY DEF Notify, environment
<1>2. AlarmInv'
  BY NotifyKeepsAlarms
<1>3. Quiet("supervisor") => Quiet("supervisor")'
  BY <1>1 DEF Quiet, AlarmInv, Loop
<1>4. CountInv' /\ SupervisorInv' /\ RestInv'
  BY <1>1, <1>3, OthersKeepSupervisor, RestStays DEF CountInv
<1> QED
  BY <1>1, <1>2, <1>4

\* The supervisor's visits and heals raise and clear its own alarms.
LEMMA SupervisorKeepsInv ==
  ASSUME WatchInv, Supervise \/ ReadFails
  PROVE  WatchInv'
<1> USE DEF WatchInv
<1>1. UNCHANGED <<told, lost, fails>>
  BY DEF Supervise, ReadFails, BeginCycle, SkipCycle, Visit, VisitHealthy, VisitUnhealthy,
         VisitFails, Guard, GuardFails, ReleaseFails, Heal, HealSucceeds, HealFails, EndCycle
<1>2. CountInv' /\ SupervisorInv'
  BY BeginCycleKeeps, VisitHealthyKeeps, VisitUnhealthyKeeps, VisitFailsKeeps, GuardKeeps,
     GuardFailsKeeps, OutcomeKeeps DEF Supervise, ReadFails, Visit
<1>3. RestInv'
  BY CyclesKeepRest, VisitsKeepRest, GuardKeepsRest DEF Supervise, ReadFails, Visit
<1>4. AlarmInv'
  <2>1. "supervisor" \in Loop /\ \A a \in App : HealAlarm(a) \in Own("supervisor")
    BY DEF Loop, Own
  <2>2. CASE UNCHANGED <<alarms, saying>>
    BY <1>1, <2>2, SilentKeepsAlarms DEF Silent
  <2>3. ASSUME NEW d \in sup.todo, VisitHealthy(d)
        PROVE  AlarmInv'
    <3>1. d[1] \in App /\ Quiet("supervisor") /\ Clear("supervisor", HealAlarm(d[1]))
      BY <2>3 DEF VisitHealthy, SupervisorInv
    <3> QED
      BY <1>1, <2>1, <3>1, RaiseClearKeepAlarms
  <2>4. CASE HealFails
    <3>1. sup.dep[1] \in App /\ Quiet("supervisor")
      BY <2>4 DEF HealFails, SupervisorInv
    <3>2. \/ UNCHANGED <<alarms, saying>>
          \/ Raise("supervisor", HealAlarm(sup.dep[1]), "critical")
      BY <2>4 DEF HealFails
    <3>3. "critical" \in Severity
      BY DEF Severity
    <3> QED
      BY <1>1, <2>1, <3>1, <3>2, <3>3, RaiseClearKeepAlarms
  <2> QED
    BY <2>2, <2>3, <2>4 DEF Supervise, ReadFails, BeginCycle, SkipCycle, Visit, VisitUnhealthy,
         VisitFails, Guard, GuardFails, ReleaseFails, Heal, HealSucceeds, EndCycle
<1> QED
  BY <1>1, <1>2, <1>4, <1>3

LEMMA WatchInvNext == WatchInv /\ [Next]_vars => WatchInv'
<1> SUFFICES ASSUME WatchInv, [Next]_vars PROVE WatchInv'
  OBVIOUS
<1>1. CASE UNCHANGED vars
  <2>1. UNCHANGED <<live, alarms, told, saying, sup, state, fails, tries, gap, lost>>
    BY <1>1 DEF vars, environment
  <2> QED
    BY <2>1, SilentKeepsAlarms, OthersKeepSupervisor, RestStays DEF WatchInv, Silent, CountInv, Quiet
<1>2. CASE Restart
  <2>1. fails' \in 0..ProxyAlarmAfter
    BY <1>2, WatchAssumption DEF Restart
  <2> QED
    BY <1>2, <2>1, RestartKeepsAlarms, RestartKeepsSupervisor, RestartKeepsRest DEF WatchInv
<1> QED
  BY <1>1, <1>2, NotifyKeepsInv, SupervisorKeepsInv, WatchersKeepInv, ChangesKeepInv DEF Next

\* The inductive invariant: who owns which alarm and what is still to be said of
\* it, how much of a back-off is past, and how many intervals since the last heal.
THEOREM WatchCorrect == Spec => []WatchInv
  BY WatchInvInit, WatchInvNext, PTL DEF Spec

LEMMA WatchInvTypes == WatchInv => WatchTypeOK
<1> SUFFICES ASSUME WatchInv PROVE WatchTypeOK
  OBVIOUS
<1>1. \A g \in Loop : saying[g].id \in Alarm /\ saying[g].says \in Severity \cup {"nothing"}
  BY DEF WatchInv, AlarmInv, Pending
<1>2. \A a \in App : /\ state[a].rel \in Release \cup {0}
                     /\ state[a].failures \in 0..FailuresBeforeHeal
                     /\ state[a].heals \in 0..MaxHeals /\ state[a].wait \in 0..BackoffMax
  BY DEF WatchInv, CountInv, Entry
<1> QED
  BY <1>1, <1>2 DEF WatchInv, AlarmInv, SupervisorInv, WatchTypeOK

\* Types: the counters stay in their ranges.
THEOREM WatchTypes == Spec => []WatchTypeOK
  BY WatchCorrect, WatchInvTypes, PTL

\* alarm.go:98 : each change of an alarm is to be told until it is, and nothing is told
\* twice, but for what a crash cut off.
THEOREM AlarmsAreTold == Spec => []ToldIsTrue
<1>1. WatchInv => ToldIsTrue
  BY DEF WatchInv, AlarmInv
<1> QED
  BY <1>1, WatchCorrect, PTL

-----------------------------------------------------------------------------
(* The back-off. *)

BacksOff ==
  sup.step = "guard" /\ sup'.step = "heal" =>
    LET past == tries[sup.dep[1]]  since == gap[sup.dep[1]]
    IN past.heals > 0 =>
         /\ since >= FailuresBeforeHeal
         /\ past.forgotten \/ since >= Backoff(past.heals)

\* A heal comes after enough failures, when nothing is left to wait of what the
\* supervisor remembers.
LEMMA HealsAreDue ==
  ASSUME WatchInv, sup.step = "guard"
  PROVE  LET past == tries[sup.dep[1]]  since == gap[sup.dep[1]]
         IN past.heals > 0 =>
              /\ since >= FailuresBeforeHeal
              /\ past.forgotten \/ since >= Backoff(past.heals)
<1> DEFINE a == sup.dep[1]
<1>1. /\ a \in App /\ state[a].wait = 0 /\ gap[a] \in Nat /\ state[a] \in Entry /\ Counted(a)
      /\ state[a].heals > 0 => gap[a] + state[a].wait >= Backoff(state[a].heals)
  BY DEF WatchInv, SupervisorInv, CountInv
<1>2. gap[a] >= FailuresBeforeHeal
  BY <1>1 DEF WatchInv, RestInv
<1> HIDE DEF a
<1>3. ASSUME tries[a].heals > 0, ~tries[a].forgotten
      PROVE  gap[a] >= Backoff(tries[a].heals)
  <2>1. tries[a].heals = state[a].heals
    BY <1>1, <1>3 DEF Counted
  <2> QED
    BY <1>1, <1>3, <2>1
<1> QED
  BY <1>2, <1>3 DEF a

\* supervisor.go:416 : an app that crashes again and again is healed again only after
\* enough failing visits, and when the back-off of its last heal is over, unless a
\* failing read made the supervisor forget it (supervisor.go:357-361).
THEOREM HealsWaitForBackoff == Spec => HealsBackOff
<1>1. WatchInv /\ [Next]_vars => [BacksOff]_vars
  BY HealsAreDue DEF BacksOff
<1>2. Spec => [][BacksOff]_vars
  BY <1>1, WatchCorrect, PTL DEF Spec
<1> QED
  BY <1>2 DEF BacksOff, HealsBackOff

=============================================================================
