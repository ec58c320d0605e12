--------------------------- MODULE Watchdog_proofs ---------------------------
(***************************************************************************)
(* For any loops with any intervals: no loop that runs is taken for stuck, *)
(* and systemd ends no kadrand whose evaluations all found it well.        *)
(***************************************************************************)
EXTENDS Watchdog, TLAPS

\* The time a loop has been without a stamp, and the time it may still take.
LoopInv ==
  \A l \in Loop :
    /\ age[l] <= LoopMaxAge(l) + 1
    /\ Every[l] > 0 /\ loop[l].step = "waiting" => age[l] + loop[l].for <= Every[l]
    /\ Every[l] > 0 /\ loop[l].step = "working" => age[l] + loop[l].for <= Every[l] + MaxPass

\* While every evaluation pinged, the next ping comes in time.
PingInv ==
  /\ timer <= PingEvery /\ pinged <= WatchdogSec
  /\ check.step = "probing" => check.for < timer
  /\ missed = 0 /\ check.step = "done" => pinged + timer <= PingEvery
  /\ missed = 0 /\ check.step = "probing" => pinged + check.for <= PingEvery + ProbeTimeout

Typed ==
  /\ loop \in [Loop -> [step : {"waiting", "working", "hung"}, for : Nat]]
  /\ age \in [Loop -> Nat]
  /\ db \in {"free", "slow", "empty"}
  /\ check \in [step : {"done", "probing"}, young : BOOLEAN, for : Nat]
  /\ timer \in Nat /\ pinged \in Nat /\ missed \in Nat

WatchdogInv == Typed /\ LoopInv /\ PingInv

LEMMA Intervals ==
  /\ PingEvery \in Nat /\ 2 * PingEvery <= WatchdogSec
  /\ ProbeTimeout \in Nat /\ 0 < ProbeTimeout /\ ProbeTimeout < PingEvery
  BY WatchdogAssumption DEF PingEvery

LEMMA Ages ==
  ASSUME NEW l \in Loop
  PROVE  /\ Every[l] \in Nat /\ LoopMaxAge(l) \in Nat
         /\ Every[l] + MaxPass <= LoopMaxAge(l)
  BY WatchdogAssumption DEF LoopMaxAge, Larger

LEMMA FreshIsWell ==
  ASSUME Fresh, db' \in {"free", "slow", "empty"}
  PROVE  WatchdogInv'
<1>1. Typed'
  BY DEF Fresh, Typed, Waiting, Done
<1>2. LoopInv'
  BY Ages DEF Fresh, LoopInv, Waiting
<1>3. PingInv'
  BY Intervals, WatchdogAssumption DEF Fresh, PingInv, Done
<1> QED
  BY <1>1, <1>2, <1>3 DEF WatchdogInv

LEMMA WatchdogInvInit == Init => WatchdogInv
<1> SUFFICES ASSUME Init PROVE WatchdogInv
  OBVIOUS
<1>1. Typed
  BY DEF Init, Typed, Waiting, Done
<1>2. ASSUME NEW l \in Loop
      PROVE  loop[l].step = "waiting" /\ loop[l].for = 0 /\ age[l] = 0
  BY DEF Init, Waiting
<1>3. ASSUME NEW l \in Loop
      PROVE  /\ age[l] <= LoopMaxAge(l) + 1
             /\ age[l] + loop[l].for <= Every[l]
             /\ age[l] + loop[l].for <= Every[l] + MaxPass
  BY <1>2, Ages, WatchdogAssumption
<1>4. LoopInv
  BY <1>3 DEF LoopInv
<1>5. PingInv
  BY Intervals, WatchdogAssumption DEF Init, PingInv, Done
<1> QED
  BY <1>1, <1>4, <1>5 DEF WatchdogInv

\* A step of one loop.
LEMMA LoopStepKeepsInv ==
  ASSUME WatchdogInv, NEW l \in Loop, BeginPass(l) \/ EndPass(l) \/ Hang(l)
  PROVE  WatchdogInv'
<1> USE DEF WatchdogInv
<1>1. Typed'
  <2>1. CASE BeginPass(l)
    BY <2>1, WatchdogAssumption DEF BeginPass, Typed
  <2>2. CASE EndPass(l)
    BY <2>2, Ages DEF EndPass, Typed, Waiting
  <2>3. CASE Hang(l)
    BY <2>3 DEF Hang, Typed
  <2> QED
    BY <2>1, <2>2, <2>3
<1>2. LoopInv'
  <2> SUFFICES ASSUME NEW k \in Loop
               PROVE  /\ age'[k] <= LoopMaxAge(k) + 1
                      /\ Every[k] > 0 /\ loop'[k].step = "waiting" => age'[k] + loop'[k].for <= Every[k]
                      /\ Every[k] > 0 /\ loop'[k].step = "working"
                           => age'[k] + loop'[k].for <= Every[k] + MaxPass
    BY DEF LoopInv
  <2>1. CASE BeginPass(l)
    <3>1. CASE k = l
      <4>1. loop'[k] = [step |-> "working", for |-> MaxPass] /\ age'[k] = age[k]
        BY <2>1, <3>1 DEF BeginPass, Typed
      <4>2. age[k] <= Every[k] /\ age[k] <= LoopMaxAge(k) + 1
        BY <2>1, <3>1, Ages DEF BeginPass, Typed, LoopInv
      <4> QED
        BY <4>1, <4>2, Ages, WatchdogAssumption DEF Typed
    <3>2. CASE k # l
      BY <2>1, <3>2 DEF BeginPass, Typed, LoopInv
    <3> QED
      BY <3>1, <3>2
  <2>2. CASE EndPass(l)
    <3>1. CASE k = l
      BY <2>2, <3>1, Ages DEF EndPass, Typed, Waiting
    <3>2. CASE k # l
      BY <2>2, <3>2 DEF EndPass, Typed, LoopInv
    <3> QED
      BY <3>1, <3>2
  <2>3. CASE Hang(l)
    BY <2>3 DEF Hang, Typed, LoopInv
  <2> QED
    BY <2>1, <2>2, <2>3
<1>3. PingInv'
  BY DEF PingInv, BeginPass, EndPass, Hang
<1> QED
  BY <1>1, <1>2, <1>3

\* A step of the watchdog's goroutine, or of the database.
LEMMA WatchStepKeepsInv ==
  ASSUME WatchdogInv,
         BeginCheck \/ Ping \/ NoPing \/ PingFails \/ DatabaseChanges
  PROVE  WatchdogInv'
<1> USE DEF WatchdogInv
<1>1. LoopInv'
  BY DEF LoopInv, BeginCheck, Ping, NoPing, PingFails, DatabaseChanges
<1>2. CASE BeginCheck
  <2>1. (Stale = {}) \in BOOLEAN
    OBVIOUS
  <2>2. Typed'
    BY <1>2, <2>1, Intervals DEF BeginCheck, Typed
  <2>3. PingInv'
    BY <1>2, Intervals, WatchdogAssumption DEF BeginCheck, Typed, PingInv
  <2> QED
    BY <1>1, <2>2, <2>3
<1>3. CASE Ping
  <2>1. Typed'
    BY <1>3 DEF Ping, Typed, Done
  <2>2. PingInv'
    BY <1>3, Intervals, WatchdogAssumption DEF Ping, Typed, PingInv, Done
  <2> QED
    BY <1>1, <2>1, <2>2
<1>4. CASE NoPing \/ PingFails
  <2>1. /\ check' = Done /\ missed' = missed + 1
        /\ UNCHANGED <<loop, age, db, timer, pinged>>
    BY <1>4 DEF NoPing, PingFails
  <2>2. Typed'
    BY <2>1 DEF Typed, Done
  <2>3. PingInv'
    BY <2>1, Intervals DEF Typed, PingInv, Done
  <2> QED
    BY <1>1, <2>2, <2>3
<1>5. CASE DatabaseChanges
  BY <1>1, <1>5 DEF DatabaseChanges, Typed, PingInv
<1> QED
  BY <1>2, <1>3, <1>4, <1>5

\* Nothing is due when time passes, so no loop and no ping is late by it.
LEMMA TickKeepsInv ==
  ASSUME WatchdogInv, Tick
  PROVE  WatchdogInv'
<1> USE DEF WatchdogInv
<1>1. Typed'
  BY DEF Tick, Typed, Sooner
<1>2. LoopInv'
  <2> SUFFICES ASSUME NEW l \in Loop
               PROVE  /\ age'[l] <= LoopMaxAge(l) + 1
                      /\ Every[l] > 0 /\ loop'[l].step = "waiting" => age'[l] + loop'[l].for <= Every[l]
                      /\ Every[l] > 0 /\ loop'[l].step = "working"
                           => age'[l] + loop'[l].for <= Every[l] + MaxPass
    BY DEF LoopInv
  <2>1. /\ loop'[l].step = loop[l].step
        /\ loop'[l].for = Sooner(loop[l].for)
        /\ age'[l] = IF age[l] > LoopMaxAge(l) THEN age[l] ELSE age[l] + 1
    BY DEF Tick, Typed
  <2>2. Every[l] > 0 /\ loop[l].step # "hung" => loop[l].for > 0
    BY DEF Tick, Idle
  <2>3. /\ age[l] \in Nat /\ loop[l].for \in Nat
        /\ Every[l] \in Nat /\ LoopMaxAge(l) \in Nat /\ MaxPass \in Nat
    BY Ages, WatchdogAssumption DEF Typed
  <2> QED
    BY <2>1, <2>2, <2>3 DEF LoopInv, Sooner
<1>3. PingInv'
  <2>1. ~Due /\ pinged < WatchdogSec
    BY DEF Tick, Idle
  <2>2. /\ check.step = "done" => timer > 0
        /\ check.step = "probing" => check.for > 0
    BY <2>1 DEF Due, Answered, TimedOut, Typed
  <2>3. /\ timer' = Sooner(timer) /\ pinged' = pinged + 1 /\ missed' = missed
        /\ check'.step = check.step /\ check'.for = Sooner(check.for)
    BY DEF Tick, Typed
  <2> QED
    BY <2>1, <2>2, <2>3, Intervals, WatchdogAssumption DEF PingInv, Typed, Sooner
<1> QED
  BY <1>1, <1>2, <1>3

LEMMA WatchdogInvNext == WatchdogInv /\ [Next]_vars => WatchdogInv'
<1> SUFFICES ASSUME WatchdogInv, [Next]_vars PROVE WatchdogInv'
  OBVIOUS
<1>1. CASE \E l \in Loop : BeginPass(l) \/ EndPass(l) \/ Hang(l)
  BY <1>1, LoopStepKeepsInv
<1>2. CASE BeginCheck \/ Ping \/ NoPing \/ PingFails \/ DatabaseChanges
  BY <1>2, WatchStepKeepsInv
<1>3. CASE Kill
  BY <1>3, FreshIsWell DEF Kill, WatchdogInv, Typed
<1>4. CASE Tick
  BY <1>4, TickKeepsInv
<1>5. CASE UNCHANGED vars
  BY <1>5 DEF vars, WatchdogInv, Typed, LoopInv, PingInv
<1> QED
  BY <1>1, <1>2, <1>3, <1>4, <1>5 DEF Next

\* The inductive invariant of the watchdog holds for any loops and intervals.
THEOREM WatchdogCorrect == Spec => []WatchdogInv
  BY WatchdogInvInit, WatchdogInvNext, PTL DEF Spec

LEMMA WatchdogInvTypes == WatchdogInv => WatchdogTypeOK
<1> SUFFICES ASSUME WatchdogInv PROVE WatchdogTypeOK
  OBVIOUS
<1>1. ASSUME NEW l \in Loop
      PROVE  /\ loop[l].step \in {"waiting", "working", "hung"}
             /\ age[l] \in 0..LoopMaxAge(l) + 1
             /\ Every[l] > 0 /\ loop[l].step # "hung" => age[l] <= Every[l] + MaxPass
  BY Ages, WatchdogAssumption DEF WatchdogInv, Typed, LoopInv
<1>2. /\ timer \in 0..PingEvery /\ pinged \in 0..WatchdogSec
      /\ check.step \in {"done", "probing"}
      /\ check.step = "probing" => timer > 0
  BY Intervals, WatchdogAssumption DEF WatchdogInv, Typed, PingInv
<1> QED
  BY <1>1, <1>2 DEF WatchdogTypeOK

\* The timers stay in their intervals, and a loop that runs has a stamp of its
\* last pass (Watchdog!WatchdogTypeOK).
THEOREM WatchdogTypes == Spec => []WatchdogTypeOK
  BY WatchdogCorrect, WatchdogInvTypes, PTL

\* A stale loop has neither waited nor worked for as long as it may.
LEMMA StaleIsHung == WatchdogInv => SlowIsNotStuck
<1> SUFFICES ASSUME WatchdogInv, NEW l \in Stale PROVE loop[l].step = "hung"
  BY DEF SlowIsNotStuck
<1>1. l \in Loop /\ Every[l] > 0 /\ age[l] > LoopMaxAge(l)
  BY DEF Stale, Registered
<1>2. loop[l].step # "hung" => age[l] <= Every[l] + MaxPass
  BY <1>1, Ages, WatchdogAssumption DEF WatchdogInv, Typed, LoopInv
<1>3. Every[l] + MaxPass <= LoopMaxAge(l) /\ age[l] \in Nat
  BY <1>1, Ages DEF WatchdogInv, Typed
<1> QED
  BY <1>1, <1>2, <1>3, Ages, WatchdogAssumption

\* loopMaxAge's threshold is above what a loop may need, whatever its interval:
\* a loop that is merely slow, or switched off, is never taken for stuck.
THEOREM SlowLoopsAreSpared == Spec => []SlowIsNotStuck
  BY WatchdogCorrect, StaleIsHung, PTL

\* When no evaluation failed the deadline is not reached: the last ping is at
\* most an interval and a probe old, or the next one is due.
LEMMA KillNeedsMiss == WatchdogInv /\ Kill => missed >= 1
<1> SUFFICES ASSUME WatchdogInv, Kill, missed = 0 PROVE FALSE
  BY DEF WatchdogInv, Typed
<1>1. pinged = WatchdogSec /\ ~Due
  BY DEF Kill
<1>2. CASE check.step = "done"
  BY <1>1, <1>2, Intervals, WatchdogAssumption DEF WatchdogInv, Typed, PingInv
<1>3. CASE check.step = "probing"
  BY <1>1, <1>3, Intervals, WatchdogAssumption DEF WatchdogInv, Typed, PingInv
<1> QED
  BY <1>2, <1>3 DEF WatchdogInv, Typed

\* Interval's half of WatchdogSec is short enough: systemd ends kadrand only
\* after an evaluation that failed or a ping that was not sent.
THEOREM KillsAreEarned == Spec => KillIsEarned
<1>1. WatchdogInv /\ [Next]_vars => [Kill => missed >= 1]_vars
  BY KillNeedsMiss
<1> QED
  BY <1>1, WatchdogCorrect, PTL DEF Spec, KillIsEarned
=============================================================================
