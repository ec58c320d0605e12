------------------------------ MODULE Watchdog ------------------------------
(***************************************************************************)
(* The liveness watch of kadrand: every background loop stamps its beat    *)
(* when it has made progress, the watchdog's goroutine pings systemd only  *)
(* while all stamps are young and the database gives a connection, and     *)
(* systemd ends a kadrand that has not pinged for WatchdogSec and starts   *)
(* it again.                                                               *)
(*                                                                         *)
(* Time passes by Tick, in units of the longest probe of the database; a   *)
(* step that is due happens before time goes on.                           *)
(***************************************************************************)
EXTENDS Integers

CONSTANTS
  Loop,
  Every,          \* the interval of each loop; 0: it is switched off
  MinLoopMaxAge,
  MaxPass,        \* the longest a pass takes that is slow but not stuck
  WatchdogSec, ProbeTimeout,
  MaxHangs,       \* bound: loops that get stuck
  MaxFaults       \* bound: changes of the database, and pings that fail

ASSUME WatchdogAssumption ==
  /\ Every \in [Loop -> Nat]
  /\ MinLoopMaxAge \in Nat /\ MaxPass \in Nat
  /\ WatchdogSec \in Nat /\ ProbeTimeout \in Nat \ {0} /\ ProbeTimeout < WatchdogSec \div 2
  /\ \A l \in Loop : Every[l] + MaxPass <= MinLoopMaxAge \/ MaxPass <= 2 * Every[l]

VARIABLES
  loop,      \* each loop's goroutine: what it does and for how long at most
  age,       \* the time since each loop's stamp
  db,        \* whether the pool gives a connection: "free", "slow" or "empty"
  timer,     \* the time to the watchdog's next tick
  check,     \* the watchdog's goroutine: whether it probes, and if all beats were young
  pinged,    \* the time since systemd heard of kadrand
  missed,    \* history: the evaluations since then that did not ping
  left       \* what is left of each bound

vars == <<loop, age, db, timer, check, pinged, missed, left>>

Waiting == [step |-> "waiting", for |-> 0]
Done == [step |-> "done", young |-> TRUE, for |-> 0]

Spend(what) == left[what] > 0 /\ left' = [left EXCEPT ![what] = @ - 1]
Larger(m, n) == IF m >= n THEN m ELSE n

\* loopMaxAge: three turns missed, or the minimum.
LoopMaxAge(l) == Larger(3 * Every[l], MinLoopMaxAge)

\* Mutant: a loop that is switched off is registered too.
EveryLoop == Loop

\* registerLoop leaves out the loops that are switched off.
Registered == {l \in Loop : Every[l] > 0}

\* Mutant: the whole of the time systemd gives.
WholeTime == WatchdogSec

\* Interval: half of the time systemd gives.
PingEvery == WatchdogSec \div 2

Stale == {l \in Registered : age[l] > LoopMaxAge(l)}

-----------------------------------------------------------------------------
(* The loops. *)

\* A turn begins when the loop's timer fires.
BeginPass(l) ==
  /\ Every[l] > 0 /\ loop[l].step = "waiting"
  /\ loop' = [loop EXCEPT ![l] = [step |-> "working", for |-> MaxPass]]
  /\ UNCHANGED <<age, db, timer, check, pinged, missed, left>>

\* The pass is over: Beat.Mark.
EndPass(l) ==
  /\ loop[l].step = "working"
  /\ loop' = [loop EXCEPT ![l] = [Waiting EXCEPT !.for = Every[l]]]
  /\ age' = [age EXCEPT ![l] = 0]
  /\ UNCHANGED <<db, timer, check, pinged, missed, left>>

\* The pass never ends: it waits for a lock or an answer that does not come.
Hang(l) ==
  /\ loop[l].step = "working" /\ Spend("hangs")
  /\ loop' = [loop EXCEPT ![l] = [step |-> "hung", for |-> 0]]
  /\ UNCHANGED <<age, db, timer, check, pinged, missed>>

DatabaseChanges ==
  /\ Spend("faults")
  /\ db' \in {"free", "slow", "empty"} \ {db}
  /\ UNCHANGED <<loop, age, timer, check, pinged, missed>>

-----------------------------------------------------------------------------
(* Watchdog.Run *)

\* The ticker fires: the stamps are read, then the database is probed.
BeginCheck ==
  /\ timer = 0 /\ check.step = "done"
  /\ check' = [step |-> "probing", young |-> Stale = {}, for |-> ProbeTimeout]
  /\ timer' = PingEvery
  /\ UNCHANGED <<loop, age, db, pinged, missed, left>>

\* The probe returns a connection: at once, or late; or it times out.
Answered == db = "free" \/ (db = "slow" /\ check.for = 0)
TimedOut == db = "empty" /\ check.for = 0

\* Mutant: the database is enough to be alive.
PingForDatabase ==
  /\ check.step = "probing" /\ Answered
  /\ check' = Done
  /\ pinged' = 0 /\ missed' = 0
  /\ UNCHANGED <<loop, age, db, timer, left>>

Ping ==
  /\ check.step = "probing" /\ Answered /\ check.young
  /\ check' = Done
  /\ pinged' = 0 /\ missed' = 0
  /\ UNCHANGED <<loop, age, db, timer, left>>

\* Something is wrong: logged, and systemd hears nothing.
NoPing ==
  /\ check.step = "probing" /\ (TimedOut \/ (Answered /\ ~check.young))
  /\ check' = Done /\ missed' = missed + 1
  /\ UNCHANGED <<loop, age, db, timer, pinged, left>>

\* sdnotify.Send fails.
PingFails ==
  /\ check.step = "probing" /\ Answered /\ check.young /\ Spend("faults")
  /\ check' = Done /\ missed' = missed + 1
  /\ UNCHANGED <<loop, age, db, timer, pinged>>

-----------------------------------------------------------------------------
(* systemd, and time. *)

\* The watchdog's goroutine has something to do now.
Due == IF check.step = "done" THEN timer = 0 ELSE Answered \/ TimedOut

Fresh ==
  /\ loop' = [l \in Loop |-> Waiting] /\ age' = [l \in Loop |-> 0]
  /\ timer' = 0 /\ check' = Done /\ pinged' = 0 /\ missed' = 0

\* systemd has heard nothing for WatchdogSec: SIGABRT, and a new kadrand.  A
\* ping that is sent in that very moment is in time.
Kill ==
  /\ pinged = WatchdogSec /\ ~Due
  /\ Fresh
  /\ UNCHANGED <<db, left>>

\* Nothing is due.
Idle ==
  /\ \A l \in Loop : Every[l] > 0 => loop[l].step = "hung" \/ loop[l].for > 0
  /\ ~Due /\ pinged < WatchdogSec

Sooner(n) == IF n > 0 THEN n - 1 ELSE 0

Tick ==
  /\ Idle
  /\ loop' = [l \in Loop |-> [loop[l] EXCEPT !.for = Sooner(@)]]
  /\ age' = [l \in Loop |-> IF age[l] > LoopMaxAge(l) THEN age[l] ELSE age[l] + 1]
  /\ timer' = Sooner(timer)
  /\ check' = [check EXCEPT !.for = Sooner(@)]
  /\ pinged' = pinged + 1
  /\ UNCHANGED <<db, missed, left>>

Init ==
  /\ loop = [l \in Loop |-> Waiting] /\ age = [l \in Loop |-> 0]
  /\ db = "free"
  /\ timer = 0 /\ check = Done /\ pinged = 0 /\ missed = 0
  /\ left = [hangs |-> MaxHangs, faults |-> MaxFaults]

Watch == BeginCheck \/ Ping \/ NoPing
Next ==
  \/ \E l \in Loop : BeginPass(l) \/ EndPass(l) \/ Hang(l)
  \/ DatabaseChanges \/ BeginCheck \/ Ping \/ NoPing \/ PingFails \/ Kill \/ Tick

Spec == Init /\ [][Next]_vars

\* Time passes; what is due happens, a pass that is not stuck included.
Fairness ==
  /\ WF_vars(Tick) /\ WF_vars(Watch) /\ WF_vars(Kill)
  /\ \A l \in Loop : WF_vars(BeginPass(l)) /\ WF_vars(EndPass(l))

FairSpec == Spec /\ Fairness

-----------------------------------------------------------------------------
(* Properties. *)

\* Types; the timers stay within their intervals, two ticks of the watchdog do not
\* fall on one evaluation, and a loop that runs has a stamp of its last pass.
WatchdogTypeOK ==
  /\ \A l \in Loop : /\ loop[l].step \in {"waiting", "working", "hung"}
                     /\ age[l] \in 0..LoopMaxAge(l) + 1
                     /\ Every[l] > 0 /\ loop[l].step # "hung" => age[l] <= Every[l] + MaxPass
  /\ timer \in 0..PingEvery /\ pinged \in 0..WatchdogSec
  /\ check.step \in {"done", "probing"}
  /\ check.step = "probing" => timer > 0

\* watchdog.go:36 : a loop that is merely slow, and one that is switched off, is
\* never taken for a stuck one.
SlowIsNotStuck == \A l \in Stale : loop[l].step = "hung"

\* systemd ends a kadrand only if an evaluation found something wrong or its
\* ping was not sent since the last ping.
KillIsEarned == [][ Kill => missed >= 1 ]_vars

\* A loop that is stuck does not stay so: the pings stop and kadrand is started
\* again, whatever the other loops and the database do meanwhile.
StuckIsReplaced == \A l \in Loop : loop[l].step = "hung" ~> loop[l].step # "hung"
=============================================================================
