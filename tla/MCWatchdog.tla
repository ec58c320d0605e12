----------------------------- MODULE MCWatchdog -----------------------------
(* Instance of Watchdog for TLC: one loop with a short interval, one with a    *)
(* long one, and one that is switched off.                                     *)
EXTENDS Watchdog

Intervals == [l \in Loop |-> CASE l = "supervisor" -> 1 [] l = "backup" -> 2 [] OTHER -> 0]
=============================================================================
