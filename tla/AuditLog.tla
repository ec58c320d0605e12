------------------------------ MODULE AuditLog ------------------------------
(***************************************************************************)
(* What an audit chain promises to whoever relies on it: the records that  *)
(* were acknowledged form a log that only grows, numbered without a gap,   *)
(* each record naming the hash of the one before it.  It says nothing of   *)
(* files, locks, crashes or restarts; the executor's journal implements it *)
(* (Executor!AuditLogSpec).                                                *)
(*                                                                         *)
(* A hash is modelled by the record it was computed from: two hashes are   *)
(* equal exactly when the records are.                                     *)
(***************************************************************************)
EXTENDS Naturals

CONSTANT Zero                   \* the hash before the first record

VARIABLE log                    \* the acknowledged records, by number

\* One record fits behind the hash `prev' as number `seq'.
Fits(rec, seq, prev) == rec.seq = seq /\ rec.prev = prev

\* The records form a chain from number 1, without a gap.
Chained(l) ==
  \A i \in DOMAIN l :
    /\ i > 1 => i - 1 \in DOMAIN l
    /\ Fits(l[i], i, IF i = 1 THEN Zero ELSE l[i - 1])

Init == log = <<>>

\* One or more records are acknowledged; none is taken back or rewritten.
Grow ==
  /\ log' # log
  /\ \A i \in DOMAIN log : i \in DOMAIN log' /\ log'[i] = log[i]
  /\ Chained(log')

Spec == Init /\ [][Grow]_log
=============================================================================
