---------------------------- MODULE ReleaseStore ----------------------------
(***************************************************************************)
(* The control plane's record of releases: the tables apps, releases and   *)
(* deployments of kadrand's SQLite store (internal/store, migrations 0002  *)
(* and 0005).  Each operation is one SQLite transaction, and the store has *)
(* a single connection, so an operation is one atomic action.              *)
(*                                                                         *)
(* A release of an app is its number in apps.release_seq ("r1", "r2", ...) *)
(* and NoRelease stands for sql.ErrNoRows.  The deployments rows of an app *)
(* are a sequence in the order of deployments.seq; `open' is the column    *)
(* deactivated_at IS NULL.  A call that fails rolls its transaction back,  *)
(* which is a stuttering step here.                                        *)
(***************************************************************************)
EXTENDS Naturals, Sequences

CONSTANTS App,          \* the app identifiers an operator may use
          MaxRelease,   \* bound on apps.release_seq
          MaxHistory    \* bound on the deployments rows kept of one app

ASSUME BoundsAssumption ==
  /\ MaxRelease \in Nat \ {0}
  /\ MaxHistory \in Nat \ {0}

VARIABLES
  apps,      \* the rows of table apps
  seq,       \* apps.release_seq
  status,    \* releases.status, "none" where there is no row
  history    \* the deployments rows of each app, oldest first

storeVars == <<apps, seq, status, history>>

Release == 1..MaxRelease
NoRelease == 0
Sealed == {"built", "failed"}
Row == [rel : Release, open : BOOLEAN]

(***************************************************************************)
(* Queries.                                                                *)
(***************************************************************************)

\* The open rows of a; the partial unique index allows one.
OpenRows(a) == {k \in DOMAIN history[a] : history[a][k].open}
ClosedRows(a) == {k \in DOMAIN history[a] : ~history[a][k].open}

\* ActiveDeployment: the release of the row that is still open.
ActiveOf(a) ==
  IF OpenRows(a) = {} THEN NoRelease
  ELSE history[a][CHOOSE k \in OpenRows(a) : TRUE].rel

\* Mutant: the highest release number that was ever live, the reading of
\* "previous" that migration 0005 was written to replace.
PreviousByNumber(a) ==
  IF ClosedRows(a) = {} THEN NoRelease
  ELSE LET was == {history[a][k].rel : k \in ClosedRows(a)}
       IN CHOOSE n \in was : \A m \in was : m <= n

\* PreviousActiveRelease: the latest closed row, by deployments.seq.
PreviousOf(a) ==
  IF ClosedRows(a) = {} THEN NoRelease
  ELSE history[a][CHOOSE k \in ClosedRows(a) :
                    \A j \in ClosedRows(a) : j <= k].rel

-----------------------------------------------------------------------------
(***************************************************************************)
(* Operations.                                                             *)
(***************************************************************************)

StoreInit ==
  /\ apps = {}
  /\ seq = [a \in App |-> 0]
  /\ status = [a \in App |-> [n \in Release |-> "none"]]
  /\ history = [a \in App |-> << >>]

CreateApp(a) ==
  /\ a \notin apps
  /\ apps' = apps \cup {a}
  /\ UNCHANGED <<seq, status, history>>

\* StartRelease: the counter is taken and the BUILDING row is inserted in
\* one transaction.
StartRelease(a) ==
  /\ a \in apps
  /\ seq[a] < MaxRelease
  /\ seq' = [seq EXCEPT ![a] = @ + 1]
  /\ status' = [status EXCEPT ![a][seq[a] + 1] = "building"]
  /\ UNCHANGED <<apps, history>>

\* FinishRelease and FailRelease, through sealRelease.
SealRelease(a, n, s) ==
  /\ status[a][n] = "building"
  /\ status' = [status EXCEPT ![a][n] = s]
  /\ UNCHANGED <<apps, seq, history>>

\* Mutant: the open row is left open.
LeaveOpen(h) == h

\* The UPDATE that closes the open row; closed rows are out of its reach.
CloseRows(h) == [k \in DOMAIN h |-> [rel |-> h[k].rel, open |-> FALSE]]

\* The transaction commits when the release is live already, or when the
\* foreign key and the trigger of migration 0005 accept the new row.
CanActivate(a, n) == ActiveOf(a) = n \/ status[a][n] = "built"

SetActiveRelease(a, n) ==
  /\ CanActivate(a, n)
  /\ IF ActiveOf(a) = n
     THEN UNCHANGED history
     ELSE /\ Len(history[a]) < MaxHistory
          /\ history' = [history EXCEPT ![a] =
                           Append(CloseRows(@), [rel |-> n, open |-> TRUE])]
  /\ UNCHANGED <<apps, seq, status>>

ClearActiveRelease(a) ==
  /\ OpenRows(a) # {}
  /\ history' = [history EXCEPT ![a] = CloseRows(@)]
  /\ UNCHANGED <<apps, seq, status>>

\* Mutant: liveness is only checked by the caller, not in the transaction.
DropEvenLive(a) ==
  /\ a \in apps
  /\ apps' = apps \ {a}
  /\ seq' = [seq EXCEPT ![a] = 0]
  /\ status' = [status EXCEPT ![a] = [n \in Release |-> "none"]]
  /\ history' = [history EXCEPT ![a] = << >>]

\* DeleteApp: deployments, releases and the app's own row, unless it is live.
DeleteApp(a) ==
  /\ a \in apps
  /\ OpenRows(a) = {}
  /\ apps' = apps \ {a}
  /\ seq' = [seq EXCEPT ![a] = 0]
  /\ status' = [status EXCEPT ![a] = [n \in Release |-> "none"]]
  /\ history' = [history EXCEPT ![a] = << >>]

StoreNext ==
  \E a \in App :
    \/ CreateApp(a)
    \/ StartRelease(a)
    \/ \E n \in Release, s \in Sealed : SealRelease(a, n, s)
    \/ \E n \in Release : SetActiveRelease(a, n)
    \/ ClearActiveRelease(a)
    \/ DeleteApp(a)

StoreSpec == StoreInit /\ [][StoreNext]_storeVars

-----------------------------------------------------------------------------
(***************************************************************************)
(* Properties.                                                             *)
(***************************************************************************)

\* The tables hold values of their columns, and an app without a row owns
\* no release, counter or history (the foreign keys of migrations 0002 and
\* 0005, and the order of deletes in DeleteApp).
StoreTypeOK ==
  /\ apps \subseteq App
  /\ seq \in [App -> 0..MaxRelease]
  /\ status \in [App -> [Release -> {"none", "building"} \cup Sealed]]
  /\ history \in [App -> Seq(Row)]
  /\ \A a \in App \ apps : seq[a] = 0 /\ history[a] = << >>

\* A release row exists exactly for the numbers the counter has handed out.
NumbersHandedOut ==
  \A a \in App, n \in Release : status[a][n] # "none" <=> n <= seq[a]

\* "Two live releases at once" cannot be represented: at most one row of an
\* app is open, and it is the newest one.
OneActive ==
  \A a \in App : \A k \in OpenRows(a) : k = Len(history[a])

\* Traffic is never recorded for a release whose image was not proven: every
\* release that is or ever was live is BUILT, and stays so.
LiveWasBuilt ==
  \A a \in App : \A k \in DOMAIN history[a] : status[a][history[a][k].rel] = "built"

StoreInv == StoreTypeOK /\ NumbersHandedOut /\ OneActive /\ LiveWasBuilt

\* A rollback can be rolled back: whenever the live release of an app changes
\* to another, the release that just lost traffic becomes the next rollback
\* target (r5 live, back to r3: the next target is r5, not r2).
RollbackReturns ==
  [][\A a \in App :
        (/\ ActiveOf(a) # NoRelease
         /\ ActiveOf(a)' # NoRelease
         /\ ActiveOf(a)' # ActiveOf(a)) => PreviousOf(a)' = ActiveOf(a)]_storeVars

\* Deployment history is append-only while the app exists: no row is lost or
\* rewritten, and a closed row is never opened again.
HistoryAppendOnly ==
  [][\A a \in apps \cap apps' : \A k \in DOMAIN history[a] :
        /\ k \in DOMAIN history'[a]
        /\ history'[a][k].rel = history[a][k].rel
        /\ history'[a][k].open => history[a][k].open]_storeVars

\* What a build ended in is final: as long as the app exists, a sealed release
\* keeps its status, and its number is not given to another build.
SealedForGood ==
  [][\A a \in apps \cap apps', n \in Release :
        status[a][n] \in Sealed => status'[a][n] = status[a][n]]_storeVars

\* Deleting never takes a live app: a release that is live stays on record
\* (live or closed) across every step.
LiveNeverForgotten ==
  [][\A a \in App : ActiveOf(a) # NoRelease =>
        \E k \in DOMAIN history'[a] : history'[a][k].rel = ActiveOf(a)]_storeVars
=============================================================================
