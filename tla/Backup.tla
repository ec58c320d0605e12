------------------------------- MODULE Backup -------------------------------
(***************************************************************************)
(* The database file of kadrand and its copies: snapshots by the timer and *)
(* by the API, the copy made before a migration, and the restore command,  *)
(* under crashes, power losses and failing copies.                         *)
(*                                                                         *)
(* What a database holds is the number of its writes and its schema.       *)
(* SQLite is external: commits go to a write-ahead log that is folded into *)
(* the file when the last connection closes, and VACUUM INTO writes a copy *)
(* that is incomplete until it is done, and not on the disk until the      *)
(* system writes it there.                                                 *)
(***************************************************************************)
EXTENDS Naturals, FiniteSets, Functions

CONSTANTS
  Caller,         \* who asks for snapshots: the timer and calls of the API
  SnapshotKeep, BackupKeep,
  MaxSchema,      \* the migrations there are
  MaxWrites, MaxSeconds,  \* bounds: writes, and seconds in which something happens
  MaxFaults,      \* bound: copies and migrations that fail
  MaxCrashes,     \* bound: crashes and power losses
  MaxRestores,    \* bound: restore commands
  MaxInstalls     \* bound: kadrands installed over another

ASSUME BackupAssumption ==
  /\ SnapshotKeep \in Nat \ {0} /\ BackupKeep \in Nat \ {0} /\ MaxSchema \in Nat \ {0}
  /\ {MaxWrites, MaxFaults, MaxCrashes, MaxRestores, MaxInstalls} \subseteq Nat

VARIABLES
  main,      \* the database file
  wal,       \* its write-ahead log, and the file it belongs to
  files,     \* the copies, by name
  loose,     \* the copies that are not on the disk yet
  code,      \* the migrations the installed kadrand knows
  daemon,    \* kadrand
  snap,      \* each caller's Snapshot
  restore,   \* the restore command
  clock,     \* the second
  broken,    \* history: the names that a copy was not, or not wholly, written to
  left       \* what is left of each bound

vars == <<main, wal, files, loose, code, daemon, snap, restore, clock, broken, left>>

Empty == [data |-> 0, schema |-> 0]      \* a database without migrations
NoFile == [data |-> 0, schema |-> MaxSchema + 1]
Partial == [data |-> 0, schema |-> MaxSchema + 2]
NoWal == [over |-> NoFile, now |-> NoFile]
Idle == [step |-> "idle", name |-> <<"kadran", 0>>]
NoRestore == [step |-> "idle", name |-> <<"pre-restore", 0>>, from |-> NoFile, old |-> NoFile]

Spend(what) == left[what] > 0 /\ left' = [left EXCEPT ![what] = @ - 1]

\* What SQLite reads: the log over the file it was written for, and no log where
\* there is no file.
Database == IF wal = NoWal \/ main = NoFile THEN main ELSE wal.now

Intact(name) == name \in DOMAIN files /\ files[name] # Partial
With(name, content) == [f \in DOMAIN files \cup {name} |-> IF f = name THEN content ELSE files[f]]
Without(name) == Restrict(files, DOMAIN files \ {name})
SetFiles(fs) == files' = fs /\ loose' = loose \cap DOMAIN fs

\* The one connection of the pool is taken while a copy is written.
Busy == \E c \in Caller : snap[c].step = "writing"

\* Mutant: the names are sorted the other way.
KeepOldest(fs, kind, n) ==
  LET ours == {f \in DOMAIN fs : f[1] = kind}
  IN {f \in ours : Cardinality({g \in ours : g[2] < f[2]}) >= n}

\* What is removed: all of a kind but the last n, by name.
Surplus(fs, kind, n) ==
  LET ours == {f \in DOMAIN fs : f[1] = kind}
  IN {f \in ours : Cardinality({g \in ours : g[2] > f[2]}) >= n}

Pruned(fs, kind, n) == Restrict(fs, DOMAIN fs \ Surplus(fs, kind, n))

-----------------------------------------------------------------------------
(* Store.Snapshot *)

SnapshotName == <<"kadran", clock>>

\* The file of this second is there already: it is taken for the snapshot, whole or
\* not.
FindSnapshot(c) ==
  /\ daemon = "up" /\ snap[c].step = "idle" /\ SnapshotName \in DOMAIN files
  /\ SetFiles(Pruned(files, "kadran", SnapshotKeep))
  /\ UNCHANGED <<main, wal, code, daemon, snap, restore, clock, broken, left>>

BeginSnapshot(c) ==
  /\ daemon = "up" /\ snap[c].step = "idle" /\ SnapshotName \notin DOMAIN files
  /\ snap' = [snap EXCEPT ![c] = [Idle EXCEPT !.step = "waiting", !.name = SnapshotName]]
  /\ UNCHANGED <<main, wal, files, loose, code, daemon, restore, clock, broken, left>>

\* VACUUM INTO has the connection; it refuses a file that is there.
WriteSnapshot(c) ==
  /\ snap[c].step = "waiting" /\ ~Busy
  /\ IF snap[c].name \in DOMAIN files
     THEN snap' = [snap EXCEPT ![c] = Idle] /\ UNCHANGED <<files, loose>>
     ELSE /\ snap' = [snap EXCEPT ![c].step = "writing"]
          /\ files' = With(snap[c].name, Partial) /\ loose' = loose \cup {snap[c].name}
  /\ UNCHANGED <<main, wal, code, daemon, restore, clock, broken, left>>

EndSnapshot(c) ==
  /\ snap[c].step = "writing"
  /\ SetFiles(Pruned(With(snap[c].name, Database), "kadran", SnapshotKeep))
  /\ snap' = [snap EXCEPT ![c] = Idle]
  /\ UNCHANGED <<main, wal, code, daemon, restore, clock, broken, left>>

\* The disk is full: an error, and what was written may stay.
SnapshotFails(c) ==
  /\ snap[c].step = "writing" /\ Spend("faults")
  /\ snap' = [snap EXCEPT ![c] = Idle]
  /\ \E fs \in {files, Without(snap[c].name)} : SetFiles(fs)
  /\ broken' = broken \cup {snap[c].name}
  /\ UNCHANGED <<main, wal, code, daemon, restore, clock>>

-----------------------------------------------------------------------------
(* Store.Open: the copy before the first pending migration, then migrations. *)

Pending == (Database.schema + 1)..code
PreName == <<"pre", Database.schema + 1>>
Fresh == Database.schema = 0 \/ main = NoFile

\* Folding the log into the file, when the last connection is closed.
Close == main' = Database /\ wal' = NoWal

\* Nobody starts kadrand while a restore runs, as restore.go:46-52 asks. A start
\* takes a second of the clock.
Start ==
  /\ daemon = "down" /\ restore.step = "idle" /\ clock < MaxSeconds
  /\ clock' = clock + 1
  /\ IF main = NoFile THEN main' = Empty /\ wal' = NoWal ELSE UNCHANGED <<main, wal>>
  /\ daemon' = IF Fresh \/ (Pending # {} /\ PreName \in DOMAIN files) THEN "migrating"
               ELSE IF Pending = {} THEN "up"
               ELSE "copying"
  /\ IF daemon' = "copying"
     THEN files' = With(PreName, Partial) /\ loose' = loose \cup {PreName}
     ELSE UNCHANGED <<files, loose>>
  /\ UNCHANGED <<code, snap, restore, broken, left>>

CopyDone ==
  /\ daemon = "copying"
  /\ SetFiles(Pruned(With(PreName, Database), "pre", BackupKeep))
  /\ daemon' = "migrating"
  /\ UNCHANGED <<main, wal, code, snap, restore, clock, broken, left>>

\* Without a copy there is no migration: kadrand does not start.
CopyFails ==
  /\ daemon = "copying" /\ Spend("faults")
  /\ daemon' = "down" /\ Close
  /\ \E fs \in {files, Without(PreName)} : SetFiles(fs)
  /\ broken' = broken \cup {PreName}
  /\ UNCHANGED <<code, snap, restore, clock>>

\* One migration, in a transaction of its own.
Migrate ==
  /\ daemon = "migrating"
  /\ wal' = [over |-> main, now |-> [Database EXCEPT !.schema = @ + 1]]
  /\ daemon' = IF Database.schema + 1 = code THEN "up" ELSE "migrating"
  /\ UNCHANGED <<main, files, loose, code, snap, restore, clock, broken, left>>

MigrationFails ==
  /\ daemon = "migrating" /\ Spend("faults")
  /\ daemon' = "down" /\ Close
  /\ UNCHANGED <<files, loose, code, snap, restore, clock, broken>>

Write ==
  /\ daemon = "up" /\ ~Busy /\ Spend("writes")
  /\ wal' = [over |-> main, now |-> [Database EXCEPT !.data = @ + 1]]
  /\ UNCHANGED <<main, files, loose, code, daemon, snap, restore, clock, broken>>

Stop ==
  /\ daemon = "up" /\ \A c \in Caller : snap[c].step = "idle"
  /\ daemon' = "down" /\ Close
  /\ UNCHANGED <<files, loose, code, snap, restore, clock, broken, left>>

\* Another kadrand is installed, with more migrations or fewer.
Install ==
  /\ daemon = "down" /\ code' \in (1..MaxSchema) \ {code}
  /\ Spend("installs")
  /\ UNCHANGED <<main, wal, files, loose, daemon, snap, restore, clock, broken>>

\* The operator moves a database aside, but not its log.
MoveAside ==
  /\ daemon = "down" /\ restore.step = "idle" /\ main # NoFile /\ wal # NoWal
  /\ main' = NoFile
  /\ UNCHANGED <<wal, files, loose, code, daemon, snap, restore, clock, broken, left>>

-----------------------------------------------------------------------------
(* Restore *)

SafetyName == <<"pre-restore", clock>>
Go(step) == restore' = [restore EXCEPT !.step = step]

\* validateSnapshot: a whole database that holds migrations.
Valid(f) == Intact(f) /\ files[f].schema > 0

NewRestore(f) ==
  [step |-> IF main = NoFile THEN "clear" ELSE "copy",
   name |-> SafetyName, from |-> files[f], old |-> Database]

\* Mutant: the log is removed before the safety copy is made.
ClearThenCopy(f) ==
  /\ daemon = "down" /\ restore.step = "idle" /\ Spend("restores")
  /\ Valid(f)
  /\ restore' = NewRestore(f) /\ wal' = NoWal
  /\ UNCHANGED <<main, files, loose, code, daemon, snap, clock, broken>>

\* kadrand does not run and the file is one that can be restored.
BeginRestore(f) ==
  /\ daemon = "down" /\ restore.step = "idle" /\ Spend("restores")
  /\ Valid(f)
  /\ restore' = NewRestore(f)
  /\ UNCHANGED <<main, wal, files, loose, code, daemon, snap, clock, broken>>

\* The safety copy of this second is there already.
FindSafety ==
  /\ restore.step = "copy" /\ restore.name \in DOMAIN files
  /\ Go("clear")
  /\ UNCHANGED <<main, wal, files, loose, code, daemon, snap, clock, broken, left>>

WriteSafety ==
  /\ restore.step = "copy" /\ restore.name \notin DOMAIN files
  /\ Go("writing")
  /\ files' = With(restore.name, Partial) /\ loose' = loose \cup {restore.name}
  /\ UNCHANGED <<main, wal, code, daemon, snap, clock, broken, left>>

\* The copy has what is in the log; closing the database folds the log away.
EndSafety ==
  /\ restore.step = "writing"
  /\ files' = With(restore.name, Database) /\ Close
  /\ Go("clear")
  /\ UNCHANGED <<loose, code, daemon, snap, clock, broken, left>>

SafetyFails ==
  /\ restore.step = "writing" /\ Spend("faults")
  /\ \E fs \in {files, Without(restore.name)} : SetFiles(fs)
  /\ Close
  /\ broken' = broken \cup {restore.name}
  /\ restore' = NoRestore
  /\ UNCHANGED <<code, daemon, snap, clock>>

\* Mutant: the log stays beside the new file.
LeaveSidecars ==
  /\ restore.step = "clear" /\ Go("place")
  /\ UNCHANGED <<main, wal, files, loose, code, daemon, snap, clock, broken, left>>

RemoveSidecars ==
  /\ restore.step = "clear"
  /\ wal' = NoWal /\ Go("place")
  /\ UNCHANGED <<main, files, loose, code, daemon, snap, clock, broken, left>>

\* copyFileAtomic: the copy is written beside the file, synced and renamed.
Place ==
  /\ restore.step = "place"
  /\ main' = restore.from
  /\ restore' = NoRestore
  /\ UNCHANGED <<wal, files, loose, code, daemon, snap, clock, broken, left>>

PlaceFails ==
  /\ restore.step = "place" /\ Spend("faults")
  /\ restore' = NoRestore
  /\ UNCHANGED <<main, wal, files, loose, code, daemon, snap, clock, broken>>

-----------------------------------------------------------------------------
(* Crashes, and time. *)

\* The names that were being written.
Unfinished ==
  {snap[c].name : c \in {d \in Caller : snap[d].step = "writing"}}
    \cup (IF daemon = "copying" THEN {PreName} ELSE {})
    \cup (IF restore.step = "writing" THEN {restore.name} ELSE {})

Die ==
  /\ Spend("crashes") /\ clock < MaxSeconds
  /\ clock' = clock + 1
  /\ daemon' = "down" /\ snap' = [c \in Caller |-> Idle] /\ restore' = NoRestore

\* Every process of the host dies; files and log are as they were.
Crash == Die /\ broken' = broken \cup Unfinished /\ UNCHANGED <<main, wal, files, loose, code>>

\* So do copies that are not on the disk; the last commits may be lost.
PowerLoss ==
  /\ Die
  /\ \E gone \in SUBSET loose :
       /\ files' = [f \in DOMAIN files |-> IF f \in gone THEN Partial ELSE files[f]]
       /\ broken' = broken \cup Unfinished \cup gone
  /\ loose' = {}
  /\ wal' \in {wal, NoWal}
  /\ UNCHANGED <<main, code>>

\* The system writes what it has; a second passes.
Tick ==
  /\ clock < MaxSeconds /\ clock' = clock + 1
  /\ loose' \in {loose, {}}
  /\ UNCHANGED <<main, wal, files, code, daemon, snap, restore, broken, left>>

Init ==
  /\ main = NoFile /\ wal = NoWal
  /\ files = [f \in {} |-> NoFile] /\ loose = {}
  /\ code = 1 /\ daemon = "down"
  /\ snap = [c \in Caller |-> Idle] /\ restore = NoRestore
  /\ clock = 0 /\ broken = {}
  /\ left = [writes |-> MaxWrites, faults |-> MaxFaults, crashes |-> MaxCrashes,
             restores |-> MaxRestores, installs |-> MaxInstalls]

Next ==
  \/ \E c \in Caller : FindSnapshot(c) \/ BeginSnapshot(c) \/ WriteSnapshot(c)
                         \/ EndSnapshot(c) \/ SnapshotFails(c)
  \/ Start \/ CopyDone \/ CopyFails \/ Migrate \/ MigrationFails
  \/ Write \/ Stop \/ Install \/ MoveAside
  \/ \E f \in DOMAIN files : BeginRestore(f)
  \/ FindSafety \/ WriteSafety \/ EndSafety \/ SafetyFails \/ RemoveSidecars
  \/ Place \/ PlaceFails
  \/ Crash \/ PowerLoss \/ Tick

Spec == Init /\ [][Next]_vars

-----------------------------------------------------------------------------
(* Properties. *)

\* Types: what can be read as the database is one or nothing; only copies can be
\* partial.
Content == [data : Nat, schema : 0..MaxSchema]

BackupTypeOK ==
  /\ main \in Content \cup {NoFile}
  /\ wal \in [over : Content, now : Content] \cup {NoWal}
  /\ \A f \in DOMAIN files : files[f] \in Content \cup {NoFile, Partial}
  /\ code \in 1..MaxSchema
  /\ daemon \in {"down", "copying", "migrating", "up"}
  /\ {"step", "from"} \subseteq DOMAIN restore
  /\ restore.step # "idle" => restore.from \in Content \cup {NoFile}

\* restore.go:17-37, :203-206 : whatever is interrupted, the database that the next
\* start opens is a whole one, and never the file of one with the log of another.
DatabaseWhole ==
  /\ main # Partial
  /\ wal # NoWal /\ main # NoFile => wal.over = main

\* restore.go:57-59 : when a restore replaces a database, all that the database held,
\* its log included, is in a copy. (A copy that failed is taken for whole by a second
\* restore of the same second: those are left out.)
OldStateIsKept ==
  [][main' # main /\ restore.step = "place" /\ restore.old # NoFile
       => restore.name \in broken \/ \E f \in DOMAIN files : files[f] = restore.old]_vars

\* Copies of the timer and of the API; the copies that have a later name; the copies
\* that are one too many.
Timed(f) == f[1] = "kadran"
Newer(f) == {g \in DOMAIN files : g[1] = f[1] /\ g[2] > f[2]}
Outdated(f) ==
  \/ f[1] = "kadran" /\ Cardinality(Newer(f)) >= SnapshotKeep
  \/ f[1] = "pre" /\ Cardinality(Newer(f)) >= BackupKeep

BeingWritten(f) == \E c \in Caller : snap[c].step = "writing" /\ snap[c].name = f

\* What a call of Snapshot answers with is the file that has the name of its second,
\* found or written.  So, of all copies by name:
\* - it is whole, but while another call is still writing it, or when it was left by a
\*   copy that failed or was cut off, which snapshot.go:99-102 leaves out of account;
\* - the one that a call has written holds the database, and nothing is written over a
\*   whole one;
\* - a copy stays until the newest SnapshotKeep have later names, and a pruning takes
\*   none of another kind (snapshot.go:31-38, :150-155).
AnsweredBackupsStay ==
  [][/\ \A f \in DOMAIN files' : Timed(f) /\ files'[f] = Partial => f \in broken' \/ BeingWritten(f)'
     /\ \A c \in Caller : snap[c].step = "writing" /\ snap'[c].step = "idle" /\ left' = left =>
          \/ snap[c].name \in DOMAIN files' /\ files'[snap[c].name] = Database
          \/ Outdated(snap[c].name)
     /\ \A f \in DOMAIN files \cap DOMAIN files' :
          Timed(f) /\ files[f] # Partial => files'[f] = files[f] \/ f \in broken'
     /\ \A f \in DOMAIN files \ DOMAIN files' : Outdated(f) \/ f \in broken']_vars

=============================================================================
