---------------------------- MODULE Backup_proofs ----------------------------
(***************************************************************************)
(* For any number of callers, migrations, copies and crashes: the database *)
(* the next start opens is one whole database, with a log that is its own, *)
(* what a restore replaces is in a copy, and a file that a snapshot may    *)
(* answer with is whole, but for those being written and those that failed *)
(* copies left, and there until enough have later names.                   *)
(***************************************************************************)
EXTENDS Backup, FiniteSetTheorems, WellFoundedInduction, TLAPS

\* Who may touch the database file: a kadrand that runs on one, or a restore
\* while none does, which has removed the log before it replaces the file.
Owned ==
  /\ wal # NoWal /\ main # NoFile => wal.over = main
  /\ daemon # "down" => main # NoFile
  /\ daemon \in {"copying", "migrating"} => Database.schema < code
  /\ restore.step # "idle" => daemon = "down"
  /\ restore.step = "place" => wal = NoWal

BackupInv == BackupTypeOK /\ Owned

LEMMA NotContent == NoFile \notin Content /\ Partial \notin Content
  BY BackupAssumption DEF NoFile, Partial, Content

LEMMA NotPartial == NoFile # Partial
  BY BackupAssumption DEF NoFile, Partial

LEMMA NoWalFacts == NoWal \notin [over : Content, now : Content]
  BY NotContent DEF NoWal

\* What SQLite reads is whole.
LEMMA DatabaseRead ==
  ASSUME BackupTypeOK
  PROVE  /\ Database \in Content \cup {NoFile}
         /\ main # NoFile => Database \in Content
  BY NoWalFacts DEF BackupTypeOK, Database

\* Writing and removing copies, and pruning them, leave the others as they are.
LEMMA CopiesStayTyped ==
  ASSUME NEW n, NEW c \in Content \cup {NoFile, Partial},
         \A f \in DOMAIN files : files[f] \in Content \cup {NoFile, Partial}
  PROVE  /\ \A f \in DOMAIN With(n, c) : With(n, c)[f] \in Content \cup {NoFile, Partial}
         /\ \A f \in DOMAIN Without(n) : Without(n)[f] \in Content \cup {NoFile, Partial}
  BY DEF With, Without, Restrict

LEMMA PrunedStayTyped ==
  ASSUME NEW fs, NEW kind, NEW n, NEW S,
         \A f \in DOMAIN fs : fs[f] \in S
  PROVE  \A f \in DOMAIN Pruned(fs, kind, n) : Pruned(fs, kind, n)[f] \in S
  BY DEF Pruned, Restrict

LEMMA BackupInvInit == Init => BackupInv
<1> SUFFICES ASSUME Init PROVE BackupInv
  OBVIOUS
<1>1. BackupTypeOK
  BY BackupAssumption DEF Init, BackupTypeOK, NoRestore
<1>2. Owned
  BY DEF Init, Owned, NoRestore
<1> QED
  BY <1>1, <1>2 DEF BackupInv

\* Steps that leave the database file and its log alone: only copies change.
LEMMA CopiesKeepInv ==
  ASSUME BackupInv, UNCHANGED <<main, wal, code, daemon>>,
         \A f \in DOMAIN files' : files'[f] \in Content \cup {NoFile, Partial},
         \/ UNCHANGED restore
         \/ restore' = NoRestore
         \/ /\ restore.step # "idle" /\ restore'.step \in {"clear", "writing"}
            /\ restore'.from = restore.from /\ DOMAIN restore' = DOMAIN restore
  PROVE  BackupInv'
<1>1. BackupTypeOK'
  BY DEF BackupInv, BackupTypeOK, NoRestore
<1>2. Owned'
  BY DEF BackupInv, Owned, Database, NoRestore
<1> QED
  BY <1>1, <1>2 DEF BackupInv

LEMMA SnapshotKeepsInv ==
  ASSUME BackupInv, NEW c \in Caller,
         \/ FindSnapshot(c) \/ BeginSnapshot(c) \/ WriteSnapshot(c)
         \/ EndSnapshot(c) \/ SnapshotFails(c)
  PROVE  BackupInv'
<1> USE DEF BackupInv
<1>0. \A f \in DOMAIN files : files[f] \in Content \cup {NoFile, Partial}
  BY DEF BackupTypeOK
<1>1. CASE FindSnapshot(c)
  BY <1>0, <1>1, PrunedStayTyped, CopiesKeepInv DEF FindSnapshot, SetFiles
<1>2. CASE BeginSnapshot(c)
  BY <1>0, <1>2, CopiesKeepInv DEF BeginSnapshot
<1>3. CASE WriteSnapshot(c)
  BY <1>0, <1>3, CopiesStayTyped, CopiesKeepInv DEF WriteSnapshot
<1>4. CASE EndSnapshot(c)
  <2>1. Database \in Content \cup {NoFile, Partial}
    BY DatabaseRead
  <2>2. \A f \in DOMAIN With(snap[c].name, Database) :
           With(snap[c].name, Database)[f] \in Content \cup {NoFile, Partial}
    BY <1>0, <2>1, CopiesStayTyped
  <2>3. \A f \in DOMAIN files' : files'[f] \in Content \cup {NoFile, Partial}
    BY <1>4, <2>2, PrunedStayTyped DEF EndSnapshot, SetFiles
  <2> QED
    BY <1>4, <2>3, CopiesKeepInv DEF EndSnapshot
<1>5. CASE SnapshotFails(c)
  BY <1>0, <1>5, CopiesStayTyped, CopiesKeepInv DEF SnapshotFails, SetFiles
<1> QED
  BY <1>1, <1>2, <1>3, <1>4, <1>5

\* Folding the log into the file leaves one whole database without a log.
LEMMA CloseKeepsInv ==
  ASSUME BackupInv, Close, daemon' = "down", UNCHANGED code,
         \A f \in DOMAIN files' : files'[f] \in Content \cup {NoFile, Partial},
         \/ restore' = NoRestore
         \/ UNCHANGED restore /\ restore.step = "idle"
         \/ /\ restore.step # "idle" /\ restore'.step = "clear"
            /\ restore'.from = restore.from /\ DOMAIN restore' = DOMAIN restore
  PROVE  BackupInv'
<1>1. main' \in Content \cup {NoFile} /\ wal' = NoWal
  BY DatabaseRead DEF BackupInv, Close
<1>2. BackupTypeOK'
  BY <1>1 DEF BackupInv, BackupTypeOK, NoRestore
<1>3. Owned'
  BY <1>1 DEF BackupInv, Owned, NoRestore
<1> QED
  BY <1>2, <1>3 DEF BackupInv

LEMMA StartKeepsInv ==
  ASSUME BackupInv, Start
  PROVE  BackupInv'
<1> USE DEF BackupInv
<1>1. restore' = restore /\ restore.step = "idle" /\ code' = code /\ code \in 1..MaxSchema
  BY DEF Start, BackupTypeOK
<1>2. \A f \in DOMAIN files' : files'[f] \in Content \cup {NoFile, Partial}
  BY CopiesStayTyped DEF Start, BackupTypeOK
<1>3. CASE main = NoFile
  <2>1. main' = Empty /\ wal' = NoWal /\ daemon' = "migrating"
    BY <1>3 DEF Start, Fresh
  <2>2. Empty \in Content /\ Empty # NoFile
    BY BackupAssumption DEF Empty, Content, NoFile
  <2>3. Database' = Empty
    BY <2>1 DEF Database
  <2>4. Empty.schema < code
    BY <1>1, BackupAssumption DEF Empty
  <2> QED
    BY <1>1, <1>2, <2>1, <2>2, <2>3, <2>4 DEF BackupTypeOK, Owned
<1>4. CASE main # NoFile
  <2>1. main' = main /\ wal' = wal /\ Database' = Database
    BY <1>4 DEF Start, Database
  <2>2. Database \in Content
    BY <1>4, DatabaseRead
  <2>3. Database.schema \in Nat /\ code \in Nat /\ 0 < code
    BY <1>1, <2>2, BackupAssumption DEF Content
  <2>4. Pending # {} => Database.schema < code
    BY <2>3 DEF Pending
  <2>5. /\ daemon' \in {"copying", "migrating", "up"}
        /\ daemon' \in {"copying", "migrating"} => Database.schema = 0 \/ Pending # {}
    BY <1>4 DEF Start, Fresh
  <2> QED
    BY <1>1, <1>2, <1>4, <2>1, <2>3, <2>4, <2>5 DEF BackupTypeOK, Owned
<1> QED
  BY <1>3, <1>4

\* A commit goes to the log of the file that is there.
LEMMA CommitKeepsInv ==
  ASSUME BackupInv, Migrate \/ Write
  PROVE  BackupInv'
<1> USE DEF BackupInv
<1>1. main # NoFile /\ main \in Content /\ Database \in Content
  BY DatabaseRead DEF Migrate, Write, Owned, BackupTypeOK
<1>2. UNCHANGED <<main, files, code, restore>> /\ restore.step = "idle"
  BY DEF Migrate, Write, Owned
<1>3. CASE Migrate
  <2>1. Database.schema + 1 <= code /\ Database.schema \in Nat /\ code \in 1..MaxSchema
    BY <1>1, <1>3, BackupAssumption DEF Migrate, Owned, BackupTypeOK, Content
  <2>2. [Database EXCEPT !.schema = @ + 1] \in Content
    BY <1>1, <2>1, BackupAssumption DEF Content
  <2>3. /\ wal' = [over |-> main, now |-> [Database EXCEPT !.schema = @ + 1]]
        /\ wal' # NoWal
    BY <1>1, <1>3, <2>2, NoWalFacts DEF Migrate
  <2>4. Database' = [Database EXCEPT !.schema = @ + 1]
    BY <1>1, <1>2, <2>3 DEF Database
  <2>5. Database'.schema = Database.schema + 1
    BY <1>1, <2>4 DEF Content
  <2>6. daemon' \in {"migrating", "up"} /\ (daemon' = "migrating" => Database.schema + 1 < code)
    BY <1>3, <2>1, BackupAssumption DEF Migrate
  <2> QED
    BY <1>1, <1>2, <2>2, <2>3, <2>5, <2>6 DEF BackupTypeOK, Owned
<1>4. CASE Write
  <2>1. [Database EXCEPT !.data = @ + 1] \in Content
    BY <1>1 DEF Content
  <2>2. /\ wal' = [over |-> main, now |-> [Database EXCEPT !.data = @ + 1]]
        /\ wal' # NoWal /\ daemon' = daemon /\ daemon = "up"
    BY <1>1, <1>4, <2>1, NoWalFacts DEF Write
  <2> QED
    BY <1>1, <1>2, <2>1, <2>2 DEF BackupTypeOK, Owned
<1> QED
  BY <1>3, <1>4

\* kadrand from the copy before a migration to its end.
LEMMA DaemonKeepsInv ==
  ASSUME BackupInv,
         CopyDone \/ CopyFails \/ MigrationFails \/ Stop \/ Install \/ MoveAside
  PROVE  BackupInv'
<1> USE DEF BackupInv
<1>0. \A f \in DOMAIN files : files[f] \in Content \cup {NoFile, Partial}
  BY DEF BackupTypeOK
<1>1. CASE CopyDone
  <2>1. Database \in Content \cup {NoFile, Partial}
    BY DatabaseRead
  <2>2. \A f \in DOMAIN With(PreName, Database) :
           With(PreName, Database)[f] \in Content \cup {NoFile, Partial}
    BY <1>0, <2>1, CopiesStayTyped
  <2>3. \A f \in DOMAIN files' : files'[f] \in Content \cup {NoFile, Partial}
    BY <1>1, <2>2, PrunedStayTyped DEF CopyDone, SetFiles
  <2>4. UNCHANGED <<main, wal, code, restore>> /\ daemon = "copying" /\ daemon' = "migrating"
    BY <1>1 DEF CopyDone
  <2>5. BackupTypeOK'
    BY <2>3, <2>4 DEF BackupTypeOK
  <2>6. Owned'
    BY <2>4 DEF Owned, Database
  <2> QED
    BY <2>5, <2>6
<1>2. CASE CopyFails
  <2>1. \A f \in DOMAIN files' : files'[f] \in Content \cup {NoFile, Partial}
    BY <1>0, <1>2, CopiesStayTyped DEF CopyFails, SetFiles
  <2>2. UNCHANGED restore /\ restore.step = "idle"
    BY <1>2 DEF CopyFails, Owned
  <2> QED
    BY <1>2, <2>1, <2>2, CloseKeepsInv DEF CopyFails
<1>3. CASE MigrationFails \/ Stop
  <2>1. UNCHANGED restore /\ restore.step = "idle"
    BY <1>3 DEF MigrationFails, Stop, Owned
  <2> QED
    BY <1>0, <1>3, <2>1, CloseKeepsInv DEF MigrationFails, Stop
<1>4. CASE Install
  <2>1. UNCHANGED <<main, wal, files, daemon, restore>> /\ daemon = "down" /\ code' \in 1..MaxSchema
    BY <1>4 DEF Install
  <2> QED
    BY <2>1 DEF BackupTypeOK, Owned
<1>5. CASE MoveAside
  <2>1. UNCHANGED <<wal, files, code, daemon, restore>> /\ daemon = "down"
        /\ restore.step = "idle" /\ main' = NoFile
    BY <1>5 DEF MoveAside
  <2> QED
    BY <2>1 DEF BackupTypeOK, Owned
<1> QED
  BY <1>1, <1>2, <1>3, <1>4, <1>5

LEMMA RestoreKeepsInv ==
  ASSUME BackupInv,
         \/ \E f \in DOMAIN files : BeginRestore(f)
         \/ FindSafety \/ WriteSafety \/ EndSafety \/ SafetyFails
         \/ RemoveSidecars \/ Place \/ PlaceFails
  PROVE  BackupInv'
<1> USE DEF BackupInv
<1>0. \A f \in DOMAIN files : files[f] \in Content \cup {NoFile, Partial}
  BY DEF BackupTypeOK
<1>1. ASSUME NEW f \in DOMAIN files, BeginRestore(f)
      PROVE  BackupInv'
  <2>1. files[f] \in Content \cup {NoFile}
    BY <1>0, <1>1 DEF BeginRestore, Valid, Intact
  <2>2. /\ restore'.from = files[f] /\ restore'.step \in {"clear", "copy"}
        /\ {"step", "from"} \subseteq DOMAIN restore'
    BY <1>1 DEF BeginRestore, NewRestore
  <2>3. UNCHANGED <<main, wal, files, code, daemon>> /\ daemon = "down"
    BY <1>1 DEF BeginRestore
  <2> QED
    BY <2>1, <2>2, <2>3 DEF BackupTypeOK, Owned, Database
<1>2. CASE FindSafety \/ WriteSafety
  <2>1. UNCHANGED <<main, wal, code, daemon>> /\ restore.step # "idle"
    BY <1>2 DEF FindSafety, WriteSafety
  <2>2. /\ restore'.step \in {"clear", "writing"} /\ restore'.from = restore.from
        /\ DOMAIN restore' = DOMAIN restore
    BY <1>2 DEF FindSafety, WriteSafety, Go, BackupTypeOK
  <2>3. \A f \in DOMAIN files' : files'[f] \in Content \cup {NoFile, Partial}
    BY <1>0, <1>2, CopiesStayTyped DEF FindSafety, WriteSafety
  <2> QED
    BY <2>1, <2>2, <2>3, CopiesKeepInv
<1>3. CASE EndSafety
  <2>1. Database \in Content \cup {NoFile, Partial}
    BY DatabaseRead
  <2>2. \A f \in DOMAIN files' : files'[f] \in Content \cup {NoFile, Partial}
    <3>1. \A f \in DOMAIN With(restore.name, Database) :
             With(restore.name, Database)[f] \in Content \cup {NoFile, Partial}
      BY <1>0, <2>1, CopiesStayTyped
    <3> QED
      BY <1>3, <3>1 DEF EndSafety
  <2>3. /\ restore.step # "idle" /\ restore'.step = "clear" /\ restore'.from = restore.from
        /\ DOMAIN restore' = DOMAIN restore
    BY <1>3 DEF EndSafety, Go, BackupTypeOK
  <2>4. daemon' = "down" /\ UNCHANGED code /\ Close
    BY <1>3 DEF EndSafety, Owned
  <2> QED
    BY <2>2, <2>3, <2>4, CloseKeepsInv
<1>4. CASE SafetyFails
  <2>1. \A f \in DOMAIN files' : files'[f] \in Content \cup {NoFile, Partial}
    BY <1>0, <1>4, CopiesStayTyped DEF SafetyFails, SetFiles
  <2>2. daemon' = "down" /\ UNCHANGED code /\ Close /\ restore' = NoRestore
    BY <1>4 DEF SafetyFails, Owned
  <2> QED
    BY <2>1, <2>2, CloseKeepsInv
<1>5. CASE RemoveSidecars
  <2>1. UNCHANGED <<main, files, code, daemon>> /\ wal' = NoWal /\ daemon = "down"
    BY <1>5 DEF RemoveSidecars, Owned
  <2>2. /\ restore'.from = restore.from /\ restore.step # "idle"
        /\ restore'.step = "place" /\ DOMAIN restore' = DOMAIN restore
    BY <1>5 DEF RemoveSidecars, Go, BackupTypeOK
  <2> QED
    BY <2>1, <2>2 DEF BackupTypeOK, Owned
<1>6. CASE Place
  <2>1. UNCHANGED <<wal, files, code, daemon>> /\ wal = NoWal /\ daemon = "down"
    BY <1>6 DEF Place, Owned
  <2>2. main' \in Content \cup {NoFile} /\ restore' = NoRestore
    BY <1>6 DEF Place, BackupTypeOK
  <2> QED
    BY <2>1, <2>2 DEF BackupTypeOK, Owned, NoRestore
<1>7. CASE PlaceFails
  BY <1>0, <1>7, CopiesKeepInv DEF PlaceFails
<1> QED
  BY <1>1, <1>2, <1>3, <1>4, <1>5, <1>6, <1>7

\* Whatever a crash interrupts, the file and the log are one database.
LEMMA CrashKeepsInv ==
  ASSUME BackupInv, Crash \/ PowerLoss \/ Tick
  PROVE  BackupInv'
<1> USE DEF BackupInv
<1>1. UNCHANGED <<main, code>> /\ (wal' = wal \/ wal' = NoWal)
  BY DEF Crash, PowerLoss, Tick
<1>2. \A f \in DOMAIN files' : files'[f] \in Content \cup {NoFile, Partial}
  BY DEF Crash, PowerLoss, Tick, BackupTypeOK
<1>3. CASE Tick
  BY <1>2, <1>3, CopiesKeepInv DEF Tick
<1>4. CASE Crash \/ PowerLoss
  <2>1. daemon' = "down" /\ restore' = NoRestore
    BY <1>4 DEF Crash, PowerLoss, Die
  <2> QED
    BY <1>1, <1>2, <2>1 DEF BackupTypeOK, Owned, NoRestore
<1> QED
  BY <1>3, <1>4

LEMMA BackupInvNext == BackupInv /\ [Next]_vars => BackupInv'
<1> SUFFICES ASSUME BackupInv, [Next]_vars PROVE BackupInv'
  OBVIOUS
<1>1. CASE \E c \in Caller : \/ FindSnapshot(c) \/ BeginSnapshot(c) \/ WriteSnapshot(c)
                             \/ EndSnapshot(c) \/ SnapshotFails(c)
  BY <1>1, SnapshotKeepsInv
<1>2. CASE Start
  BY <1>2, StartKeepsInv
<1>3. CASE Migrate \/ Write
  BY <1>3, CommitKeepsInv
<1>4. CASE CopyDone \/ CopyFails \/ MigrationFails \/ Stop \/ Install \/ MoveAside
  BY <1>4, DaemonKeepsInv
<1>5. CASE \/ \E f \in DOMAIN files : BeginRestore(f)
           \/ FindSafety \/ WriteSafety \/ EndSafety \/ SafetyFails
           \/ RemoveSidecars \/ Place \/ PlaceFails
  BY <1>5, RestoreKeepsInv
<1>6. CASE Crash \/ PowerLoss \/ Tick
  BY <1>6, CrashKeepsInv
<1>7. CASE UNCHANGED vars
  BY <1>7 DEF vars, BackupInv, BackupTypeOK, Owned, Database
<1> QED
  BY <1>1, <1>2, <1>3, <1>4, <1>5, <1>6, <1>7 DEF Next

\* The inductive invariant of the database file and its log.
THEOREM BackupCorrect == Spec => []BackupInv
  BY BackupInvInit, BackupInvNext, PTL DEF Spec

LEMMA BackupInvWhole == BackupInv => DatabaseWhole
  BY NotContent, NotPartial DEF BackupInv, BackupTypeOK, Owned, DatabaseWhole

\* What the next start reads is a database or nothing, whatever was interrupted;
\* a partial file is a copy.
THEOREM BackupTypes == Spec => []BackupTypeOK
  BY BackupCorrect, PTL DEF BackupInv

\* Whatever is interrupted, the next start opens one whole database, and never
\* the file of one with the log of another (restore.go:17-37, :203-206).
THEOREM BackupDatabaseWhole == Spec => []DatabaseWhole
  BY BackupCorrect, BackupInvWhole, PTL

-----------------------------------------------------------------------------
(* A restore keeps what it replaces. *)

Safety(t) == <<"pre-restore", t>>
Copied(name, content) == name \in broken \/ \E f \in DOMAIN files : files[f] = content

\* The safety copy of this second is there only while no kadrand has run in it, and
\* none has the name of a second to come.
Names ==
  /\ clock \in Nat
  /\ DOMAIN snap = Caller /\ \A c \in Caller : {"step", "name"} \subseteq DOMAIN snap[c]
  /\ {"step", "name", "from", "old"} \subseteq DOMAIN restore
  /\ \A t \in Nat : t > clock => Safety(t) \notin DOMAIN files
  /\ daemon # "down" => Safety(clock) \notin DOMAIN files
  /\ \A c \in Caller : snap[c].name[1] = "kadran"
  /\ \A c \in Caller : snap[c].step # "idle" => daemon = "up"

\* The safety copy of this second, where a restore finds it, has what the database
\* has: the restore that wrote it left one that a copy holds.
Known ==
  daemon = "down" /\ restore.step = "idle" /\ Safety(clock) \in DOMAIN files /\ main # NoFile =>
    wal = NoWal /\ Copied(Safety(clock), Database)

\* What a restore under way keeps: the name of its copy, the database it found, and
\* the one it puts in its place.
Running ==
  restore.step # "idle" =>
    /\ restore.step \in {"copy", "writing", "clear", "place"}
    /\ \E t \in Nat : t <= clock /\ restore.name = Safety(t)
    /\ Safety(clock) \in DOMAIN files => restore.name = Safety(clock)
    /\ Database = restore.old
    /\ restore.from # Partial /\ \E f \in DOMAIN files : files[f] = restore.from
    /\ restore.step = "writing" => restore.name \in DOMAIN files /\ files[restore.name] = Partial
    /\ restore.step \in {"copy", "writing"} => main # NoFile
    /\ restore.step = "copy" /\ restore.name \in DOMAIN files =>
         wal = NoWal /\ Copied(restore.name, restore.old)
    /\ restore.step \in {"clear", "place"} /\ main # NoFile =>
         wal = NoWal /\ Copied(restore.name, restore.old)

KeptInv == BackupInv /\ Names /\ Known /\ Running

LEMMA SafetyNames ==
  /\ \A t : Safety(t)[1] = "pre-restore" /\ Safety(t) # PreName /\ Safety(t) # SnapshotName
  /\ \A t, u : Safety(t) = Safety(u) => t = u
  /\ SafetyName = Safety(clock)
  BY DEF Safety, PreName, SnapshotName, SafetyName

\* The names that writing, removing and pruning leave.
LEMMA CopyNames ==
  /\ \A n, c : DOMAIN With(n, c) = DOMAIN files \cup {n}
  /\ \A n : DOMAIN Without(n) \subseteq DOMAIN files
  /\ \A fs, kind, n : DOMAIN Pruned(fs, kind, n) \subseteq DOMAIN fs
  BY DEF With, Without, Pruned, Restrict

LEMMA PrunedCopyNames ==
  ASSUME NEW n, NEW c, NEW kind, NEW k
  PROVE  DOMAIN Pruned(With(n, c), kind, k) \subseteq DOMAIN files \cup {n}
<1>1. DOMAIN With(n, c) = DOMAIN files \cup {n}
  BY CopyNames
<1>2. DOMAIN Pruned(With(n, c), kind, k) \subseteq DOMAIN With(n, c)
  BY CopyNames
<1> QED
  BY <1>1, <1>2

LEMMA KeptInvInit == Init => KeptInv
<1> SUFFICES ASSUME Init PROVE KeptInv
  OBVIOUS
<1>1. Names
  BY DEF Init, Names, Idle, NoRestore
<1>2. Known /\ Running
  BY DEF Init, Known, Running, NoRestore
<1> QED
  BY <1>1, <1>2, BackupInvInit DEF KeptInv

\* Steps of a kadrand that runs: they add no safety copy, and no restore is under way.
LEMMA DaemonKeeps ==
  ASSUME KeptInv, daemon # "down", UNCHANGED <<clock, restore>>,
         \A t \in Nat : Safety(t) \in DOMAIN files' => Safety(t) \in DOMAIN files,
         DOMAIN snap' = Caller,
         \A c \in Caller :
           /\ {"step", "name"} \subseteq DOMAIN snap'[c] /\ snap'[c].name[1] = "kadran"
           /\ snap'[c].step # "idle" => daemon' = "up"
  PROVE  Names' /\ Known' /\ Running'
<1>1. restore.step = "idle" /\ restore' = restore /\ clock' = clock
  BY DEF KeptInv, BackupInv, Owned
<1>2. Names'
  BY <1>1 DEF KeptInv, Names, Safety
<1>3. Safety(clock) \notin DOMAIN files'
  BY DEF KeptInv, Names
<1>4. Known'
  BY <1>1, <1>3 DEF Known, Safety
<1>5. Running'
  BY <1>1 DEF Running
<1> QED
  BY <1>2, <1>4, <1>5

LEMMA SnapshotKeeps ==
  ASSUME KeptInv, NEW c \in Caller,
         \/ FindSnapshot(c) \/ BeginSnapshot(c) \/ WriteSnapshot(c)
         \/ EndSnapshot(c) \/ SnapshotFails(c)
  PROVE  Names' /\ Known' /\ Running'
<1>1. daemon = "up" /\ UNCHANGED <<clock, restore, daemon>>
  BY DEF KeptInv, Names, FindSnapshot, BeginSnapshot, WriteSnapshot, EndSnapshot, SnapshotFails
<1>2. /\ DOMAIN snap = Caller
      /\ \A d \in Caller : {"step", "name"} \subseteq DOMAIN snap[d] /\ snap[d].name[1] = "kadran"
  BY DEF KeptInv, Names
<1>3. DOMAIN files' \subseteq DOMAIN files \cup {snap[c].name}
  <2>1. CASE FindSnapshot(c) \/ BeginSnapshot(c)
    BY <2>1, CopyNames DEF FindSnapshot, BeginSnapshot, SetFiles
  <2>2. CASE WriteSnapshot(c)
    <3>1. files' = files \/ files' = With(snap[c].name, Partial)
      BY <2>2 DEF WriteSnapshot
    <3>2. DOMAIN With(snap[c].name, Partial) = DOMAIN files \cup {snap[c].name}
      BY CopyNames
    <3>3. CASE files' = files
      BY <3>3
    <3>4. CASE files' = With(snap[c].name, Partial)
      BY <3>2, <3>4
    <3> QED
      BY <3>1, <3>3, <3>4
  <2>3. CASE EndSnapshot(c)
    <3>1. files' = Pruned(With(snap[c].name, Database), "kadran", SnapshotKeep)
      BY <2>3 DEF EndSnapshot, SetFiles
    <3> QED
      BY <3>1, PrunedCopyNames
  <2>4. CASE SnapshotFails(c)
    BY <2>4, CopyNames DEF SnapshotFails, SetFiles
  <2> QED
    BY <2>1, <2>2, <2>3, <2>4
<1>4. \A t \in Nat : Safety(t) \in DOMAIN files' => Safety(t) \in DOMAIN files
  <2>1. \A t \in Nat : Safety(t) # snap[c].name
    BY <1>2 DEF Safety
  <2> QED
    BY <1>3, <2>1
<1>5. /\ DOMAIN snap' = Caller
      /\ \A d \in Caller : {"step", "name"} \subseteq DOMAIN snap'[d] /\ snap'[d].name[1] = "kadran"
  <2>1. CASE FindSnapshot(c)
    BY <1>2, <2>1 DEF FindSnapshot
  <2>2. CASE BeginSnapshot(c)
    BY <1>2, <2>2 DEF BeginSnapshot, Idle, SnapshotName
  <2>3. CASE WriteSnapshot(c)
    <3>1. snap' = [snap EXCEPT ![c] = Idle] \/ snap' = [snap EXCEPT ![c].step = "writing"]
      BY <2>3 DEF WriteSnapshot
    <3> QED
      BY <1>2, <3>1 DEF Idle
  <2>4. CASE EndSnapshot(c) \/ SnapshotFails(c)
    <3>1. snap' = [snap EXCEPT ![c] = Idle]
      BY <2>4 DEF EndSnapshot, SnapshotFails
    <3> QED
      BY <1>2, <3>1 DEF Idle
  <2> QED
    BY <2>1, <2>2, <2>3, <2>4
<1> QED
  BY <1>1, <1>4, <1>5, DaemonKeeps

LEMMA RunKeeps ==
  ASSUME KeptInv, CopyDone \/ CopyFails \/ Migrate \/ MigrationFails \/ Write \/ Stop
  PROVE  Names' /\ Known' /\ Running'
<1>1. daemon # "down" /\ UNCHANGED <<clock, restore, snap>>
  BY DEF CopyDone, CopyFails, Migrate, MigrationFails, Write, Stop
<1>2. /\ DOMAIN snap = Caller
      /\ \A d \in Caller :
           /\ {"step", "name"} \subseteq DOMAIN snap[d] /\ snap[d].name[1] = "kadran"
           /\ snap[d].step # "idle" => daemon = "up"
  BY DEF KeptInv, Names
<1>3. DOMAIN files' \subseteq DOMAIN files \cup {PreName}
  BY CopyNames DEF CopyDone, CopyFails, Migrate, MigrationFails, Write, Stop, SetFiles
<1>4. \A t \in Nat : Safety(t) \in DOMAIN files' => Safety(t) \in DOMAIN files
  BY <1>3, SafetyNames
<1>5. \A d \in Caller : snap[d].step # "idle" => daemon' = "up"
  BY <1>2 DEF CopyDone, CopyFails, Migrate, MigrationFails, Write, Stop
<1> QED
  BY <1>1, <1>2, <1>4, <1>5, DaemonKeeps

\* What starts or ends in a second of its own: it has no safety copy yet.
LEMMA NextSecondKeeps ==
  ASSUME KeptInv, Start \/ Crash \/ PowerLoss
  PROVE  Names' /\ Known' /\ Running'
<1>1. clock \in Nat /\ clock' = clock + 1 /\ clock' \in Nat
  BY DEF KeptInv, Names, Start, Crash, PowerLoss, Die
<1>2. DOMAIN files' \subseteq DOMAIN files \cup {PreName}
  <2>1. CASE Start
    BY <2>1, CopyNames DEF Start
  <2>2. CASE Crash
    BY <2>2 DEF Crash
  <2>3. CASE PowerLoss
    BY <2>3 DEF PowerLoss
  <2> QED
    BY <2>1, <2>2, <2>3
<1>3. \A t \in Nat : t >= clock' => Safety(t) \notin DOMAIN files'
  BY <1>1, <1>2, SafetyNames DEF KeptInv, Names
<1>4. restore'.step = "idle" /\ {"step", "name", "from", "old"} \subseteq DOMAIN restore'
  BY DEF KeptInv, Names, Start, Crash, PowerLoss, Die, NoRestore
<1>5. /\ DOMAIN snap' = Caller
      /\ \A c \in Caller :
           /\ {"step", "name"} \subseteq DOMAIN snap'[c] /\ snap'[c].name[1] = "kadran"
           /\ snap'[c].step = "idle"
  <2>1. CASE Start
    BY <2>1 DEF KeptInv, Names, Start
  <2>2. CASE Crash \/ PowerLoss
    BY <2>2 DEF Crash, PowerLoss, Die, Idle
  <2> QED
    BY <2>1, <2>2
<1>6. Names'
  BY <1>1, <1>3, <1>4, <1>5 DEF Names, Safety
<1>7. Known' /\ Running'
  BY <1>1, <1>3, <1>4 DEF Known, Running, Safety
<1> QED
  BY <1>6, <1>7

\* What neither starts nor ends a kadrand or a restore.
LEMMA OthersKeep ==
  ASSUME KeptInv, Install \/ MoveAside \/ Tick
  PROVE  Names' /\ Known' /\ Running'
<1>1. UNCHANGED <<files, snap, restore, daemon, broken>>
  BY DEF Install, MoveAside, Tick
<1>2. CASE Install \/ MoveAside
  <2>1. UNCHANGED <<clock, wal>> /\ daemon = "down"
    BY <1>2 DEF Install, MoveAside
  <2>2. Names'
    BY <1>1, <2>1 DEF KeptInv, Names, Safety
  <2>3. CASE Install
    <3>1. main' = main /\ Database' = Database /\ Safety(clock)' = Safety(clock)
      BY <2>1, <2>3 DEF Install, Database, Safety
    <3>3. Known'
      <4>1. Copied(Safety(clock), Database)' <=> Copied(Safety(clock), Database)
        BY <1>1, <3>1 DEF Copied
      <4> QED
        BY <1>1, <2>1, <3>1, <4>1 DEF KeptInv, Known
    <3>4. Running'
      <4>1. Copied(restore.name, restore.old)' <=> Copied(restore.name, restore.old)
        BY <1>1 DEF Copied
      <4> QED
        BY <1>1, <2>1, <3>1, <4>1 DEF KeptInv, Running, Safety
    <3> QED
      BY <2>2, <3>3, <3>4
  <2>4. CASE MoveAside
    <3>1. main' = NoFile /\ restore'.step = "idle"
      BY <1>1, <2>4 DEF MoveAside
    <3> QED
      BY <2>2, <3>1 DEF Known, Running
  <2> QED
    BY <1>2, <2>2, <2>3, <2>4
<1>3. CASE Tick
  <2>1. UNCHANGED <<main, wal>> /\ clock \in Nat /\ clock' = clock + 1
    BY <1>3 DEF Tick, KeptInv, Names
  <2>2. Safety(clock') \notin DOMAIN files /\ Database' = Database
    BY <2>1 DEF KeptInv, Names, Database
  <2>3. Names'
    BY <1>1, <2>1, <2>2 DEF KeptInv, Names, Safety
  <2>4. Known'
    BY <1>1, <2>2 DEF Known, Safety
  <2>5. ASSUME restore.step # "idle"
        PROVE  Running'
    <3>1. \E t \in Nat : t <= clock' /\ restore.name = Safety(t)
      BY <2>1, <2>5 DEF KeptInv, Running
    <3>2. Safety(clock)' \notin DOMAIN files
      BY <2>2 DEF Safety
    <3>3. \A name, content : Copied(name, content)' <=> Copied(name, content)
      BY <1>1 DEF Copied
    <3> QED
      BY <1>1, <2>1, <2>2, <2>5, <3>1, <3>2, <3>3 DEF KeptInv, Running, Safety
  <2>6. CASE restore.step = "idle"
    BY <1>1, <2>3, <2>4, <2>6 DEF Running
  <2> QED
    BY <2>3, <2>4, <2>5, <2>6
<1> QED
  BY <1>2, <1>3

\* A restore writes its safety copy before it takes anything away.
LEMMA BeginRestoreKeeps ==
  ASSUME KeptInv, NEW f \in DOMAIN files, BeginRestore(f)
  PROVE  Names' /\ Known' /\ Running'
<1>1. /\ UNCHANGED <<main, wal, files, daemon, snap, clock, broken>>
      /\ daemon = "down" /\ restore.step = "idle" /\ files[f] # Partial
  BY DEF BeginRestore, Valid, Intact
<1>2. /\ DOMAIN restore' = {"step", "name", "from", "old"}
      /\ restore'.step = IF main = NoFile THEN "clear" ELSE "copy"
      /\ restore'.name = Safety(clock) /\ restore'.from = files[f] /\ restore'.old = Database
  BY SafetyNames DEF BeginRestore, NewRestore
<1>3. Names'
  BY <1>1, <1>2 DEF KeptInv, Names, Safety
<1>4. Known'
  BY <1>2 DEF Known
<1>5. clock \in Nat /\ Safety(clock)' = Safety(clock) /\ Database' = Database
  BY <1>1 DEF KeptInv, Names, Safety, Database
<1>6. Safety(clock) \in DOMAIN files /\ main # NoFile => wal = NoWal /\ Copied(Safety(clock), Database)'
  BY <1>1, <1>5 DEF KeptInv, Known, Copied
<1>7. \E t \in Nat : t <= clock /\ restore'.name = Safety(t)
  BY <1>2, <1>5
<1>8. Running'
  <2>1. restore'.step = "copy" /\ restore'.name \in DOMAIN files =>
          wal' = NoWal /\ Copied(restore.name, restore.old)'
    BY <1>1, <1>2, <1>5, <1>6 DEF Copied
  <2> QED
    BY <1>1, <1>2, <1>5, <1>7, <2>1 DEF Running, Safety
<1> QED
  BY <1>3, <1>4, <1>8

LEMMA SafetyKeeps ==
  ASSUME KeptInv, FindSafety \/ WriteSafety \/ EndSafety
  PROVE  Names' /\ Known' /\ Running'
<1>1. /\ UNCHANGED <<daemon, snap, clock, broken>>
      /\ restore.step \in {"copy", "writing"} /\ restore.step # "idle"
      /\ restore'.step \in {"writing", "clear"} /\ restore'.step # "idle"
      /\ DOMAIN restore' = DOMAIN restore /\ restore'.name = restore.name
      /\ restore'.from = restore.from /\ restore'.old = restore.old
  BY DEF KeptInv, Names, FindSafety, WriteSafety, EndSafety, Go
<1>2. daemon = "down" /\ main # NoFile /\ clock \in Nat /\ Safety(clock)' = Safety(clock)
  BY <1>1 DEF KeptInv, BackupInv, Owned, Running, Names, Safety
<1>3. PICK t \in Nat : t <= clock /\ restore.name = Safety(t)
  BY <1>1 DEF KeptInv, Running
<1>4. DOMAIN files' = DOMAIN files \cup {restore.name} /\ (\E f \in DOMAIN files' : files'[f] = restore.from)
  <2>1. PICK f \in DOMAIN files : files[f] = restore.from /\ files[f] # Partial
    BY <1>1 DEF KeptInv, Running
  <2>2. CASE FindSafety
    BY <2>1, <2>2 DEF FindSafety
  <2>3. CASE WriteSafety
    BY <2>1, <2>3 DEF WriteSafety, With
  <2>4. CASE EndSafety
    <3>1. f # restore.name
      BY <2>1, <2>4 DEF EndSafety, KeptInv, Running
    <3> QED
      BY <2>1, <2>4, <3>1 DEF EndSafety, With
  <2> QED
    BY <2>2, <2>3, <2>4
<1>5. Names'
  <2>1. \A u \in Nat : u > clock => Safety(u) \notin DOMAIN files'
    BY <1>2, <1>3, <1>4, SafetyNames DEF KeptInv, Names
  <2> QED
    BY <1>1, <1>2, <2>1 DEF KeptInv, Names, Safety
<1>6. Known'
  BY <1>1 DEF Known
<1>7. Safety(clock) \in DOMAIN files' => restore.name = Safety(clock)
  BY <1>1, <1>4 DEF KeptInv, Running
<1>8. Database = restore.old /\ restore.from # Partial
  BY <1>1 DEF KeptInv, Running
<1>9. /\ Database' = Database
      /\ main' # NoFile
      /\ restore'.step = "writing" => restore.name \in DOMAIN files' /\ files'[restore.name] = Partial
      /\ restore'.step = "clear" => wal' = NoWal /\ Copied(restore.name, restore.old)'
  <2>1. CASE FindSafety
    <3>1. UNCHANGED <<main, wal, files>> /\ restore.step = "copy" /\ restore.name \in DOMAIN files
          /\ restore'.step = "clear"
      BY <1>1, <2>1 DEF FindSafety, Go, KeptInv, Names
    <3> QED
      BY <1>1, <1>2, <3>1 DEF KeptInv, Running, Copied, Database
  <2>2. CASE WriteSafety
    <3>1. UNCHANGED <<main, wal>> /\ files' = With(restore.name, Partial) /\ restore'.step = "writing"
      BY <2>2 DEF WriteSafety, Go, KeptInv, Names
    <3> QED
      BY <1>2, <3>1 DEF With, Database
  <2>3. CASE EndSafety
    <3>1. /\ files' = With(restore.name, Database) /\ main' = Database /\ wal' = NoWal
          /\ restore'.step = "clear"
      BY <2>3 DEF EndSafety, Close, Go, KeptInv, Names
    <3>2. Database # NoFile
      BY <1>2, DatabaseRead, NotContent DEF KeptInv, BackupInv
    <3>3. restore.name \in DOMAIN files' /\ files'[restore.name] = restore.old
      BY <1>8, <3>1 DEF With
    <3> QED
      BY <1>1, <3>1, <3>2, <3>3 DEF Copied, Database
  <2> QED
    BY <2>1, <2>2, <2>3
<1>10. Running'
  <2>1. Copied(restore.name, restore.old)' <=> (restore.name \in broken' \/ \E f \in DOMAIN files' : files'[f] = restore.old)
    BY <1>1 DEF Copied
  <2> QED
    BY <1>1, <1>2, <1>3, <1>4, <1>7, <1>8, <1>9, <2>1 DEF Running, Safety
<1> QED
  BY <1>5, <1>6, <1>10

LEMMA SafetyFailsKeeps ==
  ASSUME KeptInv, SafetyFails
  PROVE  Names' /\ Known' /\ Running'
<1>1. /\ UNCHANGED <<daemon, snap, clock>> /\ restore' = NoRestore /\ restore'.step = "idle"
      /\ restore.step = "writing" /\ wal' = NoWal /\ broken' = broken \cup {restore.name}
      /\ DOMAIN files' \subseteq DOMAIN files
  BY CopyNames DEF SafetyFails, Close, NoRestore, SetFiles
<1>2. Names'
  BY <1>1 DEF KeptInv, Names, Safety, NoRestore
<1>3. Running'
  BY <1>1 DEF Running
<1>4. Safety(clock) \in DOMAIN files' => Safety(clock) \in broken'
  BY <1>1 DEF KeptInv, Running
<1>5. Known'
  BY <1>1, <1>4 DEF Known, Safety, Copied
<1> QED
  BY <1>2, <1>3, <1>5

LEMMA PlaceKeeps ==
  ASSUME KeptInv, RemoveSidecars \/ Place \/ PlaceFails
  PROVE  Names' /\ Known' /\ Running'
<1>1. /\ UNCHANGED <<files, daemon, snap, clock, broken>>
      /\ restore.step \in {"clear", "place"} /\ restore.step # "idle" /\ daemon = "down"
      /\ Safety(clock)' = Safety(clock)
      /\ Safety(clock) \in DOMAIN files => restore.name = Safety(clock)
      /\ \A name, content : Copied(name, content)' <=> Copied(name, content)
  BY DEF KeptInv, BackupInv, Owned, Running, RemoveSidecars, Place, PlaceFails, Safety, Copied
<1>2. CASE RemoveSidecars
  <2>1. /\ main' = main /\ wal' = NoWal /\ restore'.step = "place" /\ restore.step = "clear"
        /\ DOMAIN restore' = DOMAIN restore /\ restore'.name = restore.name
        /\ restore'.from = restore.from /\ restore'.old = restore.old
    BY <1>2 DEF RemoveSidecars, Go, KeptInv, Names
  <2>2. Database' = Database
    BY <1>1, <2>1 DEF KeptInv, Running, Database
  <2>3. Names'
    BY <1>1, <2>1 DEF KeptInv, Names, Safety
  <2>4. Known'
    BY <2>1 DEF Known
  <2>5. Running'
    BY <1>1, <2>1, <2>2 DEF KeptInv, Running, Safety
  <2> QED
    BY <2>3, <2>4, <2>5
<1>3. CASE Place \/ PlaceFails
  <2>1. restore' = NoRestore /\ restore'.step = "idle" /\ wal' = wal /\ restore.step = "place" /\ wal = NoWal
    BY <1>3 DEF Place, PlaceFails, NoRestore, KeptInv, BackupInv, Owned
  <2>2. Names'
    BY <1>1, <2>1 DEF KeptInv, Names, Safety, NoRestore
  <2>3. Running'
    BY <2>1 DEF Running
  <2>4. main' # NoFile /\ Safety(clock) \in DOMAIN files => Copied(Safety(clock), Database')
    <3>1. CASE Place
      <4>1. Database' = restore.from
        BY <2>1, <3>1 DEF Place, Database
      <4>2. \E f \in DOMAIN files : files[f] = restore.from
        BY <1>1 DEF KeptInv, Running
      <4> QED
        BY <4>1, <4>2 DEF Copied
    <3>2. CASE PlaceFails
      <4>1. main' = main /\ Database' = Database
        BY <2>1, <3>2 DEF PlaceFails, Database
      <4> QED
        BY <1>1, <4>1 DEF KeptInv, Running
    <3> QED
      BY <1>3, <3>1, <3>2
  <2>5. Known'
    <3>1. main' # NoFile /\ Safety(clock)' \in DOMAIN files' => Copied(Safety(clock), Database)'
      BY <1>1, <2>4 DEF Copied
    <3> QED
      BY <2>1, <3>1 DEF Known
  <2> QED
    BY <2>2, <2>3, <2>5
<1> QED
  BY <1>2, <1>3

LEMMA KeptInvNext == KeptInv /\ [Next]_vars => KeptInv'
<1> SUFFICES ASSUME KeptInv, [Next]_vars PROVE KeptInv'
  OBVIOUS
<1>0. BackupInv'
  BY BackupInvNext DEF KeptInv
<1>1. CASE \E c \in Caller : \/ FindSnapshot(c) \/ BeginSnapshot(c) \/ WriteSnapshot(c)
                             \/ EndSnapshot(c) \/ SnapshotFails(c)
  BY <1>0, <1>1, SnapshotKeeps DEF KeptInv
<1>2. CASE Start \/ Crash \/ PowerLoss
  BY <1>0, <1>2, NextSecondKeeps DEF KeptInv
<1>3. CASE CopyDone \/ CopyFails \/ Migrate \/ MigrationFails \/ Write \/ Stop
  BY <1>0, <1>3, RunKeeps DEF KeptInv
<1>4. CASE Install \/ MoveAside \/ Tick
  BY <1>0, <1>4, OthersKeep DEF KeptInv
<1>5. CASE \E f \in DOMAIN files : BeginRestore(f)
  BY <1>0, <1>5, BeginRestoreKeeps DEF KeptInv
<1>6. CASE FindSafety \/ WriteSafety \/ EndSafety
  BY <1>0, <1>6, SafetyKeeps DEF KeptInv
<1>7. CASE SafetyFails
  BY <1>0, <1>7, SafetyFailsKeeps DEF KeptInv
<1>8. CASE RemoveSidecars \/ Place \/ PlaceFails
  BY <1>0, <1>8, PlaceKeeps DEF KeptInv
<1>9. CASE UNCHANGED vars
  <2>1. Names'
    BY <1>9 DEF KeptInv, vars, Names, Safety
  <2>2. Known' /\ Running'
    BY <1>9 DEF KeptInv, vars, Known, Running, Safety, Copied, Database
  <2> QED
    BY <1>0, <2>1, <2>2 DEF KeptInv
<1> QED
  BY <1>1, <1>2, <1>3, <1>4, <1>5, <1>6, <1>7, <1>8, <1>9 DEF Next

\* The inductive invariant of a restore: the safety copy it writes or finds has what
\* the database it replaces had, the commits in its log too.
THEOREM RestoreCorrect == Spec => []KeptInv
  BY KeptInvInit, KeptInvNext, PTL DEF Spec

\* A restore that is about to rename its file has a copy of the one there.
LEMMA PlacedIsKept ==
  ASSUME KeptInv, restore.step = "place", restore.old # NoFile
  PROVE  restore.name \in broken \/ \E f \in DOMAIN files : files[f] = restore.old
<1>1. main = restore.old
  BY DEF KeptInv, BackupInv, Owned, Running, Database
<1>2. Copied(restore.name, restore.old)
  BY <1>1 DEF KeptInv, Running
<1> QED
  BY <1>2 DEF Copied

\* When a restore replaces a database, all that the database held, its log included, is
\* in a copy, whatever came between its steps (restore.go:57-59).
THEOREM OldStatesAreKept == Spec => OldStateIsKept
<1>1. KeptInv /\ [Next]_vars =>
        [main' # main /\ restore.step = "place" /\ restore.old # NoFile
           => restore.name \in broken \/ \E f \in DOMAIN files : files[f] = restore.old]_vars
  BY PlacedIsKept
<1> QED
  BY <1>1, RestoreCorrect, PTL DEF Spec, OldStateIsKept

-----------------------------------------------------------------------------
(* A snapshot that was answered is there, or enough newer ones are. *)

LEMMA LeastNumber ==
  ASSUME NEW S \in SUBSET Nat, S # {}
  PROVE  \E m \in S : \A k \in S : m <= k
<1>1. IsWellFoundedOn(OpToRel(<, Nat), Nat)
  BY NatLessThanWellFounded
<1>2. PICK m \in S : \A k \in S : <<k, m>> \notin OpToRel(<, Nat)
  BY <1>1, WFMin
<1>3. \A k \in S : ~(k < m)
  BY <1>2 DEF OpToRel
<1> QED
  BY <1>3

LEMMA GreatestNumber ==
  ASSUME NEW S \in SUBSET Nat, S # {}, NEW b \in Nat, \A s \in S : s <= b
  PROVE  \E m \in S : \A k \in S : k <= m
<1> DEFINE T == {b - s : s \in S}
<1>1. T \in SUBSET Nat /\ T # {}
  <2>1. \A s \in S : b - s \in Nat
    OBVIOUS
  <2> QED
    BY <2>1
<1> HIDE DEF T
<1>2. PICK n \in T : \A k \in T : n <= k
  BY <1>1, LeastNumber
<1>3. PICK m \in S : n = b - m
  BY <1>2 DEF T
<1>4. \A k \in S : b - m <= b - k
  BY <1>2, <1>3 DEF T
<1> QED
  BY <1>4

\* The snapshots of names, and those with a later name than that of second x.
Ours(names) == {f \in names : f[1] = "kadran"}
Later(names, x) == {g \in names : g[1] = "kadran" /\ g[2] > x}
Removed(names) == {f \in names : f[1] = "kadran" /\ Cardinality(Later(names, f[2])) >= SnapshotKeep}

\* The names that are given: so many, and of seconds that have been.
Dated(names, now) ==
  /\ IsFiniteSet(names) /\ now \in Nat
  /\ \A f \in names : f[1] = "kadran" => f[2] \in Nat /\ f[2] <= now

LEMMA PrunedNames ==
  ASSUME NEW fs
  PROVE  DOMAIN Pruned(fs, "kadran", SnapshotKeep) = DOMAIN fs \ Removed(DOMAIN fs)
<1>1. Surplus(fs, "kadran", SnapshotKeep) = Removed(DOMAIN fs)
  <2>1. \A x : Later(DOMAIN fs, x) = {g \in {f \in DOMAIN fs : f[1] = "kadran"} : g[2] > x}
    BY DEF Later
  <2> QED
    BY <2>1 DEF Surplus, Removed
<1> QED
  BY <1>1 DEF Pruned, Restrict

LEMMA LaterFinite ==
  ASSUME NEW names, IsFiniteSet(names), NEW x
  PROVE  IsFiniteSet(Later(names, x)) /\ Cardinality(Later(names, x)) \in Nat
<1>1. Later(names, x) \in SUBSET names
  BY DEF Later
<1> QED
  BY <1>1, FS_Subset, FS_CardinalityType

\* Pruning keeps the newest: where enough have later names, enough still do.
LEMMA NewestStay ==
  ASSUME NEW names, NEW now, Dated(names, now), NEW x \in Nat,
         Cardinality(Later(names, x)) >= SnapshotKeep
  PROVE  Cardinality(Later(names \ Removed(names), x)) >= SnapshotKeep
<1> DEFINE T == Later(names, x) \cap Removed(names)
           S == {f[2] : f \in T}
<1>1. CASE T = {}
  <2>1. Later(names \ Removed(names), x) = Later(names, x)
    BY <1>1 DEF Later
  <2> QED
    BY <2>1
<1>2. CASE T # {}
  <2>1. S \in SUBSET Nat /\ S # {} /\ \A s \in S : s <= now
    BY <1>2 DEF Dated, Later
  <2>2. PICK m \in S : \A k \in S : k <= m
    <3> HIDE DEF S
    <3> QED
      BY <2>1, GreatestNumber DEF Dated
  <2>3. PICK w \in T : w[2] = m
    BY <2>2
  <2>4. Cardinality(Later(names, m)) >= SnapshotKeep /\ m > x /\ m \in Nat
    BY <2>1, <2>2, <2>3 DEF Later, Removed
  <2>5. Later(names, m) \subseteq Later(names \ Removed(names), x)
    <3> SUFFICES ASSUME NEW g \in Later(names, m)
                 PROVE  g \in Later(names \ Removed(names), x)
      OBVIOUS
    <3>1. g \in names /\ g[1] = "kadran" /\ g[2] > m /\ g[2] \in Nat
      BY DEF Later, Dated
    <3>2. g[2] > x
      BY <2>4, <3>1
    <3>3. g \notin T
      <4>1. g \in T => g[2] <= m
        BY <2>2
      <4> QED
        BY <2>4, <3>1, <4>1
    <3> QED
      BY <3>1, <3>2, <3>3 DEF Later
  <2>6. Cardinality(Later(names, m)) <= Cardinality(Later(names \ Removed(names), x))
    <3>1. IsFiniteSet(names \ Removed(names))
      BY FS_Subset DEF Dated
    <3> QED
      BY <2>5, <3>1, LaterFinite, FS_Subset
  <2>7. /\ Cardinality(Later(names, m)) \in Nat
        /\ Cardinality(Later(names \ Removed(names), x)) \in Nat
    <3>1. IsFiniteSet(names) /\ IsFiniteSet(names \ Removed(names))
      BY FS_Subset DEF Dated
    <3> QED
      BY <3>1, LaterFinite
  <2> QED
    BY <2>4, <2>6, <2>7, BackupAssumption
<1> QED
  BY <1>1, <1>2

\* One snapshot is written at a time, and what it writes is there, or enough of the
\* copies that are have later names.
Written(c) ==
  \/ snap[c].name \in DOMAIN files
  \/ Cardinality(Later(DOMAIN files, snap[c].name[2])) >= SnapshotKeep

Snaps ==
  /\ Dated(DOMAIN files, clock)
  /\ \A c \in Caller : snap[c].name[2] \in Nat /\ snap[c].name[2] <= clock
  /\ \A c, d \in Caller : snap[c].step = "writing" /\ snap[d].step = "writing" => c = d
  /\ \A c \in Caller : snap[c].step = "writing" => Written(c)
  /\ left \in [{"writes", "faults", "crashes", "restores", "installs"} -> Nat]

\* A timed copy that is not whole is being written, or what a failed one left; what
\* is being written is not whole yet; and a copy before a migration has its name.
Accounted ==
  /\ \A f \in DOMAIN files : Timed(f) /\ files[f] = Partial => f \in broken \/ BeingWritten(f)
  /\ \A c \in Caller : snap[c].step = "writing" /\ snap[c].name \in DOMAIN files =>
       files[snap[c].name] = Partial

Whole == Accounted /\ (daemon = "copying" => PreName \in DOMAIN files)

AnsweredInv == KeptInv /\ Snaps /\ Whole

LEMMA SnapsInit == Init => Snaps
<1> SUFFICES ASSUME Init PROVE Snaps
  OBVIOUS
<1>1. IsFiniteSet(DOMAIN files)
  <2>1. DOMAIN files = {}
    BY DEF Init
  <2> QED
    BY <2>1, FS_EmptySet
<1>2. Dated(DOMAIN files, clock)
  BY <1>1 DEF Init, Dated
<1>3. \A c \in Caller : snap[c].step = "idle" /\ snap[c].name[2] = 0
  BY DEF Init, Idle
<1>4. left \in [{"writes", "faults", "crashes", "restores", "installs"} -> Nat]
  BY BackupAssumption DEF Init
<1> QED
  BY <1>2, <1>3, <1>4 DEF Snaps, Init

\* Names that are dated stay so when some go and when one of now, or of another kind,
\* is added.
LEMMA DatedStay ==
  ASSUME NEW names, NEW now, Dated(names, now), NEW later \in Nat, now <= later, NEW f,
         f[1] = "kadran" => f[2] \in Nat /\ f[2] <= later,
         NEW new, new \subseteq names \cup {f}
  PROVE  Dated(new, later)
<1>1. IsFiniteSet(names \cup {f})
  BY FS_AddElement DEF Dated
<1>2. IsFiniteSet(new)
  BY <1>1, FS_Subset
<1> QED
  BY <1>2 DEF Dated

LEMMA SpendLeft ==
  ASSUME left \in [{"writes", "faults", "crashes", "restores", "installs"} -> Nat],
         NEW what \in {"writes", "faults", "crashes", "restores", "installs"}, Spend(what)
  PROVE  /\ left' \in [{"writes", "faults", "crashes", "restores", "installs"} -> Nat]
         /\ left' # left
<1>1. left[what] \in Nat /\ left[what] > 0 /\ left' = [left EXCEPT ![what] = @ - 1]
  BY DEF Spend
<1>2. left'[what] = left[what] - 1
  BY <1>1
<1> QED
  BY <1>1, <1>2

LEMMA LeftStays ==
  ASSUME AnsweredInv, [Next]_vars
  PROVE  left' \in [{"writes", "faults", "crashes", "restores", "installs"} -> Nat]
<1>1. left \in [{"writes", "faults", "crashes", "restores", "installs"} -> Nat]
  BY DEF AnsweredInv, Snaps
<1>2. left' = left \/ \E what \in {"writes", "faults", "crashes", "restores", "installs"} : Spend(what)
  BY DEF Next, vars, FindSnapshot, BeginSnapshot, WriteSnapshot, EndSnapshot, SnapshotFails, Start,
     CopyDone, CopyFails, Migrate, MigrationFails, Write, Stop, Install, MoveAside, BeginRestore,
     FindSafety, WriteSafety, EndSafety, SafetyFails, RemoveSidecars, Place, PlaceFails,
     Crash, PowerLoss, Die, Tick
<1> QED
  BY <1>1, <1>2, SpendLeft

\* Steps while no snapshot is written, that begin none.
LEMMA NoneWritten ==
  ASSUME AnsweredInv, [Next]_vars, clock' \in Nat, clock <= clock', NEW f, f[1] # "kadran",
         DOMAIN files' \subseteq DOMAIN files \cup {f},
         \A c \in Caller : /\ snap'[c].step # "writing"
                           /\ snap'[c].name = snap[c].name \/ snap'[c].name[2] = 0
  PROVE  Snaps'
<1>1. Dated(DOMAIN files', clock')
  BY DatedStay DEF AnsweredInv, Snaps
<1>2. Dated(DOMAIN files, clock)'
  BY <1>1 DEF Dated
<1>3. \A c \in Caller : snap'[c].name[2] \in Nat /\ snap'[c].name[2] <= clock'
  <2>1. \A c \in Caller : snap[c].name[2] \in Nat /\ snap[c].name[2] <= clock
    BY DEF AnsweredInv, Snaps
  <2>2. clock \in Nat
    BY DEF AnsweredInv, KeptInv, Names
  <2> QED
    BY <2>1, <2>2
<1> QED
  BY <1>2, <1>3, LeftStays DEF Snaps

\* Steps of kadrand, of restores and of the host.
LEMMA OthersKeepSnaps ==
  ASSUME AnsweredInv, [Next]_vars,
         \/ Start \/ Crash \/ PowerLoss \/ CopyDone \/ CopyFails \/ Migrate \/ MigrationFails \/ Stop
         \/ Install \/ MoveAside \/ (\E f \in DOMAIN files : BeginRestore(f))
         \/ FindSafety \/ WriteSafety \/ EndSafety \/ SafetyFails
         \/ RemoveSidecars \/ Place \/ PlaceFails
  PROVE  Snaps'
<1>1. clock \in Nat /\ clock' \in Nat /\ clock <= clock'
  <2>1. clock \in Nat
    BY DEF AnsweredInv, KeptInv, Names
  <2>2. clock' = clock \/ clock' = clock + 1
    BY DEF Start, Crash, PowerLoss, Die, CopyDone, CopyFails, Migrate, MigrationFails, Stop, Install,
       MoveAside, BeginRestore, FindSafety, WriteSafety, EndSafety, SafetyFails, RemoveSidecars,
       Place, PlaceFails
  <2> QED
    BY <2>1, <2>2
<1>2. \A c \in Caller : /\ snap'[c].step # "writing"
                        /\ snap'[c].name = snap[c].name \/ snap'[c].name[2] = 0
  <2>1. CASE Crash \/ PowerLoss
    BY <2>1 DEF Crash, PowerLoss, Die, Idle
  <2>2. CASE ~(Crash \/ PowerLoss)
    <3>1. snap' = snap
      BY <2>2 DEF Start, CopyDone, CopyFails, Migrate, MigrationFails, Stop, Install,
         MoveAside, BeginRestore, FindSafety, WriteSafety, EndSafety, SafetyFails, RemoveSidecars,
         Place, PlaceFails
    <3>2. daemon # "up" \/ Stop
      BY <2>2 DEF AnsweredInv, KeptInv, BackupInv, Owned, Start, CopyDone, CopyFails, Migrate,
         MigrationFails, Install, MoveAside, BeginRestore, FindSafety, WriteSafety, EndSafety,
         SafetyFails, RemoveSidecars, Place, PlaceFails
    <3>3. \A c \in Caller : snap[c].step = "idle"
      BY <3>2 DEF AnsweredInv, KeptInv, Names, Stop
    <3> QED
      BY <3>1, <3>3
  <2> QED
    BY <2>1, <2>2
<1>3. PreName[1] # "kadran"
  BY DEF PreName
<1>4. CASE Start \/ Crash \/ PowerLoss \/ CopyDone \/ CopyFails
  <2>1. DOMAIN files' \subseteq DOMAIN files \cup {PreName}
    <3>1. CASE Start \/ Crash \/ PowerLoss
      <4>1. CASE Start
        BY <4>1, CopyNames DEF Start
      <4>2. CASE Crash
        BY <4>2 DEF Crash
      <4>3. CASE PowerLoss
        BY <4>3 DEF PowerLoss
      <4> QED
        BY <3>1, <4>1, <4>2, <4>3
    <3>2. CASE CopyDone \/ CopyFails
      BY <3>2, CopyNames DEF CopyDone, CopyFails, SetFiles
    <3> QED
      BY <1>4, <3>1, <3>2
  <2> QED
    BY <1>1, <1>2, <1>3, <2>1, NoneWritten
<1>5. CASE FindSafety \/ WriteSafety \/ EndSafety \/ SafetyFails
  <2>1. restore.name[1] # "kadran"
    BY <1>5 DEF AnsweredInv, KeptInv, Running, Safety, FindSafety, WriteSafety, EndSafety, SafetyFails
  <2>2. DOMAIN files' \subseteq DOMAIN files \cup {restore.name}
    <3>1. CASE FindSafety \/ SafetyFails
      BY <3>1, CopyNames DEF FindSafety, SafetyFails, SetFiles
    <3>2. CASE WriteSafety
      BY <3>2, CopyNames DEF WriteSafety
    <3>3. CASE EndSafety
      BY <3>3, CopyNames DEF EndSafety
    <3> QED
      BY <1>5, <3>1, <3>2, <3>3
  <2> QED
    BY <1>1, <1>2, <2>1, <2>2, NoneWritten
<1>6. CASE \/ Migrate \/ MigrationFails \/ Stop \/ Install \/ MoveAside
           \/ (\E f \in DOMAIN files : BeginRestore(f)) \/ RemoveSidecars \/ Place \/ PlaceFails
  <2>1. files' = files
    BY <1>6 DEF Migrate, MigrationFails, Stop, Install, MoveAside, BeginRestore,
       RemoveSidecars, Place, PlaceFails
  <2> QED
    BY <1>1, <1>2, <1>3, <2>1, NoneWritten
<1> QED
  BY <1>4, <1>5, <1>6

\* Steps that leave the copies alone, and time.
LEMMA WritesKeepSnaps ==
  ASSUME AnsweredInv, [Next]_vars, Write \/ Tick \/ UNCHANGED vars
  PROVE  Snaps'
<1>1. UNCHANGED <<files, snap>> /\ (clock' = clock \/ clock' = clock + 1) /\ clock \in Nat
  BY DEF Write, Tick, vars, AnsweredInv, KeptInv, Names
<1>2. Dated(DOMAIN files, clock)'
  BY <1>1 DEF AnsweredInv, Snaps, Dated
<1>3. \A c \in Caller : Written(c)' <=> Written(c)
  BY <1>1 DEF Written, Later
<1> QED
  BY <1>1, <1>2, <1>3, LeftStays DEF AnsweredInv, Snaps

\* A snapshot that finds its file prunes beside one that is written.
LEMMA FindKeepsSnaps ==
  ASSUME AnsweredInv, [Next]_vars, NEW c \in Caller, FindSnapshot(c)
  PROVE  Snaps'
<1>1. UNCHANGED <<clock, snap>> /\ clock \in Nat
  BY DEF FindSnapshot, AnsweredInv, KeptInv, Names
<1>2. DOMAIN files' = DOMAIN files \ Removed(DOMAIN files)
  <2>1. files' = Pruned(files, "kadran", SnapshotKeep)
    BY DEF FindSnapshot, SetFiles
  <2> QED
    BY <2>1, PrunedNames
<1>3. Dated(DOMAIN files, clock)
  BY DEF AnsweredInv, Snaps
<1>4. Dated(DOMAIN files, clock)'
  <2>1. DOMAIN files' \subseteq DOMAIN files \cup {SnapshotName}
    BY <1>2
  <2>2. SnapshotName[2] = clock
    BY DEF SnapshotName
  <2>3. Dated(DOMAIN files', clock)
    BY <1>1, <1>3, <2>1, <2>2, DatedStay
  <2> QED
    BY <1>1, <2>3 DEF Dated
<1>5. ASSUME NEW d \in Caller, snap[d].step = "writing"
      PROVE  Written(d)'
  <2> DEFINE x == snap[d].name[2]
  <2>1. x \in Nat /\ snap[d].name[1] = "kadran" /\ Written(d)
    BY <1>5 DEF AnsweredInv, Snaps, KeptInv, Names
  <2>2. CASE Cardinality(Later(DOMAIN files, x)) >= SnapshotKeep
    <3>1. Cardinality(Later(DOMAIN files \ Removed(DOMAIN files), x)) >= SnapshotKeep
      <4> HIDE DEF x
      <4> QED
        BY <1>3, <2>1, <2>2, NewestStay
    <3> QED
      BY <1>1, <1>2, <3>1 DEF Written, Later
  <2>3. CASE ~(Cardinality(Later(DOMAIN files, x)) >= SnapshotKeep)
    <3>1. snap[d].name \in DOMAIN files /\ snap[d].name \notin Removed(DOMAIN files)
      BY <2>1, <2>3 DEF Written, Removed
    <3> QED
      BY <1>1, <1>2, <3>1 DEF Written
  <2> QED
    BY <2>2, <2>3
<1> QED
  BY <1>1, <1>4, <1>5, LeftStays DEF AnsweredInv, Snaps

LEMMA BeginKeepsSnaps ==
  ASSUME AnsweredInv, [Next]_vars, NEW c \in Caller, BeginSnapshot(c)
  PROVE  Snaps'
<1>1. UNCHANGED <<clock, files>> /\ clock \in Nat /\ DOMAIN snap = Caller
  BY DEF BeginSnapshot, AnsweredInv, KeptInv, Names
<1>2. /\ snap'[c].step = "waiting" /\ snap'[c].name[2] = clock
      /\ \A d \in Caller \ {c} : snap'[d] = snap[d]
  BY <1>1 DEF BeginSnapshot, Idle, SnapshotName
<1>3. Dated(DOMAIN files, clock)'
  BY <1>1 DEF AnsweredInv, Snaps, Dated
<1>4. \A d \in Caller \ {c} : Written(d)' <=> Written(d)
  BY <1>1, <1>2 DEF Written, Later
<1>5. \A d \in Caller : snap'[d].name[2] \in Nat /\ snap'[d].name[2] <= clock'
  BY <1>1, <1>2 DEF AnsweredInv, Snaps
<1> QED
  BY <1>2, <1>3, <1>4, <1>5, LeftStays DEF AnsweredInv, Snaps

\* One that begins to write has the only connection, and its file is there.
LEMMA WriteKeepsSnaps ==
  ASSUME AnsweredInv, [Next]_vars, NEW c \in Caller, WriteSnapshot(c)
  PROVE  Snaps'
<1>1. UNCHANGED clock /\ clock \in Nat /\ DOMAIN snap = Caller
  BY DEF WriteSnapshot, AnsweredInv, KeptInv, Names
<1>2. \A d \in Caller : snap[d].step # "writing"
  BY DEF WriteSnapshot, Busy
<1>3. /\ \A d \in Caller \ {c} : snap'[d] = snap[d]
      /\ snap'[c].name = snap[c].name \/ snap'[c].name[2] = 0
      /\ snap'[c].step = "writing" => snap'[c].name = snap[c].name /\ snap[c].name \in DOMAIN files'
  <2>1. CASE snap[c].name \in DOMAIN files
    BY <1>1, <2>1 DEF WriteSnapshot, Idle
  <2>2. CASE snap[c].name \notin DOMAIN files
    <3>1. snap' = [snap EXCEPT ![c].step = "writing"] /\ files' = With(snap[c].name, Partial)
      BY <2>2 DEF WriteSnapshot
    <3>2. {"step", "name"} \subseteq DOMAIN snap[c]
      BY DEF AnsweredInv, KeptInv, Names
    <3> QED
      BY <1>1, <3>1, <3>2, CopyNames
  <2> QED
    BY <2>1, <2>2
<1>4. DOMAIN files' \subseteq DOMAIN files \cup {snap[c].name}
  <2>1. CASE snap[c].name \in DOMAIN files
    BY <2>1 DEF WriteSnapshot
  <2>2. CASE snap[c].name \notin DOMAIN files
    <3>1. files' = With(snap[c].name, Partial)
      BY <2>2 DEF WriteSnapshot
    <3>2. DOMAIN With(snap[c].name, Partial) = DOMAIN files \cup {snap[c].name}
      BY CopyNames
    <3> QED
      BY <3>1, <3>2
  <2> QED
    BY <2>1, <2>2
<1>5. Dated(DOMAIN files, clock)'
  <2>1. snap[c].name[2] \in Nat /\ snap[c].name[2] <= clock /\ Dated(DOMAIN files, clock)
    BY DEF AnsweredInv, Snaps
  <2>2. Dated(DOMAIN files', clock)
    BY <1>1, <1>4, <2>1, DatedStay
  <2> QED
    BY <1>1, <2>2 DEF Dated
<1>6. \A d \in Caller : snap'[d].name[2] \in Nat /\ snap'[d].name[2] <= clock'
  BY <1>1, <1>3 DEF AnsweredInv, Snaps
<1>7. \A d \in Caller : snap'[d].step = "writing" => d = c /\ Written(d)'
  BY <1>2, <1>3 DEF Written
<1> QED
  BY <1>5, <1>6, <1>7, LeftStays DEF Snaps

LEMMA EndKeepsSnaps ==
  ASSUME AnsweredInv, [Next]_vars, NEW c \in Caller, EndSnapshot(c) \/ SnapshotFails(c)
  PROVE  Snaps'
<1>1. UNCHANGED clock /\ clock \in Nat /\ DOMAIN snap = Caller /\ snap' = [snap EXCEPT ![c] = Idle]
  BY DEF EndSnapshot, SnapshotFails, AnsweredInv, KeptInv, Names
<1>2. \A d \in Caller : /\ snap'[d].step # "writing"
                        /\ snap'[d].name = snap[d].name \/ snap'[d].name[2] = 0
  BY <1>1 DEF EndSnapshot, SnapshotFails, AnsweredInv, Snaps, Idle
<1>3. DOMAIN files' \subseteq DOMAIN files \cup {snap[c].name}
  <2>1. CASE EndSnapshot(c)
    <3>1. files' = Pruned(With(snap[c].name, Database), "kadran", SnapshotKeep)
      BY <2>1 DEF EndSnapshot, SetFiles
    <3> QED
      BY <3>1, PrunedCopyNames
  <2>2. CASE SnapshotFails(c)
    BY <2>2, CopyNames DEF SnapshotFails, SetFiles
  <2> QED
    BY <2>1, <2>2
<1>4. Dated(DOMAIN files, clock)'
  <2>1. snap[c].name[2] \in Nat /\ snap[c].name[2] <= clock /\ Dated(DOMAIN files, clock)
    BY DEF AnsweredInv, Snaps
  <2>2. Dated(DOMAIN files', clock)
    BY <1>1, <1>3, <2>1, DatedStay
  <2> QED
    BY <1>1, <2>2 DEF Dated
<1>5. \A d \in Caller : snap'[d].name[2] \in Nat /\ snap'[d].name[2] <= clock'
  BY <1>1, <1>2 DEF AnsweredInv, Snaps
<1> QED
  BY <1>2, <1>4, <1>5, LeftStays DEF Snaps

-----------------------------------------------------------------------------
(* Which copies are whole. *)

LEMMA WholeInit == Init => Whole
<1> SUFFICES ASSUME Init PROVE Whole
  OBVIOUS
<1>1. DOMAIN files = {} /\ daemon = "down" /\ \A c \in Caller : snap[c].step = "idle"
  BY DEF Init, Idle
<1> QED
  BY <1>1 DEF Whole, Accounted

\* The steps that write no snapshot.
Elsewhere ==
  \/ \E c \in Caller : FindSnapshot(c) \/ BeginSnapshot(c)
  \/ Start \/ CopyDone \/ CopyFails \/ Migrate \/ MigrationFails
  \/ Write \/ Stop \/ Install \/ MoveAside \/ (\E f \in DOMAIN files : BeginRestore(f))
  \/ FindSafety \/ WriteSafety \/ EndSafety \/ SafetyFails \/ RemoveSidecars
  \/ Place \/ PlaceFails \/ Crash \/ PowerLoss \/ Tick \/ UNCHANGED vars

LeftAlone(f) == f \in DOMAIN files /\ files'[f] = files[f]
Spoiled(f) == f \in broken' /\ files'[f] = Partial

\* They leave the timed copies as they are; a power loss spoils some.
LEMMA ElsewhereFiles ==
  ASSUME KeptInv, Elsewhere, NEW f \in DOMAIN files', Timed(f)
  PROVE  LeftAlone(f) \/ Spoiled(f)
<1>1. CASE UNCHANGED files
  BY <1>1 DEF LeftAlone
<1>2. ASSUME NEW c \in Caller, FindSnapshot(c)
      PROVE  LeftAlone(f)
  BY <1>2 DEF FindSnapshot, SetFiles, Pruned, Restrict, LeftAlone
<1>3. CASE Start \/ CopyDone \/ CopyFails
  <2>1. f # PreName
    BY DEF Timed, PreName
  <2>2. CASE Start
    BY <2>1, <2>2 DEF Start, With, LeftAlone
  <2>3. CASE CopyDone
    BY <2>1, <2>3 DEF CopyDone, SetFiles, Pruned, Restrict, With, LeftAlone
  <2>4. CASE CopyFails
    BY <2>1, <2>4 DEF CopyFails, SetFiles, Without, Restrict, LeftAlone
  <2> QED
    BY <1>3, <2>2, <2>3, <2>4
<1>4. CASE WriteSafety \/ EndSafety \/ SafetyFails
  <2>1. f # restore.name
    BY <1>4 DEF Timed, KeptInv, Running, Safety, WriteSafety, EndSafety, SafetyFails
  <2>2. CASE WriteSafety
    BY <2>1, <2>2 DEF WriteSafety, With, LeftAlone
  <2>3. CASE EndSafety
    BY <2>1, <2>3 DEF EndSafety, With, LeftAlone
  <2>4. CASE SafetyFails
    BY <2>1, <2>4 DEF SafetyFails, SetFiles, Without, Restrict, LeftAlone
  <2> QED
    BY <1>4, <2>2, <2>3, <2>4
<1>5. CASE PowerLoss
  <2>1. PICK gone \in SUBSET loose :
          /\ files' = [g \in DOMAIN files |-> IF g \in gone THEN Partial ELSE files[g]]
          /\ broken' = broken \cup Unfinished \cup gone
    BY <1>5 DEF PowerLoss
  <2> QED
    BY <2>1 DEF LeftAlone, Spoiled
<1> QED
  BY <1>1, <1>2, <1>3, <1>4, <1>5 DEF Elsewhere, vars, BeginSnapshot, Migrate, MigrationFails, Write,
     Stop, Install, MoveAside, BeginRestore, FindSafety, RemoveSidecars, Place, PlaceFails, Crash, Tick

\* They go on with what is being written, or it is known to be broken.
LEMMA ElsewhereWriters ==
  ASSUME KeptInv, Elsewhere
  PROVE  /\ broken \subseteq broken'
         /\ \A c \in Caller : snap[c].step = "writing" => snap'[c] = snap[c] \/ snap[c].name \in broken'
         /\ \A c \in Caller : snap'[c].step = "writing" => snap'[c] = snap[c]
<1>1. CASE Crash \/ PowerLoss
  <2>1. broken \subseteq broken' /\ Unfinished \subseteq broken' /\ \A c \in Caller : snap'[c] = Idle
    BY <1>1 DEF Crash, PowerLoss, Die
  <2>2. \A c \in Caller : snap[c].step = "writing" => snap[c].name \in Unfinished
    BY DEF Unfinished
  <2> QED
    BY <2>1, <2>2 DEF Idle
<1>2. ASSUME NEW c \in Caller, BeginSnapshot(c)
      PROVE  /\ broken' = broken
             /\ \A d \in Caller : snap[d].step = "writing" => snap'[d] = snap[d]
             /\ \A d \in Caller : snap'[d].step = "writing" => snap'[d] = snap[d]
  <2>1. /\ broken' = broken /\ snap[c].step = "idle" /\ DOMAIN snap = Caller
        /\ snap' = [snap EXCEPT ![c] = [Idle EXCEPT !.step = "waiting", !.name = SnapshotName]]
    BY <1>2 DEF BeginSnapshot, KeptInv, Names
  <2>2. snap'[c].step = "waiting" /\ \A d \in Caller \ {c} : snap'[d] = snap[d]
    BY <2>1 DEF Idle
  <2> QED
    BY <2>1, <2>2
<1>3. CASE ~(Crash \/ PowerLoss \/ \E c \in Caller : BeginSnapshot(c))
  <2>1. snap' = snap
    BY <1>3 DEF Elsewhere, vars, FindSnapshot, Start, CopyDone, CopyFails, Migrate, MigrationFails,
       Write, Stop, Install, MoveAside, BeginRestore, FindSafety, WriteSafety, EndSafety, SafetyFails,
       RemoveSidecars, Place, PlaceFails, Tick
  <2>2. broken \subseteq broken'
    BY <1>3 DEF Elsewhere, vars, FindSnapshot, Start, CopyDone, CopyFails, Migrate, MigrationFails,
       Write, Stop, Install, MoveAside, BeginRestore, FindSafety, WriteSafety, EndSafety, SafetyFails,
       RemoveSidecars, Place, PlaceFails, Tick
  <2> QED
    BY <2>1, <2>2
<1> QED
  BY <1>1, <1>2, <1>3

LEMMA ElsewhereAccounts ==
  ASSUME AnsweredInv, Elsewhere
  PROVE  Accounted'
<1>1. ASSUME NEW f \in DOMAIN files', Timed(f), files'[f] = Partial
      PROVE  f \in broken' \/ BeingWritten(f)'
  <2>1. CASE Spoiled(f)
    BY <2>1 DEF Spoiled
  <2>2. CASE LeftAlone(f)
    <3>1. f \in broken \/ BeingWritten(f)
      BY <1>1, <2>2 DEF AnsweredInv, Whole, Accounted, LeftAlone
    <3>2. CASE f \in broken
      BY <3>2, ElsewhereWriters DEF AnsweredInv
    <3>3. CASE BeingWritten(f)
      BY <3>3, ElsewhereWriters DEF AnsweredInv, BeingWritten
    <3> QED
      BY <3>1, <3>2, <3>3
  <2> QED
    BY <1>1, <2>1, <2>2, ElsewhereFiles DEF AnsweredInv
<1>2. ASSUME NEW c \in Caller, snap'[c].step = "writing", snap'[c].name \in DOMAIN files'
      PROVE  files'[snap'[c].name] = Partial
  <2>1. snap'[c] = snap[c]
    BY <1>2, ElsewhereWriters DEF AnsweredInv
  <2>2. Timed(snap[c].name)
    BY DEF AnsweredInv, KeptInv, Names, Timed
  <2>3. LeftAlone(snap[c].name) \/ Spoiled(snap[c].name)
    BY <1>2, <2>1, <2>2, ElsewhereFiles DEF AnsweredInv
  <2> QED
    BY <1>2, <2>1, <2>3 DEF AnsweredInv, Whole, Accounted, LeftAlone, Spoiled
<1> QED
  BY <1>1, <1>2 DEF Accounted, Timed

\* One call writes at a time: what it leaves when it ends is whole, or known to be broken.
LEMMA WriterAccounts ==
  ASSUME AnsweredInv, NEW c \in Caller, WriteSnapshot(c) \/ EndSnapshot(c) \/ SnapshotFails(c)
  PROVE  Accounted'
<1> DEFINE new == snap[c].name
<1>1. /\ DOMAIN snap = Caller /\ \A d \in Caller : {"step", "name"} \subseteq DOMAIN snap[d]
      /\ Timed(new)
  BY DEF AnsweredInv, KeptInv, Names, Timed
<1>2. CASE WriteSnapshot(c)
  <2>1. /\ \A d \in Caller : snap[d].step # "writing"
        /\ broken' = broken
    BY <1>2 DEF WriteSnapshot, Busy
  <2>2. \A f \in DOMAIN files : Timed(f) /\ files[f] = Partial => f \in broken
    BY <2>1 DEF AnsweredInv, Whole, Accounted, BeingWritten
  <2>3. CASE new \in DOMAIN files
    <3>1. files' = files /\ \A d \in Caller : snap'[d].step # "writing"
      BY <1>1, <1>2, <2>1, <2>3 DEF WriteSnapshot, Idle
    <3> QED
      BY <2>1, <2>2, <3>1 DEF Accounted, Timed
  <2>4. CASE new \notin DOMAIN files
    <3>1. files' = With(new, Partial) /\ snap' = [snap EXCEPT ![c].step = "writing"]
      BY <1>2, <2>4 DEF WriteSnapshot
    <3>2. /\ snap'[c].step = "writing" /\ snap'[c].name = new
          /\ \A d \in Caller \ {c} : snap'[d] = snap[d]
      BY <1>1, <3>1
    <3>3. /\ files'[new] = Partial
          /\ \A f \in DOMAIN files' : f # new => f \in DOMAIN files /\ files'[f] = files[f]
      BY <3>1 DEF With
    <3>4. \A f \in DOMAIN files' : Timed(f) /\ files'[f] = Partial => f \in broken' \/ BeingWritten(f)'
      BY <2>1, <2>2, <3>2, <3>3 DEF BeingWritten
    <3>5. \A d \in Caller : snap'[d].step = "writing" => files'[snap'[d].name] = Partial
      BY <2>1, <3>2, <3>3
    <3> QED
      BY <3>4, <3>5 DEF Accounted, Timed
  <2> QED
    BY <2>3, <2>4
<1>3. CASE EndSnapshot(c) \/ SnapshotFails(c)
  <2>1. /\ snap[c].step = "writing" /\ snap' = [snap EXCEPT ![c] = Idle]
        /\ broken \subseteq broken'
    BY <1>3 DEF EndSnapshot, SnapshotFails
  <2>2. \A d \in Caller : snap'[d].step # "writing"
    BY <1>1, <2>1 DEF AnsweredInv, Snaps, Idle
  <2>3. \A f : BeingWritten(f) => f = new
    BY <2>1 DEF BeingWritten, AnsweredInv, Snaps
  <2>4. \A f \in DOMAIN files' :
          \/ f # new /\ f \in DOMAIN files /\ files'[f] = files[f]
          \/ f = new /\ (files'[f] # Partial \/ f \in broken')
    <3>1. CASE EndSnapshot(c)
      <4>1. files' = Pruned(With(new, Database), "kadran", SnapshotKeep)
        BY <3>1 DEF EndSnapshot, SetFiles
      <4>2. \A f \in DOMAIN files' : files'[f] = With(new, Database)[f] /\ f \in DOMAIN files \cup {new}
        BY <4>1 DEF Pruned, Restrict, With
      <4>3. Database # Partial
        BY DatabaseRead, NotContent, NotPartial DEF AnsweredInv, KeptInv, BackupInv
      <4>4. With(new, Database)[new] = Database
        BY DEF With
      <4>5. \A f \in DOMAIN files : f # new => With(new, Database)[f] = files[f]
        BY DEF With
      <4> QED
        BY <4>2, <4>3, <4>4, <4>5
    <3>2. CASE SnapshotFails(c)
      BY <3>2 DEF SnapshotFails, SetFiles, Without, Restrict
    <3> QED
      BY <1>3, <3>1, <3>2
  <2>5. \A f \in DOMAIN files' : Timed(f) /\ files'[f] = Partial => f \in broken'
    BY <2>1, <2>3, <2>4 DEF AnsweredInv, Whole, Accounted
  <2> QED
    BY <2>2, <2>5 DEF Accounted, Timed
<1> QED
  BY <1>2, <1>3

\* The copy before a migration has its name from the start, and nothing prunes meanwhile.
LEMMA CopyHasName ==
  ASSUME AnsweredInv, [Next]_vars, daemon' = "copying"
  PROVE  PreName' \in DOMAIN files'
<1>1. CASE Start
  <2>1. main # NoFile /\ files' = With(PreName, Partial) /\ UNCHANGED <<main, wal>>
    BY <1>1 DEF Start, Fresh
  <2>2. PreName' = PreName
    BY <2>1 DEF PreName, Database
  <2> QED
    BY <2>1, <2>2 DEF With
<1>2. CASE ~Start
  <2>1. /\ daemon = "copying" => restore.step = "idle"
        /\ \A c \in Caller : snap[c].step # "idle" => daemon = "up"
    BY DEF AnsweredInv, KeptInv, BackupInv, Owned, Names
  <2>2. ~(\E c \in Caller : \/ FindSnapshot(c) \/ BeginSnapshot(c) \/ WriteSnapshot(c)
                            \/ EndSnapshot(c) \/ SnapshotFails(c))
    BY <2>1 DEF FindSnapshot, BeginSnapshot, WriteSnapshot, EndSnapshot, SnapshotFails
  <2>3. ~(CopyDone \/ CopyFails \/ Migrate \/ MigrationFails \/ Write \/ Stop \/ Install \/ MoveAside)
    BY DEF CopyDone, CopyFails, Migrate, MigrationFails, Write, Stop, Install, MoveAside
  <2>4. ~(\/ \E f \in DOMAIN files : BeginRestore(f)
          \/ FindSafety \/ WriteSafety \/ EndSafety \/ SafetyFails \/ RemoveSidecars
          \/ Place \/ PlaceFails)
    BY <2>1 DEF BeginRestore, FindSafety, WriteSafety, EndSafety, SafetyFails, RemoveSidecars,
       Place, PlaceFails
  <2>5. ~(Crash \/ PowerLoss)
    BY DEF Crash, PowerLoss, Die
  <2>6. Tick \/ UNCHANGED vars
    BY <1>2, <2>2, <2>3, <2>4, <2>5 DEF Next
  <2>7. UNCHANGED <<main, wal, files, daemon>>
    BY <2>6 DEF Tick, vars
  <2> QED
    BY <2>7 DEF AnsweredInv, Whole, PreName, Database
<1> QED
  BY <1>1, <1>2

LEMMA StepsAreTwo ==
  ASSUME [Next]_vars
  PROVE  \/ Elsewhere
         \/ \E c \in Caller : WriteSnapshot(c) \/ EndSnapshot(c) \/ SnapshotFails(c)
  BY DEF Next, Elsewhere

LEMMA WholeNext ==
  ASSUME AnsweredInv, [Next]_vars
  PROVE  Whole'
<1>1. Accounted'
  BY StepsAreTwo, ElsewhereAccounts, WriterAccounts
<1> QED
  BY <1>1, CopyHasName DEF Whole

LEMMA AnsweredInvNext == AnsweredInv /\ [Next]_vars => AnsweredInv'
<1> SUFFICES ASSUME AnsweredInv, [Next]_vars PROVE Snaps'
  BY KeptInvNext, WholeNext DEF AnsweredInv
<1>1. CASE \E c \in Caller : \/ FindSnapshot(c) \/ BeginSnapshot(c) \/ WriteSnapshot(c)
                             \/ EndSnapshot(c) \/ SnapshotFails(c)
  BY <1>1, FindKeepsSnaps, BeginKeepsSnaps, WriteKeepsSnaps, EndKeepsSnaps
<1>2. CASE Write \/ Tick \/ UNCHANGED vars
  BY <1>2, WritesKeepSnaps
<1>3. CASE \/ Start \/ Crash \/ PowerLoss \/ CopyDone \/ CopyFails \/ Migrate \/ MigrationFails \/ Stop
           \/ Install \/ MoveAside \/ (\E f \in DOMAIN files : BeginRestore(f))
           \/ FindSafety \/ WriteSafety \/ EndSafety \/ SafetyFails
           \/ RemoveSidecars \/ Place \/ PlaceFails
  BY <1>3, OthersKeepSnaps
<1> QED
  BY <1>1, <1>2, <1>3 DEF Next

\* The inductive invariant of snapshots: one is written at a time, what it writes is there
\* unless the newest SnapshotKeep have later names, and every other timed copy is whole or
\* known to be broken.
THEOREM SnapshotsCorrect == Spec => []AnsweredInv
<1>1. Init => AnsweredInv
  BY KeptInvInit, SnapsInit, WholeInit DEF AnsweredInv
<1> QED
  BY <1>1, AnsweredInvNext, PTL DEF Spec

-----------------------------------------------------------------------------
(* What a snapshot answers with. *)

\* What the end of a snapshot leaves, and what it removes.
LEMMA EndAnswers ==
  ASSUME AnsweredInv, NEW c \in Caller, EndSnapshot(c)
  PROVE  /\ \/ snap[c].name \in DOMAIN files' /\ files'[snap[c].name] = Database
            \/ Outdated(snap[c].name)
         /\ \A f \in DOMAIN files \ DOMAIN files' : Outdated(f)
<1> DEFINE new == snap[c].name
           names == DOMAIN files \cup {new}
<1>1. /\ new[1] = "kadran" /\ new[2] \in Nat /\ Dated(DOMAIN files, clock)
      /\ Written(c)
  BY DEF AnsweredInv, KeptInv, Names, Snaps, EndSnapshot
<1>2. files' = Pruned(With(new, Database), "kadran", SnapshotKeep)
  BY DEF EndSnapshot, SetFiles
<1>3. DOMAIN files' = names \ Removed(names)
  BY <1>2, PrunedNames, CopyNames
<1>4. \A f : f[1] = "kadran" => Newer(f) = Later(DOMAIN files, f[2])
  BY DEF Later, Newer
<1>5. new \in DOMAIN files' \/ Cardinality(Later(DOMAIN files, new[2])) >= SnapshotKeep
  <2>1. Later(names, new[2]) = Later(DOMAIN files, new[2])
    BY <1>1 DEF Later
  <2> QED
    BY <1>1, <1>3, <2>1 DEF Removed
<1>6. new \in DOMAIN files' => files'[new] = Database
  BY <1>2 DEF Pruned, Restrict, With
<1>7. ASSUME NEW f \in DOMAIN files \ DOMAIN files'
      PROVE  f[1] = "kadran" /\ Cardinality(Later(DOMAIN files, f[2])) >= SnapshotKeep
  <2>1. f[1] = "kadran" /\ f[2] \in Nat /\ Cardinality(Later(names, f[2])) >= SnapshotKeep
    BY <1>1, <1>3, <1>7 DEF Removed, Dated
  <2>2. CASE new \in DOMAIN files \/ ~(new[2] > f[2])
    <3>1. Later(names, f[2]) = Later(DOMAIN files, f[2])
      BY <2>2 DEF Later
    <3> QED
      BY <2>1, <3>1
  <2>3. CASE new \notin DOMAIN files /\ new[2] > f[2]
    <3>1. Cardinality(Later(DOMAIN files, new[2])) >= SnapshotKeep
      BY <1>1, <2>3 DEF Written
    <3>2. Later(DOMAIN files, new[2]) \subseteq Later(DOMAIN files, f[2])
      BY <1>1, <2>1, <2>3 DEF Later, Dated
    <3>3. /\ Cardinality(Later(DOMAIN files, new[2])) \in Nat
          /\ Cardinality(Later(DOMAIN files, f[2])) \in Nat
          /\ Cardinality(Later(DOMAIN files, new[2])) <= Cardinality(Later(DOMAIN files, f[2]))
      BY <1>1, <3>2, LaterFinite, FS_Subset DEF Dated
    <3> QED
      BY <2>1, <3>1, <3>3, BackupAssumption
  <2> QED
    BY <2>2, <2>3
<1> QED
  BY <1>1, <1>4, <1>5, <1>6, <1>7 DEF Outdated

\* A snapshot is answered by its end alone: every other step that stops one fails or dies.
LEMMA OnlyEndAnswers ==
  ASSUME AnsweredInv, [Next]_vars, NEW c \in Caller,
         snap[c].step = "writing", snap'[c].step = "idle", left' = left
  PROVE  EndSnapshot(c)
<1>1. ~SnapshotFails(c) /\ ~Crash /\ ~PowerLoss
  BY SpendLeft DEF AnsweredInv, Snaps, SnapshotFails, Crash, PowerLoss, Die
<1>2. \A d \in Caller : ~SnapshotFails(d)
  BY SpendLeft DEF AnsweredInv, Snaps, SnapshotFails
<1>3. snap' # snap
  OBVIOUS
<1>4. \E d \in Caller : BeginSnapshot(d) \/ WriteSnapshot(d) \/ EndSnapshot(d)
  BY <1>1, <1>2, <1>3 DEF Next, vars, FindSnapshot, Start, CopyDone, CopyFails, Migrate,
     MigrationFails, Write, Stop, Install, MoveAside, BeginRestore, FindSafety, WriteSafety,
     EndSafety, SafetyFails, RemoveSidecars, Place, PlaceFails, Tick
<1>5. PICK d \in Caller : BeginSnapshot(d) \/ WriteSnapshot(d) \/ EndSnapshot(d)
  BY <1>4
<1>6. d = c
  <2>1. \A e \in Caller \ {d} : snap'[e] = snap[e]
    <3>1. DOMAIN snap = Caller
      BY DEF AnsweredInv, KeptInv, Names
    <3>2. \E s : snap' = [snap EXCEPT ![d] = s]
      BY <1>5 DEF BeginSnapshot, WriteSnapshot, EndSnapshot
    <3> QED
      BY <3>1, <3>2
  <2> QED
    BY <2>1
<1> QED
  BY <1>5, <1>6 DEF BeginSnapshot, WriteSnapshot

\* A pruning removes what is outdated.
LEMMA SurplusIsOutdated ==
  ASSUME NEW fs, DOMAIN fs = DOMAIN files, NEW kind, NEW n,
         NEW f \in DOMAIN files \ DOMAIN Pruned(fs, kind, n)
  PROVE  f[1] = kind /\ Cardinality(Newer(f)) >= n
<1>1. f \in Surplus(fs, kind, n)
  BY DEF Pruned, Restrict
<1>2. f[1] = kind /\ Cardinality({g \in {h \in DOMAIN fs : h[1] = kind} : g[2] > f[2]}) >= n
  BY <1>1 DEF Surplus
<1>3. {g \in {h \in DOMAIN fs : h[1] = kind} : g[2] > f[2]} = Newer(f)
  BY <1>2 DEF Newer
<1> QED
  BY <1>2, <1>3

\* No step removes a copy that is neither outdated nor broken.
LEMMA RemovedAreOutdated ==
  ASSUME AnsweredInv, [Next]_vars, NEW f \in DOMAIN files \ DOMAIN files'
  PROVE  Outdated(f) \/ f \in broken'
<1>1. ASSUME NEW c \in Caller, FindSnapshot(c)
      PROVE  Outdated(f)
  <2>1. files' = Pruned(files, "kadran", SnapshotKeep)
    BY <1>1 DEF FindSnapshot, SetFiles
  <2> QED
    BY <2>1, SurplusIsOutdated DEF Outdated
<1>2. ASSUME NEW c \in Caller, EndSnapshot(c)
      PROVE  Outdated(f)
  BY <1>2, EndAnswers
<1>3. ASSUME NEW c \in Caller, SnapshotFails(c)
      PROVE  f \in broken'
  BY <1>3 DEF SnapshotFails, SetFiles, Without, Restrict
<1>4. CASE CopyDone
  <2>1. files' = Pruned(With(PreName, Database), "pre", BackupKeep) /\ daemon = "copying"
    BY <1>4 DEF CopyDone, SetFiles
  <2>2. DOMAIN With(PreName, Database) = DOMAIN files
    BY <2>1 DEF AnsweredInv, Whole, With
  <2>3. f[1] = "pre" /\ Cardinality(Newer(f)) >= BackupKeep
    BY <2>1, <2>2, SurplusIsOutdated
  <2> QED
    BY <2>3 DEF Outdated
<1>5. CASE CopyFails \/ SafetyFails
  BY <1>5 DEF CopyFails, SafetyFails, SetFiles, Without, Restrict
<1>6. CASE Start \/ WriteSafety \/ EndSafety \/ PowerLoss \/ \E c \in Caller : WriteSnapshot(c)
  <2>1. DOMAIN files \subseteq DOMAIN files'
    <3>1. CASE Start
      BY <3>1 DEF Start, With
    <3>2. CASE WriteSafety \/ EndSafety
      BY <3>2 DEF WriteSafety, EndSafety, With
    <3>3. CASE PowerLoss
      BY <3>3 DEF PowerLoss
    <3>4. CASE \E c \in Caller : WriteSnapshot(c)
      BY <3>4 DEF WriteSnapshot, With
    <3> QED
      BY <1>6, <3>1, <3>2, <3>3, <3>4
  <2> QED
    BY <2>1
<1>7. CASE \/ \E c \in Caller : BeginSnapshot(c)
           \/ Migrate \/ MigrationFails \/ Write \/ Stop \/ Install \/ MoveAside
           \/ \E g \in DOMAIN files : BeginRestore(g)
           \/ FindSafety \/ RemoveSidecars \/ Place \/ PlaceFails \/ Crash \/ Tick \/ UNCHANGED vars
  BY <1>7 DEF vars, BeginSnapshot, Migrate, MigrationFails, Write, Stop, Install, MoveAside, BeginRestore,
     FindSafety, RemoveSidecars, Place, PlaceFails, Crash, Tick
<1> QED
  BY <1>1, <1>2, <1>3, <1>4, <1>5, <1>6, <1>7 DEF Next

\* Nothing is written over a whole timed copy.
LEMMA WholeCopiesStay ==
  ASSUME AnsweredInv, [Next]_vars, NEW f \in DOMAIN files \cap DOMAIN files',
         Timed(f), files[f] # Partial
  PROVE  files'[f] = files[f] \/ f \in broken'
<1>1. CASE Elsewhere
  BY <1>1, ElsewhereFiles DEF AnsweredInv, LeftAlone, Spoiled
<1>2. ASSUME NEW c \in Caller, WriteSnapshot(c)
      PROVE  files'[f] = files[f]
  BY <1>2 DEF WriteSnapshot, With
<1>3. ASSUME NEW c \in Caller, EndSnapshot(c)
      PROVE  files'[f] = files[f]
  <2>1. f # snap[c].name
    BY <1>3 DEF EndSnapshot, AnsweredInv, Whole, Accounted
  <2> QED
    BY <1>3, <2>1 DEF EndSnapshot, SetFiles, Pruned, Restrict, With
<1>4. ASSUME NEW c \in Caller, SnapshotFails(c)
      PROVE  files'[f] = files[f]
  BY <1>4 DEF SnapshotFails, SetFiles, Without, Restrict
<1> QED
  BY <1>1, <1>2, <1>3, <1>4, StepsAreTwo

Answers ==
  /\ \A f \in DOMAIN files' : Timed(f) /\ files'[f] = Partial => f \in broken' \/ BeingWritten(f)'
  /\ \A c \in Caller : snap[c].step = "writing" /\ snap'[c].step = "idle" /\ left' = left =>
       \/ snap[c].name \in DOMAIN files' /\ files'[snap[c].name] = Database
       \/ Outdated(snap[c].name)
  /\ \A f \in DOMAIN files \cap DOMAIN files' :
       Timed(f) /\ files[f] # Partial => files'[f] = files[f] \/ f \in broken'
  /\ \A f \in DOMAIN files \ DOMAIN files' : Outdated(f) \/ f \in broken'

\* A file that a call of Snapshot may answer with, found or written, is whole unless it is
\* being written or a copy that failed left it; what a call wrote holds the database and
\* nothing is written over it; and it stays until the newest SnapshotKeep have later names,
\* for any number of callers and copies kept (snapshot.go:31-38, :99-102, :150-155).
THEOREM AnswersStay == Spec => AnsweredBackupsStay
<1>1. AnsweredInv /\ [Next]_vars => Answers
  <2> SUFFICES ASSUME AnsweredInv, [Next]_vars PROVE Answers
    OBVIOUS
  <2>1. \A f \in DOMAIN files' : Timed(f) /\ files'[f] = Partial => f \in broken' \/ BeingWritten(f)'
    BY WholeNext DEF Whole, Accounted, Timed
  <2>2. \A c \in Caller : snap[c].step = "writing" /\ snap'[c].step = "idle" /\ left' = left =>
          \/ snap[c].name \in DOMAIN files' /\ files'[snap[c].name] = Database
          \/ Outdated(snap[c].name)
    BY OnlyEndAnswers, EndAnswers
  <2> QED
    BY <2>1, <2>2, WholeCopiesStay, RemovedAreOutdated DEF Answers
<1>2. Spec => [][Answers]_vars
  BY <1>1, SnapshotsCorrect, PTL DEF Spec
<1> QED
  BY <1>2 DEF Answers, AnsweredBackupsStay
=============================================================================
