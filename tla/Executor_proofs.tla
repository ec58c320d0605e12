--------------------------- MODULE Executor_proofs ---------------------------
(***************************************************************************)
(* For any callers, requests and failures: the part of the journal's file  *)
(* that is on disk and verifies implements an audit log; what the executor *)
(* has in memory is the last record of its file; and what kadrand is told  *)
(* of an operation or of the chain is what happened.                       *)
(***************************************************************************)
EXTENDS Executor, TLAPS, SequenceTheorems, FiniteSetTheorems

\* The file is a sequence of lines, the first of which are on disk.
FileInv ==
  /\ \E S : file \in Seq(S)
  /\ durable \in 0..Len(file)

\* A step leaves the lines that are on disk there, as they are.
Keeps ==
  /\ FileInv'
  /\ durable' >= durable
  /\ \A i \in 1..durable : file'[i] = file[i]

LEMMA FileInvInit == Init => FileInv
  BY DEF Init, FileInv

\* A write adds a line at the end, or to a line that was left torn.
LEMMA WithLineExtends ==
  ASSUME NEW S, NEW lines \in Seq(S), NEW line
  PROVE  /\ \E T : WithLine(lines, line) \in Seq(T)
         /\ Len(WithLine(lines, line)) \in Nat /\ Len(lines) \in Nat
         /\ Len(WithLine(lines, line)) >= Len(lines)
         /\ \A i \in 1..Len(lines) : WithLine(lines, line)[i] = lines[i]
<1> DEFINE T == S \cup {line}
<1>1. lines \in Seq(T)
  BY SeqDef
<1>2. Append(lines, line) \in Seq(T)
  BY <1>1
<1>3. /\ Len(Append(lines, line)) = Len(lines) + 1 /\ Len(lines) \in Nat
      /\ \A i \in 1..Len(lines) : Append(lines, line)[i] = lines[i]
  BY <1>1
<1> HIDE DEF T
<1> QED
  BY <1>1, <1>2, <1>3 DEF WithLine

LEMMA WriteKeeps ==
  ASSUME FileInv, NEW line, file' = WithLine(file, line), durable' = durable
  PROVE  Keeps
<1>1. PICK S : file \in Seq(S)
  BY DEF FileInv
<1> QED
  BY <1>1, WithLineExtends DEF FileInv, Keeps

LEMMA SyncKeeps ==
  ASSUME FileInv, file' = file, durable' = Len(file)
  PROVE  Keeps
<1>1. PICK S : file \in Seq(S)
  BY DEF FileInv
<1>2. Len(file) \in Nat
  BY <1>1
<1> QED
  BY <1>1, <1>2 DEF FileInv, Keeps

\* What a power loss leaves: all that is on disk, and perhaps some more.
LEMMA LossKeeps ==
  ASSUME FileInv, PowerLoss
  PROVE  Keeps
<1>1. PICK S : file \in Seq(S)
  BY DEF FileInv
<1>2. PICK k \in durable..Len(file) :
         /\ durable' = k
         /\ \/ file' = SubSeq(file, 1, k)
            \/ k < Len(file) /\ file' = Append(SubSeq(file, 1, k), Torn)
  BY DEF PowerLoss
<1>3. Len(file) \in Nat /\ durable \in Nat /\ k \in Nat /\ durable <= k /\ k <= Len(file)
  BY <1>1, <1>2 DEF FileInv
<1> DEFINE T == S \cup {Torn}
           part == SubSeq(file, 1, k)
<1>4. file \in Seq(T)
  BY <1>1, SeqDef
<1>5. /\ part \in Seq(T) /\ Len(part) = k
      /\ \A i \in 1..k : part[i] = file[i]
  BY <1>3, <1>4
<1>6. /\ Append(part, Torn) \in Seq(T) /\ Len(Append(part, Torn)) = k + 1
      /\ \A i \in 1..k : Append(part, Torn)[i] = part[i]
  BY <1>3, <1>5
<1>7. file' = part \/ file' = Append(part, Torn)
  BY <1>2
<1> HIDE DEF T, part
<1>8. /\ file' \in Seq(T) /\ Len(file') \in Nat /\ Len(file') >= k
      /\ \A i \in 1..k : file'[i] = file[i]
  <2>1. CASE file' = part
    BY <1>3, <1>5, <2>1
  <2>2. CASE file' = Append(part, Torn)
    BY <1>3, <1>5, <1>6, <2>2
  <2> QED
    BY <1>7, <2>1, <2>2
<1>9. FileInv'
  BY <1>2, <1>3, <1>8 DEF FileInv
<1> QED
  BY <1>2, <1>3, <1>8, <1>9 DEF Keeps

\* What is left of the steps does not touch the file.
LEMMA StepKeeps ==
  ASSUME FileInv, [Next]_vars
  PROVE  Keeps
<1>0. (file' = file /\ durable' = durable) => Keeps
  BY DEF Keeps, FileInv
<1>1. ASSUME NEW c \in Caller, AppendWrite(c)
      PROVE  Keeps
  BY <1>1, WriteKeeps DEF AppendWrite
<1>2. ASSUME NEW c \in Caller, AppendSync(c)
      PROVE  Keeps
  BY <1>2, SyncKeeps DEF AppendSync
<1>3. ASSUME NEW c \in Caller, WriteFails(c)
      PROVE  Keeps
  BY <1>0, <1>3, WriteKeeps DEF WriteFails
<1>4. CASE PowerLoss
  BY <1>4, LossKeeps
<1>5. ASSUME NEW c \in Caller,
             \/ SyncFails(c) \/ CallFails(c) \/ BuildUnsent(c) \/ Deny(c) \/ BeginAudit(c)
             \/ \E op \in Op : \E sel \in Selectors(op) : Arrive(c, op, sel)
             \/ Unreachable(c) \/ MakeDir(c) \/ ChownDir(c) \/ Create(c)
             \/ List(c) \/ Each(c) \/ EachDone(c) \/ NetworkEnsure(c) \/ Probe(c)
             \/ BuildFrame(c) \/ BuildEnds(c) \/ AuditPage(c)
      PROVE  Keeps
  <2>1. file' = file /\ durable' = durable
    BY <1>5 DEF SyncFails, CallFails, BuildUnsent, Deny, BeginAudit, Arrive, Unreachable,
                MakeDir, ChownDir, Create, List, Each, EachDone, NetworkEnsure, Probe,
                BuildFrame, BuildEnds, AuditPage, journalVars
  <2> QED
    BY <1>0, <2>1
<1>6. CASE Kill \/ Restart \/ DockerStops \/ DockerStarts \/ UNCHANGED vars
  BY <1>0, <1>6 DEF Kill, Restart, DockerStops, DockerStarts, vars, journalVars
<1> QED
  BY <1>1, <1>2, <1>3, <1>4, <1>5, <1>6 DEF Next, Advance

THEOREM JournalFileCorrect == Spec => []FileInv
<1>1. FileInv /\ [Next]_vars => FileInv'
  BY StepKeeps DEF Keeps
<1> QED
  BY <1>1, FileInvInit, PTL DEF Spec

-----------------------------------------------------------------------------
(* The refinement. *)

\* What verifies begins the file, and is chained.
LEMMA ProperIsChained ==
  ASSUME NEW lines, NEW top \in Nat
  PROVE  Log!Chained([i \in {n \in 1..top : Verifies(lines, n)} |-> lines[i]])
<1> DEFINE part == [i \in {n \in 1..top : Verifies(lines, n)} |-> lines[i]]
<1>1. ASSUME NEW i \in DOMAIN part
      PROVE  /\ i > 1 => i - 1 \in DOMAIN part
             /\ Log!Fits(part[i], i, IF i = 1 THEN Zero ELSE part[i - 1])
  <2>1. i \in 1..top /\ Verifies(lines, i) /\ part[i] = lines[i]
    BY <1>1
  <2>2. i > 1 => i - 1 \in 1..top /\ Verifies(lines, i - 1)
    BY <2>1 DEF Verifies
  <2>3. i > 1 => i - 1 \in DOMAIN part /\ part[i - 1] = lines[i - 1]
    BY <2>2
  <2>4. Link(lines[i], i, IF i = 1 THEN Zero ELSE lines[i - 1])
    BY <2>1 DEF Verifies
  <2> HIDE DEF part
  <2> QED
    BY <2>1, <2>3, <2>4 DEF Log!Fits, Link
<1> HIDE DEF part
<1>2. Log!Chained(part)
  BY <1>1 DEF Log!Chained
<1> QED
  BY <1>2 DEF part

LEMMA ProperGrows ==
  ASSUME FileInv, Keeps
  PROVE  [Log!Grow]_Proper
<1>1. durable \in Nat /\ durable' \in Nat /\ durable <= durable'
  BY DEF FileInv, Keeps
<1>2. Log!Chained(Proper')
  BY <1>1, ProperIsChained DEF Proper
<1>3. ASSUME NEW i \in DOMAIN Proper
      PROVE  i \in DOMAIN Proper' /\ Proper'[i] = Proper[i]
  <2>1. i \in 1..durable /\ Verifies(file, i) /\ Proper[i] = file[i]
    BY <1>3 DEF Proper
  <2>2. \A j \in 1..i : file'[j] = file[j] /\ (j > 1 => file'[j - 1] = file[j - 1])
    BY <1>1, <2>1 DEF Keeps
  <2>3. i \in 1..durable' /\ Verifies(file', i)
    BY <1>1, <2>1, <2>2 DEF Verifies
  <2> QED
    BY <2>1, <2>2, <2>3 DEF Proper
<1> QED
  BY <1>2, <1>3 DEF Log!Grow

LEMMA ProperInit == Init => Log!Init
<1> SUFFICES ASSUME Init PROVE Proper = <<>>
  BY DEF Log!Init
<1>1. DOMAIN Proper = {} /\ Proper = [i \in {} |-> file[i]]
  BY DEF Init, Proper
<1> QED
  BY <1>1

\* Whatever becomes of single writes, syncs and the power, the part of the file
\* on disk that verifies is an audit log (journal.go:80-236, audit/verify.go).
THEOREM JournalImplementsAuditLog == Spec => AuditLogSpec
<1>1. FileInv /\ [Next]_vars => [Log!Grow]_Proper
  BY StepKeeps, ProperGrows
<1> QED
  BY <1>1, ProperInit, JournalFileCorrect, PTL DEF Spec, AuditLogSpec, Log!Spec

-----------------------------------------------------------------------------
(* What the executor has in memory. *)

\* Journal.mu is held across a sync, by a goroutine that lives.
MutexInv ==
  /\ mu \in Caller \cup {Nobody}
  /\ mu # Nobody => exec = "up"
  /\ DOMAIN req = Caller
  /\ \A c \in Caller : /\ DOMAIN req[c] = DOMAIN Idle
                       /\ (mu = c) <=> (req[c].step = "sync")

CountInv == "dirty" \in DOMAIN left /\ left.dirty \in 0..MaxDirtyFails

LastLine(lines) == IF lines = <<>> THEN Zero ELSE lines[Len(lines)]

\* Between a write and its sync the file is one record ahead of the memory.
MemoryInv ==
  exec = "up" /\ Clean =>
    /\ Verifies(file, Len(file))
    /\ mu = Nobody => seq = Len(file) /\ head = LastLine(file)
    /\ \A c \in Caller : mu = c =>
         /\ file # <<>> /\ Len(file) = seq + 1
         /\ file[Len(file)] = Seal(req[c].out, req[c].n)

JournalInv == FileInv /\ MutexInv /\ CountInv /\ MemoryInv

\* A bound is used; no bound grows.
Counted == "dirty" \in DOMAIN left' /\ left'.dirty = left.dirty

\* Goroutine c takes a step that is not the journal's.
Elsewhere(c) ==
  /\ UNCHANGED <<exec, file, durable, head, seq, mu>>
  /\ Counted
  /\ req[c].step # "sync"
  /\ DOMAIN req' = Caller
  /\ \A d \in Caller : d # c => req'[d] = req[d]
  /\ req'[c].step # "sync" /\ DOMAIN req'[c] = DOMAIN Idle

LEMMA SpendCounts ==
  ASSUME CountInv, NEW what, what # "dirty", Spend(what)
  PROVE  Counted
  BY DEF CountInv, Spend, Counted

LEMMA ElsewhereKeepsInv ==
  ASSUME JournalInv, NEW c \in Caller, Elsewhere(c)
  PROVE  JournalInv'
<1>1. FileInv'
  BY DEF JournalInv, FileInv, Elsewhere
<1>2. MutexInv'
  BY DEF JournalInv, MutexInv, Elsewhere
<1>3. CountInv'
  BY DEF JournalInv, CountInv, Elsewhere, Counted
<1>4. MemoryInv'
  <2>1. \A d \in Caller : mu = d => req'[d] = req[d]
    BY DEF JournalInv, MutexInv, Elsewhere
  <2> QED
    BY <2>1 DEF JournalInv, MemoryInv, Clean, Elsewhere, Counted, Seal
<1> QED
  BY <1>1, <1>2, <1>3, <1>4 DEF JournalInv

\* A request that goes on, is answered, or begins.
LEMMA RequestSteps ==
  ASSUME MutexInv, NEW c \in Caller
  PROVE  /\ \A step : Goto(c, step).step = step /\ DOMAIN Goto(c, step) = DOMAIN Idle
         /\ \A out : Record(c, out).step = "write" /\ DOMAIN Record(c, out) = DOMAIN Idle
         /\ \A ans : Respond(c, ans).step = "done" /\ DOMAIN Respond(c, ans) = DOMAIN Idle
  BY DEF MutexInv, Goto, Record, Respond, Idle

LEMMA DockerStepElsewhere ==
  ASSUME JournalInv, NEW c \in Caller,
         \/ Unreachable(c) \/ MakeDir(c) \/ ChownDir(c) \/ Create(c)
         \/ List(c) \/ Each(c) \/ EachDone(c) \/ NetworkEnsure(c) \/ Probe(c)
         \/ BuildFrame(c) \/ BuildEnds(c)
  PROVE  Elsewhere(c)
<1>0. /\ DOMAIN req = Caller /\ DOMAIN req[c] = DOMAIN Idle
      /\ left' = left => Counted
  BY DEF JournalInv, MutexInv, CountInv, Counted
<1>r. /\ \A step : Goto(c, step).step = step /\ DOMAIN Goto(c, step) = DOMAIN Idle
      /\ \A out : Record(c, out).step = "write" /\ DOMAIN Record(c, out) = DOMAIN Idle
      /\ \A ans : Respond(c, ans).step = "done" /\ DOMAIN Respond(c, ans) = DOMAIN Idle
  BY RequestSteps DEF JournalInv
<1> USE DEF Elsewhere, Calling, journalVars
<1>1. CASE Unreachable(c)
  BY <1>0, <1>r, <1>1 DEF Unreachable
<1>2. CASE MakeDir(c)
  BY <1>0, <1>r, <1>2 DEF MakeDir
<1>3. CASE ChownDir(c)
  BY <1>0, <1>r, <1>3 DEF ChownDir
<1>4. CASE Create(c)
  BY <1>0, <1>r, <1>4 DEF Create, Idle
<1>5. CASE List(c)
  BY <1>0, <1>r, <1>5 DEF List, Idle
<1>6. CASE Each(c)
  <2>1. /\ UNCHANGED <<exec, file, durable, head, seq, mu, left>>
        /\ req[c].step = "each"
    BY <1>6 DEF Each
  <2>2. PICK id \in req[c].todo :
          \/ req' = [req EXCEPT ![c].todo = @ \ {id}, ![c].n = @ + 1, ![c].did = @ \cup {id}]
          \/ req' = [req EXCEPT ![c] = Record(c, "failure")]
    BY <1>6 DEF Each
  <2>3. CASE req' = [req EXCEPT ![c] = Record(c, "failure")]
    BY <1>0, <1>r, <2>1, <2>3
  <2>4. CASE req' = [req EXCEPT ![c].todo = @ \ {id}, ![c].n = @ + 1, ![c].did = @ \cup {id}]
    <3>1. /\ req'[c].step = req[c].step /\ DOMAIN req'[c] = DOMAIN req[c]
          /\ DOMAIN req' = Caller /\ \A d \in Caller : d # c => req'[d] = req[d]
      BY <1>0, <2>4 DEF Idle
    <3> QED
      BY <1>0, <2>1, <3>1
  <2> QED
    BY <2>2, <2>3, <2>4
<1>7. CASE EachDone(c)
  BY <1>0, <1>r, <1>7 DEF EachDone
<1>8. CASE NetworkEnsure(c)
  BY <1>0, <1>r, <1>8 DEF NetworkEnsure
<1>9. CASE Probe(c)
  BY <1>0, <1>r, <1>9 DEF Probe
<1>10. CASE BuildFrame(c)
  BY <1>0, <1>r, <1>10 DEF BuildFrame, Idle
<1>11. CASE BuildEnds(c)
  BY <1>0, <1>r, <1>11 DEF BuildEnds
<1> QED
  BY <1>1, <1>2, <1>3, <1>4, <1>5, <1>6, <1>7, <1>8, <1>9, <1>10, <1>11

LEMMA CallStepElsewhere ==
  ASSUME JournalInv, NEW c \in Caller,
         \/ CallFails(c) \/ BuildUnsent(c) \/ Deny(c) \/ BeginAudit(c) \/ AuditPage(c)
         \/ \E op \in Op : \E sel \in Selectors(op) : Arrive(c, op, sel)
  PROVE  Elsewhere(c)
<1>0. /\ DOMAIN req = Caller /\ DOMAIN req[c] = DOMAIN Idle
      /\ left' = left => Counted
      /\ Spend("faults") => Counted
      /\ Spend("requests") => Counted
  BY SpendCounts DEF JournalInv, MutexInv, CountInv, Counted
<1>r. /\ \A out : Record(c, out).step = "write" /\ DOMAIN Record(c, out) = DOMAIN Idle
      /\ \A ans : Respond(c, ans).step = "done" /\ DOMAIN Respond(c, ans) = DOMAIN Idle
  BY RequestSteps DEF JournalInv
<1> USE DEF Elsewhere, Calling, Free, journalVars
<1>1. CASE CallFails(c)
  BY <1>0, <1>r, <1>1 DEF CallFails
<1>2. CASE BuildUnsent(c)
  BY <1>0, <1>r, <1>2 DEF BuildUnsent
<1>3. CASE Deny(c)
  BY <1>0, <1>3 DEF Deny, Idle
<1>4. CASE BeginAudit(c)
  BY <1>0, <1>4 DEF BeginAudit, Idle
<1>5. CASE AuditPage(c)
  BY <1>0, <1>r, <1>5 DEF AuditPage
<1>6. ASSUME NEW op \in Op, NEW sel \in Selectors(op), Arrive(c, op, sel)
      PROVE  Elsewhere(c)
  BY <1>0, <1>6 DEF Arrive, Idle, FirstStep, Op
<1> QED
  BY <1>1, <1>2, <1>3, <1>4, <1>5, <1>6

LEMMA JournalInvInit == Init => JournalInv
<1> SUFFICES ASSUME Init PROVE JournalInv
  OBVIOUS
<1>1. FileInv
  BY FileInvInit
<1>2. MutexInv /\ CountInv
  BY ExecutorAssumption DEF Init, MutexInv, CountInv, Idle
<1>3. MemoryInv
  <2>1. mu = Nobody /\ file = <<>> /\ Len(file) = 0 /\ seq = 0 /\ head = Zero
    BY DEF Init
  <2> QED
    BY <2>1, ExecutorAssumption DEF MemoryInv, Verifies, LastLine
<1> QED
  BY <1>1, <1>2, <1>3 DEF JournalInv

\* A line that continues the chain is added to a file that verifies.
LEMMA SealedLineVerifies ==
  ASSUME FileInv, Verifies(file, Len(file)), NEW out, NEW n,
         seq = Len(file), head = LastLine(file)
  PROVE  LET new == WithLine(file, Seal(out, n))
         IN  /\ new # <<>> /\ Len(new) = Len(file) + 1 /\ new[Len(new)] = Seal(out, n)
             /\ Verifies(new, Len(new))
<1> DEFINE line == Seal(out, n)
           new == Append(file, line)
<1>1. PICK S : file \in Seq(S)
  BY DEF FileInv
<1>2. Len(file) \in Nat
  BY <1>1
<1>3. file \in Seq(S \cup {line})
  BY <1>1, SeqDef
<1>4. /\ Len(new) = Len(file) + 1 /\ new[Len(file) + 1] = line
      /\ \A i \in 1..Len(file) : new[i] = file[i]
  BY <1>3
<1>5. WithLine(file, line) = new
  <2>1. file # <<>> => Len(file) \in 1..Len(file)
    BY <1>1
  <2> QED
    BY <2>1 DEF WithLine, Verifies
<1>6. line.seq = Len(file) + 1 /\ line.prev = LastLine(file) /\ line # Torn
  BY DEF Seal, Torn
<1>7. LastLine(file) = IF Len(file) + 1 = 1 THEN Zero ELSE new[Len(file)]
  <2>1. file = <<>> <=> Len(file) = 0
    BY <1>1
  <2> QED
    BY <1>2, <1>4, <2>1 DEF LastLine
<1> HIDE DEF line, new
<1>8. ASSUME NEW i \in 1..Len(file) + 1
      PROVE  new[i] # Torn /\ Link(new[i], i, IF i = 1 THEN Zero ELSE new[i - 1])
  <2>1. CASE i = Len(file) + 1
    BY <1>2, <1>4, <1>6, <1>7, <2>1 DEF Link
  <2>2. CASE i # Len(file) + 1
    <3>1. i \in 1..Len(file) /\ (i # 1 => i - 1 \in 1..Len(file))
      BY <1>2, <2>2
    <3> QED
      BY <1>4, <3>1 DEF Verifies
  <2> QED
    BY <2>1, <2>2
<1>9. Verifies(new, Len(new)) /\ new # <<>>
  BY <1>2, <1>4, <1>8 DEF Verifies
<1> QED
  BY <1>4, <1>5, <1>9 DEF line

LEMMA WriteKeepsInv ==
  ASSUME JournalInv, NEW c \in Caller, AppendWrite(c)
  PROVE  JournalInv'
<1>1. /\ mu = Nobody /\ mu' = c /\ exec = "up" /\ UNCHANGED <<exec, durable, head, seq, left>>
      /\ file' = WithLine(file, Seal(req[c].out, req[c].n))
      /\ req' = [req EXCEPT ![c] = Goto(c, "sync")]
  BY DEF AppendWrite, Busy
<1>2. FileInv'
  BY WriteKeeps, <1>1 DEF JournalInv, Keeps
<1>3. /\ req'[c].step = "sync" /\ DOMAIN req'[c] = DOMAIN Idle
      /\ req'[c].out = req[c].out /\ req'[c].n = req[c].n
      /\ DOMAIN req' = Caller /\ \A d \in Caller : d # c => req'[d] = req[d]
  BY <1>1 DEF JournalInv, MutexInv, Goto, Idle
<1>4. MutexInv'
  BY <1>1, <1>3, ExecutorAssumption DEF JournalInv, MutexInv
<1>5. CountInv'
  BY <1>1 DEF JournalInv, CountInv
<1>6. MemoryInv'
  <2> SUFFICES ASSUME Clean'
               PROVE  /\ Verifies(file, Len(file))'
                      /\ file' # <<>> /\ Len(file') = seq' + 1
                      /\ file'[Len(file')] = Seal(req[c].out, req[c].n)'
    BY <1>1, ExecutorAssumption DEF MemoryInv
  <2>1. Verifies(file, Len(file)) /\ seq = Len(file) /\ head = LastLine(file)
    BY <1>1 DEF JournalInv, MemoryInv, Clean
  <2>2. Seal(req[c].out, req[c].n)' = Seal(req[c].out, req[c].n)
    BY <1>1, <1>3 DEF Seal
  <2> QED
    BY <1>1, <2>1, <2>2, SealedLineVerifies DEF JournalInv
<1> QED
  BY <1>2, <1>4, <1>5, <1>6 DEF JournalInv

\* A request that is answered holds no mutex.
LEMMA AnsweredIsFree ==
  ASSUME MutexInv, NEW c \in Caller, NEW r, r.step # "sync", DOMAIN r = DOMAIN Idle,
         mu' = Nobody, req' = [req EXCEPT ![c] = r], mu \in {c, Nobody}
  PROVE  MutexInv'
  BY ExecutorAssumption DEF MutexInv

LEMMA SyncKeepsInv ==
  ASSUME JournalInv, NEW c \in Caller, AppendSync(c)
  PROVE  JournalInv'
<1>1. /\ req[c].step = "sync" /\ mu = c /\ mu' = Nobody /\ exec = "up"
      /\ UNCHANGED <<exec, file, left>>
      /\ durable' = Len(file) /\ seq' = seq + 1 /\ head' = Seal(req[c].out, req[c].n)
  BY DEF AppendSync, Busy, JournalInv, MutexInv
<1>2. FileInv'
  BY SyncKeeps, <1>1 DEF JournalInv, Keeps
<1>3. MutexInv'
  <2>1. PICK rec : req' = [req EXCEPT ![c] = [Respond(c, Answered(c)) EXCEPT !.rec = rec]]
    BY DEF AppendSync
  <2>2. Respond(c, Answered(c)).step = "done" /\ DOMAIN Respond(c, Answered(c)) = DOMAIN Idle
    BY RequestSteps DEF JournalInv
  <2>3. /\ [Respond(c, Answered(c)) EXCEPT !.rec = rec].step = "done"
        /\ DOMAIN [Respond(c, Answered(c)) EXCEPT !.rec = rec] = DOMAIN Idle
    BY <2>2 DEF Idle
  <2> QED
    BY <1>1, <2>1, <2>3, AnsweredIsFree DEF JournalInv
<1>4. CountInv'
  BY <1>1 DEF JournalInv, CountInv
<1>5. MemoryInv'
  <2>1. Clean => /\ Verifies(file, Len(file)) /\ file # <<>> /\ Len(file) = seq + 1
                 /\ file[Len(file)] = Seal(req[c].out, req[c].n)
    BY <1>1 DEF JournalInv, MemoryInv
  <2>2. \A d \in Caller : mu' # d
    BY <1>1, ExecutorAssumption
  <2>3. Clean' => /\ Verifies(file', Len(file')) /\ seq' = Len(file')
                  /\ head' = LastLine(file')
    BY <1>1, <2>1 DEF Clean, LastLine
  <2> QED
    BY <2>2, <2>3 DEF MemoryInv
<1> QED
  BY <1>2, <1>3, <1>4, <1>5 DEF JournalInv

\* After a write that left a part, or a sync that failed, nothing is claimed.
LEMMA DirtyIsNotClean ==
  ASSUME CountInv, Spend("dirty")
  PROVE  CountInv' /\ ~Clean'
  BY ExecutorAssumption DEF CountInv, Spend, Clean

LEMMA FailureKeepsInv ==
  ASSUME JournalInv, NEW c \in Caller, WriteFails(c) \/ SyncFails(c)
  PROVE  JournalInv'
<1>1. FileInv'
  BY WriteKeeps DEF JournalInv, Keeps, FileInv, WriteFails, SyncFails
<1>2. MutexInv'
  <2>1. PICK ans : req' = [req EXCEPT ![c] = Respond(c, ans)]
    BY DEF WriteFails, SyncFails, Unwritten
  <2>2. Respond(c, ans).step = "done" /\ DOMAIN Respond(c, ans) = DOMAIN Idle
    BY RequestSteps DEF JournalInv
  <2>3. mu' = Nobody /\ mu \in {c, Nobody}
    BY DEF WriteFails, SyncFails, Busy, JournalInv, MutexInv
  <2> QED
    BY <2>1, <2>2, <2>3, AnsweredIsFree DEF JournalInv
<1>3. CASE Spend("dirty")
  BY <1>1, <1>2, <1>3, DirtyIsNotClean DEF JournalInv, MemoryInv
<1>4. CASE Spend("faults") /\ file' = file /\ WriteFails(c)
  <2>1. CountInv' /\ (Clean' => Clean)
    BY <1>4, SpendCounts DEF JournalInv, CountInv, Counted, Clean
  <2>2. UNCHANGED <<exec, file, head, seq, mu>> /\ mu = Nobody
    BY <1>4 DEF WriteFails
  <2>3. \A d \in Caller : mu' # d
    BY <2>2, ExecutorAssumption
  <2>4. exec' = "up" /\ Clean' =>
          Verifies(file', Len(file')) /\ seq' = Len(file') /\ head' = LastLine(file')
    BY <2>1, <2>2 DEF JournalInv, MemoryInv
  <2>5. MemoryInv'
    BY <2>3, <2>4 DEF MemoryInv
  <2> QED
    BY <1>1, <1>2, <2>1, <2>5 DEF JournalInv
<1> QED
  BY <1>3, <1>4 DEF WriteFails, SyncFails

\* The process or the machine stops, or the journal is read again.
LEMMA ProcessKeepsInv ==
  ASSUME JournalInv, Kill \/ PowerLoss \/ Restart
  PROVE  JournalInv'
<1>0. Nobody \notin Caller /\ CountInv
  BY ExecutorAssumption DEF JournalInv
<1>1. FileInv'
  <2>1. CASE PowerLoss
    BY <2>1, LossKeeps DEF JournalInv, Keeps
  <2>2. CASE Kill \/ Restart
    BY <2>2 DEF JournalInv, FileInv, Kill, Restart
  <2> QED
    BY <2>1, <2>2
<1>2. CASE Kill
  <2>1. exec' = "down" /\ mu' = Nobody /\ req' = [c \in Caller |-> Lost(req[c])]
    BY <1>2 DEF Kill
  <2>2. \A c \in Caller : Lost(req[c]).step # "sync" /\ DOMAIN Lost(req[c]) = DOMAIN Idle
    BY DEF JournalInv, MutexInv, Lost, Idle
  <2>3. MutexInv'
    BY <1>0, <2>1, <2>2 DEF MutexInv
  <2>4. CountInv'
    BY <1>0, <1>2, SpendCounts DEF Kill, CountInv, Counted
  <2> QED
    BY <1>1, <2>1, <2>3, <2>4 DEF JournalInv, MemoryInv
<1>3. CASE PowerLoss
  <2>1. exec' = "down" /\ mu' = Nobody /\ req' = [c \in Caller |-> Idle]
    BY <1>3 DEF PowerLoss
  <2>2. MutexInv'
    BY <1>0, <2>1 DEF MutexInv, Idle
  <2>3. CountInv'
    BY <1>0, <1>3, SpendCounts DEF PowerLoss, CountInv, Counted
  <2> QED
    BY <1>1, <2>1, <2>2, <2>3 DEF JournalInv, MemoryInv
<1>4. CASE Restart
  <2>1. exec = "down" /\ UNCHANGED <<file, mu, req, left>>
    BY <1>4 DEF Restart
  <2>2. mu = Nobody
    BY <2>1 DEF JournalInv, MutexInv
  <2>3. MutexInv' /\ CountInv'
    BY <2>1, <2>2, <1>0 DEF JournalInv, MutexInv, CountInv
  <2>4. exec' = "up" => Verifies(file', Len(file')) /\ seq' = Len(file') /\ head' = LastLine(file')
    BY <1>4, <2>1 DEF Restart, LastLine
  <2>5. \A d \in Caller : mu' # d
    BY <1>0, <2>1, <2>2
  <2> QED
    BY <1>1, <2>3, <2>4, <2>5 DEF JournalInv, MemoryInv
<1> QED
  BY <1>2, <1>3, <1>4

\* Docker alone stops or starts, or nothing happens.
LEMMA DockerKeepsInv ==
  ASSUME JournalInv, DockerStops \/ DockerStarts \/ UNCHANGED vars
  PROVE  JournalInv'
<1>1. UNCHANGED <<exec, file, durable, head, seq, mu, req>>
  BY DEF DockerStops, DockerStarts, vars, journalVars
<1>2. Counted
  BY SpendCounts DEF DockerStops, DockerStarts, vars, JournalInv, CountInv, Counted
<1>3. FileInv' /\ MutexInv'
  BY <1>1 DEF JournalInv, FileInv, MutexInv
<1>4. CountInv' /\ MemoryInv'
  BY <1>1, <1>2 DEF JournalInv, CountInv, MemoryInv, Counted, Clean, Seal
<1> QED
  BY <1>3, <1>4 DEF JournalInv

LEMMA JournalInvNext == JournalInv /\ [Next]_vars => JournalInv'
<1> SUFFICES ASSUME JournalInv, [Next]_vars PROVE JournalInv'
  OBVIOUS
<1>1. ASSUME NEW c \in Caller, Advance(c)
      PROVE  JournalInv'
  BY <1>1, WriteKeepsInv, SyncKeepsInv, DockerStepElsewhere, CallStepElsewhere,
     ElsewhereKeepsInv DEF Advance
<1>2. ASSUME NEW c \in Caller, WriteFails(c) \/ SyncFails(c)
      PROVE  JournalInv'
  BY <1>2, FailureKeepsInv
<1>3. ASSUME NEW c \in Caller,
             \/ CallFails(c) \/ BuildUnsent(c) \/ Deny(c) \/ BeginAudit(c)
             \/ \E op \in Op : \E sel \in Selectors(op) : Arrive(c, op, sel)
      PROVE  JournalInv'
  BY <1>3, CallStepElsewhere, ElsewhereKeepsInv
<1>4. CASE Kill \/ PowerLoss \/ Restart
  BY <1>4, ProcessKeepsInv
<1>5. CASE DockerStops \/ DockerStarts \/ UNCHANGED vars
  BY <1>5, DockerKeepsInv
<1> QED
  BY <1>1, <1>2, <1>3, <1>4, <1>5 DEF Next

\* The inductive invariant of the journal, its mutex and what is in memory.
THEOREM JournalCorrect == Spec => []JournalInv
  BY JournalInvInit, JournalInvNext, PTL DEF Spec

LEMMA JournalInvConsistent == JournalInv => JournalConsistent
  BY DEF JournalInv, MemoryInv, JournalConsistent, LastLine

\* While the executor runs, its memory is the last record of a file that
\* verifies, over kills, power losses and restarts (journal.go:103-204).
THEOREM JournalIsConsistent == Spec => []JournalConsistent
  BY JournalCorrect, JournalInvConsistent, PTL

-----------------------------------------------------------------------------
(* What the requests do to containers. *)

ByList == {"start", "stop", "remove"}

\* An operation on a list touches what was on the host when it was made.
Bounded(r) ==
  /\ DOMAIN r = DOMAIN Idle
  /\ r.step \in {"list", "each"} => r.op \in ByList
  /\ r.op \in ByList => /\ r.step \notin {"prepare", "create"}
                        /\ r.sel \in Replica \cup {Whole}
                        /\ r.step = "list" => r.did = {}
                        /\ \A id \in r.todo \cup r.did : id < r.top

HostInv ==
  /\ nextId \in Nat
  /\ box \in [Replica -> [state : State, id : Nat]]
  /\ \A r \in Replica : box[r].id < nextId
  /\ VolumeBeforeContainer

RequestInv ==
  /\ DOMAIN req = Caller
  /\ \A c \in Caller : /\ Bounded(req[c])
                       /\ req[c].step = "create" => volume = "app"

ContainerInv == HostInv /\ RequestInv

\* The containers and their directory are as they were.
SameHost == UNCHANGED <<box, nextId, volume>>

LEMMA SameHostKeepsInv ==
  ASSUME HostInv, SameHost
  PROVE  HostInv'
  BY DEF HostInv, SameHost, VolumeBeforeContainer, Existing

\* One request goes on; one at "create" finds the directory given away.
LEMMA OneRequestKeepsInv ==
  ASSUME RequestInv, NEW c \in Caller, NEW r, req' = [req EXCEPT ![c] = r], Bounded(r),
         volume = "app" => volume' = "app", r.step = "create" => volume' = "app"
  PROVE  RequestInv'
  BY DEF RequestInv

\* Recording and answering leave what was done as it is.
LEMMA RecordIsBounded ==
  ASSUME NEW c \in Caller, Bounded(req[c]), req[c].step # "list"
  PROVE  /\ \A out : Bounded(Record(c, out)) /\ Record(c, out).step = "write"
         /\ \A ans : Bounded(Respond(c, ans)) /\ Respond(c, ans).step = "done"
         /\ Bounded(Goto(c, "sync")) /\ Goto(c, "sync").step = "sync"
  BY DEF Bounded, Record, Respond, Goto, Idle, ByList

LEMMA FailedListIsBounded ==
  ASSUME NEW c \in Caller, Bounded(req[c])
  PROVE  Bounded(Record(c, "failure")) /\ Record(c, "failure").step = "write"
  BY DEF Bounded, Record, Idle

\* No container appears, and none changes its id.
MakesNone ==
  \A r \in Replica : /\ box'[r].id = box[r].id
                     /\ box'[r].state # "absent" => box[r].state # "absent"

\* A call on a container that exists makes none.
LEMMA CallsMakeNone ==
  ASSUME HostInv, NEW op \in ByList, NEW id,
         box' = [r \in Replica |-> IF r \in Holder(id) THEN After(op, box[r]) ELSE box[r]],
         UNCHANGED <<nextId, volume>>
  PROVE  HostInv' /\ MakesNone
<1>1. ASSUME NEW b \in [state : State, id : Nat]
      PROVE  After(op, b) \in [state : State, id : Nat] /\ After(op, b).id = b.id
  BY DEF After, ByList, State
<1>2. box' \in [Replica -> [state : State, id : Nat]] /\ \A r \in Replica : box'[r].id = box[r].id
  BY <1>1 DEF HostInv
<1>3. ASSUME NEW r \in Replica, box'[r].state # "absent"
      PROVE  box[r].state # "absent"
  BY <1>3 DEF Holder, Existing
<1> QED
  BY <1>2, <1>3 DEF HostInv, VolumeBeforeContainer, Existing, MakesNone

LEMMA StoppingMakesNone ==
  ASSUME HostInv, box' = [r \in Replica |-> After("stop", box[r])], UNCHANGED <<nextId, volume>>
  PROVE  HostInv' /\ MakesNone
<1>1. ASSUME NEW b \in [state : State, id : Nat]
      PROVE  /\ After("stop", b) \in [state : State, id : Nat] /\ After("stop", b).id = b.id
             /\ b.state = "absent" => After("stop", b).state = "absent"
  BY DEF After, State
<1>2. /\ box' \in [Replica -> [state : State, id : Nat]]
      /\ \A r \in Replica : /\ box'[r].id = box[r].id
                            /\ box[r].state = "absent" => box'[r].state = "absent"
  BY <1>1 DEF HostInv
<1> QED
  BY <1>2 DEF HostInv, VolumeBeforeContainer, Existing, MakesNone

LEMMA ContainerInvInit == Init => ContainerInv
<1> SUFFICES ASSUME Init PROVE ContainerInv
  OBVIOUS
<1>1. HostInv
  BY DEF Init, FreshHost, KnownHost, HostInv, VolumeBeforeContainer, Existing, State
<1>2. Bounded(Idle) /\ Idle.step = "idle"
  BY DEF Bounded, Idle, ByList
<1> HIDE DEF Idle
<1>3. RequestInv
  BY <1>2 DEF Init, RequestInv
<1> QED
  BY <1>1, <1>3 DEF ContainerInv

\* The journal's steps, the builds and what asks Docker about no container.
LEMMA OtherStepsKeepContainers ==
  ASSUME ContainerInv, NEW c \in Caller,
         \/ AppendWrite(c) \/ AppendSync(c) \/ WriteFails(c) \/ SyncFails(c)
         \/ Unreachable(c) \/ EachDone(c) \/ NetworkEnsure(c) \/ Probe(c)
         \/ BuildFrame(c) \/ BuildEnds(c) \/ BuildUnsent(c) \/ AuditPage(c)
  PROVE  ContainerInv'
<1>0. HostInv /\ RequestInv /\ Bounded(req[c]) /\ DOMAIN req[c] = DOMAIN Idle
  BY DEF ContainerInv, RequestInv, Bounded
<1>1. SameHost /\ HostInv'
  <2>1. SameHost
    BY DEF SameHost, AppendWrite, AppendSync, WriteFails, SyncFails, Unreachable, EachDone,
           NetworkEnsure, Probe, BuildFrame, BuildEnds, BuildUnsent, AuditPage, dockerVars
  <2> QED
    BY <1>0, <2>1, SameHostKeepsInv
<1>2. ASSUME NEW r, req' = [req EXCEPT ![c] = r], Bounded(r), r.step # "create"
      PROVE  ContainerInv'
  BY <1>0, <1>1, <1>2, OneRequestKeepsInv DEF ContainerInv, SameHost
<1>3. CASE AppendWrite(c)
  BY <1>0, <1>2, <1>3, RecordIsBounded DEF AppendWrite
<1>4. CASE AppendSync(c)
  <2>1. PICK rec : req' = [req EXCEPT ![c] = [Respond(c, Answered(c)) EXCEPT !.rec = rec]]
    BY <1>4 DEF AppendSync
  <2>2. Bounded(Respond(c, Answered(c))) /\ Respond(c, Answered(c)).step = "done"
    BY <1>0, <1>4, RecordIsBounded DEF AppendSync
  <2> DEFINE r == [Respond(c, Answered(c)) EXCEPT !.rec = rec]
  <2>3. Bounded(r) /\ r.step = "done" /\ req' = [req EXCEPT ![c] = r]
    BY <2>1, <2>2 DEF Bounded, Idle
  <2> HIDE DEF r
  <2> QED
    BY <1>2, <2>3
<1>5. CASE WriteFails(c) \/ SyncFails(c)
  BY <1>0, <1>2, <1>5, RecordIsBounded DEF WriteFails, SyncFails, Unwritten
<1>6. CASE Unreachable(c)
  BY <1>0, <1>2, <1>6, FailedListIsBounded DEF Unreachable
<1>7. CASE EachDone(c) \/ NetworkEnsure(c) \/ BuildEnds(c) \/ BuildUnsent(c)
  BY <1>0, <1>2, <1>7, RecordIsBounded
     DEF EachDone, NetworkEnsure, BuildEnds, BuildUnsent, Calling
<1>8. CASE Probe(c)
  BY <1>0, <1>2, <1>8, RecordIsBounded DEF Probe, Calling
<1>9. CASE BuildFrame(c)
  <2>1. PICK r \in {[req[c] EXCEPT !.aux = TRUE], [req[c] EXCEPT !.err = TRUE]} :
          req' = [req EXCEPT ![c] = r]
    BY <1>0, <1>9 DEF BuildFrame
  <2>2. Bounded(r) /\ r.step = "build"
    BY <1>0, <1>9 DEF BuildFrame, Calling, Bounded, Idle
  <2> QED
    BY <1>2, <2>1, <2>2
<1>10. CASE AuditPage(c)
  <2>1. req[c].step = "audit"
    BY <1>10 DEF AuditPage
  <2>2. PICK ans, n : \/ req' = [req EXCEPT ![c] = Respond(c, ans)]
                      \/ req' = [req EXCEPT ![c] = [req[c] EXCEPT !.n = n]]
    BY <1>10 DEF AuditPage
  <2>3. Bounded([req[c] EXCEPT !.n = n]) /\ [req[c] EXCEPT !.n = n].step = "audit"
    BY <1>0, <2>1 DEF Bounded, Idle
  <2> QED
    BY <1>0, <1>2, <2>1, <2>2, <2>3, RecordIsBounded
<1> QED
  BY <1>3, <1>4, <1>5, <1>6, <1>7, <1>8, <1>9, <1>10

\* The directory is given away before the first container, and stays so.
LEMMA CreationKeepsContainers ==
  ASSUME ContainerInv, NEW c \in Caller, MakeDir(c) \/ ChownDir(c) \/ Create(c)
  PROVE  ContainerInv'
<1>0. HostInv /\ RequestInv /\ Bounded(req[c]) /\ DOMAIN req[c] = DOMAIN Idle
  BY DEF ContainerInv, RequestInv, Bounded
<1>1. CASE MakeDir(c)
  <2>1. volume = "none" /\ req[c].step = "prepare" /\ UNCHANGED <<box, nextId>>
    BY <1>1 DEF MakeDir, Calling
  <2>2. HostInv'
    BY <1>0, <2>1 DEF HostInv, VolumeBeforeContainer, Existing
  <2>3. req' = req \/ req' = [req EXCEPT ![c] = Record(c, "failure")]
    BY <1>1 DEF MakeDir
  <2>4. RequestInv'
    BY <1>0, <2>1, <2>3, OneRequestKeepsInv, RecordIsBounded DEF RequestInv
  <2> QED
    BY <2>2, <2>4 DEF ContainerInv
<1>2. CASE ChownDir(c)
  <2>1. req[c].step = "prepare" /\ UNCHANGED <<box, nextId>> /\ (volume' = "app" \/ volume' = volume)
    BY <1>2 DEF ChownDir, Calling
  <2>2. HostInv'
    BY <1>0, <2>1 DEF HostInv, VolumeBeforeContainer, Existing
  <2>3. \/ volume' = "app" /\ req' = [req EXCEPT ![c] = Goto(c, "create")]
        \/ volume' = volume /\ req' = [req EXCEPT ![c] = Record(c, "failure")]
    BY <1>2 DEF ChownDir
  <2>4. Bounded(Goto(c, "create"))
    BY <1>0, <2>1 DEF Bounded, Goto, Idle
  <2>5. RequestInv'
    BY <1>0, <2>1, <2>3, <2>4, OneRequestKeepsInv, RecordIsBounded
  <2> QED
    BY <2>2, <2>5 DEF ContainerInv
<1>3. CASE Create(c)
  <2>1. req[c].step = "create" /\ volume = "app" /\ UNCHANGED volume
    BY <1>0, <1>3 DEF Create, Calling, RequestInv
  <2>2. HostInv'
    BY <1>0, <1>3, <2>1 DEF Create, HostInv, VolumeBeforeContainer, State
  <2> DEFINE r == [Record(c, "success") EXCEPT !.did = {nextId}]
  <2>3. req' = [req EXCEPT ![c] = r] \/ req' = [req EXCEPT ![c] = Record(c, "failure")]
    BY <1>3 DEF Create
  <2>4. Bounded(r) /\ r.step = "write"
    BY <1>0, <2>1 DEF Bounded, Record, Idle
  <2> HIDE DEF r
  <2>5. RequestInv'
    BY <1>0, <2>1, <2>3, <2>4, OneRequestKeepsInv, RecordIsBounded
  <2> QED
    BY <2>2, <2>5 DEF ContainerInv
<1> QED
  BY <1>1, <1>2, <1>3

\* What is on a list was on the host, with an id below the next one.
LEMMA ListStepsKeepContainers ==
  ASSUME ContainerInv, NEW c \in Caller, List(c) \/ Each(c) \/ CallFails(c)
  PROVE  ContainerInv'
<1>0. HostInv /\ RequestInv /\ Bounded(req[c]) /\ DOMAIN req[c] = DOMAIN Idle /\ DOMAIN req = Caller
  BY DEF ContainerInv, RequestInv, Bounded
<1>1. CASE List(c)
  <2> DEFINE r == [req[c] EXCEPT !.step = "each", !.top = nextId,
                                 !.todo = Ids(Selected(req[c].sel))]
  <2>1. req[c].step = "list" /\ SameHost /\ req' = [req EXCEPT ![c] = r]
    BY <1>0, <1>1 DEF List, Calling, SameHost
  <2>2. \A id \in Ids(Selected(req[c].sel)) : id < nextId
    <3>1. ASSUME NEW x \in Existing(Selected(req[c].sel))
          PROVE  box[x].id < nextId
      BY <1>0, <2>1 DEF HostInv, Existing, Selected, Bounded
    <3> QED
      BY <3>1 DEF Ids
  <2>3. Bounded(r) /\ r.step = "each"
    BY <1>0, <2>1, <2>2 DEF Bounded, Idle
  <2> HIDE DEF r
  <2>4. RequestInv'
    BY <1>0, <2>1, <2>3, OneRequestKeepsInv DEF SameHost
  <2> QED
    BY <1>0, <2>1, <2>4, SameHostKeepsInv DEF ContainerInv
<1>2. CASE Each(c)
  <2>1. req[c].step = "each" /\ req[c].op \in ByList /\ UNCHANGED <<nextId, volume>>
    BY <1>0, <1>2 DEF Each, Calling, Bounded
  <2>2. PICK id \in req[c].todo :
          \/ /\ box' = [x \in Replica |-> IF x \in Holder(id) THEN After(req[c].op, box[x]) ELSE box[x]]
             /\ req' = [req EXCEPT ![c].todo = @ \ {id}, ![c].n = @ + 1, ![c].did = @ \cup {id}]
          \/ req' = [req EXCEPT ![c] = Record(c, "failure")] /\ UNCHANGED box
    BY <1>2 DEF Each
  <2>3. HostInv'
    BY <1>0, <2>1, <2>2, CallsMakeNone, SameHostKeepsInv DEF SameHost
  <2> DEFINE r == [req[c] EXCEPT !.todo = @ \ {id}, !.n = @ + 1, !.did = @ \cup {id}]
  <2>4. req' = [req EXCEPT ![c] = r] \/ req' = [req EXCEPT ![c] = Record(c, "failure")]
    BY <1>0, <2>2
  <2>5. Bounded(r) /\ r.step = "each"
    BY <1>0, <2>1, <2>2 DEF Bounded, Idle
  <2> HIDE DEF r
  <2>6. RequestInv'
    BY <1>0, <2>1, <2>4, <2>5, OneRequestKeepsInv, RecordIsBounded
  <2> QED
    BY <2>3, <2>6 DEF ContainerInv
<1>3. CASE CallFails(c)
  <2>1. UNCHANGED <<nextId, volume>> /\ req' = [req EXCEPT ![c] = Record(c, "failure")]
    BY <1>3 DEF CallFails
  <2>2. HostInv'
    <3>1. CASE UNCHANGED box
      BY <1>0, <2>1, <3>1, SameHostKeepsInv DEF SameHost
    <3>2. CASE ~UNCHANGED box
      <4>1. req[c].step = "each" /\ \E id :
              box' = [x \in Replica |-> IF x \in Holder(id) THEN After(req[c].op, box[x]) ELSE box[x]]
        BY <1>3, <3>2 DEF CallFails, Calling
      <4> QED
        BY <1>0, <2>1, <4>1, CallsMakeNone DEF Bounded
    <3> QED
      BY <3>1, <3>2
  <2>3. RequestInv'
    BY <1>0, <2>1, OneRequestKeepsInv, FailedListIsBounded
  <2> QED
    BY <2>2, <2>3 DEF ContainerInv
<1> QED
  BY <1>1, <1>2, <1>3

\* A request begins with nothing done.
LEMMA ArrivalKeepsContainers ==
  ASSUME ContainerInv, NEW c \in Caller,
         \/ Deny(c) \/ BeginAudit(c)
         \/ \E op \in Op : \E sel \in Selectors(op) : Arrive(c, op, sel)
  PROVE  ContainerInv'
<1>0. HostInv /\ RequestInv
  BY DEF ContainerInv
<1>1. SameHost
  BY DEF Deny, BeginAudit, Arrive, dockerVars, SameHost
<1>2. ASSUME NEW r, req' = [req EXCEPT ![c] = r], Bounded(r), r.step # "create"
      PROVE  ContainerInv'
  BY <1>0, <1>1, <1>2, OneRequestKeepsInv, SameHostKeepsInv DEF ContainerInv, SameHost
<1>3. CASE Deny(c)
  <2> DEFINE r == [Idle EXCEPT !.step = "write", !.out = "denied"]
  <2>1. Bounded(r) /\ r.step = "write" /\ req' = [req EXCEPT ![c] = r]
    BY <1>3 DEF Deny, Bounded, Idle, ByList
  <2> HIDE DEF r
  <2> QED
    BY <1>2, <2>1
<1>4. CASE BeginAudit(c)
  <2> DEFINE r == [Idle EXCEPT !.step = "audit", !.op = "audit", !.top = durable]
  <2>1. Bounded(r) /\ r.step = "audit" /\ req' = [req EXCEPT ![c] = r]
    BY <1>4 DEF BeginAudit, Bounded, Idle, ByList
  <2> HIDE DEF r
  <2> QED
    BY <1>2, <2>1
<1>5. ASSUME NEW op \in Op, NEW sel \in Selectors(op), Arrive(c, op, sel)
      PROVE  ContainerInv'
  <2> DEFINE r == [Idle EXCEPT !.step = FirstStep(op), !.op = op, !.sel = sel]
  <2>1. /\ FirstStep(op) # "create" /\ FirstStep(op) # "each"
        /\ op \in ByList <=> FirstStep(op) = "list"
    BY DEF FirstStep, Op, ByList
  <2>2. Bounded(r) /\ r.step # "create" /\ req' = [req EXCEPT ![c] = r]
    BY <1>5, <2>1 DEF Arrive, Bounded, Idle, FirstStep, Op, ByList, Selectors
  <2> HIDE DEF r
  <2> QED
    BY <1>2, <2>2
<1> QED
  BY <1>3, <1>4, <1>5

LEMMA ProcessKeepsContainers ==
  ASSUME ContainerInv,
         Kill \/ PowerLoss \/ Restart \/ DockerStops \/ DockerStarts \/ UNCHANGED vars
  PROVE  ContainerInv'
<1>0. HostInv /\ RequestInv /\ Bounded(Idle) /\ Idle.step = "idle"
  BY DEF ContainerInv, Bounded, Idle, ByList
<1>1. HostInv'
  <2>1. CASE PowerLoss \/ DockerStops
    BY <1>0, <2>1, StoppingMakesNone DEF PowerLoss, DockerStops
  <2>2. CASE Kill \/ Restart \/ DockerStarts \/ UNCHANGED vars
    BY <1>0, <2>2, SameHostKeepsInv DEF Kill, Restart, DockerStarts, vars, dockerVars, SameHost
  <2> QED
    BY <2>1, <2>2
<1>2. UNCHANGED volume
  BY DEF Kill, PowerLoss, Restart, DockerStops, DockerStarts, vars, dockerVars
<1>3. RequestInv'
  <2>1. CASE UNCHANGED req
    BY <1>0, <1>2, <2>1 DEF RequestInv
  <2>2. CASE Kill
    <3>1. ASSUME NEW c \in Caller
          PROVE  Bounded(Lost(req[c])) /\ Lost(req[c]).step # "create"
      BY <1>0 DEF RequestInv, Lost, Bounded, Idle, ByList
    <3> QED
      BY <2>2, <3>1 DEF Kill, RequestInv
  <2>3. CASE PowerLoss
    <3> HIDE DEF Idle
    <3> QED
      BY <1>0, <2>3 DEF PowerLoss, RequestInv
  <2> QED
    BY <2>1, <2>2, <2>3 DEF Restart, DockerStops, DockerStarts, vars
<1> QED
  BY <1>1, <1>3 DEF ContainerInv

LEMMA ContainerInvNext == ContainerInv /\ [Next]_vars => ContainerInv'
<1> SUFFICES ASSUME ContainerInv, [Next]_vars PROVE ContainerInv'
  OBVIOUS
<1>1. ASSUME NEW c \in Caller, Advance(c)
      PROVE  ContainerInv'
  BY <1>1, OtherStepsKeepContainers, CreationKeepsContainers, ListStepsKeepContainers DEF Advance
<1>2. ASSUME NEW c \in Caller,
             \/ WriteFails(c) \/ SyncFails(c) \/ CallFails(c) \/ BuildUnsent(c) \/ Deny(c)
             \/ BeginAudit(c) \/ \E op \in Op : \E sel \in Selectors(op) : Arrive(c, op, sel)
      PROVE  ContainerInv'
  BY <1>2, OtherStepsKeepContainers, ListStepsKeepContainers, ArrivalKeepsContainers
<1>3. CASE Kill \/ PowerLoss \/ Restart \/ DockerStops \/ DockerStarts \/ UNCHANGED vars
  BY <1>3, ProcessKeepsContainers
<1> QED
  BY <1>1, <1>2, <1>3 DEF Next

\* The inductive invariant of the containers and of the requests about them.
THEOREM ContainersCorrect == Spec => []ContainerInv
  BY ContainerInvInit, ContainerInvNext, PTL DEF Spec

\* However long a stop, start or removal takes, it touches nothing that was
\* created after it listed the host (dockerdrv/container.go:387).
THEOREM StaleSelectionsAreHarmless == Spec => []StaleSelectionHarmless
<1>1. ContainerInv => StaleSelectionHarmless
  BY DEF ContainerInv, RequestInv, Bounded, ByList, StaleSelectionHarmless
<1> QED
  BY <1>1, ContainersCorrect, PTL

\* No container is created over a directory that is still root's, whatever was
\* interrupted before (volumeown.go:103).
THEOREM VolumesComeFirst == Spec => []VolumeBeforeContainer
<1>1. ContainerInv => VolumeBeforeContainer
  BY DEF ContainerInv, HostInv
<1> QED
  BY <1>1, ContainersCorrect, PTL

-----------------------------------------------------------------------------
(* What kadrand is told. *)

\* A request by itself: its step belongs to its operation, what it counted is
\* what it did, and it has an outcome only while that is recorded.
Local(r) ==
  /\ DOMAIN r = DOMAIN Idle
  /\ r.step \in Step /\ r.op \in Op \cup {"audit"} /\ r.out \in Outcome /\ r.ans \in Answer
  /\ r.n \in Nat
  /\ r.step \in {"prepare", "create"} => r.op = "create"
  /\ r.step \in {"list", "each"} => r.op \in ByList
  /\ r.step \in {"network", "build", "probe", "audit"} => r.op = r.step
  /\ r.step \in {"write", "sync"} <=> r.out # "none"
  /\ r.step = "done" <=> r.ans # "none"
  /\ r.step \in {"prepare", "list"} => r.did = {} /\ r.n = 0
  /\ r.out = "denied" \/ r.ans = "denied" => r.did = {}
  /\ r.op \in ByList => IsFiniteSet(r.did) /\ r.n = Cardinality(r.did) /\ r.did \cap r.todo = {}
  /\ r.ans # "invalid" /\ (r.ans = "valid" => r.n >= r.top)

InJournal(r) ==
  /\ r.rec \in 1..durable
  /\ Verifies(file, r.rec)
  /\ file[r.rec].out = "success"
  /\ file[r.rec].n = r.n

\* What a request has done, claims and is about to claim, against the host and
\* the journal.
Effect(r) ==
  /\ \A id \in r.todo \cup r.did : id \in Nat /\ id < nextId
  /\ r.op = "remove" => \A id \in r.did : Holder(id) = {}
  /\ r.op = "build" /\ (r.aux \/ r.out = "success" \/ r.ans = "ok") => image
  /\ r.op = "network" /\ (r.out = "success" \/ r.ans = "ok") => net
  /\ Clean /\ r.ans = "ok" /\ r.op # "probe" => InJournal(r)
  /\ r.step = "audit" => r.top \in Nat /\ r.top <= durable

HonestInv == \A c \in Caller : Local(req[c]) /\ Effect(req[c])

\* What was done stays done: images, networks and records are kept, and an id
\* that was used up is not handed out again.
Lasting ==
  /\ image => image'
  /\ net => net'
  /\ nextId \in Nat /\ nextId' \in Nat /\ nextId <= nextId'
  /\ \A id \in Nat : id < nextId /\ Holder(id) = {} => Holder(id)' = {}
  /\ FileInv /\ Keeps
  /\ Clean' => Clean

LEMMA EffectLasts ==
  ASSUME Lasting, NEW c \in Caller, Effect(req[c]), req'[c] = req[c]
  PROVE  Effect(req[c])'
<1>1. durable \in Nat /\ durable' \in Nat /\ durable <= durable'
  BY DEF Lasting, Keeps, FileInv
<1>2. ASSUME InJournal(req[c]) PROVE InJournal(req[c])'
  <2>1. req[c].rec \in 1..durable /\ req[c].rec \in 1..durable'
    BY <1>1, <1>2 DEF InJournal
  <2>2. \A j \in 1..req[c].rec : file'[j] = file[j] /\ (j > 1 => file'[j - 1] = file[j - 1])
    BY <1>1, <2>1 DEF Lasting, Keeps
  <2>3. Verifies(file', req[c].rec)
    BY <1>2, <2>1, <2>2 DEF InJournal, Verifies
  <2> QED
    BY <1>2, <2>1, <2>2, <2>3 DEF InJournal
<1>3. Clean' => Clean
  BY DEF Lasting
<1>4. \A id \in req'[c].todo \cup req'[c].did : id \in Nat /\ id < nextId'
  BY DEF Lasting, Effect
<1>5. req'[c].op = "remove" => \A id \in req'[c].did : Holder(id)' = {}
  BY DEF Lasting, Effect
<1> QED
  BY <1>1, <1>2, <1>3, <1>4, <1>5 DEF Lasting, Effect

\* It is enough to look at the request that goes on.
LEMMA OneIsHonest ==
  ASSUME HonestInv, Lasting, NEW c \in Caller,
         \A d \in Caller : d # c => req'[d] = req[d],
         Local(req'[c]), Effect(req[c])'
  PROVE  HonestInv'
<1> SUFFICES ASSUME NEW d \in Caller PROVE Local(req'[d]) /\ Effect(req[d])'
  BY DEF HonestInv
<1>1. CASE d = c
  BY <1>1
<1>2. CASE d # c
  BY <1>2, EffectLasts DEF HonestInv
<1> QED
  BY <1>1, <1>2

\* An id that was used up is never handed out again.
LEMMA IdsAreUsedUp ==
  ASSUME ContainerInv, [Next]_vars
  PROVE  /\ nextId \in Nat /\ nextId' \in Nat /\ nextId <= nextId'
         /\ \A id \in Nat : id < nextId /\ Holder(id) = {} => Holder(id)' = {}
<1>0. HostInv /\ HostInv' /\ nextId \in Nat /\ nextId' \in Nat
  BY ContainerInvNext DEF ContainerInv, HostInv
<1>1. CASE nextId' = nextId /\ (box' = box \/ MakesNone)
  <2>1. ASSUME NEW id, Holder(id) = {} PROVE Holder(id)' = {}
    BY <1>1, <2>1 DEF Holder, Existing, MakesNone
  <2> QED
    BY <1>0, <1>1, <2>1
<1>2. ASSUME NEW c \in Caller, Create(c)
      PROVE  \/ nextId' = nextId /\ box' = box
             \/ /\ nextId' = nextId + 1
                /\ \A id \in Nat : id < nextId /\ Holder(id) = {} => Holder(id)' = {}
  <2>1. CASE nextId' = nextId /\ box' = box
    BY <2>1
  <2>2. CASE /\ nextId' = nextId + 1
             /\ box' = [box EXCEPT ![req[c].sel] = [state |-> "created", id |-> nextId]]
    <3>1. ASSUME NEW id \in Nat, id < nextId, NEW x \in Replica, box'[x].id = id
          PROVE  box'[x] = box[x]
      BY <1>0, <2>2, <3>1 DEF HostInv
    <3> QED
      BY <2>2, <3>1 DEF Holder, Existing
  <2> QED
    BY <1>2, <2>1, <2>2 DEF Create
<1>3. ASSUME NEW c \in Caller, Each(c) \/ CallFails(c)
      PROVE  nextId' = nextId /\ (box' = box \/ MakesNone)
  <2>1. UNCHANGED <<nextId, volume>> /\ (req[c].step = "each" => req[c].op \in ByList)
    BY <1>3 DEF Each, CallFails, ContainerInv, RequestInv, Bounded
  <2>2. \/ box' = box
        \/ /\ req[c].step = "each"
           /\ \E id : box' = [x \in Replica |-> IF x \in Holder(id)
                                                THEN After(req[c].op, box[x]) ELSE box[x]]
    BY <1>3 DEF Each, CallFails, Calling
  <2> QED
    BY <1>0, <2>1, <2>2, CallsMakeNone
<1>4. CASE PowerLoss \/ DockerStops
  BY <1>0, <1>1, <1>4, StoppingMakesNone DEF PowerLoss, DockerStops
<1>5. ASSUME NEW c \in Caller,
             \/ AppendWrite(c) \/ AppendSync(c) \/ WriteFails(c) \/ SyncFails(c)
             \/ Unreachable(c) \/ MakeDir(c) \/ ChownDir(c) \/ List(c) \/ EachDone(c)
             \/ NetworkEnsure(c) \/ Probe(c) \/ BuildFrame(c) \/ BuildEnds(c) \/ BuildUnsent(c)
             \/ AuditPage(c) \/ Deny(c) \/ BeginAudit(c)
             \/ \E op \in Op : \E sel \in Selectors(op) : Arrive(c, op, sel)
      PROVE  nextId' = nextId /\ box' = box
  BY <1>5 DEF AppendWrite, AppendSync, WriteFails, SyncFails, Unreachable, MakeDir, ChownDir,
              List, EachDone, NetworkEnsure, Probe, BuildFrame, BuildEnds, BuildUnsent,
              AuditPage, Deny, BeginAudit, Arrive, dockerVars
<1>6. CASE Kill \/ Restart \/ DockerStarts \/ UNCHANGED vars
  BY <1>1, <1>6 DEF Kill, Restart, DockerStarts, vars, dockerVars
<1> HIDE DEF MakesNone
<1> QED
  BY <1>0, <1>1, <1>2, <1>3, <1>4, <1>5, <1>6 DEF Next, Advance

\* A write that left a part, or a sync that failed, is not forgotten.
LEMMA CleanNoMore ==
  ASSUME CountInv, [Next]_vars
  PROVE  Clean' => Clean
<1>1. ASSUME NEW what, Spend(what)
      PROVE  Clean' => Clean
  <2>1. CASE what = "dirty"
    BY <1>1, <2>1, DirtyIsNotClean
  <2>2. CASE what # "dirty"
    BY <1>1, <2>2, SpendCounts DEF Counted, Clean
  <2> QED
    BY <2>1, <2>2
<1>2. (left' = left) \/ \E what : Spend(what)
  <2>1. ASSUME NEW c \in Caller, Advance(c)
        PROVE  left' = left
    BY <2>1 DEF Advance, AppendWrite, AppendSync, Unreachable, MakeDir, ChownDir, Create, List,
                Each, EachDone, NetworkEnsure, Probe, BuildFrame, BuildEnds, AuditPage
  <2>2. ASSUME NEW c \in Caller,
               \/ WriteFails(c) \/ SyncFails(c) \/ CallFails(c) \/ BuildUnsent(c) \/ Deny(c)
               \/ BeginAudit(c) \/ \E op \in Op : \E sel \in Selectors(op) : Arrive(c, op, sel)
        PROVE  \E what : Spend(what)
    BY <2>2 DEF WriteFails, SyncFails, CallFails, BuildUnsent, Deny, BeginAudit, Arrive
  <2>3. CASE Kill \/ PowerLoss \/ Restart \/ DockerStops \/ DockerStarts \/ UNCHANGED vars
    BY <2>3 DEF Kill, PowerLoss, Restart, DockerStops, DockerStarts, vars
  <2> QED
    BY <2>1, <2>2, <2>3 DEF Next
<1> QED
  BY <1>1, <1>2 DEF Clean

\* An image and a network are made, never removed.
LEMMA MadeToStay ==
  ASSUME [Next]_vars
  PROVE  (image' = image \/ image' = TRUE) /\ (net' = net \/ net' = TRUE)
<1> SUFFICES image' \in {image, TRUE} /\ net' \in {net, TRUE}
  OBVIOUS
<1>1. ASSUME NEW c \in Caller, Advance(c)
      PROVE  image' \in {image, TRUE} /\ net' \in {net, TRUE}
  BY <1>1 DEF Advance, AppendWrite, AppendSync, Unreachable, MakeDir, ChownDir, Create, List,
              Each, EachDone, NetworkEnsure, Probe, BuildFrame, BuildEnds, AuditPage, dockerVars
<1>2. ASSUME NEW c \in Caller,
             \/ WriteFails(c) \/ SyncFails(c) \/ CallFails(c) \/ BuildUnsent(c) \/ Deny(c)
             \/ BeginAudit(c) \/ \E op \in Op : \E sel \in Selectors(op) : Arrive(c, op, sel)
      PROVE  image' \in {image, TRUE} /\ net' \in {net, TRUE}
  BY <1>2 DEF WriteFails, SyncFails, CallFails, BuildUnsent, Deny, BeginAudit, Arrive, dockerVars
<1>3. CASE Kill \/ PowerLoss \/ Restart \/ DockerStops \/ DockerStarts \/ UNCHANGED vars
  BY <1>3 DEF Kill, PowerLoss, Restart, DockerStops, DockerStarts, vars, dockerVars
<1> QED
  BY <1>1, <1>2, <1>3 DEF Next

LEMMA StepsLast ==
  ASSUME JournalInv, ContainerInv, [Next]_vars
  PROVE  Lasting
<1>1. (image' = image \/ image' = TRUE) /\ (net' = net \/ net' = TRUE)
  BY MadeToStay
<1>2. image => image'
  BY <1>1, Zenon
<1>3. net => net'
  BY <1>1, Zenon
<1> QED
  BY <1>2, <1>3, IdsAreUsedUp, StepKeeps, CleanNoMore DEF Lasting, JournalInv

\* One request becomes r.
Becomes(c, r) == req' = [req EXCEPT ![c] = r]

\* A request that is recorded: nothing that it has done changes.
LEMMA RecordIsHonest ==
  ASSUME HonestInv, Lasting, DOMAIN req = Caller, NEW c \in Caller,
         NEW out \in {"success", "failure"}, Becomes(c, Record(c, out)),
         req[c].step \in {"prepare", "create", "list", "each", "network", "build"},
         out = "success" /\ req[c].op = "build" => image',
         out = "success" /\ req[c].op = "network" => net'
  PROVE  HonestInv'
<1>1. Local(req[c]) /\ Effect(req[c]) /\ \A d \in Caller : d # c => req'[d] = req[d]
  BY DEF HonestInv, Becomes
<1>2. /\ req'[c] = [req[c] EXCEPT !.step = "write", !.out = out]
      /\ DOMAIN req[c] = DOMAIN Idle
  BY <1>1 DEF Becomes, Record, Local
<1>3. /\ DOMAIN req'[c] = DOMAIN Idle
      /\ req'[c].step = "write" /\ req'[c].out = out
      /\ req'[c].op = req[c].op /\ req'[c].todo = req[c].todo /\ req'[c].did = req[c].did
      /\ req'[c].n = req[c].n /\ req'[c].aux = req[c].aux /\ req'[c].ans = req[c].ans
      /\ req'[c].top = req[c].top /\ req'[c].rec = req[c].rec
  BY <1>2 DEF Idle
<1>4. Local(req'[c])
  BY <1>1, <1>3 DEF Local, Step, Outcome
<1>5. req[c].ans = "none"
  BY <1>1 DEF Local
<1>6. Effect(req[c])'
  BY <1>1, <1>3, <1>5 DEF Effect, Lasting
<1> QED
  BY <1>1, <1>4, <1>6, OneIsHonest

\* The fields of an answered request.
LEMMA Responded ==
  ASSUME NEW c \in Caller, DOMAIN req[c] = DOMAIN Idle, NEW ans
  PROVE  LET r == Respond(c, ans)
         IN  /\ DOMAIN r = DOMAIN Idle /\ r.step = "done" /\ r.ans = ans /\ r.out = "none"
             /\ ans # "error" =>
                  /\ r.op = req[c].op /\ r.todo = req[c].todo /\ r.did = req[c].did
                  /\ r.n = req[c].n /\ r.aux = req[c].aux /\ r.top = req[c].top
             /\ ans = "error" =>
                  r.op = "probe" /\ r.todo = {} /\ r.did = {} /\ r.n = 0
  BY DEF Respond, Idle

\* An answer that says no more than is so.
LEMMA RespondIsHonest ==
  ASSUME HonestInv, Lasting, DOMAIN req = Caller, NEW c \in Caller,
         NEW ans \in Answer \ {"none", "invalid"},
         \/ Becomes(c, Respond(c, ans))
         \/ \E rec : Becomes(c, [Respond(c, ans) EXCEPT !.rec = rec]),
         ans = "denied" => req[c].out = "denied",
         ans = "valid" => req[c].n >= req[c].top,
         ans = "ok" => req[c].op = "probe" \/ req[c].out = "success",
         Clean' /\ ans = "ok" /\ req[c].op # "probe" => InJournal(req[c])'
  PROVE  HonestInv'
<1>1. Local(req[c]) /\ Effect(req[c]) /\ \A d \in Caller : d # c => req'[d] = req[d]
  BY DEF HonestInv, Becomes
<1>2. DOMAIN req[c] = DOMAIN Idle
  BY <1>1 DEF Local
<1> DEFINE r == Respond(c, ans)
<1>3. /\ DOMAIN r = DOMAIN Idle /\ r.step = "done" /\ r.ans = ans /\ r.out = "none"
      /\ ans # "error" =>
           /\ r.op = req[c].op /\ r.todo = req[c].todo /\ r.did = req[c].did
           /\ r.n = req[c].n /\ r.aux = req[c].aux /\ r.top = req[c].top
      /\ ans = "error" =>
           r.op = "probe" /\ r.todo = {} /\ r.did = {} /\ r.n = 0
  BY <1>2, Responded
<1>4. PICK rec : req'[c] = r \/ req'[c] = [r EXCEPT !.rec = rec]
  BY DEF Becomes
<1> HIDE DEF r
<1>5. /\ DOMAIN req'[c] = DOMAIN Idle
      /\ req'[c].step = "done" /\ req'[c].ans = ans /\ req'[c].out = "none"
      /\ ans # "error" =>
           /\ req'[c].op = req[c].op /\ req'[c].todo = req[c].todo /\ req'[c].did = req[c].did
           /\ req'[c].n = req[c].n /\ req'[c].aux = req[c].aux /\ req'[c].top = req[c].top
      /\ ans = "error" =>
           req'[c].op = "probe" /\ req'[c].todo = {} /\ req'[c].did = {} /\ req'[c].n = 0
  BY <1>3, <1>4 DEF Idle
<1>6. Local(req'[c])
  <2>1. CASE ans = "error"
    BY <1>5, <2>1 DEF Local, Step, Op, Outcome, Answer, ByList
  <2>2. CASE ans # "error"
    BY <1>1, <1>5, <2>2 DEF Local, Step, Outcome, Answer
  <2> QED
    BY <2>1, <2>2
<1>7. Effect(req[c])'
  <2>1. CASE ans = "error"
    BY <1>5, <2>1 DEF Effect
  <2>2. CASE ans # "error"
    BY <1>1, <1>5, <2>2 DEF Effect, Lasting
  <2> QED
    BY <2>1, <2>2
<1> QED
  BY <1>1, <1>6, <1>7, OneIsHonest

\* A request that begins, or is forgotten, has done nothing.
LEMMA FreshIsHonest ==
  ASSUME NEW r, DOMAIN r = DOMAIN Idle, r.step \in Step \ {"each", "create", "sync", "done"},
         r.op \in Op \cup {"audit"}, r.out \in {"none", "denied"}, r.ans = "none",
         r.todo = {}, r.did = {}, r.n = 0, ~r.aux,
         r.step = "write" <=> r.out = "denied",
         r.step = "prepare" => r.op = "create",
         r.step = "list" => r.op \in ByList,
         r.step \in {"network", "build", "probe", "audit"} => r.op = r.step
  PROVE  Local(r)
<1>1. IsFiniteSet({}) /\ Cardinality({}) = 0
  BY FS_EmptySet
<1> QED
  BY <1>1 DEF Local, Step, Op, Outcome, Answer, ByList

LEMMA ArrivalIsHonest ==
  ASSUME HonestInv, Lasting, DOMAIN req = Caller, NEW c \in Caller,
         \/ Deny(c) \/ BeginAudit(c)
         \/ \E op \in Op : \E sel \in Selectors(op) : Arrive(c, op, sel)
  PROVE  HonestInv'
<1>1. CASE Deny(c)
  <2>1. /\ req'[c] = [Idle EXCEPT !.step = "write", !.out = "denied"]
        /\ \A d \in Caller : d # c => req'[d] = req[d]
    BY <1>1 DEF Deny
  <2>2. /\ DOMAIN req'[c] = DOMAIN Idle /\ req'[c].step = "write" /\ req'[c].op = "probe"
        /\ req'[c].out = "denied" /\ req'[c].ans = "none" /\ req'[c].n = 0 /\ ~req'[c].aux
        /\ req'[c].todo = {} /\ req'[c].did = {}
    BY <2>1 DEF Idle
  <2>5. Local(req'[c])
    BY <2>2, FreshIsHonest DEF Step, Op
  <2>3. Effect(req[c])'
    BY <2>1 DEF Effect, Idle
  <2> QED
    BY <2>1, <2>5, <2>3, OneIsHonest
<1>2. CASE BeginAudit(c)
  <2>1. /\ req'[c] = [Idle EXCEPT !.step = "audit", !.op = "audit", !.top = durable]
        /\ UNCHANGED durable
        /\ \A d \in Caller : d # c => req'[d] = req[d]
    BY <1>2 DEF BeginAudit, journalVars
  <2>2. /\ DOMAIN req'[c] = DOMAIN Idle /\ req'[c].step = "audit" /\ req'[c].op = "audit"
        /\ req'[c].out = "none" /\ req'[c].ans = "none" /\ req'[c].n = 0 /\ ~req'[c].aux
        /\ req'[c].todo = {} /\ req'[c].did = {}
    BY <2>1 DEF Idle
  <2>5. Local(req'[c])
    BY <2>2, FreshIsHonest DEF Step, Op
  <2>3. Effect(req[c])'
    BY <2>1 DEF Effect, Idle, Lasting, FileInv
  <2> QED
    BY <2>1, <2>5, <2>3, OneIsHonest
<1>3. ASSUME NEW op \in Op, NEW sel \in Selectors(op), Arrive(c, op, sel)
      PROVE  HonestInv'
  <2>1. /\ req'[c] = [Idle EXCEPT !.step = FirstStep(op), !.op = op, !.sel = sel]
        /\ \A d \in Caller : d # c => req'[d] = req[d]
    BY <1>3 DEF Arrive
  <2>2. /\ FirstStep(op) \in {"network", "prepare", "build", "probe", "list"}
        /\ FirstStep(op) = "prepare" => op = "create"
        /\ FirstStep(op) = "list" => op \in ByList
        /\ FirstStep(op) \in {"network", "build", "probe"} => op = FirstStep(op)
    BY DEF FirstStep, Op, ByList
  <2>3. /\ DOMAIN req'[c] = DOMAIN Idle /\ req'[c].step = FirstStep(op) /\ req'[c].op = op
        /\ req'[c].out = "none" /\ req'[c].ans = "none" /\ req'[c].n = 0 /\ ~req'[c].aux
        /\ req'[c].todo = {} /\ req'[c].did = {}
    BY <2>1 DEF Idle
  <2>5. Local(req'[c])
    BY <2>2, <2>3, FreshIsHonest DEF Step
  <2>4. Effect(req[c])'
    BY <2>1, <2>2 DEF Effect, Idle
  <2> QED
    BY <2>1, <2>5, <2>4, OneIsHonest
<1> QED
  BY <1>1, <1>2, <1>3

\* The journal's own steps: what is recorded is what was done.
LEMMA JournalStepIsHonest ==
  ASSUME HonestInv, Lasting, JournalInv, NEW c \in Caller,
         AppendWrite(c) \/ AppendSync(c) \/ WriteFails(c) \/ SyncFails(c)
  PROVE  HonestInv'
<1>1. Local(req[c]) /\ Effect(req[c]) /\ DOMAIN req = Caller /\ DOMAIN req[c] = DOMAIN Idle
  BY DEF HonestInv, JournalInv, MutexInv
<1>2. CASE AppendWrite(c)
  <2>1. /\ req'[c] = [req[c] EXCEPT !.step = "sync"] /\ req[c].step = "write"
        /\ \A d \in Caller : d # c => req'[d] = req[d]
    BY <1>1, <1>2 DEF AppendWrite, Goto
  <2>2. /\ DOMAIN req'[c] = DOMAIN Idle /\ req'[c].step = "sync" /\ req'[c].out = req[c].out
        /\ req'[c].op = req[c].op /\ req'[c].todo = req[c].todo /\ req'[c].did = req[c].did
        /\ req'[c].n = req[c].n /\ req'[c].aux = req[c].aux /\ req'[c].ans = req[c].ans
        /\ req'[c].top = req[c].top
    BY <1>1, <2>1 DEF Idle
  <2>3. Local(req'[c])
    BY <1>1, <2>1, <2>2 DEF Local, Step
  <2>4. req[c].ans = "none"
    BY <1>1, <2>1 DEF Local
  <2>5. Effect(req[c])'
    BY <1>1, <2>2, <2>4 DEF Effect, Lasting
  <2> QED
    BY <2>1, <2>3, <2>5, OneIsHonest
<1>3. CASE AppendSync(c)
  <2>1. /\ req[c].step = "sync" /\ mu = c /\ exec = "up" /\ UNCHANGED <<file, left>>
        /\ durable' = Len(file)
    BY <1>3 DEF AppendSync, Busy, JournalInv, MutexInv
  <2> DEFINE ans == Answered(c)
             rec == IF ans = "ok" THEN seq + 1 ELSE 0
  <2>2. /\ Becomes(c, [Respond(c, ans) EXCEPT !.rec = rec])
        /\ ans \in {"ok", "denied", "error"}
        /\ ans = "denied" => req[c].out = "denied"
        /\ ans = "ok" => req[c].out = "success"
    BY <1>3 DEF AppendSync, Becomes, Answered
  <2>3. ASSUME Clean', ans = "ok" PROVE InJournal(req[c])'
    <3>1. /\ Verifies(file, Len(file)) /\ Len(file) = seq + 1 /\ file # <<>>
          /\ file[Len(file)] = Seal(req[c].out, req[c].n)
      BY <2>1, <2>3 DEF JournalInv, MemoryInv, Clean
    <3>2. /\ req'[c].rec = seq + 1 /\ req'[c].n = req[c].n
      BY <1>1, <2>2, <2>3 DEF Becomes, Respond, Idle
    <3>3. Len(file) \in Nat /\ Len(file) # 0
      BY <3>1 DEF JournalInv, FileInv
    <3> QED
      BY <2>1, <2>2, <2>3, <3>1, <3>2, <3>3 DEF InJournal, Seal
  <2> HIDE DEF ans, rec
  <2> QED
    BY <1>1, <2>2, <2>3, RespondIsHonest DEF Answer
<1>4. CASE WriteFails(c) \/ SyncFails(c)
  <2>1. \/ Becomes(c, Respond(c, "denied")) /\ req[c].out = "denied"
        \/ Becomes(c, Respond(c, "error"))
    BY <1>4 DEF WriteFails, SyncFails, Unwritten, Becomes
  <2> QED
    BY <1>1, <2>1, RespondIsHonest DEF Answer
<1> QED
  BY <1>2, <1>3, <1>4

\* Docker's steps that neither list nor call containers.
LEMMA HostStepIsHonest ==
  ASSUME HonestInv, Lasting, DOMAIN req = Caller, NEW c \in Caller,
         \/ Unreachable(c) \/ MakeDir(c) \/ ChownDir(c) \/ NetworkEnsure(c) \/ Probe(c)
         \/ EachDone(c) \/ CallFails(c) \/ BuildEnds(c) \/ BuildUnsent(c)
  PROVE  HonestInv'
<1>1. Local(req[c]) /\ Effect(req[c])
  BY DEF HonestInv
<1>2. CASE Unreachable(c) \/ CallFails(c) \/ BuildUnsent(c)
  BY <1>2, RecordIsHonest DEF Unreachable, CallFails, BuildUnsent, Calling, Becomes
<1>3. ASSUME UNCHANGED req PROVE HonestInv'
  BY <1>3, EffectLasts DEF HonestInv
<1>4. CASE MakeDir(c)
  BY <1>3, <1>4, RecordIsHonest DEF MakeDir, Calling, Becomes
<1>5. CASE ChownDir(c)
  <2>1. CASE Becomes(c, Record(c, "failure"))
    BY <1>5, <2>1, RecordIsHonest DEF ChownDir, Calling
  <2>2. CASE Becomes(c, Goto(c, "create"))
    <3>1. /\ req'[c] = [req[c] EXCEPT !.step = "create"] /\ req[c].step = "prepare"
          /\ \A d \in Caller : d # c => req'[d] = req[d]
      BY <1>5, <2>2 DEF ChownDir, Calling, Goto, Becomes
    <3>2. /\ DOMAIN req'[c] = DOMAIN Idle /\ req'[c].step = "create" /\ req'[c].out = req[c].out
          /\ req'[c].op = req[c].op /\ req'[c].todo = req[c].todo /\ req'[c].did = req[c].did
          /\ req'[c].n = req[c].n /\ req'[c].aux = req[c].aux /\ req'[c].ans = req[c].ans
          /\ req'[c].top = req[c].top
      BY <1>1, <3>1 DEF Local, Idle
    <3>3. Local(req'[c])
      BY <1>1, <3>1, <3>2 DEF Local, Step
    <3>4. req[c].ans = "none"
      BY <1>1, <3>1 DEF Local
    <3>5. Effect(req[c])'
      BY <1>1, <3>2, <3>4 DEF Effect, Lasting
    <3> QED
      BY <3>1, <3>3, <3>5, OneIsHonest
  <2> QED
    BY <1>5, <2>1, <2>2 DEF ChownDir, Becomes
<1>6. CASE NetworkEnsure(c)
  <2>1. Becomes(c, Record(c, "success")) /\ req[c].step = "network" /\ net' = TRUE
    BY <1>6 DEF NetworkEnsure, Calling, Becomes
  <2>2. req[c].op = "network"
    BY <1>1, <2>1 DEF Local
  <2> QED
    BY <2>1, <2>2, RecordIsHonest
<1>7. CASE Probe(c)
  <2>1. /\ req[c].step = "probe"
        /\ Becomes(c, Respond(c, "ok")) \/ Becomes(c, Respond(c, "unreachable"))
    BY <1>7 DEF Probe, Calling, Becomes
  <2>2. req[c].op = "probe"
    BY <1>1, <2>1 DEF Local
  <2> QED
    BY <2>1, <2>2, RespondIsHonest DEF Answer
<1>8. CASE EachDone(c)
  <2>1. Becomes(c, Record(c, "success")) /\ req[c].step = "each"
    BY <1>8 DEF EachDone, Calling, Becomes
  <2>2. req[c].op \notin {"build", "network"}
    BY <1>1, <2>1 DEF Local, ByList
  <2> QED
    BY <2>1, <2>2, RecordIsHonest
<1>9. CASE BuildEnds(c)
  <2>1. /\ req[c].step = "build"
        /\ \/ Becomes(c, Record(c, "success")) /\ req[c].aux
           \/ Becomes(c, Record(c, "failure"))
    BY <1>9 DEF BuildEnds, Calling, Becomes, Proven
  <2>2. req[c].op = "build" /\ (req[c].aux => image')
    BY <1>1, <2>1 DEF Local, Effect, Lasting
  <2> QED
    BY <2>1, <2>2, RecordIsHonest
<1> QED
  BY <1>2, <1>4, <1>5, <1>6, <1>7, <1>8, <1>9

\* A frame that names an image is sent when there is one.
LEMMA FrameIsHonest ==
  ASSUME HonestInv, Lasting, DOMAIN req = Caller, NEW c \in Caller, BuildFrame(c)
  PROVE  HonestInv'
<1>1. Local(req[c]) /\ Effect(req[c]) /\ req[c].step = "build"
  BY DEF HonestInv, BuildFrame, Calling
<1>2. PICK r : /\ req' = [req EXCEPT ![c] = r]
               /\ \/ r = [req[c] EXCEPT !.aux = TRUE] /\ image' = TRUE
                  \/ r = [req[c] EXCEPT !.err = TRUE]
  BY DEF BuildFrame
<1>3. /\ \A d \in Caller : d # c => req'[d] = req[d]
      /\ req'[c] = r
  BY <1>2
<1>4. /\ DOMAIN req'[c] = DOMAIN Idle /\ req'[c].step = "build" /\ req'[c].out = req[c].out
      /\ req'[c].op = req[c].op /\ req'[c].todo = req[c].todo /\ req'[c].did = req[c].did
      /\ req'[c].n = req[c].n /\ req'[c].ans = req[c].ans /\ req'[c].top = req[c].top
      /\ req'[c].aux = req[c].aux \/ image' = TRUE
  BY <1>1, <1>2, <1>3 DEF Local, Idle
<1>5. Local(req'[c])
  BY <1>1, <1>4 DEF Local
<1>6. req[c].ans = "none" /\ req[c].out = "none" /\ req[c].op = "build"
  BY <1>1 DEF Local
<1>7. Effect(req[c])'
  BY <1>1, <1>4, <1>6 DEF Effect, Lasting
<1> QED
  BY <1>3, <1>5, <1>7, OneIsHonest

\* An operation counts the containers it has dealt with, each once.
LEMMA ContainerStepIsHonest ==
  ASSUME HonestInv, Lasting, ContainerInv, NEW c \in Caller, Create(c) \/ List(c) \/ Each(c)
  PROVE  HonestInv'
<1>1. /\ Local(req[c]) /\ Effect(req[c]) /\ DOMAIN req = Caller /\ DOMAIN req[c] = DOMAIN Idle
      /\ nextId \in Nat /\ \A x \in Replica : box[x].id \in Nat /\ box[x].id < nextId
      /\ box \in [Replica -> [state : State, id : Nat]]
  BY DEF HonestInv, Local, ContainerInv, RequestInv, HostInv
<1>2. CASE Create(c)
  <2>1. CASE Becomes(c, Record(c, "failure"))
    BY <1>1, <1>2, <2>1, RecordIsHonest DEF Create, Calling
  <2>2. CASE /\ Becomes(c, [Record(c, "success") EXCEPT !.did = {nextId}])
             /\ nextId' = nextId + 1
    <3>1. req[c].step = "create" /\ req[c].op = "create" /\ req[c].ans = "none"
      BY <1>1, <1>2 DEF Create, Calling, Local
    <3>2. /\ DOMAIN req'[c] = DOMAIN Idle /\ req'[c].step = "write" /\ req'[c].out = "success"
          /\ req'[c].op = "create" /\ req'[c].todo = req[c].todo /\ req'[c].did = {nextId}
          /\ req'[c].n = req[c].n /\ req'[c].aux = req[c].aux /\ req'[c].ans = "none"
          /\ req'[c].top = req[c].top
          /\ \A d \in Caller : d # c => req'[d] = req[d]
      BY <1>1, <2>2, <3>1 DEF Becomes, Record, Idle
    <3>3. Local(req'[c])
      BY <1>1, <3>1, <3>2 DEF Local, Step, Outcome, ByList
    <3>4. \A id \in req'[c].todo \cup req'[c].did : id \in Nat /\ id < nextId'
      BY <1>1, <2>2, <3>2 DEF Effect
    <3>5. Effect(req[c])'
      BY <3>2, <3>4 DEF Effect
    <3> QED
      BY <3>2, <3>3, <3>5, OneIsHonest
  <2> QED
    BY <1>2, <2>1, <2>2 DEF Create, Becomes
<1>3. CASE List(c)
  <2>1. /\ req[c].step = "list" /\ UNCHANGED <<box, nextId>>
        /\ req' = [req EXCEPT ![c].step = "each", ![c].top = nextId,
                              ![c].todo = Ids(Selected(req[c].sel))]
    BY <1>3 DEF List, Calling
  <2>2. /\ req[c].op \in ByList /\ req[c].did = {} /\ req[c].n = 0 /\ req[c].ans = "none"
        /\ req[c].sel \in Replica \cup {Whole}
    BY <1>1, <2>1 DEF Local, ContainerInv, RequestInv, Bounded
  <2>3. /\ DOMAIN req'[c] = DOMAIN Idle /\ req'[c].step = "each" /\ req'[c].out = req[c].out
        /\ req'[c].op = req[c].op /\ req'[c].todo = Ids(Selected(req[c].sel)) /\ req'[c].did = {}
        /\ req'[c].n = 0 /\ req'[c].aux = req[c].aux /\ req'[c].ans = "none"
        /\ \A d \in Caller : d # c => req'[d] = req[d]
    BY <1>1, <2>1, <2>2 DEF Idle
  <2>4. Local(req'[c])
    <3>1. IsFiniteSet({}) /\ Cardinality({}) = 0
      BY FS_EmptySet
    <3> QED
      BY <1>1, <2>1, <2>2, <2>3, <3>1 DEF Local, Step, ByList
  <2>5. \A id \in Ids(Selected(req[c].sel)) : id \in Nat /\ id < nextId
    BY <1>1, <2>2 DEF Ids, Existing, Selected
  <2>6. Effect(req[c])'
    BY <2>1, <2>2, <2>3, <2>5 DEF Effect, ByList
  <2> QED
    BY <2>3, <2>4, <2>6, OneIsHonest
<1>4. CASE Each(c)
  <2>1. req[c].step = "each" /\ UNCHANGED nextId /\ req[c].op \in ByList /\ req[c].ans = "none"
    BY <1>1, <1>4 DEF Each, Calling, Local
  <2>2. CASE Becomes(c, Record(c, "failure"))
    BY <1>1, <2>1, <2>2, RecordIsHonest
  <2>3. ASSUME NEW id \in req[c].todo,
               box' = [x \in Replica |-> IF x \in Holder(id)
                                        THEN After(req[c].op, box[x]) ELSE box[x]],
               req' = [req EXCEPT ![c].todo = @ \ {id}, ![c].n = @ + 1, ![c].did = @ \cup {id}]
        PROVE  HonestInv'
    <3>1. /\ DOMAIN req'[c] = DOMAIN Idle /\ req'[c].step = "each" /\ req'[c].out = req[c].out
          /\ req'[c].op = req[c].op /\ req'[c].todo = req[c].todo \ {id}
          /\ req'[c].did = req[c].did \cup {id} /\ req'[c].n = req[c].n + 1
          /\ req'[c].aux = req[c].aux /\ req'[c].ans = "none"
          /\ \A d \in Caller : d # c => req'[d] = req[d]
      BY <1>1, <2>1, <2>3 DEF Idle
    <3>2. /\ IsFiniteSet(req[c].did) /\ req[c].n = Cardinality(req[c].did)
          /\ req[c].did \cap req[c].todo = {} /\ req[c].n \in Nat
      BY <1>1, <2>1 DEF Local
    <3>3. /\ IsFiniteSet(req[c].did \cup {id})
          /\ req[c].n + 1 = Cardinality(req[c].did \cup {id})
      BY <2>3, <3>2, FS_AddElement
    <3>4. Local(req'[c])
      BY <1>1, <2>1, <3>1, <3>2, <3>3 DEF Local, Outcome, ByList
    <3>5. req[c].op = "remove" => Holder(id)' = {}
      <4> SUFFICES ASSUME req[c].op = "remove", NEW x \in Replica, box'[x].id = id,
                          box'[x].state # "absent"
                   PROVE  FALSE
        BY DEF Holder, Existing
      <4>1. CASE x \in Holder(id)
        BY <1>1, <2>3, <4>1 DEF After
      <4>2. CASE x \notin Holder(id)
        BY <2>3, <4>2 DEF Holder, Existing
      <4> QED
        BY <4>1, <4>2
    <3>6. req[c].op = "remove" => \A i \in req[c].did : Holder(i)' = {}
      BY <1>1 DEF Effect, Lasting
    <3>7. Effect(req[c])'
      BY <1>1, <2>1, <2>3, <3>1, <3>5, <3>6 DEF Effect, ByList
    <3> QED
      BY <3>1, <3>4, <3>7, OneIsHonest
  <2> QED
    BY <1>4, <2>2, <2>3 DEF Each, Becomes
<1> QED
  BY <1>2, <1>3, <1>4

\* The least of a set of numbers.
LEMMA MinIs ==
  ASSUME NEW S \in SUBSET Nat, NEW m \in S, \A x \in S : m <= x
  PROVE  Min(S) = m
<1>1. \E x \in S : \A y \in S : x <= y
  OBVIOUS
<1>2. Min(S) \in S /\ \A y \in S : Min(S) <= y
  BY <1>1 DEF Min
<1>3. Min(S) \in Nat /\ m \in Nat /\ Min(S) <= m /\ m <= Min(S)
  BY <1>2
<1> QED
  BY <1>3

LEMMA MinOfTwo ==
  ASSUME NEW m \in Nat, NEW n \in Nat
  PROVE  Min({m, n}) = IF m <= n THEN m ELSE n
<1>1. {m, n} \in SUBSET Nat /\ m \in {m, n} /\ n \in {m, n}
  OBVIOUS
<1>2. CASE m <= n
  <2>1. \A x \in {m, n} : m <= x
    BY <1>2
  <2> QED
    BY <1>1, <1>2, <2>1, MinIs
<1>3. CASE ~(m <= n)
  <2>1. \A x \in {m, n} : n <= x
    BY <1>3
  <2> QED
    BY <1>1, <1>3, <2>1, MinIs
<1> QED
  BY <1>2, <1>3

\* A page that is read begins with the next record, and is empty only when
\* there is none.
LEMMA PageFacts ==
  ASSUME FileInv, NEW n \in Nat, ~ReadFails(n)
  PROVE  /\ Page(n) = <<>> => Len(file) <= n
         /\ Page(n) # <<>> => Page(n)[1].seq = n + 1 /\ Len(Page(n)) \in Nat
<1>1. PICK T : file \in Seq(T)
  BY DEF FileInv
<1>2. Len(file) \in Nat /\ n \in Nat /\ PageSize \in Nat /\ PageSize >= 1
  BY <1>1, ExecutorAssumption
<1>d. DOMAIN file = 1..Len(file)
  BY <1>1
<1> DEFINE last == Min({n + PageSize, Len(file)})
           S == {i \in DOMAIN file : file[i] = Torn \/ file[i].seq > n}
           first == Min(S \cup {Len(file) + 1})
<1>3. /\ last \in Nat /\ last <= Len(file)
      /\ Len(file) <= n => last = Len(file)
      /\ n < Len(file) => n + 1 <= last
  <2>1. n + PageSize \in Nat
    BY <1>2
  <2>2. last = IF n + PageSize <= Len(file) THEN n + PageSize ELSE Len(file)
    BY <1>2, <2>1, MinOfTwo
  <2> HIDE DEF last
  <2> QED
    BY <1>2, <2>2
<1>4. \A i \in 1..last : file[i] # Torn /\ file[i].seq = i
  BY DEF ReadFails, Verifies, Link
<1> HIDE DEF last, S, first
<1>5. CASE Len(file) <= n
  <2>1. last = Len(file)
    BY <1>2, <1>3, <1>5
  <2>2. S = {}
    BY <1>2, <1>d, <1>4, <1>5, <2>1 DEF S
  <2>3. first = Len(file) + 1
    BY <1>2, <2>2, MinIs DEF first
  <2>4. Page(n) = SubSeq(file, first, Min({first + PageSize - 1, Len(file)}))
    BY DEF Page, FromFirst, S, first
  <2>5. Min({first + PageSize - 1, Len(file)}) = Len(file)
    <3>1. first + PageSize - 1 \in Nat /\ Len(file) <= first + PageSize - 1
      BY <1>2, <2>3
    <3> QED
      BY <1>2, <3>1, MinOfTwo
  <2>6. Page(n) = <<>>
    BY <1>1, <1>2, <2>3, <2>4, <2>5
  <2> QED
    BY <1>5, <2>6
<1>6. CASE n < Len(file)
  <2>1. n + 1 \in 1..last
    BY <1>2, <1>3, <1>6
  <2>2. n + 1 \in S /\ \A i \in S : n + 1 <= i
    <3>1. n + 1 \in S
      BY <1>2, <1>d, <1>4, <1>6, <2>1 DEF S
    <3>2. ASSUME NEW i \in S PROVE n + 1 <= i
      <4>1. i \in 1..Len(file) /\ (file[i] = Torn \/ file[i].seq > n)
        BY <1>2, <1>d, <3>2 DEF S
      <4>2. i \in 1..last => i > n
        BY <1>4, <4>1
      <4> QED
        BY <1>2, <1>3, <2>1, <4>1, <4>2
    <3> QED
      BY <3>1, <3>2
  <2>3. first = n + 1
    <3>1. S \cup {Len(file) + 1} \in SUBSET Nat
      BY <1>2, <1>d DEF S
    <3>2. \A i \in S \cup {Len(file) + 1} : n + 1 <= i
      BY <1>2, <1>6, <2>2
    <3> QED
      BY <2>2, <3>1, <3>2, MinIs DEF first
  <2>4. Page(n) = SubSeq(file, n + 1, last)
    <3>1. first + PageSize - 1 = n + PageSize
      BY <1>2, <2>3
    <3> QED
      BY <2>3, <3>1 DEF Page, FromFirst, S, first, last
  <2>5. /\ Len(Page(n)) = last - n /\ Page(n)[1] = file[n + 1]
    BY <1>1, <1>2, <1>3, <2>1, <2>4
  <2> QED
    BY <1>3, <1>4, <1>6, <2>1, <2>5
<1> QED
  BY <1>2, <1>5, <1>6

\* A verification that ends has read every record that was on disk when it
\* began; one that is answered an empty page has read them all.
LEMMA AuditIsHonest ==
  ASSUME HonestInv, Lasting, DOMAIN req = Caller, NEW c \in Caller, AuditPage(c)
  PROVE  HonestInv'
<1>1. /\ Local(req[c]) /\ Effect(req[c]) /\ req[c].step = "audit"
      /\ durable \in Nat /\ durable <= Len(file) /\ Len(file) \in Nat /\ FileInv
  BY DEF HonestInv, AuditPage, Lasting, FileInv
<1> DEFINE n == req[c].n
<1>2. n \in Nat /\ req[c].op = "audit" /\ req[c].top \in Nat /\ req[c].top <= durable
  BY <1>1 DEF Local, Effect
<1>3. \/ Becomes(c, Respond(c, "unreachable"))
      \/ ~ReadFails(n) /\ Page(n) = <<>> /\ Becomes(c, Respond(c, "valid"))
      \/ ~ReadFails(n) /\ Page(n) # <<>> /\ Page(n)[1].seq # n + 1
      \/ /\ ~ReadFails(n) /\ Page(n) # <<>>
         /\ Becomes(c, [req[c] EXCEPT !.n = n + Len(Page(n))])
  BY DEF AuditPage, Becomes
<1>4. ~ReadFails(n) => /\ Page(n) = <<>> => Len(file) <= n
                       /\ Page(n) # <<>> => Page(n)[1].seq = n + 1 /\ Len(Page(n)) \in Nat
  BY <1>1, <1>2, PageFacts
<1>5. CASE Becomes(c, Respond(c, "unreachable"))
  BY <1>5, RespondIsHonest DEF Answer
<1>6. CASE ~ReadFails(n) /\ Page(n) = <<>> /\ Becomes(c, Respond(c, "valid"))
  <2>1. req[c].top <= req[c].n
    BY <1>1, <1>2, <1>4, <1>6
  <2>2. req[c].n >= req[c].top
    BY <1>2, <2>1
  <2> QED
    BY <1>6, <2>2, RespondIsHonest DEF Answer
<1>7. CASE /\ ~ReadFails(n) /\ Page(n) # <<>>
           /\ Becomes(c, [req[c] EXCEPT !.n = n + Len(Page(n))])
  <2>1. n + Len(Page(n)) \in Nat
    BY <1>2, <1>4, <1>7
  <2>2. /\ DOMAIN req'[c] = DOMAIN Idle /\ req'[c].step = "audit" /\ req'[c].out = req[c].out
        /\ req'[c].op = "audit" /\ req'[c].todo = req[c].todo /\ req'[c].did = req[c].did
        /\ req'[c].n \in Nat /\ req'[c].aux = req[c].aux /\ req'[c].ans = req[c].ans
        /\ req'[c].top = req[c].top
        /\ \A d \in Caller : d # c => req'[d] = req[d]
    BY <1>1, <1>2, <1>7, <2>1 DEF Becomes, Local, Idle
  <2>3. req[c].ans = "none" /\ req[c].out = "none"
    BY <1>1 DEF Local
  <2>4. Local(req'[c])
    BY <1>1, <1>2, <2>2, <2>3 DEF Local, ByList
  <2>5. durable' \in Nat /\ durable <= durable'
    BY DEF Lasting, Keeps, FileInv
  <2>6. req[c].top <= durable'
    BY <1>1, <1>2, <2>5
  <2>7. Effect(req[c])'
    BY <1>1, <1>2, <2>2, <2>3, <2>6 DEF Effect, Lasting
  <2> QED
    BY <2>2, <2>4, <2>7, OneIsHonest
<1> QED
  BY <1>3, <1>4, <1>5, <1>6, <1>7

\* What happens to the processes: a request is lost, or goes on.
LEMMA ProcessIsHonest ==
  ASSUME HonestInv, Lasting, JournalInv,
         Kill \/ PowerLoss \/ Restart \/ DockerStops \/ DockerStarts \/ UNCHANGED vars
  PROVE  HonestInv'
<1> SUFFICES ASSUME NEW c \in Caller PROVE Local(req'[c]) /\ Effect(req[c])'
  BY DEF HonestInv
<1>1. CASE req'[c] = req[c]
  BY <1>1, EffectLasts DEF HonestInv
<1>2. CASE req'[c] = Idle
  <2>1. Local(req'[c])
    BY <1>2, FreshIsHonest DEF Idle, Step, Op
  <2>2. Effect(req[c])'
    BY <1>2 DEF Effect, Idle
  <2> QED
    BY <2>1, <2>2
<1>3. CASE req'[c] = [Idle EXCEPT !.step = "done", !.ans = "error"]
  <2>1. Local(req'[c])
    BY <1>3, FS_EmptySet DEF Local, Idle, Step, Op, Outcome, Answer, ByList
  <2>2. Effect(req[c])'
    BY <1>3 DEF Effect, Idle
  <2> QED
    BY <2>1, <2>2
<1>4. \/ req'[c] = req[c] \/ req'[c] = Idle
      \/ req'[c] = [Idle EXCEPT !.step = "done", !.ans = "error"]
  <2> HIDE DEF Idle
  <2> QED
    BY DEF Kill, PowerLoss, Restart, DockerStops, DockerStarts, vars, Lost
<1> QED
  BY <1>1, <1>2, <1>3, <1>4

LEMMA HonestInvInit == Init => HonestInv
<1> SUFFICES ASSUME Init, NEW c \in Caller PROVE Local(req[c]) /\ Effect(req[c])
  BY DEF HonestInv
<1>1. req[c] = Idle
  BY DEF Init
<1>2. Local(Idle)
  BY FreshIsHonest DEF Idle, Step, Op
<1>3. Effect(Idle)
  BY DEF Effect, Idle
<1> QED
  BY <1>1, <1>2, <1>3

ExecInv == JournalInv /\ ContainerInv /\ HonestInv

LEMMA ExecInvNext == ExecInv /\ [Next]_vars => ExecInv'
<1> SUFFICES ASSUME ExecInv, [Next]_vars PROVE ExecInv'
  OBVIOUS
<1>0. /\ JournalInv /\ ContainerInv /\ HonestInv /\ DOMAIN req = Caller
      /\ JournalInv' /\ ContainerInv' /\ Lasting
  BY JournalInvNext, ContainerInvNext, StepsLast DEF ExecInv, ContainerInv, RequestInv
<1>1. ASSUME NEW c \in Caller, Advance(c)
      PROVE  HonestInv'
  BY <1>0, <1>1, JournalStepIsHonest, HostStepIsHonest, FrameIsHonest, ContainerStepIsHonest,
     AuditIsHonest DEF Advance
<1>2. ASSUME NEW c \in Caller,
             \/ WriteFails(c) \/ SyncFails(c) \/ CallFails(c) \/ BuildUnsent(c) \/ Deny(c)
             \/ BeginAudit(c) \/ \E op \in Op : \E sel \in Selectors(op) : Arrive(c, op, sel)
      PROVE  HonestInv'
  BY <1>0, <1>2, JournalStepIsHonest, HostStepIsHonest, ArrivalIsHonest
<1>3. CASE Kill \/ PowerLoss \/ Restart \/ DockerStops \/ DockerStarts \/ UNCHANGED vars
  BY <1>0, <1>3, ProcessIsHonest DEF ExecInv
<1> QED
  BY <1>0, <1>1, <1>2, <1>3 DEF Next, ExecInv

\* The inductive invariant of the executor: of its journal, of the containers
\* and of every request between two calls.
THEOREM ExecutorCorrect == Spec => []ExecInv
<1>1. Init => ExecInv
  BY JournalInvInit, ContainerInvInit, HonestInvInit DEF ExecInv
<1> QED
  BY <1>1, ExecInvNext, PTL DEF Spec

\* What kadrand is told is what happened, whatever is interrupted, killed or
\* fails: an acknowledged operation had its effect, counted every container it
\* dealt with once and has its record on disk, and a denied one touched
\* nothing (record.go's doing, then writing, then answering).
THEOREM AnswersAreTrue == Spec => []AnswersAreHonest
<1>1. ASSUME ExecInv, NEW c \in Caller
      PROVE  /\ req[c].ans = "denied" => req[c].did = {}
             /\ Acknowledged(c) =>
                  /\ Clean => Recorded(c)
                  /\ req[c].op \in {"start", "stop", "remove"} => req[c].n = Cardinality(req[c].did)
                  /\ req[c].op = "remove" => \A id \in req[c].did : Holder(id) = {}
                  /\ req[c].op = "build" => image
                  /\ req[c].op = "network" => net
  BY <1>1 DEF ExecInv, HonestInv, Local, Effect, InJournal, Recorded, Acknowledged, ByList
<1>2. ExecInv => AnswersAreHonest
  BY <1>1 DEF AnswersAreHonest
<1> QED
  BY <1>2, ExecutorCorrect, PTL

\* Reading the journal page by page beside appends, crashes and restarts never
\* finds the chain broken, and a verdict "valid" covers every record that was
\* on disk when the verification began (journal.go:206, audit.go).
THEOREM VerdictsCover == Spec => []VerdictCovers
<1>1. ExecInv => VerdictCovers
  BY DEF ExecInv, HonestInv, Local, VerdictCovers
<1> QED
  BY <1>1, ExecutorCorrect, PTL

-----------------------------------------------------------------------------
\* What the requests do not hold.
Made == net \in BOOLEAN /\ image \in BOOLEAN

SystemInv ==
  /\ exec \in {"up", "down", "refused"} /\ docker \in {"up", "down"}
  /\ version \in {"unasked", "agreed", "failed"}
  /\ volume \in {"none", "root", "app"}
  /\ seq \in Nat

LEMMA MadeInvNext ==
  ASSUME Made, [Next]_vars
  PROVE  Made'
<1>1. (image' = image \/ image' = TRUE) /\ (net' = net \/ net' = TRUE)
  BY MadeToStay
<1> QED
  BY <1>1, Zenon DEF Made

LEMMA SystemInvNext ==
  ASSUME FileInv, SystemInv, [Next]_vars
  PROVE  SystemInv'
<1> USE DEF SystemInv
<1>0. Len(file) \in Nat
  BY DEF FileInv
<1>1. ASSUME NEW c \in Caller,
             \/ AppendWrite(c) \/ AppendSync(c) \/ WriteFails(c) \/ SyncFails(c)
             \/ EachDone(c) \/ BuildEnds(c) \/ BuildUnsent(c)
             \/ Deny(c) \/ BeginAudit(c) \/ AuditPage(c)
             \/ \E op \in Op : \E sel \in Selectors(op) : Arrive(c, op, sel)
      PROVE  SystemInv'
  <2>1. /\ UNCHANGED <<exec, docker, version, volume>>
        /\ seq' = seq \/ seq' = seq + 1
    BY <1>1 DEF AppendWrite, AppendSync, WriteFails, SyncFails, EachDone,
                BuildEnds, BuildUnsent, Deny, BeginAudit, AuditPage, Arrive,
                dockerVars, journalVars
  <2> QED
    BY <2>1
<1>2. ASSUME NEW c \in Caller,
             \/ Unreachable(c) \/ MakeDir(c) \/ ChownDir(c) \/ Create(c) \/ List(c) \/ Each(c)
             \/ NetworkEnsure(c) \/ Probe(c) \/ BuildFrame(c) \/ CallFails(c)
      PROVE  SystemInv'
  <2>1. /\ UNCHANGED <<exec, docker, seq>>
        /\ volume' \in {volume, "root", "app"} /\ version' \in {version, "agreed", "failed"}
    BY <1>2 DEF Unreachable, MakeDir, ChownDir, Create, List, Each, NetworkEnsure, Probe,
                BuildFrame, CallFails, Negotiate, journalVars
  <2> QED
    BY <2>1
<1>3. CASE Kill \/ PowerLoss \/ Restart \/ DockerStops \/ DockerStarts \/ UNCHANGED vars
  BY <1>0, <1>3 DEF Kill, PowerLoss, Restart, DockerStops, DockerStarts, vars, dockerVars,
                    journalVars
<1> QED
  BY <1>1, <1>2, <1>3 DEF Next, Advance

\* The types of the executor's state; and Journal.mu is held across a sync
\* only, by a goroutine that lives (journal.go:132-204).
THEOREM ExecutorTypes == Spec => []ExecTypeOK
<1>1. Init => SystemInv
  BY DEF Init, FreshHost, KnownHost, SystemInv
<1>2. Init => Made
  BY Zenon DEF Init, FreshHost, KnownHost, Made
<1>3. ExecInv /\ SystemInv /\ Made => ExecTypeOK
  <2> SUFFICES ASSUME ExecInv, SystemInv, Made PROVE ExecTypeOK
    OBVIOUS
  <2>1. /\ HostInv /\ FileInv /\ MutexInv /\ HonestInv
    BY DEF ExecInv, ContainerInv, JournalInv
  <2>2. ASSUME NEW c \in Caller
        PROVE  /\ req[c].step \in Step /\ req[c].op \in Op \cup {"audit"}
               /\ req[c].out \in Outcome /\ req[c].ans \in Answer
               /\ req[c].todo \cup req[c].did \subseteq 0..nextId - 1
               /\ (mu = c) <=> (req[c].step = "sync")
    BY <2>1 DEF HostInv, HonestInv, Local, Effect, MutexInv
  <2> QED
    BY <2>1, <2>2 DEF ExecTypeOK, SystemInv, Made, HostInv, FileInv, MutexInv
<1>4. ExecInv => FileInv
  BY DEF ExecInv, JournalInv
<1> QED
  BY <1>1, <1>2, <1>3, <1>4, MadeInvNext, SystemInvNext, ExecutorCorrect, PTL DEF Spec

=============================================================================
