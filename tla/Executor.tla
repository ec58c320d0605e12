------------------------------ MODULE Executor ------------------------------
(***************************************************************************)
(* kadran-exec, the privileged executor: requests of kadrand, each of      *)
(* which is validated, carried out on the Docker Engine and written to the *)
(* hash-chained journal before it is answered; the journal's file across   *)
(* crashes and restarts; and kadrand reading the journal page by page to   *)
(* verify it.                                                              *)
(*                                                                         *)
(* Every request runs in its own goroutine; req[c] is what it holds        *)
(* between two calls.  The actions are calls of Docker, writes and syncs   *)
(* of the file, and what happens to the processes.  The containers are the *)
(* replicas of one release; a container created again under the same name  *)
(* gets a new id, as in Docker.                                            *)
(*                                                                         *)
(* A journal record keeps its number, the hash of its predecessor, the     *)
(* outcome and the number of containers affected; action, target and       *)
(* parameters are left out.  A torn line stands for every line that does   *)
(* not decode.                                                             *)
(***************************************************************************)
EXTENDS Naturals, Sequences, FiniteSets, FiniteSetsExt

CONSTANTS
  Caller,         \* concurrent calls of kadrand
  Replica,        \* replica names of the release
  Zero,           \* the hash before the first record
  Nobody,         \* Journal.mu is free
  PageSize,       \* records per page of a verification
  MaxRequests,    \* bound: requests of one behaviour
  MaxFaults,      \* bound: kills, power losses, stops of Docker, Docker calls that
                  \* fail by themselves, journal writes that write nothing
  MaxDirtyFails   \* bound: journal writes that leave a part, syncs that fail

ASSUME ExecutorAssumption ==
  /\ PageSize \in Nat \ {0}
  /\ Nobody \notin Caller
  /\ MaxDirtyFails \in Nat

VARIABLES
  exec,       \* the executor process: "up", "down" or "refused" to start
  docker,     \* the Docker Engine: "up" or "down"
  version,    \* Client.once: "unasked", "agreed" or "failed"
  box,        \* the container of each replica: its state and its id
  nextId,     \* id of the next container
  net,        \* the app's network exists
  image,      \* the release's image exists
  volume,     \* the app's volume directory: "none", "root" owned or "app" owned
  file,       \* the lines of the journal file as the kernel has them
  durable,    \* how many of them a sync has put on disk
  head, seq,  \* Journal.head and Journal.seq, in the executor's memory
  mu,         \* who holds Journal.mu
  req,        \* the requests
  left        \* what is left of each bound

dockerVars == <<docker, version, box, nextId, net, image, volume>>
journalVars == <<file, durable, head, seq, mu>>
vars == <<exec, dockerVars, journalVars, req, left>>

Whole == "all"              \* a selector without a replica
Op == {"network", "create", "start", "stop", "remove", "build", "probe"}    \* of the executor
State == {"absent", "created", "running", "exited"}
Step == {"idle", "prepare", "create", "list", "each", "network", "probe",
         "build", "audit", "write", "sync", "done"}
Outcome == {"none", "success", "failure", "denied"}
Answer == {"none", "ok", "error", "denied", "unreachable",
           "valid", "invalid"}

Selected(sel) == IF sel = Whole THEN Replica ELSE {sel}

Idle == [step |-> "idle", op |-> "probe", sel |-> Whole, todo |-> {},
         top |-> 0, n |-> 0, aux |-> FALSE, err |-> FALSE,
         out |-> "none", ans |-> "none", rec |-> 0, did |-> {}]

Busy(c) == exec = "up" /\ req[c].step # "idle"
Free(c) == req[c].step \in {"idle", "done"}
Spend(what) == left[what] > 0 /\ left' = [left EXCEPT ![what] = @ - 1]

-----------------------------------------------------------------------------
(* The journal file. *)

Torn == [torn |-> TRUE]     \* a line that does not decode

Link(rec, s, prev) == rec.seq = s /\ rec.prev = prev

\* Verifier.Next over the first n lines.
Verifies(lines, n) ==
  \A i \in 1..n : /\ lines[i] # Torn
                  /\ Link(lines[i], i, IF i = 1 THEN Zero ELSE lines[i - 1])

Seal(out, n) == [seq |-> seq + 1, prev |-> head, out |-> out, n |-> n]

\* A write appends to the file, and so to a line that was left torn.
WithLine(lines, line) ==
  IF lines # <<>> /\ lines[Len(lines)] = Torn
  THEN lines
  ELSE Append(lines, line)

\* Of a request that is over only what its answer speaks of is kept.
Respond(c, ans) ==
  [IF ans = "error" THEN Idle ELSE [req[c] EXCEPT !.sel = Whole, !.out = "none"]
    EXCEPT !.step = "done", !.ans = ans]

\* record: the goroutine goes on to append what it did.
Record(c, out) == [req[c] EXCEPT !.step = "write", !.out = out]
Goto(c, step) == [req[c] EXCEPT !.step = step]

AppendWrite(c) ==
  /\ Busy(c) /\ req[c].step = "write" /\ mu = Nobody
  /\ mu' = c
  /\ file' = WithLine(file, Seal(req[c].out, req[c].n))
  /\ req' = [req EXCEPT ![c] = Goto(c, "sync")]
  /\ UNCHANGED <<exec, dockerVars, durable, head, seq, left>>

\* denied answers its own error whatever became of the record; completed
\* answers an error when the record could not be written, and kadrand takes a
\* start that found no container for a failure.
Answered(c) ==
  CASE req[c].out = "denied" -> "denied"
    [] req[c].out = "success" /\ (req[c].op = "start" => req[c].n > 0) -> "ok"
    [] OTHER -> "error"

AppendSync(c) ==
  /\ Busy(c) /\ req[c].step = "sync"
  /\ durable' = Len(file)
  /\ head' = Seal(req[c].out, req[c].n)
  /\ seq' = seq + 1
  /\ mu' = Nobody
  /\ req' = [req EXCEPT ![c] = [Respond(c, Answered(c)) EXCEPT
                                  !.rec = IF Answered(c) = "ok" THEN seq + 1 ELSE 0]]
  /\ UNCHANGED <<exec, dockerVars, file, left>>

\* Mutant: completed drops the error of the record.
UnwrittenIgnored(c) == req' = [req EXCEPT ![c] = Respond(c, Answered(c))]

Unwritten(c) ==
  req' = [req EXCEPT ![c] =
            Respond(c, IF req[c].out = "denied" THEN "denied" ELSE "error")]

\* The write fails before a byte is written, or after a part of the line.
WriteFails(c) ==
  /\ Busy(c) /\ req[c].step = "write" /\ mu = Nobody
  /\ \/ Spend("faults") /\ UNCHANGED file
     \/ Spend("dirty") /\ file' = WithLine(file, Torn)
  /\ Unwritten(c)
  /\ UNCHANGED <<exec, dockerVars, durable, head, seq, mu>>

\* The line is in the file, but the journal goes on from the record before.
SyncFails(c) ==
  /\ Busy(c) /\ req[c].step = "sync"
  /\ Spend("dirty")
  /\ mu' = Nobody
  /\ Unwritten(c)
  /\ UNCHANGED <<exec, dockerVars, file, durable, head, seq>>

-----------------------------------------------------------------------------
(* The Docker Engine, through Client.negotiate. *)

Reached == docker = "up" /\ version # "failed"

\* The version is agreed once; a failure of that one attempt is kept.
Negotiate ==
  version' = IF version # "unasked" THEN version
             ELSE IF docker = "up" THEN "agreed" ELSE "failed"

Existing(S) == {r \in S : box[r].state # "absent"}
Ids(S) == {box[r].id : r \in Existing(S)}

\* What Docker makes of a call on a container.
After(op, b) ==
  CASE op = "start"  -> [b EXCEPT !.state = "running"]
    [] op = "stop"   -> [b EXCEPT !.state = IF @ = "running" THEN "exited" ELSE @]
    [] op = "remove" -> [b EXCEPT !.state = "absent"]

\* The replica a container id belongs to, if the container still exists.
Holder(id) == {r \in Existing(Replica) : box[r].id = id}
Startable(op) == op = "start" => net

Calling(c, step) == Busy(c) /\ req[c].step = step

\* The call does not reach Docker: the operation fails with what it has done.
Unreachable(c) ==
  /\ \E s \in {"prepare", "create", "list", "each", "network", "build"} : Calling(c, s)
  /\ req[c].step = "each" => req[c].todo # {}
  /\ ~req[c].aux /\ ~req[c].err
  /\ ~Reached
  /\ Negotiate
  /\ req' = [req EXCEPT ![c] = Record(c, "failure")]
  /\ UNCHANGED <<exec, docker, box, nextId, net, image, volume, journalVars, left>>

\* Mutant: The directory is left to root.
MakeDirOnly(c) ==
  /\ Calling(c, "prepare") /\ Reached /\ volume = "none" /\ image
  /\ Negotiate
  /\ volume' = "root"
  /\ req' = [req EXCEPT ![c] = Goto(c, "create")]
  /\ UNCHANGED <<exec, docker, box, nextId, net, image, journalVars, left>>

\* imageUID and MkdirAll: the directory is there, and is root's.
MakeDir(c) ==
  /\ Calling(c, "prepare") /\ Reached /\ volume = "none"
  /\ Negotiate
  /\ IF image
     THEN volume' = "root" /\ UNCHANGED req
     ELSE UNCHANGED volume /\ req' = [req EXCEPT ![c] = Record(c, "failure")]
  /\ UNCHANGED <<exec, docker, box, nextId, net, image, journalVars, left>>

\* The directory is given to the user the image runs as.
ChownDir(c) ==
  /\ Calling(c, "prepare") /\ Reached /\ volume # "none"
  /\ Negotiate
  /\ IF image
     THEN volume' = "app" /\ req' = [req EXCEPT ![c] = Goto(c, "create")]
     ELSE UNCHANGED volume /\ req' = [req EXCEPT ![c] = Record(c, "failure")]
  /\ UNCHANGED <<exec, docker, box, nextId, net, image, journalVars, left>>

\* Docker refuses a name that is taken.
Create(c) ==
  /\ Calling(c, "create") /\ Reached
  /\ Negotiate
  /\ IF image /\ Existing({req[c].sel}) = {}
     THEN /\ box' = [box EXCEPT ![req[c].sel] = [state |-> "created", id |-> nextId]]
          /\ nextId' = nextId + 1
          /\ req' = [req EXCEPT ![c] = [Record(c, "success") EXCEPT !.did = {nextId}]]
     ELSE UNCHANGED <<box, nextId>> /\ req' = [req EXCEPT ![c] = Record(c, "failure")]
  /\ UNCHANGED <<exec, docker, net, image, volume, journalVars, left>>

\* matching: the containers of the selector, by id.
List(c) ==
  /\ Calling(c, "list") /\ Reached
  /\ Negotiate
  /\ req' = [req EXCEPT ![c].step = "each", ![c].top = nextId,
                        ![c].todo = Ids(Selected(req[c].sel))]
  /\ UNCHANGED <<exec, docker, box, nextId, net, image, volume, journalVars, left>>

\* Mutant: forEach addresses containers by name.
EachByName(c) ==
  /\ Calling(c, "each") /\ Reached
  /\ \E id \in req[c].todo : \E r \in Existing(Selected(req[c].sel)) :
       /\ Startable(req[c].op)
       /\ box' = [box EXCEPT ![r] = After(req[c].op, @)]
       /\ req' = [req EXCEPT ![c].todo = @ \ {id}, ![c].n = @ + 1,
                             ![c].did = @ \cup {box[r].id}]
  /\ UNCHANGED <<exec, docker, version, nextId, net, image, volume, journalVars, left>>

\* forEach: one call per container; the first that fails ends the operation.
Each(c) ==
  /\ Calling(c, "each") /\ Reached
  /\ \E id \in req[c].todo :
       IF Holder(id) # {} /\ Startable(req[c].op)
       THEN /\ box' = [r \in Replica |-> IF r \in Holder(id)
                                         THEN After(req[c].op, box[r]) ELSE box[r]]
            /\ req' = [req EXCEPT ![c].todo = @ \ {id}, ![c].n = @ + 1,
                                  ![c].did = @ \cup {id}]
       ELSE /\ req' = [req EXCEPT ![c] = Record(c, "failure")]
            /\ UNCHANGED box
  /\ UNCHANGED <<exec, docker, version, nextId, net, image, volume, journalVars, left>>

EachDone(c) ==
  /\ Calling(c, "each") /\ req[c].todo = {}
  /\ req' = [req EXCEPT ![c] = Record(c, "success")]
  /\ UNCHANGED <<exec, dockerVars, journalVars, left>>

\* A network that exists already is a success.
NetworkEnsure(c) ==
  /\ Calling(c, "network") /\ Reached
  /\ Negotiate
  /\ net' = TRUE
  /\ req' = [req EXCEPT ![c] = Record(c, "success")]
  /\ UNCHANGED <<exec, docker, box, nextId, image, volume, journalVars, left>>

\* GetHostInfo asks Docker for its version; not reaching it is no error, and
\* nothing is recorded.
Probe(c) ==
  /\ Calling(c, "probe")
  /\ Negotiate
  /\ req' = [req EXCEPT ![c] = Respond(c, IF Reached THEN "ok" ELSE "unreachable")]
  /\ UNCHANGED <<exec, docker, box, nextId, net, image, volume, journalVars, left>>

\* A frame of the build's stream: the id of an image that was made, or an
\* error.  Docker never sends both.
BuildFrame(c) ==
  /\ Calling(c, "build") /\ Reached
  /\ ~req[c].aux /\ ~req[c].err
  /\ Negotiate
  /\ \/ image' = TRUE /\ req' = [req EXCEPT ![c].aux = TRUE]
     \/ UNCHANGED image /\ req' = [req EXCEPT ![c].err = TRUE]
  /\ UNCHANGED <<exec, docker, box, nextId, net, volume, journalVars, left>>

\* consumeBuild: a success needs the id frame and no error frame.
Proven(c) == req[c].aux /\ ~req[c].err

\* The stream ends, or is cut.
BuildEnds(c) ==
  /\ Calling(c, "build") /\ version = "agreed"
  /\ req' = [req EXCEPT ![c] = Record(c, IF Proven(c) THEN "success" ELSE "failure")]
  /\ UNCHANGED <<exec, dockerVars, journalVars, left>>

\* The caller is gone: neither output nor the image id can be sent.
BuildUnsent(c) ==
  /\ Calling(c, "build") /\ version = "agreed"
  /\ Spend("faults")
  /\ req' = [req EXCEPT ![c] = Record(c, "failure")]
  /\ UNCHANGED <<exec, dockerVars, journalVars>>

\* A call fails although Docker is there: a time limit, a cancelled context, an
\* error of its own.  The effect may have taken place.
CallFails(c) ==
  /\ \E s \in {"prepare", "create", "list", "each", "network"} : Calling(c, s)
  /\ Reached
  /\ Spend("faults")
  /\ version' = IF version = "unasked" THEN "failed" ELSE version
  /\ \/ UNCHANGED box
     \/ /\ version = "agreed" /\ Calling(c, "each")
        /\ \E id \in req[c].todo :
             box' = [r \in Replica |-> IF r \in Holder(id)
                                       THEN After(req[c].op, box[r]) ELSE box[r]]
  /\ req' = [req EXCEPT ![c] = Record(c, "failure")]
  /\ UNCHANGED <<exec, docker, nextId, net, image, volume, journalVars>>

-----------------------------------------------------------------------------
(* kadrand's calls. *)

FirstStep(op) ==
  CASE op = "network" -> "network"
    [] op = "create"  -> "prepare"
    [] op = "build"   -> "build"
    [] op = "probe"   -> "probe"
    [] OTHER          -> "list"

\* The selectors a request of each kind may have.
Selectors(op) ==
  CASE op \in {"create", "start"} -> Replica
    [] op = "stop" -> Replica \cup {Whole}
    [] OTHER -> {Whole}

\* A request arrives and passes its validator.
Arrive(c, op, sel) ==
  /\ exec = "up" /\ Free(c)
  /\ Spend("requests")
  /\ req' = [req EXCEPT ![c] = [Idle EXCEPT !.step = FirstStep(op), !.op = op, !.sel = sel]]
  /\ UNCHANGED <<exec, dockerVars, journalVars>>

\* Its validator refuses it: only a record is made of it.
Deny(c) ==
  /\ exec = "up" /\ Free(c)
  /\ Spend("requests")
  /\ req' = [req EXCEPT ![c] = [Idle EXCEPT !.step = "write", !.out = "denied"]]
  /\ UNCHANGED <<exec, dockerVars, journalVars>>

\* A page of the file that begins with the first of the lines S.
FromFirst(S) ==
  LET first == Min(S \cup {Len(file) + 1})
  IN  SubSeq(file, first, Min({first + PageSize - 1, Len(file)}))

\* Mutant: The page begins at the record the caller has.
PageFrom(after) == FromFirst({i \in DOMAIN file : file[i] = Torn \/ file[i].seq >= after})

\* Journal.Read: the records after a number, up to a page, the lines verified
\* from the first one to the last one returned; in those the numbers ascend.
Page(after) == FromFirst({i \in DOMAIN file : file[i] = Torn \/ file[i].seq > after})
ReadFails(after) == ~Verifies(file, Min({after + PageSize, Len(file)}))

\* kadrand verifies the journal: n is the last number it has read, top the
\* number of records on disk when it began.
BeginAudit(c) ==
  /\ Free(c)
  /\ Spend("requests")
  /\ req' = [req EXCEPT ![c] = [Idle EXCEPT !.step = "audit", !.op = "audit", !.top = durable]]
  /\ UNCHANGED <<exec, dockerVars, journalVars>>

\* verifyExecutorChain: page after page, until one is empty.
AuditPage(c) ==
  /\ req[c].step = "audit"
  /\ req' = [req EXCEPT ![c] =
       IF exec # "up" \/ ReadFails(req[c].n) THEN Respond(c, "unreachable")
       ELSE IF Page(req[c].n) = <<>> THEN Respond(c, "valid")
       ELSE IF Page(req[c].n)[1].seq # req[c].n + 1 THEN Respond(c, "invalid")
       ELSE [req[c] EXCEPT !.n = @ + Len(Page(@))]]
  /\ UNCHANGED <<exec, dockerVars, journalVars, left>>

-----------------------------------------------------------------------------
(* What happens to the processes and the machine. *)

Lost(r) == IF r.step \in {"idle", "done", "audit"} THEN r
           ELSE [Idle EXCEPT !.step = "done", !.ans = "error"]

\* Mutant: The mutex is a file lock that a killed process leaves behind.
KillKeepsLock ==
  /\ exec = "up"
  /\ Spend("faults")
  /\ exec' = "down"
  /\ req' = [c \in Caller |-> Lost(req[c])]
  /\ UNCHANGED <<dockerVars, file, durable, head, seq, mu>>

Kill ==
  /\ exec = "up"
  /\ Spend("faults")
  /\ exec' = "down"
  /\ req' = [c \in Caller |-> Lost(req[c])]
  /\ mu' = Nobody
  /\ UNCHANGED <<dockerVars, file, durable, head, seq>>

\* The lines that were not synced may be lost, the first lost one in part.
PowerLoss ==
  /\ Spend("faults")
  /\ exec' = "down"
  /\ \E k \in durable..Len(file) :
       /\ durable' = k
       /\ \/ file' = SubSeq(file, 1, k)
          \/ k < Len(file) /\ file' = Append(SubSeq(file, 1, k), Torn)
  /\ box' = [r \in Replica |-> After("stop", box[r])]
  /\ req' = [c \in Caller |-> Idle]
  /\ mu' = Nobody
  /\ UNCHANGED <<docker, version, nextId, net, image, volume, head, seq>>

\* Mutant: A journal that does not verify is set aside for a new one.
RestartAnew ==
  /\ exec = "down"
  /\ exec' = "up"
  /\ IF Verifies(file, Len(file))
     THEN /\ seq' = Len(file)
          /\ head' = IF file = <<>> THEN Zero ELSE file[Len(file)]
          /\ UNCHANGED <<file, durable>>
     ELSE file' = <<>> /\ durable' = 0 /\ seq' = 0 /\ head' = Zero
  /\ version' = "unasked"
  /\ UNCHANGED <<docker, box, nextId, net, image, volume, mu, req, left>>

\* OpenJournal, loadAndVerify and NewServer: a journal that does not verify
\* keeps the executor from starting.
Restart ==
  /\ exec = "down"
  /\ IF Verifies(file, Len(file))
     THEN /\ exec' = "up"
          /\ seq' = Len(file)
          /\ head' = IF file = <<>> THEN Zero ELSE file[Len(file)]
     ELSE exec' = "refused" /\ UNCHANGED <<seq, head>>
  /\ version' = "unasked"
  /\ UNCHANGED <<docker, box, nextId, net, image, volume, file, durable, mu, req, left>>

\* Containers are created with the restart policy "no".
DockerStops ==
  /\ docker = "up"
  /\ Spend("faults")
  /\ docker' = "down"
  /\ box' = [r \in Replica |-> After("stop", box[r])]
  /\ UNCHANGED <<exec, version, nextId, net, image, volume, journalVars, req>>

DockerStarts ==
  /\ docker = "down"
  /\ docker' = "up"
  /\ UNCHANGED <<exec, version, box, nextId, net, image, volume, journalVars, req, left>>

-----------------------------------------------------------------------------
\* A host on which nothing was deployed yet.
FreshHost ==
  /\ box = [r \in Replica |-> [state |-> "absent", id |-> 0]]
  /\ nextId = 1 /\ net = FALSE /\ image = FALSE /\ volume = "none"

\* Docker may hold the release already: the executor was installed anew.
KnownHost ==
  /\ \E r \in Replica :
       box = [x \in Replica |-> [state |-> "running", id |-> IF x = r THEN 1 ELSE 2]]
  /\ docker = "up"
  /\ nextId = 3 /\ net = TRUE /\ image = TRUE /\ volume = "app"

Init ==
  /\ exec = "up" /\ docker \in {"up", "down"}
  /\ version = "unasked"
  /\ FreshHost \/ KnownHost
  /\ file = <<>> /\ durable = 0 /\ head = Zero /\ seq = 0 /\ mu = Nobody
  /\ req = [c \in Caller |-> Idle]
  /\ left = [requests |-> MaxRequests, faults |-> MaxFaults, dirty |-> MaxDirtyFails]

\* What a goroutine does next.
Advance(c) ==
  \/ AppendWrite(c) \/ AppendSync(c)
  \/ Unreachable(c) \/ MakeDir(c) \/ ChownDir(c) \/ Create(c)
  \/ List(c) \/ Each(c) \/ EachDone(c) \/ NetworkEnsure(c) \/ Probe(c)
  \/ BuildFrame(c) \/ BuildEnds(c) \/ AuditPage(c)

Next ==
  \/ \E c \in Caller :
       \/ Advance(c)
       \/ WriteFails(c) \/ SyncFails(c) \/ CallFails(c) \/ BuildUnsent(c)
       \/ Deny(c) \/ BeginAudit(c)
       \/ \E op \in Op : \E sel \in Selectors(op) : Arrive(c, op, sel)
  \/ Kill \/ PowerLoss \/ Restart \/ DockerStops \/ DockerStarts

Spec == Init /\ [][Next]_vars

-----------------------------------------------------------------------------
(* Properties. *)

\* Types; Journal.mu is held only across a sync, by a goroutine that lives.
ExecTypeOK ==
  /\ exec \in {"up", "down", "refused"} /\ docker \in {"up", "down"}
  /\ version \in {"unasked", "agreed", "failed"}
  /\ box \in [Replica -> [state : State, id : Nat]] /\ nextId \in Nat
  /\ net \in BOOLEAN /\ image \in BOOLEAN /\ volume \in {"none", "root", "app"}
  /\ durable \in 0..Len(file) /\ seq \in Nat
  /\ \A c \in Caller :
       /\ req[c].step \in Step /\ req[c].op \in Op \cup {"audit"}
       /\ req[c].out \in Outcome /\ req[c].ans \in Answer
       /\ req[c].todo \cup req[c].did \subseteq 0..nextId - 1
       /\ (mu = c) <=> (req[c].step = "sync")
  /\ mu # Nobody => exec = "up"

\* No write has left a part of a line and no sync has failed.
Clean == left.dirty = MaxDirtyFails

\* An acknowledged operation has its record on disk, with the outcome and the
\* count it claims, where a reader of the journal finds it.
Recorded(c) ==
  /\ req[c].rec \in 1..durable
  /\ Verifies(file, req[c].rec)
  /\ file[req[c].rec].out = "success"
  /\ file[req[c].rec].n = req[c].n

Acknowledged(c) == req[c].step = "done" /\ req[c].ans = "ok" /\ req[c].op # "probe"

\* What kadrand is told is what happened: an acknowledged operation had its
\* effect and, after clean writes, has its record; a denied request touched
\* nothing (record.go's order of doing, then writing, then answering).
AnswersAreHonest ==
  \A c \in Caller :
    /\ req[c].ans = "denied" => req[c].did = {}
    /\ Acknowledged(c) =>
         /\ Clean => Recorded(c)
         /\ req[c].op \in {"start", "stop", "remove"} => req[c].n = Cardinality(req[c].did)
         /\ req[c].op = "remove" => \A id \in req[c].did : Holder(id) = {}
         /\ req[c].op = "build" => image
         /\ req[c].op = "network" => net

\* journal.go:195, record.go:86 : an operation whose record cannot be written
\* is an error, so what was acknowledged can be read back.
AcknowledgedIsRecorded == \A c \in Caller : Acknowledged(c) => Recorded(c)

\* A selector is resolved to container ids before the calls are made: nothing
\* that was created after the listing is started, stopped or removed, however
\* long the operation takes.
StaleSelectionHarmless ==
  \A c \in Caller : req[c].op \in {"start", "stop", "remove"} =>
    \A id \in req[c].did : id < req[c].top

\* While the executor runs, what it has in memory is the last record of a file
\* that verifies, over kills, power losses and writes that write nothing.
JournalConsistent ==
  exec = "up" /\ Clean =>
    /\ Verifies(file, Len(file))
    /\ mu = Nobody => /\ seq = Len(file)
                      /\ head = IF file = <<>> THEN Zero ELSE file[Len(file)]

\* The part of the file on disk that verifies: its records, by number.
Proper == [i \in {n \in 1..durable : Verifies(file, n)} |-> file[i]]

\* Whatever becomes of single writes, the part on disk that verifies is an
\* audit log: it only grows, by records that continue its chain.
Log == INSTANCE AuditLog WITH log <- Proper
AuditLogSpec == Log!Spec

\* Verifying page by page beside appends never finds the chain broken, and a
\* chain found valid was read to every record that was acknowledged before.
VerdictCovers ==
  \A c \in Caller :
    /\ req[c].ans # "invalid"
    /\ req[c].ans = "valid" => req[c].n >= req[c].top

\* No container is created over a volume directory its user cannot write to.
VolumeBeforeContainer ==
  Existing(Replica) # {} => volume = "app"
=============================================================================
