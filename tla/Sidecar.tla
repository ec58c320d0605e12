------------------------------ MODULE Sidecar ------------------------------
(***************************************************************************)
(* `kadran sidecar`: the process that serves the desktop application's     *)
(* requests, one line of JSON each, on its standard input and output.      *)
(*                                                                         *)
(* main reads the lines and starts a goroutine for each; the goroutines    *)
(* share one connection per target, kept in s.conns under s.mu.  The       *)
(* parent may write its lines in any order, so the pipe is the set of the  *)
(* lines that are written and not read.  A connection is named after the   *)
(* request that dialled it, for a request dials once at most.              *)
(*                                                                         *)
(* A connection is a gRPC ClientConn (external): it connects on the first  *)
(* call and again on the next call after it broke; a call on a broken one  *)
(* fails with Unavailable, a call on a closed one with Canceled, and a     *)
(* call under way when it is closed with either.                           *)
(***************************************************************************)
EXTENDS Naturals, FiniteSets

CONSTANTS
  Request, Target,
  Kind,          \* what each line is
  To,            \* the target it names
  HasId,         \* the requests with an id: the others are notifications
  None

ASSUME SidecarAssumption ==
  /\ Kind \in [Request -> {"call", "disconnect", "local", "malformed"}]
  /\ To \in [Request -> Target]
  /\ HasId \subseteq Request
  /\ None \notin Request

VARIABLES
  main,          \* "scanning", "draining" (wg.Wait) or "exited"
  ctx,           \* whether a signal has cancelled the context
  stdin,         \* whether the parent has closed the pipe
  at,            \* how far each line has come
  with,          \* the connection withConn has for a request
  answers,       \* the lines written to stdout for each request
  conns,         \* s.conns: the connection kept for each target
  conn,          \* the state of each connection
  mu             \* the goroutine that holds s.mu over several steps, if any

vars == <<main, ctx, stdin, at, with, answers, conns, conn, mu>>
goroutines == <<at, with, answers, conns, conn, mu>>

Open(c) == conn[c] \in {"idle", "up"}

\* A parse error and an invalid request are answered though they have no id.
Expecting == HasId \union {r \in Request : Kind[r] = "malformed"}

\* The lines whose goroutine has not ended: what wg counts.
Running == {r \in Request : at[r] \notin {"unwritten", "written", "finished"}}

Unlocked == mu = {}

Init ==
  /\ main = "scanning" /\ ctx = "alive" /\ stdin = "open"
  /\ at = [r \in Request |-> "unwritten"]
  /\ with = [r \in Request |-> None]
  /\ answers = [r \in Request |-> 0]
  /\ conns = [t \in Target |-> None]
  /\ conn = [c \in Request |-> "none"]
  /\ mu = {}

Goto(r, where) == at' = [at EXCEPT ![r] = where]

-----------------------------------------------------------------------------
(* The parent and the outside. *)

WriteLine(r) ==
  /\ stdin = "open" /\ at[r] = "unwritten"
  /\ Goto(r, "written")
  /\ UNCHANGED <<main, ctx, stdin, with, answers, conns, conn, mu>>

CloseStdin ==
  /\ stdin = "open"
  /\ stdin' = "closed"
  /\ UNCHANGED <<main, ctx, goroutines>>

Signal ==
  /\ ctx = "alive" /\ main # "exited"
  /\ ctx' = "cancelled"
  /\ UNCHANGED <<main, stdin, goroutines>>

\* The transport of a connection breaks, and with it the calls under way.
Break(c) ==
  /\ conn[c] = "up"
  /\ conn' = [conn EXCEPT ![c] = "idle"]
  /\ at' = [r \in Request |->
              IF at[r] = "calling" /\ with[r] = c THEN "unavailable" ELSE at[r]]
  /\ UNCHANGED <<main, ctx, stdin, with, answers, conns, mu>>

-----------------------------------------------------------------------------
(* main *)

\* The context is looked at after a line is read only, and that line is lost.
\* A malformed line may be over maxRequestBytes: an error of the scanner.
Scan(r) ==
  /\ main = "scanning" /\ at[r] = "written"
  /\ \/ /\ ctx = "cancelled" \/ Kind[r] = "malformed"
        /\ main' = "draining" /\ UNCHANGED at
     \/ /\ ctx = "alive"
        /\ Goto(r, "read") /\ UNCHANGED main
  /\ UNCHANGED <<ctx, stdin, with, answers, conns, conn, mu>>

\* Mutant: main waits for a signal when the pipe is closed.
EndOfInputAfterSignal ==
  /\ main = "scanning" /\ stdin = "closed" /\ ctx = "cancelled"
  /\ main' = "draining"
  /\ UNCHANGED <<ctx, stdin, goroutines>>

EndOfInput ==
  /\ main = "scanning" /\ stdin = "closed"
  /\ \A r \in Request : at[r] # "written"
  /\ main' = "draining"
  /\ UNCHANGED <<ctx, stdin, goroutines>>

\* Mutant: main does not wait for the goroutines.
CloseAllAtOnce ==
  /\ main = "draining" /\ Unlocked
  /\ conn' = [c \in Request |-> IF \E t \in Target : conns[t] = c THEN "closed" ELSE conn[c]]
  /\ conns' = [t \in Target |-> None]
  /\ main' = "exited"
  /\ UNCHANGED <<ctx, stdin, at, with, answers, mu>>

\* wg.Wait, then runSidecar's deferred closeAll.
CloseAll ==
  /\ main = "draining" /\ Running = {} /\ Unlocked
  /\ conn' = [c \in Request |-> IF \E t \in Target : conns[t] = c THEN "closed" ELSE conn[c]]
  /\ conns' = [t \in Target |-> None]
  /\ main' = "exited"
  /\ UNCHANGED <<ctx, stdin, at, with, answers, mu>>

-----------------------------------------------------------------------------
(* The goroutine of a line. *)

\* What dispatch answers by itself: version, an unknown method, parameters
\* that cannot be decoded; and a line that handleLine rejects.
AnswerLocally(r) ==
  /\ at[r] = "read" /\ Kind[r] \in {"local", "malformed"}
  /\ Goto(r, "replying")
  /\ UNCHANGED <<main, ctx, stdin, with, answers, conns, conn, mu>>

\* closeTarget takes whatever connection the target has now.
CloseTarget(t) ==
  /\ Unlocked
  /\ conn' = [c \in Request |-> IF c = conns[t] THEN "closed" ELSE conn[c]]
  /\ conns' = [conns EXCEPT ![t] = None]

Disconnect(r) ==
  /\ at[r] = "read" /\ Kind[r] = "disconnect"
  /\ CloseTarget(To[r])
  /\ Goto(r, "replying")
  /\ UNCHANGED <<main, ctx, stdin, with, answers, mu>>

\* connFor: the target has a connection.
Reuse(r) ==
  /\ at[r] = "read" /\ Kind[r] = "call" /\ Unlocked
  /\ conns[To[r]] # None
  /\ with' = [with EXCEPT ![r] = conns[To[r]]]
  /\ Goto(r, "ready")
  /\ UNCHANGED <<main, ctx, stdin, answers, conns, conn, mu>>

\* The target does not parse, there is no ssh, or Dial fails.
CannotDial(r) ==
  /\ at[r] = "read" /\ Kind[r] = "call" /\ Unlocked
  /\ conns[To[r]] = None
  /\ Goto(r, "replying")
  /\ UNCHANGED <<main, ctx, stdin, with, answers, conns, conn, mu>>

\* Mutant: s.mu is not held while the connection is made.
DialUnlocked(r) ==
  /\ at[r] = "read" /\ Kind[r] = "call" /\ Unlocked
  /\ conns[To[r]] = None
  /\ conn' = [conn EXCEPT ![r] = "idle"]
  /\ Goto(r, "dialling")
  /\ UNCHANGED <<main, ctx, stdin, with, answers, conns, mu>>

\* Dial does not connect yet.  s.mu is held until the protocol is checked.
Dial(r) ==
  /\ at[r] = "read" /\ Kind[r] = "call" /\ Unlocked
  /\ conns[To[r]] = None
  /\ conn' = [conn EXCEPT ![r] = "idle"]
  /\ mu' = {r}
  /\ Goto(r, "dialling")
  /\ UNCHANGED <<main, ctx, stdin, with, answers, conns>>

\* CheckProtocol: the server answers, and it speaks the same protocol.
CheckPasses(r) ==
  /\ at[r] = "dialling" /\ ctx = "alive"
  /\ conn' = [conn EXCEPT ![r] = "up"]
  /\ conns' = [conns EXCEPT ![To[r]] = r]
  /\ with' = [with EXCEPT ![r] = r]
  /\ mu' = mu \ {r}
  /\ Goto(r, "ready")
  /\ UNCHANGED <<main, ctx, stdin, answers>>

\* No server, no answer in time, another protocol, or the context is cancelled.
CheckFails(r) ==
  /\ at[r] = "dialling"
  /\ conn' = [conn EXCEPT ![r] = "closed"]
  /\ mu' = mu \ {r}
  /\ Goto(r, "replying")
  /\ UNCHANGED <<main, ctx, stdin, with, answers, conns>>

\* The call begins: on a connection that is up, or that connects for it.
Call(r) ==
  /\ at[r] = "ready" /\ Open(with[r]) /\ ctx = "alive"
  /\ conn' = [conn EXCEPT ![with[r]] = "up"]
  /\ Goto(r, "calling")
  /\ UNCHANGED <<main, ctx, stdin, with, answers, conns, mu>>

CannotConnect(r) ==
  /\ at[r] = "ready" /\ conn[with[r]] = "idle" /\ ctx = "alive"
  /\ Goto(r, "unavailable")
  /\ UNCHANGED <<main, ctx, stdin, with, answers, conns, conn, mu>>

\* The context is cancelled, or another goroutine has closed the connection:
\* before the call or during it.
CallCancelled(r) ==
  /\ at[r] \in {"ready", "calling"}
  /\ \/ (ctx = "cancelled" \/ conn[with[r]] = "closed") /\ Goto(r, "replying")
     \/ at[r] = "calling" /\ conn[with[r]] = "closed" /\ Goto(r, "unavailable")
  /\ UNCHANGED <<main, ctx, stdin, with, answers, conns, conn, mu>>

\* The server answers, with a result or an error; or the call's time is over.
Return(r) ==
  /\ at[r] = "calling" /\ conn[with[r]] = "up"
  /\ Goto(r, "replying")
  /\ UNCHANGED <<main, ctx, stdin, with, answers, conns, conn, mu>>

\* shouldDropConnection: Unavailable, and no other error.
Drop(r) ==
  /\ at[r] = "unavailable"
  /\ CloseTarget(To[r])
  /\ Goto(r, "replying")
  /\ UNCHANGED <<main, ctx, stdin, with, answers, mu>>

\* A notification is not answered.
Reply(r) ==
  /\ at[r] = "replying"
  /\ answers' = [answers EXCEPT ![r] = IF r \in Expecting THEN @ + 1 ELSE @]
  /\ Goto(r, "finished")
  /\ UNCHANGED <<main, ctx, stdin, with, conns, conn, mu>>

Goroutine(r) ==
  \/ AnswerLocally(r) \/ Disconnect(r)
  \/ Reuse(r) \/ CannotDial(r) \/ Dial(r) \/ CheckPasses(r) \/ CheckFails(r)
  \/ Call(r) \/ CannotConnect(r) \/ CallCancelled(r) \/ Return(r) \/ Drop(r)
  \/ Reply(r)

\* The process is gone: nothing is left to happen.
Exited == main = "exited" /\ UNCHANGED vars

Main == (\E r \in Request : Scan(r)) \/ EndOfInput \/ CloseAll

Next ==
  \/ \E r \in Request : WriteLine(r) \/ Break(r) \/ Goroutine(r)
  \/ CloseStdin \/ Signal
  \/ Main
  \/ Exited

\* Go schedules main and every goroutine, and callTimeout ends every call and
\* every check of the protocol; s.mu is not starved, for sync.Mutex hands it to
\* a goroutine that has waited long.  Of the parent it is assumed that it reads the
\* answers or closes the pipe they go through, for a goroutine that replies holds
\* up the others and the end until then; nothing else is assumed of it, and nothing
\* of signals or of the transport.
Fairness == WF_vars(Main) /\ \A r \in Request : SF_vars(Goroutine(r))

Spec == Init /\ [][Next]_vars /\ Fairness

-----------------------------------------------------------------------------
Place == {"unwritten", "written", "read", "dialling", "ready", "calling",
          "unavailable", "replying", "finished"}

TypeOK ==
  /\ main \in {"scanning", "draining", "exited"}
  /\ ctx \in {"alive", "cancelled"} /\ stdin \in {"open", "closed"}
  /\ at \in [Request -> Place]
  /\ with \in [Request -> Request \union {None}]
  /\ answers \in [Request -> Nat]
  /\ conns \in [Target -> Request \union {None}]
  /\ conn \in [Request -> {"none", "idle", "up", "closed"}]
  /\ mu = {r \in Request : at[r] = "dialling"}

\* A connection that is kept for a target is open and leads to that target:
\* nothing a goroutine closes can be found again by the next one.
KeptIsOpen ==
  \A t \in Target : conns[t] # None => Open(conns[t]) /\ To[conns[t]] = t

\* A target has one connection at most, counting the one that is being made:
\* requests that come together share a handshake.
OneConnectionPerTarget ==
  \A c, d \in Request : Open(c) /\ Open(d) /\ To[c] = To[d] => c = d

\* No connection, and so no ssh process, outlives the sidecar's main.
NothingLeftOpen == main = "exited" => \A c \in Request : ~Open(c)

\* The sidecar ends when the parent closes its end of the pipe, whatever the
\* servers do.
EndsWithItsParent == stdin = "closed" ~> main = "exited"

\* Every request that is read is answered once at most, a notification never,
\* and the sidecar does not end before it has handled all it read.
Service == INSTANCE RpcService WITH
  taken <- {r \in Request : at[r] \notin {"unwritten", "written"}},
  handled <- {r \in Request : at[r] = "finished"},
  stopped <- main = "exited"

ServiceSpec == Service!Spec

=============================================================================
