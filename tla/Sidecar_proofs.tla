--------------------------- MODULE Sidecar_proofs ---------------------------
(***************************************************************************)
(* For any requests and targets, and whatever breaks: a kept connection is *)
(* open, a target has one at most, none outlives the sidecar, and what the *)
(* sidecar does is what a request-and-answer service may do.               *)
(***************************************************************************)
EXTENDS Sidecar, TLAPS

\* An open connection is kept for its target or being made by the goroutine
\* that holds s.mu, which found none for its target.
SidecarInv ==
  /\ TypeOK
  /\ KeptIsOpen
  /\ \A r, s \in mu : r = s
  /\ \A r \in mu : conns[To[r]] = None
  /\ \A c \in Request : Open(c) => c \in mu \/ conns[To[c]] = c
  /\ \A r \in Request : at[r] \in {"ready", "calling"} => with[r] \in Request
  /\ main = "exited" => Running = {} /\ \A t \in Target : conns[t] = None

LEMMA InitInv == Init => SidecarInv
  BY SidecarAssumption DEF Init, SidecarInv, TypeOK, Place, KeptIsOpen, Open, Running

LEMMA WriteLineInv == ASSUME SidecarInv, NEW r \in Request, WriteLine(r) PROVE SidecarInv'
  BY SidecarAssumption
  DEF WriteLine, Goto, CloseTarget, SidecarInv, TypeOK, Place, KeptIsOpen, Open, Unlocked, Running

LEMMA BreakInv == ASSUME SidecarInv, NEW r \in Request, Break(r) PROVE SidecarInv'
  BY SidecarAssumption
  DEF Break, Goto, CloseTarget, SidecarInv, TypeOK, Place, KeptIsOpen, Open, Unlocked, Running

LEMMA ScanInv == ASSUME SidecarInv, NEW r \in Request, Scan(r) PROVE SidecarInv'
  BY SidecarAssumption
  DEF Scan, Goto, CloseTarget, SidecarInv, TypeOK, Place, KeptIsOpen, Open, Unlocked, Running

LEMMA AnswerLocallyInv == ASSUME SidecarInv, NEW r \in Request, AnswerLocally(r) PROVE SidecarInv'
  BY SidecarAssumption
  DEF AnswerLocally, Goto, CloseTarget, SidecarInv, TypeOK, Place, KeptIsOpen, Open, Unlocked, Running

\* closeTarget closes the target's connection and no other, and forgets it.
LEMMA CloseTargetKeeps ==
  ASSUME SidecarInv, NEW t \in Target, CloseTarget(t)
  PROVE  /\ mu = {}
         /\ conns' \in [Target -> Request \union {None}]
         /\ conn' \in [Request -> {"none", "idle", "up", "closed"}]
         /\ \A u \in Target : conns'[u] = IF u = t THEN None ELSE conns[u]
         /\ \A c \in Request : Open(c)' <=> Open(c) /\ c # conns[t]
         /\ KeptIsOpen'
         /\ \A c \in Request : Open(c)' => conns'[To[c]] = c
<1>1. /\ mu = {} /\ TypeOK /\ KeptIsOpen
      /\ \A c \in Request : Open(c) => conns[To[c]] = c
  BY DEF SidecarInv, CloseTarget, Unlocked
<1>2. /\ conns' \in [Target -> Request \union {None}]
      /\ conn' \in [Request -> {"none", "idle", "up", "closed"}]
  BY <1>1 DEF TypeOK, CloseTarget
<1>3. \A u \in Target : conns'[u] = IF u = t THEN None ELSE conns[u]
  BY <1>1 DEF TypeOK, CloseTarget
<1>4. \A c \in Request : Open(c)' <=> Open(c) /\ c # conns[t]
  BY <1>1 DEF TypeOK, CloseTarget, Open
<1>5. KeptIsOpen'
  BY <1>1, <1>3, <1>4, SidecarAssumption DEF KeptIsOpen, TypeOK
<1>6. \A c \in Request : Open(c)' => conns'[To[c]] = c
  BY <1>1, <1>3, <1>4, SidecarAssumption
<1>7. QED
  BY <1>1, <1>2, <1>3, <1>4, <1>5, <1>6

\* A goroutine that closes its target and goes on to its answer.
LEMMA ClosingKeeps ==
  ASSUME SidecarInv, NEW r \in Request, CloseTarget(To[r]), at[r] \in {"read", "unavailable"},
         Goto(r, "replying"), UNCHANGED <<main, ctx, stdin, with, answers, mu>>
  PROVE  SidecarInv'
<1>1. To[r] \in Target
  BY SidecarAssumption
<1>2. /\ mu = {} /\ mu' = {}
      /\ conns' \in [Target -> Request \union {None}]
      /\ conn' \in [Request -> {"none", "idle", "up", "closed"}]
      /\ KeptIsOpen'
      /\ \A c \in Request : Open(c)' => conns'[To[c]] = c
  BY <1>1, CloseTargetKeeps
<1>3. at' \in [Request -> Place] /\ mu' = {s \in Request : at'[s] = "dialling"}
  BY <1>2 DEF SidecarInv, TypeOK, Goto, Place
<1>4. TypeOK'
  BY <1>2, <1>3 DEF SidecarInv, TypeOK
<1>5. \A s \in Request : at'[s] \in {"ready", "calling"} => with'[s] \in Request
  BY DEF SidecarInv, TypeOK, Goto
<1>6. main # "exited" /\ main' = main
  BY DEF SidecarInv, Running
<1>7. QED
  BY <1>2, <1>4, <1>5, <1>6 DEF SidecarInv

LEMMA DisconnectInv == ASSUME SidecarInv, NEW r \in Request, Disconnect(r) PROVE SidecarInv'
  BY ClosingKeeps DEF Disconnect

LEMMA ReuseInv == ASSUME SidecarInv, NEW r \in Request, Reuse(r) PROVE SidecarInv'
<1>0. To[r] \in Target
  BY SidecarAssumption
<1>1. conns[To[r]] \in Request
  BY <1>0 DEF Reuse, SidecarInv, TypeOK
<1>2. /\ at' \in [Request -> Place] /\ with' \in [Request -> Request \union {None}]
      /\ mu' = {s \in Request : at'[s] = "dialling"}
      /\ \A s \in Request : at'[s] \in {"ready", "calling"} => with'[s] \in Request
  BY <1>1 DEF Reuse, Goto, SidecarInv, TypeOK, Place
<1>3. main # "exited"
  BY DEF Reuse, SidecarInv, Running
<1>4. QED
  BY <1>2, <1>3 DEF Reuse, SidecarInv, TypeOK, KeptIsOpen, Open

LEMMA CannotDialInv == ASSUME SidecarInv, NEW r \in Request, CannotDial(r) PROVE SidecarInv'
  BY SidecarAssumption
  DEF CannotDial, Goto, CloseTarget, SidecarInv, TypeOK, Place, KeptIsOpen, Open, Unlocked, Running

LEMMA DialInv == ASSUME SidecarInv, NEW r \in Request, Dial(r) PROVE SidecarInv'
  BY SidecarAssumption
  DEF Dial, Goto, CloseTarget, SidecarInv, TypeOK, Place, KeptIsOpen, Open, Unlocked, Running

LEMMA CheckPassesInv ==
  ASSUME SidecarInv, NEW r \in Request, CheckPasses(r) PROVE SidecarInv'
<1>1. /\ mu = {r} /\ mu' = {} /\ conns[To[r]] = None /\ To[r] \in Target
  <2>1. r \in mu /\ To[r] \in Target
    BY SidecarAssumption DEF CheckPasses, SidecarInv, TypeOK
  <2>2. mu = {r} /\ conns[To[r]] = None
    BY <2>1 DEF SidecarInv, TypeOK
  <2>3. QED
    BY <2>1, <2>2 DEF CheckPasses
<1>2. TypeOK'
  BY <1>1 DEF CheckPasses, Goto, SidecarInv, TypeOK, Place
<1>3. \A t \in Target : conns'[t] = IF t = To[r] THEN r ELSE conns[t]
  BY DEF CheckPasses, SidecarInv, TypeOK
<1>4. \A c \in Request : Open(c)' <=> c = r \/ Open(c)
  BY DEF CheckPasses, SidecarInv, TypeOK, Open
<1>5. KeptIsOpen'
  <2>1. SUFFICES ASSUME NEW t \in Target, conns'[t] # None
                 PROVE  conn'[conns'[t]] \in {"idle", "up"} /\ To[conns'[t]] = t
    BY DEF KeptIsOpen, Open
  <2>2. CASE t = To[r]
    BY <1>3, <1>4, <2>2 DEF Open
  <2>3. CASE t # To[r]
    <3>1. conns'[t] = conns[t] /\ conns[t] \in Request /\ Open(conns[t]) /\ To[conns[t]] = t
      BY <1>3, <2>1, <2>3 DEF SidecarInv, TypeOK, KeptIsOpen
    <3>2. QED
      BY <1>4, <3>1 DEF Open
  <2>4. QED
    BY <2>2, <2>3
<1>6. \A c \in Request : Open(c)' => conns'[To[c]] = c
  BY <1>1, <1>3, <1>4, SidecarAssumption DEF SidecarInv
<1>7. \A s \in Request : at'[s] \in {"ready", "calling"} => with'[s] \in Request
  BY DEF CheckPasses, Goto, SidecarInv, TypeOK
<1>8. main' # "exited"
  BY DEF CheckPasses, SidecarInv, Running
<1>9. QED
  BY <1>1, <1>2, <1>5, <1>6, <1>7, <1>8 DEF SidecarInv

LEMMA CheckFailsInv == ASSUME SidecarInv, NEW r \in Request, CheckFails(r) PROVE SidecarInv'
  BY SidecarAssumption
  DEF CheckFails, Goto, CloseTarget, SidecarInv, TypeOK, Place, KeptIsOpen, Open, Unlocked, Running

LEMMA CallInv == ASSUME SidecarInv, NEW r \in Request, Call(r) PROVE SidecarInv'
  BY SidecarAssumption
  DEF Call, Goto, CloseTarget, SidecarInv, TypeOK, Place, KeptIsOpen, Open, Unlocked, Running

LEMMA CannotConnectInv == ASSUME SidecarInv, NEW r \in Request, CannotConnect(r) PROVE SidecarInv'
  BY SidecarAssumption
  DEF CannotConnect, Goto, CloseTarget, SidecarInv, TypeOK, Place, KeptIsOpen, Open, Unlocked, Running

LEMMA CallCancelledInv == ASSUME SidecarInv, NEW r \in Request, CallCancelled(r) PROVE SidecarInv'
  BY SidecarAssumption
  DEF CallCancelled, Goto, CloseTarget, SidecarInv, TypeOK, Place, KeptIsOpen, Open, Unlocked, Running

LEMMA ReturnInv == ASSUME SidecarInv, NEW r \in Request, Return(r) PROVE SidecarInv'
  BY SidecarAssumption
  DEF Return, Goto, CloseTarget, SidecarInv, TypeOK, Place, KeptIsOpen, Open, Unlocked, Running

LEMMA DropInv == ASSUME SidecarInv, NEW r \in Request, Drop(r) PROVE SidecarInv'
  BY ClosingKeeps DEF Drop

LEMMA ReplyInv == ASSUME SidecarInv, NEW r \in Request, Reply(r) PROVE SidecarInv'
  BY SidecarAssumption
  DEF Reply, Goto, CloseTarget, SidecarInv, TypeOK, Place, KeptIsOpen, Open, Unlocked, Running

LEMMA EndOfInputInv == SidecarInv /\ EndOfInput => SidecarInv'
  BY SidecarAssumption
  DEF EndOfInput, goroutines, SidecarInv, TypeOK, Place, KeptIsOpen, Open, Unlocked, Running

LEMMA CloseAllInv == SidecarInv /\ CloseAll => SidecarInv'
  BY SidecarAssumption
  DEF CloseAll, goroutines, SidecarInv, TypeOK, Place, KeptIsOpen, Open, Unlocked, Running

LEMMA CloseStdinInv == SidecarInv /\ CloseStdin => SidecarInv'
  BY SidecarAssumption
  DEF CloseStdin, goroutines, SidecarInv, TypeOK, Place, KeptIsOpen, Open, Unlocked, Running

LEMMA SignalInv == SidecarInv /\ Signal => SidecarInv'
  BY SidecarAssumption
  DEF Signal, goroutines, SidecarInv, TypeOK, Place, KeptIsOpen, Open, Unlocked, Running

LEMMA NextInv == SidecarInv /\ [Next]_vars => SidecarInv'
<1>1. ASSUME SidecarInv, UNCHANGED vars PROVE SidecarInv'
  BY <1>1 DEF vars, SidecarInv, TypeOK, KeptIsOpen, Open, Running
<1>2. ASSUME SidecarInv, NEW r \in Request, Goroutine(r) PROVE SidecarInv'
  BY <1>2, AnswerLocallyInv, DisconnectInv, ReuseInv, CannotDialInv, DialInv, CheckPassesInv,
     CheckFailsInv, CallInv, CannotConnectInv, CallCancelledInv, ReturnInv, DropInv, ReplyInv
  DEF Goroutine
<1>3. QED
  BY <1>1, <1>2, WriteLineInv, BreakInv, ScanInv, EndOfInputInv, CloseAllInv, CloseStdinInv, SignalInv
  DEF Next, Main, Exited

LEMMA InvMeans == SidecarInv => OneConnectionPerTarget /\ NothingLeftOpen
<1>1. SidecarInv => OneConnectionPerTarget
  BY SidecarAssumption DEF SidecarInv, OneConnectionPerTarget
<1>2. SidecarInv => NothingLeftOpen
  <2>1. SUFFICES ASSUME SidecarInv, main = "exited" PROVE \A c \in Request : ~Open(c)
    BY DEF NothingLeftOpen
  <2>2. mu = {} /\ \A t \in Target : conns[t] = None
    BY <2>1 DEF SidecarInv, TypeOK, Running
  <2>3. QED
    BY <2>1, <2>2, SidecarAssumption DEF SidecarInv
<1>3. QED
  BY <1>1, <1>2

\* The inductive invariant of sidecar.go's connections and of s.mu.
THEOREM SidecarCorrect == Spec => []SidecarInv
  BY InitInv, NextInv, PTL DEF Spec

\* The places of the goroutines and the tables stay typed, and the goroutine that
\* dials is the one that holds s.mu.
THEOREM SidecarTypes == Spec => []TypeOK
  BY SidecarCorrect, PTL DEF SidecarInv

\* connFor and closeTarget keep open connections only, each for its target.
THEOREM KeptAreOpen == Spec => []KeptIsOpen
  BY SidecarCorrect, PTL DEF SidecarInv

\* s.mu is held over the handshake, so a target gets one connection at a time.
THEOREM TargetsAreShared == Spec => []OneConnectionPerTarget
  BY SidecarCorrect, InvMeans, PTL

\* wg.Wait before closeAll: no connection is opened after it and none is left.
THEOREM ExitClosesAll == Spec => []NothingLeftOpen
  BY SidecarCorrect, InvMeans, PTL

-----------------------------------------------------------------------------
(* What the service sees of a step of the sidecar. *)

Taken == {r \in Request : at[r] \notin {"unwritten", "written"}}
Handled == {r \in Request : at[r] = "finished"}
Seen == <<Taken, Handled, answers, main = "exited">>

\* A goroutine that goes from one of its places to another is not seen.
LEMMA GoingIsUnseen ==
  ASSUME SidecarInv, NEW r \in Request, NEW where \in Place \ {"unwritten", "written", "finished"},
         r \in Running, Goto(r, where), answers' = answers, main' = main
  PROVE  UNCHANGED Seen
  BY DEF SidecarInv, TypeOK, Running, Goto, Seen, Taken, Handled

LEMMA GoroutineUnseen ==
  ASSUME SidecarInv, NEW r \in Request, Goroutine(r), ~Reply(r)
  PROVE  UNCHANGED Seen
<1>1. r \in Running /\ answers' = answers /\ main' = main
  BY DEF Goroutine, AnswerLocally, Disconnect, Reuse, CannotDial, Dial, CheckPasses, CheckFails,
         Call, CannotConnect, CallCancelled, Return, Drop, Running
<1>2. \E where \in Place \ {"unwritten", "written", "finished"} : Goto(r, where)
  BY DEF Goroutine, AnswerLocally, Disconnect, Reuse, CannotDial, Dial, CheckPasses, CheckFails,
         Call, CannotConnect, CallCancelled, Return, Drop, Place
<1>3. QED
  BY <1>1, <1>2, GoingIsUnseen

LEMMA OutsideUnseen ==
  ASSUME SidecarInv, NEW r \in Request, WriteLine(r) \/ Break(r)
  PROVE  UNCHANGED Seen
<1>1. CASE WriteLine(r)
  BY <1>1 DEF WriteLine, Goto, SidecarInv, TypeOK, Seen, Taken, Handled
<1>2. CASE Break(r)
  BY <1>2 DEF Break, SidecarInv, TypeOK, Seen, Taken, Handled
<1>3. QED
  BY <1>1, <1>2

LEMMA ScanTakes ==
  ASSUME SidecarInv, NEW r \in Request, Scan(r) PROVE Service!Take(r) \/ UNCHANGED Seen
<1>1. CASE at' = at
  BY <1>1 DEF Scan, Seen, Taken, Handled
<1>2. CASE Goto(r, "read") /\ main' = main
  BY <1>2 DEF Scan, Goto, SidecarInv, TypeOK, Service!Take
<1>3. QED
  BY <1>1, <1>2 DEF Scan

LEMMA ReplyHandles == ASSUME SidecarInv, NEW r \in Request, Reply(r) PROVE Service!Handle(r)
  BY DEF Reply, Goto, SidecarInv, TypeOK, Service!Handle

LEMMA CloseAllStops == SidecarInv /\ CloseAll => Service!Stop
  BY DEF CloseAll, SidecarInv, TypeOK, Place, Running, Service!Stop

LEMMA ServiceInit == Init => Service!Init
  BY DEF Init, Service!Init

LEMMA ServiceStep == SidecarInv /\ [Next]_vars => [Service!Next]_(Service!vars)
<1>1. Seen = Service!vars
  BY DEF Seen, Taken, Handled, Service!vars
<1>2. ASSUME SidecarInv, Next PROVE Service!Next \/ UNCHANGED Seen
  <2>1. ASSUME NEW r \in Request, WriteLine(r) \/ Break(r) PROVE UNCHANGED Seen
    BY <1>2, <2>1, OutsideUnseen
  <2>2. ASSUME NEW r \in Request, Goroutine(r) PROVE Service!Handle(r) \/ UNCHANGED Seen
    BY <1>2, <2>2, GoroutineUnseen, ReplyHandles
  <2>3. ASSUME CloseStdin \/ Signal \/ EndOfInput PROVE UNCHANGED Seen
    BY <1>2, <2>3 DEF CloseStdin, Signal, EndOfInput, goroutines, SidecarInv, TypeOK, Seen, Taken, Handled
  <2>4. Exited => UNCHANGED Seen
    BY DEF Exited, vars, Seen, Taken, Handled
  <2>5. QED
    BY <1>2, <2>1, <2>2, <2>3, <2>4, ScanTakes, CloseAllStops DEF Next, Main, Service!Next
<1>3. UNCHANGED vars => UNCHANGED Seen
  BY DEF vars, Seen, Taken, Handled
<1>4. QED
  BY <1>1, <1>2, <1>3 DEF Seen, Taken, Handled, Service!vars

\* handleLine and serve: a line that is read is answered once at most, a
\* notification never, and serve returns when all it read is handled.
THEOREM SidecarServes == Spec => ServiceSpec
<1>1. Spec => []SidecarInv /\ Init /\ [][Next]_vars
  BY SidecarCorrect, PTL DEF Spec
<1>2. QED
  BY <1>1, ServiceInit, ServiceStep, PTL DEF ServiceSpec, Service!Spec

=============================================================================
