----------------------------- MODULE RpcService -----------------------------
(***************************************************************************)
(* What a JSON-RPC service on a pipe promises to the process that started  *)
(* it: a request it has taken is handled once, a request that expects an   *)
(* answer is answered once and no other request is, in whatever order; and *)
(* the service does not stop before it has handled all it took.            *)
(***************************************************************************)
EXTENDS Naturals

CONSTANTS
  Request,
  Expecting      \* the requests that expect an answer

VARIABLES
  taken,         \* the requests the service has taken
  handled,       \* the ones it has handled
  answers,       \* the answers each request has had
  stopped        \* whether the service is gone

vars == <<taken, handled, answers, stopped>>

Init ==
  /\ taken = {} /\ handled = {}
  /\ answers = [r \in Request |-> 0]
  /\ stopped = FALSE

Take(r) ==
  /\ ~stopped
  /\ r \notin taken
  /\ taken' = taken \union {r}
  /\ UNCHANGED <<handled, answers, stopped>>

Handle(r) ==
  /\ r \in taken \ handled
  /\ handled' = handled \union {r}
  /\ answers' = [answers EXCEPT ![r] = IF r \in Expecting THEN @ + 1 ELSE @]
  /\ UNCHANGED <<taken, stopped>>

Stop ==
  /\ ~stopped
  /\ handled = taken
  /\ stopped' = TRUE
  /\ UNCHANGED <<taken, handled, answers>>

Next == (\E r \in Request : Take(r) \/ Handle(r)) \/ Stop

Spec == Init /\ [][Next]_vars
=============================================================================
