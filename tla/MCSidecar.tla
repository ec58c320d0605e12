----------------------------- MODULE MCSidecar -----------------------------
(* Instances of Sidecar for TLC: calls to one server, one of them without an  *)
(* id, a disconnect, and a line that is not a request.  A request "call4"     *)
(* would go to another server.                                                *)
EXTENDS Sidecar

KindFor == [r \in Request |->
  CASE r = "close" -> "disconnect"
    [] r = "bad" -> "malformed"
    [] OTHER -> "call"]

ToFor == [r \in Request |-> IF r = "call4" THEN "s2" ELSE "s1"]

WithId == {r \in Request : r \notin {"note", "bad"}}
=============================================================================
