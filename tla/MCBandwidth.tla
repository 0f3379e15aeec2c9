---------------------------- MODULE MCBandwidth ----------------------------
(* Bandwidth for TLC: two requests on the same client of a session, a       *)
(* session-less request, the destroy of the session, and a get and a reset  *)
(* that are both for the process or both for the session.                   *)
EXTENDS Bandwidth

MCTargets ==
  {[p \in Ops |-> CASE p \in {"r1", "r2", "d"} -> "s"
                    [] p = "r3" -> "e"
                    [] p \in {"g", "x"} -> asked] : asked \in {"s", Process}}
MCClientOf == [r \in Requests |-> "client"]
=============================================================================
