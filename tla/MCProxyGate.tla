----------------------------- MODULE MCProxyGate -----------------------------
(* ProxyGate for TLC: two requests for the same client, a reader that keeps *)
(* coming back, a writer that may be cancelled and one that may not.        *)
EXTENDS ProxyGate

MCClientOf == [t \in Requests |-> "client"]
=============================================================================
