----------------------------- MODULE MCSessions -----------------------------
(* Sessions for TLC: two callers and a layer that may close under them.    *)
EXTENDS Sessions
=============================================================================
