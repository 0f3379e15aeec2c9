--------------------------- MODULE MCBridgeClient ---------------------------
(* BridgeClient for TLC: two operations, of every pair of kinds.            *)
EXTENDS BridgeClient, TLC

MCSymmetry == Permutations(Ops)
=============================================================================
