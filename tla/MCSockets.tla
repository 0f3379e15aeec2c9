----------------------------- MODULE MCSockets -----------------------------
(* Sockets for TLC: the socket is opened twice, and two fibres write.      *)
EXTENDS Sockets
=============================================================================
