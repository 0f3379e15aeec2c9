------------------------------ MODULE MCCredits ------------------------------
(* Credits for TLC: a body of several windows, a chunk size that does not  *)
(* divide the window, all three producers.                                 *)
EXTENDS Credits
=============================================================================
