--------------------------- MODULE MCRequestUpload ---------------------------
(* RequestUpload for TLC: a body longer than the window, a chunk size that  *)
(* does not divide it.                                                      *)
EXTENDS RequestUpload
=============================================================================
