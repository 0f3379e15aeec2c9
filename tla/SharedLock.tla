----------------------------- MODULE SharedLock -----------------------------
(***************************************************************************)
(* What a session's gate promises: any number of operations share the      *)
(* session, and one that replaces its proxy, resets its counters or closes *)
(* its idle connections has it alone.                                      *)
(***************************************************************************)
CONSTANT Threads

VARIABLES
  sharing,    \* who uses the session's clients
  alone       \* who has the session to itself

Init == sharing = {} /\ alone = {}

Share(t) == alone = {} /\ sharing' = sharing \cup {t} /\ UNCHANGED alone

Unshare(t) == t \in sharing /\ sharing' = sharing \ {t} /\ UNCHANGED alone

Take(t) == sharing = {} /\ alone = {} /\ alone' = {t} /\ UNCHANGED sharing

Drop(t) == alone = {t} /\ alone' = {} /\ UNCHANGED sharing

Next == \E t \in Threads : Share(t) \/ Unshare(t) \/ Take(t) \/ Drop(t)

Spec == Init /\ [][Next]_<<sharing, alone>>
=============================================================================
