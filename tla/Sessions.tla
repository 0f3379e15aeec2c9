------------------------------ MODULE Sessions ------------------------------
(***************************************************************************)
(* The life of a session on the client (TlsClient.session, its methods and *)
(* the layer's finalizer in TlsClient.ts): each caller creates one session *)
(* in Go and owes its destruction, whether it is interrupted, its scope    *)
(* closes, the layer goes down first or the Bridge dies.                   *)
(*                                                                         *)
(* A call of the Bridge is a request that Go answers once.  One that is    *)
(* interrupted still waits for its answer (BridgeClient), so the create    *)
(* and the destroy of a session are never both on their way.  Once the     *)
(* Bridge is dead or released new calls fail at once; a call that is on    *)
(* its way at the release is never answered (README, findings).            *)
(***************************************************************************)
EXTENDS Integers, FiniteSets

CONSTANTS Callers, \* each with a session id of its own
          Nobody

ASSUME CallersAssumption == IsFiniteSet(Callers) /\ Nobody \notin Callers

VARIABLES at,        \* the fibre of session(): "start", "creating", "held", "failed"
          interrupted, \* the callers whose creation was interrupted
          scope,     \* caller -> its scope: "open", "closed"
          request,   \* caller -> "none", "create", "destroy": sent to Go
          answer,    \* caller -> how its create ended: "none" (yet), "ok", "error"
          destroySent, sessionActive, activeSessions, \* as in the code
          gauge,     \* TlsClientMetrics.sessionsActive
          destroys,  \* caller -> how many destroys were sent
          used,      \* caller -> a method's call: "none", "asked", "served", "unknown"
          live,      \* the sessions in Go's store
          layer,     \* "open", "destroying", "destroyed", "released"
          snapshot,  \* the destroyers the layer's finalizer has still to run
          awaited,   \* the one it waits for
          dead       \* state.dead is set

fibre == <<at, interrupted, scope>>
calls == <<request, answer, destroys>>
book == <<destroySent, sessionActive, activeSessions, gauge>>
closing == <<layer, snapshot, awaited>>
vars == <<fibre, calls, book, used, live, closing, dead>>

Init ==
  /\ at = [c \in Callers |-> "start"] /\ interrupted = {}
  /\ scope = [c \in Callers |-> "open"]
  /\ request = [c \in Callers |-> "none"] /\ answer = [c \in Callers |-> "none"]
  /\ destroySent = {} /\ sessionActive = {} /\ activeSessions = {} /\ gauge = 0
  /\ destroys = [c \in Callers |-> 0] /\ used = [c \in Callers |-> "none"]
  /\ live = {} /\ dead = FALSE
  /\ layer = "open" /\ snapshot = {} /\ awaited = Nobody

Reachable == ~dead /\ layer # "released"

\* Faulty form: a destroy always counts a session out.
LeavesAlways(c) == 1

\* What the gauge loses when the destroy of c has ended.
Leaves(c) == IF c \in sessionActive THEN 1 ELSE 0

\* Faulty form: everyone who should destroy the session calls.
DestroySessionEachTime(c) ==
  /\ destroySent' = destroySent \cup {c}
  /\ activeSessions' = activeSessions \ {c}
  /\ IF Reachable
     THEN /\ request' = [request EXCEPT ![c] = "destroy"]
          /\ destroys' = [destroys EXCEPT ![c] = @ + 1]
          /\ UNCHANGED gauge
     ELSE gauge' = gauge - Leaves(c) /\ UNCHANGED <<request, destroys>>

\* destroySession: only the first one calls, and a Bridge that cannot be
\* reached refuses the call at once.
DestroySession(c) ==
  IF c \in destroySent
  THEN UNCHANGED <<destroySent, activeSessions, gauge, request, destroys>>
  ELSE /\ destroySent' = destroySent \cup {c}
       /\ activeSessions' = activeSessions \ {c}
       /\ IF Reachable
          THEN /\ request' = [request EXCEPT ![c] = "destroy"]
               /\ destroys' = [destroys EXCEPT ![c] = @ + 1]
               /\ UNCHANGED gauge
          ELSE gauge' = gauge - Leaves(c) /\ UNCHANGED <<request, destroys>>

-----------------------------------------------------------------------------
(* The caller. *)

Create(c) ==
  /\ at[c] = "start"
  /\ at' = [at EXCEPT ![c] = "creating"]
  /\ IF Reachable
     THEN request' = [request EXCEPT ![c] = "create"] /\ UNCHANGED answer
     ELSE answer' = [answer EXCEPT ![c] = "error"] /\ UNCHANGED request
  /\ UNCHANGED <<interrupted, scope, destroys, book, used, live, closing, dead>>

\* It is interrupted before the create has been written: Go hears nothing of it,
\* but the exit is a failure like any other.
InterruptUnsent(c) ==
  /\ at[c] = "start"
  /\ at' = [at EXCEPT ![c] = "creating"]
  /\ interrupted' = interrupted \cup {c}
  /\ answer' = [answer EXCEPT ![c] = "error"]
  /\ UNCHANGED <<scope, request, destroys, book, used, live, closing, dead>>

\* Once it is written its call goes on waiting for Go.
Interrupt(c) ==
  /\ at[c] = "creating" /\ c \notin interrupted
  /\ interrupted' = interrupted \cup {c}
  /\ UNCHANGED <<at, scope, calls, book, used, live, closing, dead>>

\* Faulty form: an interrupted creation has nothing to destroy.
CreateFailedQuietly(c) ==
  /\ at[c] = "creating" /\ answer[c] # "none"
  /\ c \in interrupted \/ answer[c] = "error"
  /\ at' = [at EXCEPT ![c] = "failed"]
  /\ IF answer[c] = "error"
     THEN DestroySession(c)
     ELSE UNCHANGED <<destroySent, activeSessions, gauge, request, destroys>>
  /\ UNCHANGED <<interrupted, scope, answer, sessionActive, used, live, closing, dead>>

\* The exit of the create is a failure or an interrupt, whatever Go made of it.
CreateFailed(c) ==
  /\ at[c] = "creating" /\ answer[c] # "none"
  /\ c \in interrupted \/ answer[c] = "error"
  /\ at' = [at EXCEPT ![c] = "failed"]
  /\ DestroySession(c)
  /\ UNCHANGED <<interrupted, scope, answer, sessionActive, used, live, closing, dead>>

\* The session joins the layer's map and the gauge, and the scope gets its
\* finalizer; a scope that has closed meanwhile runs it on the spot.
Created(c) ==
  /\ at[c] = "creating" /\ answer[c] = "ok" /\ c \notin interrupted
  /\ at' = [at EXCEPT ![c] = "held"]
  /\ sessionActive' = sessionActive \cup {c}
  /\ IF scope[c] = "open"
     THEN /\ activeSessions' = activeSessions \cup {c} /\ gauge' = gauge + 1
          /\ UNCHANGED <<destroySent, request, destroys>>
     ELSE /\ destroySent' = destroySent \cup {c} /\ UNCHANGED activeSessions
          /\ IF Reachable
             THEN /\ request' = [request EXCEPT ![c] = "destroy"]
                  /\ destroys' = [destroys EXCEPT ![c] = @ + 1]
                  /\ gauge' = gauge + 1
             ELSE UNCHANGED <<request, destroys, gauge>>
  /\ UNCHANGED <<interrupted, scope, answer, used, live, closing, dead>>

\* The scope session() was given closes, at any time.
CloseScope(c) ==
  /\ scope[c] = "open" /\ at[c] # "start"
  /\ scope' = [scope EXCEPT ![c] = "closed"]
  /\ IF at[c] = "held" THEN DestroySession(c)
     ELSE UNCHANGED <<destroySent, activeSessions, gauge, request, destroys>>
  /\ UNCHANGED <<at, interrupted, answer, sessionActive, used, live, closing, dead>>

\* cookies, setCookies, exportCookies, importCookies, bandwidth,
\* resetBandwidth and setProxy: one call that names the session.
Use(c) ==
  /\ at[c] = "held" /\ used[c] # "asked" /\ Reachable
  /\ used' = [used EXCEPT ![c] = "asked"]
  /\ UNCHANGED <<fibre, calls, book, live, closing, dead>>

-----------------------------------------------------------------------------
(* The layer. *)

\* Its finalizer takes the map as it is and clears it.
CloseLayer ==
  /\ layer = "open"
  /\ layer' = "destroying" /\ snapshot' = activeSessions /\ activeSessions' = {}
  /\ UNCHANGED <<fibre, calls, destroySent, sessionActive, gauge, used, live, awaited, dead>>

\* The destroyers run one after the other; one that somebody else has begun
\* is not waited for.
LayerDestroys(c) ==
  /\ layer = "destroying" /\ awaited = Nobody /\ c \in snapshot
  /\ snapshot' = snapshot \ {c}
  /\ awaited' = IF c \in destroySent THEN Nobody ELSE c
  /\ DestroySession(c)
  /\ UNCHANGED <<fibre, answer, sessionActive, used, live, layer, dead>>

LayerWaited ==
  /\ awaited # Nobody /\ request[awaited] = "none"
  /\ awaited' = Nobody
  /\ UNCHANGED <<fibre, calls, book, used, live, layer, snapshot, dead>>

LayerDestroyed ==
  /\ layer = "destroying" /\ snapshot = {} /\ awaited = Nobody
  /\ layer' = "destroyed"
  /\ UNCHANGED <<fibre, calls, book, used, live, snapshot, awaited, dead>>

\* The Bridge, built before, is released after; its process and all in it end.
ReleaseBridge ==
  /\ layer = "destroyed"
  /\ layer' = "released" /\ live' = {}
  /\ UNCHANGED <<fibre, calls, book, used, snapshot, awaited, dead>>

-----------------------------------------------------------------------------
(* Go, and its death. *)

GoCreate(c) ==
  /\ request[c] = "create" /\ Reachable
  /\ request' = [request EXCEPT ![c] = "none"]
  /\ \/ answer' = [answer EXCEPT ![c] = "ok"] /\ live' = live \cup {c}
     \/ answer' = [answer EXCEPT ![c] = "error"] /\ UNCHANGED live
  /\ UNCHANGED <<fibre, destroys, book, used, closing, dead>>

\* An error, for a session that was never made, is ignored like an ok.
GoDestroy(c) ==
  /\ request[c] = "destroy" /\ Reachable
  /\ request' = [request EXCEPT ![c] = "none"]
  /\ live' = live \ {c}
  /\ gauge' = gauge - Leaves(c)
  /\ UNCHANGED <<fibre, answer, destroys, destroySent, sessionActive, activeSessions,
                 used, closing, dead>>

GoUse(c) ==
  /\ used[c] = "asked" /\ Reachable
  /\ used' = [used EXCEPT ![c] = IF c \in live THEN "served" ELSE "unknown"]
  /\ UNCHANGED <<fibre, calls, book, live, closing, dead>>

\* markDead fails every call there is.
Die ==
  /\ Reachable
  /\ dead' = TRUE /\ live' = {}
  /\ answer' = [c \in Callers |-> IF request[c] = "create" THEN "error" ELSE answer[c]]
  /\ gauge' = gauge - Cardinality({c \in sessionActive : request[c] = "destroy"})
  /\ request' = [c \in Callers |-> "none"]
  /\ used' = [c \in Callers |-> IF used[c] = "asked" THEN "none" ELSE used[c]]
  /\ UNCHANGED <<fibre, destroys, destroySent, sessionActive, activeSessions, closing>>

-----------------------------------------------------------------------------
Runs(c) == CreateFailed(c) \/ Created(c)
Go(c) == GoCreate(c) \/ GoDestroy(c)
LayerStep == (\E c \in Callers : LayerDestroys(c)) \/ LayerWaited \/ LayerDestroyed \/ ReleaseBridge

Next ==
  \/ \E c \in Callers : \/ Create(c) \/ InterruptUnsent(c) \/ Interrupt(c) \/ CloseScope(c) \/ Use(c)
                        \/ Runs(c) \/ Go(c) \/ GoUse(c)
  \/ CloseLayer \/ LayerStep
  \/ Die

\* Fibres that are ready run and Go answers.  Nobody has to close anything.
Spec ==
  /\ Init /\ [][Next]_vars
  /\ \A c \in Callers : WF_vars(Runs(c)) /\ WF_vars(Go(c))
  /\ WF_vars(LayerStep)

-----------------------------------------------------------------------------
TypeOK ==
  /\ at \in [Callers -> {"start", "creating", "held", "failed"}]
  /\ scope \in [Callers -> {"open", "closed"}]
  /\ request \in [Callers -> {"none", "create", "destroy"}]
  /\ answer \in [Callers -> {"none", "ok", "error"}]
  /\ used \in [Callers -> {"none", "asked", "served", "unknown"}]
  /\ interrupted \subseteq Callers /\ destroySent \subseteq Callers
  /\ sessionActive \subseteq Callers /\ activeSessions \subseteq Callers
  /\ live \subseteq Callers /\ snapshot \subseteq Callers
  /\ gauge \in Int /\ destroys \in [Callers -> Nat]
  /\ layer \in {"open", "destroying", "destroyed", "released"}
  /\ awaited \in Callers \cup {Nobody} /\ dead \in BOOLEAN

Settled(c) == at[c] # "creating" /\ request[c] = "none"

\* A session exists in Go, outside a call that is making or ending it, only
\* while a caller whose scope is open holds it and the layer will find it in
\* its map or has it in its list: "destroys a remotely-created session if
\* creation is interrupted" (the name of a test), at every other moment too.
\* The other way round, nobody destroys a session under a caller: a method is
\* told of an unknown session only after the scope or the layer has closed.
NoOrphan ==
  /\ TypeOK
  /\ \A c \in live : Settled(c) =>
       /\ at[c] = "held" /\ scope[c] = "open" /\ c \notin destroySent
       /\ c \in activeSessions \cup snapshot
  /\ \A c \in Callers : used[c] = "unknown" => scope[c] = "closed" \/ layer # "open"

\* The caller's exits, its scope and the layer's finalizer between them send
\* one destroy for each session, and never one that could overtake the create:
\* that has been answered, or will never be sent.
DestroyOnce ==
  \A c \in Callers : /\ destroys[c] <= 1
                     /\ destroys[c] = 1 => answer[c] # "none"
                     /\ (at[c] = "held" /\ scope[c] = "closed") => c \in destroySent

\* The gauge is the number of sessions that were handed out and whose destroy
\* has not ended, however it ends and whether or not the Bridge is there.
GaugeExact ==
  gauge = Cardinality({c \in sessionActive : c \notin destroySent \/ request[c] = "destroy"})

\* A session whose creation was interrupted, whose scope has closed or whose
\* layer goes down is gone from Go in the end.
SessionsGo ==
  /\ \A c \in Callers : (c \in interrupted \/ scope[c] = "closed") ~> (c \notin live)
  /\ (layer = "destroying") ~> (live = {} /\ layer = "released")
=============================================================================
