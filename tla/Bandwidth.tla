----------------------------- MODULE Bandwidth -----------------------------
(***************************************************************************)
(* Bandwidth accounting in the Bridge: the trackers of a session's clients,*)
(* the delta of a request, the totals of retired sessions, and the         *)
(* operations that read, reset and retire them (bridge/main.go,            *)
(* bridge/session.go).  One counter stands for bytes read and written.     *)
(*                                                                         *)
(* The session's gate is used as module ProxyGate shows it to be: shared   *)
(* by requests and readers, exclusive for writers, a waiting writer keeps  *)
(* newcomers out.  Who holds it follows from where the operations are.  A  *)
(* reader or writer that has the gate does its work in the same step.      *)
(*                                                                         *)
(* A session-less request has a session of its own, which is never in the  *)
(* store (Ephemeral).  Every operation runs once.                          *)
(***************************************************************************)
EXTENDS Integers, FiniteSets, Functions

CONSTANTS
  Requests, Gets, Resets, Destroys,   \* the operations
  Sessions,   \* sessions
  Ephemeral,  \* those that belong to one session-less request
  Targets,    \* what the client asks: for each operation a session or Process
  ClientOf,   \* the client a request uses
  MaxBytes    \* bytes of one request (bounds the model)

Process == "process"
Nobody  == "nobody"
Clients == {"client", "redirect"}   \* of a session, each with its tracker
Ops     == Requests \cup Gets \cup Resets \cup Destroys

ASSUME SessionsAssumption == IsFiniteSet(Sessions) /\ Sessions # {}
ASSUME OpsAssumption ==
  /\ Requests \cap (Gets \cup Resets \cup Destroys) = {}
  /\ Gets \cap (Resets \cup Destroys) = {} /\ Resets \cap Destroys = {}
ASSUME TargetAssumption ==
  /\ Ephemeral \subseteq Sessions /\ Process \notin Sessions
  /\ Targets \subseteq [Ops -> Sessions \cup {Process}]
  /\ \A T \in Targets :
       /\ \A p \in Requests \cup Destroys : T[p] \in Sessions
       /\ \A p \in Gets \cup Resets \cup Destroys : T[p] \notin Ephemeral
       /\ \A p, q \in Requests : T[p] = T[q] /\ T[p] \in Ephemeral => p = q
ASSUME ClientAssumption == ClientOf \in [Requests -> Clients]
ASSUME BytesAssumption == MaxBytes \in Nat

VARIABLES
  target,     \* the session each operation is for, or Process
  pc,         \* where each operation is
  store,      \* sessionStore.sessions
  tracker,    \* what each client's tracker shows
  retired,    \* retiredBandwidth
  mu,         \* who holds bandwidthMu across steps
  todo,       \* sessions a get or reset has listed and not visited
  at,         \* the session whose gate a reset queues for
  waits,      \* the operations a session.destroy waits for
  sum,        \* the total a bandwidth.get has come to
  base,       \* the bytes erased before it looked
  before,     \* a request's first snapshot
  delta,      \* the bytes its end frame reports
  own,        \* the bytes it really moved
  closed,     \* sessions whose totals were retired
  counted,    \* all bytes ever moved
  erased      \* the bytes that resets have taken out of the books

getVars  == <<sum, base>>
reqVars  == <<before, delta, own>>
walkVars == <<todo, at, waits>>
bookVars == <<closed, counted, erased>>
vars == <<target, pc, store, tracker, retired, mu, walkVars, getVars, reqVars, bookVars>>

Sum(s) == tracker[s]["client"] + tracker[s]["redirect"]   \* aggregateBandwidth

TypeOK ==
  /\ target \in Targets
  /\ pc \in [Ops -> {"idle", "started", "gated", "placed", "ended", "failed", "refused",
                     "finish", "leaving", "wanting", "reading", "next", "queued",
                     "waiting", "retiring", "over"}]
  /\ store \subseteq Sessions \ Ephemeral /\ closed \subseteq Sessions \ store
  /\ tracker \in [Sessions -> [Clients -> Nat]]
  /\ retired \in Nat /\ counted \in Nat /\ erased \in Nat
  /\ mu \in Gets \cup {Nobody}
  /\ todo \in [Gets \cup Resets -> SUBSET Sessions] /\ at \in [Resets -> Sessions]
  /\ waits \in [Destroys -> SUBSET Ops]
  /\ \A f \in {sum, base} : f \in [Gets -> Nat]
  /\ \A f \in {before, delta, own} : f \in [Requests -> Nat]

Init ==
  /\ target \in Targets
  /\ pc = [p \in Ops |-> "idle"]
  /\ store = Sessions \ Ephemeral
  /\ tracker = [s \in Sessions |-> [c \in Clients |-> 0]]
  /\ retired = 0 /\ mu = Nobody
  /\ todo = [p \in Gets \cup Resets |-> {}]
  /\ at = [x \in Resets |-> CHOOSE s \in Sessions : TRUE]
  /\ waits = [d \in Destroys |-> {}]
  /\ sum = [g \in Gets |-> 0] /\ base = [g \in Gets |-> 0]
  /\ before = [r \in Requests |-> 0] /\ delta = [r \in Requests |-> 0]
  /\ own = [r \in Requests |-> 0]
  /\ closed = {} /\ counted = 0 /\ erased = 0

Goto(p, to) == pc' = [pc EXCEPT ![p] = to] /\ UNCHANGED target

-----------------------------------------------------------------------------
(* The gate of session s, from where the operations are.                   *)

Inside   == {"gated", "placed", "ended", "failed", "finish", "leaving"}
InPlace  == Inside \ {"gated"}
InTable(p) == pc[p] \notin {"idle", "leaving", "over"}

MayShare(s) ==
  /\ \A x \in Resets : ~ (pc[x] = "queued" /\ at[x] = s)
  /\ \A d \in Destroys : ~ (pc[d] = "queued" /\ target[d] = s)
MayBeAlone(s) == \A r \in Requests : target[r] = s => pc[r] \notin Inside

-----------------------------------------------------------------------------
(* runRequest and beginTrackedRequest.                                     *)

Start(r) ==
  /\ pc[r] = "idle" /\ target[r] \in store \cup Ephemeral
  /\ Goto(r, "started")
  /\ UNCHANGED <<store, tracker, retired, mu, walkVars, getVars, reqVars, bookVars>>

AcquireRead(r) ==
  /\ pc[r] = "started" /\ MayShare(target[r])
  /\ Goto(r, "gated")
  /\ UNCHANGED <<store, tracker, retired, mu, walkVars, getVars, reqVars, bookVars>>

\* The client's place, and the first snapshot.
TakePlace(r) ==
  /\ pc[r] = "gated"
  /\ \A q \in Requests \ {r} :
       target[q] = target[r] /\ ClientOf[q] = ClientOf[r] => pc[q] \notin InPlace
  /\ before' = [before EXCEPT ![r] = tracker[target[r]][ClientOf[r]]]
  /\ Goto(r, "placed")
  /\ UNCHANGED <<store, tracker, retired, mu, walkVars, getVars, delta, own, bookVars>>

\* A byte goes over the wire, from Do to the end of the body.
Transfer(r) ==
  /\ pc[r] = "placed" /\ own[r] < MaxBytes
  /\ tracker' = [tracker EXCEPT ![target[r]][ClientOf[r]] = @ + 1]
  /\ own' = [own EXCEPT ![r] = @ + 1]
  /\ counted' = counted + 1
  /\ UNCHANGED <<target, pc, store, retired, mu, walkVars, getVars, before, delta, closed, erased>>

bandwidthDelta(b, a) == IF a <= b THEN 0 ELSE a - b

EndBody(r) ==
  /\ pc[r] = "placed"
  /\ delta' = [delta EXCEPT ![r] = bandwidthDelta(before[r], tracker[target[r]][ClientOf[r]])]
  /\ Goto(r, "ended")
  /\ UNCHANGED <<store, tracker, retired, mu, walkVars, getVars, before, own, bookVars>>

\* A request that is cancelled or fails: before it has its place it has given
\* the gate back, after that it still holds both.
Fail(r) ==
  /\ pc[r] \in {"started", "gated", "placed"}
  /\ Goto(r, IF pc[r] = "placed" THEN "failed" ELSE "refused")
  /\ UNCHANGED <<store, tracker, retired, mu, walkVars, getVars, reqVars, bookVars>>

\* retireSession, one section under bandwidthMu.
retireSession(s) ==
  /\ mu = Nobody
  /\ retired' = retired + Sum(s)
  /\ closed' = closed \cup {s}

\* retireEphemeral, before the terminal frame.
RetireEphemeral(r) ==
  /\ pc[r] \in {"ended", "failed", "refused"} /\ target[r] \in Ephemeral
  /\ retireSession(target[r])
  /\ Goto(r, "finish")
  /\ UNCHANGED <<store, tracker, mu, walkVars, getVars, reqVars, counted, erased>>

\* The terminal frame: the operation leaves the table, its variables go.
Finish(r) ==
  /\ \/ pc[r] \in {"ended", "failed", "refused"} /\ target[r] \notin Ephemeral
     \/ pc[r] = "finish"
  /\ Goto(r, IF pc[r] = "refused" THEN "over" ELSE "leaving")
  /\ before' = [before EXCEPT ![r] = 0] /\ delta' = [delta EXCEPT ![r] = 0]
  /\ own' = [own EXCEPT ![r] = 0]
  /\ UNCHANGED <<store, tracker, retired, mu, walkVars, getVars, bookVars>>

\* The deferred calls: place and gate are given back, done is closed.
Leave(r) ==
  /\ pc[r] = "leaving"
  /\ Goto(r, "over")
  /\ UNCHANGED <<store, tracker, retired, mu, walkVars, getVars, reqVars, bookVars>>

-----------------------------------------------------------------------------
(* bandwidth.get.                                                          *)

GetBegin(g) ==
  /\ pc[g] = "idle"
  /\ Goto(g, "wanting")
  /\ UNCHANGED <<store, tracker, retired, mu, walkVars, getVars, reqVars, bookVars>>

\* processBandwidth locks bandwidthMu, takes the retired total and lists the
\* sessions; session.bandwidth looks at one.
GetLook(g) ==
  /\ pc[g] = "wanting"
  /\ IF target[g] = Process
       THEN /\ mu = Nobody /\ mu' = g
            /\ todo' = [todo EXCEPT ![g] = store] /\ sum' = [sum EXCEPT ![g] = retired]
       ELSE /\ todo' = [todo EXCEPT ![g] = store \cap {target[g]}]
            /\ UNCHANGED <<mu, sum>>
  /\ base' = [base EXCEPT ![g] = erased]
  /\ Goto(g, "reading")
  /\ UNCHANGED <<store, tracker, retired, at, waits, reqVars, bookVars>>

GetSession(g) ==
  /\ pc[g] = "reading"
  /\ \E s \in todo[g] :
       /\ MayShare(s)
       /\ sum' = [sum EXCEPT ![g] = @ + Sum(s)]
       /\ todo' = [todo EXCEPT ![g] = @ \ {s}]
  /\ UNCHANGED <<target, pc, store, tracker, retired, mu, at, waits, base, reqVars, bookVars>>

\* The operation is over, its variables go.
GetLeave(g) ==
  /\ Goto(g, "over")
  /\ sum' = [sum EXCEPT ![g] = 0] /\ base' = [base EXCEPT ![g] = 0]
  /\ todo' = [todo EXCEPT ![g] = {}]

Unlock(g) == mu' = IF mu = g THEN Nobody ELSE mu

GetEnd(g) ==
  /\ pc[g] = "reading" /\ todo[g] = {}
  /\ Unlock(g) /\ GetLeave(g)
  /\ UNCHANGED <<store, tracker, retired, at, waits, reqVars, bookVars>>

\* Faulty form: the error path keeps bandwidthMu.
GetGiveUpLocked(g) ==
  /\ pc[g] = "reading" /\ \E s \in todo[g] : ~ MayShare(s)
  /\ GetLeave(g)
  /\ UNCHANGED <<store, tracker, retired, mu, at, waits, reqVars, bookVars>>

\* Cancelled while it waits for a gate.
GetGiveUp(g) ==
  /\ pc[g] = "reading" /\ \E s \in todo[g] : ~ MayShare(s)
  /\ Unlock(g) /\ GetLeave(g)
  /\ UNCHANGED <<store, tracker, retired, at, waits, reqVars, bookVars>>

-----------------------------------------------------------------------------
(* bandwidth.reset.                                                        *)

\* resetProcessBandwidth lists the sessions; resetBandwidth has one.
ResetBegin(x) ==
  /\ pc[x] = "idle"
  /\ todo' = [todo EXCEPT ![x] = IF target[x] = Process THEN store ELSE store \cap {target[x]}]
  /\ Goto(x, "next")
  /\ UNCHANGED <<store, tracker, retired, mu, at, waits, getVars, reqVars, bookVars>>

\* acquireWrite finds the gate in use.
ResetQueue(x) ==
  /\ pc[x] = "next"
  /\ \E s \in todo[x] : ~ MayBeAlone(s) /\ at' = [at EXCEPT ![x] = s]
  /\ Goto(x, "queued")
  /\ UNCHANGED <<store, tracker, retired, mu, todo, waits, getVars, reqVars, bookVars>>

\* The session a reset is at: the one it queues for, or any it has listed.
Visits(x, s) == s \in todo[x] /\ (pc[x] = "next" \/ (pc[x] = "queued" /\ at[x] = s))

\* Faulty form: the trackers are reset under a shared gate.
ResetSessionShared(x) ==
  /\ \E s \in Sessions :
       /\ Visits(x, s)
       /\ tracker' = [tracker EXCEPT ![s] = [c \in Clients |-> 0]]
       /\ erased' = erased + (IF s \in closed THEN 0 ELSE Sum(s))
       /\ todo' = [todo EXCEPT ![x] = @ \ {s}]
  /\ Goto(x, "next")
  /\ UNCHANGED <<store, retired, mu, at, waits, getVars, reqVars, closed, counted>>

\* The session's trackers, alone in its gate.  What was retired is in the
\* books of retiredBandwidth already.
ResetSession(x) ==
  /\ \E s \in Sessions :
       /\ Visits(x, s) /\ MayBeAlone(s)
       /\ tracker' = [tracker EXCEPT ![s] = [c \in Clients |-> 0]]
       /\ erased' = erased + (IF s \in closed THEN 0 ELSE Sum(s))
       /\ todo' = [todo EXCEPT ![x] = @ \ {s}]
  /\ Goto(x, "next")
  /\ UNCHANGED <<store, retired, mu, at, waits, getVars, reqVars, closed, counted>>

ResetGiveUp(x) ==
  /\ pc[x] = "queued"
  /\ Goto(x, "over")
  /\ UNCHANGED <<store, tracker, retired, mu, walkVars, getVars, reqVars, bookVars>>

\* The retired totals come last, and only for the whole process.
ResetEnd(x) ==
  /\ pc[x] = "next" /\ todo[x] = {}
  /\ IF target[x] = Process
       THEN mu = Nobody /\ retired' = 0 /\ erased' = erased + retired
       ELSE UNCHANGED <<retired, erased>>
  /\ Goto(x, "over")
  /\ UNCHANGED <<store, tracker, mu, walkVars, getVars, reqVars, closed, counted>>

-----------------------------------------------------------------------------
(* session.destroy.                                                        *)

\* Faulty form: the session stays in the store until it is closed.
DestroyRemoveLate(d) ==
  /\ pc[d] = "idle" /\ target[d] \in store
  /\ waits' = [waits EXCEPT ![d] = {p \in Ops \ {d} : target[p] = target[d] /\ InTable(p)}]
  /\ Goto(d, "waiting")
  /\ UNCHANGED <<store, tracker, retired, mu, todo, at, getVars, reqVars, bookVars>>

\* remove and cancelSession.  An operation that comes between the two does not
\* find its session.
DestroyRemove(d) ==
  /\ pc[d] = "idle" /\ target[d] \in store
  /\ store' = store \ {target[d]}
  /\ waits' = [waits EXCEPT ![d] = {p \in Ops \ {d} : target[p] = target[d] /\ InTable(p)}]
  /\ Goto(d, "waiting")
  /\ UNCHANGED <<tracker, retired, mu, todo, at, getVars, reqVars, bookVars>>

DestroyAwait(d) ==
  /\ pc[d] = "waiting" /\ \A p \in waits[d] : pc[p] = "over"
  /\ Goto(d, "retiring")
  /\ UNCHANGED <<store, tracker, retired, mu, walkVars, getVars, reqVars, bookVars>>

DestroyRetire(d) ==
  /\ pc[d] = "retiring" /\ retireSession(target[d])
  /\ Goto(d, IF MayBeAlone(target[d]) THEN "over" ELSE "queued")
  /\ UNCHANGED <<store, tracker, mu, walkVars, getVars, reqVars, counted, erased>>

\* closeIdleConnections gets the gate it queued for.
DestroyClose(d) ==
  /\ pc[d] = "queued" /\ MayBeAlone(target[d])
  /\ Goto(d, "over")
  /\ UNCHANGED <<store, tracker, retired, mu, walkVars, getVars, reqVars, bookVars>>

-----------------------------------------------------------------------------
RequestSteps(r) ==
  \/ Start(r) \/ AcquireRead(r) \/ TakePlace(r) \/ Transfer(r) \/ EndBody(r) \/ Fail(r)
  \/ RetireEphemeral(r) \/ Finish(r) \/ Leave(r)
GetSteps(g) == GetBegin(g) \/ GetLook(g) \/ GetSession(g) \/ GetEnd(g) \/ GetGiveUp(g)
ResetSteps(x) ==
  ResetBegin(x) \/ ResetQueue(x) \/ ResetSession(x) \/ ResetGiveUp(x) \/ ResetEnd(x)
DestroySteps(d) == DestroyRemove(d) \/ DestroyAwait(d) \/ DestroyRetire(d) \/ DestroyClose(d)

Next ==
  \/ \E r \in Requests : RequestSteps(r)
  \/ \E g \in Gets : GetSteps(g)
  \/ \E x \in Resets : ResetSteps(x)
  \/ \E d \in Destroys : DestroySteps(d)

\* An operation that has begun goes on; nobody has to give up.
Fairness ==
  /\ \A r \in Requests : WF_vars(AcquireRead(r) \/ TakePlace(r))
                         /\ WF_vars(RetireEphemeral(r) \/ Finish(r) \/ Leave(r))
  /\ \A g \in Gets : WF_vars(GetLook(g) \/ GetSession(g) \/ GetEnd(g))
  /\ \A x \in Resets : WF_vars(ResetQueue(x) \/ ResetSession(x) \/ ResetEnd(x))
  /\ \A d \in Destroys : WF_vars(DestroyAwait(d) \/ DestroyRetire(d) \/ DestroyClose(d))

\* Servers answer, or the request's timeout ends it.
ResponsesEnd == []<>(\A r \in Requests : pc[r] # "placed")

Spec == Init /\ [][Next]_vars /\ Fairness

-----------------------------------------------------------------------------
(* No byte is lost or counted twice: what is retired, what the sessions not *)
(* yet retired show and what resets have erased is all there ever was.      *)
(* session.destroy and retireEphemeral retire a session once, when nobody   *)
(* moves bytes in it any more.                                              *)
NoByteLost ==
  retired + SumFunctionOnSet([s \in Sessions |-> Sum(s)], Sessions \ closed) + erased = counted

(* bandwidth.get never reports a byte twice, nor one that a reset had taken *)
(* away before it looked, while sessions are destroyed, retired and reset.  *)
NeverOvercounts == \A g \in Gets : pc[g] # "wanting" => sum[g] + base[g] <= counted

(* The books balance whatever is destroyed, retired or reset meanwhile.      *)
BooksBalance == TypeOK /\ NoByteLost /\ NeverOvercounts

(* The delta in a request's end frame is exactly the bytes it moved, with   *)
(* other requests on the session's clients and resets of its trackers       *)
(* around it.                                                               *)
DeltaExact == \A r \in Requests : pc[r] = "ended" => delta[r] = own[r]

(* Nobody waits for ever on bandwidthMu or a gate: a get holds the mutex    *)
(* while it waits for the gate behind a reset that waits for a response,    *)
(* and others wait for the mutex.  Whatever has begun comes to its end.     *)
EverybodyEnds == ResponsesEnd => <>[](\A p \in Ops : pc[p] \in {"idle", "over"})
=============================================================================
