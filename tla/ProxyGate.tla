------------------------------ MODULE ProxyGate ------------------------------
(***************************************************************************)
(* The gates of one session (bridge/session.go): proxyGate, a lock that    *)
(* operations share and that setProxy, resetBandwidth and                  *)
(* closeIdleConnections take alone, and inside it the one-place channels   *)
(* that let one request at a time use each of the session's two clients.   *)
(*                                                                         *)
(* The waiters of proxyGate sleep on a channel that signalLocked closes    *)
(* and replaces.  `parked` remembers of each sleeper whether the channel   *)
(* it captured is still open; a step is one section under g.mu (the choice *)
(* of select is taken with the section that follows it: a closed channel   *)
(* stays closed, a context that is done stays done).                       *)
(***************************************************************************)
EXTENDS Naturals, FiniteSets

CONSTANTS
  Requests,   \* threads in runRequest
  Readers,    \* threads that only share: cookies, bandwidth, a handshake
  Writers,    \* threads that want the session alone
  Background, \* the writers without a context: closeIdleConnections
  Clients,    \* the session's request clients
  ClientOf,   \* the client each request needs
  Nobody      \* no thread

Sharers == Requests \cup Readers
Threads == Sharers \cup Writers

ASSUME ThreadsAssumption ==
  /\ IsFiniteSet(Requests) /\ IsFiniteSet(Readers) /\ IsFiniteSet(Writers)
  /\ Sharers \cap Writers = {} /\ Requests \cap Readers = {}
  /\ Background \subseteq Writers
  /\ Nobody \notin Threads
ASSUME ClientsAssumption == ClientOf \in [Requests -> Clients]

VARIABLES
  pc,             \* where each thread is
  ctx,            \* its context
  parked,         \* the channel a sleeper captured: open or closed
  readers,        \* proxyGate.readers
  writer,         \* proxyGate.writer
  waitingWriters, \* proxyGate.waitingWriters
  place           \* clientBandwidthGate, redirectBandwidthGate: who is in it

vars == <<pc, ctx, parked, readers, writer, waitingWriters, place>>

TypeOK ==
  /\ pc \in [Threads -> {"out", "sleep", "shared", "placed", "leaving", "alone", "over"}]
  /\ ctx \in [Threads -> {"live", "done"}]
  /\ parked \in [Threads -> {"open", "closed"}]
  /\ readers \in Nat /\ waitingWriters \in Nat
  /\ writer \in {"free", "held"}
  /\ place \in [Clients -> Requests \cup {Nobody}]

Init ==
  /\ pc = [t \in Threads |-> "out"]
  /\ ctx = [t \in Threads |-> "live"]
  /\ parked = [t \in Threads |-> "closed"]
  /\ readers = 0 /\ waitingWriters = 0 /\ writer = "free"
  /\ place = [c \in Clients |-> Nobody]

Goto(t, to) == pc' = [pc EXCEPT ![t] = to]

Signal == parked' = [t \in Threads |-> "closed"]

\* A thread that captures the current channel and sleeps.
Sleep(t) == Goto(t, "sleep") /\ parked' = [parked EXCEPT ![t] = "open"]

Woken(t) == pc[t] = "sleep" /\ parked[t] = "closed"

-----------------------------------------------------------------------------
(* acquireRead and releaseRead.                                            *)

\* Faulty form: readers do not let a waiting writer pass.
AcquireReadUnfair(t) ==
  /\ pc[t] = "out" \/ Woken(t)
  /\ IF writer = "free"
       THEN readers' = readers + 1 /\ Goto(t, "shared") /\ UNCHANGED parked
       ELSE Sleep(t) /\ UNCHANGED readers
  /\ UNCHANGED <<ctx, writer, waitingWriters, place>>

AcquireRead(t) ==
  /\ pc[t] = "out" \/ Woken(t)
  /\ IF writer = "free" /\ waitingWriters = 0
       THEN readers' = readers + 1 /\ Goto(t, "shared") /\ UNCHANGED parked
       ELSE Sleep(t) /\ UNCHANGED readers
  /\ UNCHANGED <<ctx, writer, waitingWriters, place>>

\* ctx.Done while asleep: a reader just leaves.
GiveUpRead(t) ==
  /\ pc[t] = "sleep" /\ ctx[t] = "done"
  /\ Goto(t, "out")
  /\ ctx' = [ctx EXCEPT ![t] = "live"]
  /\ UNCHANGED <<parked, readers, writer, waitingWriters, place>>

\* The thread comes back as another operation, with another context.
ReleaseRead(t) ==
  /\ pc[t] = "leaving" \/ (pc[t] = "shared" /\ t \in Readers)
  /\ readers' = readers - 1
  /\ IF readers = 1 THEN Signal ELSE UNCHANGED parked
  /\ Goto(t, "out")
  /\ ctx' = [ctx EXCEPT ![t] = "live"]
  /\ UNCHANGED <<writer, waitingWriters, place>>

-----------------------------------------------------------------------------
(* beginTrackedRequest: the place of the request's client.                 *)

\* Select between a free place and ctx.Done.  With the place taken the request
\* looks at its context once more and may have to give it back at once.
TakePlace(t) ==
  /\ pc[t] = "shared" /\ place[ClientOf[t]] = Nobody
  /\ place' = [place EXCEPT ![ClientOf[t]] = t]
  /\ Goto(t, "placed")
  /\ UNCHANGED <<ctx, parked, readers, writer, waitingWriters>>

GiveUpPlace(t) ==
  /\ pc[t] = "shared" /\ ctx[t] = "done"
  /\ Goto(t, "leaving")
  /\ UNCHANGED <<ctx, parked, readers, writer, waitingWriters, place>>

\* The first half of the release function: <-gate.
LeavePlace(t) ==
  /\ pc[t] = "placed"
  /\ place' = [place EXCEPT ![ClientOf[t]] = Nobody]
  /\ Goto(t, "leaving")
  /\ UNCHANGED <<ctx, parked, readers, writer, waitingWriters>>

-----------------------------------------------------------------------------
(* acquireWrite and releaseWrite.                                          *)

\* The writer counts itself once, before it first looks at the gate.
counted(t) == waitingWriters + (IF pc[t] = "out" THEN 1 ELSE 0)

\* Faulty form: the writer looks at the readers only.
AcquireWriteBesideWriter(t) ==
  /\ pc[t] = "out" \/ Woken(t)
  /\ IF readers = 0
       THEN /\ writer' = "held" /\ waitingWriters' = counted(t) - 1
            /\ Goto(t, "alone") /\ UNCHANGED parked
       ELSE waitingWriters' = counted(t) /\ Sleep(t) /\ UNCHANGED writer
  /\ UNCHANGED <<ctx, readers, place>>

\* Take the gate and leave the count, or sleep on the current channel.
AcquireWrite(t) ==
  /\ pc[t] = "out" \/ Woken(t)
  /\ IF writer = "free" /\ readers = 0
       THEN /\ writer' = "held" /\ waitingWriters' = counted(t) - 1
            /\ Goto(t, "alone") /\ UNCHANGED parked
       ELSE waitingWriters' = counted(t) /\ Sleep(t) /\ UNCHANGED writer
  /\ UNCHANGED <<ctx, readers, place>>

\* Faulty form: a writer that gives up does not wake the readers it held back.
GiveUpWriteSilently(t) ==
  /\ pc[t] = "sleep" /\ ctx[t] = "done"
  /\ waitingWriters' = waitingWriters - 1
  /\ Goto(t, "over")
  /\ UNCHANGED <<ctx, parked, readers, writer, place>>

GiveUpWrite(t) ==
  /\ pc[t] = "sleep" /\ ctx[t] = "done"
  /\ waitingWriters' = waitingWriters - 1
  /\ Signal
  /\ Goto(t, "over")
  /\ UNCHANGED <<ctx, readers, writer, place>>

ReleaseWrite(t) ==
  /\ pc[t] = "alone"
  /\ writer' = "free"
  /\ Signal
  /\ Goto(t, "over")
  /\ UNCHANGED <<ctx, readers, waitingWriters, place>>

\* The dispatcher cancels the operation, or its timeout passes.
Cancel(t) ==
  /\ t \notin Background /\ pc[t] \notin {"out", "over"} /\ ctx[t] = "live"
  /\ ctx' = [ctx EXCEPT ![t] = "done"]
  /\ UNCHANGED <<pc, parked, readers, writer, waitingWriters, place>>

-----------------------------------------------------------------------------
Read(t)    == AcquireRead(t) \/ GiveUpRead(t) \/ ReleaseRead(t)
Request(t) == TakePlace(t) \/ GiveUpPlace(t) \/ LeavePlace(t)
Write(t)   == AcquireWrite(t) \/ GiveUpWrite(t) \/ ReleaseWrite(t)

Next ==
  \/ \E t \in Sharers : Read(t)
  \/ \E t \in Requests : Request(t)
  \/ \E t \in Writers : Write(t)
  \/ \E t \in Threads : Cancel(t)

\* A thread that has called acquire goes on.  That a holder gives the gate back
\* is its handler's affair: HoldersLeave is a hypothesis of the properties that
\* need it.
Fairness ==
  /\ \A t \in Sharers  : WF_vars(pc[t] # "out" /\ (AcquireRead(t) \/ GiveUpRead(t)))
                         /\ WF_vars(pc[t] = "leaving" /\ ReleaseRead(t))
  /\ \A t \in Requests : WF_vars(TakePlace(t) \/ GiveUpPlace(t))
  /\ \A t \in Writers  : WF_vars(pc[t] # "out" /\ (AcquireWrite(t) \/ GiveUpWrite(t)))

HoldersLeave ==
  /\ \A t \in Readers  : WF_vars(ReleaseRead(t))
  /\ \A t \in Requests : WF_vars(LeavePlace(t))
  /\ \A t \in Writers  : WF_vars(ReleaseWrite(t))

Spec == Init /\ [][Next]_vars /\ Fairness

-----------------------------------------------------------------------------
sharing == {t \in Sharers : pc[t] \in {"shared", "placed", "leaving"}}
alone   == {t \in Writers : pc[t] = "alone"}
waiting == {t \in Writers : pc[t] = "sleep"}

(* The three fields tell the truth about the threads: a count that drifts   *)
(* (a double release, a writer that leaves without counting itself out)     *)
(* would lock the session for ever or let a writer in beside a reader.      *)
CountsTrue ==
  /\ readers = Cardinality(sharing)
  /\ waitingWriters = Cardinality(waiting)
  /\ writer = "held" <=> alone # {}

(* A sleeper whose channel has not been closed really has something to wait *)
(* for: nobody sleeps through the release, or the cancellation, that frees  *)
(* the gate.                                                                *)
NoSleepThrough ==
  \A t \in Threads : pc[t] = "sleep" /\ parked[t] = "open" =>
    \/ writer = "held"
    \/ IF t \in Writers THEN readers > 0 ELSE waitingWriters > 0

(* The bytes a client counts between the start and the end of a request are *)
(* that request's: it is alone in its client's place.                       *)
OneRequestPerClient ==
  \A t \in Requests : pc[t] = "placed" <=> place[ClientOf[t]] = t

(* The books of the gate and of the places agree with who is where.         *)
GateTrue == TypeOK /\ CountsTrue /\ OneRequestPerClient

Lock == INSTANCE SharedLock

(* The gate is the lock: whoever is alone really is.                        *)
ImplementsLock == Lock!Spec

(* A writer is not overtaken for ever by readers that keep coming: session. *)
(* destroy, which has no context to give up with, gets past the gate.       *)
WriterServed ==
  HoldersLeave => \A t \in Writers : pc[t] = "sleep" ~> pc[t] \in {"alone", "over"}

(* A reader gets its turn once the writers that came are through or have    *)
(* given up (the model lets each writer come once).                         *)
ReaderServed ==
  HoldersLeave => \A t \in Sharers : pc[t] = "sleep" ~> pc[t] # "sleep"

(* Whoever sleeps at the gate gets his turn.                               *)
Served == WriterServed /\ ReaderServed
=============================================================================
