------------------------------ MODULE Sockets ------------------------------
(***************************************************************************)
(* The socket that session.webSocket returns (makeWebSocketSocket in       *)
(* TlsClient.ts): one value that a program opens again and again by running*)
(* its reader, while other fibres write to it.  What they share is one     *)
(* `connection`, one `failure`, one latch and one gauge.                   *)
(*                                                                         *)
(* Each run of the reader opens a new operation of the Bridge, numbered    *)
(* here in the order of the runs.  A run begins after the scope of the     *)
(* one before is closed ("Do not keep a reader or writer after its scope   *)
(* has closed", the README of the package); writes are still under way     *)
(* then.  From the answer of Go to the opened latch there is no wait.      *)
(***************************************************************************)
EXTENDS Integers, FiniteSets, Errors

CONSTANTS Writers,  \* the fibres that write
          MaxRuns,  \* bound: runs of the reader
          GoKinds,  \* the kinds of error that may end an operation
          None      \* undefined

ASSUME MaxRunsAssumption == MaxRuns \in Nat

Runs == 1 .. MaxRuns

\* Why a socket has no connection, and whose end that tells.
Failures == [why : {"open", "close", "read", "write"}, of : Runs]

\* What may end an operation: an error frame, or a close by either side.
Ends == {SocketOperationError(kind) : kind \in GoKinds} \cup {Tagged("TlsWebSocketError", "Closed")}

ASSUME NoneAssumption == None \notin Runs \cup Failures \cup Ends \cup {BridgeExited}

VARIABLES run,        \* the number of the latest run, 0 before the first
          reader,     \* "idle", "opening", "cancelling", "open", "pulling",
                      \* "failed" or "closing": where that run is
          connection, failure, latch, counted, \* as in the code; a failure is
                      \* [why, of], `of` the run whose end it tells
          gauge,      \* webSocketConnectionsActive
          op,         \* run -> its operation: "none", "asked", "open", "over"
          error,      \* run -> the error its operation ended with
          opened,     \* the runs Go has answered with ws.open
          closeSent,  \* the runs whose operation has closeSent
          cancelled,  \* the runs whose operation was sent a cancel
          dead,       \* state.dead is set
          writer,     \* [at: "idle", "asleep", "woken", "writing", "closing", on]
          outer       \* the scope of the socket: [at: "open", "closing", "closed", on]

adapter == <<connection, failure, latch>>
count == <<counted, gauge>>
bridge == <<op, error, opened, closeSent, cancelled, dead>>
vars == <<run, reader, adapter, count, bridge, writer, outer>>

Idle == [at |-> "idle", on |-> None]

Init ==
  /\ run = 0 /\ reader = "idle"
  /\ connection = None /\ failure = None /\ latch = FALSE
  /\ counted = {} /\ gauge = 0
  /\ op = [r \in Runs |-> "none"] /\ error = [r \in Runs |-> None]
  /\ opened = {} /\ closeSent = {} /\ cancelled = {} /\ dead = FALSE
  /\ writer = [w \in Writers |-> Idle]
  /\ outer = [at |-> "open", on |-> None]

\* latch.openUnsafe: the writers it lets go look again at what has changed.
Awake(writers) ==
  [w \in Writers |-> IF writers[w].at = "asleep" THEN [writers[w] EXCEPT !.at = "woken"]
                                                ELSE writers[w]]

\* setFailure, with `writers` what its caller makes of the writers.
SetFailure(why, r, writers) ==
  /\ failure' = IF failure = None THEN [why |-> why, of |-> r] ELSE failure
  /\ connection' = None
  /\ latch' = TRUE
  /\ writer' = Awake(writers)

\* Faulty form: whatever fails ends the connection there is.
OperationFailedAlways(why, r, writers) == SetFailure(why, r, writers)

\* The failure of an operation of run r, which concerns the socket only if r
\* is the connection it has now.
OperationFailed(why, r, writers) ==
  IF connection = r THEN SetFailure(why, r, writers)
                    ELSE writer' = writers /\ UNCHANGED adapter

\* closeConnection up to the write of ws.close, which only the first close of
\* an operation that is not over sends.
CloseConnection(r, writers) ==
  /\ SetFailure("close", r, writers)
  /\ closeSent' = IF op[r] = "open" THEN closeSent \cup {r} ELSE closeSent
  /\ UNCHANGED <<op, error, opened, cancelled, dead>>

\* Faulty form: every close counts down.
DecrementAlways(r) == counted' = counted \ {r} /\ gauge' = gauge - 1

\* The rest of closeConnection: the gauge goes down with the first of them.
Decrement(r) ==
  /\ counted' = counted \ {r}
  /\ gauge' = gauge - (IF r \in counted THEN 1 ELSE 0)

-----------------------------------------------------------------------------
(* The reader. *)

\* Faulty form: the latch stays open from the run before.
OpenReaderKeepingLatch ==
  /\ reader = "idle" /\ run < MaxRuns
  /\ failure' = None /\ connection' = None
  /\ run' = run + 1 /\ reader' = "opening"
  /\ op' = [op EXCEPT ![run + 1] = IF dead THEN "over" ELSE "asked"]
  /\ error' = [error EXCEPT ![run + 1] = IF dead THEN BridgeExited ELSE None]
  /\ UNCHANGED <<latch, count, opened, closeSent, cancelled, dead, writer, outer>>

OpenReader ==
  /\ reader = "idle" /\ run < MaxRuns
  /\ failure' = None /\ connection' = None /\ latch' = FALSE
  /\ run' = run + 1 /\ reader' = "opening"
  /\ op' = [op EXCEPT ![run + 1] = IF dead THEN "over" ELSE "asked"]
  /\ error' = [error EXCEPT ![run + 1] = IF dead THEN BridgeExited ELSE None]
  /\ UNCHANGED <<count, opened, closeSent, cancelled, dead, writer, outer>>

Opened ==
  /\ reader = "opening" /\ run \in opened
  /\ reader' = "open"
  /\ connection' = run /\ latch' = TRUE /\ writer' = Awake(writer)
  /\ counted' = counted \cup {run} /\ gauge' = gauge + 1
  /\ UNCHANGED <<run, failure, bridge, outer>>

\* The open fails and the latch stays closed: a writer waits for a next run.
OpenFails ==
  /\ reader = "opening" /\ run \notin opened /\ op[run] = "over"
  /\ reader' = "idle"
  /\ UNCHANGED <<run, adapter, count, bridge, writer, outer>>

\* Faulty form: the cleanup waits without having asked Go to stop.
InterruptOpenSilently ==
  /\ reader = "opening"
  /\ reader' = "cancelling"
  /\ UNCHANGED <<run, adapter, count, bridge, writer, outer>>

\* The cleanup of bridge.webSocket: a cancel, and then the terminal frame.
InterruptOpen ==
  /\ reader = "opening"
  /\ reader' = "cancelling"
  /\ cancelled' = IF op[run] = "over" THEN cancelled ELSE cancelled \cup {run}
  /\ UNCHANGED <<run, adapter, count, op, error, opened, closeSent, dead, writer, outer>>

CancelDone ==
  /\ reader = "cancelling" /\ op[run] = "over"
  /\ reader' = "idle"
  /\ UNCHANGED <<run, adapter, count, bridge, writer, outer>>

Pull ==
  /\ reader = "open"
  /\ reader' = IF connection = run THEN "pulling" ELSE "failed"
  /\ UNCHANGED <<run, adapter, count, bridge, writer, outer>>

TakeFrame ==
  /\ reader = "pulling"
  /\ reader' = "open"
  /\ UNCHANGED <<run, adapter, count, bridge, writer, outer>>

\* The queue has ended, with the operation or by its close.
PullFails ==
  /\ reader = "pulling" /\ (op[run] = "over" \/ run \in closeSent)
  /\ reader' = "failed"
  /\ OperationFailed(IF run \in closeSent THEN "close" ELSE SocketReason("read", error[run]),
                     run, writer)
  /\ UNCHANGED <<run, count, bridge, outer>>

\* Its scope closes, at any time: the finalizer, then the end of the close.
CloseReader ==
  /\ reader \in {"open", "pulling", "failed"}
  /\ reader' = "closing"
  /\ CloseConnection(run, writer)
  /\ UNCHANGED <<run, count, outer>>

ReaderClosed ==
  /\ reader = "closing"
  /\ reader' = "idle"
  /\ Decrement(run)
  /\ UNCHANGED <<run, adapter, bridge, writer, outer>>

-----------------------------------------------------------------------------
(* The writers. *)

\* write with a connection: a CloseEvent, or a frame, which fails at once when
\* the operation is over.
WriteOn(w) ==
  \/ /\ CloseConnection(connection, [writer EXCEPT ![w] = [at |-> "closing", on |-> connection]])
     /\ UNCHANGED <<run, reader, count, outer>>
  \/ /\ op[connection] = "over"
     /\ OperationFailed(SocketReason("write", error[connection]), connection, [writer EXCEPT ![w] = Idle])
     /\ UNCHANGED <<run, reader, count, bridge, outer>>
  \/ /\ op[connection] # "over"
     /\ writer' = [writer EXCEPT ![w] = [at |-> "writing", on |-> connection]]
     /\ UNCHANGED <<run, reader, adapter, count, bridge, outer>>

Write(w) ==
  /\ writer[w].at = "idle"
  /\ \/ connection # None /\ WriteOn(w)
     \/ /\ connection = None /\ failure = None /\ ~latch
        /\ writer' = [writer EXCEPT ![w].at = "asleep"]
        /\ UNCHANGED <<run, reader, adapter, count, bridge, outer>>

\* It looks again; without a connection it fails with the failure, or with a
\* close of its own when a new run has cleared it meanwhile.
LookAgain(w) ==
  /\ writer[w].at = "woken"
  /\ \/ connection # None /\ WriteOn(w)
     \/ /\ connection = None
        /\ writer' = [writer EXCEPT ![w] = Idle]
        /\ UNCHANGED <<run, reader, adapter, count, bridge, outer>>

\* writeFrame of ws.write fails only when the Bridge is dead.
WriteEnds(w) ==
  /\ writer[w].at = "writing"
  /\ \/ writer' = [writer EXCEPT ![w] = Idle] /\ UNCHANGED adapter
     \/ dead /\ OperationFailed("write", writer[w].on, [writer EXCEPT ![w] = Idle])
  /\ UNCHANGED <<run, reader, count, bridge, outer>>

WriterClosed(w) ==
  /\ writer[w].at = "closing"
  /\ writer' = [writer EXCEPT ![w] = Idle]
  /\ Decrement(writer[w].on)
  /\ UNCHANGED <<run, reader, adapter, bridge, outer>>

-----------------------------------------------------------------------------
(* The scope of the socket: managed.close. *)

CloseOuter ==
  /\ outer.at = "open"
  /\ IF connection = None
     THEN outer' = [outer EXCEPT !.at = "closed"] /\ UNCHANGED <<adapter, bridge, writer>>
     ELSE /\ outer' = [at |-> "closing", on |-> connection]
          /\ CloseConnection(connection, writer)
  /\ UNCHANGED <<run, reader, count>>

OuterClosed ==
  /\ outer.at = "closing"
  /\ outer' = [outer EXCEPT !.at = "closed"]
  /\ Decrement(outer.on)
  /\ UNCHANGED <<run, reader, adapter, bridge, writer>>

-----------------------------------------------------------------------------
(* Go, seen through the Bridge. *)

Accept(r) ==
  /\ op[r] = "asked"
  /\ op' = [op EXCEPT ![r] = "open"] /\ opened' = opened \cup {r}
  /\ UNCHANGED <<run, reader, adapter, count, error, closeSent, cancelled, dead, writer, outer>>

EndOperation(r) ==
  /\ op[r] \in {"asked", "open"}
  /\ op' = [op EXCEPT ![r] = "over"]
  /\ \E e \in Ends : error' = [error EXCEPT ![r] = e]
  /\ UNCHANGED <<run, reader, adapter, count, opened, closeSent, cancelled, dead, writer, outer>>

Die ==
  /\ ~dead
  /\ dead' = TRUE
  /\ op' = [r \in Runs |-> IF op[r] = "none" THEN "none" ELSE "over"]
  /\ error' = [r \in Runs |-> IF op[r] \in {"asked", "open"} THEN BridgeExited ELSE error[r]]
  /\ UNCHANGED <<run, reader, adapter, count, opened, closeSent, cancelled, writer, outer>>

-----------------------------------------------------------------------------
ReaderStep == Opened \/ OpenFails \/ CancelDone \/ ReaderClosed
WriterStep(w) == LookAgain(w) \/ WriteEnds(w) \/ WriterClosed(w)
Told(r) == r \in closeSent \cup cancelled

Next ==
  \/ ReaderStep \/ OpenReader \/ InterruptOpen
  \/ Pull \/ TakeFrame \/ PullFails \/ CloseReader
  \/ \E w \in Writers : Write(w) \/ WriterStep(w)
  \/ CloseOuter \/ OuterClosed
  \/ \E r \in Runs : Accept(r) \/ EndOperation(r)
  \/ Die

\* Fibres that are ready run, a reader's scope is closed in the end, and Go
\* ends an operation that was told to end (StoppedEnds of Dispatcher, and
\* the close timeout of websocket.go).  Nobody has to open or to write.
Spec ==
  /\ Init /\ [][Next]_vars
  /\ WF_vars(ReaderStep) /\ WF_vars(CloseReader) /\ WF_vars(OuterClosed)
  /\ \A w \in Writers : WF_vars(WriterStep(w))
  /\ \A r \in Runs : WF_vars(Told(r) /\ EndOperation(r))

-----------------------------------------------------------------------------
TypeOK ==
  /\ run \in 0 .. MaxRuns
  /\ reader \in {"idle", "opening", "cancelling", "open", "pulling", "failed", "closing"}
  /\ connection \in Runs \cup {None}
  /\ failure \in Failures \cup {None}
  /\ latch \in BOOLEAN /\ dead \in BOOLEAN
  /\ counted \subseteq Runs /\ gauge \in Int
  /\ op \in [Runs -> {"none", "asked", "open", "over"}]
  /\ error \in [Runs -> Ends \cup {BridgeExited, None}]
  /\ opened \subseteq Runs /\ closeSent \subseteq opened /\ cancelled \subseteq Runs
  /\ writer \in [Writers -> [at : {"idle", "asleep", "woken", "writing", "closing"},
                              on : Runs \cup {None}]]
  /\ outer \in [at : {"open", "closing", "closed"}, on : Runs \cup {None}]

\* A writer sleeps only while the socket has neither a connection nor a
\* reason: whatever gives it one also wakes every writer, and a latch that is
\* open says that there is one.  An open that fails is neither: the writer sleeps
\* on, for the next run or until it is interrupted.
SleepsOnlyUndecided ==
  /\ TypeOK
  /\ latch <=> (connection # None \/ failure # None)
  /\ \A w \in Writers : writer[w].at = "asleep" => ~latch

\* What an earlier run leaves behind, writes and closes still under way, never
\* touches the run that is open: the connection is that run's until a reason
\* of that run has ended it, the reason told is its own, and an error of
\* reading or writing is told only of an operation that ended with one or of a
\* Bridge that is dead.
OnlyOwnReason ==
  /\ connection # None => connection = run
  /\ failure # None => /\ failure.of = run
                       /\ failure.why # "close" =>
                            dead \/ (error[run] # None /\ error[run].kind # "Closed")
  /\ (reader \in {"open", "pulling", "failed"} /\ connection = None) => failure # None

\* The gauge of open connections is the number of connections that nobody
\* has closed here, whoever closes, in whichever order the closes end: it is
\* back at zero once the reader's scope is closed, and never below.
GaugeTrue ==
  /\ gauge = Cardinality(counted)
  /\ counted \subseteq opened
  /\ \A r \in counted : r = run /\ reader \in {"open", "pulling", "failed", "closing"}

\* No operation outlives the run that opened it: one whose open was
\* interrupted and one whose reader's scope has closed end in Go.
NoConnectionLeft ==
  \A r \in Runs : (run > r \/ reader = "cancelling" \/ reader = "closing")
                    ~> (op[r] \in {"none", "over"} \/ (run = r /\ reader = "opening"))
=============================================================================
