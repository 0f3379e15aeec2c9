---------------------------- MODULE BridgeClient ----------------------------
(***************************************************************************)
(* The client's end of the pipe: the Bridge service of                     *)
(* packages/effect-tls-client/src/internal/Bridge.ts, the two pipes, and   *)
(* the Bridge process seen from them.                                      *)
(*                                                                         *)
(* A step of the client is one synchronous stretch of JavaScript, from one *)
(* point where the fibre may be descheduled to the next.  `pending` is the *)
(* map of operations; an operation's deferreds and queue are represented   *)
(* by `answered` (its first answer: headers, ws.open) and `result` (the    *)
(* final one).  A frame is written in one step, under the write permit,    *)
(* and read in order.  Ids are not reused within a run, so an operation is *)
(* its id.  Kinds:                                                         *)
(*   call      one frame out, one frame back                               *)
(*   stream    request and debug.stream: headers, chunks, end; the caller  *)
(*             leaves through `cleanup` whatever it has read               *)
(*   socket    ws.connect: ws.open, frames, and either side may close      *)
(* Credit and upload frames are in Credits and RequestUpload.              *)
(*                                                                         *)
(* The process is honest (one terminal frame per operation, data before    *)
(* it: module Dispatcher) until it is killed or crashes.  With Faults it   *)
(* emits one frame the client must refuse, or crashes amid a frame.        *)
(***************************************************************************)
EXTENDS Naturals, Sequences

CONSTANTS
  Ops,        \* operations of the client
  Kinds,      \* the kinds they may be of
  MaxFrames,  \* data frames of one operation (bounds the model)
  Faults,     \* "none", or "badFrame": stdout may carry a frame to be refused, or cut
  Closes      \* "never", or "may": the scope that owns the Bridge may be closed

ASSUME KindsAssumption == Kinds \subseteq {"call", "stream", "socket"}
ASSUME MaxFramesAssumption == MaxFrames \in Nat
ASSUME FaultsAssumption == Faults \in {"none", "badFrame"} /\ Closes \in {"never", "may"}

VARIABLES
  kind,       \* the kind of each operation
  fiber,      \* where the fibre of each operation is
  pending,    \* the operations in the pending map
  answered,   \* has its first answer (headers, ws.open) come?
  result,     \* what its deferreds and queue were completed with
  closeSent,  \* the WebSocket's closeSent flag: its queue has been failed
  dead,       \* state.dead
  host,       \* the scope: open, then the steps of `release`
  stdin,      \* frames written and not read by the process
  stdout,     \* frames written by the process and not read
  work,       \* the operations of the process
  stopped,    \* operations whose context the process has cancelled
  emitted,    \* data frames the process has written
  proc,       \* the process
  spoilt      \* has stdout been given something malformed?

clientVars  == <<kind, fiber, pending, answered, result, closeSent>>
processVars == <<work, stopped, emitted, proc>>
vars == <<clientVars, dead, host, stdin, stdout, processVars, spoilt>>

Frame == [kind : {"start", "cancel", "close"}, op : Ops] \cup [kind : {"shutdown"}]
Emitted == [kind : {"first", "data", "terminal"}, op : Ops] \cup [kind : {"bad"}]

TypeOK ==
  /\ kind \in [Ops -> Kinds]
  /\ fiber \in [Ops -> {"idle", "checked", "writing", "awaiting", "using",
                        "cancelling", "draining", "over"}]
  /\ pending \subseteq Ops
  /\ answered \in [Ops -> {"no", "yes"}]
  /\ result \in [Ops -> {"none", "refused", "told", "dead", "full"}]
  /\ closeSent \in [Ops -> {"no", "yes"}]
  /\ dead \in {"no", "exited", "protocol"}
  /\ host \in {"open", "releasing", "waiting", "killing", "closed"}
  /\ stdin \in Seq(Frame) /\ stdout \in Seq(Emitted)
  \* an operation is started once and cancelled or closed once
  /\ \A i, j \in 1 .. Len(stdin) : stdin[i] = stdin[j] => i = j
  /\ work \in [Ops -> {"none", "running", "over"}]
  /\ stopped \subseteq Ops
  /\ emitted \in [Ops -> 0 .. MaxFrames]
  /\ proc \in {"alive", "leaving", "gone"}
  /\ spoilt \in {"no", "yes"}

Init ==
  /\ kind \in [Ops -> Kinds]
  /\ fiber = [o \in Ops |-> "idle"] /\ pending = {}
  /\ answered = [o \in Ops |-> "no"] /\ result = [o \in Ops |-> "none"]
  /\ closeSent = [o \in Ops |-> "no"]
  /\ dead = "no" /\ host = "open" /\ stdin = <<>> /\ stdout = <<>>
  /\ work = [o \in Ops |-> "none"] /\ stopped = {} /\ emitted = [o \in Ops |-> 0]
  /\ proc = "alive" /\ spoilt = "no"

LoopsRun == host = "open"                 \* stdoutLoop and observeExit run
Closing  == host \in {"waiting", "killing", "closed"}   \* state.closing
Dead     == dead # "no" \/ Closing        \* getDead() is defined
Waiting  == {"awaiting", "draining"}      \* fibres parked on a deferred

Goto(o, to) == fiber' = [fiber EXCEPT ![o] = to]

-----------------------------------------------------------------------------
(* The whole client, told of its death or handed an answer.                *)

\* (Faulty form: WebSocket operations are cleared from the map and not failed.)
MarkDeadForgetting(cause) ==
  IF dead # "no"
  THEN UNCHANGED <<dead, pending, result>>
  ELSE /\ dead' = cause
       /\ pending' = {}
       /\ result' = [o \in Ops |-> IF o \in pending /\ kind[o] # "socket"
                                   THEN "dead" ELSE result[o]]

\* markDead: only the first cause counts; every pending operation is failed.
\* A malformed frame and a write that fails come here, and the exit.
MarkDead(cause) ==
  IF dead # "no"
  THEN UNCHANGED <<dead, pending, result>>
  ELSE /\ dead' = cause
       /\ pending' = {}
       /\ result' = [o \in Ops |-> IF o \in pending THEN "dead" ELSE result[o]]

\* completePending, completeStream, completeWebSocket.
Complete(o, with) ==
  /\ pending' = pending \ {o}
  /\ result' = [result EXCEPT ![o] = with]

\* writeFrame: the pipe takes the frame.  That of a process that has gone may take
\* it too, until the exit is known, and nobody reads it.
Accept(frame) ==
  /\ \/ proc # "gone" /\ stdin' = Append(stdin, frame)
     \/ proc = "gone" /\ dead # "exited" /\ UNCHANGED stdin
  /\ UNCHANGED <<dead, pending, result>>

\* Or the write fails, and so finds out that the process has gone.
Write(frame) ==
  \/ Accept(frame)
  \/ proc = "gone" /\ MarkDead("exited") /\ UNCHANGED stdin

-----------------------------------------------------------------------------
(* The fibre of an operation.                                              *)

\* The first look at getDead(), and the encoding of the metadata after it.
\* Nothing awaits in between, but Effect's scheduler deschedules a fibre that
\* has used up its budget of operations at any `yield*`.
Begin(o) ==
  /\ fiber[o] = "idle"
  /\ IF Dead
     THEN Goto(o, "over") /\ result' = [result EXCEPT ![o] = "refused"]
     ELSE Goto(o, "checked") /\ UNCHANGED result
  /\ UNCHANGED <<kind, pending, answered, closeSent, dead, host, stdin, stdout, processVars, spoilt>>

\* (Faulty form: nobody looks again.)
NeverLooksAgain(o) == FALSE

\* `call` looks at getDead() again in the stretch that registers it.
LooksAgain(o) == kind[o] = "call"

Register(o) ==
  /\ fiber[o] = "checked"
  /\ IF LooksAgain(o) /\ Dead
     THEN /\ Goto(o, "over") /\ result' = [result EXCEPT ![o] = "refused"]
          /\ UNCHANGED pending
     ELSE /\ Goto(o, "writing") /\ pending' = pending \cup {o}
          /\ UNCHANGED result
  /\ UNCHANGED <<kind, answered, closeSent, dead, host, stdin, stdout, processVars, spoilt>>

\* The start frame; if it cannot be written the operation is forgotten again
\* and the caller told.
WriteStart(o) ==
  /\ fiber[o] = "writing"
  /\ \/ Accept([kind |-> "start", op |-> o]) /\ Goto(o, "awaiting")
     \/ /\ proc = "gone"
        /\ dead' = IF dead = "no" THEN "exited" ELSE dead
        /\ pending' = (IF dead = "no" THEN {} ELSE pending) \ {o}
        /\ result' = [p \in Ops |-> IF p = o \/ (dead = "no" /\ p \in pending)
                                    THEN "dead" ELSE result[p]]
        /\ Goto(o, "over")
        /\ UNCHANGED stdin
  /\ UNCHANGED <<kind, answered, closeSent, host, stdout, processVars, spoilt>>

\* Deferred.await returns: the answer to a call, or the first one of a
\* stream or socket.
Answer(o) ==
  /\ fiber[o] = "awaiting"
  /\ \/ answered[o] = "yes" /\ Goto(o, "using")
     \/ answered[o] = "no" /\ result[o] # "none" /\ Goto(o, "over")
  /\ UNCHANGED <<kind, pending, answered, result, closeSent, dead, host, stdin, stdout, processVars, spoilt>>

\* The caller is interrupted while it waits, or leaves the response stream
\* (Stream.ensuring): `cleanup` runs, and nothing interrupts it.
Leave(o) ==
  /\ \/ fiber[o] = "awaiting"
     \/ fiber[o] = "using" /\ kind[o] = "stream"
  /\ Goto(o, "cancelling")
  /\ UNCHANGED <<kind, pending, answered, result, closeSent, dead, host, stdin, stdout, processVars, spoilt>>

\* (Faulty form: the operation is dropped from the map and not waited for.)
SendCancelForgetting(o) ==
  /\ fiber[o] = "cancelling"
  /\ IF dead = "no" /\ o \in pending /\ proc # "gone"
     THEN /\ stdin' = Append(stdin, [kind |-> "cancel", op |-> o])
          /\ Complete(o, "told")
     ELSE UNCHANGED <<stdin, pending, result>>
  /\ Goto(o, "draining")
  /\ UNCHANGED <<kind, dead, answered, closeSent, host, stdout, processVars, spoilt>>

\* (Faulty form: an operation that has had its first answer is not cancelled.)
SendCancelEarlyOnly(o) ==
  /\ fiber[o] = "cancelling"
  /\ IF dead = "no" /\ o \in pending /\ answered[o] = "no"
     THEN Write([kind |-> "cancel", op |-> o])
     ELSE UNCHANGED <<stdin, dead, pending, result>>
  /\ Goto(o, "draining")
  /\ UNCHANGED <<kind, answered, closeSent, host, stdout, processVars, spoilt>>

\* sendCancel, then wait for the terminal frame of an operation still there.
SendCancel(o) ==
  /\ fiber[o] = "cancelling"
  /\ IF dead = "no" /\ o \in pending
     THEN Write([kind |-> "cancel", op |-> o])
     ELSE UNCHANGED <<stdin, dead, pending, result>>
  /\ Goto(o, "draining")
  /\ UNCHANGED <<kind, answered, closeSent, host, stdout, processVars, spoilt>>

Drained(o) ==
  /\ fiber[o] = "draining" /\ o \notin pending
  /\ Goto(o, "over")
  /\ UNCHANGED <<kind, pending, answered, result, closeSent, dead, host, stdin, stdout, processVars, spoilt>>

\* A socket's `close`: its own queue is failed at once, ws.close is written,
\* and nothing is waited for.
CloseSocket(o) ==
  /\ fiber[o] = "using" /\ kind[o] = "socket"
  /\ IF Dead \/ o \notin pending
     THEN UNCHANGED <<closeSent, stdin, dead, pending, result>>
     ELSE /\ closeSent[o] = "no"
          /\ closeSent' = [closeSent EXCEPT ![o] = "yes"]
          /\ Write([kind |-> "close", op |-> o])
  /\ Goto(o, "over")
  /\ UNCHANGED <<kind, answered, host, stdout, processVars, spoilt>>

\* An acknowledgement or a ws.write meets a process that has gone.
WriteFails(o) ==
  /\ fiber[o] = "using" /\ proc = "gone"
  /\ o \in pending /\ dead = "no"
  /\ MarkDead("exited")
  /\ UNCHANGED <<kind, fiber, answered, closeSent, host, stdin, stdout, processVars, spoilt>>

-----------------------------------------------------------------------------
(* stdoutLoop and observeExit.                                             *)

\* The kind of a data frame is enough: the first one is the headers or
\* ws.open, the others are chunks or ws.frame.
StreamFrame(o, what) ==
  IF what = "first"
  THEN answered' = [answered EXCEPT ![o] = "yes"] /\ UNCHANGED <<dead, pending, result>>
  ELSE IF answered[o] = "no"
  THEN MarkDead("protocol") /\ UNCHANGED answered
  ELSE UNCHANGED <<dead, pending, result, answered>>

\* (Faulty form: a closed queue is a protocol error, as it is for a stream.)
SocketFrameStrict(o, what) ==
  IF what = "first"
  THEN answered' = [answered EXCEPT ![o] = "yes"] /\ UNCHANGED <<dead, pending, result>>
  ELSE IF answered[o] = "no" \/ closeSent[o] = "yes"
  THEN MarkDead("protocol") /\ UNCHANGED answered
  ELSE UNCHANGED <<dead, pending, result, answered>>

\* A ws.frame for a queue that takes no more ends the operation on this side
\* alone.  Here that is a queue closed by `close`: an honest Bridge does not fill
\* the 16384 places, since a message takes at least that fraction of the window
\* (websocketCredit; module Credits).
SocketFrame(o, what) ==
  IF what = "first"
  THEN IF answered[o] = "yes"
       THEN MarkDead("protocol") /\ UNCHANGED answered
       ELSE answered' = [answered EXCEPT ![o] = "yes"] /\ UNCHANGED <<dead, pending, result>>
  ELSE IF answered[o] = "no"
  THEN MarkDead("protocol") /\ UNCHANGED answered
  ELSE IF closeSent[o] = "yes"
  THEN Complete(o, "full") /\ UNCHANGED <<dead, answered>>
  ELSE UNCHANGED <<dead, pending, result, answered>>

\* handleFrame: frames of an operation that is not pending are dropped.
ReadFrame ==
  /\ LoopsRun /\ stdout # <<>> /\ Head(stdout).kind # "bad"
  /\ stdout' = Tail(stdout)
  /\ LET f == Head(stdout)
     IN IF f.op \notin pending
        THEN UNCHANGED <<dead, pending, result, answered>>
        ELSE IF f.kind = "terminal"
        THEN Complete(f.op, "told") /\ UNCHANGED <<dead, answered>>
        ELSE IF kind[f.op] = "socket"
        THEN SocketFrame(f.op, f.kind)
        ELSE StreamFrame(f.op, f.kind)
  /\ UNCHANGED <<kind, fiber, closeSent, host, stdin, processVars, spoilt>>

\* A frame that cannot be decoded or does not fit: the client is marked dead
\* and the process will be killed; the rest of the chunk is dropped.
RefuseFrame ==
  /\ LoopsRun /\ stdout # <<>> /\ Head(stdout).kind = "bad"
  /\ MarkDead("protocol")
  /\ \E n \in 1 .. Len(stdout) : stdout' = SubSeq(stdout, n + 1, Len(stdout))
  /\ UNCHANGED <<kind, fiber, answered, closeSent, host, stdin, processVars, spoilt>>

\* The SIGKILL that follows a refused frame takes effect.
Kill ==
  /\ dead = "protocol" /\ proc # "gone"
  /\ proc' = "gone" /\ stdin' = <<>>
  /\ UNCHANGED <<clientVars, dead, host, stdout, work, stopped, emitted, spoilt>>

\* The exit may be observed before stdout has been read to its end.
ObserveExit ==
  /\ LoopsRun /\ proc = "gone" /\ dead = "no"
  /\ MarkDead("exited")
  /\ UNCHANGED <<kind, fiber, answered, closeSent, host, stdin, stdout, processVars, spoilt>>

-----------------------------------------------------------------------------
(* The scope is closed: its finalizers run in reverse order, so the loops  *)
(* are interrupted before `release` runs.                                  *)

InterruptLoops ==
  /\ Closes = "may" /\ host = "open"
  /\ host' = "releasing" /\ stdout' = <<>>
  /\ UNCHANGED <<clientVars, dead, stdin, processVars, spoilt>>

Release ==
  /\ host = "releasing"
  /\ IF dead # "no"
     THEN host' = "killing" /\ UNCHANGED <<stdin, dead, pending, result>>
     ELSE host' = "waiting" /\ Write([kind |-> "shutdown"])
  /\ UNCHANGED <<kind, fiber, answered, closeSent, stdout, processVars, spoilt>>

\* The ok of shutdown is not read by anybody: the wait ends with the exit or
\* the timeout of two seconds, and the process is killed.
StopWaiting ==
  /\ host \in {"waiting", "killing"}
  /\ host' = "closed" /\ proc' = "gone" /\ stdin' = <<>>
  /\ UNCHANGED <<clientVars, dead, stdout, work, stopped, emitted, spoilt>>

-----------------------------------------------------------------------------
(* The process.                                                            *)

\* What is written once stdoutLoop is gone is read by nobody.
Emit(o, what) ==
  IF LoopsRun THEN stdout' = Append(stdout, [kind |-> what, op |-> o])
              ELSE UNCHANGED stdout

Receive ==
  /\ proc = "alive" /\ stdin # <<>>
  /\ stdin' = Tail(stdin)
  /\ LET f == Head(stdin)
     IN CASE f.kind = "start" ->
               /\ work' = [work EXCEPT ![f.op] = "running"]
               /\ UNCHANGED <<stopped, proc>>
          [] f.kind \in {"cancel", "close"} ->
               /\ stopped' = IF work[f.op] = "running" THEN stopped \cup {f.op} ELSE stopped
               /\ UNCHANGED <<work, proc>>
          [] f.kind = "shutdown" ->
               /\ stopped' = {o \in Ops : work[o] = "running"}
               /\ proc' = "leaving"
               /\ UNCHANGED work
  /\ UNCHANGED <<clientVars, dead, host, stdout, emitted, spoilt>>

\* Headers or ws.open, then the chunks or frames.  A WebSocket's goroutine
\* may write one more after the dispatcher has ended the operation.
EmitData(o) ==
  /\ proc # "gone" /\ kind[o] # "call"
  /\ emitted[o] < MaxFrames
  /\ \/ work[o] = "running"
     \/ work[o] = "over" /\ kind[o] = "socket" /\ o \in stopped
  /\ emitted' = [emitted EXCEPT ![o] = @ + 1]
  /\ Emit(o, IF emitted[o] = 0 THEN "first" ELSE "data")
  /\ UNCHANGED <<clientVars, dead, host, stdin, work, stopped, proc, spoilt>>

\* The terminal frame: ok, end, ws.closed or error.
EmitTerminal(o) ==
  /\ proc # "gone" /\ work[o] = "running"
  /\ work' = [work EXCEPT ![o] = "over"]
  /\ Emit(o, "terminal")
  /\ UNCHANGED <<clientVars, dead, host, stdin, stopped, emitted, proc, spoilt>>

Exit ==
  /\ proc = "leaving" /\ \A o \in Ops : work[o] # "running"
  /\ proc' = "gone" /\ stdin' = <<>>
  /\ UNCHANGED <<clientVars, dead, host, stdout, work, stopped, emitted, spoilt>>

\* The process dies; what it has written can still be read, with Faults the last
\* frame perhaps cut short.
Crash ==
  /\ proc # "gone"
  /\ proc' = "gone" /\ stdin' = <<>>
  /\ \/ UNCHANGED <<stdout, spoilt>>
     \/ /\ Faults = "badFrame" /\ LoopsRun
        /\ stdout' = Append(stdout, [kind |-> "bad"]) /\ spoilt' = "yes"
  /\ UNCHANGED <<clientVars, dead, host, work, stopped, emitted>>

Spoil ==
  /\ Faults = "badFrame" /\ spoilt = "no" /\ proc # "gone" /\ LoopsRun
  /\ spoilt' = "yes"
  /\ stdout' = Append(stdout, [kind |-> "bad"])
  /\ UNCHANGED <<clientVars, dead, host, stdin, processVars>>

-----------------------------------------------------------------------------
Fiber(o) ==
  \/ Begin(o) \/ Register(o) \/ WriteStart(o) \/ Answer(o) \/ Leave(o)
  \/ SendCancel(o) \/ Drained(o) \/ CloseSocket(o) \/ WriteFails(o)

Loops == ReadFrame \/ RefuseFrame \/ Kill \/ ObserveExit

Scope == InterruptLoops \/ Release \/ StopWaiting

Process ==
  \/ Receive \/ Exit \/ Crash \/ Spoil
  \/ \E o \in Ops : EmitData(o) \/ EmitTerminal(o)

Next == Loops \/ Scope \/ Process \/ \E o \in Ops : Fiber(o)

\* JavaScript's event loop and Go's scheduler run what can run.  Nobody has
\* to begin, leave, close or crash, and an operation that was not stopped
\* may last for ever.
Fairness ==
  /\ WF_vars(ReadFrame) /\ WF_vars(RefuseFrame) /\ WF_vars(Kill) /\ WF_vars(ObserveExit)
  /\ WF_vars(Release) /\ WF_vars(StopWaiting)
  /\ WF_vars(Receive) /\ WF_vars(Exit)
  /\ \A o \in Ops :
       /\ WF_vars(Register(o)) /\ WF_vars(WriteStart(o)) /\ WF_vars(Answer(o))
       /\ WF_vars(SendCancel(o)) /\ WF_vars(Drained(o))
       /\ WF_vars(o \in stopped /\ EmitTerminal(o))

Spec == Init /\ [][Next]_vars /\ Fairness

-----------------------------------------------------------------------------
(* Properties.                                                             *)

\* A fibre parked on an operation's deferred has it in the pending map, where
\* a frame or the end of the process will find it, or has been answered:
\* every path that takes an operation out of the map completes it first
\* (completePending, completeStream, completeWebSocket, markDead, and the
\* removal after a failed write).
WaitersAreKnown ==
  \A o \in Ops : fiber[o] \in Waiting => o \in pending \/ result[o] # "none"

\* A call that waits while the service is dead, for its answer or for that of its
\* cancel, has been answered: none gets into the map between markDead's sweep and
\* its own wait (the second look at getDead() in `call`).
CallsDieWithTheBridge ==
  dead # "no" =>
    \A o \in Ops : kind[o] = "call" /\ fiber[o] \in Waiting => result[o] # "none"

\* Whoever waits is accounted for: every parked fibre has its operation in the
\* map or has been told, and a call of a service that is dead has been told.  That
\* something will still come for those in the map is another matter: it does while
\* the loops run and the service was alive when the operation was registered
\* (ExitFailsEveryone), not for what is in flight when the scope is closed, nor for
\* a stream or socket registered after markDead.
WaitersAccounted == TypeOK /\ WaitersAreKnown /\ CallsDieWithTheBridge

\* The client declares the protocol broken only over something malformed:
\* no order in which cancels, closes and late frames cross on the wire makes
\* it condemn an honest Bridge.
HonestBridgeTrusted == dead = "protocol" => spoilt = "yes"

InProcess(o) ==
  \/ work[o] = "running"
  \/ \E i \in 1 .. Len(stdin) : stdin[i] = [kind |-> "start", op |-> o]

\* While the Bridge lives, an operation it has or will have is in the pending
\* map: an interrupted caller waits for the terminal frame and does not
\* abandon what it started.  WebSockets are left out: a frame that
\* is on its way when the socket is closed finds the local queue closed and ends
\* the operation on the client (handleWebSocketFrame).
NothingAbandoned ==
  dead = "no" /\ proc = "alive" =>
    \A o \in Ops : kind[o] # "socket" /\ InProcess(o) => o \in pending

\* The exit of the process fails every operation that waits for it, however
\* it came about: no fibre stays parked on the deferred of an operation whose
\* process is gone (observeExit, markExited; docs/design/03-protocol.md,
\* section 9).
ExitFailsEveryone ==
  \A o \in Ops : (proc = "gone" /\ fiber[o] \in Waiting) ~> (fiber[o] \notin Waiting)

\* An interrupted caller gets away: its cancel is answered by a terminal
\* frame, or the write of the cancel or the exit finds the process dead.
InterruptEnds ==
  \A o \in Ops : (fiber[o] = "cancelling") ~> (fiber[o] = "over")
=============================================================================
