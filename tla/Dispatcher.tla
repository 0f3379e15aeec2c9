----------------------------- MODULE Dispatcher -----------------------------
(***************************************************************************)
(* The life of the Bridge's operations: bridge/main.go (the table of       *)
(* operations, start, cancel, finish, stop, run) with the handlers of      *)
(* bridge/session.go and bridge/websocket.go that create, use and destroy  *)
(* sessions.                                                               *)
(*                                                                         *)
(* One thread reads frames (`main`).  Every accepted frame that starts an  *)
(* operation registers it in the table and gives it a goroutine.  The      *)
(* table and the session store have their own locks, so a step here is one *)
(* locked section, one frame written, or one wait.                         *)
(*                                                                         *)
(* An operation is identified with its number: the client's 32-bit ids do  *)
(* not come round within a run.  A session is identified with its name:    *)
(* the client draws it with crypto.randomUUID and creates it once.  Kinds: *)
(*   create, destroy   session.create, session.destroy                     *)
(*   request           uses a session under its gate, sends data frames    *)
(*   plain             cookies, proxy and bandwidth of a session: uses it, *)
(*                     sends one frame                                     *)
(*   ws                ws.connect: the dispatcher may end it too           *)
(***************************************************************************)
EXTENDS Naturals, FiniteSets

CONSTANTS
  Ops,        \* operation numbers (bounds the model)
  MaxFrames,  \* data frames of one operation (bounds the model)
  Sessions,   \* session names
  Plans,      \* what the client starts: for each operation its kind and session
  Cancellable,\* the operations the client may cancel
  Unwritable  \* the operations whose frames the writer may refuse

Kinds == {"create", "destroy", "request", "plain", "ws"}

ASSUME OpsAssumption == Ops \subseteq Nat \ {0}
ASSUME CancellableAssumption == Cancellable \subseteq Ops
ASSUME UnwritableAssumption == Unwritable \subseteq Ops
ASSUME PlansAssumption ==
  /\ Plans \subseteq [Ops -> [kind : Kinds, sess : Sessions]]
  \* a session name is created at most once
  /\ \A plan \in Plans : \A p, q \in Ops :
       plan[p].kind = "create" /\ plan[q].kind = "create" /\ plan[p].sess = plan[q].sess
         => p = q

VARIABLES
  plan,       \* the plan this client follows
  started,    \* operations started so far
  table,      \* dispatcher.operations
  ctx,        \* each operation's context: live or done
  pc,         \* where each goroutine is
  frames,     \* data frames written (headers, chunk, ws.open, ws.frame)
  terminals,  \* terminal frames written
  unwritten,  \* operations a frame of which the writer has refused
  destroyed,  \* the session.destroy operations that found their session
  waits,      \* operations whose done channel a session.destroy waits for
  store,      \* sessionStore.sessions
  readers,    \* requests that hold their session's gate
  retired,    \* sessions whose totals retireSession has taken
  gone,       \* sessions whose session.destroy has been answered with ok
  main,       \* where the dispatcher's thread is
  mainOp,     \* the WebSocket operation it is ending
  goodbye     \* has the ok of shutdown been written?

opVars   == <<ctx, pc, frames, terminals, unwritten, destroyed, waits>>
atRest   == <<ctx, frames, terminals, unwritten, destroyed, waits>>   \* opVars without pc
sessVars == <<store, readers, retired, gone>>
mainVars == <<main, mainOp, goodbye>>
vars     == <<plan, started, table, opVars, sessVars, mainVars>>

kind(op) == plan[op].kind
sess(op) == plan[op].sess

PCs == {"idle", "run", "using", "gated", "checked", "finish", "write", "defer",
        "done", "removed", "await", "retire", "closeIdle"}

TypeOK ==
  /\ plan \in Plans
  /\ started \subseteq Ops /\ table \subseteq started
  /\ ctx \in [Ops -> {"live", "done"}]
  /\ pc \in [Ops -> PCs]
  /\ frames \in [Ops -> Nat]
  /\ terminals \in [Ops -> 0 .. 1]
  /\ unwritten \subseteq Unwritable
  /\ destroyed \subseteq Ops
  /\ waits \in [Ops -> SUBSET Ops]
  /\ store \subseteq Sessions /\ retired \subseteq Sessions /\ gone \subseteq Sessions
  /\ readers \subseteq Ops
  /\ main \in {"reading", "wsStopFirst", "wsFinish", "wsWrite", "wsStop",
               "waiting", "closing", "replying", "exited"}
  /\ mainOp \in Ops \cup {0}
  /\ goodbye \in {"none", "sent"}

Init ==
  /\ plan \in Plans
  /\ started = {} /\ table = {} /\ destroyed = {} /\ unwritten = {}
  /\ ctx = [op \in Ops |-> "live"] /\ pc = [op \in Ops |-> "idle"]
  /\ frames = [op \in Ops |-> 0] /\ terminals = [op \in Ops |-> 0]
  /\ waits = [op \in Ops |-> {}]
  /\ store = {} /\ readers = {} /\ retired = {} /\ gone = {}
  /\ main = "reading" /\ mainOp = 0 /\ goodbye = "none"

Goto(op, to) == pc' = [pc EXCEPT ![op] = to]

\* operation.stop: the context of each of these operations is cancelled (and
\* with it the connection of a WebSocket is closed).
stop(S) == ctx' = [op \in Ops |-> IF op \in S THEN "done" ELSE ctx[op]]

-----------------------------------------------------------------------------
(* The dispatcher's thread.                                                *)

\* startWithSetup: register, then run in a goroutine.  The plan is followed in
\* order.
Start(op) ==
  /\ main = "reading" /\ op \notin started
  /\ \A p \in Ops : p < op => p \in started
  /\ started' = started \cup {op}
  /\ table' = table \cup {op}
  /\ Goto(op, "run")
  /\ UNCHANGED <<plan, atRest, sessVars, mainVars>>

\* KindCancel: a no-op for an operation that is not in the table.
Cancel(op) ==
  /\ main = "reading" /\ op \in table \cap Cancellable
  /\ stop({op})
  /\ UNCHANGED <<plan, started, table, pc, frames, terminals, unwritten, destroyed, waits,
                 sessVars, mainVars>>

\* KindWSClose, or KindWSWrite to a connection that fails: the dispatcher ends
\* the operation itself.  The client sends them after it has seen ws.open.  When
\* writeClose fails the operation is stopped before it is finished.
EndWebSocket(op) ==
  /\ main = "reading" /\ op \in table /\ kind(op) = "ws" /\ frames[op] > 0
  /\ mainOp' = op
  /\ main' \in {"wsFinish", "wsStopFirst"}
  /\ UNCHANGED <<plan, started, table, opVars, sessVars, goodbye>>

StopWebSocket ==
  /\ main \in {"wsStopFirst", "wsStop"}
  /\ stop({mainOp})
  /\ main' = IF main = "wsStop" THEN "reading" ELSE "wsFinish"
  /\ mainOp' = IF main = "wsStop" THEN 0 ELSE mainOp
  /\ UNCHANGED <<plan, started, table, pc, frames, terminals, unwritten, destroyed, waits,
                 sessVars, goodbye>>

\* dispatcher.finish on the dispatcher's thread: remove, then write.
RemoveWebSocket ==
  /\ main = "wsFinish"
  /\ table' = table \ {mainOp}
  /\ main' = IF mainOp \in table THEN "wsWrite" ELSE "wsStop"
  /\ UNCHANGED <<plan, started, opVars, sessVars, mainOp, goodbye>>

WriteWebSocketTerminal ==
  /\ main = "wsWrite"
  /\ terminals' = [terminals EXCEPT ![mainOp] = @ + 1]
  /\ main' = "wsStop"
  /\ UNCHANGED <<plan, started, table, ctx, pc, frames, unwritten, destroyed,
                 waits, sessVars, mainOp, goodbye>>

\* The error of the write is dropped.
RefuseWebSocketTerminal ==
  /\ main = "wsWrite" /\ mainOp \in Unwritable
  /\ unwritten' = unwritten \cup {mainOp}
  /\ main' = "wsStop"
  /\ UNCHANGED <<plan, started, table, ctx, pc, frames, terminals, destroyed,
                 waits, sessVars, mainOp, goodbye>>

\* shutdown, end of input, or a protocol error: dispatcher.stop cancels every
\* operation in the table and waits for every goroutine.
StopAll ==
  /\ main = "reading"
  /\ stop(table)
  /\ main' = "waiting"
  /\ UNCHANGED <<plan, started, table, pc, frames, terminals, unwritten, destroyed, waits,
                 sessVars, mainOp, goodbye>>

AllEnded == \A op \in started : pc[op] = "done"

\* shutdown goes on to close and retire the sessions and to answer; the other
\* two exit.
Waited ==
  /\ main = "waiting" /\ AllEnded
  /\ main' \in {"closing", "exited"}
  /\ UNCHANGED <<plan, started, table, opVars, sessVars, mainOp, goodbye>>

CloseAll ==
  /\ main = "closing"
  /\ retired' = retired \cup store
  /\ store' = {}
  /\ main' = "replying"
  /\ UNCHANGED <<plan, started, table, opVars, readers, gone, mainOp, goodbye>>

\* The process exits whether or not the ok could be written.
Reply ==
  /\ main = "replying"
  /\ goodbye' \in {"none", "sent"}
  /\ main' = "exited"
  /\ UNCHANGED <<plan, started, table, opVars, sessVars, mainOp>>

-----------------------------------------------------------------------------
(* The goroutines: how an operation ends.                                  *)

\* Faulty form: finish writes without asking whether it removed the operation.
RemoveUnchecked(op) ==
  /\ pc[op] = "finish"
  /\ table' = table \ {op}
  /\ Goto(op, "write")
  /\ UNCHANGED <<plan, started, atRest, sessVars, mainVars>>

\* dispatcher.remove: only one of those who would end the operation succeeds.
Remove(op) ==
  /\ pc[op] = "finish"
  /\ table' = table \ {op}
  /\ Goto(op, IF op \in table THEN "write" ELSE "defer")
  /\ UNCHANGED <<plan, started, atRest, sessVars, mainVars>>

WriteTerminal(op) ==
  /\ pc[op] = "write"
  /\ terminals' = [terminals EXCEPT ![op] = @ + 1]
  /\ gone' = IF op \in destroyed THEN gone \cup {sess(op)} ELSE gone
  /\ Goto(op, "defer")
  /\ UNCHANGED <<plan, started, table, ctx, frames, unwritten, destroyed, waits,
                 store, readers, retired, mainVars>>

\* writer.Write fails: the frame is longer than MaxFrameLen (the cookies of an
\* export may be) or stdout is broken.  The operation has left the table already
\* and nobody looks at the error: it ends without a terminal frame.
RefuseTerminal(op) ==
  /\ pc[op] = "write" /\ op \in Unwritable
  /\ unwritten' = unwritten \cup {op}
  /\ Goto(op, "defer")
  /\ UNCHANGED <<plan, started, table, ctx, frames, terminals, destroyed, waits,
                 sessVars, mainVars>>

\* The deferred calls of the handler (a request gives its gate back), then
\* close(op.done) and waitGroup.Done.
Return(op) ==
  /\ pc[op] = "defer"
  /\ readers' = readers \ {op}
  /\ Goto(op, "done")
  /\ UNCHANGED <<plan, started, table, atRest, store, retired, gone, mainVars>>

-----------------------------------------------------------------------------
(* The goroutines: what an operation does.                                 *)

\* runSessionCreate does not look at its context.
Create(op) ==
  /\ pc[op] = "run" /\ kind(op) = "create"
  /\ Goto(op, "finish")
  /\ store' = store \cup {sess(op)}
  /\ UNCHANGED <<plan, started, table, atRest, readers, retired, gone, mainVars>>

\* Its clients cannot be built, or the store refuses the name: an error.
RefuseCreate(op) ==
  /\ pc[op] = "run" /\ kind(op) = "create"
  /\ Goto(op, "finish")
  /\ UNCHANGED <<plan, started, table, atRest, sessVars, mainVars>>

\* The other handlers look their session up (a cancelled plain operation may
\* give up before).
Lookup(op) ==
  /\ pc[op] = "run" /\ kind(op) \in {"request", "plain", "ws"}
  /\ Goto(op, IF sess(op) \in store THEN "using" ELSE "finish")
  /\ UNCHANGED <<plan, started, table, atRest, sessVars, mainVars>>

\* beginTrackedRequest: the request takes its session's gate.
BeginTracked(op) ==
  /\ pc[op] = "using" /\ kind(op) = "request"
  /\ readers' = readers \cup {op}
  /\ Goto(op, "gated")
  /\ UNCHANGED <<plan, started, table, atRest, store, retired, gone, mainVars>>

Streaming(op) == \/ kind(op) = "request" /\ pc[op] = "gated"
                 \/ kind(op) = "ws" /\ pc[op] = "using"

\* isCurrent before a data frame: a WebSocket's goroutine returns at once when
\* the dispatcher has ended the operation.
CheckCurrent(op) ==
  /\ Streaming(op) /\ frames[op] < MaxFrames
  /\ Goto(op, IF op \in table THEN "checked" ELSE "defer")
  /\ UNCHANGED <<plan, started, table, atRest, sessVars, mainVars>>

WriteData(op) ==
  /\ pc[op] = "checked"
  /\ frames' = [frames EXCEPT ![op] = @ + 1]
  /\ Goto(op, IF kind(op) = "request" THEN "gated" ELSE "using")
  /\ UNCHANGED <<plan, started, table, ctx, terminals, unwritten, destroyed, waits,
                 sessVars, mainVars>>

\* The writer refuses headers, a chunk, ws.open or a ws.frame (a message that fits
\* the window need not fit a frame): the handler removes the operation and returns
\* without a terminal frame; a failed ws.open also closes the connection.
RefuseData(op) ==
  /\ pc[op] = "checked" /\ op \in Unwritable
  /\ table' = table \ {op}
  /\ unwritten' = unwritten \cup {op}
  /\ stop(IF kind(op) = "ws" /\ frames[op] = 0 THEN {op} ELSE {})
  /\ Goto(op, "defer")
  /\ UNCHANGED <<plan, started, frames, terminals, destroyed, waits, sessVars, mainVars>>

\* The handler decides how the operation ends: its work is complete, it failed,
\* or its context is done.
Decide(op) ==
  /\ pc[op] \in {"using", "gated"}
  /\ Goto(op, "finish")
  /\ UNCHANGED <<plan, started, table, atRest, sessVars, mainVars>>

-----------------------------------------------------------------------------
(* The goroutines: runSessionDestroy.                                      *)

DestroyRemove(op) ==
  /\ pc[op] = "run" /\ kind(op) = "destroy"
  /\ Goto(op, IF sess(op) \in store THEN "removed" ELSE "finish")
  /\ destroyed' = IF sess(op) \in store THEN destroyed \cup {op} ELSE destroyed
  /\ store' = store \ {sess(op)}
  /\ UNCHANGED <<plan, started, table, ctx, frames, terminals, unwritten, waits,
                 readers, retired, gone, mainVars>>

\* Faulty form: the destroying operation finds itself in the table too.
SameSessionAndSelf(op) == {p \in table : sess(p) = sess(op)}

SameSession(op) == {p \in table : p # op /\ sess(p) = sess(op)}

\* cancelSession: stop the other operations registered for the session.
CancelSession(op) ==
  /\ pc[op] = "removed"
  /\ waits' = [waits EXCEPT ![op] = SameSession(op)]
  /\ stop(SameSession(op))
  /\ Goto(op, "await")
  /\ UNCHANGED <<plan, started, table, frames, terminals, unwritten, destroyed, sessVars, mainVars>>

\* Faulty form: it does not wait for them.
AwaitNothing(op) ==
  /\ pc[op] = "await"
  /\ Goto(op, "retire")
  /\ UNCHANGED <<plan, started, table, atRest, sessVars, mainVars>>

\* <-operation.done for each of them.
Await(op) ==
  /\ pc[op] = "await" /\ \A p \in waits[op] : pc[p] = "done"
  /\ Goto(op, "retire")
  /\ UNCHANGED <<plan, started, table, atRest, sessVars, mainVars>>

Retire(op) ==
  /\ pc[op] = "retire"
  /\ retired' = retired \cup {sess(op)}
  /\ Goto(op, "closeIdle")
  /\ UNCHANGED <<plan, started, table, atRest, store, readers, gone, mainVars>>

\* Faulty form: it closes the idle connections without taking the gate.
CloseIdleUngated(op) ==
  /\ pc[op] = "closeIdle"
  /\ Goto(op, "finish")
  /\ UNCHANGED <<plan, started, table, atRest, sessVars, mainVars>>

\* closeIdleConnections waits for the session's gate.
CloseIdle(op) ==
  /\ pc[op] = "closeIdle"
  /\ \A p \in readers : sess(p) # sess(op)
  /\ Goto(op, "finish")
  /\ UNCHANGED <<plan, started, table, atRest, sessVars, mainVars>>

-----------------------------------------------------------------------------
Ending(op)  == Remove(op) \/ WriteTerminal(op) \/ RefuseTerminal(op) \/ Return(op)
Working(op) == \/ Create(op) \/ RefuseCreate(op) \/ Lookup(op) \/ BeginTracked(op)
               \/ WriteData(op) \/ RefuseData(op)
Destroy(op) == \/ DestroyRemove(op) \/ CancelSession(op) \/ Await(op)
               \/ Retire(op) \/ CloseIdle(op)
EndingWs    == \/ StopWebSocket \/ RemoveWebSocket
               \/ WriteWebSocketTerminal \/ RefuseWebSocketTerminal
Exiting     == Waited \/ CloseAll \/ Reply

Next ==
  \/ \E op \in Ops : \/ Start(op) \/ Cancel(op) \/ EndWebSocket(op)
                     \/ Ending(op) \/ Working(op) \/ CheckCurrent(op)
                     \/ Decide(op) \/ Destroy(op)
  \/ EndingWs \/ StopAll \/ Exiting

\* Goroutines run; the dispatcher's thread goes on with what it has begun.  An
\* operation need not end by itself: only one whose context is done does.  The
\* client need not send anything.
Fairness ==
  /\ \A op \in Ops : /\ WF_vars(Ending(op) \/ Working(op) \/ Destroy(op))
                     /\ WF_vars(ctx[op] = "done" /\ Decide(op))
  /\ WF_vars(EndingWs) /\ WF_vars(Exiting)

Spec == Init /\ [][Next]_vars /\ Fairness

-----------------------------------------------------------------------------
Live(op) == op \in table
Pending(op) == pc[op] = "write" \/ (main = "wsWrite" /\ mainOp = op)
Concluded(op) == terminals[op] = 1 \/ op \in unwritten

(* A started operation owes the client exactly one terminal frame at every  *)
(* moment: it is in the table, or one thread (its goroutine or the          *)
(* dispatcher, never both) has taken it out and is about to write, or the   *)
(* frame is written, or the writer refused a frame of this operation        *)
(* (dispatcher.finish and dispatcher.remove).                              *)
TerminalOwedOnce ==
  \A op \in started :
    /\ ~(pc[op] = "write" /\ main = "wsWrite" /\ mainOp = op)
    /\ Live(op) => ~Pending(op) /\ terminals[op] = 0
    /\ Pending(op) => terminals[op] = 0
    /\ ~Live(op) /\ ~Pending(op) => Concluded(op)

\* The handler holds a pointer to the session and has not finished with it; the
\* bytes of an open WebSocket count for its session until the operation ends.
Holding(op) ==
  \/ kind(op) = "plain" /\ pc[op] = "using"
  \/ kind(op) = "request" /\ pc[op] \in {"using", "gated", "checked"}
  \/ /\ kind(op) = "ws" /\ pc[op] \in {"using", "checked"}
     /\ frames[op] = 0 \/ op \in table

(* A session is retired (its byte totals are moved to the process total)    *)
(* only when no operation can add to them or use its clients any more, even *)
(* one that looked the session up just before it left the store.  A         *)
(* WebSocket the dispatcher has ended counts as ended, although its         *)
(* goroutine may not have noticed yet.                                      *)
NoUseAfterRetire ==
  \A op \in Ops : Holding(op) => sess(op) \notin retired

\* What may still be written for an operation of a session that is gone.
LateData(op)     == kind(op) = "ws" /\ frames[op] > 0 /\ op \notin table
LateTerminal(op) == op \notin readers /\ (kind(op) = "request" => frames[op] = 0)

(* Once session.destroy has been answered with ok, no headers, chunk or     *)
(* ws.open of that session is written: at most the late ws.frame of a       *)
(* WebSocket which the dispatcher had ended, and which destroy therefore    *)
(* did not find in the table.  Nor does a request that had its gate still   *)
(* owe its terminal frame, although it leaves the table before it writes it *)
(* (the gate makes up for it).  Operations that never had the gate - those  *)
(* refused before it, plain ones, WebSockets - may: they left the table     *)
(* before destroy looked, or came after it.                                 *)
SilentAfterDestroyed ==
  [][\A op \in Ops : sess(op) \in gone =>
       /\ frames'[op] # frames[op] => LateData(op)
       /\ terminals'[op] # terminals[op] => LateTerminal(op)]_vars

(* The ok of shutdown is the last frame of all.                             *)
SilentAfterShutdown ==
  [][goodbye = "sent" => UNCHANGED <<frames, terminals>>]_vars

(* shutdown is answered last: every operation has had its terminal frame    *)
(* (or the writer refused a frame of it) before the ok, and every session   *)
(* has been retired.                                                        *)
GoodbyeLast ==
  main \in {"closing", "replying", "exited"} =>
    /\ \A op \in started : Concluded(op)
    /\ goodbye = "sent" => store = {}

(* One terminal frame each: the state is well typed (in particular nobody   *)
(* writes a second one) and a started operation owes exactly one.          *)
OneTerminalEach == TypeOK /\ TerminalOwedOnce

(* The two farewells: what may still be written after the ok of a destroy,  *)
(* and that nothing is owed before and nothing written after the ok of      *)
(* shutdown.                                                                *)
SilenceAfterGoodbye ==
  SilentAfterDestroyed /\ SilentAfterShutdown /\ []GoodbyeLast

(* An operation that is cancelled, by whoever, comes to its end with its    *)
(* terminal frame, unless the writer refused a frame of it, and so does     *)
(* every session.destroy: it stops what it waits for (cancelSession).       *)
(* Being told to stop and having ended are both for good, so this is each   *)
(* told operation's leads-to, said of all at once.                          *)
StoppedEnds ==
  <>[](\A op \in started : ctx[op] = "done" \/ kind(op) = "destroy" =>
         pc[op] = "done" /\ Concluded(op))
=============================================================================
