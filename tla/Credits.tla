------------------------------- MODULE Credits -------------------------------
(***************************************************************************)
(* The credit window of one operation, end to end: the `credits` struct of *)
(* bridge/main.go, the goroutine that produces the credited frames         *)
(* (runStream, the response loop of runRequest, the message loop of        *)
(* runWebSocket), the two pipes, and the queue of the TypeScript client    *)
(* whose consumer acknowledges what it pulls.                              *)
(*                                                                         *)
(* Frame boundaries are abstracted: a pipe holds a number of credit units  *)
(* and its reader takes any part of them.  A unit is a byte for `chunk`    *)
(* frames and a unit of websocketCredit for `ws.frame` frames.             *)
(***************************************************************************)
EXTENDS Integers

CONSTANTS
  Window,     \* negotiated window, newCredits(d.settings.window)
  ChunkSize,  \* negotiated chunk size
  Body,       \* units the source has to send (bounds the model)
  Kinds       \* which producers to consider

ASSUME WindowAssumption    == Window \in Nat \ {0}
ASSUME ChunkSizeAssumption == ChunkSize \in Nat \ {0}
ASSUME BodyAssumption      == Body \in Nat
ASSUME KindsAssumption     == Kinds \subseteq {"stream", "request", "ws"}

VARIABLES
  kind,       \* which of the three producers runs
  pc,         \* where the producer goroutine is
  left,       \* units the source still holds
  need,       \* the `requested` argument of reserve or reserveWhole
  grant,      \* units reserved and not yet written
  sent,       \* credits.sent
  acked,      \* credits.acked
  wake,      \* the wake channel a parked producer captured: open or closed
  ctx,        \* the operation's context: live or done
  wire,       \* units written by Go and not yet read by the client
  queue,      \* units in the client's queue
  acks        \* units of ack frames on their way to Go

goVars == <<pc, left, need, grant, sent, acked, wake>>
jsVars == <<wire, queue, acks>>
vars   == <<kind, pc, left, need, grant, sent, acked, wake, ctx,
            wire, queue, acks>>

Least(a, b) == IF a <= b THEN a ELSE b

Outstanding == sent - acked
Room        == Window - Outstanding

TypeOK ==
  /\ kind \in {"stream", "request", "ws"}
  /\ pc \in {"next", "reserve", "parked", "granted", "write", "finished", "failed"}
  /\ left \in 0 .. Body
  /\ need \in Nat /\ grant \in Nat
  /\ sent \in Nat /\ acked \in Nat
  /\ wake \in {"open", "closed"} /\ ctx \in {"live", "done"}
  /\ wire \in Nat /\ queue \in Nat /\ acks \in Nat

Init ==
  /\ kind \in Kinds
  /\ pc = "next" /\ left = Body
  /\ need = 0 /\ grant = 0
  /\ sent = 0 /\ acked = 0
  /\ wake = "open" /\ ctx = "live"
  /\ wire = 0 /\ queue = 0 /\ acks = 0

-----------------------------------------------------------------------------
(* The struct.                                                             *)

\* Faulty forms the runs must tell apart from the code below.
ackWithoutWake(n) == acked' = acked + Least(n, Outstanding) /\ UNCHANGED wake

reserveUnclamped ==
  /\ pc = "reserve" /\ kind # "ws" /\ Outstanding < Window
  /\ grant' = need /\ sent' = sent + need /\ pc' = "granted"
  /\ UNCHANGED <<kind, left, need, acked, wake, ctx, jsVars>>

\* credits.ack: clamped to what is outstanding; closing the wake channel
\* releases a producer that captured it.
ack(n) ==
  LET bytes == Least(n, Outstanding) IN
  /\ acked' = acked + bytes
  /\ wake' = IF bytes # 0 THEN "closed" ELSE wake

\* The locked section of credits.reserve: take what fits, or capture the wake
\* channel and park.
reserve ==
  /\ pc = "reserve" /\ kind # "ws"
  /\ IF Outstanding < Window
       THEN /\ grant' = Least(need, Room)
            /\ sent' = sent + grant'
            /\ pc' = "granted"
            /\ UNCHANGED wake
       ELSE /\ pc' = "parked" /\ wake' = "open"
            /\ UNCHANGED <<grant, sent>>
  /\ UNCHANGED <<kind, left, need, acked, ctx, jsVars>>

\* credits.reserveWhole: all of the message or nothing.
reserveWhole ==
  /\ pc = "reserve" /\ kind = "ws"
  /\ IF Outstanding <= Window /\ need <= Room
       THEN /\ grant' = need
            /\ sent' = sent + need
            /\ pc' = "write"
            /\ UNCHANGED wake
       ELSE /\ pc' = "parked" /\ wake' = "open"
            /\ UNCHANGED <<grant, sent>>
  /\ UNCHANGED <<kind, left, need, acked, ctx, jsVars>>

\* The select of both: the captured channel was closed, or the context is
\* done.  When both are ready Go picks either.
Wake ==
  /\ pc = "parked" /\ wake = "closed"
  /\ pc' = "reserve"
  /\ UNCHANGED <<kind, left, need, grant, sent, acked, wake, ctx, jsVars>>

ParkedCancel ==
  /\ pc = "parked" /\ ctx = "done"
  /\ pc' = "finished"
  /\ UNCHANGED <<kind, left, need, grant, sent, acked, wake, ctx, jsVars>>

-----------------------------------------------------------------------------
(* The producers.                                                          *)

\* The top of the producer's loop: how much it asks for.  runRequest always
\* asks for a whole chunk, even when the body holds less, and looks at its
\* context first; runWebSocket has a message in hand whose cost fits the
\* window (a larger one is a WsRead error).
NextChunk ==
  /\ pc = "next"
  /\ \/ kind = "stream"  /\ left > 0 /\ need' = Least(ChunkSize, left)
     \/ kind = "request" /\ ctx = "live" /\ need' = ChunkSize
     \/ kind = "ws" /\ need' \in 1 .. Least(Window, left)
  /\ pc' = "reserve"
  /\ UNCHANGED <<kind, left, grant, sent, acked, wake, ctx, jsVars>>

\* The producer stops: the body is exhausted, the connection is closed under
\* ReadMessage, the context is done, or (for a WebSocket, whose terminal frame
\* the dispatcher may have written) the operation is no longer current.
Finish ==
  /\ \/ pc = "next" /\ left = 0 /\ kind # "request"
     \/ pc = "next" /\ ctx = "done" /\ kind # "stream"
     \/ pc = "granted" /\ ctx = "done" /\ kind = "stream"
     \/ pc = "write" /\ ctx = "done" /\ kind = "ws"
  /\ pc' = "finished"
  /\ UNCHANGED <<kind, left, need, grant, sent, acked, wake, ctx, jsVars>>

\* runStream goes on to write its grant if its context is still alive.
UseGrant ==
  /\ pc = "granted" /\ kind = "stream" /\ ctx = "live"
  /\ pc' = "write"
  /\ UNCHANGED <<kind, left, need, grant, sent, acked, wake, ctx, jsVars>>

\* Faulty form: the unfilled part of a grant is not given back.
ReadBodyKeepingRest ==
  /\ pc = "granted" /\ kind = "request"
  /\ \E n \in 1 .. Least(grant, left) : grant' = n
  /\ pc' = "write"
  /\ UNCHANGED <<kind, left, need, sent, acked, wake, ctx, jsVars>>

\* runRequest reads from the response body, gives back what the read did not
\* fill, and stops without a chunk when the read returned nothing: end of the
\* body, or a read error.
ReadBody ==
  /\ pc = "granted" /\ kind = "request"
  /\ \E n \in 0 .. Least(grant, left) :
       /\ grant' = n
       /\ IF n < grant THEN ack(grant - n) ELSE UNCHANGED <<acked, wake>>
       /\ pc' = IF n > 0 THEN "write" ELSE IF left = 0 THEN "finished" ELSE "failed"
  /\ UNCHANGED <<kind, left, need, sent, ctx, jsVars>>

\* writer.Write of the chunk or ws.frame.  A read may have returned its last
\* bytes together with end of body or an error.
WriteChunk ==
  /\ pc = "write"
  /\ wire' = wire + grant
  /\ left' = left - grant
  /\ grant' = 0
  /\ pc' \in {"next"} \cup (IF kind # "request" THEN {}
                          ELSE IF left' = 0 THEN {"finished"} ELSE {"failed"})
  /\ UNCHANGED <<kind, need, sent, acked, wake, ctx, queue, acks>>

-----------------------------------------------------------------------------
(* The client and the dispatcher.                                          *)

\* handleStreamFrame and handleWebSocketFrame put the frame into the queue.
Deliver ==
  /\ \E n \in 1 .. wire : wire' = wire - n /\ queue' = queue + n
  /\ UNCHANGED <<kind, goVars, ctx, acks>>

\* The consumer pulls, and the ack of what it pulled is written before it is
\* handed over.
Pull ==
  /\ \E n \in 1 .. queue : queue' = queue - n /\ acks' = acks + n
  /\ UNCHANGED <<kind, goVars, ctx, wire>>

\* dispatch of KindAck.
ReceiveAck ==
  /\ \E n \in 1 .. acks : acks' = acks - n /\ ack(n)
  /\ UNCHANGED <<kind, pc, left, need, grant, sent, ctx, wire, queue>>

\* dispatch of KindCancel, session.destroy, shutdown or a timeout.
Cancel ==
  /\ ctx = "live" /\ ctx' = "done"
  /\ UNCHANGED <<kind, goVars, jsVars>>

Producer == \/ NextChunk \/ reserve \/ reserveWhole \/ Wake \/ ParkedCancel
            \/ Finish \/ UseGrant \/ ReadBody \/ WriteChunk

Next == Producer \/ Deliver \/ Pull \/ ReceiveAck \/ Cancel

\* The goroutine runs, the client's stdout loop reads, the dispatcher reads.
\* That the consumer keeps pulling is its own affair: PullFairness is a
\* hypothesis of the property that needs it, not part of the specification.
Fairness == WF_vars(Producer) /\ WF_vars(Deliver) /\ WF_vars(ReceiveAck)

PullFairness == WF_vars(Pull)

Spec == Init /\ [][Next]_vars /\ Fairness

-----------------------------------------------------------------------------
(* Every unit of credit in use is somewhere: reserved by the producer, on  *)
(* the wire, in the client's queue, or in an ack on its way back.  So the  *)
(* clamp in credits.ack never bites an honest client, and the return of an *)
(* unfilled reservation never collides with an acknowledgement.            *)
Conservation == Outstanding = grant + wire + queue + acks

(* sent - acked stays within the window whatever the order of reservations,*)
(* returns and acknowledgements (main.go, reserve and reserveWhole).       *)
WindowRespected == 0 <= Outstanding /\ Outstanding <= Window

(* No lost wake-up: a producer is parked on an open channel only while the *)
(* window really has no room for what it asked for.                        *)
NoLostWakeup ==
  pc = "parked" /\ wake = "open" =>
    IF kind = "ws" THEN need > Room ELSE Room <= 0

\* The bytes the client has to hold are those of a bounded channel.
unread == wire + queue

Channel == INSTANCE BoundedChannel WITH Capacity <- Window, buffered <- unread

(* Flow control implements the bounded channel: the client never has to    *)
(* hold more than a window of unread data per operation.                   *)
ImplementsChannel == Channel!Spec

(* A consumer that keeps pulling gets the whole body, unless the operation *)
(* is cancelled or the source fails: neither a parked producer nor a        *)
(* withheld ack stops it.                                                  *)
BodyArrives ==
  PullFairness =>
    <>(ctx = "done" \/ pc = "failed" \/ (left = 0 /\ wire = 0 /\ queue = 0))

(* A cancelled operation ends even if nobody pulls or acknowledges any     *)
(* more: a producer parked without credit is released by its context.      *)
CancelReleases == ctx = "done" ~> pc \in {"finished", "failed"}

(* No credit is lost or made, and the window bounds what is out: the state  *)
(* is well typed, every unit is accounted for and sent - acked stays between *)
(* 0 and the window.                                                       *)
CreditAccounted == TypeOK /\ Conservation /\ WindowRespected

(* The flow of a body comes to its end: delivered to a consumer that pulls, *)
(* or let go of when the operation is cancelled.                           *)
FlowEnds == BodyArrives /\ CancelReleases
=============================================================================
