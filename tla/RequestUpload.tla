---------------------------- MODULE RequestUpload ----------------------------
(***************************************************************************)
(* The body of one request on its way up: the client's upload fibre        *)
(* (request in Bridge.ts), the frames between the two processes, the       *)
(* dispatcher's accept and end, the goroutines of requestUpload            *)
(* (bridge/session.go), the pipe from which the HTTP transport reads the   *)
(* body, and the handler runRequest that ends it all.                      *)
(*                                                                         *)
(* Only sizes are kept, and where two chunks meet is not: a queue or a     *)
(* pipe holds a number of bytes and its reader takes any part of them up   *)
(* to a chunk.  The client sends body.chunk frames, then body.end, then    *)
(* cancel, never in another order, so the frames under way are `inFlight`  *)
(* and two flags.  Frames to the client: acknowledgements, headers, and    *)
(* the terminal frame last.                                                *)
(***************************************************************************)
EXTENDS Integers

CONSTANTS
  Window,     \* negotiated window
  ChunkSize,  \* negotiated chunk size
  Body        \* bytes of the body (bounds the model)

ASSUME WindowAssumption    == Window \in Nat \ {0}
ASSUME ChunkSizeAssumption == ChunkSize \in Nat \ {0}
ASSUME BodyAssumption      == Body \in Nat

VARIABLES
  \* the client
  unsent,     \* bytes its body has still to give
  sent,       \* UploadState.sent
  acked,      \* UploadState.acked
  stopped,    \* UploadState.stopped
  fibre,      \* runUpload: pumping or over
  leaving,    \* has the consumer interrupted the request or dropped the response?
  \* the frames
  inFlight,   \* body.chunk bytes under way
  endFrame,   \* body.end: unsent, wire, read
  cancel,     \* cancel: unsent, wire, read
  ackFrames,  \* body.ack bytes under way
  headers,    \* headers: unsent, wire, read
  terminal,   \* terminal frame: unsent, wire, read
  \* the dispatcher's thread
  main,       \* reading, appending, refused (a protocol error ends the Bridge)
  accepting,  \* size of the chunk it is appending
  \* requestUpload
  ctx,        \* the operation's context
  received,   \* uploadCredits.received
  consumed,   \* uploadCredits.acked
  queued,     \* queuedSize
  endQueued,  \* is the nil chunk in the queue?
  closed,     \* closed
  ended,      \* ended
  run,        \* where requestUpload.run is
  chunk,      \* size of the chunk it is writing
  left,       \* bytes of it the pipe's reader has not taken
  pipe,       \* open, eof (Close), broken (CloseWithError), shut (by its reader)
  delivered,  \* bytes the transport has read
  \* runRequest
  handler     \* where it is

clientVars  == <<unsent, sent, acked, stopped, fibre, leaving>>
upFrames    == <<inFlight, endFrame, cancel>>
downFrames  == <<ackFrames, headers, terminal>>
mainVars    == <<main, accepting>>
queueVars   == <<queued, endQueued, closed, ended>>
runVars     == <<run, chunk, left, delivered>>
uploadVars == <<clientVars, upFrames, downFrames, mainVars, ctx, received, consumed,
          queueVars, runVars, pipe, handler>>

Least(a, b) == IF a <= b THEN a ELSE b

UploadTypeOK ==
  /\ unsent \in 0 .. Body /\ sent \in 0 .. Body /\ acked \in 0 .. sent
  /\ stopped \in BOOLEAN /\ leaving \in BOOLEAN /\ fibre \in {"pump", "over"}
  /\ inFlight \in 0 .. Body /\ ackFrames \in 0 .. Body
  /\ endFrame \in {"unsent", "wire", "read"} /\ cancel \in {"unsent", "wire", "read"}
  /\ headers \in {"unsent", "wire", "read"} /\ terminal \in {"unsent", "wire", "read"}
  /\ main \in {"reading", "appending", "refused"} /\ accepting \in 0 .. ChunkSize
  /\ ctx \in {"live", "done"}
  /\ received \in 0 .. Body /\ consumed \in 0 .. received
  /\ queued \in 0 .. Window
  /\ endQueued \in BOOLEAN /\ closed \in BOOLEAN /\ ended \in BOOLEAN
  /\ run \in {"next", "write", "ack", "done"}
  /\ chunk \in 0 .. ChunkSize /\ left \in 0 .. chunk /\ delivered \in 0 .. Body
  /\ pipe \in {"open", "eof", "broken", "shut"}
  /\ handler \in {"do", "reply", "body", "closing", "waiting", "finish", "over"}

UploadInit ==
  /\ unsent = Body /\ sent = 0 /\ acked = 0
  /\ stopped = FALSE /\ fibre = "pump" /\ leaving = FALSE
  /\ inFlight = 0 /\ endFrame = "unsent" /\ cancel = "unsent"
  /\ ackFrames = 0 /\ headers = "unsent" /\ terminal = "unsent"
  /\ main = "reading" /\ accepting = 0
  /\ ctx = "live" /\ received = 0 /\ consumed = 0
  /\ queued = 0 /\ endQueued = FALSE /\ closed = FALSE /\ ended = FALSE
  /\ run = "next" /\ chunk = 0 /\ left = 0 /\ delivered = 0 /\ pipe = "open"
  /\ handler = "do"

-----------------------------------------------------------------------------
(* The client.                                                             *)

\* Faulty form: the window is compared with what was sent in this chunk only.
SendChunkUncredited ==
  /\ fibre = "pump" /\ ~stopped
  /\ \E n \in 1 .. Least(Least(ChunkSize, Window), unsent) :
       /\ unsent' = unsent - n /\ sent' = sent + n /\ inFlight' = inFlight + n
  /\ UNCHANGED <<acked, stopped, fibre, leaving, endFrame, cancel, downFrames, mainVars,
                 ctx, received, consumed, queueVars, runVars, pipe, handler>>

\* sendUploadChunk: waits until the window has room for the chunk.
SendChunk ==
  /\ fibre = "pump" /\ ~stopped
  /\ \E n \in 1 .. Least(Least(ChunkSize, Window), unsent) :
       /\ n <= Window - (sent - acked)
       /\ unsent' = unsent - n /\ sent' = sent + n /\ inFlight' = inFlight + n
  /\ UNCHANGED <<acked, stopped, fibre, leaving, endFrame, cancel, downFrames, mainVars,
                 ctx, received, consumed, queueVars, runVars, pipe, handler>>

\* Faulty form: the end of the fibre, however it came, sends body.end.
EndUploadAlways ==
  /\ fibre = "pump" /\ (stopped \/ unsent = 0)
  /\ endFrame' = IF terminal # "read" THEN "wire" ELSE endFrame
  /\ fibre' = "over"
  /\ UNCHANGED <<unsent, sent, acked, stopped, leaving, inFlight, cancel, downFrames,
                 mainVars, ctx, received, consumed, queueVars, runVars, pipe, handler>>

\* The pump is through, or stopUpload interrupts it.  Only a pump that is
\* through sends body.end, and not for an operation that is no longer pending.
EndUpload ==
  /\ fibre = "pump" /\ (stopped \/ unsent = 0)
  /\ endFrame' = IF ~stopped /\ terminal # "read" THEN "wire" ELSE endFrame
  /\ fibre' = "over"
  /\ UNCHANGED <<unsent, sent, acked, stopped, leaving, inFlight, cancel, downFrames,
                 mainVars, ctx, received, consumed, queueVars, runVars, pipe, handler>>

\* The stop catches the pump between the count of a chunk and the write permit:
\* the chunk counts as sent and is never written.
DropChunk ==
  /\ fibre = "pump" /\ stopped
  /\ \E n \in 1 .. Least(Least(ChunkSize, Window), unsent) :
       /\ n <= Window - (sent - acked)
       /\ unsent' = unsent - n /\ sent' = sent + n
  /\ fibre' = "over"
  /\ UNCHANGED <<acked, stopped, leaving, upFrames, downFrames, mainVars,
                 ctx, received, consumed, queueVars, runVars, pipe, handler>>

\* Faulty form: the body that fails stops the upload and is not cancelled in Go.
BodyFailsQuietly ==
  /\ fibre = "pump" /\ ~stopped
  /\ stopped' = TRUE /\ fibre' = "over"
  /\ UNCHANGED <<unsent, sent, acked, leaving, upFrames, downFrames, mainVars,
                 ctx, received, consumed, queueVars, runVars, pipe, handler>>

\* The body stream fails: stop, cancel, and only then is the fibre over.
BodyFails ==
  /\ fibre = "pump" /\ ~stopped
  /\ stopped' = TRUE /\ fibre' = "over"
  /\ cancel' = IF terminal # "read" THEN "wire" ELSE cancel
  /\ UNCHANGED <<unsent, sent, acked, leaving, inFlight, endFrame, downFrames, mainVars,
                 ctx, received, consumed, queueVars, runVars, pipe, handler>>

\* cleanup, when the request is interrupted or its response stream ends: stop
\* the upload, wait for the fibre, and cancel what is still pending.
Leave ==
  /\ ~leaving /\ leaving' = TRUE /\ stopped' = TRUE
  /\ UNCHANGED <<unsent, sent, acked, fibre, upFrames, downFrames, mainVars,
                 ctx, received, consumed, queueVars, runVars, pipe, handler>>

SendCancel ==
  /\ leaving /\ fibre = "over" /\ cancel = "unsent" /\ terminal # "read"
  /\ cancel' = "wire"
  /\ UNCHANGED <<clientVars, inFlight, endFrame, downFrames, mainVars,
                 ctx, received, consumed, queueVars, runVars, pipe, handler>>

\* handleStreamFrame: body.ack wakes the pump, headers and the terminal frame
\* stop the upload.
ReceiveAck ==
  /\ \E n \in 1 .. ackFrames : ackFrames' = ackFrames - n /\ acked' = acked + n
  /\ UNCHANGED <<unsent, sent, stopped, fibre, leaving, upFrames, headers, terminal,
                 mainVars, ctx, received, consumed, queueVars, runVars, pipe, handler>>

ReceiveHeaders ==
  /\ headers = "wire"
  /\ headers' = "read" /\ stopped' = TRUE
  /\ UNCHANGED <<unsent, sent, acked, fibre, leaving, upFrames, ackFrames, terminal,
                 mainVars, ctx, received, consumed, queueVars, runVars, pipe, handler>>

ReceiveTerminal ==
  /\ terminal = "wire" /\ ackFrames = 0 /\ headers # "wire"
  /\ terminal' = "read" /\ stopped' = TRUE
  /\ UNCHANGED <<unsent, sent, acked, fibre, leaving, upFrames, ackFrames, headers,
                 mainVars, ctx, received, consumed, queueVars, runVars, pipe, handler>>

-----------------------------------------------------------------------------
(* The dispatcher's thread.                                                *)

\* The operation has left the table.
Gone == handler = "over"

\* accept, up to the reservation: a chunk for an operation that is gone, whose
\* context is done or whose upload is closed is dropped; one that comes after
\* body.end or does not fit the window is a protocol error.
AcceptChunk ==
  /\ main = "reading"
  /\ \E n \in 1 .. Least(ChunkSize, inFlight) :
       /\ inFlight' = inFlight - n
       /\ \/ /\ Gone \/ ctx = "done" \/ closed
             /\ UNCHANGED <<mainVars, received>>
          \/ /\ ~(Gone \/ ctx = "done" \/ closed)
             /\ ended \/ n > Window - (received - consumed)
             /\ main' = "refused" /\ UNCHANGED <<accepting, received>>
          \/ /\ ~(Gone \/ ctx = "done" \/ closed)
             /\ ~ended /\ n <= Window - (received - consumed)
             /\ main' = "appending" /\ accepting' = n /\ received' = received + n
  /\ UNCHANGED <<clientVars, endFrame, cancel, downFrames, ctx, consumed,
                 queueVars, runVars, pipe, handler>>

\* accept, the rest: the upload may have been closed in between.
AppendChunk ==
  /\ main = "appending"
  /\ closed \/ queued + accepting <= Window
  /\ queued' = IF closed \/ ctx = "done" THEN queued ELSE queued + accepting
  /\ main' = "reading" /\ accepting' = 0
  /\ UNCHANGED <<clientVars, upFrames, downFrames, ctx, received, consumed,
                 endQueued, closed, ended, runVars, pipe, handler>>

ReceiveEnd ==
  /\ main = "reading" /\ endFrame = "wire" /\ inFlight = 0
  /\ endFrame' = "read"
  /\ IF Gone \/ ctx = "done" \/ closed
       THEN UNCHANGED <<endQueued, ended>>
       ELSE endQueued' = TRUE /\ ended' = TRUE
  /\ UNCHANGED <<clientVars, inFlight, cancel, downFrames, mainVars, ctx, received,
                 consumed, queued, closed, runVars, pipe, handler>>

ReceiveCancel ==
  /\ main = "reading" /\ cancel = "wire" /\ inFlight = 0 /\ endFrame # "wire"
  /\ cancel' = "read"
  /\ ctx' = IF Gone THEN ctx ELSE "done"
  /\ UNCHANGED <<clientVars, inFlight, endFrame, downFrames, mainVars, received,
                 consumed, queueVars, runVars, pipe, handler>>

\* session.destroy or shutdown stops the operation.
StopOperation ==
  /\ ctx = "live" /\ ~Gone /\ ctx' = "done"
  /\ UNCHANGED <<clientVars, upFrames, downFrames, mainVars, received, consumed,
                 queueVars, runVars, pipe, handler>>

-----------------------------------------------------------------------------
(* requestUpload.                                                          *)

\* abort: what is queued is thrown away; the reader of the pipe gets an error
\* unless the pipe was closed before.
abort ==
  /\ closed' = TRUE
  /\ queued' = IF closed THEN queued ELSE 0
  /\ endQueued' = IF closed THEN endQueued ELSE FALSE
  /\ pipe' = IF pipe = "open" THEN "broken" ELSE pipe

WatchContext ==
  /\ ctx = "done" /\ run # "done" /\ ~closed
  /\ abort
  /\ UNCHANGED <<clientVars, upFrames, downFrames, mainVars, ctx, received, consumed,
                 ended, runVars, handler>>

\* next, and the end of run: an aborted upload breaks the pipe, a complete one
\* closes it.
NextChunk ==
  /\ run = "next"
  /\ \/ /\ ~closed
        /\ \E n \in 1 .. Least(ChunkSize, queued) :
             queued' = queued - n /\ chunk' = n /\ left' = n
        /\ run' = "write" /\ UNCHANGED <<pipe, endQueued>>
     \/ /\ ~closed /\ queued = 0 /\ endQueued
        /\ pipe' = IF pipe = "open" THEN "eof" ELSE pipe
        /\ endQueued' = FALSE /\ run' = "done" /\ UNCHANGED <<queued, chunk, left>>
     \/ /\ closed
        /\ pipe' = IF pipe = "open" THEN "broken" ELSE pipe
        /\ run' = "done" /\ UNCHANGED <<queued, endQueued, chunk, left>>
  /\ UNCHANGED <<clientVars, upFrames, downFrames, mainVars, ctx, received, consumed,
                 closed, ended, delivered, handler>>

\* The write has returned: all of the chunk was read, or the pipe is closed.
WriteReturns ==
  /\ run = "write"
  /\ \/ /\ left = 0
        /\ consumed' = consumed + chunk /\ run' = "ack"
        /\ UNCHANGED <<queueVars, chunk, left, pipe>>
     \/ /\ left > 0 /\ pipe # "open"
        /\ abort
        /\ run' = "done" /\ chunk' = 0 /\ left' = 0 /\ UNCHANGED <<consumed, ended>>
  /\ UNCHANGED <<clientVars, upFrames, downFrames, mainVars, ctx, received,
                 delivered, handler>>

WriteAck ==
  /\ run = "ack"
  /\ ackFrames' = ackFrames + chunk
  /\ chunk' = 0 /\ run' = "next"
  /\ UNCHANGED <<clientVars, upFrames, headers, terminal, mainVars, ctx, received,
                 consumed, queueVars, left, delivered, pipe, handler>>

-----------------------------------------------------------------------------
(* The transport reads the body of the request, or closes it when it wants  *)
(* no more of it.                                                          *)

ReadBody ==
  /\ run = "write" /\ pipe = "open"
  /\ \E n \in 1 .. left : left' = left - n /\ delivered' = delivered + n
  /\ UNCHANGED <<clientVars, upFrames, downFrames, mainVars, ctx, received, consumed,
                 queueVars, run, chunk, pipe, handler>>

CloseBody ==
  /\ pipe = "open" /\ pipe' = "shut"
  /\ UNCHANGED <<clientVars, upFrames, downFrames, mainVars, ctx, received, consumed,
                 queueVars, runVars, handler>>

-----------------------------------------------------------------------------
(* runRequest.                                                             *)

\* The response is there: abortIfIncomplete.
Respond ==
  /\ handler = "do" /\ handler' = "reply"
  /\ IF closed \/ ended THEN UNCHANGED <<queueVars, pipe>> ELSE abort /\ UNCHANGED ended
  /\ UNCHANGED <<clientVars, upFrames, downFrames, mainVars, ctx, received, consumed,
                 runVars>>

WriteHeaders ==
  /\ handler = "reply" /\ handler' = "body"
  /\ headers' = "wire"
  /\ UNCHANGED <<clientVars, upFrames, ackFrames, terminal, mainVars, ctx, received,
                 consumed, queueVars, runVars, pipe>>

\* client.Do or the response body failed, or the context is done: close the
\* upload and wait for its goroutine.
Fail ==
  /\ handler \in {"do", "body"} /\ handler' = "closing"
  /\ abort
  /\ UNCHANGED <<clientVars, upFrames, downFrames, mainVars, ctx, received, consumed,
                 ended, runVars>>

\* The whole response is written: wait for the upload.
ResponseEnds ==
  /\ handler = "body" /\ handler' = "waiting"
  /\ UNCHANGED <<clientVars, upFrames, downFrames, mainVars, ctx, received, consumed,
                 queueVars, runVars, pipe>>

\* Faulty form: it does not wait.
UploadDoneAssumed ==
  /\ handler \in {"closing", "waiting"}
  /\ handler' = "finish"
  /\ UNCHANGED <<clientVars, upFrames, downFrames, mainVars, ctx, received, consumed,
                 queueVars, runVars, pipe>>

UploadDone ==
  /\ handler \in {"closing", "waiting"} /\ run = "done"
  /\ handler' = "finish"
  /\ UNCHANGED <<clientVars, upFrames, downFrames, mainVars, ctx, received, consumed,
                 queueVars, runVars, pipe>>

Finish ==
  /\ handler = "finish" /\ handler' = "over"
  /\ terminal' = "wire"
  /\ UNCHANGED <<clientVars, upFrames, ackFrames, headers, mainVars, ctx, received,
                 consumed, queueVars, runVars, pipe>>

-----------------------------------------------------------------------------
Fibre      == SendChunk \/ EndUpload \/ DropChunk \/ SendCancel
StdoutLoop == ReceiveAck \/ ReceiveHeaders \/ ReceiveTerminal
Dispatcher == AcceptChunk \/ AppendChunk \/ ReceiveEnd \/ ReceiveCancel
Upload     == NextChunk \/ WriteReturns \/ WriteAck
Handler    == WriteHeaders \/ UploadDone \/ Finish

UploadNext ==
  \/ Fibre \/ BodyFails \/ Leave \/ StdoutLoop
  \/ Dispatcher \/ StopOperation
  \/ WatchContext \/ Upload \/ ReadBody \/ CloseBody
  \/ Handler \/ Respond \/ Fail \/ ResponseEnds

\* The threads run and the frames arrive.  Nothing makes the transport read or
\* answer; a context that is done makes it fail.
UploadFairness ==
  /\ WF_uploadVars(Fibre) /\ WF_uploadVars(StdoutLoop) /\ WF_uploadVars(Dispatcher)
  /\ WF_uploadVars(WatchContext) /\ WF_uploadVars(Upload) /\ WF_uploadVars(Handler)
  /\ WF_uploadVars(ctx = "done" /\ Fail)

TransportReads == WF_uploadVars(ReadBody)

UploadSpec == UploadInit /\ [][UploadNext]_uploadVars /\ UploadFairness

-----------------------------------------------------------------------------
(* A client that keeps to its window is never accused of exceeding it: the  *)
(* two counts differ only by what is under way, in the client's disfavour.  *)
(* A refused chunk would end the Bridge with every operation.               *)
NeverRefused ==
  /\ main # "refused"
  /\ sent - acked >= inFlight + (received - consumed)

(* The dispatcher's thread never waits inside accept: the queue has room    *)
(* for whatever the credits let in.                                         *)
AcceptNeverWaits ==
  main = "appending" /\ ~closed => queued + accepting <= Window

(* The server sees the regular end of a body only after all of its bytes:   *)
(* an upload given up half-way breaks the pipe instead.                     *)
EofMeansWhole ==
  pipe = "eof" => delivered = Body

(* No body.ack follows the terminal frame, and every acknowledged byte was  *)
(* sent (the client would declare the Bridge dead).                         *)
AcksInTime ==
  /\ terminal # "unsent" => run = "done"
  /\ ackFrames <= sent - acked

(* Whatever stops a request, both ends of its upload come to rest.          *)
CancelledUploadEnds ==
  ctx = "done" ~> handler = "over" /\ fibre = "over" /\ run = "done"

(* Whoever stops an upload before there is an answer - the consumer that    *)
(* leaves, or the body that fails - the request comes to its end: the       *)
(* cancel is sent, whatever it crosses.                                    *)
StoppedUploadEnds ==
  (stopped /\ headers # "read") ~> (handler = "over" /\ fibre = "over" /\ run = "done")

(* Credit keeps coming: a transport that reads gets the whole body, unless  *)
(* somebody stops the upload.                                               *)
BodyDelivered ==
  TransportReads => <>(delivered = Body \/ stopped \/ closed \/ pipe = "shut" \/ ctx = "done")

(* The two sides agree on the window: the client is never refused, and the  *)
(* dispatcher's thread never waits for room.                               *)
WindowAgreed == UploadTypeOK /\ NeverRefused /\ AcceptNeverWaits

\* The bytes of the body that are held between the client's fibre and the
\* transport: under way, on the dispatcher's thread, queued, or in the pipe.
held == inFlight + accepting + queued + (IF run = "write" THEN chunk ELSE 0)

Upstream == INSTANCE BoundedChannel WITH Capacity <- Window, buffered <- held

(* Upwards, too, flow control is the bounded channel: never more than a    *)
(* window of a body is held, whatever is aborted (03-protocol.md, rule 6). *)
ImplementsChannel == Upstream!Spec

(* An upload comes to its end, delivered, stopped by the client or with the *)
(* operation in Go.                                                        *)
UploadEnds == CancelledUploadEnds /\ StoppedUploadEnds /\ BodyDelivered
=============================================================================
