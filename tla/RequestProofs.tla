---------------------------- MODULE RequestProofs ----------------------------
(***************************************************************************)
(* Theorems about a request (HttpExchange, for every header, body, kind of *)
(* error and length of response) and about the upload of its body          *)
(* (RequestUpload, for every window, chunk size and body).                 *)
(***************************************************************************)
EXTENDS HttpExchange, RequestUpload, TLAPS

-----------------------------------------------------------------------------
(* The upload of a body.                                                   *)

(* The bytes of the chunk the consumer of the body holds.                  *)
Writing == IF run = "write" THEN chunk ELSE 0

(* The bytes it is about to acknowledge.                                   *)
Acking  == IF run = "ack" THEN chunk ELSE 0

(* The client: what it has sent and what is left make the body, and it     *)
(* never has more than the window unacknowledged; the end frame follows    *)
(* the last byte.                                                          *)
ClientBooks ==
  /\ sent = Body - unsent /\ sent - acked <= Window
  /\ endFrame # "unsent" => unsent = 0 /\ fibre = "over"
  /\ endFrame = "read" => inFlight = 0

(* What is acknowledged, on its way or about to be is what the Bridge has  *)
(* consumed.                                                               *)
AckBooks == acked + ackFrames + Acking = consumed

(* What the Bridge has taken in is in its queue, held, consumed or being   *)
(* appended; as long as nothing has stopped the operation, or the pump of  *)
(* its body before the end, no byte sent is lost.                          *)
Arrival ==
  /\ inFlight + received <= sent
  /\ ~closed /\ ctx = "live" /\ (fibre = "pump" \/ endFrame # "unsent") => inFlight + received = sent
  /\ consumed + Writing + queued + accepting <= received
  /\ ~closed /\ (ctx = "live" \/ ended) => consumed + Writing + queued + accepting = received

(* Once the end frame is accepted the whole body has arrived and no chunk  *)
(* is being appended; the queue's end mark is of an accepted end.          *)
EndAnnounced ==
  /\ ended => endFrame = "read" /\ received = Body /\ main # "appending"
  /\ endQueued => ended /\ ~closed
  /\ run = "done" /\ ~closed => ended
  /\ main # "appending" => accepting = 0

(* The chunk in hand: how much of it the request's body has been given.    *)
Chunks ==
  /\ run \in {"next", "done"} => chunk = 0 /\ left = 0
  /\ run = "ack" => left = 0
  /\ run # "done" => delivered = consumed + (Writing - left)
  /\ delivered <= received

(* The end of the body is read when all of it has been delivered, and an   *)
(* operation is over when its consumer is.                                 *)
Ends ==
  /\ pipe = "eof" => run = "done" /\ delivered = Body
  /\ handler \in {"finish", "over"} => run = "done"
  /\ terminal # "unsent" => handler = "over"

(* The counters are naturals, a chunk is no larger than it may be.         *)
Numbers ==
  /\ unsent \in Nat /\ sent \in Nat /\ acked \in Nat /\ inFlight \in Nat /\ ackFrames \in Nat
  /\ accepting \in Nat /\ received \in Nat /\ consumed \in Nat /\ queued \in Nat
  /\ chunk \in Nat /\ left \in Nat /\ delivered \in Nat
  /\ accepting <= ChunkSize /\ chunk <= ChunkSize /\ left <= chunk

(* Where each of the actors can be.                                        *)
UploadStates ==
  /\ stopped \in BOOLEAN /\ leaving \in BOOLEAN /\ fibre \in {"pump", "over"}
  /\ endFrame \in {"unsent", "wire", "read"} /\ cancel \in {"unsent", "wire", "read"}
  /\ headers \in {"unsent", "wire", "read"} /\ terminal \in {"unsent", "wire", "read"}
  /\ main \in {"reading", "appending"}
  /\ ctx \in {"live", "done"}
  /\ endQueued \in BOOLEAN /\ closed \in BOOLEAN /\ ended \in BOOLEAN
  /\ run \in {"next", "write", "ack", "done"}
  /\ pipe \in {"open", "eof", "broken", "shut"}
  /\ handler \in {"do", "reply", "body", "closing", "waiting", "finish", "over"}

(* What the client and the Bridge agree on at every moment: the inductive  *)
(* invariant of the upload.                                                *)
UploadInv == Numbers /\ UploadStates /\ ClientBooks /\ AckBooks /\ Arrival /\ EndAnnounced /\ Chunks /\ Ends

(* The settings are numbers.                                               *)
LEMMA Settings == Window \in Nat /\ ChunkSize \in Nat /\ Body \in Nat
BY WindowAssumption, ChunkSizeAssumption, BodyAssumption

USE Settings

(* The initial state satisfies it.                                         *)
LEMMA UploadStarts == UploadInit => UploadInv
<1> SUFFICES ASSUME UploadInit PROVE UploadInv
  OBVIOUS
<1>1. Numbers
  BY DEF UploadInit, Numbers
<1>2. UploadStates
  BY DEF UploadInit, UploadStates
<1>3. ClientBooks /\ AckBooks /\ Arrival
  BY DEF UploadInit, ClientBooks, AckBooks, Arrival, Writing, Acking
<1>4. EndAnnounced /\ Chunks /\ Ends
  BY DEF UploadInit, EndAnnounced, Chunks, Ends, Writing
<1>5. QED
  BY <1>1, <1>2, <1>3, <1>4 DEF UploadInv

(* Every step of the client, the Bridge's dispatcher, the consumer of the  *)
(* body and the handler preserves it.                                      *)
LEMMA UploadSteps == UploadInv /\ [UploadNext]_uploadVars => UploadInv'
<1> SUFFICES ASSUME UploadInv, [UploadNext]_uploadVars PROVE UploadInv'
  OBVIOUS
<1> USE DEF UploadInv, Numbers, UploadStates, ClientBooks, AckBooks, Arrival, EndAnnounced, Chunks, Ends,
            Writing, Acking, Least, clientVars, upFrames, downFrames, mainVars, queueVars, runVars, Gone
<1>1. CASE SendChunk
  BY <1>1 DEF SendChunk
<1>2. CASE EndUpload
  BY <1>2 DEF EndUpload
<1>3. CASE SendCancel
  BY <1>3 DEF SendCancel
<1>4. CASE BodyFails
  BY <1>4 DEF BodyFails
<1>5. CASE Leave
  BY <1>5 DEF Leave
<1>6. CASE ReceiveAck
  BY <1>6 DEF ReceiveAck
<1>7. CASE ReceiveHeaders
  BY <1>7 DEF ReceiveHeaders
<1>8. CASE ReceiveTerminal
  BY <1>8 DEF ReceiveTerminal
<1>9. CASE AcceptChunk
  BY <1>9 DEF AcceptChunk
<1>10. CASE AppendChunk
  BY <1>10 DEF AppendChunk
<1>11. CASE ReceiveEnd
  <2>1. CASE Gone \/ ctx = "done" \/ closed
    BY <1>11, <2>1 DEF ReceiveEnd
  <2>2. CASE ~(Gone \/ ctx = "done" \/ closed)
    <3>1. unsent = 0 /\ fibre = "over" /\ inFlight = 0 /\ received = Body
      BY <1>11, <2>2 DEF ReceiveEnd
    <3>2. accepting = 0 /\ main = "reading"
      BY <1>11, <2>2 DEF ReceiveEnd
    <3>3. /\ endQueued' = TRUE /\ ended' = TRUE /\ endFrame' = "read"
          /\ UNCHANGED <<unsent, sent, acked, stopped, fibre, leaving, inFlight, cancel,
               ackFrames, headers, terminal, main, accepting, ctx, received, consumed,
               queued, closed, run, chunk, left, delivered, pipe, handler>>
      BY <1>11, <2>2 DEF ReceiveEnd
    <3>4. QED
      <4>1. Numbers' /\ UploadStates'
        BY <2>2, <3>1, <3>2, <3>3
      <4>2. ClientBooks'
        BY <3>1, <3>3
      <4>3. AckBooks'
        BY <3>3
      <4>4. Arrival'
        BY <2>2, <3>1, <3>2, <3>3
      <4>5. EndAnnounced' /\ Chunks'
        BY <2>2, <3>1, <3>2, <3>3
      <4>6. Ends'
        BY <2>2, <3>1, <3>2, <3>3
      <4>7. QED
        BY <4>1, <4>2, <4>4, <4>5, <4>6, <4>3
  <2>3. QED
    BY <2>1, <2>2
<1>12. CASE ReceiveCancel
  BY <1>12 DEF ReceiveCancel
<1>13. CASE StopOperation
  BY <1>13 DEF StopOperation
<1>14. CASE WatchContext
  BY <1>14 DEF WatchContext, abort
<1>15. CASE NextChunk
  <2>1. CASE \E n \in 1 .. Least(ChunkSize, queued) :
             queued' = queued - n /\ chunk' = n /\ left' = n /\ run' = "write"
             /\ ~closed /\ UNCHANGED <<pipe, endQueued>>
    BY <1>15, <2>1 DEF NextChunk
  <2>2. CASE /\ ~closed /\ queued = 0 /\ endQueued
             /\ pipe' = IF pipe = "open" THEN "eof" ELSE pipe
             /\ endQueued' = FALSE /\ run' = "done" /\ UNCHANGED <<queued, chunk, left>>
    <3>1. Numbers'
      BY <1>15, <2>2 DEF NextChunk
    <3>2. UploadStates'
      BY <1>15, <2>2 DEF NextChunk
    <3>3. ClientBooks' /\ AckBooks'
      BY <1>15, <2>2 DEF NextChunk
    <3>4. Arrival'
      BY <1>15, <2>2 DEF NextChunk
    <3>5. EndAnnounced' /\ Chunks'
      BY <1>15, <2>2 DEF NextChunk
    <3>6. Ends'
      BY <1>15, <2>2 DEF NextChunk
    <3>7. QED
      BY <3>1, <3>3, <3>4, <3>5, <3>6, <3>2
  <2>3. CASE /\ closed
             /\ pipe' = IF pipe = "open" THEN "broken" ELSE pipe
             /\ run' = "done" /\ UNCHANGED <<queued, endQueued, chunk, left>>
    BY <1>15, <2>3 DEF NextChunk
  <2>4. QED
    BY <1>15, <2>1, <2>2, <2>3 DEF NextChunk
<1>16. CASE WriteReturns
  <2>1. /\ run = "write"
        /\ UNCHANGED <<unsent, sent, acked, stopped, fibre, leaving, inFlight, endFrame, cancel,
             ackFrames, headers, terminal, main, accepting, ctx, received, delivered, handler>>
    BY <1>16 DEF WriteReturns
  <2>2. CASE /\ left = 0 /\ consumed' = consumed + chunk /\ run' = "ack"
             /\ UNCHANGED <<queued, endQueued, closed, ended, chunk, left, pipe>>
    BY <2>1, <2>2
  <2>3. CASE /\ left > 0 /\ pipe # "open" /\ abort
             /\ run' = "done" /\ chunk' = 0 /\ left' = 0 /\ UNCHANGED <<consumed, ended>>
    <3>1. closed' = TRUE /\ pipe' = pipe
      BY <2>3 DEF abort
    <3>2. CASE closed
      <4>1. queued' = queued /\ endQueued' = endQueued
        BY <2>3, <3>2 DEF abort
      <4>2. QED
        BY <2>1, <2>3, <3>1, <3>2, <4>1
    <3>3. CASE ~closed
      <4>1. queued' = 0 /\ endQueued' = FALSE
        BY <2>3, <3>3 DEF abort
      <4>2. QED
        <5>1. Numbers'
          BY <2>1, <2>3, <3>1, <3>3, <4>1
        <5>2. ClientBooks' /\ AckBooks'
          BY <2>1, <2>3, <3>1, <3>3, <4>1
        <5>3. Arrival'
          BY <2>1, <2>3, <3>1, <3>3, <4>1
        <5>4. EndAnnounced' /\ Chunks'
          BY <2>1, <2>3, <3>1, <3>3, <4>1
        <5>5. Ends'
          BY <2>1, <2>3, <3>1, <3>3, <4>1
        <5> HIDE DEF Numbers, ClientBooks, AckBooks, Arrival, EndAnnounced, Chunks, Ends
        <5>6. /\ stopped' \in BOOLEAN /\ leaving' \in BOOLEAN /\ endQueued' \in BOOLEAN
               /\ closed' \in BOOLEAN /\ ended' \in BOOLEAN
          BY <2>1, <2>3, <3>1, <4>1
        <5>7. UploadStates'
          BY <2>1, <2>3, <3>1, <5>6
        <5>8. QED
          BY <5>1, <5>2, <5>3, <5>4, <5>5, <5>7
    <3>4. QED
      BY <3>2, <3>3
  <2>4. QED
    BY <1>16, <2>2, <2>3 DEF WriteReturns
<1>17. CASE WriteAck
  BY <1>17 DEF WriteAck
<1>18. CASE ReadBody
  BY <1>18 DEF ReadBody
<1>19. CASE CloseBody
  BY <1>19 DEF CloseBody
<1>20. CASE WriteHeaders
  BY <1>20 DEF WriteHeaders
<1>21. CASE UploadDone
  BY <1>21 DEF UploadDone
<1>22. CASE Finish
  BY <1>22 DEF Finish
<1>23. CASE Respond
  <2>1. CASE closed \/ ended
    BY <1>23, <2>1 DEF Respond
  <2>2. CASE ~(closed \/ ended)
    <3>1. /\ closed' = TRUE /\ queued' = 0 /\ endQueued' = FALSE
          /\ pipe' = IF pipe = "open" THEN "broken" ELSE pipe
          /\ handler' = "reply" /\ handler = "do"
          /\ UNCHANGED <<unsent, sent, acked, stopped, fibre, leaving, inFlight, endFrame, cancel,
               ackFrames, headers, terminal, main, accepting, ctx, received, consumed, ended,
               run, chunk, left, delivered>>
      BY <1>23, <2>2 DEF Respond, abort
    <3>2. QED
      <4>1. Numbers'
        BY <2>2, <3>1
      <4>2. ClientBooks' /\ AckBooks'
        BY <2>2, <3>1
      <4>3. Arrival'
        BY <2>2, <3>1
      <4>4. EndAnnounced' /\ Chunks'
        BY <2>2, <3>1
      <4>5. Ends'
        BY <2>2, <3>1
      <4> HIDE DEF Numbers, ClientBooks, AckBooks, Arrival, EndAnnounced, Chunks, Ends
      <4>6. /\ stopped' \in BOOLEAN /\ leaving' \in BOOLEAN /\ endQueued' \in BOOLEAN
             /\ closed' \in BOOLEAN /\ ended' \in BOOLEAN
        BY <3>1
      <4>7. UploadStates'
        BY <3>1, <4>6
      <4>8. QED
        BY <4>1, <4>2, <4>3, <4>4, <4>5, <4>7
  <2>3. QED
    BY <2>1, <2>2
<1>24. CASE Fail
  <2>1. CASE closed
    BY <1>24, <2>1 DEF Fail, abort
  <2>2. CASE ~closed
    BY <1>24, <2>2 DEF Fail, abort
  <2>3. QED
    BY <2>1, <2>2
<1>25. CASE ResponseEnds
  BY <1>25 DEF ResponseEnds
<1>26. CASE DropChunk
  BY <1>26 DEF DropChunk
<1>27. CASE UNCHANGED uploadVars
  BY <1>27 DEF uploadVars
<1>28. QED
  BY <1>1, <1>2, <1>3, <1>4, <1>5, <1>6, <1>7, <1>8, <1>9, <1>10, <1>11, <1>12, <1>13, <1>14,
     <1>15, <1>16, <1>17, <1>18, <1>19, <1>20, <1>21, <1>22, <1>23, <1>24, <1>25, <1>26, <1>27
     DEF UploadNext, Fibre, StdoutLoop, Dispatcher, Upload, Handler

(* It implies the types and bounds of the model.                           *)
LEMMA UploadTyped == UploadInv => UploadTypeOK
<1> SUFFICES ASSUME UploadInv PROVE UploadTypeOK
  OBVIOUS
<1> USE DEF UploadInv
<1>1. /\ sent <= Body /\ unsent <= Body /\ inFlight <= Body /\ ackFrames <= Body
      /\ received <= Body /\ consumed <= received /\ acked <= sent /\ queued <= Window
      /\ delivered <= Body
  BY DEF Numbers, UploadStates, ClientBooks, AckBooks, Arrival, Chunks, Ends, Writing, Acking
<1>2. QED
  BY <1>1 DEF UploadTypeOK, Numbers, UploadStates

(* The client's and the Bridge's books of the upload agree in every state, *)
(* for any window, chunk size and body.                                    *)
THEOREM UploadInvariance == UploadSpec => []UploadInv
BY UploadStarts, UploadSteps, PTL DEF UploadSpec

(* With both books in balance the window is the whole of what the queue    *)
(* may be asked to hold.                                                   *)
LEMMA Agreed == UploadInv => WindowAgreed
<1> SUFFICES ASSUME UploadInv PROVE NeverRefused /\ AcceptNeverWaits
  BY UploadTyped DEF WindowAgreed
<1> USE DEF UploadInv, Numbers, UploadStates, ClientBooks, AckBooks, Arrival, Writing, Acking
<1>1. NeverRefused
  BY DEF NeverRefused
<1>2. AcceptNeverWaits
  BY DEF AcceptNeverWaits
<1>3. QED
  BY <1>1, <1>2

(* No acknowledgement follows the terminal frame: its consumer is over.    *)
LEMMA Timely == UploadInv => AcksInTime
BY DEF UploadInv, Numbers, AckBooks, Arrival, Ends, Writing, Acking, AcksInTime

(* The end of the body is read after all its bytes.                        *)
LEMMA Whole == UploadInv => EofMeansWhole
BY DEF UploadInv, Ends, EofMeansWhole

(* The client never sends a byte the Bridge would refuse, and the Bridge's *)
(* dispatcher never waits to accept one (bridgeio flow control on both     *)
(* sides).                                                                 *)
THEOREM WindowIsAgreed == UploadSpec => []WindowAgreed
BY Agreed, UploadInvariance, PTL

(* What is held was sent and is not acknowledged: it fits the window.       *)
LEMMA HeldFits == UploadInv => held \in 0 .. Window
BY DEF UploadInv, Numbers, UploadStates, ClientBooks, AckBooks, Arrival, Writing, Acking, held

(* Within the window fewer bytes held is a Get and more of them a Put.     *)
LEMMA HeldMoves ==
  ASSUME NEW m \in 0 .. Window, NEW n \in 0 .. Window, held = m, held' = n
  PROVE  [Upstream!Next]_held
<1>1. CASE n > m
  <2>1. n - m \in 1 .. (Window - m) /\ n = m + (n - m)
    BY <1>1
  <2>2. Upstream!Put
    BY <2>1 DEF Upstream!Put
  <2>3. QED
    BY <2>2 DEF Upstream!Next
<1>2. CASE n < m
  <2>1. m - n \in 1 .. m /\ n = m - (m - n)
    BY <1>2
  <2>2. Upstream!Get
    BY <2>1 DEF Upstream!Get
  <2>3. QED
    BY <2>2 DEF Upstream!Next
<1>3. CASE n = m
  BY <1>3
<1>4. QED
  BY <1>1, <1>2, <1>3

(* Of a body no more than a window is held between the client's fibre and  *)
(* the transport, whatever is aborted when: rule 6 of 03-protocol.md for   *)
(* the way up, as CreditsProofs has it for the way down.                   *)
THEOREM UploadIsChannel == UploadSpec => ImplementsChannel
<1>1. UploadInit => Upstream!Init
  BY DEF UploadInit, Upstream!Init, held
<1>2. UploadInv /\ UploadInv' => [Upstream!Next]_held
  <2>1. UploadInv => held \in 0 .. Window
    BY HeldFits
  <2>2. UploadInv' => (held \in 0 .. Window)'
    BY HeldFits, PTL
  <2>3. UploadInv' => held' \in 0 .. Window
    BY <2>2
  <2>4. QED
    BY <2>1, <2>3, HeldMoves
<1>3. QED
  BY <1>1, <1>2, UploadInvariance, PTL DEF UploadSpec, ImplementsChannel, Upstream!Spec

(* The request's body ends without an error only when every byte the       *)
(* caller gave has been delivered.                                         *)
THEOREM EofIsWhole == UploadSpec => []EofMeansWhole
BY Whole, UploadInvariance, PTL

(* No ack frame is on its way after the terminal frame.                    *)
THEOREM AcksAreTimely == UploadSpec => []AcksInTime
BY Timely, UploadInvariance, PTL

-----------------------------------------------------------------------------
(* A request and its response.                                             *)

USE DEF Readers

Live == {"answered", "abandoning", "buffering", "returned"}

(* What Form has made and Send not yet looked at.                          *)
Forming ==
  call = "formed" =>
    \E given \in Givens, http \in HttpBodies : \E kind \in KindsOf(http) :
      form = [given |-> WithBodyHeaders(given, http),
              body |-> [kind |-> IF kind = "unreadable" THEN "other" ELSE kind,
                        size |-> http.size],
              http |-> http, asked |-> given]

(* How far the call, the scope of the request and its operation can be     *)
(* apart: whoever closed the scope first, the operation is over when a     *)
(* registered response finds it closed.                                    *)
ScopesAgree ==
  /\ call \in {"start", "formed"} => rscope = "none"
  /\ rscope = "none" => op = "none"
  /\ op = "none" => ~headersSeen
  /\ op = "headers" => headersSeen
  /\ op = "asked" => ~headersSeen
  /\ call \in {"awaiting", "interrupting"} => rscope \in {"open", "closed"}
  /\ call = "late" => rscope = "closed" /\ headersSeen
  /\ call \in Live => headersSeen
  /\ call = "abandoning" => rscope \in {"closing", "closed"}
  /\ call = "failed" => rscope # "open"
  /\ listener => rscope = "open" /\ call \in {"buffering", "returned"}
  /\ (rscope = "closed" /\ call \in Live \cup {"failed"}) => ~Running
  /\ rscope = "closing" => headersSeen /\ call \in Live \cup {"failed"}
  /\ \A r \in Readers :
       /\ reader[r].at # "idle" => headersSeen /\ call \in {"buffering", "returned", "failed"}
       /\ reader[r].at = "done" => op = "over" /\ rscope \in {"closing", "closed"}

(* What the terminal frame says of what came before it.                    *)
EndKnown ==
  /\ end = Ended => op = "over" /\ headersSeen /\ (~bodyless => produced = Size)
  /\ (op = "over" /\ ~headersSeen /\ uploadFailed)
       => end \in {TlsRequestError("Body"), BridgeExited}

NotYetCounted ==
  call \in {"start", "formed", "awaiting", "interrupting", "late"} => counted = 0

IInv == TypeOK /\ Forming /\ ScopesAgree /\ EndKnown /\ NotYetCounted
        /\ BodyIsWhole /\ ToldOnceAndTruly

(* Errors: what Go or its death can end an operation with is no end, and   *)
(* the adapter tells a body's failure from every other.                    *)
LEMMA Outcomes ==
  /\ \A kind \in GoKinds : \A seen, failed \in BOOLEAN :
       /\ RequestError(kind, seen, failed) \in Terminals
       /\ RequestError(kind, seen, failed) # Ended
       /\ failed /\ ~seen => RequestError(kind, seen, failed) = TlsRequestError("Body")
  /\ BridgeExited \in Terminals /\ BridgeExited # Ended /\ Ended \in Terminals
  /\ \A e : AdapterReason(e) \in {"EncodeError", "TransportError"}
  /\ AdapterReason(TlsRequestError("Body")) = "EncodeError"
<1>1. \A kind : ErrorFromMeta(kind).tag # "end"
  BY DEF ErrorFromMeta, TlsRequestError, Tagged
<1>2. TlsRequestError("Body") = ErrorFromMeta("Body")
  BY DEF ErrorFromMeta, RequestErrorKinds
<1>3. \A kind : ErrorFromMeta(kind) # Ended
  <2>1. Ended.tag = "end"
    BY DEF Ended, Tagged
  <2>2. QED
    BY <1>1, <2>1
<1>4. BridgeExited # Ended
  BY DEF BridgeExited, Ended, Tagged
<1>5. \A e : AdapterReason(e) \in {"EncodeError", "TransportError"}
  BY DEF AdapterReason
<1>6. AdapterReason(TlsRequestError("Body")) = "EncodeError"
  BY DEF AdapterReason, TlsRequestError
<1>7. QED
  BY <1>2, <1>3, <1>4, <1>5, <1>6 DEF RequestError, Terminals

USE GivensAssumption, HttpBodiesAssumption, SizeAssumption, NoneAssumption

LEMMA InitEstablishes == Init => IInv
<1> SUFFICES ASSUME Init PROVE IInv
  OBVIOUS
<1>1. TypeOK
  <2>1. reader \in [Readers -> [at : {"idle", "reading", "cleanup", "done"}, got : 0 .. Size,
                                result : {None, "whole", "failed", "cut"}]]
    BY DEF Init
  <2>2. \A b \in {buffered, bodyless, signal, listener, headersSeen, cancelled, uploadFailed} :
          b \in BOOLEAN
    BY DEF Init
  <2>3. QED
    BY <2>1, <2>2 DEF Init, TypeOK
<1>2. Forming /\ EndKnown /\ NotYetCounted /\ ToldOnceAndTruly
  BY DEF Init, Forming, EndKnown, NotYetCounted, ToldOnceAndTruly
<1>3. ScopesAgree
  BY DEF Init, ScopesAgree, Live
<1>4. BodyIsWhole
  BY DEF Init, BodyIsWhole
<1>5. QED
  BY <1>1, <1>2, <1>3, <1>4 DEF IInv

(* The steps of the caller after its request is formed. *)
LEMMA CallerSteps ==
  ASSUME IInv, Send \/ Caller
  PROVE  IInv'
<1> USE DEF IInv, Caller, callers, scopes, operation
<1>1. CASE Send
  BY <1>1, Outcomes
  DEF Send, Fails, TypeOK, Forming, ScopesAgree, EndKnown, NotYetCounted, BodyIsWhole,
      ToldOnceAndTruly, Running, Live
<1>2. CASE TakeHeaders
  <2> USE <1>2 DEF TakeHeaders, CancelRunning
  <2>1. TypeOK'
    BY DEF TypeOK
  <2>2. ScopesAgree'
    BY DEF TypeOK, ScopesAgree, Running, Live
  <2>3. Forming' /\ EndKnown' /\ NotYetCounted'
    BY DEF TypeOK, Forming, EndKnown, NotYetCounted, ScopesAgree, Live
  <2>4. BodyIsWhole'
    BY DEF TypeOK, BodyIsWhole, ScopesAgree
  <2>5. ToldOnceAndTruly'
    BY DEF TypeOK, ToldOnceAndTruly, ScopesAgree, NotYetCounted, Running, Live
  <2>6. QED
    BY <2>1, <2>2, <2>3, <2>4, <2>5
<1>3. CASE LateClosed
  BY <1>3, Outcomes
  DEF LateClosed, Count, TypeOK, Forming, ScopesAgree, EndKnown, NotYetCounted, BodyIsWhole,
      ToldOnceAndTruly, Running, Live
<1>4. CASE AnswerFails
  BY <1>4, Outcomes
  DEF AnswerFails, Fails, TypeOK, Forming, ScopesAgree, EndKnown, NotYetCounted, BodyIsWhole,
      ToldOnceAndTruly, Running, Live
<1>5. CASE InterruptCall
  <2> USE <1>5 DEF InterruptCall, CancelRunning, CloseRequestScope
  <2>1. TypeOK'
    BY DEF TypeOK
  <2>2. ScopesAgree'
    BY DEF TypeOK, ScopesAgree, Running, Live
  <2>3. Forming' /\ EndKnown' /\ NotYetCounted'
    BY DEF TypeOK, Forming, EndKnown, NotYetCounted, ScopesAgree, Live
  <2>4. BodyIsWhole'
    BY DEF TypeOK, BodyIsWhole, ScopesAgree
  <2>5. ToldOnceAndTruly'
    BY DEF TypeOK, ToldOnceAndTruly, ScopesAgree, NotYetCounted, Running, Live
  <2>6. QED
    BY <2>1, <2>2, <2>3, <2>4, <2>5
<1>6. CASE Interrupted
  BY <1>6, Outcomes
  DEF Interrupted, Fails, TypeOK, Forming, ScopesAgree, EndKnown, NotYetCounted, BodyIsWhole,
      ToldOnceAndTruly, Running, Live
<1>7. CASE Listen
  <2> USE <1>7 DEF Listen, Answered, CloseRequestScope, CancelRunning
  <2>1. TypeOK'
    BY DEF TypeOK
  <2>2. ScopesAgree'
    BY DEF TypeOK, ScopesAgree, Running, Live
  <2>3. Forming' /\ EndKnown' /\ NotYetCounted'
    BY DEF TypeOK, Forming, EndKnown, NotYetCounted, ScopesAgree, Live
  <2>4. BodyIsWhole'
    BY DEF TypeOK, BodyIsWhole, ScopesAgree
  <2>5. ToldOnceAndTruly'
    BY DEF TypeOK, ToldOnceAndTruly, ScopesAgree, NotYetCounted, Running, Live
  <2>6. QED
    BY <2>1, <2>2, <2>3, <2>4, <2>5
<1>8. CASE Buffered
  BY <1>8, Outcomes
  DEF Buffered, Fails, TypeOK, Forming, ScopesAgree, EndKnown, NotYetCounted, BodyIsWhole,
      ToldOnceAndTruly, Running, Live
<1>9. QED
  BY <1>1, <1>2, <1>3, <1>4, <1>5, <1>6, <1>7, <1>8

(* The steps of a reader of the response. *)
LEMMA ReaderSteps ==
  ASSUME IInv, NEW r \in Readers, Read(r) \/ TakeChunk(r) \/ StreamEnds(r) \/ StopReading(r) \/ ReaderDone(r)
  PROVE  IInv'
<1> USE DEF IInv, callers, scopes, operation
<1>1. CASE Read(r)
  BY <1>1, Outcomes
  DEF Read, TypeOK, Forming, ScopesAgree, EndKnown, NotYetCounted, BodyIsWhole,
      ToldOnceAndTruly, Running, Live
<1>2. CASE TakeChunk(r)
  BY <1>2, Outcomes
  DEF TakeChunk, TypeOK, Forming, ScopesAgree, EndKnown, NotYetCounted, BodyIsWhole,
      ToldOnceAndTruly, Running, Live
<1>3. CASE StreamEnds(r)
  BY <1>3, Outcomes
  DEF StreamEnds, CancelRunning, ResultOf, TypeOK, Forming, ScopesAgree, EndKnown, NotYetCounted, BodyIsWhole,
      ToldOnceAndTruly, Running, Live
<1>4. CASE StopReading(r)
  BY <1>4, Outcomes
  DEF StopReading, CancelRunning, TypeOK, Forming, ScopesAgree, EndKnown, NotYetCounted, BodyIsWhole,
      ToldOnceAndTruly, Running, Live
<1>5. CASE ReaderDone(r)
  <2> USE <1>5 DEF ReaderDone, Count, CloseRequestScope, CancelRunning
  <2>1. TypeOK'
    <3>1. reader' \in [Readers -> [at : {"idle", "reading", "cleanup", "done"}, got : 0 .. Size,
                                   result : {None, "whole", "failed", "cut"}]]
      BY DEF TypeOK
    <3>2. counted' \in Nat /\ rscope' \in {"none", "open", "closing", "closed"}
          /\ listener' \in BOOLEAN /\ cancelled' \in BOOLEAN
      BY DEF TypeOK, Running
    <3>3. QED
      BY <3>1, <3>2 DEF TypeOK
  <2>2. ScopesAgree'
    BY DEF TypeOK, ScopesAgree, Running, Live
  <2>3. Forming' /\ EndKnown' /\ NotYetCounted'
    BY DEF TypeOK, Forming, EndKnown, NotYetCounted, ScopesAgree, Live
  <2>4. BodyIsWhole'
    BY DEF TypeOK, BodyIsWhole, ScopesAgree
  <2>5. ToldOnceAndTruly'
    BY DEF TypeOK, ToldOnceAndTruly, ScopesAgree, NotYetCounted, Running, Live
  <2>6. QED
    BY <2>1, <2>2, <2>3, <2>4, <2>5
<1>6. QED
  BY <1>1, <1>2, <1>3, <1>4, <1>5

(* The steps of those who close the scope of the request. *)
LEMMA CloserSteps ==
  ASSUME IInv, Abort \/ CloseOuter \/ RequestScopeClosed
  PROVE  IInv'
<1> USE DEF IInv, callers, scopes, operation
<1>1. CASE Abort
  <2> USE <1>1 DEF Abort, CloseRequestScope, CancelRunning
  <2>1. TypeOK'
    BY DEF TypeOK
  <2>2. ScopesAgree'
    BY DEF TypeOK, ScopesAgree, Running, Live
  <2>3. Forming' /\ EndKnown' /\ NotYetCounted'
    BY DEF TypeOK, Forming, EndKnown, NotYetCounted, ScopesAgree, Live
  <2>4. BodyIsWhole'
    BY DEF TypeOK, BodyIsWhole, ScopesAgree
  <2>5. ToldOnceAndTruly'
    BY DEF TypeOK, ToldOnceAndTruly, ScopesAgree, NotYetCounted, Running, Live
  <2>6. QED
    BY <2>1, <2>2, <2>3, <2>4, <2>5
<1>2. CASE CloseOuter
  <2> USE <1>2 DEF CloseOuter, CloseRequestScope, CancelRunning, Registered
  <2>1. TypeOK'
    BY DEF TypeOK
  <2>2. ScopesAgree'
    BY DEF TypeOK, ScopesAgree, Running, Live
  <2>3. Forming' /\ EndKnown' /\ NotYetCounted'
    BY DEF TypeOK, Forming, EndKnown, NotYetCounted, ScopesAgree, Live
  <2>4. BodyIsWhole'
    BY DEF TypeOK, BodyIsWhole, ScopesAgree
  <2>5. ToldOnceAndTruly'
    BY DEF TypeOK, ToldOnceAndTruly, ScopesAgree, NotYetCounted, Running, Live
  <2>6. QED
    BY <2>1, <2>2, <2>3, <2>4, <2>5
<1>3. CASE RequestScopeClosed
  <2> USE <1>3 DEF RequestScopeClosed, Count
  <2>1. TypeOK'
    BY DEF TypeOK
  <2>2. ScopesAgree'
    BY DEF TypeOK, ScopesAgree, Running, Live
  <2>3. Forming' /\ EndKnown' /\ NotYetCounted'
    BY DEF TypeOK, Forming, EndKnown, NotYetCounted, ScopesAgree, Live
  <2>4. BodyIsWhole'
    BY DEF TypeOK, BodyIsWhole, ScopesAgree
  <2>5. ToldOnceAndTruly'
    BY DEF TypeOK, ToldOnceAndTruly, ScopesAgree, NotYetCounted, Running, Live
  <2>6. QED
    BY <2>1, <2>2, <2>3, <2>4, <2>5
<1>4. QED
  BY <1>1, <1>2, <1>3

(* The steps of the operation in Go. *)
LEMMA GoSteps ==
  ASSUME IInv, GoHeaders \/ GoChunk \/ GoEnd \/ GoError \/ UploadFails
  PROVE  IInv'
<1> USE DEF IInv, callers, scopes, operation
<1>1. CASE GoHeaders
  BY <1>1, Outcomes
  DEF GoHeaders, TypeOK, Forming, ScopesAgree, EndKnown, NotYetCounted, BodyIsWhole,
      ToldOnceAndTruly, Running, Live
<1>2. CASE GoChunk
  BY <1>2, Outcomes
  DEF GoChunk, TypeOK, Forming, ScopesAgree, EndKnown, NotYetCounted, BodyIsWhole,
      ToldOnceAndTruly, Running, Live
<1>3. CASE GoEnd
  BY <1>3, Outcomes
  DEF GoEnd, TypeOK, Forming, ScopesAgree, EndKnown, NotYetCounted, BodyIsWhole,
      ToldOnceAndTruly, Running, Live
<1>4. CASE GoError
  BY <1>4, Outcomes
  DEF GoError, TypeOK, Forming, ScopesAgree, EndKnown, NotYetCounted, BodyIsWhole,
      ToldOnceAndTruly, Running, Live
<1>5. CASE UploadFails
  BY <1>5, Outcomes
  DEF UploadFails, TypeOK, Forming, ScopesAgree, EndKnown, NotYetCounted, BodyIsWhole,
      ToldOnceAndTruly, Running, Live
<1>6. QED
  BY <1>1, <1>2, <1>3, <1>4, <1>5

(* A request is formed of what the program and the adapter put together.   *)
LEMMA FormStep ==
  ASSUME IInv, NEW given \in Givens, NEW http \in HttpBodies, Form(given, http)
  PROVE  IInv'
<1> USE DEF IInv, Form, scopes, operation
<1>1. Forming'
  BY DEF Forming
<1>2. TypeOK' /\ ScopesAgree'
  BY DEF TypeOK, ScopesAgree, Running, Live
<1>3. EndKnown' /\ NotYetCounted' /\ BodyIsWhole' /\ ToldOnceAndTruly'
  BY DEF EndKnown, NotYetCounted, BodyIsWhole, ToldOnceAndTruly
<1>4. QED
  BY <1>1, <1>2, <1>3

(* IInv is an invariant.                                                   *)
THEOREM Invariance == Spec => []IInv
<1>1. ASSUME IInv, [Next]_vars PROVE IInv'
  <2>1. CASE UNCHANGED vars
    BY <1>1, <2>1 DEF IInv, vars, callers, scopes, operation, TypeOK, Forming, ScopesAgree,
       EndKnown, NotYetCounted, BodyIsWhole, ToldOnceAndTruly, Running, Live
  <2>2. CASE Next
    BY <1>1, <2>2, CallerSteps, ReaderSteps, CloserSteps, GoSteps, FormStep DEF Next
  <2>3. QED
    BY <1>1, <2>1, <2>2
<1>2. QED
  BY <1>1, InitEstablishes, PTL DEF Spec

(* Once the scope of a request has closed, whoever closed it first, nothing *)
(* of the request runs on and nobody listens to its signal.                *)
THEOREM ScopeClosesAll == Spec => []NothingLeft
<1>1. IInv => NothingLeft
  BY DEF IInv, NothingLeft, TypeOK, ScopesAgree, Running, Live
<1>2. QED
  BY <1>1, Invariance, PTL

(* No chunk is lost or handed out twice, and whoever reads to a good end    *)
(* is at the end of a response all of whose chunks were taken, by this      *)
(* reader or by the other.                                                  *)
THEOREM BodiesAreWhole == Spec => []BodyIsWhole
BY Invariance, PTL DEF IInv

(* A request is counted once, and a body that could not be produced is told *)
(* as such and not as the cancel it led to.                                 *)
THEOREM CountedAndTold == Spec => []ToldOnceAndTruly
BY Invariance, PTL DEF IInv

(* RequestForm: normalizeRequest never lets metadata through that deny the *)
(* body, whatever the program declared.                                    *)
LEMMA Normalized ==
  ASSUME NEW given, NEW body, body.size \in Nat,
         body = [kind |-> body.kind, size |-> body.size],
         body.kind = "none" => body.size = 0
  PROVE  Consistent(given, body)
<1> SUFFICES ASSUME Accepted(given, body)
             PROVE  LET meta == Meta(given, body)
                    IN /\ meta.hasBody <=> body # NoBody
                       /\ body.kind \in Sized => meta.contentLength = body.size
                       /\ body.kind = "none" => meta.contentLength \in {Absent, 0}
                       /\ given.length # Absent => meta.contentLength = given.length
  BY DEF Consistent
<1>1. Meta(given, body).hasBody <=> body # NoBody
  <2>1. Meta(given, body).hasBody = (body.kind # "none")
    BY Zenon DEF Meta
  <2>2. body.kind # "none" <=> body # NoBody
    BY DEF NoBody
  <2>3. QED
    BY <2>1, <2>2
<1>2. /\ body.kind \in Sized => Meta(given, body).contentLength = body.size
      /\ body.kind = "none" => Meta(given, body).contentLength \in {Absent, 0}
      /\ given.length # Absent => Meta(given, body).contentLength = given.length
  BY FormAssumption DEF Meta, Or, Accepted, LengthFits, EncodedLength, Sized
<1>3. QED
  BY <1>1, <1>2

(* What is about to be sent is consistent, and the adapter's own bodies are *)
(* never refused for the length the adapter itself gave them.              *)
THEOREM AdapterTellsTheTruth == Spec => []DeclaredIsSent
<1>1. Forming => DeclaredIsSent
  <2> SUFFICES ASSUME call = "formed",
                      NEW given \in Givens, NEW http \in HttpBodies, NEW kind \in KindsOf(http),
                      form = [given |-> WithBodyHeaders(given, http),
                              body |-> [kind |-> IF kind = "unreadable" THEN "other" ELSE kind,
                                        size |-> http.size],
                              http |-> http, asked |-> given]
               PROVE  /\ Consistent(form.given, form.body)
                      /\ (form.body.kind # "other" /\ form.http.contentLength \in {Absent, form.http.size}
                            /\ form.asked.length = Absent /\ form.http.tag # "Empty")
                           => Accepted(form.given, form.body)
    BY DEF Forming, DeclaredIsSent
  <2>1. /\ kind = "none" <=> http.tag = "Empty"
        /\ kind \in {"none", "bytes", "string", "form", "stream", "unreadable"}
    <3>1. http.tag = "Raw" => RawKind[http.raw] \subseteq {"bytes", "string", "form", "stream", "unreadable"}
      BY DEF RawKind
    <3>2. QED
      BY <3>1 DEF KindsOf
  <2>2. Consistent(form.given, form.body)
    <3>1. /\ form.body = [kind |-> form.body.kind, size |-> form.body.size]
          /\ form.body.size \in Nat
          /\ form.body.kind = "none" => form.body.size = 0
      BY <2>1
    <3>2. QED
      BY <3>1, Normalized
  <2>3. ASSUME form.body.kind # "other", http.contentLength \in {Absent, http.size},
               given.length = Absent, http.tag # "Empty"
        PROVE  Accepted(form.given, form.body)
    <3>1. form.given.length \in {Absent, http.size}
      BY <2>3 DEF WithBodyHeaders, Or
    <3>2. form.body.size = http.size /\ form.body.kind # "none"
      BY <2>1, <2>3
    <3>3. QED
      BY <2>3, <3>1, <3>2 DEF Accepted, LengthFits, EncodedLength
  <2>4. QED
    BY <2>2, <2>3
<1>2. QED
  BY <1>1, Invariance, PTL DEF IInv

(* A cookie of Go's jar that goes through the jar of Effect and back is the *)
(* same cookie, in every field, but for an empty path, which becomes "/":  *)
(* milliseconds and seconds, the case of sameSite and the fields that are  *)
(* left out at their default agree in both directions.                     *)
THEOREM CookiesSurvive ==
  ASSUME NEW w,
         w = [domain |-> w.domain, path |-> w.path, expires |-> w.expires, secure |-> w.secure,
              httpOnly |-> w.httpOnly, sameSite |-> w.sameSite],
         w.domain # Absent, w.path # Absent, w.expires \in Int \cup {Absent},
         w.secure \in BOOLEAN, w.httpOnly \in BOOLEAN,
         w.sameSite \in {Absent, "Lax", "Strict", "None"}
  PROVE  ToWire(FromWire(w)) =
           [domain |-> w.domain, path |-> IF w.path = "" THEN Slash ELSE w.path,
            expires |-> w.expires, secure |-> w.secure, httpOnly |-> w.httpOnly,
            sameSite |-> w.sameSite]
<1> USE FormAssumption, CookieAssumption
<1> DEFINE c == FromWire(w)
<1>1. Or(c.domain, "") = w.domain
  BY DEF FromWire, Or, Unless
<1>2. Or(c.path, Slash) = IF w.path = "" THEN Slash ELSE w.path
  BY DEF FromWire, Or, Unless
<1>3. Or(c.secure, FALSE) = w.secure /\ Or(c.httpOnly, FALSE) = w.httpOnly
  <2>1. ASSUME NEW b \in BOOLEAN PROVE Or(Unless(b, FALSE), FALSE) = b
    <3>1. CASE b = FALSE
      BY <3>1 DEF Or, Unless
    <3>2. CASE b = TRUE
      BY <3>2 DEF Or, Unless
    <3>3. QED
      BY <3>1, <3>2
  <2>2. c.secure = Unless(w.secure, FALSE) /\ c.httpOnly = Unless(w.httpOnly, FALSE)
    BY DEF FromWire
  <2>3. QED
    BY <2>1, <2>2
<1>4. (IF c.expires = Absent THEN Absent ELSE c.expires \div 1000) = w.expires
  <2>1. ASSUME NEW e \in Int PROVE (e * 1000) \div 1000 = e /\ e * 1000 # Absent
    OBVIOUS
  <2>2. QED
    BY <2>1 DEF FromWire
<1>5. (IF c.sameSite = Absent THEN Absent ELSE Upper[c.sameSite]) = w.sameSite
  <2>1. CASE w.sameSite = Absent
    BY <2>1 DEF FromWire
  <2>2. CASE w.sameSite = "Lax"
    <3>1. c.sameSite = "lax"
      BY <2>2 DEF FromWire, Lower
    <3>2. QED
      BY <2>2, <3>1 DEF Upper
  <2>3. CASE w.sameSite = "Strict"
    <3>1. c.sameSite = "strict"
      BY <2>3 DEF FromWire, Lower
    <3>2. QED
      BY <2>3, <3>1 DEF Upper
  <2>4. CASE w.sameSite = "None"
    <3>1. c.sameSite = "none"
      BY <2>4 DEF FromWire, Lower
    <3>2. QED
      BY <2>4, <3>1 DEF Upper
  <2>5. QED
    BY <2>1, <2>2, <2>3, <2>4
<1> DEFINE expires == IF c.expires = Absent THEN Absent ELSE c.expires \div 1000
           sameSite == IF c.sameSite = Absent THEN Absent ELSE Upper[c.sameSite]
           path == IF w.path = "" THEN Slash ELSE w.path
<1>6. ToWire(c) =
        [domain |-> Or(c.domain, ""), path |-> Or(c.path, Slash), expires |-> expires,
         secure |-> Or(c.secure, FALSE), httpOnly |-> Or(c.httpOnly, FALSE),
         sameSite |-> sameSite]
  BY DEF ToWire
<1>7. /\ Or(c.path, Slash) = path /\ expires = w.expires /\ sameSite = w.sameSite
  BY <1>2, <1>4, <1>5
<1> HIDE DEF c, expires, sameSite, path
<1>8. ToWire(c) =
        [domain |-> w.domain, path |-> path, expires |-> w.expires, secure |-> w.secure,
         httpOnly |-> w.httpOnly, sameSite |-> w.sameSite]
  BY <1>1, <1>3, <1>6, <1>7, Zenon
<1>9. QED
  BY <1>8 DEF c, path
=============================================================================
