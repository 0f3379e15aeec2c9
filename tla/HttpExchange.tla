---------------------------- MODULE HttpExchange ----------------------------
(***************************************************************************)
(* One request through the HTTP adapter (TlsHttpClient.ts) and the client  *)
(* (requestWith and responseFrom in TlsClient.ts) down to bridge.request.  *)
(* Around one operation of the Bridge meet the caller's fibre, the signal  *)
(* that aborts it, the scope it runs in, the scope forked for the request, *)
(* and the fibres that read the response.                                  *)
(*                                                                         *)
(* A fibre that waits for headers can be aborted while it waits; between   *)
(* the answer and the return to the caller lie two more points where others*)
(* may step in: the end of the race with the signal, and the close of a    *)
(* scope that has closed before.  The terminal frame, its metric and the   *)
(* finalizers that need not wait for it are one step.                      *)
(***************************************************************************)
EXTENDS RequestForm, Errors

CONSTANTS Givens,     \* the headers (and method) a program may give
          HttpBodies, \* the bodies it may give
          GoKinds,    \* the kinds of error Go may answer with
          Size,       \* the chunks of the response
          None

ASSUME GivensAssumption ==
  \A given \in Givens :
    given = [length |-> given.length, type |-> given.type, method |-> given.method]

ASSUME HttpBodiesAssumption ==
  \A http \in HttpBodies :
    /\ http.tag \in {"Empty", "Uint8Array", "FormData", "Stream", "Raw"}
    /\ http.tag = "Raw" => http.raw \in DOMAIN RawKind
    /\ http.size \in Nat
    /\ http.tag = "Empty" => http.size = 0

ASSUME SizeAssumption == Size \in Nat

VARIABLES call,      \* the caller: "start", "formed", "awaiting", "interrupting",
                     \* "late", "answered", "abandoning", "buffering", "returned", "failed"
          form,      \* [given, body, kind]: the request between two steps of it
          buffered,  \* responseMode is not "stream"
          bodyless,  \* HEAD, 204, 205 or 304
          failure,   \* the reason the call failed with
          signal, listener, \* it is aborted; "abort" is listened to
          outer,     \* the fibre's Scope: "none", "open", "closed"
          rscope,    \* requestScope: "none", "open", "closing", "closed"
          op,        \* the operation in Go: "none", "asked", "headers", "over"
          headersSeen, cancelled, uploadFailed,
          produced, queue, \* chunks Go has sent, and those nobody has taken
          end,       \* the terminal frame: None, Ended or an error
          reader,    \* "body" (the cached accessors) and "stream": [at, got, result]
          counted    \* how often the request was counted in the metric

callers == <<call, form, buffered, bodyless, failure>>
scopes == <<signal, listener, outer, rscope>>
operation == <<op, headersSeen, cancelled, uploadFailed, produced, queue, end>>
vars == <<callers, scopes, operation, reader, counted>>

Ended == Tagged("end", "")
ASSUME NoneAssumption == None # Ended /\ None \notin {"whole", "failed", "cut", "interrupt"}

Readers == {"body", "stream"}

Init ==
  /\ call = "start" /\ form = None /\ failure = None
  /\ buffered \in BOOLEAN /\ bodyless \in BOOLEAN
  /\ signal = FALSE /\ listener = FALSE /\ outer \in {"none", "open"} /\ rscope = "none"
  /\ op = "none" /\ headersSeen = FALSE /\ cancelled = FALSE /\ uploadFailed = FALSE
  /\ produced = 0 /\ queue = 0 /\ end = None
  /\ reader = [r \in Readers |-> [at |-> "idle", got |-> 0, result |-> None]]
  /\ counted = 0

Running == op \in {"asked", "headers"}

\* Faulty form: every close counts the request again.
CountAlways == counted' = counted + 1

\* The taps of `end`, which is cached: they run for the first who waits for it.
Count == counted' = IF counted = 0 THEN 1 ELSE counted

\* sendCancel of cleanup, which then waits for the terminal frame.
CancelRunning == cancelled' = (cancelled \/ Running)

\* Scope.close of requestScope: its finalizers run once, the listener's first;
\* the one of the response waits for the operation.  Before the response has
\* registered it there is none.
CloseRequestScope(registered) ==
  IF rscope # "open" THEN UNCHANGED <<rscope, listener, cancelled>>
  ELSE /\ rscope' = IF registered THEN "closing" ELSE "closed"
       /\ listener' = FALSE
       /\ IF registered THEN CancelRunning ELSE UNCHANGED cancelled

Fails(reason) == call' = "failed" /\ failure' = reason

-----------------------------------------------------------------------------
(* The caller. *)

\* bodyFromHttpBody, withBodyHeaders, and normalizeRequest in session.request,
\* whose refusals are TlsRequestErrors of kind Body or InvalidConfig.
Form(given, http) ==
  /\ call = "start"
  /\ \E kind \in KindsOf(http) :
       LET body == [kind |-> IF kind = "unreadable" THEN "other" ELSE kind, size |-> http.size]
       IN form' = [given |-> WithBodyHeaders(given, http), body |-> body, http |-> http,
                   asked |-> given]
  /\ call' = "formed"
  /\ UNCHANGED <<buffered, bodyless, failure, scopes, operation, reader, counted>>

Send ==
  /\ call = "formed"
  /\ form' = None
  /\ \/ /\ form.body.kind = "other"
        /\ Fails(AdapterReason(TlsRequestError("Body")))
        /\ UNCHANGED <<rscope, op>>
     \/ /\ form.body.kind # "other" /\ outer = "none"
        /\ Fails("TransportError") /\ UNCHANGED <<rscope, op>>
     \/ /\ form.body.kind # "other" /\ outer # "none" /\ signal
        /\ Fails("interrupt") /\ rscope' = "closed" /\ UNCHANGED op
     \/ /\ form.body.kind # "other" /\ outer # "none" /\ ~signal
        /\ ~Accepted(form.given, form.body)
        /\ Fails(AdapterReason(TlsRequestError("InvalidConfig")))
        /\ rscope' = "closed" /\ UNCHANGED op
     \/ /\ Accepted(form.given, form.body) /\ outer # "none" /\ ~signal
        /\ call' = "awaiting" /\ UNCHANGED failure
        /\ rscope' = outer /\ op' = "asked"
  /\ UNCHANGED <<buffered, bodyless, signal, listener, outer, headersSeen, cancelled,
                 uploadFailed, produced, queue, end, reader, counted>>

\* Faulty form: a scope that has closed meanwhile is not looked at.
TakeHeadersAnyway ==
  /\ call = "awaiting" /\ headersSeen
  /\ call' = "answered"
  /\ UNCHANGED <<form, buffered, bodyless, failure, scopes, operation, reader, counted>>

\* responseFrom and the finalizer that closes the response, which runs on the
\* spot when requestScope is closed already.
TakeHeaders ==
  /\ call = "awaiting" /\ headersSeen
  /\ IF rscope = "open" THEN call' = "answered" /\ UNCHANGED cancelled
                        ELSE call' = "late" /\ CancelRunning
  /\ UNCHANGED <<form, buffered, bodyless, failure, scopes, op, headersSeen,
                 uploadFailed, produced, queue, end, reader, counted>>

LateClosed ==
  /\ call = "late" /\ op = "over"
  /\ call' = "answered" /\ Count
  /\ UNCHANGED <<form, buffered, bodyless, failure, scopes, operation, reader>>

AnswerFails ==
  /\ call = "awaiting" /\ ~headersSeen /\ op = "over"
  /\ Fails(AdapterReason(end)) /\ rscope' = "closed"
  /\ counted' = counted + 1
  /\ UNCHANGED <<form, buffered, bodyless, signal, listener, outer, operation, reader>>

\* The signal wins the race: before the headers the cleanup of bridge.request
\* cancels, after them the close of requestScope does.
InterruptCall ==
  /\ signal
  /\ \/ /\ call = "awaiting" /\ call' = "interrupting"
        /\ CancelRunning /\ UNCHANGED <<rscope, listener>>
     \/ /\ call = "answered" /\ call' = "abandoning"
        /\ CloseRequestScope(TRUE)
  /\ UNCHANGED <<form, buffered, bodyless, failure, signal, outer, op, headersSeen,
                 uploadFailed, produced, queue, end, reader, counted>>

Interrupted ==
  /\ \/ call = "interrupting" /\ op = "over" /\ rscope' = "closed"
     \/ call = "abandoning" /\ UNCHANGED rscope
  /\ Fails("interrupt")
  /\ UNCHANGED <<form, buffered, bodyless, signal, listener, outer, operation, reader, counted>>

Answered ==
  /\ call = "answered"
  /\ call' = IF buffered THEN "buffering" ELSE "returned"
  /\ UNCHANGED <<form, buffered, bodyless, failure, signal, outer, op, headersSeen,
                 uploadFailed, produced, queue, end, counted>>

\* Faulty form: the signal is not asked again after the listener is there.
ListenOnly ==
  /\ Answered
  /\ listener' = (rscope = "open") /\ UNCHANGED <<rscope, cancelled>>
  /\ reader' = IF buffered THEN [reader EXCEPT !["body"].at = "reading"] ELSE reader

\* The listener, its finalizer, and the abort that came before it was there;
\* then a buffered response is read by the call itself.
Listen ==
  /\ Answered
  /\ IF signal THEN CloseRequestScope(TRUE)
     ELSE listener' = (rscope = "open") /\ UNCHANGED <<rscope, cancelled>>
  /\ reader' = IF buffered THEN [reader EXCEPT !["body"].at = "reading"] ELSE reader

Buffered ==
  /\ call = "buffering" /\ reader["body"].at = "done"
  /\ IF reader["body"].result = "whole" THEN call' = "returned" /\ UNCHANGED failure
     ELSE Fails(IF reader["body"].result = "cut" THEN "interrupt" ELSE "DecodeError")
  /\ UNCHANGED <<form, buffered, bodyless, scopes, operation, reader, counted>>

-----------------------------------------------------------------------------
(* The readers of the response. *)

Read(r) ==
  /\ call = "returned" /\ reader[r].at = "idle"
  /\ reader' = [reader EXCEPT ![r].at = "reading"]
  /\ UNCHANGED <<callers, scopes, operation, counted>>

TakeChunk(r) ==
  /\ reader[r].at = "reading" /\ ~bodyless /\ queue > 0
  /\ queue' = queue - 1
  /\ reader' = [reader EXCEPT ![r].got = @ + 1]
  /\ UNCHANGED <<callers, scopes, op, headersSeen, cancelled, uploadFailed, produced, end, counted>>

\* Faulty form: an error ends the body like an end.
ResultOfAnyEnd(r) == "whole"

ResultOf(r) ==
  IF bodyless THEN IF r = "body" THEN "whole" ELSE "failed"
  ELSE IF end = Ended THEN "whole" ELSE "failed"

\* The stream ends, or, without a body, fails at once; an accessor makes an
\* empty body of that.  Its finalizers begin with the cancel of cleanup.
StreamEnds(r) ==
  /\ reader[r].at = "reading"
  /\ bodyless \/ (queue = 0 /\ op = "over")
  /\ reader' = [reader EXCEPT ![r].at = "cleanup", ![r].result = ResultOf(r)]
  /\ CancelRunning
  /\ UNCHANGED <<callers, scopes, op, headersSeen, uploadFailed, produced, queue, end, counted>>

\* interruptWhen(awaitAbort), or an interrupt of the fibre that reads.
StopReading(r) ==
  /\ reader[r].at = "reading"
  /\ reader' = [reader EXCEPT ![r].at = "cleanup", ![r].result = "cut"]
  /\ CancelRunning
  /\ UNCHANGED <<callers, scopes, op, headersSeen, uploadFailed, produced, queue, end, counted>>

\* The rest of the finalizers: `end`, source.close and closeScope.
ReaderDone(r) ==
  /\ reader[r].at = "cleanup" /\ op = "over"
  /\ reader' = [reader EXCEPT ![r].at = "done"]
  /\ Count
  /\ CloseRequestScope(TRUE)
  /\ UNCHANGED <<callers, signal, outer, op, headersSeen, uploadFailed, produced, queue, end>>

-----------------------------------------------------------------------------
(* Those who close. *)

Registered == call \in {"answered", "buffering", "returned"}

\* Its listener forks the close of requestScope.
Abort ==
  /\ ~signal /\ call # "start"
  /\ signal' = TRUE
  /\ IF listener THEN CloseRequestScope(TRUE) ELSE UNCHANGED <<rscope, listener, cancelled>>
  /\ UNCHANGED <<callers, outer, op, headersSeen, uploadFailed, produced, queue, end, reader, counted>>

\* The scope closes with the one forked from it.
CloseOuter ==
  /\ outer = "open" /\ call # "start"
  /\ outer' = "closed"
  /\ CloseRequestScope(Registered)
  /\ UNCHANGED <<callers, signal, op, headersSeen, uploadFailed, produced, queue, end, reader, counted>>

RequestScopeClosed ==
  /\ rscope = "closing" /\ op = "over"
  /\ rscope' = "closed" /\ Count
  /\ UNCHANGED <<callers, signal, listener, outer, operation, reader>>

-----------------------------------------------------------------------------
(* The operation in Go (BridgeClient and Dispatcher have it in detail). *)

GoHeaders ==
  /\ op = "asked"
  /\ op' = "headers" /\ headersSeen' = TRUE
  /\ UNCHANGED <<callers, scopes, cancelled, uploadFailed, produced, queue, end, reader, counted>>

GoChunk ==
  /\ op = "headers" /\ ~bodyless /\ produced < Size
  /\ produced' = produced + 1 /\ queue' = queue + 1
  /\ UNCHANGED <<callers, scopes, op, headersSeen, cancelled, uploadFailed, end, reader, counted>>

GoEnd ==
  /\ op = "headers" /\ (bodyless \/ produced = Size)
  /\ op' = "over" /\ end' = Ended
  /\ UNCHANGED <<callers, scopes, headersSeen, cancelled, uploadFailed, produced, queue, reader, counted>>

\* An error frame, or the death of the Bridge.
GoError ==
  /\ Running
  /\ op' = "over"
  /\ end' \in {RequestError(kind, headersSeen, uploadFailed) : kind \in GoKinds} \cup {BridgeExited}
  /\ UNCHANGED <<callers, scopes, headersSeen, cancelled, uploadFailed, produced, queue, reader, counted>>

\* The producer of the request's body fails: the upload cancels.
UploadFails ==
  /\ op = "asked" /\ ~uploadFailed
  /\ uploadFailed' = TRUE /\ cancelled' = TRUE
  /\ UNCHANGED <<callers, scopes, op, headersSeen, produced, queue, end, reader, counted>>

-----------------------------------------------------------------------------
Caller == TakeHeaders \/ LateClosed \/ AnswerFails \/ InterruptCall \/ Interrupted
          \/ Listen \/ Buffered

Next ==
  \/ \E given \in Givens, http \in HttpBodies : Form(given, http)
  \/ Send \/ Caller
  \/ \E r \in Readers : Read(r) \/ TakeChunk(r) \/ StreamEnds(r) \/ StopReading(r) \/ ReaderDone(r)
  \/ Abort \/ CloseOuter \/ RequestScopeClosed
  \/ GoHeaders \/ GoChunk \/ GoEnd \/ GoError \/ UploadFails

\* Fibres that are ready run, and Go ends an operation it was told to cancel.
\* Nobody need read a response, abort it or close its scope, and a server may
\* be silent.
Spec ==
  /\ Init /\ [][Next]_vars
  /\ WF_vars(Caller) /\ WF_vars(RequestScopeClosed) /\ WF_vars(cancelled /\ GoError)
  /\ \A r \in Readers : WF_vars(StreamEnds(r)) /\ WF_vars(ReaderDone(r))

-----------------------------------------------------------------------------
Terminals == {Ended} \cup {ErrorFromMeta(kind) : kind \in GoKinds \cup {"Body"}} \cup {BridgeExited}

TypeOK ==
  /\ call \in {"start", "formed", "awaiting", "interrupting", "late", "answered",
               "abandoning", "buffering", "returned", "failed"}
  /\ failure \in {None, "EncodeError", "TransportError", "DecodeError", "interrupt"}
  /\ outer \in {"none", "open", "closed"} /\ rscope \in {"none", "open", "closing", "closed"}
  /\ op \in {"none", "asked", "headers", "over"}
  /\ \A b \in {buffered, bodyless, signal, listener, headersSeen, cancelled, uploadFailed} :
       b \in BOOLEAN
  /\ produced \in 0 .. Size /\ queue \in 0 .. Size /\ counted \in Nat
  /\ end = None \/ end \in Terminals
  /\ reader \in [Readers -> [at : {"idle", "reading", "cleanup", "done"}, got : 0 .. Size,
                             result : {None, "whole", "failed", "cut"}]]

\* Once the scope of a request has closed, by whichever of the abort, the
\* outer scope, a reader or the failure of the call came first, its operation
\* is over and nobody listens to the signal any more.
NothingLeft ==
  /\ TypeOK
  /\ (rscope = "closed" /\ call \in {"answered", "buffering", "returned", "failed"})
       => ~Running /\ ~listener
  /\ call = "failed" => ~listener /\ (Running => rscope = "closing")

\* No chunk is lost, made up or handed out twice, and a reader that succeeds
\* does so on the end of a response all of whose chunks were taken.
BodyIsWhole ==
  /\ produced = queue + reader["body"].got + reader["stream"].got
  /\ \A r \in Readers : (reader[r].result = "whole" /\ ~bodyless) =>
       end = Ended /\ produced = Size /\ queue = 0

\* A request is counted once however often and by whomever its end is asked
\* for, an answered one by the time its scope is closed; and a body that could
\* not be produced is reported as such, not as the cancel it led to.
ToldOnceAndTruly ==
  /\ counted <= 1
  /\ (headersSeen /\ rscope = "closed" /\ call \in {"answered", "buffering", "returned"})
       => counted = 1
  /\ (call = "failed" /\ failure # "interrupt" /\ op = "over" /\ ~headersSeen) =>
       /\ counted = 1
       /\ (uploadFailed /\ end # BridgeExited) => failure = "EncodeError"

\* What is about to be sent is consistent, and a body of the adapter whose own
\* length is right is never refused unless the program's headers say otherwise.
DeclaredIsSent ==
  call = "formed" =>
    /\ Consistent(form.given, form.body)
    /\ (form.body.kind # "other" /\ form.http.contentLength \in {Absent, form.http.size}
          /\ form.asked.length = Absent /\ form.http.tag # "Empty")
       => Accepted(form.given, form.body)

\* An abort ends the operation whenever it comes, and so does the close of the
\* scope of a request that has been answered.
AbortEnds ==
  /\ signal ~> ~Running
  /\ (outer = "closed" /\ headersSeen) ~> ~Running
=============================================================================
