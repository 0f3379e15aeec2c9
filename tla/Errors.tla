------------------------------- MODULE Errors -------------------------------
(***************************************************************************)
(* What becomes of an error on its way up: the kind in Go's error frame,   *)
(* the error of the Bridge (errorFromMeta and handleErrorFrame in          *)
(* internal/Bridge.ts, internal/Errors.ts), and the one the HTTP adapter   *)
(* reports.                                                                *)
(***************************************************************************)

RequestErrorKinds ==
  {"InvalidConfig", "InvalidUrl", "Dns", "Connect", "Tls", "Proxy", "Timeout",
   "Cancelled", "Http", "Body", "Pinning", "Unknown"}

isTransientRequestKind(kind) == kind \in {"Dns", "Connect", "Timeout", "Proxy"}

TlsRequestError(kind) ==
  [tag |-> "TlsRequestError", kind |-> kind, transient |-> isTransientRequestKind(kind)]

Tagged(tag, kind) == [tag |-> tag, kind |-> kind, transient |-> FALSE]

\* The end of the process fails whatever is pending with this.
BridgeExited == Tagged("BridgeExited", "")

ErrorFromMeta(kind) ==
  CASE kind \in RequestErrorKinds -> TlsRequestError(kind)
    [] kind = "SessionConfig" -> Tagged("SessionConfigError", "")
    [] kind = "SessionNotFound" -> Tagged("SessionNotFound", "")
    [] kind = "WsHandshake" -> Tagged("TlsWebSocketError", "Handshake")
    [] kind = "WsRead" -> Tagged("TlsWebSocketError", "Read")
    [] kind = "WsWrite" -> Tagged("TlsWebSocketError", "Write")
    [] OTHER -> Tagged("BridgeProtocolError", "")

\* handleErrorFrame for a request: a body whose producer failed before the
\* headers came is the error, whatever Go says of the cancel it was sent.
\* Faulty form: Go's word is taken.
RequestErrorFromGo(kind, headersSeen, uploadFailed) == ErrorFromMeta(kind)

RequestError(kind, headersSeen, uploadFailed) ==
  IF uploadFailed /\ ~headersSeen THEN TlsRequestError("Body") ELSE ErrorFromMeta(kind)

\* handleErrorFrame for a WebSocket: a cancel is a close from this side.
SocketOperationError(kind) ==
  IF kind = "Cancelled" THEN Tagged("TlsWebSocketError", "Closed") ELSE ErrorFromMeta(kind)

\* socketError: the reason a socket reports, by the phase the error met it in.
SocketReason(phase, error) ==
  IF error.tag # "TlsWebSocketError" THEN phase
  ELSE CASE error.kind = "Closed" -> "close"
         [] error.kind = "Read" -> "read"
         [] error.kind = "Write" -> "write"
         [] error.kind = "Handshake" -> "open"

\* The adapter: a body that could not be produced is the caller's error.
AdapterReason(error) ==
  IF error.tag = "TlsRequestError" /\ error.kind = "Body" THEN "EncodeError" ELSE "TransportError"
=============================================================================
