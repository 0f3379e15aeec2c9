----------------------------- MODULE RequestForm -----------------------------
(***************************************************************************)
(* What a request says of itself before a byte is sent: the adapter turns  *)
(* an HttpBody and headers into a request of the client (TlsHttpClient.ts) *)
(* and normalizeRequest turns that into the metadata Go is sent            *)
(* (TlsClient.ts); cookies change form on the way in and out.  Texts are   *)
(* abstracted to what decides: a header is the first one of its name.      *)
(***************************************************************************)
EXTENDS Integers

CONSTANTS Absent,     \* undefined
          NotANumber, \* a content-length that is no safe integer
          TextPlain, Multipart \* the content types a body may bring along

ASSUME FormAssumption == Absent \notin Int /\ NotANumber \notin Int /\ Absent # NotANumber

\* A body of the client: its kind and, where it has one, its size.
Sized == {"bytes", "string", "form"}
NoBody == [kind |-> "none", size |-> 0]

\* encodeBody: the length and the content type a body has by itself.
EncodedLength(body) == IF body.kind \in Sized THEN body.size ELSE Absent

EncodedType(body) ==
  CASE body.kind = "string" -> TextPlain
    [] body.kind = "form" -> Multipart
    [] OTHER -> Absent

Or(value, default) == IF value = Absent THEN default ELSE value

\* Whether normalizeRequest takes a declared content-length for this body.
\* Faulty form: whatever is declared is taken if it is a length.
LengthFitsAny(declared, body) == declared = Absent \/ declared \in Nat

LengthFits(declared, body) ==
  \/ declared = Absent
  \/ /\ declared \in Nat
     /\ body.kind = "none" => declared = 0
     /\ EncodedLength(body) \in {Absent, declared}

Accepted(given, body) == body.kind # "other" /\ LengthFits(given.length, body)

\* normalizeRequest, for headers and a body it accepts.
Meta(given, body) ==
  [hasBody |-> body.kind # "none",
   contentLength |-> Or(given.length, EncodedLength(body)),
   contentType |-> Or(given.type, EncodedType(body)),
   method |-> Or(given.method, IF body.kind = "none" THEN "GET" ELSE "POST")]

-----------------------------------------------------------------------------
(* The adapter. *)

\* bodyFromRaw by what the raw value is; a Blob is read first and may fail.
RawKind ==
  [bytes |-> {"bytes"}, view |-> {"bytes"}, string |-> {"string"},
   params |-> {"string"}, form |-> {"form"}, readable |-> {"stream"},
   blob |-> {"bytes", "unreadable"}, object |-> {"unreadable"}]

\* bodyFromHttpBody: the kinds of body an HttpBody may become.
KindsOf(http) ==
  CASE http.tag = "Empty" -> {"none"}
    [] http.tag = "Uint8Array" -> {"bytes"}
    [] http.tag = "FormData" -> {"form"}
    [] http.tag = "Stream" -> {"stream"}
    [] http.tag = "Raw" -> RawKind[http.raw]

\* withBodyHeaders: what the body says counts unless a header says it.
WithBodyHeaders(given, http) ==
  IF http.tag \in {"Empty", "FormData"} THEN given
  ELSE [given EXCEPT !.type = Or(@, http.contentType),
                     !.length = Or(@, http.contentLength)]

-----------------------------------------------------------------------------
(* Cookies.  The jar of Effect has milliseconds and leaves out what is at  *)
(* its default; the wire has seconds and every field.                      *)

Lower == [Lax |-> "lax", Strict |-> "strict", None |-> "none"]
Upper == [lax |-> "Lax", strict |-> "Strict", none |-> "None"]
Slash == "/"

ASSUME CookieAssumption ==
  /\ Absent \notin {"lax", "strict", "none", "Lax", "Strict", "None"}
  /\ Absent \notin BOOLEAN

\* toWireCookie.
ToWire(c) ==
  [domain |-> Or(c.domain, ""), path |-> Or(c.path, Slash),
   expires |-> IF c.expires = Absent THEN Absent ELSE c.expires \div 1000,
   secure |-> Or(c.secure, FALSE), httpOnly |-> Or(c.httpOnly, FALSE),
   sameSite |-> IF c.sameSite = Absent THEN Absent ELSE Upper[c.sameSite]]

\* normalizeCookies for cookies that are given one by one: their expiry is in
\* seconds already and sameSite has the case of the wire.
InputToWire(c) ==
  [domain |-> Or(c.domain, ""), path |-> Or(c.path, Slash), expires |-> c.expires,
   secure |-> Or(c.secure, FALSE), httpOnly |-> Or(c.httpOnly, FALSE),
   sameSite |-> c.sameSite]

Unless(value, default) == IF value = default THEN Absent ELSE value

\* cookiesFromWire; the origin of a wire cookie has no place in the jar.
FromWire(w) ==
  [domain |-> Unless(w.domain, ""), path |-> Unless(w.path, ""),
   expires |-> IF w.expires = Absent THEN Absent ELSE w.expires * 1000,
   secure |-> Unless(w.secure, FALSE), httpOnly |-> Unless(w.httpOnly, FALSE),
   sameSite |-> IF w.sameSite = Absent THEN Absent ELSE Lower[w.sameSite]]

-----------------------------------------------------------------------------
\* An accepted request tells Go the truth: it has a body when it says so, the
\* length it declares is the length of the body wherever that is known before
\* it is sent, and one without a body declares none or zero.
Consistent(given, body) ==
  Accepted(given, body) =>
    LET meta == Meta(given, body)
    IN /\ meta.hasBody <=> body # NoBody
       /\ body.kind \in Sized => meta.contentLength = body.size
       /\ body.kind = "none" => meta.contentLength \in {Absent, 0}
       /\ given.length # Absent => meta.contentLength = given.length
=============================================================================
