--------------------------- MODULE MCHttpExchange ---------------------------
(* HttpExchange for TLC: a response of two chunks; requests of every kind of
   body, with headers that are absent, right, wrong or no number.          *)
EXTENDS HttpExchange

Given(length) == [length |-> length, type |-> Absent, method |-> Absent]
MCGivens == {Given(length) : length \in {Absent, 0, 2, 3, NotANumber}}

Http(tag, raw, size, length) ==
  [tag |-> tag, raw |-> raw, size |-> size, contentLength |-> length, contentType |-> Absent]

MCHttpBodies ==
  {Http("Empty", Absent, 0, Absent), Http("FormData", Absent, 2, Absent),
   Http("Uint8Array", Absent, 2, 2)}
  \cup {Http("Stream", Absent, 2, length) : length \in {Absent, 2}}
  \cup {Http("Raw", raw, 2, length) : raw \in DOMAIN RawKind, length \in {Absent, 2, 3}}
=============================================================================
