--------------------------- MODULE BoundedChannel ---------------------------
(***************************************************************************)
(* What flow control promises of one operation: between the moment the     *)
(* producer emits a byte and the moment the consumer pulls it the byte is  *)
(* buffered, and at most Capacity bytes are buffered at any time           *)
(* (docs/design/03-protocol.md, invariant 6).                              *)
(***************************************************************************)
EXTENDS Naturals

CONSTANT Capacity

VARIABLE buffered     \* bytes emitted and not yet pulled

Init == buffered = 0

Put == \E n \in 1 .. (Capacity - buffered) : buffered' = buffered + n

Get == \E n \in 1 .. buffered : buffered' = buffered - n

Next == Put \/ Get

Spec == Init /\ [][Next]_buffered
=============================================================================
