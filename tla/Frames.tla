------------------------------- MODULE Frames -------------------------------
(***************************************************************************)
(* internal/Frame.ts: how a frame becomes bytes and how bytes that come in *)
(* chunks of any size become frames again.                                 *)
(*                                                                         *)
(* A byte is a number below Base.  The length prefix has two of them, so   *)
(* that a chunk can end inside it, and kind, id and metadataLength one     *)
(* each; the code has 4, 1, 4 and 4 bytes of base 256.  Metadata is bytes  *)
(* already: JSON and UTF-8 are left out.                                   *)
(***************************************************************************)
EXTENDS Naturals, Sequences

CONSTANTS Base,               \* a byte is a number in 0 .. Base - 1
          FrameKinds,         \* the kinds of FrameKind, a set of bytes
          MAX_FRAME_LENGTH,
          Malformed           \* what decoding gives instead of a frame

ASSUME FrameAssumption ==
  /\ Base \in Nat \ {0, 1}
  /\ FrameKinds \subseteq 0 .. Base - 1
  /\ MAX_FRAME_LENGTH \in Nat
  /\ MAX_FRAME_LENGTH < Base * Base

Byte == 0 .. Base - 1
LENGTH_PREFIX == 2
FIXED_HEADER_LENGTH == 1 + 1 + 1

\* What encodeFrame throws at instead of encoding.
Encodable(f) ==
  /\ f.kind \in FrameKinds
  /\ f.id \in Byte
  /\ FIXED_HEADER_LENGTH + Len(f.meta) + Len(f.body) <= MAX_FRAME_LENGTH

LengthBytes(n) == <<n \div Base, n % Base>>

Encode(f) ==
  LengthBytes(FIXED_HEADER_LENGTH + Len(f.meta) + Len(f.body))
    \o <<f.kind, f.id, Len(f.meta)>> \o f.meta \o f.body

\* The number in the length prefix that begins after `offset` bytes.
LengthAt(bytes, offset) == bytes[offset + 1] * Base + bytes[offset + 2]

\* Faulty form: the largest frame is refused.
BadLengthAtLimit(n) == n >= MAX_FRAME_LENGTH \/ n < FIXED_HEADER_LENGTH

BadLength(n) == n > MAX_FRAME_LENGTH \/ n < FIXED_HEADER_LENGTH

\* decodeFrameView: the bytes of exactly one frame.
FrameView(bytes) ==
  IF \/ Len(bytes) < LENGTH_PREFIX + FIXED_HEADER_LENGTH
     \/ BadLength(LengthAt(bytes, 0))
     \/ Len(bytes) # LENGTH_PREFIX + LengthAt(bytes, 0)
     \/ bytes[3] \notin FrameKinds
     \/ bytes[5] > LengthAt(bytes, 0) - FIXED_HEADER_LENGTH
  THEN Malformed
  ELSE [kind |-> bytes[3], id |-> bytes[4],
        meta |-> SubSeq(bytes, 6, 5 + bytes[5]),
        body |-> SubSeq(bytes, 6 + bytes[5], Len(bytes))]

\* FrameDecoder.push: the frames that `chunk` completes and what is kept for
\* the next one.  A malformed frame makes the whole call throw: the frames
\* before it in the same chunk are lost and the buffer stays as it was.
Push(buffer, chunk) ==
  LET merged == buffer \o chunk
      thrown == [frames |-> <<>>, buffer |-> buffer, threw |-> TRUE]
      scan[offset \in 0 .. Len(merged)] ==
        LET left == Len(merged) - offset
            total == LENGTH_PREFIX + LengthAt(merged, offset)
            kept == [frames |-> <<>>, threw |-> FALSE,
                     buffer |-> SubSeq(merged, offset + 1, Len(merged))]
            frame == FrameView(SubSeq(merged, offset + 1, offset + total))
            rest == scan[offset + total]
        IN CASE left < LENGTH_PREFIX -> kept
             [] left >= LENGTH_PREFIX /\ BadLength(total - LENGTH_PREFIX) -> thrown
             [] OTHER -> IF left < total THEN kept
                         ELSE IF frame = Malformed \/ rest.threw THEN thrown
                         ELSE [rest EXCEPT !.frames = <<frame>> \o @]
  IN IF chunk = <<>> THEN [frames |-> <<>>, buffer |-> buffer, threw |-> FALSE]
     ELSE scan[0]

\* FrameDecoder.finish: the stream ended between two frames.
Finished(buffer) == buffer = <<>>
=============================================================================
