---------------------------- MODULE ProtocolProofs ----------------------------
(***************************************************************************)
(* Theorems about what docs/03-protocol.md promises.                       *)
(*                                                                         *)
(* Frames come out of a decoder as they went into the encoder, however the *)
(* bytes between are cut (Frames, and the start of the Bridge service in   *)
(* BridgeStart, for every output and every cut); the first answer decides  *)
(* the handshake; and every operation has one terminal frame, with the     *)
(* goodbye the last of all (Dispatcher, for any sets of operations and     *)
(* sessions).                                                              *)
(***************************************************************************)
EXTENDS Dispatcher, BridgeStart, SequenceTheorems, WellFoundedInduction, TLAPS

-----------------------------------------------------------------------------
(* The codec.                                                              *)

(* The order of the naturals as a set of pairs, the form the library's     *)
(* facts about well-founded relations take.                                *)
Less == {ss \in Nat \X Nat : ss[1] < ss[2]}

(* Every set of naturals that is not empty has a least element.            *)
LEMMA LessWellFounded == IsWellFoundedOn(Less, Nat)
<1>1. OpToRel(<, Nat) = Less
  BY Zenon DEF OpToRel, Less
<1>2. IsWellFoundedOn(OpToRel(<, Nat), Nat)
  BY Zenon, NatLessThanWellFounded
<1>3. QED
  BY Zenon, <1>1, <1>2

(* A set that holds zero and the successor of whatever it holds has every  *)
(* natural: induction, over a set where the library has it over an         *)
(* operator.                                                               *)
LEMMA Counting ==
  ASSUME NEW A, 0 \in A, \A n \in Nat : n \in A => n + 1 \in A
  PROVE  Nat \subseteq A
<1> DEFINE B == Nat \ A
<1>1. SUFFICES ASSUME B # {} PROVE FALSE
  BY Zenon
<1>2. PICK n \in B : \A m \in B : ~ (<<m, n>> \in Less)
  BY <1>1, LessWellFounded, WFMin
<1>3. n \in Nat /\ n # 0
  OBVIOUS
<1>4. n - 1 \in Nat /\ n - 1 < n
  BY <1>3
<1>5. <<n - 1, n>> \in Less
  BY <1>3, <1>4 DEF Less
<1>6. n - 1 \in A
  BY <1>2, <1>4, <1>5
<1>7. (n - 1) + 1 \in A
  BY <1>4, <1>6
<1>8. QED
  BY <1>3, <1>7

(* Anything that has the parts of a frame.                                 *)
AnyFrame == [kind : FrameKinds, id : Byte, meta : Seq(Byte), body : Seq(Byte)]

(* A frame encodeFrame takes: not too long, its metadata's length in its   *)
(* field.                                                                  *)
Fits(f) == f \in AnyFrame /\ Encodable(f) /\ Len(f.meta) \in Byte

(* A quotient by b of a number below b squared is below b.                 *)
LEMMA QuotientSmall ==
  ASSUME NEW b \in Nat, NEW q \in Nat, NEW r \in Nat, NEW n \in Nat, n = b * q + r, n < b * b
  PROVE  q < b /\ q * b + r = n
<1>1. q * b = b * q
  OBVIOUS
<1>2. q < b
  <2>1. SUFFICES ASSUME q >= b PROVE FALSE
    OBVIOUS
  <2>2. q * b >= b * b
    BY <2>1
  <2>3. QED
    BY <1>1, <2>2
<1>3. QED
  BY <1>1, <1>2

(* Quotient and remainder make the number.                                 *)
LEMMA Divides ==
  ASSUME NEW n \in Nat, NEW b \in Nat, b > 0
  PROVE  n = b * (n \div b) + (n % b)
OBVIOUS

(* Quotient and remainder are naturals, the remainder below the divisor.   *)
LEMMA DivisionTypes ==
  ASSUME NEW n \in Nat, NEW b \in Nat, b > 0
  PROVE  n \div b \in Nat /\ n % b \in Nat /\ n % b \in 0 .. b - 1
OBVIOUS

(* Every element of three sequences put together, at its place.            *)
Joined(e, S, h, t, u) ==
  /\ e \in Seq(S) /\ Len(e) = Len(h) + Len(t) + Len(u)
  /\ \A i \in 1 .. Len(h) : e[i] = h[i]
  /\ \A i \in 1 .. Len(t) : e[Len(h) + i] = t[i]
  /\ \A i \in 1 .. Len(u) : e[Len(h) + Len(t) + i] = u[i]

(* Concatenation puts them there.                                          *)
LEMMA Parts ==
  ASSUME NEW S, NEW h \in Seq(S), NEW t \in Seq(S), NEW u \in Seq(S)
  PROVE  Joined((h \o t) \o u, S, h, t, u)
BY DEF Joined

(* A sequence that lies in another from a on is the part between its ends. *)
LEMMA Cut ==
  ASSUME NEW S, NEW e \in Seq(S), NEW f \in Seq(S), NEW a \in Nat, NEW b \in Nat,
         b = a + Len(f), b <= Len(e), \A i \in 1 .. Len(f) : e[a + i] = f[i]
   PROVE SubSeq(e, a + 1, b) = f
<1>1. SubSeq(e, a + 1, b) \in Seq(S)
  OBVIOUS
<1>2. Len(SubSeq(e, a + 1, b)) = Len(f)
  OBVIOUS
<1>3. \A i \in 1 .. Len(f) : SubSeq(e, a + 1, b)[i] = e[a + i]
  OBVIOUS
<1>4. QED
  BY <1>1, <1>2, <1>3, SeqEqual

(* A number below b squared has two digits in base b.                      *)
LEMMA Division ==
  ASSUME NEW n \in Nat, NEW b \in Nat, b > 0, n < b * b
  PROVE  /\ n \div b \in 0 .. b - 1 /\ n % b \in 0 .. b - 1
         /\ (n \div b) * b + (n % b) = n
<1>1. n \div b \in Nat /\ n % b \in Nat /\ n % b \in 0 .. b - 1
  BY DivisionTypes
<1>2. n = b * (n \div b) + (n % b)
  BY Divides, Zenon
<1>3. n \div b < b /\ (n \div b) * b + (n % b) = n
  BY <1>1, <1>2, QuotientSmall
<1>4. \A q \in Nat : q < b => q \in 0 .. b - 1
  OBVIOUS
<1>5. n \div b \in 0 .. b - 1
  BY <1>1, <1>3, <1>4, Zenon
<1>6. QED
  BY <1>1, <1>3, <1>5, Zenon

(* Bytes are naturals, and so is the length of the longest frame.          *)
LEMMA ByteTypes == Byte \subseteq Nat /\ FrameKinds \subseteq Byte /\ MAX_FRAME_LENGTH \in Nat
BY FrameAssumption DEF Byte

(* So does a length that a frame may have: two bytes hold it, and give it  *)
(* back.                                                                   *)
LEMMA LengthFits ==
  ASSUME NEW n \in Nat, n <= MAX_FRAME_LENGTH
  PROVE  /\ n \div Base \in Byte /\ n % Base \in Byte
         /\ (n \div Base) * Base + (n % Base) = n
<1>1. Base \in Nat /\ Base > 0 /\ n < Base * Base
  <2>1. /\ Base \in Nat /\ Base > 0 /\ MAX_FRAME_LENGTH \in Nat
        /\ MAX_FRAME_LENGTH < Base * Base
    BY FrameAssumption
  <2> DEFINE square == Base * Base
  <2>2. square \in Nat /\ MAX_FRAME_LENGTH < square
    BY <2>1
  <2> HIDE DEF square
  <2>3. n < square
    BY <2>1, <2>2
  <2>4. QED
    BY <2>1, <2>3 DEF square
<1>2. QED
  BY <1>1, Division DEF Byte

(* How an encoded frame lies in its bytes: length, kind, id, length of the *)
(* metadata, metadata, body.                                               *)
Laid(e, sort, id, mt, bd, m, k) ==
  /\ e \in Seq(Byte) /\ Len(e) = 5 + m + k
  /\ LengthAt(e, 0) = 3 + m + k
  /\ e[3] = sort /\ e[4] = id /\ e[5] = m
  /\ \A i \in 1 .. m : e[5 + i] = mt[i]
  /\ \A i \in 1 .. k : e[5 + m + i] = bd[i]

(* encodeFrame lays its frame so.                                          *)
LEMMA Prefixed ==
  ASSUME NEW sort \in Byte, NEW id \in Byte, NEW mt \in Seq(Byte), NEW bd \in Seq(Byte),
         NEW m \in Nat, m \in Byte, m = Len(mt), NEW k \in Nat, k = Len(bd),
         3 + m + k <= MAX_FRAME_LENGTH,
         NEW e, e = LengthBytes(FIXED_HEADER_LENGTH + m + k) \o <<sort, id, m>> \o mt \o bd
  PROVE  Laid(e, sort, id, mt, bd, m, k)
<1> DEFINE n == 3 + m + k
           hi == n \div Base
           lo == n % Base
           head == <<hi, lo>> \o <<sort, id, m>>
<1>1. n \in Nat /\ n <= MAX_FRAME_LENGTH
  OBVIOUS
<1>2. FIXED_HEADER_LENGTH + m + k = n
  BY DEF FIXED_HEADER_LENGTH
<1>3. e = (head \o mt) \o bd
  BY <1>2 DEF LengthBytes
<1> HIDE DEF n
<1>4. hi \in Byte /\ lo \in Byte /\ hi * Base + lo = n
  BY <1>1, LengthFits, Zenon
<1> HIDE DEF hi, lo
<1>5. head \in Seq(Byte)
  BY <1>4
<1>6. Len(head) = 5
  BY <1>4
<1>7. head[1] = hi /\ head[2] = lo
  BY <1>4
<1>8. head[3] = sort /\ head[4] = id /\ head[5] = m
  BY <1>4
<1> HIDE DEF head
<1>9. /\ e \in Seq(Byte) /\ Len(e) = Len(head) + Len(mt) + Len(bd)
      /\ \A i \in 1 .. Len(head) : e[i] = head[i]
      /\ \A i \in 1 .. Len(mt) : e[Len(head) + i] = mt[i]
      /\ \A i \in 1 .. Len(bd) : e[Len(head) + Len(mt) + i] = bd[i]
  <2>1. Joined(e, Byte, head, mt, bd)
    BY <1>3, <1>5, Parts
  <2>2. QED
    BY <2>1, Zenon DEF Joined
<1>10. Len(e) = 5 + m + k
  BY <1>6, <1>9, Zenon
<1>11. \A i \in 1 .. m : e[5 + i] = mt[i]
  BY <1>6, <1>9, Zenon
<1>12. \A i \in 1 .. k : e[5 + m + i] = bd[i]
  BY <1>6, <1>9, Zenon
<1>13. \A i \in 1 .. 5 : e[i] = head[i]
  BY <1>6, <1>9, Zenon
<1>14. 1 \in 1 .. 5 /\ 2 \in 1 .. 5 /\ 3 \in 1 .. 5 /\ 4 \in 1 .. 5 /\ 5 \in 1 .. 5
  OBVIOUS
<1>15. e[1] = hi /\ e[2] = lo
  BY <1>7, <1>13, <1>14, Zenon
<1>16. e[3] = sort /\ e[4] = id /\ e[5] = m
  BY <1>8, <1>13, <1>14, Zenon
<1>17. LengthAt(e, 0) = e[1] * Base + e[2]
  BY DEF LengthAt
<1>18. LengthAt(e, 0) = n
  BY <1>4, <1>15, <1>17, Zenon
<1>19. QED
  BY <1>9, <1>10, <1>11, <1>12, <1>16, <1>18, Zenon DEF n, Laid

(* decodeFrame takes the metadata from where they lie,                     *)
LEMMA MetaCut ==
  ASSUME NEW e, NEW sort, NEW id, NEW mt \in Seq(Byte), NEW bd \in Seq(Byte),
         NEW m \in Nat, m = Len(mt), NEW k \in Nat, k = Len(bd), Laid(e, sort, id, mt, bd, m, k)
  PROVE  SubSeq(e, 6, 5 + m) = mt
<1>1. e \in Seq(Byte) /\ Len(e) = 5 + m + k /\ \A i \in 1 .. m : e[5 + i] = mt[i]
  BY Zenon DEF Laid
<1>2. SubSeq(e, 5 + 1, 5 + m) = mt
  BY <1>1, Cut
<1>3. QED
  BY <1>2

(* and the body.                                                           *)
LEMMA BodyCut ==
  ASSUME NEW e, NEW sort, NEW id, NEW mt \in Seq(Byte), NEW bd \in Seq(Byte),
         NEW m \in Nat, m = Len(mt), NEW k \in Nat, k = Len(bd), Laid(e, sort, id, mt, bd, m, k)
  PROVE  SubSeq(e, 6 + m, Len(e)) = bd
<1>1. e \in Seq(Byte) /\ Len(e) = 5 + m + k /\ \A i \in 1 .. k : e[5 + m + i] = bd[i]
  BY Zenon DEF Laid
<1>2. PICK a : a = 5 + m
  OBVIOUS
<1>3. a \in Nat /\ Len(e) \in Nat /\ Len(e) = a + Len(bd) /\ Len(e) <= Len(e) /\ a + 1 = 6 + m
  BY <1>1, <1>2
<1>4. \A i \in 1 .. Len(bd) : e[a + i] = bd[i]
  BY <1>1, <1>2, Zenon
<1>5. SubSeq(e, a + 1, Len(e)) = bd
  BY <1>1, <1>3, <1>4, Cut, Zenon
<1>6. QED
  BY <1>3, <1>5, Zenon

(* What encodeFrame gives for a frame it takes.                            *)
LEMMA EncodedShape ==
  ASSUME NEW f, Fits(f), NEW m, m = Len(f.meta), NEW k, k = Len(f.body)
  PROVE  /\ f.kind \in FrameKinds /\ f.meta \in Seq(Byte) /\ f.body \in Seq(Byte)
         /\ m \in Nat /\ k \in Nat /\ 3 + m + k <= MAX_FRAME_LENGTH
         /\ Laid(Encode(f), f.kind, f.id, f.meta, f.body, m, k)
<1>1. /\ f.kind \in FrameKinds /\ f.id \in Byte /\ f.meta \in Seq(Byte) /\ f.body \in Seq(Byte)
      /\ m \in Byte /\ FIXED_HEADER_LENGTH + m + k <= MAX_FRAME_LENGTH
  BY DEF Fits, AnyFrame, Encodable
<1>2. m \in Nat /\ k \in Nat /\ f.kind \in Byte
  <2>1. \A s \in Seq(Byte) : Len(s) \in Nat
    OBVIOUS
  <2>2. QED
    BY <1>1, <2>1, ByteTypes, Zenon
<1>3. FIXED_HEADER_LENGTH = 3
  BY DEF FIXED_HEADER_LENGTH
<1>4. 3 + m + k <= MAX_FRAME_LENGTH
  BY <1>1, <1>3, Zenon
<1>5. Encode(f) = LengthBytes(FIXED_HEADER_LENGTH + m + k) \o <<f.kind, f.id,
        m>> \o f.meta \o f.body
  BY DEF Encode
<1>6. Laid(Encode(f), f.kind, f.id, f.meta, f.body, m, k)
  BY <1>1, <1>2, <1>4, <1>5, Prefixed, Zenon
<1>7. QED
  BY <1>1, <1>2, <1>4, <1>6, Zenon

(* Its first bytes say how long it is, and a decoder does not refuse them. *)
LEMMA EncodedLength ==
  ASSUME NEW f, Fits(f)
  PROVE  /\ Encode(f) \in Seq(Byte)
         /\ Len(Encode(f)) = LENGTH_PREFIX + LengthAt(Encode(f), 0)
         /\ LengthAt(Encode(f), 0) \in Nat
         /\ Len(Encode(f)) \in Nat /\ Len(Encode(f)) >= LENGTH_PREFIX
         /\ Len(Encode(f)) <= LENGTH_PREFIX + MAX_FRAME_LENGTH
         /\ ~BadLength(LengthAt(Encode(f), 0))
<1>1. PICK m, k : m = Len(f.meta) /\ k = Len(f.body)
  OBVIOUS
<1>2. PICK n, e : n = LengthAt(Encode(f), 0) /\ e = Encode(f)
  OBVIOUS
<1>3. m \in Nat /\ k \in Nat /\ 3 + m + k <= MAX_FRAME_LENGTH
  BY <1>1, EncodedShape, Zenon
<1>4. Laid(e, f.kind, f.id, f.meta, f.body, m, k)
  BY <1>1, <1>2, EncodedShape, Zenon
<1>5. e \in Seq(Byte) /\ n = 3 + m + k /\ Len(e) = 5 + m + k
  BY <1>2, <1>4, Zenon DEF Laid
<1>6. Len(e) = 2 + n /\ n \in Nat /\ n >= 3 /\ n <= MAX_FRAME_LENGTH
  BY <1>3, <1>5
<1>7. ~BadLength(n)
  BY <1>6, ByteTypes DEF BadLength, FIXED_HEADER_LENGTH
<1>8. Len(e) \in Nat /\ Len(e) >= 2 /\ Len(e) <= 2 + MAX_FRAME_LENGTH
  BY <1>6, ByteTypes
<1>9. QED
  BY <1>2, <1>5, <1>6, <1>7, <1>8, Zenon DEF LENGTH_PREFIX

(* decodeFrame gives back every frame encodeFrame takes (protocol.go and   *)
(* Protocol.ts lay frames alike).                                          *)
THEOREM RoundTrip ==
  ASSUME NEW f, Fits(f)
  PROVE  FrameView(Encode(f)) = f
<1>1. PICK m, k, e : m = Len(f.meta) /\ k = Len(f.body) /\ e = Encode(f)
  OBVIOUS
<1>2. /\ f.kind \in FrameKinds /\ f.meta \in Seq(Byte) /\ f.body \in Seq(Byte)
      /\ m \in Nat /\ k \in Nat
  BY <1>1, EncodedShape, Zenon
<1>3. Laid(e, f.kind, f.id, f.meta, f.body, m, k)
  BY <1>1, EncodedShape, Zenon
<1>4. e \in Seq(Byte) /\ LengthAt(e, 0) = 3 + m + k /\ Len(e) = 5 + m + k
  BY <1>3, Zenon DEF Laid
<1>5. e[3] = f.kind /\ e[4] = f.id /\ e[5] = m
  BY <1>3, Zenon DEF Laid
<1>6. ~BadLength(LengthAt(e, 0))
  BY <1>1, EncodedLength, Zenon
<1>7. SubSeq(e, 6, 5 + m) = f.meta
  BY <1>1, <1>2, <1>3, MetaCut, Zenon
<1>8. SubSeq(e, 6 + m, Len(e)) = f.body
  BY <1>1, <1>2, <1>3, BodyCut, Zenon
<1>9. FrameView(e) = [kind |-> e[3], id |-> e[4],
                      meta |-> SubSeq(e, 6, 5 + e[5]), body |-> SubSeq(e, 6 + e[5], Len(e))]
  <2>1. ~(Len(e) < LENGTH_PREFIX + FIXED_HEADER_LENGTH)
    BY <1>2, <1>4 DEF LENGTH_PREFIX, FIXED_HEADER_LENGTH
  <2>2. ~(Len(e) # LENGTH_PREFIX + LengthAt(e, 0))
    BY <1>2, <1>4 DEF LENGTH_PREFIX
  <2>3. ~(e[3] \notin FrameKinds)
    BY <1>2, <1>5, Zenon
  <2>4. ~(e[5] > LengthAt(e, 0) - FIXED_HEADER_LENGTH)
    BY <1>2, <1>4, <1>5 DEF FIXED_HEADER_LENGTH
  <2>5. QED
    BY <1>6, <2>1, <2>2, <2>3, <2>4, Zenon DEF FrameView
<1>10. FrameView(e) = [kind |-> f.kind, id |-> f.id, meta |-> f.meta, body |-> f.body]
  BY <1>5, <1>7, <1>8, <1>9, Zenon
<1>11. [kind |-> f.kind, id |-> f.id, meta |-> f.meta, body |-> f.body] = f
  BY DEF Fits, AnyFrame
<1>12. QED
  BY <1>1, <1>10, <1>11, Zenon

-----------------------------------------------------------------------------
(* The decoder's loop.                                                     *)

(* FrameDecoder.push keeps the bytes from offset on for the next chunk,    *)
Kept(merged, offset) ==
  [frames |-> <<>>, threw |-> FALSE, buffer |-> SubSeq(merged, offset + 1, Len(merged))]

(* or throws, and keeps what it had.                                       *)
Thrown(held) == [frames |-> <<>>, buffer |-> held, threw |-> TRUE]

(* The length, with its own bytes, of the frame that begins at offset.     *)
Total(merged, offset) == LENGTH_PREFIX + LengthAt(merged, offset)

(* What decodeFrame makes of it.                                           *)
ViewAt(merged, offset) == FrameView(SubSeq(merged, offset + 1, offset + Total(merged, offset)))

(* One turn of the loop in FrameDecoder.push, given what the later turns   *)
(* come to.                                                                *)
ScanStep(held, merged, scan, offset) ==
  CASE Len(merged) - offset < LENGTH_PREFIX -> Kept(merged, offset)
    [] /\ Len(merged) - offset >= LENGTH_PREFIX
       /\ BadLength(Total(merged, offset) - LENGTH_PREFIX) -> Thrown(held)
    [] OTHER ->
         IF Len(merged) - offset < Total(merged, offset) THEN Kept(merged, offset)
         ELSE IF ViewAt(merged, offset) = Malformed \/ scan[offset + Total(merged,
           offset)].threw
              THEN Thrown(held)
         ELSE [scan[offset + Total(merged, offset)] EXCEPT !.frames = <<ViewAt(merged,
           offset)>> \o @]

(* scan says of every offset what the loop comes to from there.            *)
Scans(held, merged, scan) ==
  scan = [offset \in 0 .. Len(merged) |-> ScanStep(held, merged, scan, offset)]

(* A length field that has arrived holds a natural.                        *)
LEMMA LengthTyped ==
  ASSUME NEW merged \in Seq(Byte), NEW offset \in 0 .. Len(merged),
         Len(merged) - offset >= LENGTH_PREFIX
  PROVE  LengthAt(merged, offset) \in Nat
<1>1. offset + 1 \in 1 .. Len(merged) /\ offset + 2 \in 1 .. Len(merged)
  BY DEF LENGTH_PREFIX
<1>2. merged[offset + 1] \in Byte /\ merged[offset + 2] \in Byte
  BY <1>1, ElementOfSeq
<1>3. merged[offset + 1] \in Nat /\ merged[offset + 2] \in Nat /\ Base \in Nat
  BY <1>2, ByteTypes, FrameAssumption
<1>4. ASSUME NEW a \in Nat, NEW b \in Nat, NEW c \in Nat PROVE a * b + c \in Nat
  OBVIOUS
<1>5. QED
  BY <1>3, <1>4, Zenon DEF LengthAt

(* A turn that finds an acceptable length.                                 *)
Ahead(held, merged, offset, rest) ==
  IF Len(merged) - offset < Total(merged, offset) THEN Kept(merged, offset)
  ELSE IF ViewAt(merged, offset) = Malformed \/ rest.threw THEN Thrown(held)
  ELSE [rest EXCEPT !.frames = <<ViewAt(merged, offset)>> \o @]

(* With less than a length field left, the rest is kept.                   *)
LEMMA ScanShort ==
  ASSUME NEW held, NEW merged, NEW offset, NEW scan, Len(merged) - offset < LENGTH_PREFIX,
         Len(merged) - offset \in Int
  PROVE  ScanStep(held, merged, scan, offset) = Kept(merged, offset)
<1>1. ~(Len(merged) - offset >= LENGTH_PREFIX)
  BY DEF LENGTH_PREFIX
<1>2. QED
  BY <1>1, Zenon DEF ScanStep

(* A length no frame has makes it throw.                                   *)
LEMMA ScanRefused ==
  ASSUME NEW held, NEW merged, NEW offset, NEW scan, Len(merged) - offset >= LENGTH_PREFIX,
         Len(merged) - offset \in Int, BadLength(Total(merged, offset) - LENGTH_PREFIX)
  PROVE  ScanStep(held, merged, scan, offset) = Thrown(held)
<1>1. ~(Len(merged) - offset < LENGTH_PREFIX)
  BY DEF LENGTH_PREFIX
<1>2. QED
  BY <1>1, Zenon DEF ScanStep

(* Otherwise the frame is taken when all of it is there.                   *)
LEMMA ScanGoesOn ==
  ASSUME NEW held, NEW merged, NEW offset, NEW scan, Len(merged) - offset >= LENGTH_PREFIX,
         Len(merged) - offset \in Int, ~BadLength(Total(merged, offset) - LENGTH_PREFIX)
  PROVE  ScanStep(held, merged, scan, offset)
           = Ahead(held, merged, offset, scan[offset + Total(merged, offset)])
<1>1. ~(Len(merged) - offset < LENGTH_PREFIX)
  BY DEF LENGTH_PREFIX
<1>2. QED
  BY <1>1, Zenon DEF ScanStep, Ahead

(* A turn looks only at later offsets.                                     *)
LEMMA StepLooksAhead ==
  ASSUME NEW held, NEW merged \in Seq(Byte), NEW offset \in 0 .. Len(merged), NEW g, NEW h,
         \A o \in 0 .. Len(merged) : o > offset => g[o] = h[o]
  PROVE  ScanStep(held, merged, g, offset) = ScanStep(held, merged, h, offset)
<1> DEFINE left == Len(merged) - offset
           total == Total(merged, offset)
<1>1. left \in Int /\ LENGTH_PREFIX \in Int
  BY DEF LENGTH_PREFIX
<1>2. CASE left < LENGTH_PREFIX
  BY <1>1, <1>2, ScanShort, Zenon
<1>3. CASE left >= LENGTH_PREFIX
  <2>1. total \in Nat /\ total > 0
    BY <1>3, LengthTyped DEF Total, LENGTH_PREFIX
  <2>2. ~(left < total) => g[offset + total] = h[offset + total]
    <3>1. SUFFICES ASSUME left >= total PROVE g[offset + total] = h[offset + total]
      BY <1>1, <2>1
    <3>2. offset + total \in 0 .. Len(merged) /\ offset + total > offset
      BY <2>1, <3>1
    <3>3. QED
      BY <3>2
  <2>3. CASE BadLength(total - LENGTH_PREFIX)
    BY <1>1, <1>3, <2>3, ScanRefused, Zenon
  <2>4. CASE ~BadLength(total - LENGTH_PREFIX)
    <3>1. Ahead(held, merged, offset, g[offset + total]) = Ahead(held, merged, offset,
            h[offset + total])
      BY <2>2, Zenon DEF Ahead
    <3>2. QED
      BY <1>1, <1>3, <2>4, <3>1, ScanGoesOn, Zenon
  <2>5. QED
    BY <2>3, <2>4
<1>4. QED
  BY <1>1, <1>2, <1>3

(* So the loop's function exists: built from the end of the bytes          *)
(* backwards.                                                              *)
LEMMA ScanExists ==
  ASSUME NEW held, NEW merged \in Seq(Byte)
  PROVE  \E scan : Scans(held, merged, scan)
<1> DEFINE size == Len(merged)
           Good(g, n) == \A o \in 0 .. size : size - o <= n => g[o] = ScanStep(held, merged, g,
             o)
           A == {n \in Nat : \E g : Good(g, n)}
<1>1. size \in Nat
  OBVIOUS
<1>2. ASSUME NEW n \in Nat, NEW g, \A o \in 0 .. size : size - o < n => g[o] = ScanStep(held,
             merged, g, o)
      PROVE  n \in A
  <2> DEFINE h == [o \in 0 .. size |-> ScanStep(held, merged, g, o)]
  <2>1. ASSUME NEW o \in 0 .. size, size - o < n PROVE h[o] = g[o]
    BY <1>2, <2>1
  <2>2. ASSUME NEW o \in 0 .. size, size - o <= n PROVE h[o] = ScanStep(held, merged, h, o)
    <3>1. \A p \in 0 .. size : p > o => g[p] = h[p]
      BY <1>1, <2>1, <2>2
    <3> HIDE DEF h
    <3>2. ScanStep(held, merged, g, o) = ScanStep(held, merged, h, o)
      BY <3>1, StepLooksAhead
    <3>3. h[o] = ScanStep(held, merged, g, o)
      BY DEF h
    <3>4. QED
      BY <3>2, <3>3
  <2>3. Good(h, n)
    BY <2>2
  <2> HIDE DEF h
  <2>4. QED
    BY <2>3
<1>3. 0 \in A
  <2>1. \A o \in 0 .. size : ~(size - o < 0)
    BY <1>1
  <2>2. \A o \in 0 .. size : size - o < 0 => <<>>[o] = ScanStep(held, merged, <<>>, o)
    BY <2>1, Zenon
  <2> HIDE DEF A
  <2>3. QED
    BY <1>2, <2>2
<1>4. ASSUME NEW n \in Nat, n \in A PROVE n + 1 \in A
  <2>1. PICK g : Good(g, n)
    BY <1>4
  <2>2. \A o \in 0 .. size : size - o < n + 1 => size - o <= n
    BY <1>1
  <2>3. \A o \in 0 .. size : size - o < n + 1 => g[o] = ScanStep(held, merged, g, o)
    BY <2>1, <2>2, Zenon
  <2> HIDE DEF A
  <2>4. n + 1 \in Nat
    OBVIOUS
  <2>5. QED
    BY <1>2, <2>3, <2>4
<1>5. size \in A
  <2> HIDE DEF A
  <2>1. Nat \subseteq A
    BY <1>3, <1>4, Counting
  <2>2. QED
    BY <1>1, <2>1
<1>6. PICK g : Good(g, size)
  BY <1>5
<1> DEFINE h == [o \in 0 .. size |-> g[o]]
<1>7. ASSUME NEW o \in 0 .. size PROVE h[o] = ScanStep(held, merged, h, o)
  <2>1. size - o <= size
    BY <1>1
  <2>2. g[o] = ScanStep(held, merged, g, o)
    BY <1>6, <2>1
  <2>3. \A p \in 0 .. size : g[p] = h[p]
    OBVIOUS
  <2> HIDE DEF h
  <2>4. ScanStep(held, merged, g, o) = ScanStep(held, merged, h, o)
    BY <2>3, StepLooksAhead
  <2>5. QED
    BY <2>2, <2>3, <2>4
<1>8. h = [o \in 0 .. size |-> ScanStep(held, merged, h, o)]
  <2> DEFINE k == [o \in 0 .. size |-> ScanStep(held, merged, h, o)]
  <2>1. \A o \in 0 .. size : h[o] = k[o]
    BY <1>7
  <2>2. h = k
    BY <2>1, Zenon
  <2>3. QED
    BY <2>2
<1>9. QED
  BY <1>8 DEF Scans

(* FrameDecoder.push is that function at the first byte.                   *)
LEMMA PushScans ==
  ASSUME NEW held, NEW chunk, chunk # <<>>, held \o chunk \in Seq(Byte)
  PROVE  \E scan : /\ Scans(held, held \o chunk, scan)
                   /\ Push(held, chunk) = scan[0]
<1> DEFINE scan == CHOOSE scan : scan = [offset \in 0 .. Len(held \o chunk) |-> ScanStep(held,
      held \o chunk, scan, offset)]
<1>1. Push(held, chunk) = scan[0]
  BY Zenon DEF Push, ScanStep, Kept, Thrown, Total, ViewAt
<1>2. Scans(held, held \o chunk, scan)
  BY ScanExists, Zenon DEF Scans
<1>3. QED
  BY <1>1, <1>2

-----------------------------------------------------------------------------
(* Cutting bytes.                                                          *)

(* The bytes from an offset on.                                            *)
From(bytes, offset) == SubSeq(bytes, offset + 1, Len(bytes))

(* Their length and elements.                                              *)
LEMMA FromTyped ==
  ASSUME NEW S, NEW bytes \in Seq(S), NEW offset \in 0 .. Len(bytes)
  PROVE  /\ From(bytes, offset) \in Seq(S)
         /\ Len(From(bytes, offset)) = Len(bytes) - offset
         /\ \A i \in 1 .. Len(bytes) - offset : From(bytes, offset)[i] = bytes[offset + i]
<1>1. \A i \in offset + 1 .. Len(bytes) : bytes[i] \in S
  BY ElementOfSeq
<1>2. offset + 1 \in Int /\ Len(bytes) \in Int
  OBVIOUS
<1>3. From(bytes, offset) \in Seq(S)
  BY <1>1, <1>2, SubSeqProperties, Zenon DEF From
<1>4. Len(From(bytes,
        offset)) = IF offset + 1 <= Len(bytes) THEN Len(bytes) - (offset + 1) + 1 ELSE 0
  BY <1>1, <1>2, SubSeqProperties, Zenon DEF From
<1>5. Len(From(bytes, offset)) = Len(bytes) - offset
  BY <1>2, <1>4
<1>6. \A i \in 1 .. Len(bytes) - offset : From(bytes, offset)[i] = bytes[offset + i]
  BY DEF From
<1>7. QED
  BY <1>3, <1>5, <1>6, Zenon

(* A part from an offset on is a part of what follows the offset.          *)
LEMMA FromPart ==
  ASSUME NEW S, NEW bytes \in Seq(S), NEW offset \in 0 .. Len(bytes),
         NEW t \in 0 .. Len(bytes) - offset
  PROVE  SubSeq(bytes, offset + 1, offset + t) = SubSeq(From(bytes, offset), 1, t)
<1> DEFINE b == From(bytes, offset)
           x == SubSeq(bytes, offset + 1, offset + t)
           y == SubSeq(b, 1, t)
<1>1. /\ b \in Seq(S) /\ Len(b) = Len(bytes) - offset
      /\ \A i \in 1 .. Len(bytes) - offset : b[i] = bytes[offset + i]
  BY FromTyped, Zenon
<1> HIDE DEF b
<1>2. x \in Seq(S) /\ Len(x) = t
  OBVIOUS
<1>3. \A i \in 1 .. t : x[i] = bytes[offset + i]
  OBVIOUS
<1>4. y \in Seq(S) /\ Len(y) = t
  BY <1>1
<1>5. \A i \in 1 .. t : y[i] = b[i]
  BY <1>1
<1>6. \A i \in 1 .. t : y[i] = bytes[offset + i]
  BY <1>1, <1>5
<1> HIDE DEF x, y
<1>7. x = y
  BY <1>2, <1>3, <1>4, <1>6, SeqEqual
<1>8. QED
  BY <1>7 DEF x, y, b

(* Skipping twice is skipping once, farther.                               *)
LEMMA FromFrom ==
  ASSUME NEW S, NEW bytes \in Seq(S), NEW offset \in 0 .. Len(bytes),
         NEW t \in 0 .. Len(bytes) - offset
  PROVE  From(bytes, offset + t) = From(From(bytes, offset), t)
<1> DEFINE b == From(bytes, offset)
           x == From(bytes, offset + t)
           y == From(b, t)
<1>1. /\ b \in Seq(S) /\ Len(b) = Len(bytes) - offset
      /\ \A i \in 1 .. Len(bytes) - offset : b[i] = bytes[offset + i]
  BY FromTyped, Zenon
<1> HIDE DEF b
<1>2. offset + t \in 0 .. Len(bytes) /\ t \in 0 .. Len(b)
  BY <1>1
<1>3. /\ x \in Seq(S) /\ Len(x) = Len(bytes) - (offset + t)
      /\ \A i \in 1 .. Len(bytes) - (offset + t) : x[i] = bytes[offset + t + i]
  BY <1>2, FromTyped, Zenon
<1>4. /\ y \in Seq(S) /\ Len(y) = Len(b) - t
      /\ \A i \in 1 .. Len(b) - t : y[i] = b[t + i]
  BY <1>1, <1>2, FromTyped, Zenon
<1> HIDE DEF x, y
<1>5. Len(x) = Len(y)
  BY <1>1, <1>3, <1>4
<1>6. \A i \in 1 .. Len(x) : x[i] = y[i]
  <2>1. SUFFICES ASSUME NEW i \in 1 .. Len(x) PROVE x[i] = y[i]
    OBVIOUS
  <2>2. x[i] = bytes[offset + t + i]
    BY <1>3
  <2>3. y[i] = b[t + i]
    BY <1>4, <1>5
  <2>4. b[t + i] = bytes[offset + (t + i)]
    BY <1>1, <1>3
  <2>5. offset + t + i = offset + (t + i)
    BY <1>3
  <2>6. QED
    BY <2>2, <2>3, <2>4, <2>5
<1>7. x = y
  BY <1>3, <1>4, <1>5, <1>6, SeqEqual
<1>8. QED
  BY <1>7 DEF x, y, b

(* A length field is the first of what follows its offset.                 *)
LEMMA LengthFrom ==
  ASSUME NEW bytes \in Seq(Byte), NEW offset \in 0 .. Len(bytes),
         Len(bytes) - offset >= LENGTH_PREFIX
  PROVE  LengthAt(bytes, offset) = LengthAt(From(bytes, offset), 0)
<1>1. From(bytes, offset)[1] = bytes[offset + 1] /\ From(bytes, offset)[2] = bytes[offset + 2]
  BY FromTyped DEF LENGTH_PREFIX
<1>2. QED
  BY <1>1 DEF LengthAt

(* Two ways to cut the same bytes agree as far as both first parts go.     *)
LEMMA SamePrefix ==
  ASSUME NEW S, NEW b \in Seq(S), NEW rest \in Seq(S), NEW e \in Seq(S), NEW v \in Seq(S),
         b \o rest = e \o v
  PROVE  \A i \in 1 .. Len(b) : i <= Len(e) => b[i] = e[i]
<1>1. SUFFICES ASSUME NEW i \in 1 .. Len(b), i <= Len(e) PROVE b[i] = e[i]
  OBVIOUS
<1>2. (b \o rest)[i] = b[i]
  OBVIOUS
<1>3. (e \o v)[i] = e[i]
  BY <1>1
<1>4. QED
  BY <1>2, <1>3

(* Concatenation by name, for the provers.                                 *)
Cat(s, t) == s \o t

(* Concatenation associates.                                               *)
LEMMA Regroup ==
  ASSUME NEW S, NEW s \in Seq(S), NEW t \in Seq(S), NEW u \in Seq(S)
  PROVE  Cat(Cat(s, t), u) = Cat(s, Cat(t, u))
BY ConcatAssociative DEF Cat

(* A common first part may be taken away.                                  *)
LEMMA LeftCancels ==
  ASSUME NEW S, NEW s \in Seq(S), NEW t \in Seq(S), NEW u \in Seq(S), Cat(s, t) = Cat(s, u)
  PROVE  t = u
BY ConcatSimplifications, Zenon DEF Cat

(* Concatenation gives a sequence of the same elements.                    *)
LEMMA CatTyped ==
  ASSUME NEW S, NEW s \in Seq(S), NEW t \in Seq(S)
  PROVE  Cat(s, t) \in Seq(S)
BY DEF Cat

(* What follows e in the first of two parts, with the second, is what      *)
(* follows e in the whole.                                                 *)
LEMMA Suffix ==
  ASSUME NEW S, NEW b \in Seq(S), NEW e \in Seq(S), NEW c \in Seq(S), NEW rest \in Seq(S),
         NEW v \in Seq(S),
         b = Cat(e, c), Cat(b, rest) = Cat(e, v)
  PROVE  Cat(c, rest) = v
<1>1. Cat(b, rest) = Cat(e, Cat(c, rest))
  BY Regroup
<1>2. Cat(c, rest) \in Seq(S)
  BY CatTyped, Zenon
<1>3. Cat(e, Cat(c, rest)) = Cat(e, v)
  BY <1>1, Zenon
<1>4. QED
  BY <1>2, <1>3, LeftCancels, Zenon

(* When the first part has all of e, it begins with e, and the rest        *)
(* follows.                                                                *)
LEMMA Longer ==
  ASSUME NEW S, NEW b \in Seq(S), NEW rest \in Seq(S), NEW e \in Seq(S), NEW v \in Seq(S),
         b \o rest = e \o v, Len(b) >= Len(e)
  PROVE  /\ SubSeq(b, 1, Len(e)) = e
         /\ From(b, Len(e)) \o rest = v
<1>1. Len(e) \in 0 .. Len(b) /\ Len(e) \in Nat
  OBVIOUS
<1>2. SubSeq(b, 1, Len(e)) = e
  <2>1. SubSeq(b, 1, Len(e)) \in Seq(S) /\ Len(SubSeq(b, 1, Len(e))) = Len(e)
    BY <1>1
  <2>2. \A i \in 1 .. Len(e) : SubSeq(b, 1, Len(e))[i] = b[i]
    BY <1>1
  <2>3. \A i \in 1 .. Len(e) : b[i] = e[i]
    BY <1>1, SamePrefix
  <2>4. QED
    BY <2>1, <2>2, <2>3, SeqEqual
<1>3. b = e \o From(b, Len(e))
  <2>1. SubSeq(b, 1, Len(e)) \o SubSeq(b, Len(e) + 1, Len(b)) = SubSeq(b, 1, Len(b))
    <3>1. 1 \in 1 .. Len(b) + 1 /\ Len(e) \in 1 - 1 .. Len(b) /\ Len(b) \in Len(e) .. Len(b)
      BY <1>1
    <3>2. QED
      BY <3>1, ConcatAdjacentSubSeq, Zenon
  <2>2. SubSeq(b, 1, Len(b)) = b
    BY SubSeqFull
  <2>3. QED
    BY <1>2, <2>1, <2>2 DEF From
<1>4. From(b, Len(e)) \in Seq(S)
  BY <1>1, FromTyped
<1>5. b = Cat(e, From(b, Len(e))) /\ Cat(b, rest) = Cat(e, v)
  BY <1>3, Zenon DEF Cat
<1>6. Cat(From(b, Len(e)), rest) = v
  BY <1>4, <1>5, Suffix
<1>7. From(b, Len(e)) \o rest = v
  BY <1>6, Zenon DEF Cat
<1>8. QED
  BY <1>2, <1>7

-----------------------------------------------------------------------------
(* Streams of frames.                                                      *)

(* A frame that can be sent and told from a failure to decode.             *)
Sendable(f) == Fits(f) /\ f # Malformed

(* w[i] are the bytes on their way when the first i of the frames fs have  *)
(* been read: the rest of the frames, each whole, and what follows the     *)
(* last.                                                                   *)
Stream(fs, tail, w) ==
  /\ fs \in Seq(AnyFrame) /\ \A i \in 1 .. Len(fs) : Sendable(fs[i])
  /\ w \in [0 .. Len(fs) -> Seq(Byte)]
  /\ w[Len(fs)] = tail
  /\ \A i \in 0 .. Len(fs) - 1 : w[i] = Encode(fs[i + 1]) \o w[i + 1]

(* A decoder that has given the first m frames holds the beginning of the  *)
(* next, never all of it.                                                  *)
Within(r, fs, w, rest, m) ==
  /\ r.buffer \in Seq(Byte) /\ r.buffer \o rest = w[m]
  /\ Len(r.buffer) < LENGTH_PREFIX + MAX_FRAME_LENGTH
  /\ m < Len(fs) => Len(r.buffer) < Len(Encode(fs[m + 1]))

(* What FrameDecoder.push returns.                                         *)
Result(r) == DOMAIN r = {"frames", "buffer", "threw"}

(* What a scan that begins at frame k + 1 may come to: a throw when it has *)
(* read a tail no frame begins with, else the next whole frames and the    *)
(* beginning of another.                                                   *)
Gives(r, k, fs, tail, w, rest) ==
  /\ Result(r)
  /\ IF r.threw
       THEN Refused(tail) /\ rest = <<>> /\ r.frames = <<>> /\ r.buffer \in Seq(Byte)
       ELSE \E m \in k .. Len(fs) :
              r.frames = SubSeq(fs, k + 1, m) /\ Within(r, fs, w, rest, m)

(* Bytes short of the next frame are kept.                                 *)
LEMMA KeptGives ==
  ASSUME NEW fs, NEW tail, NEW w, NEW rest, NEW merged, NEW offset, NEW k \in 0 .. Len(fs),
         Len(fs) \in Nat,
         From(merged, offset) \in Seq(Byte), From(merged, offset) \o rest = w[k],
         Len(From(merged, offset)) < LENGTH_PREFIX + MAX_FRAME_LENGTH,
         k < Len(fs) => Len(From(merged, offset)) < Len(Encode(fs[k + 1]))
  PROVE  Gives(Kept(merged, offset), k, fs, tail, w, rest)
<1>1. k \in k .. Len(fs)
  OBVIOUS
<1>2. SubSeq(fs, k + 1, k) = <<>>
  OBVIOUS
<1>3. Kept(merged, offset).frames = <<>> /\ Kept(merged, offset).threw = FALSE
      /\ Kept(merged, offset).buffer = From(merged, offset)
      /\ Result(Kept(merged, offset))
  BY DEF Kept, From, Result
<1>4. Within(Kept(merged, offset), fs, w, rest, k)
  BY <1>3, Zenon DEF Within
<1>5. QED
  BY <1>1, <1>2, <1>3, <1>4, Zenon DEF Gives

(* A throw is right at the end of a refused tail.                          *)
LEMMA ThrownGives ==
  ASSUME NEW fs, NEW tail, NEW w, NEW rest, NEW held \in Seq(Byte), NEW k, Refused(tail),
         rest = <<>>
  PROVE  Gives(Thrown(held), k, fs, tail, w, rest)
<1>1. /\ Thrown(held).threw = TRUE /\ Result(Thrown(held))
      /\ Thrown(held).frames = <<>> /\ Thrown(held).buffer = held
  BY DEF Thrown, Result
<1>2. QED
  BY <1>1, Zenon DEF Gives

(* A frame and those after it.                                             *)
LEMMA Prepends ==
  ASSUME NEW S, NEW fs \in Seq(S), NEW k \in 0 .. Len(fs) - 1, NEW m \in k + 1 .. Len(fs)
  PROVE  <<fs[k + 1]>> \o SubSeq(fs, k + 2, m) = SubSeq(fs, k + 1, m)
<1> DEFINE x == <<fs[k + 1]>> \o SubSeq(fs, k + 2, m)
           y == SubSeq(fs, k + 1, m)
<1>1. x \in Seq(S) /\ Len(x) = m - k
  OBVIOUS
<1>2. y \in Seq(S) /\ Len(y) = m - k
  OBVIOUS
<1>3. \A i \in 1 .. m - k : y[i] = fs[k + i]
  OBVIOUS
<1>4. \A i \in 1 .. m - k : x[i] = fs[k + i]
  OBVIOUS
<1> HIDE DEF x, y
<1>5. x = y
  BY <1>1, <1>2, <1>3, <1>4, SeqEqual
<1>6. QED
  BY <1>5 DEF x, y

(* A frame taken before what a later scan gives.                           *)
LEMMA AheadGives ==
  ASSUME NEW fs \in Seq(AnyFrame), NEW tail, NEW w, NEW rest, NEW k \in 0 .. Len(fs) - 1,
         NEW r, NEW f,
         f = fs[k + 1], Gives(r, k + 1, fs, tail, w, rest), ~r.threw
  PROVE  Gives([r EXCEPT !.frames = <<f>> \o @], k, fs, tail, w, rest)
<1> DEFINE q == [r EXCEPT !.frames = <<f>> \o @]
<1>1. Result(r)
  BY Zenon DEF Gives
<1>2. q.threw = r.threw /\ q.buffer = r.buffer /\ q.frames = <<f>> \o r.frames /\ Result(q)
  BY <1>1 DEF Result
<1> HIDE DEF q
<1>3. PICK m \in k + 1 .. Len(fs) : r.frames = SubSeq(fs, k + 2, m) /\ Within(r, fs, w, rest, m)
  <2>1. k + 1 + 1 = k + 2
    OBVIOUS
  <2>2. QED
    BY <2>1, Zenon DEF Gives
<1>4. m \in k .. Len(fs)
  OBVIOUS
<1>5. q.frames = SubSeq(fs, k + 1, m)
  BY <1>2, <1>3, Prepends
<1>6. Within(q, fs, w, rest, m)
  BY <1>2, <1>3, Zenon DEF Within
<1>7. QED
  BY <1>2, <1>4, <1>5, <1>6, Zenon DEF Gives, q

(* The length read is that of the frame the bytes begin.                   *)
LEMMA SameLength ==
  ASSUME NEW b \in Seq(Byte), NEW rest \in Seq(Byte), NEW e \in Seq(Byte), NEW v \in Seq(Byte),
         b \o rest = e \o v, Len(b) >= LENGTH_PREFIX, Len(e) >= LENGTH_PREFIX
  PROVE  LengthAt(b, 0) = LengthAt(e, 0)
<1>1. 1 \in 1 .. Len(b) /\ 2 \in 1 .. Len(b) /\ 1 <= Len(e) /\ 2 <= Len(e)
  BY DEF LENGTH_PREFIX
<1>2. \A i \in 1 .. Len(b) : i <= Len(e) => b[i] = e[i]
  BY SamePrefix
<1>3. b[1] = e[1] /\ b[2] = e[2]
  BY <1>1, <1>2, Zenon
<1>4. 0 + 1 = 1 /\ 0 + 2 = 2
  OBVIOUS
<1>5. QED
  BY <1>3, <1>4, Zenon DEF LengthAt

(* Lengths are naturals, and the longest frame is longer than one byte.    *)
LEMMA BoundPositive == LENGTH_PREFIX \in Nat /\ LENGTH_PREFIX = 2 /\ MAX_FRAME_LENGTH \in Nat
  /\ 1 < LENGTH_PREFIX + MAX_FRAME_LENGTH
BY FrameAssumption DEF LENGTH_PREFIX

(* A frame of length l that fits behind an offset ends within the bytes.    *)
LEMMA FrameFits ==
  ASSUME NEW m \in Nat, NEW o \in 0 .. m, NEW l \in Nat, l > 0, l <= m - o
  PROVE  l \in 0 .. m - o /\ o + l \in 0 .. m /\ o + l > o
OBVIOUS

(* A turn at the beginning of a frame, with what later turns give.         *)
LEMMA ScanInFrame ==
  ASSUME NEW fs, NEW tail, NEW w, Stream(fs, tail, w), NEW rest \in Seq(Byte),
         NEW held \in Seq(Byte),
         NEW merged \in Seq(Byte), NEW offset \in 0 .. Len(merged), NEW k \in 0 .. Len(fs) - 1,
         NEW scan, From(merged, offset) \o rest = w[k],
         \A o \in 0 .. Len(merged), j \in 0 .. Len(fs) :
            o > offset /\ From(merged, o) \o rest = w[j] => Gives(scan[o], j, fs, tail, w, rest)
  PROVE  Gives(ScanStep(held, merged, scan, offset), k, fs, tail, w, rest)
<1>1. /\ fs \in Seq(AnyFrame) /\ Sendable(fs[k + 1]) /\ w[k + 1] \in Seq(Byte)
         /\ w[k] = Encode(fs[k + 1]) \o w[k + 1]
      /\ k + 1 \in 0 .. Len(fs) /\ k \in 0 .. Len(fs) /\ Len(fs) \in Nat /\ k < Len(fs)
  <2>1. fs \in Seq(AnyFrame) /\ w \in [0 .. Len(fs) -> Seq(Byte)]
    BY Zenon DEF Stream
  <2>2. Len(fs) \in Nat /\ k + 1 \in 0 .. Len(fs) /\ k \in 0 .. Len(fs) /\ k < Len(fs)
          /\ k + 1 \in 1 .. Len(fs)
    BY <2>1
  <2>3. Sendable(fs[k + 1]) /\ w[k] = Encode(fs[k + 1]) \o w[k + 1]
    BY <2>2, Zenon DEF Stream
  <2>4. QED
    BY <2>1, <2>2, <2>3
<1>2. PICK b, e, f, v : b = From(merged, offset) /\ f = fs[k + 1] /\ e = Encode(f)
           /\ v = w[k + 1]
  OBVIOUS
<1>3. b \in Seq(Byte) /\ Len(b) = Len(merged) - offset
  BY <1>2, FromTyped
<1>4. e \in Seq(Byte) /\ Len(e) = LENGTH_PREFIX + LengthAt(e, 0) /\ LengthAt(e, 0) \in Nat
        /\ ~BadLength(LengthAt(e, 0))
      /\ Len(e) >= LENGTH_PREFIX /\ Len(e) <= LENGTH_PREFIX + MAX_FRAME_LENGTH /\ Len(e) \in Nat
  BY <1>1, <1>2, EncodedLength, Zenon DEF Sendable
<1>5. v \in Seq(Byte) /\ b \o rest = e \o v
  BY <1>1, <1>2, Zenon
<1>6. Len(b) \in Nat /\ Len(merged) - offset \in Int
  BY <1>3
<1>7. Len(b) < Len(e) => Gives(Kept(merged, offset), k, fs, tail, w, rest)
  <2>1. SUFFICES ASSUME Len(b) < Len(e) PROVE Gives(Kept(merged, offset), k, fs, tail, w, rest)
    OBVIOUS
  <2>2. Len(b) < LENGTH_PREFIX + MAX_FRAME_LENGTH
    BY <1>4, <1>6, <2>1, BoundPositive
  <2>3. QED
    BY <1>1, <1>2, <1>3, <2>1, <2>2, KeptGives, Zenon
<1>8. CASE Len(b) < LENGTH_PREFIX
  <2>1. Len(b) < Len(e)
    BY <1>4, <1>6, <1>8, BoundPositive
  <2>2. ScanStep(held, merged, scan, offset) = Kept(merged, offset)
    BY <1>3, <1>6, <1>8, ScanShort, Zenon
  <2>3. QED
    BY <1>7, <2>1, <2>2, Zenon
<1>9. CASE Len(b) >= LENGTH_PREFIX
  <2>1. LengthAt(merged, offset) = LengthAt(e, 0)
    <3>1. LengthAt(b, 0) = LengthAt(e, 0)
      BY <1>3, <1>4, <1>5, <1>9, SameLength, Zenon
    <3>2. LengthAt(merged, offset) = LengthAt(From(merged, offset), 0)
      BY <1>3, <1>9, LengthFrom, Zenon
    <3>3. QED
      BY <1>2, <3>1, <3>2, Zenon
  <2>2. Total(merged, offset) = Len(e)
    BY <1>4, <2>1, Zenon DEF Total
  <2>3. ~BadLength(Total(merged, offset) - LENGTH_PREFIX)
    <3>1. Len(e) - LENGTH_PREFIX = LengthAt(e, 0)
      BY <1>4, BoundPositive
    <3>2. QED
      BY <1>4, <2>2, <3>1, Zenon
  <2>4. ScanStep(held, merged, scan, offset) = Ahead(held, merged, offset,
          scan[offset + Len(e)])
    <3>1. Len(merged) - offset >= LENGTH_PREFIX
      BY <1>3, <1>9, Zenon
    <3>2. QED
      BY <1>6, <2>2, <2>3, <3>1, ScanGoesOn, Zenon
  <2>5. CASE Len(b) < Len(e)
    <3>1. Ahead(held, merged, offset, scan[offset + Len(e)]) = Kept(merged, offset)
      BY <1>3, <2>2, <2>5, Zenon DEF Ahead
    <3>2. QED
      BY <1>7, <2>4, <2>5, <3>1, Zenon
  <2>6. CASE Len(b) >= Len(e)
    <3>1. SubSeq(b, 1, Len(e)) = e /\ From(b, Len(e)) \o rest = v
      BY <1>3, <1>4, <1>5, <2>6, Longer, Zenon
    <3>2. Len(e) \in 0 .. Len(merged) - offset /\ offset + Len(e) \in 0 .. Len(merged)
            /\ offset + Len(e) > offset
      <4>1. Len(merged) \in Nat /\ Len(e) > 0 /\ Len(e) <= Len(merged) - offset
        BY <1>3, <1>4, <2>6, BoundPositive
      <4>2. QED
        BY <1>4, <4>1, FrameFits, Zenon
    <3>3. ViewAt(merged, offset) = f
      <4>1. SubSeq(merged, offset + 1, offset + Len(e)) = SubSeq(b, 1, Len(e))
        BY <1>2, <3>2, FromPart, Zenon
      <4>2. FrameView(e) = f
        BY <1>1, <1>2, RoundTrip, Zenon DEF Sendable
      <4>3. QED
        BY <2>2, <3>1, <4>1, <4>2, Zenon DEF ViewAt
    <3>4. From(merged, offset + Len(e)) \o rest = w[k + 1]
      <4>1. From(merged, offset + Len(e)) = From(From(merged, offset), Len(e))
        BY <3>2, FromFrom
      <4>2. QED
        BY <1>2, <3>1, <4>1, Zenon
    <3>5. Gives(scan[offset + Len(e)], k + 1, fs, tail, w, rest)
      BY <1>1, <3>2, <3>4, Zenon
    <3>6. PICK r : r = scan[offset + Len(e)]
      OBVIOUS
    <3>7. f # Malformed
      BY <1>1, <1>2, Zenon DEF Sendable
    <3>8. ~(Len(merged) - offset < Total(merged, offset))
      BY <1>3, <1>4, <1>6, <2>2, <2>6
    <3>9. CASE r.threw
      <4>1. Ahead(held, merged, offset, r) = Thrown(held)
        BY <3>8, <3>9, Zenon DEF Ahead
      <4>2. Refused(tail) /\ rest = <<>>
        BY <3>5, <3>6, <3>9, Zenon DEF Gives
      <4>3. QED
        BY <2>4, <3>6, <4>1, <4>2, ThrownGives, Zenon
    <3>10. CASE ~r.threw
      <4>1. Ahead(held, merged, offset, r) = [r EXCEPT !.frames = <<f>> \o @]
        BY <3>3, <3>7, <3>8, <3>10, Zenon DEF Ahead
      <4>2. Gives([r EXCEPT !.frames = <<f>> \o @], k, fs, tail, w, rest)
        BY <1>1, <1>2, <3>5, <3>6, <3>10, AheadGives, Zenon
      <4>3. QED
        BY <2>4, <3>6, <4>1, <4>2, Zenon
    <3>11. QED
      BY <3>9, <3>10
  <2>7. QED
    BY <1>4, <1>6, <2>5, <2>6
<1>10. QED
  BY <1>6, <1>8, <1>9, BoundPositive

(* A part that is as long as the whole is the whole.                       *)
LEMMA Whole ==
  ASSUME NEW S, NEW b \in Seq(S), NEW rest \in Seq(S), NEW v \in Seq(S), b \o rest = v
  PROVE  /\ Len(b) <= Len(v)
         /\ \A i \in 1 .. Len(b) : b[i] = v[i]
         /\ Len(b) = Len(v) => b = v /\ rest = <<>>
<1>1. Len(b) <= Len(v) /\ Len(v) = Len(b) + Len(rest)
  OBVIOUS
<1>2. \A i \in 1 .. Len(b) : b[i] = v[i]
  OBVIOUS
<1>3. ASSUME Len(b) = Len(v) PROVE b = v /\ rest = <<>>
  <2>1. Len(rest) = 0
    BY <1>1, <1>3
  <2>2. rest = <<>>
    BY <2>1, EmptySeq
  <2>3. b = v
    BY <1>2, <1>3, SeqEqual
  <2>4. QED
    BY <2>2, <2>3
<1>4. QED
  BY <1>1, <1>2, <1>3

(* A turn at the beginning of the tail.                                    *)
LEMMA ScanInTail ==
  ASSUME NEW fs, NEW tail, NEW w, Stream(fs, tail, w), NEW rest \in Seq(Byte),
         NEW held \in Seq(Byte),
         NEW merged \in Seq(Byte), NEW offset \in 0 .. Len(merged),
         NEW scan, From(merged, offset) \o rest = tail,
         Unfinished(tail) \/ Refused(tail)
  PROVE  Gives(ScanStep(held, merged, scan, offset), Len(fs), fs, tail, w, rest)
<1> DEFINE k == Len(fs)
<1>1. k \in Nat /\ w[k] = tail /\ k \in 0 .. k /\ ~(k < k)
  <2>1. fs \in Seq(AnyFrame) /\ w[k] = tail
    BY Zenon DEF Stream
  <2>2. QED
    BY <2>1
<1> HIDE DEF k
<1>2. PICK b : b = From(merged, offset)
  OBVIOUS
<1>3. b \in Seq(Byte) /\ Len(b) = Len(merged) - offset
  BY <1>2, FromTyped
<1>4. tail \in Seq(Byte) /\ b \o rest = tail
  BY <1>2, Zenon DEF Unfinished, Refused
<1>5. Len(b) \in Nat /\ Len(merged) - offset \in Int /\ Len(tail) \in Nat /\ Len(b) <= Len(tail)
  BY <1>3, <1>4, Whole
<1>6. Len(b) < LENGTH_PREFIX + MAX_FRAME_LENGTH => Gives(Kept(merged, offset), k, fs, tail, w,
        rest)
  BY <1>1, <1>2, <1>3, <1>4, KeptGives, Zenon DEF k
<1>7. CASE Len(b) < LENGTH_PREFIX
  <2>1. Len(b) < LENGTH_PREFIX + MAX_FRAME_LENGTH
    BY <1>5, <1>7, BoundPositive
  <2>2. ScanStep(held, merged, scan, offset) = Kept(merged, offset)
    BY <1>3, <1>5, <1>7, ScanShort, Zenon
  <2>3. QED
    BY <1>6, <2>1, <2>2, Zenon DEF k
<1>8. CASE Len(b) >= LENGTH_PREFIX
  <2>1. PICK n : n = LengthAt(tail, 0)
    OBVIOUS
  <2>2. Len(tail) >= LENGTH_PREFIX /\ n \in Nat
    <3>1. Len(tail) >= LENGTH_PREFIX
      BY <1>5, <1>8, BoundPositive
    <3>2. 0 \in 0 .. Len(tail) /\ Len(tail) - 0 >= LENGTH_PREFIX
      BY <1>5, <3>1, BoundPositive
    <3>3. QED
      BY <1>4, <2>1, <3>1, <3>2, LengthTyped, Zenon
  <2>3. LengthAt(merged, offset) = n
    <3>1. LengthAt(b, 0) = LengthAt(tail, 0)
      <4>1. 1 \in 1 .. Len(b) /\ 2 \in 1 .. Len(b)
        BY <1>5, <1>8, BoundPositive
      <4>2. b[1] = tail[1] /\ b[2] = tail[2]
        BY <1>3, <1>4, <4>1, Whole
      <4>3. 0 + 1 = 1 /\ 0 + 2 = 2
        OBVIOUS
      <4>4. QED
        BY <4>2, <4>3, Zenon DEF LengthAt
    <3>2. LengthAt(merged, offset) = LengthAt(From(merged, offset), 0)
      BY <1>3, <1>8, LengthFrom, Zenon
    <3>3. QED
      BY <1>2, <2>1, <3>1, <3>2, Zenon
  <2>4. Total(merged, offset) = LENGTH_PREFIX + n
    BY <2>3, Zenon DEF Total
  <2>5. Total(merged, offset) - LENGTH_PREFIX = n
    BY <2>2, <2>4, BoundPositive
  <2>6. Len(merged) - offset >= LENGTH_PREFIX
    BY <1>3, <1>8, Zenon
  <2>7. CASE BadLength(n)
    <3>1. Refused(tail) /\ Len(tail) = LENGTH_PREFIX
      BY <2>1, <2>2, <2>7, Zenon DEF Unfinished, Refused
    <3>2. Len(b) >= Len(tail)
      BY <1>8, <3>1, Zenon
    <3>3. Len(b) = Len(tail)
      BY <1>5, <3>2
    <3>4. rest = <<>>
      BY <1>3, <1>4, <3>3, Whole
    <3>5. ScanStep(held, merged, scan, offset) = Thrown(held)
      BY <1>5, <2>5, <2>6, <2>7, ScanRefused, Zenon
    <3>6. QED
      BY <3>1, <3>4, <3>5, ThrownGives, Zenon
  <2>8. CASE ~BadLength(n)
    <3>1. n <= MAX_FRAME_LENGTH
      BY <2>2, <2>8, BoundPositive DEF BadLength
    <3>2. ScanStep(held, merged, scan, offset) = Ahead(held, merged, offset,
            scan[offset + Total(merged, offset)])
      BY <1>5, <2>5, <2>6, <2>8, ScanGoesOn, Zenon
    <3>3. CASE Len(b) < LENGTH_PREFIX + n
      <4>1. Ahead(held, merged, offset, scan[offset + Total(merged, offset)]) = Kept(merged,
              offset)
        BY <1>3, <2>4, <3>3, Zenon DEF Ahead
      <4>2. Len(b) < LENGTH_PREFIX + MAX_FRAME_LENGTH
        BY <1>5, <2>2, <3>1, <3>3, BoundPositive
      <4>3. QED
        BY <1>6, <3>2, <4>1, <4>2, Zenon DEF k
    <3>4. CASE Len(b) >= LENGTH_PREFIX + n
      <4>1. Refused(tail) /\ Len(tail) = LENGTH_PREFIX + n /\ FrameView(tail) = Malformed
        <5>1. ~Unfinished(tail)
          <6>1. ~(Len(tail) < LENGTH_PREFIX + n)
            BY <1>5, <2>2, <3>4, BoundPositive
          <6>2. QED
            BY <2>1, <2>2, <6>1, Zenon DEF Unfinished
        <5>2. QED
          BY <2>1, <2>8, <5>1, Zenon DEF Refused
      <4>2. Len(b) = Len(tail)
        BY <1>5, <2>2, <3>4, <4>1, BoundPositive
      <4>3. b = tail /\ rest = <<>>
        BY <1>3, <1>4, <4>2, Whole
      <4>4. ViewAt(merged, offset) = FrameView(tail)
        <5>1. Len(b) \in 0 .. Len(merged) - offset
          BY <1>3
        <5>2. SubSeq(merged, offset + 1, offset + Len(b)) = SubSeq(From(merged, offset), 1,
                Len(b))
          BY <5>1, FromPart
        <5>3. SubSeq(b, 1, Len(b)) = b
          BY <1>3, SubSeqFull
        <5>4. Total(merged, offset) = Len(b)
          BY <2>4, <4>1, <4>2, Zenon
        <5>5. QED
          BY <1>2, <4>3, <5>2, <5>3, <5>4, Zenon DEF ViewAt
      <4>5. ~(Len(merged) - offset < Total(merged, offset))
        BY <1>3, <1>5, <2>2, <2>4, <3>4, BoundPositive
      <4>6. Ahead(held, merged, offset, scan[offset + Total(merged, offset)]) = Thrown(held)
        BY <4>1, <4>4, <4>5, Zenon DEF Ahead
      <4>7. QED
        BY <3>2, <4>1, <4>3, <4>6, ThrownGives, Zenon
    <3>5. QED
      BY <1>5, <2>2, <3>3, <3>4, BoundPositive
  <2>9. QED
    BY <2>7, <2>8
<1>9. QED
  BY <1>5, <1>7, <1>8, BoundPositive

(* From every beginning of a frame, or of the tail, the loop gives what it *)
(* should: by the number of bytes left.                                    *)
LEMMA ScanGives ==
  ASSUME NEW fs, NEW tail, NEW w, Stream(fs, tail, w), Unfinished(tail) \/ Refused(tail),
         NEW rest \in Seq(Byte), NEW held \in Seq(Byte),
         NEW merged \in Seq(Byte),
         NEW scan, Scans(held, merged, scan)
  PROVE  \A o \in 0 .. Len(merged), j \in 0 .. Len(fs) :
           From(merged, o) \o rest = w[j] => Gives(scan[o], j, fs, tail, w, rest)
<1> DEFINE size == Len(merged)
           Right(o) == \A j \in 0 .. Len(fs) : From(merged, o) \o rest = w[j] => Gives(scan[o],
             j, fs, tail, w, rest)
           A == {n \in Nat : \A o \in 0 .. size : size - o < n => Right(o)}
<1>1. size \in Nat /\ Len(fs) \in Nat
  <2>1. fs \in Seq(AnyFrame)
    BY Zenon DEF Stream
  <2>2. QED
    BY <2>1
<1>2. ASSUME NEW o \in 0 .. size, \A p \in 0 .. size : p > o => Right(p) PROVE Right(o)
  <2>1. SUFFICES ASSUME NEW j \in 0 .. Len(fs), From(merged,
                        o) \o rest = w[j] PROVE Gives(scan[o], j, fs, tail, w, rest)
    OBVIOUS
  <2>2. scan[o] = ScanStep(held, merged, scan, o)
    BY DEF Scans
  <2>3. CASE j = Len(fs)
    <3>1. w[j] = tail
      BY <2>3, Zenon DEF Stream
    <3>2. From(merged, o) \o rest = tail
      BY <2>1, <3>1, Zenon
    <3>3. QED
      BY <2>2, <2>3, <3>2, ScanInTail, Zenon
  <2>4. CASE j # Len(fs)
    <3>1. j \in 0 .. Len(fs) - 1
      BY <1>1, <2>4
    <3>2. QED
      BY <1>2, <2>1, <2>2, <3>1, ScanInFrame, Zenon
  <2>5. QED
    BY <2>3, <2>4
<1> HIDE DEF Right
<1>3. 0 \in A
  BY <1>1
<1>4. ASSUME NEW n \in Nat, n \in A PROVE n + 1 \in A
  <2>1. ASSUME NEW o \in 0 .. size, size - o < n + 1 PROVE Right(o)
    <3>1. \A p \in 0 .. size : p > o => Right(p)
      BY <1>1, <1>4, <2>1
    <3>2. QED
      BY <1>2, <3>1
  <2>2. QED
    BY <2>1
<1>5. size + 1 \in A
  <2> HIDE DEF A
  <2>1. Nat \subseteq A
    BY <1>3, <1>4, Counting
  <2>2. QED
    BY <1>1, <2>1
<1>6. ASSUME NEW o \in 0 .. size PROVE Right(o)
  BY <1>1, <1>5
<1>7. QED
  BY <1>6 DEF Right

(* One call of FrameDecoder.push, however the bytes before it were cut: it *)
(* gives the frames that are whole by now and no others.                   *)
LEMMA PushGives ==
  ASSUME NEW fs, NEW tail, NEW w, Stream(fs, tail, w), Unfinished(tail) \/ Refused(tail),
         NEW k \in 0 .. Len(fs), NEW held \in Seq(Byte), NEW chunk \in Seq(Byte),
           NEW rest \in Seq(Byte),
         chunk # <<>>, (held \o chunk) \o rest = w[k]
  PROVE  Gives(Push(held, chunk), k, fs, tail, w, rest)
<1>1. PICK merged : merged = held \o chunk
  OBVIOUS
<1>2. merged \in Seq(Byte)
  BY <1>1
<1>3. PICK scan : Scans(held, merged, scan) /\ Push(held, chunk) = scan[0]
  BY <1>1, <1>2, PushScans, Zenon
<1>4. From(merged, 0) = merged
  BY <1>2, SubSeqFull DEF From
<1>5. 0 \in 0 .. Len(merged)
  BY <1>2
<1>6. Gives(scan[0], k, fs, tail, w, rest)
  BY <1>1, <1>2, <1>3, <1>4, <1>5, ScanGives, Zenon
<1>7. QED
  BY <1>3, <1>6, Zenon

(* What the Bridge says can be sent.                                       *)
LEMMA SaidSendable ==
  /\ Said \subseteq AnyFrame
  /\ \A f \in Said : Sendable(f)
BY SaidAssumption, Zenon DEF Sendable, Fits, AnyFrame

(* Bytes written after the last frame follow everything on its way.        *)
LEMMA StreamGrows ==
  ASSUME NEW fs, NEW w, Stream(fs, <<>>, w), NEW extra \in Seq(Byte)
  PROVE  Stream(fs, extra, [i \in 0 .. Len(fs) |-> w[i] \o extra])
<1> DEFINE z == [i \in 0 .. Len(fs) |-> w[i] \o extra]
<1>1. /\ fs \in Seq(AnyFrame) /\ \A i \in 1 .. Len(fs) : Sendable(fs[i])
      /\ w \in [0 .. Len(fs) -> Seq(Byte)] /\ w[Len(fs)] = <<>>
      /\ \A i \in 0 .. Len(fs) - 1 : w[i] = Encode(fs[i + 1]) \o w[i + 1]
  BY Zenon DEF Stream
<1>2. Len(fs) \in Nat
  BY <1>1
<1>3. \A i \in 0 .. Len(fs) : w[i] \o extra \in Seq(Byte)
  BY <1>1
<1>4. z \in [0 .. Len(fs) -> Seq(Byte)]
  BY <1>3, Zenon
<1>5. z[Len(fs)] = extra
  BY <1>1, <1>2
<1>6. ASSUME NEW i \in 0 .. Len(fs) - 1 PROVE z[i] = Encode(fs[i + 1]) \o z[i + 1]
  <2>1. i \in 0 .. Len(fs) /\ i + 1 \in 0 .. Len(fs) /\ i + 1 \in 1 .. Len(fs)
    BY <1>2
  <2>2. Encode(fs[i + 1]) \in Seq(Byte)
    BY <1>1, <2>1, EncodedLength, Zenon DEF Sendable
  <2>3. w[i + 1] \in Seq(Byte)
    BY <1>1, <2>1
  <2>4. PICK e, v : e = Encode(fs[i + 1]) /\ v = w[i + 1]
    OBVIOUS
  <2>5. Cat(Cat(e, v), extra) = Cat(e, Cat(v, extra))
    BY <2>2, <2>3, <2>4, Regroup
  <2>6. z[i] = Cat(w[i], extra) /\ z[i + 1] = Cat(v, extra)
    BY <2>1, <2>4, Zenon DEF Cat
  <2>7. w[i] = Cat(e, v)
    BY <1>1, <2>4, Zenon DEF Cat
  <2> HIDE DEF z
  <2>8. QED
    BY <2>4, <2>5, <2>6, <2>7, Zenon DEF Cat
<1> HIDE DEF z
<1>7. Stream(fs, extra, z)
  BY <1>1, <1>4, <1>5, <1>6, Zenon DEF Stream
<1>8. QED
  BY <1>7 DEF z

(* When they are a frame, the stream has one more.                         *)
LEMMA StreamAppends ==
  ASSUME NEW fs, NEW w, NEW f, Sendable(f), Stream(fs, Encode(f), w)
  PROVE  Stream(Append(fs, f), <<>>,
         [i \in 0 .. Len(fs) + 1 |-> IF i <= Len(fs) THEN w[i] ELSE <<>>])
<1> DEFINE z == [i \in 0 .. Len(fs) + 1 |-> IF i <= Len(fs) THEN w[i] ELSE <<>>]
           gs == Append(fs, f)
<1>1. /\ fs \in Seq(AnyFrame) /\ \A i \in 1 .. Len(fs) : Sendable(fs[i])
      /\ w \in [0 .. Len(fs) -> Seq(Byte)] /\ w[Len(fs)] = Encode(f)
      /\ \A i \in 0 .. Len(fs) - 1 : w[i] = Encode(fs[i + 1]) \o w[i + 1]
  BY Zenon DEF Stream
<1>2. f \in AnyFrame /\ Encode(f) \in Seq(Byte)
  BY EncodedLength, Zenon DEF Sendable, Fits
<1>3. /\ gs \in Seq(AnyFrame) /\ Len(gs) = Len(fs) + 1 /\ Len(fs) \in Nat
      /\ gs[Len(fs) + 1] = f
  BY <1>1, <1>2
<1>4. \A i \in 1 .. Len(fs) : gs[i] = fs[i]
  BY <1>1, <1>2
<1> HIDE DEF gs
<1>5. ASSUME NEW i \in 1 .. Len(gs) PROVE Sendable(gs[i])
  <2>1. CASE i = Len(fs) + 1
    BY <1>3, <2>1, Zenon
  <2>2. CASE i # Len(fs) + 1
    <3>1. i \in 1 .. Len(fs)
      BY <1>3, <2>2
    <3>2. QED
      BY <1>1, <1>4, <3>1, Zenon
  <2>3. QED
    BY <2>1, <2>2
<1>6. z \in [0 .. Len(gs) -> Seq(Byte)]
  <2>1. ASSUME NEW i \in 0 .. Len(fs) + 1 PROVE (IF i <= Len(fs) THEN w[i] ELSE <<>>) \in Seq(Byte)
    <3>1. CASE i <= Len(fs)
      BY <1>1, <1>3, <3>1
    <3>2. CASE ~(i <= Len(fs))
      BY <3>2
    <3>3. QED
      BY <3>1, <3>2
  <2>2. QED
    BY <1>3, <2>1, Zenon
<1>7. z[Len(gs)] = <<>>
  <2>1. Len(gs) \in 0 .. Len(fs) + 1 /\ ~(Len(gs) <= Len(fs))
    BY <1>3
  <2>2. QED
    BY <2>1, Zenon
<1>8. ASSUME NEW i \in 0 .. Len(gs) - 1 PROVE z[i] = Encode(gs[i + 1]) \o z[i + 1]
  <2>1. i \in 0 .. Len(fs) /\ i \in 0 .. Len(fs) + 1 /\ i <= Len(fs)
          /\ i + 1 \in 0 .. Len(fs) + 1
    BY <1>3
  <2>2. z[i] = w[i]
    BY <2>1, Zenon
  <2>3. CASE i = Len(fs)
    <3>1. z[i + 1] = <<>>
      BY <1>3, <1>7, <2>3, Zenon
    <3>2. gs[i + 1] = f /\ w[i] = Encode(f)
      BY <1>1, <1>3, <2>3, Zenon
    <3>3. PICK e : e = Encode(f)
      OBVIOUS
    <3>4. e \o <<>> = e
      BY <1>2, <3>3
    <3>5. QED
      BY <2>2, <3>1, <3>2, <3>3, <3>4, Zenon
  <2>4. CASE i # Len(fs)
    <3>1. i \in 0 .. Len(fs) - 1 /\ i + 1 \in 1 .. Len(fs) /\ i + 1 <= Len(fs)
      BY <1>3, <2>1, <2>4
    <3>2. z[i + 1] = w[i + 1]
      BY <2>1, <3>1, Zenon
    <3>3. w[i] = Encode(fs[i + 1]) \o w[i + 1]
      BY <1>1, <3>1, Zenon
    <3>4. gs[i + 1] = fs[i + 1]
      BY <1>4, <3>1, Zenon
    <3>5. QED
      BY <2>2, <3>2, <3>3, <3>4, Zenon
  <2>5. QED
    BY <2>3, <2>4
<1> HIDE DEF z
<1>9. Stream(gs, <<>>, z)
  BY <1>3, <1>5, <1>6, <1>7, <1>8, Zenon DEF Stream
<1>10. QED
  BY <1>9 DEF z, gs

(* At first the stream is empty.                                           *)
LEMMA StreamOfNothing == Stream(<<>>, <<>>, [i \in 0 .. 0 |-> <<>>])
<1>1. Len(<<>>) = 0
  OBVIOUS
<1>2. \A i \in 1 .. 0 : Sendable(<<>>[i])
  OBVIOUS
<1>3. \A i \in 0 .. 0 - 1 : FALSE
  OBVIOUS
<1>4. [i \in 0 .. 0 |-> <<>>] \in [0 .. 0 -> Seq(Byte)] /\ <<>> \in Seq(AnyFrame)
  OBVIOUS
<1>5. [i \in 0 .. 0 |-> <<>>][0] = <<>>
  OBVIOUS
<1>6. QED
  BY <1>1, <1>2, <1>3, <1>4, <1>5, Zenon DEF Stream

-----------------------------------------------------------------------------
(* The output of the Bridge.                                               *)

(* What follows the last frame: nothing, noise, or part of a frame a dying *)
(* Bridge did not finish.                                                  *)
TailIs(tail) ==
  /\ spoilt = "no" => tail = <<>>
  /\ spoilt = "noise" => tail \in Noise
  /\ spoilt = "torn" => tail \in Torn

(* The types of what is sent, on its way and read.                         *)
Typed ==
  /\ sent \in Seq(Said) /\ pipe \in Seq(Byte) /\ buffer \in Seq(Byte)
  /\ spoilt \in {"no", "noise", "torn"} /\ threw \in BOOLEAN

(* What was decoded is a beginning of what was said.                       *)
Prefix ==
  /\ decoded \in Seq(Said) /\ Len(decoded) \in 0 .. Len(sent)
  /\ decoded = SubSeq(sent, 1, Len(decoded))

(* The decoder throws only at noise, at its end.                           *)
Stopped == threw => spoilt = "noise" /\ pipe = <<>>

(* What it holds is short of a frame.                                      *)
Small ==
  ~threw => /\ Len(buffer) < LENGTH_PREFIX + MAX_FRAME_LENGTH
            /\ Len(decoded) < Len(sent) =>
                 Len(buffer) < Len(Encode(sent[Len(decoded) + 1]))

(* What it holds and what is on its way are the rest of the stream.        *)
InStep ==
  (loop # "ended" /\ ~threw) =>
    \E tail, w : TailIs(tail) /\ Stream(sent, tail, w) /\ w[Len(decoded)] = buffer \o pipe

(* Nothing happens before the start has found the program.                 *)
Untouched ==
  start = "resolving" =>
    /\ proc = "absent" /\ sent = <<>> /\ spoilt = "no"
    /\ pipe = <<>> /\ buffer = <<>> /\ decoded = <<>> /\ threw = FALSE
    /\ loop = "ended" /\ watch = "ended"
    /\ dead = "none" /\ pending = "none" /\ answer = NoAnswer
    /\ outOfTime = FALSE /\ scope = "open"

(* The inductive invariant of the Bridge's output.                         *)
OutputInv == Typed /\ Prefix /\ Stopped /\ Small /\ InStep

(* A tail is unfinished or refused, and refused only when it is noise.     *)
LEMMA TailTyped ==
  ASSUME NEW tail, TailIs(tail), spoilt \in {"no", "noise", "torn"}
  PROVE  /\ Unfinished(tail) \/ Refused(tail)
         /\ Refused(tail) => spoilt = "noise"
<1>1. CASE spoilt = "no"
  <2>1. tail = <<>>
    BY <1>1 DEF TailIs
  <2>2. <<>> \in Seq(Byte) /\ ~(Len(<<>>) >= LENGTH_PREFIX)
    BY DEF LENGTH_PREFIX
  <2>3. QED
    BY <2>1, <2>2, Zenon DEF Unfinished, Refused
<1>2. CASE spoilt = "noise"
  BY <1>2, OutputAssumption, Zenon DEF TailIs
<1>3. CASE spoilt = "torn"
  <2>1. Unfinished(tail)
    BY <1>3, OutputAssumption, Zenon DEF TailIs
  <2>2. Refused(tail) => FALSE
    <3>1. SUFFICES ASSUME Refused(tail) PROVE FALSE
      OBVIOUS
    <3>2. Len(tail) >= LENGTH_PREFIX /\ ~BadLength(LengthAt(tail, 0))
            /\ Len(tail) < LENGTH_PREFIX + LengthAt(tail, 0)
      BY <2>1, <3>1, Zenon DEF Unfinished, Refused
    <3>3. Len(tail) = LENGTH_PREFIX + LengthAt(tail, 0) /\ tail \in Seq(Byte)
      BY <3>1, <3>2, Zenon DEF Refused
    <3>4. Len(tail) \in Nat
      BY <3>3
    <3>5. ~(Len(tail) < Len(tail))
      BY <3>4
    <3>6. QED
      BY <3>2, <3>3, <3>5, Zenon
  <2>3. QED
    BY <2>1, <2>2
<1>4. QED
  BY <1>1, <1>2, <1>3

(* Initially it holds.                                                     *)
LEMMA OutputStarts == StartInit => OutputInv /\ Untouched
<1>1. SUFFICES ASSUME StartInit PROVE OutputInv /\ Untouched
  OBVIOUS
<1>2. /\ sent = <<>> /\ spoilt = "no" /\ pipe = <<>> /\ buffer = <<>> /\ decoded = <<>>
         /\ threw = FALSE /\ loop = "ended"
  BY <1>1 DEF StartInit
<1>3. Typed
  <2>1. <<>> \in Seq(Said) /\ <<>> \in Seq(Byte)
    OBVIOUS
  <2>2. QED
    BY <1>2, <2>1 DEF Typed
<1>4. Prefix
  BY <1>2 DEF Prefix
<1>5. Stopped
  BY <1>2, Zenon DEF Stopped
<1>6. Small
  <2>1. Len(<<>>) < LENGTH_PREFIX + MAX_FRAME_LENGTH /\ ~(Len(<<>>) < Len(<<>>))
    BY BoundPositive
  <2>2. QED
    BY <1>2, <2>1, Zenon DEF Small
<1>7. InStep
  BY <1>2, Zenon DEF InStep
<1>8. Untouched
  BY <1>1, Zenon DEF StartInit, Untouched
<1>9. QED
  BY <1>3, <1>4, <1>5, <1>6, <1>7, <1>8 DEF OutputInv

(* A step that leaves the output alone keeps it.                           *)
LEMMA OutputKept ==
  ASSUME OutputInv, UNCHANGED <<sent, spoilt, pipe, buffer, decoded, threw>>,
         loop' # "ended" => loop # "ended"
  PROVE  OutputInv'
<1>1. Typed' /\ Prefix' /\ Stopped' /\ Small'
  BY Zenon DEF OutputInv, Typed, Prefix, Stopped, Small
<1>2. InStep'
  <2>1. SUFFICES ASSUME loop' # "ended", ~threw'
                 PROVE \E tail, w : TailIs(tail)' /\ Stream(sent', tail, w)
                       /\ w[Len(decoded')] = buffer' \o pipe'
    BY Zenon DEF InStep
  <2>2. PICK tail, w : TailIs(tail) /\ Stream(sent, tail, w) /\ w[Len(decoded)] = buffer \o pipe
    BY <2>1, Zenon DEF InStep, OutputInv
  <2>3. TailIs(tail)'
    BY <2>2, Zenon DEF TailIs
  <2>4. QED
    BY <2>2, <2>3, Zenon
<1>3. QED
  BY <1>1, <1>2 DEF OutputInv

(* Bytes written at the end keep decoder and stream in step.               *)
LEMMA WriteKeepsStep ==
  ASSUME NEW w, NEW z, NEW extra \in Seq(Byte), OutputInv, Stream(sent, <<>>, w),
         w[Len(decoded)] = buffer \o pipe,
         z = [i \in 0 .. Len(sent) |-> w[i] \o extra]
  PROVE  Stream(sent, extra, z) /\ z[Len(decoded)] = buffer \o (pipe \o extra)
<1>1. Stream(sent, extra, z)
  BY StreamGrows, Zenon
<1>2. Len(decoded) \in 0 .. Len(sent) /\ buffer \in Seq(Byte) /\ pipe \in Seq(Byte)
  BY Zenon DEF OutputInv, Prefix, Typed
<1>3. z[Len(decoded)] = Cat(Cat(buffer, pipe), extra)
  BY <1>2, Zenon DEF Cat
<1>4. Cat(Cat(buffer, pipe), extra) = Cat(buffer, Cat(pipe, extra))
  BY <1>2, Regroup
<1>5. QED
  BY <1>1, <1>3, <1>4, Zenon DEF Cat

(* When all that was said is decoded, the decoder holds nothing.           *)
LEMMA EmptyPipe ==
  ASSUME OutputInv, loop # "ended", spoilt = "no", Len(decoded) = Len(sent)
  PROVE  buffer = <<>>
<1>1. ~threw
  BY Zenon DEF OutputInv, Stopped
<1>2. PICK tail, w : TailIs(tail) /\ Stream(sent, tail, w) /\ w[Len(decoded)] = buffer \o pipe
  BY <1>1, Zenon DEF InStep, OutputInv
<1>3. buffer \o pipe = <<>>
  BY <1>2, Zenon DEF TailIs, Stream
<1>4. buffer \in Seq(Byte) /\ pipe \in Seq(Byte)
  BY Zenon DEF OutputInv, Typed
<1>5. QED
  BY <1>3, <1>4, ConcatSimplifications, Zenon

(* The Bridge says a frame.                                                *)
LEMMA OutputSay ==
  ASSUME OutputInv, NEW f \in Said, Say(f)
  PROVE  OutputInv'
<1>1. /\ loop # "ended" /\ spoilt = "no" /\ sent' = Append(sent, f) /\ pipe' = pipe \o Encode(f)
      /\ UNCHANGED <<spoilt, buffer, decoded, threw, loop>>
  BY DEF Say
<1>2. ~threw /\ threw \in BOOLEAN
  BY <1>1, Zenon DEF OutputInv, Stopped, Typed
<1>3. sent \in Seq(Said) /\ pipe \in Seq(Byte) /\ buffer \in Seq(Byte) /\ decoded \in Seq(Said)
      /\ Len(decoded) \in 0 .. Len(sent) /\ decoded = SubSeq(sent, 1, Len(decoded))
  BY Zenon DEF OutputInv, Typed, Prefix
<1>4. Sendable(f) /\ Encode(f) \in Seq(Byte) /\ Len(Encode(f)) \in Nat
        /\ Len(Encode(f)) >= LENGTH_PREFIX
  BY SaidSendable, EncodedLength, Zenon DEF Sendable
<1>5. sent' \in Seq(Said) /\ Len(sent') = Len(sent) + 1 /\ Len(sent) \in Nat
  BY <1>1, <1>3
<1>6. \A i \in 1 .. Len(sent) : sent'[i] = sent[i]
  BY <1>1, <1>3
<1>7. sent'[Len(sent) + 1] = f
  BY <1>1, <1>3
<1>8. Typed'
  <2>1. pipe' \in Seq(Byte)
    BY <1>1, <1>3, <1>4
  <2>2. QED
    BY <1>1, <1>2, <1>3, <1>5, <2>1 DEF Typed
<1>9. Prefix'
  <2>1. Len(decoded) \in 0 .. Len(sent')
    BY <1>3, <1>5
  <2>2. SubSeq(sent', 1, Len(decoded)) = SubSeq(sent, 1, Len(decoded))
    BY <1>1, <1>3
  <2>3. QED
    BY <1>1, <1>3, <2>1, <2>2, Zenon DEF Prefix
<1>10. Stopped'
  BY <1>1, <1>2, Zenon DEF Stopped
<1>11. Small'
  <2>1. Len(buffer) < LENGTH_PREFIX + MAX_FRAME_LENGTH
    BY <1>2, Zenon DEF OutputInv, Small
  <2>2. CASE Len(decoded) < Len(sent)
    <3>1. sent'[Len(decoded) + 1] = sent[Len(decoded) + 1]
      <4>1. Len(decoded) + 1 \in 1 .. Len(sent)
        BY <1>3, <1>5, <2>2
      <4>2. QED
        BY <1>6, <4>1, Zenon
    <3>2. Len(buffer) < Len(Encode(sent[Len(decoded) + 1]))
      BY <1>2, <2>2, Zenon DEF OutputInv, Small
    <3>3. QED
      BY <1>1, <2>1, <3>1, <3>2, Zenon DEF Small
  <2>3. CASE ~(Len(decoded) < Len(sent))
    <3>1. Len(decoded) = Len(sent)
      BY <1>3, <1>5, <2>3
    <3>2. buffer = <<>>
      BY <1>1, <3>1, EmptyPipe
    <3>3. Len(buffer) < Len(Encode(f))
      BY <1>4, <3>2, BoundPositive
    <3>4. QED
      BY <1>1, <1>7, <2>1, <3>1, <3>3, Zenon DEF Small
  <2>4. QED
    BY <2>2, <2>3
<1>12. InStep'
  <2>1. PICK tail, w : TailIs(tail) /\ Stream(sent, tail, w) /\ w[Len(decoded)] = buffer \o pipe
    BY <1>1, <1>2, Zenon DEF InStep, OutputInv
  <2>2. tail = <<>>
    BY <1>1, <2>1, Zenon DEF TailIs
  <2>3. PICK z : z = [i \in 0 .. Len(sent) |-> w[i] \o Encode(f)]
    OBVIOUS
  <2>4. Stream(sent, Encode(f), z) /\ z[Len(decoded)] = buffer \o (pipe \o Encode(f))
    BY <1>4, <2>1, <2>2, <2>3, WriteKeepsStep, Zenon
  <2>5. PICK y : y = [i \in 0 .. Len(sent) + 1 |-> IF i <= Len(sent) THEN z[i] ELSE <<>>]
    OBVIOUS
  <2>6. Stream(sent', <<>>, y)
    BY <1>1, <1>4, <2>4, <2>5, StreamAppends, Zenon
  <2>7. Len(decoded) \in 0 .. Len(sent) + 1 /\ Len(decoded) <= Len(sent)
    BY <1>3, <1>5
  <2>8. y[Len(decoded)] = buffer \o (pipe \o Encode(f))
    BY <2>4, <2>5, <2>7, Zenon
  <2>9. TailIs(<<>>)'
    <3>1. spoilt' = "no" /\ spoilt' # "noise" /\ spoilt' # "torn"
      BY <1>1
    <3>2. QED
      BY <3>1, Zenon DEF TailIs
  <2>10. QED
    BY <1>1, <2>6, <2>8, <2>9, Zenon DEF InStep
<1>13. QED
  BY <1>8, <1>9, <1>10, <1>11, <1>12 DEF OutputInv

(* Noise or a torn frame follows the last one.                             *)
LEMMA OutputSpoilt ==
  ASSUME OutputInv, NEW extra \in Seq(Byte), loop # "ended", spoilt = "no", TailIs(extra)',
         spoilt' \in {"noise", "torn"}, pipe' = pipe \o extra,
         UNCHANGED <<sent, buffer, decoded, threw, loop>>
  PROVE  OutputInv'
<1>1. ~threw /\ threw \in BOOLEAN
  BY Zenon DEF OutputInv, Stopped, Typed
<1>2. Typed'
  <2>1. pipe \in Seq(Byte)
    BY DEF OutputInv, Typed
  <2>2. pipe' \in Seq(Byte)
    BY <2>1
  <2>3. spoilt' \in {"no", "noise", "torn"}
    OBVIOUS
  <2>4. QED
    BY <2>2, <2>3, Zenon DEF OutputInv, Typed
<1>3. Prefix' /\ Stopped' /\ Small'
  BY <1>1, Zenon DEF OutputInv, Prefix, Stopped, Small
<1>4. InStep'
  <2>1. PICK tail, w : TailIs(tail) /\ Stream(sent, tail, w) /\ w[Len(decoded)] = buffer \o pipe
    BY <1>1, Zenon DEF InStep, OutputInv
  <2>2. tail = <<>>
    BY <2>1, Zenon DEF TailIs
  <2>3. PICK z : z = [i \in 0 .. Len(sent) |-> w[i] \o extra]
    OBVIOUS
  <2>4. Stream(sent, extra, z) /\ z[Len(decoded)] = buffer \o (pipe \o extra)
    BY <2>1, <2>2, <2>3, WriteKeepsStep, Zenon
  <2>5. QED
    BY <2>4, Zenon DEF InStep
<1>5. QED
  BY <1>2, <1>3, <1>4 DEF OutputInv

(* A chunk and the rest are the pipe.                                      *)
LEMMA Cutting ==
  ASSUME NEW p \in Seq(Byte), NEW n \in 1 .. Len(p)
  PROVE  /\ SubSeq(p, 1, n) \in Seq(Byte) /\ SubSeq(p, 1, n) # <<>>
         /\ SubSeq(p, n + 1, Len(p)) \in Seq(Byte)
         /\ SubSeq(p, 1, n) \o SubSeq(p, n + 1, Len(p)) = p
<1>1. SubSeq(p, 1, n) \in Seq(Byte) /\ Len(SubSeq(p, 1, n)) = n
  OBVIOUS
<1>2. SubSeq(p, 1, n) # <<>>
  BY <1>1
<1>3. SubSeq(p, n + 1, Len(p)) \in Seq(Byte)
  <2>1. n \in 0 .. Len(p)
    OBVIOUS
  <2>2. QED
    BY <2>1, FromTyped, Zenon DEF From
<1>4. SubSeq(p, 1, n) \o SubSeq(p, n + 1, Len(p)) = SubSeq(p, 1, Len(p))
  <2>1. 1 \in 1 .. Len(p) + 1 /\ n \in 1 - 1 .. Len(p) /\ Len(p) \in n .. Len(p)
    OBVIOUS
  <2>2. QED
    BY <2>1, ConcatAdjacentSubSeq, Zenon
<1>5. QED
  BY <1>1, <1>2, <1>3, <1>4, SubSeqFull

(* A read chunk, of any size, is given to a decoder in step.               *)
LEMMA PushInStep ==
  ASSUME OutputInv, loop # "ended", NEW n \in 1 .. Len(pipe),
         NEW r, r = Push(buffer, SubSeq(pipe, 1, n))
  PROVE  /\ ~threw
         /\ \E tail, w : /\ TailIs(tail) /\ Stream(sent, tail, w)
                         /\ Gives(r, Len(decoded), sent, tail, w, SubSeq(pipe, n + 1,
                            Len(pipe)))
<1>1. sent \in Seq(Said) /\ pipe \in Seq(Byte) /\ buffer \in Seq(Byte)
        /\ Len(decoded) \in 0 .. Len(sent)
      /\ spoilt \in {"no", "noise", "torn"}
  BY Zenon DEF OutputInv, Typed, Prefix
<1>2. ~threw
  <2>1. pipe # <<>>
    BY <1>1
  <2>2. QED
    BY <2>1, Zenon DEF OutputInv, Stopped
<1>3. PICK tail, w : TailIs(tail) /\ Stream(sent, tail, w) /\ w[Len(decoded)] = buffer \o pipe
  BY <1>2, Zenon DEF InStep, OutputInv
<1>4. PICK chunk, rest : chunk = SubSeq(pipe, 1, n) /\ rest = SubSeq(pipe, n + 1, Len(pipe))
  OBVIOUS
<1>5. chunk \in Seq(Byte) /\ chunk # <<>> /\ rest \in Seq(Byte) /\ Cat(chunk, rest) = pipe
  BY <1>1, <1>4, Cutting, Zenon DEF Cat
<1>6. Cat(Cat(buffer, chunk), rest) = Cat(buffer, Cat(chunk, rest))
  BY <1>1, <1>5, Regroup
<1>7. (buffer \o chunk) \o rest = w[Len(decoded)]
  BY <1>3, <1>5, <1>6, Zenon DEF Cat
<1>8. Unfinished(tail) \/ Refused(tail)
  BY <1>1, <1>3, TailTyped, Zenon
<1>9. Gives(Push(buffer, chunk), Len(decoded), sent, tail, w, rest)
  BY <1>1, <1>3, <1>5, <1>7, <1>8, PushGives, Zenon
<1>10. QED
  BY <1>2, <1>3, <1>4, <1>9, Zenon

(* A read keeps the invariant, and decodes the next frames said.           *)
LEMMA OutputRead ==
  ASSUME OutputInv, loop # "ended", NEW n \in 1 .. Len(pipe),
         NEW r, r = Push(buffer, SubSeq(pipe, 1, n)),
         pipe' = SubSeq(pipe, n + 1, Len(pipe)), buffer' = r.buffer,
         decoded' = decoded \o r.frames, threw' = (threw \/ r.threw), UNCHANGED <<sent, spoilt>>
  PROVE  /\ OutputInv' /\ (r.threw => spoilt = "noise")
         /\ \E m \in Len(decoded) .. Len(sent) : r.frames = SubSeq(sent, Len(decoded) + 1, m)
<1>1. sent \in Seq(Said) /\ pipe \in Seq(Byte) /\ buffer \in Seq(Byte)
        /\ Len(decoded) \in 0 .. Len(sent)
      /\ spoilt \in {"no", "noise", "torn"} /\ decoded = SubSeq(sent, 1, Len(decoded))
         /\ decoded \in Seq(Said)
  BY Zenon DEF OutputInv, Typed, Prefix
<1>2. PICK rest : rest = SubSeq(pipe, n + 1, Len(pipe))
  OBVIOUS
<1>3. ~threw /\ \E tail, w : TailIs(tail) /\ Stream(sent, tail, w) /\ Gives(r, Len(decoded),
        sent, tail, w, rest)
  BY <1>2, PushInStep, Zenon
<1>4. PICK tail, w : TailIs(tail) /\ Stream(sent, tail, w) /\ Gives(r, Len(decoded), sent,
           tail, w, rest)
  BY <1>3, Zenon
<1>5. rest \in Seq(Byte) /\ pipe' = rest
  BY <1>1, <1>2, Cutting, Zenon
<1>6. TailIs(tail)'
  BY <1>4, Zenon DEF TailIs
<1>7. CASE r.threw
  <2>1. Refused(tail) /\ rest = <<>> /\ r.frames = <<>> /\ r.buffer \in Seq(Byte)
    BY <1>4, <1>7, Zenon DEF Gives
  <2>2. spoilt = "noise"
    BY <1>1, <1>4, <2>1, TailTyped, Zenon
  <2>3. threw' = TRUE
    BY <1>7, Zenon
  <2>4. decoded' = decoded
    <3>1. decoded \o <<>> = decoded
      BY <1>1
    <3>2. QED
      BY <2>1, <3>1, Zenon
  <2>5. Typed'
    BY <1>1, <1>5, <2>1, <2>3, Zenon DEF Typed
  <2>6. Prefix' /\ Stopped' /\ Small' /\ InStep'
    BY <1>1, <1>5, <2>1, <2>2, <2>3, <2>4, Zenon DEF Prefix, Stopped, Small, InStep
  <2>7. Len(decoded) \in Len(decoded) .. Len(sent) /\ SubSeq(sent, Len(decoded) + 1,
          Len(decoded)) = <<>>
    BY <1>1
  <2>8. QED
    BY <2>1, <2>2, <2>5, <2>6, <2>7, Zenon DEF OutputInv
<1>8. CASE ~r.threw
  <2>1. PICK m \in Len(decoded) .. Len(sent) :
          r.frames = SubSeq(sent, Len(decoded) + 1, m) /\ Within(r, sent, w, rest, m)
    BY <1>4, <1>8, Zenon DEF Gives
  <2>2. /\ r.buffer \in Seq(Byte) /\ r.buffer \o rest = w[m]
        /\ Len(r.buffer) < LENGTH_PREFIX + MAX_FRAME_LENGTH
        /\ m < Len(sent) => Len(r.buffer) < Len(Encode(sent[m + 1]))
    BY <2>1, Zenon DEF Within
  <2>3. threw' = FALSE
    <3>1. threw \in BOOLEAN
      BY DEF OutputInv, Typed
    <3>2. QED
      BY <1>3, <1>8, Zenon
  <2>4. PICK d : d = Len(decoded)
    OBVIOUS
  <2>5. d \in 0 .. Len(sent) /\ m \in d .. Len(sent) /\ m \in 0 .. Len(sent)
    BY <1>1, <2>1, <2>4
  <2>6. decoded' = SubSeq(sent, 1, m)
    <3>1. 1 \in 1 .. Len(sent) + 1 /\ d \in 1 - 1 .. Len(sent) /\ m \in d .. Len(sent)
      BY <1>1, <2>5
    <3>2. SubSeq(sent, 1, d) \o SubSeq(sent, d + 1, m) = SubSeq(sent, 1, m)
      BY <1>1, <3>1, ConcatAdjacentSubSeq, Zenon
    <3>3. QED
      BY <1>1, <2>1, <2>4, <3>2, Zenon
  <2>7. decoded' \in Seq(Said) /\ Len(decoded') = m
    <3>1. SubSeq(sent, 1, m) \in Seq(Said) /\ Len(SubSeq(sent, 1, m)) = m
      BY <1>1, <2>5
    <3>2. QED
      BY <2>6, <3>1, Zenon
  <2>8. Typed'
    BY <1>1, <1>5, <2>2, <2>3, Zenon DEF Typed
  <2>9. Prefix' /\ Stopped' /\ Small'
    BY <1>1, <1>5, <2>2, <2>3, <2>5, <2>6, <2>7, Zenon DEF Prefix, Stopped, Small
  <2>10. InStep'
    BY <1>4, <1>5, <1>6, <2>2, <2>7, Zenon DEF InStep
  <2>11. QED
    BY <1>8, <2>1, <2>8, <2>9, <2>10, Zenon DEF OutputInv
<1>9. QED
  BY <1>7, <1>8

(* The child starts with nothing said.                                     *)
LEMMA OutputAtSpawn ==
  ASSUME OutputInv, Untouched, start = "resolving",
         UNCHANGED <<sent, spoilt, pipe, buffer, decoded, threw>>
  PROVE  OutputInv'
<1>1. sent = <<>> /\ spoilt = "no" /\ pipe = <<>> /\ buffer = <<>> /\ decoded = <<>>
        /\ threw = FALSE
  BY Zenon DEF Untouched
<1>2. Typed' /\ Prefix' /\ Stopped' /\ Small'
  BY Zenon DEF OutputInv, Typed, Prefix, Stopped, Small
<1>3. InStep'
  <2>1. PICK w : w = [i \in 0 .. 0 |-> <<>>]
    OBVIOUS
  <2>2. Stream(<<>>, <<>>, w)
    BY <2>1, StreamOfNothing, Zenon
  <2>3. w[0] = <<>> /\ Len(<<>>) = 0 /\ <<>> \o <<>> = <<>>
    BY <2>1
  <2>4. TailIs(<<>>)'
    <3>1. spoilt' = "no" /\ spoilt' # "noise" /\ spoilt' # "torn"
      BY <1>1
    <3>2. QED
      BY <3>1, Zenon DEF TailIs
  <2>5. sent' = <<>> /\ pipe' = <<>> /\ buffer' = <<>> /\ decoded' = <<>>
    BY <1>1
  <2>6. QED
    BY <2>2, <2>3, <2>4, <2>5, Zenon DEF InStep
<1>4. QED
  BY <1>2, <1>3 DEF OutputInv

(* A loop that has ended reads no more.                                    *)
LEMMA OutputClosed ==
  ASSUME OutputInv, loop' = "ended", pipe' = <<>>, UNCHANGED <<sent, spoilt, buffer, decoded,
         threw>>
  PROVE  OutputInv'
<1>1. <<>> \in Seq(Byte)
  OBVIOUS
<1>2. Typed' /\ Prefix' /\ Stopped' /\ Small' /\ InStep'
  BY <1>1, Zenon DEF OutputInv, Typed, Prefix, Stopped, Small, InStep
<1>3. QED
  BY <1>2 DEF OutputInv

-----------------------------------------------------------------------------
(* The handshake.                                                          *)

(* i is the least of S.                                                    *)
IsLeast(i, S) == i \in S /\ \A j \in S : i <= j

(* Min of the frames for id 0 is their least.                              *)
LEMMA LeastOwn ==
  ASSUME NEW S, NEW s \in Seq(S), Own(s) # {}
  PROVE  IsLeast(Min(Own(s)), Own(s))
<1>1. Own(s) \subseteq Nat
  BY DEF Own
<1>2. PICK n \in Own(s) : \A m \in Own(s) : ~ (<<m, n>> \in Less)
  BY <1>1, LessWellFounded, WFMin
<1>3. \A m \in Own(s) : n <= m
  <2>1. SUFFICES ASSUME NEW m \in Own(s), ~(n <= m) PROVE FALSE
    OBVIOUS
  <2>2. m \in Nat /\ n \in Nat
    BY <1>1
  <2>3. m < n
    BY <2>1, <2>2
  <2>4. QED
    BY <1>2, <2>2, <2>3 DEF Less
<1>4. QED
  BY <1>3, Zenon DEF Min, IsLeast

(* FirstOwn is the frame at the least of them,                             *)
LEMMA FirstIs ==
  ASSUME NEW S, NEW s \in Seq(S), NEW i, IsLeast(i, Own(s))
  PROVE  Own(s) # {} /\ FirstOwn(s) = s[i]
<1>1. Own(s) # {} /\ i \in Nat
  BY DEF IsLeast, Own
<1>2. IsLeast(Min(Own(s)), Own(s))
  BY <1>1, LeastOwn
<1>3. Min(Own(s)) \in Nat
  BY <1>2 DEF IsLeast, Own
<1>4. i <= Min(Own(s)) /\ Min(Own(s)) <= i
  BY <1>2, Zenon DEF IsLeast
<1>5. i = Min(Own(s))
  BY <1>1, <1>3, <1>4
<1>6. QED
  BY <1>1, <1>5, Zenon DEF FirstOwn

(* one of the sequence.                                                    *)
LEMMA FirstTyped ==
  ASSUME NEW S, NEW s \in Seq(S), Own(s) # {}
  PROVE  FirstOwn(s) \in S
<1>1. Min(Own(s)) \in DOMAIN s
  BY LeastOwn, Zenon DEF IsLeast, Own
<1>2. QED
  BY <1>1 DEF FirstOwn

(* The frames for id 0 of two sequences put together.                      *)
LEMMA OwnParts ==
  ASSUME NEW S, NEW s \in Seq(S), NEW t \in Seq(S)
  PROVE  /\ \A i \in 1 .. Len(s) : i \in Own(s) <=> i \in Own(s \o t)
         /\ \A i \in 1 .. Len(t) : i \in Own(t) <=> Len(s) + i \in Own(s \o t)
         /\ Own(s) \subseteq 1 .. Len(s) /\ Own(t) \subseteq 1 .. Len(t)
         /\ Own(s \o t) \subseteq 1 .. Len(s) + Len(t)
<1>1. s \o t \in Seq(S) /\ Len(s \o t) = Len(s) + Len(t) /\ Len(s) \in Nat /\ Len(t) \in Nat
  OBVIOUS
<1>2. DOMAIN s = 1 .. Len(s) /\ DOMAIN t = 1 .. Len(t) /\ DOMAIN (s \o t) = 1 .. Len(s) + Len(t)
  BY <1>1
<1>3. \A i \in 1 .. Len(s) : (s \o t)[i] = s[i] /\ i \in 1 .. Len(s) + Len(t)
  OBVIOUS
<1>4. \A i \in 1 .. Len(t) : (s \o t)[Len(s) + i] = t[i] /\ Len(s) + i \in 1 .. Len(s) + Len(t)
  OBVIOUS
<1>5. QED
  BY <1>2, <1>3, <1>4, Zenon DEF Own

(* The first of them is the first of the first part that has any.          *)
LEMMA OwnOfBoth ==
  ASSUME NEW S, NEW s \in Seq(S), NEW t \in Seq(S)
  PROVE  /\ Own(s) # {} => Own(s \o t) # {} /\ FirstOwn(s \o t) = FirstOwn(s)
         /\ Own(s) = {} /\ Own(t) # {} => Own(s \o t) # {} /\ FirstOwn(s \o t) = FirstOwn(t)
         /\ Own(s) = {} /\ Own(t) = {} => Own(s \o t) = {}
<1>1. PICK st : st = s \o t
  OBVIOUS
<1>2. /\ \A i \in 1 .. Len(s) : i \in Own(s) <=> i \in Own(st)
      /\ \A i \in 1 .. Len(t) : i \in Own(t) <=> Len(s) + i \in Own(st)
      /\ Own(s) \subseteq 1 .. Len(s) /\ Own(t) \subseteq 1 .. Len(t)
      /\ Own(st) \subseteq 1 .. Len(s) + Len(t)
      /\ Len(s) \in Nat /\ Len(t) \in Nat
  BY <1>1, OwnParts
<1>3. st \in Seq(S)
  BY <1>1
<1>4. \A j \in Own(st) : j \notin 1 .. Len(s) => j - Len(s) \in Own(t) /\ j \in Nat
        /\ j > Len(s)
  <2>1. SUFFICES ASSUME NEW j \in Own(st), j \notin 1 .. Len(s)
                 PROVE j - Len(s) \in Own(t) /\ j \in Nat /\ j > Len(s)
    OBVIOUS
  <2>2. j \in 1 .. Len(s) + Len(t)
    BY <1>2
  <2>3. j \in Nat /\ j > Len(s) /\ j - Len(s) \in 1 .. Len(t) /\ Len(s) + (j - Len(s)) = j
    BY <1>2, <2>1, <2>2
  <2>4. QED
    BY <1>2, <2>3, Zenon
<1>5. ASSUME Own(s) # {} PROVE Own(st) # {} /\ FirstOwn(st) = FirstOwn(s)
  <2>1. PICK i : i = Min(Own(s))
    OBVIOUS
  <2>2. i \in Own(s) /\ \A j \in Own(s) : i <= j
    BY <1>5, <2>1, LeastOwn, Zenon DEF IsLeast
  <2>3. i \in 1 .. Len(s) /\ i \in Own(st)
    BY <1>2, <2>2, Zenon
  <2>4. \A j \in Own(st) : i <= j
    <3>1. SUFFICES ASSUME NEW j \in Own(st) PROVE i <= j
      OBVIOUS
    <3>2. CASE j \in 1 .. Len(s)
      BY <1>2, <2>2, <3>2, Zenon
    <3>3. CASE j \notin 1 .. Len(s)
      <4>1. j \in Nat /\ j > Len(s)
        BY <1>4, <3>3, Zenon
      <4>2. QED
        BY <1>2, <2>3, <4>1
    <3>4. QED
      BY <3>2, <3>3
  <2>5. Own(st) # {} /\ FirstOwn(st) = st[i]
    BY <1>3, <2>3, <2>4, FirstIs DEF IsLeast
  <2>6. st[i] = s[i]
    BY <1>1, <2>3
  <2>7. QED
    BY <2>1, <2>5, <2>6, Zenon DEF FirstOwn
<1>6. ASSUME Own(s) = {}, Own(t) # {} PROVE Own(st) # {} /\ FirstOwn(st) = FirstOwn(t)
  <2>1. PICK i : i = Min(Own(t))
    OBVIOUS
  <2>2. i \in Own(t) /\ \A j \in Own(t) : i <= j
    BY <1>6, <2>1, LeastOwn, Zenon DEF IsLeast
  <2>3. i \in 1 .. Len(t) /\ Len(s) + i \in Own(st)
    BY <1>2, <2>2, Zenon
  <2>4. \A j \in Own(st) : Len(s) + i <= j
    <3>1. SUFFICES ASSUME NEW j \in Own(st) PROVE Len(s) + i <= j
      OBVIOUS
    <3>2. j \notin 1 .. Len(s)
      BY <1>2, <1>6, Zenon
    <3>3. j - Len(s) \in Own(t) /\ j \in Nat
      BY <1>4, <3>2, Zenon
    <3>4. i <= j - Len(s)
      BY <2>2, <3>3, Zenon
    <3>5. QED
      BY <1>2, <2>3, <3>3, <3>4
  <2>5. Own(st) # {} /\ FirstOwn(st) = st[Len(s) + i]
    BY <1>3, <2>3, <2>4, FirstIs DEF IsLeast
  <2>6. st[Len(s) + i] = t[i]
    BY <1>1, <2>3
  <2>7. QED
    BY <2>1, <2>5, <2>6, Zenon DEF FirstOwn
<1>7. ASSUME Own(s) = {}, Own(t) = {} PROVE Own(st) = {}
  <2>1. SUFFICES ASSUME NEW j \in Own(st) PROVE FALSE
    OBVIOUS
  <2>2. j \notin 1 .. Len(s)
    BY <1>2, <1>7, Zenon
  <2>3. QED
    BY <1>4, <1>7, <2>2, Zenon
<1>8. QED
  BY <1>1, <1>5, <1>6, <1>7, Zenon

(* So a beginning that has one has the first.                              *)
LEMMA OwnOfPrefix ==
  ASSUME NEW S, NEW s \in Seq(S), NEW n \in 0 .. Len(s), Own(SubSeq(s, 1, n)) # {}
  PROVE  Own(s) # {} /\ FirstOwn(s) = FirstOwn(SubSeq(s, 1, n))
<1>1. SubSeq(s, 1, n) \in Seq(S)
  OBVIOUS
<1>2. From(s, n) \in Seq(S)
  BY FromTyped
<1>3. SubSeq(s, 1, n) \o From(s, n) = s
  <2>1. 1 \in 1 .. Len(s) + 1 /\ n \in 1 - 1 .. Len(s) /\ Len(s) \in n .. Len(s)
    OBVIOUS
  <2>2. SubSeq(s, 1, n) \o SubSeq(s, n + 1, Len(s)) = SubSeq(s, 1, Len(s))
    BY <2>1, ConcatAdjacentSubSeq, Zenon
  <2>3. SubSeq(s, 1, Len(s)) = s
    BY SubSeqFull
  <2>4. QED
    BY <2>2, <2>3, Zenon DEF From
<1>4. Own(SubSeq(s, 1, n) \o From(s, n)) # {} /\ FirstOwn(SubSeq(s, 1, n) \o From(s,
        n)) = FirstOwn(SubSeq(s, 1, n))
  BY <1>1, <1>2, OwnOfBoth
<1>5. QED
  BY <1>3, <1>4, Zenon

(* Where the start, the child and its loops can be.                        *)
States ==
  /\ proc \in {"absent", "running", "exited"}
  /\ loop \in {"reading", "killing", "ended"} /\ watch \in {"watching", "ended"}
  /\ dead \in {"none", "protocol", "exited", "version"}
  /\ pending \in {"none", "hello", "shutdown"}
  /\ answer \in {NoAnswer, Failed} \cup Said
  /\ start \in {"resolving", "spawned", "awaiting", "killing", "up", "failed"}
  /\ window \in Nat /\ outOfTime \in BOOLEAN
  /\ scope \in {"open", "closing", "waiting", "killing", "closed"}

(* While the entry of id 0 waits, nothing has answered it.                 *)
Waiting ==
  pending = "hello" => Own(decoded) = {} /\ answer = NoAnswer /\ dead = "none"

(* Its answer is the first frame for id 0 that was read, and a hello ack.  *)
Answered ==
  answer \in Said => /\ Own(decoded) # {} /\ FirstOwn(decoded) = answer
                     /\ IsHelloAck(answer)

(* A start that succeeded agreed on the version, with the window of that   *)
(* answer.                                                                 *)
Up ==
  start = "up" => /\ answer \in Said /\ answer.meta[1] = Version
                  /\ window = Negotiated(answer.meta)

(* A reason to refuse: the child is gone, its output spoilt, time has      *)
(* passed, or its first frame for id 0 does not agree.                     *)
Excuse ==
  \/ proc = "exited" \/ spoilt # "no" \/ outOfTime = TRUE
  \/ Own(sent) # {} /\ ~AgreedWith(FirstOwn(sent))

(* The entry fails for such a reason.                                      *)
Refusal == answer = Failed => Excuse

(* A start that failed leaves no child running, unless time has passed or  *)
(* the entry failed.                                                       *)
Down == start = "failed" => proc # "running" \/ outOfTime = TRUE \/ answer = Failed

(* The inductive invariant of the handshake.                               *)
HelloInv == States /\ Waiting /\ Answered /\ Up /\ Refusal /\ Down

(* No frame is one of the marks for a missing or failed answer.            *)
LEMMA Answers == NoAnswer \notin Said /\ Failed \notin Said /\ NoAnswer # Failed
BY SaidAssumption

(* Initially it holds.                                                     *)
LEMMA HelloStarts == StartInit => HelloInv
<1>1. SUFFICES ASSUME StartInit PROVE HelloInv
  OBVIOUS
<1>2. States
  BY <1>1, WindowAssumption DEF StartInit, States
<1>3. Waiting /\ Answered /\ Up /\ Refusal /\ Down
  <2>1. pending = "none" /\ answer = NoAnswer /\ start = "resolving"
    BY <1>1 DEF StartInit
  <2>2. pending # "hello" /\ start # "up" /\ start # "failed"
    BY <2>1
  <2>3. QED
    BY <2>1, <2>2, Answers, Zenon DEF Waiting, Answered, Up, Refusal, Down
<1>4. QED
  BY <1>2, <1>3 DEF HelloInv

(* What no step takes back.                                                *)
Grows ==
  /\ proc = "exited" => proc' = "exited"
  /\ spoilt # "no" => spoilt' # "no"
  /\ outOfTime = TRUE => outOfTime' = TRUE
  /\ Own(sent) # {} => Own(sent') # {} /\ FirstOwn(sent') = FirstOwn(sent)
  /\ Own(decoded) # {} => Own(decoded') # {} /\ FirstOwn(decoded') = FirstOwn(decoded)

(* A reason stays one.                                                     *)
LEMMA ExcuseStays == ASSUME Grows, Excuse PROVE Excuse'
BY Zenon DEF Grows, Excuse

(* The entry of id 0 stays as it is.                                       *)
LEMMA EntryStays ==
  ASSUME HelloInv, Grows, UNCHANGED <<dead, pending, answer>>,
         pending = "hello" => Own(decoded') = {}
  PROVE  Waiting' /\ Answered' /\ Refusal'
<1>1. Waiting'
  BY Zenon DEF HelloInv, Waiting
<1>2. Answered'
  BY Zenon DEF HelloInv, Answered, Grows
<1>3. Refusal'
  BY ExcuseStays, Zenon DEF HelloInv, Refusal
<1>4. QED
  BY <1>1, <1>2, <1>3

(* markDead fails it.                                                      *)
LEMMA EntryFails ==
  ASSUME HelloInv, Grows, NEW error \in {"protocol", "exited", "version"}, MarkDead(error),
         pending = "hello" => Excuse'
  PROVE  /\ Waiting' /\ Answered' /\ Refusal'
         /\ dead' \in {"none", "protocol", "exited", "version"}
         /\ pending' \in {"none", "hello", "shutdown"}
         /\ answer' \in {NoAnswer, Failed} \cup Said
         /\ answer # NoAnswer => answer' = answer
<1>1. /\ dead \in {"none", "protocol", "exited", "version"}
      /\ pending \in {"none", "hello", "shutdown"}
      /\ answer \in {NoAnswer, Failed} \cup Said
  BY DEF HelloInv, States
<1>2. CASE dead # "none"
  <2>1. UNCHANGED <<dead, pending, answer>> /\ pending # "hello"
    BY <1>2, Zenon DEF MarkDead, HelloInv, Waiting
  <2>2. QED
    BY <1>1, <2>1, EntryStays, Zenon
<1>3. CASE dead = "none"
  <2>1. dead' = error /\ pending' = "none"
          /\ answer' = (IF pending = "hello" THEN Failed ELSE answer)
    BY <1>3, Zenon DEF MarkDead
  <2>2. dead' \in {"none", "protocol", "exited", "version"} /\ pending' \in {"none", "hello",
          "shutdown"} /\ pending' # "hello"
    BY <2>1
  <2>3. answer' \in {NoAnswer, Failed} \cup Said
    BY <1>1, <2>1
  <2>4. Waiting'
    BY <2>2, Zenon DEF Waiting
  <2>5. CASE pending = "hello"
    <3>1. answer' = Failed /\ answer = NoAnswer
      BY <2>1, <2>5, Zenon DEF HelloInv, Waiting
    <3>2. Answered' /\ Refusal'
      BY <2>5, <3>1, Answers, Zenon DEF Answered, Refusal
    <3>3. QED
      BY <2>2, <2>3, <2>4, <3>1, <3>2, Zenon
  <2>6. CASE pending # "hello"
    <3>1. answer' = answer
      BY <2>1, <2>6, Zenon
    <3>2. Answered' /\ Refusal'
      BY <3>1, ExcuseStays, Zenon DEF HelloInv, Answered, Refusal, Grows
    <3>3. QED
      BY <2>2, <2>3, <2>4, <3>1, <3>2, Zenon
  <2>7. QED
    BY <2>5, <2>6
<1>4. QED
  BY <1>2, <1>3

(* A start that goes no further keeps what it has settled.                 *)
LEMMA StartStays ==
  ASSUME HelloInv, Grows, UNCHANGED <<start, window>>, answer # NoAnswer => answer' = answer,
         proc' = "running" => proc = "running"
  PROVE  Up' /\ Down'
<1>1. Up'
  <2>1. SUFFICES ASSUME start' = "up"
                 PROVE answer' \in Said /\ answer'.meta[1] = Version
                       /\ window' = Negotiated(answer'.meta)
    BY Zenon DEF Up
  <2>2. answer \in Said /\ answer.meta[1] = Version /\ window = Negotiated(answer.meta)
    BY <2>1, Zenon DEF HelloInv, Up
  <2>3. answer' = answer
    BY <2>2, Answers, Zenon
  <2>4. QED
    BY <2>2, <2>3, Zenon
<1>2. Down'
  <2>1. answer = Failed => answer' = Failed
    BY Answers, Zenon
  <2>2. QED
    BY <2>1, Zenon DEF HelloInv, Down, Grows
<1>3. QED
  BY <1>1, <1>2

(* The window agreed on is a positive number, the default where the Bridge *)
(* names none.                                                             *)
LEMMA NegotiatedTyped ==
  ASSUME NEW f \in Said, IsHelloAck(f)
  PROVE  Negotiated(f.meta) \in Nat /\ Negotiated(f.meta) > 0
<1>1. PICK m : m = f.meta
  OBVIOUS
<1>2. m \in Seq(Byte) /\ Len(m) \in {1, 2}
  <2>1. f.meta \in Seq(Byte)
    BY SaidAssumption
  <2>2. QED
    BY <1>1, <2>1, Zenon DEF IsHelloAck, DecodesHello
<1>3. DefaultWindow \in Nat /\ DefaultWindow > 0
  BY WindowAssumption
<1>4. CASE Len(m) = 1 \/ m[2] = 0
  BY <1>1, <1>3, <1>4, Zenon DEF Negotiated
<1>5. CASE ~(Len(m) = 1 \/ m[2] = 0)
  <2>1. Len(m) = 2
    BY <1>2, <1>5
  <2>2. m[2] \in Byte
    BY <1>2, <2>1
  <2>3. m[2] \in Nat /\ m[2] # 0
    BY <1>5, <2>2, ByteTypes
  <2>4. m[2] > 0
    BY <2>3
  <2>5. QED
    BY <1>1, <1>5, <2>3, <2>4, Zenon DEF Negotiated
<1>6. QED
  BY <1>4, <1>5

(* The inductive invariant of the start.                                   *)
StartInv == OutputInv /\ Untouched /\ HelloInv

(* A step that neither says nor reads takes nothing back.                  *)
LEMMA NothingNew ==
  ASSUME UNCHANGED <<sent, decoded>>, proc = "exited" => proc' = "exited",
         spoilt # "no" => spoilt' # "no", outOfTime = TRUE => outOfTime' = TRUE
  PROVE  Grows
BY Zenon DEF Grows

(* The Bridge says a frame.                                                *)
LEMMA SaySteps ==
  ASSUME StartInv, NEW f \in Said, Say(f)
  PROVE  StartInv'
<1>1. /\ sent' = Append(sent, f) /\ loop # "ended"
      /\ UNCHANGED <<proc, spoilt, decoded, loop, watch, dead, pending, answer, start, window,
         outOfTime, scope>>
  BY DEF Say, entry
<1>2. OutputInv'
  BY OutputSay, Zenon DEF StartInv
<1>3. Untouched'
  BY <1>1, Zenon DEF StartInv, Untouched
<1>4. Own(sent) # {} => Own(sent') # {} /\ FirstOwn(sent') = FirstOwn(sent)
  <2>1. sent \in Seq(Said)
    BY DEF StartInv, OutputInv, Typed
  <2>2. <<f>> \in Seq(Said) /\ Append(sent, f) = sent \o <<f>>
    BY <2>1
  <2>3. Own(sent) # {} => Own(sent \o <<f>>) # {} /\ FirstOwn(sent \o <<f>>) = FirstOwn(sent)
    BY <2>1, <2>2, OwnOfBoth
  <2>4. QED
    BY <1>1, <2>2, <2>3, Zenon
<1>5. Grows
  BY <1>1, <1>4, Zenon DEF Grows
<1>6. HelloInv
  BY DEF StartInv
<1>7. Waiting' /\ Answered' /\ Refusal'
  BY <1>1, <1>5, <1>6, EntryStays, Zenon DEF HelloInv, Waiting
<1>8. Up' /\ Down'
  BY <1>1, <1>5, <1>6, StartStays, Zenon
<1>9. States'
  BY <1>1, <1>6 DEF HelloInv, States
<1>10. QED
  BY <1>2, <1>3, <1>7, <1>8, <1>9, Zenon DEF StartInv, HelloInv

(* Something else writes to its output.                                    *)
LEMMA GarbleSteps ==
  ASSUME StartInv, NEW bytes \in Noise, Garble(bytes)
  PROVE  StartInv'
<1>1. /\ loop # "ended" /\ spoilt = "no" /\ spoilt' = "noise" /\ pipe' = pipe \o bytes
      /\ UNCHANGED <<proc, sent, buffer, decoded, threw, loop, watch, dead, pending, answer,
         start, window, outOfTime, scope>>
  BY DEF Garble, entry
<1>2. bytes \in Seq(Byte)
  BY OutputAssumption, Zenon DEF Refused
<1>3. TailIs(bytes)'
  <2>1. spoilt' # "no" /\ spoilt' # "torn"
    BY <1>1
  <2>2. QED
    BY <2>1, Zenon DEF TailIs
<1>4. OutputInv'
  <2>1. spoilt' \in {"noise", "torn"}
    BY <1>1
  <2>2. QED
    BY <1>1, <1>2, <1>3, <2>1, OutputSpoilt, Zenon DEF StartInv
<1>5. Untouched'
  BY <1>1, Zenon DEF StartInv, Untouched
<1>6. HelloInv /\ Grows
  <2>1. spoilt' # "no"
    BY <1>1
  <2>2. QED
    BY <1>1, <2>1, NothingNew, Zenon DEF StartInv
<1>7. Waiting' /\ Answered' /\ Refusal'
  BY <1>1, <1>6, EntryStays, Zenon DEF HelloInv, Waiting
<1>8. Up' /\ Down'
  BY <1>1, <1>6, StartStays, Zenon
<1>9. States'
  BY <1>1, <1>6 DEF HelloInv, States
<1>10. QED
  BY <1>4, <1>5, <1>7, <1>8, <1>9, Zenon DEF StartInv, HelloInv

(* The child exits, perhaps in the middle of a frame.                      *)
LEMMA ExitSteps ==
  ASSUME StartInv, Exit
  PROVE  StartInv'
<1>1. /\ proc = "running" /\ proc' = "exited"
      /\ UNCHANGED <<sent, buffer, decoded, threw, loop, watch, dead, pending, answer, start,
         window, outOfTime, scope>>
  BY DEF Exit, entry
<1>2. ASSUME UNCHANGED <<spoilt, pipe>> PROVE OutputInv' /\ Grows
  <2>1. OutputInv'
    BY <1>1, <1>2, OutputKept, Zenon DEF StartInv
  <2>2. Grows
    BY <1>1, <1>2, NothingNew, Zenon
  <2>3. QED
    BY <2>1, <2>2
<1>3. ASSUME spoilt = "no", loop # "ended", spoilt' = "torn",
             \E bytes \in Torn : pipe' = pipe \o bytes
      PROVE  OutputInv' /\ Grows
  <2>1. PICK bytes \in Torn : pipe' = pipe \o bytes
    BY <1>3
  <2>2. bytes \in Seq(Byte)
    BY <2>1, OutputAssumption, Zenon DEF Unfinished
  <2>3. spoilt' # "no" /\ spoilt' # "noise" /\ spoilt' \in {"noise", "torn"}
    BY <1>3
  <2>4. TailIs(bytes)'
    BY <2>1, <2>3, Zenon DEF TailIs
  <2>5. OutputInv'
    BY <1>1, <1>3, <2>1, <2>2, <2>3, <2>4, OutputSpoilt, Zenon DEF StartInv
  <2>6. Grows
    BY <1>1, <2>3, NothingNew, Zenon
  <2>7. QED
    BY <2>5, <2>6
<1>4. OutputInv' /\ Grows
  BY <1>2, <1>3, Zenon DEF Exit
<1>5. Untouched'
  <2>1. proc # "absent"
    BY <1>1
  <2>2. QED
    BY <1>1, <2>1, Zenon DEF StartInv, Untouched
<1>6. HelloInv
  BY DEF StartInv
<1>7. Waiting' /\ Answered' /\ Refusal'
  BY <1>1, <1>4, <1>6, EntryStays, Zenon DEF HelloInv, Waiting
<1>8. Up' /\ Down'
  BY <1>1, <1>4, <1>6, StartStays, Zenon
<1>9. States'
  <2>1. proc' \in {"absent", "running", "exited"}
    BY <1>1
  <2>2. QED
    BY <1>1, <1>6, <2>1 DEF HelloInv, States
<1>10. QED
  BY <1>4, <1>5, <1>7, <1>8, <1>9, Zenon DEF StartInv, HelloInv

(* The frames of one chunk are handled: the first for id 0 decides the     *)
(* entry that waits.                                                       *)
LEMMA HandleKeeps ==
  ASSUME HelloInv, NEW batch \in Seq(Said), decoded \in Seq(Said), decoded' = decoded \o batch,
         Own(batch) # {} => Own(decoded) # {} \/ (Own(sent') # {}
           /\ FirstOwn(sent') = FirstOwn(batch)),
         Grows, HandleFrames(batch), loop = "reading"
  PROVE  /\ Waiting' /\ Answered' /\ Refusal'
         /\ dead' \in {"none", "protocol", "exited", "version"}
         /\ pending' \in {"none", "hello", "shutdown"}
         /\ answer' \in {NoAnswer, Failed} \cup Said
         /\ loop' \in {"reading", "killing", "ended"} /\ loop' # "ended"
         /\ answer # NoAnswer => answer' = answer
<1>1. /\ dead \in {"none", "protocol", "exited", "version"}
      /\ pending \in {"none", "hello", "shutdown"}
      /\ answer \in {NoAnswer, Failed} \cup Said
      /\ loop \in {"reading", "killing", "ended"} /\ loop # "ended"
  BY DEF HelloInv, States
<1>2. CASE Own(batch) = {} \/ pending = "none"
  <2>1. UNCHANGED <<dead, pending, answer, loop>>
    BY <1>2, Zenon DEF HandleFrames, entry
  <2>2. pending = "hello" => Own(decoded') = {}
    <3>1. SUFFICES ASSUME pending = "hello" PROVE Own(decoded') = {}
      OBVIOUS
    <3>2. Own(decoded) = {} /\ Own(batch) = {}
      BY <1>2, <3>1 DEF HelloInv, Waiting
    <3>3. Own(decoded \o batch) = {}
      BY <3>2, OwnOfBoth
    <3>4. QED
      BY <3>3, Zenon
  <2>3. QED
    BY <1>1, <2>1, <2>2, EntryStays, Zenon
<1>3. CASE /\ ~(Own(batch) = {} \/ pending = "none")
           /\ pending = "hello" /\ IsHelloAck(FirstOwn(batch))
  <2>1. pending' = "none" /\ answer' = FirstOwn(batch) /\ UNCHANGED <<dead, loop>>
    BY <1>3, Zenon DEF HandleFrames
  <2>2. Own(decoded) = {} /\ answer = NoAnswer
    BY <1>3, Zenon DEF HelloInv, Waiting
  <2>3. answer' \in Said
    BY <1>3, <2>1, FirstTyped
  <2>4. Own(decoded \o batch) # {} /\ FirstOwn(decoded \o batch) = FirstOwn(batch)
    BY <1>3, <2>2, OwnOfBoth
  <2>5. Answered'
    BY <1>3, <2>1, <2>4, Zenon DEF Answered
  <2>6. answer' # Failed
    BY <2>3, Answers, Zenon
  <2>7. pending' # "hello" /\ pending' \in {"none", "hello", "shutdown"}
    BY <2>1
  <2>8. Waiting' /\ Refusal'
    BY <2>6, <2>7, Zenon DEF Waiting, Refusal
  <2>9. answer' \in {NoAnswer, Failed} \cup Said
    BY <2>3
  <2>10. QED
    BY <1>1, <2>1, <2>2, <2>5, <2>7, <2>8, <2>9, Zenon
<1>4. ASSUME ~(Own(batch) = {} \/ pending = "none"),
             ~(pending = "hello" /\ IsHelloAck(FirstOwn(batch))), pending = "hello"
      PROVE  Excuse'
  <2>1. Own(decoded) = {}
    BY <1>4, Zenon DEF HelloInv, Waiting
  <2>2. Own(sent') # {} /\ FirstOwn(sent') = FirstOwn(batch)
    BY <1>4, <2>1, Zenon
  <2>3. ~AgreedWith(FirstOwn(sent'))
    BY <1>4, <2>2, Zenon DEF AgreedWith
  <2>4. QED
    BY <2>2, <2>3, Zenon DEF Excuse
<1>5. CASE /\ ~(Own(batch) = {} \/ pending = "none")
           /\ ~(pending = "hello" /\ IsHelloAck(FirstOwn(batch))) /\ IsError(FirstOwn(batch))
  <2>1. pending' = "none" /\ UNCHANGED <<dead, loop>>
          /\ answer' = (IF pending = "hello" THEN Failed ELSE answer)
    BY <1>5, Zenon DEF HandleFrames
  <2>2. pending' # "hello" /\ pending' \in {"none", "hello", "shutdown"}
    BY <2>1
  <2>3. Waiting'
    BY <2>2, Zenon DEF Waiting
  <2>4. CASE pending = "hello"
    <3>1. answer' = Failed /\ answer = NoAnswer
      BY <2>1, <2>4, Zenon DEF HelloInv, Waiting
    <3>2. Excuse'
      BY <1>4, <1>5, <2>4, Zenon
    <3>3. Answered' /\ Refusal'
      BY <3>1, <3>2, Answers, Zenon DEF Answered, Refusal
    <3>4. answer' \in {NoAnswer, Failed} \cup Said
      BY <3>1
    <3>5. QED
      BY <1>1, <2>1, <2>2, <2>3, <3>1, <3>3, <3>4, Zenon
  <2>5. CASE pending # "hello"
    <3>1. answer' = answer
      BY <2>1, <2>5, Zenon
    <3>2. Answered' /\ Refusal'
      BY <3>1, ExcuseStays, Zenon DEF HelloInv, Answered, Refusal, Grows
    <3>3. QED
      BY <1>1, <2>1, <2>2, <2>3, <3>1, <3>2, Zenon
  <2>6. QED
    BY <2>4, <2>5
<1>6. CASE /\ ~(Own(batch) = {} \/ pending = "none")
           /\ ~(pending = "hello" /\ IsHelloAck(FirstOwn(batch))) /\ ~IsError(FirstOwn(batch))
  <2>1. MarkDead("protocol") /\ loop' = "killing"
    BY <1>6, Zenon DEF HandleFrames
  <2>2. pending = "hello" => Excuse'
    BY <1>4, <1>6, Zenon
  <2>3. "protocol" \in {"protocol", "exited", "version"}
    OBVIOUS
  <2>4. loop' \in {"reading", "killing", "ended"} /\ loop' # "ended"
    BY <2>1
  <2>5. QED
    BY <2>1, <2>2, <2>3, <2>4, EntryFails, Zenon
<1>7. QED
  BY <1>2, <1>3, <1>5, <1>6, Zenon

(* The read loop takes a chunk of any size.                                *)
LEMMA ReadSteps ==
  ASSUME StartInv, ReadChunk
  PROVE  StartInv'
<1>1. /\ loop = "reading" /\ loop # "ended"
      /\ UNCHANGED <<proc, sent, spoilt, watch, start, window, outOfTime, scope>>
  BY DEF ReadChunk, process
<1>2. PICK n \in 1 .. Len(pipe) : \E r :
        /\ r = Push(buffer, SubSeq(pipe, 1, n))
        /\ pipe' = SubSeq(pipe, n + 1, Len(pipe))
        /\ buffer' = r.buffer /\ decoded' = decoded \o r.frames /\ threw' = (threw \/ r.threw)
        /\ IF r.threw THEN MarkDead("protocol") /\ loop' = "killing" ELSE HandleFrames(r.frames)
  BY Zenon DEF ReadChunk
<1>3. PICK r :
        /\ r = Push(buffer, SubSeq(pipe, 1, n))
        /\ pipe' = SubSeq(pipe, n + 1, Len(pipe))
        /\ buffer' = r.buffer /\ decoded' = decoded \o r.frames /\ threw' = (threw \/ r.threw)
        /\ IF r.threw THEN MarkDead("protocol") /\ loop' = "killing" ELSE HandleFrames(r.frames)
  BY <1>2, Zenon
<1>4. HelloInv /\ OutputInv
  BY DEF StartInv
<1>5. /\ OutputInv' /\ (r.threw => spoilt = "noise")
      /\ \E m \in Len(decoded) .. Len(sent) : r.frames = SubSeq(sent, Len(decoded) + 1, m)
  BY <1>1, <1>3, <1>4, OutputRead, Zenon
<1>6. sent \in Seq(Said) /\ decoded \in Seq(Said) /\ Len(decoded) \in 0 .. Len(sent)
      /\ decoded' \in Seq(Said) /\ Len(decoded') \in 0 .. Len(sent')
      /\ decoded' = SubSeq(sent', 1, Len(decoded'))
  BY <1>4, <1>5, Zenon DEF OutputInv, Typed, Prefix
<1>7. r.frames \in Seq(Said)
  <2>1. PICK m \in Len(decoded) .. Len(sent) : r.frames = SubSeq(sent, Len(decoded) + 1, m)
    BY <1>5, Zenon
  <2>2. PICK d : d = Len(decoded)
    OBVIOUS
  <2>3. SubSeq(sent, d + 1, m) \in Seq(Said)
    BY <1>6, <2>2
  <2>4. QED
    BY <2>1, <2>2, <2>3, Zenon
<1>8. Own(decoded) # {} => Own(decoded') # {} /\ FirstOwn(decoded') = FirstOwn(decoded)
  <2>1. Own(decoded) # {} => Own(decoded \o r.frames) # {}
          /\ FirstOwn(decoded \o r.frames) = FirstOwn(decoded)
    BY <1>6, <1>7, OwnOfBoth
  <2>2. QED
    BY <1>3, <2>1, Zenon
<1>9. Grows
  BY <1>1, <1>8, Zenon DEF Grows
<1>10. Own(r.frames) # {} => Own(decoded) # {} \/ (Own(sent') # {}
         /\ FirstOwn(sent') = FirstOwn(r.frames))
  <2>1. SUFFICES ASSUME Own(r.frames) # {}, Own(decoded) = {}
                 PROVE Own(sent') # {} /\ FirstOwn(sent') = FirstOwn(r.frames)
    BY Zenon
  <2>2. Own(decoded \o r.frames) # {} /\ FirstOwn(decoded \o r.frames) = FirstOwn(r.frames)
    BY <1>6, <1>7, <2>1, OwnOfBoth
  <2>3. Own(decoded') # {} /\ FirstOwn(decoded') = FirstOwn(r.frames)
    BY <1>3, <2>2, Zenon
  <2>4. sent' \in Seq(Said)
    BY <1>1, <1>6, Zenon
  <2>5. PICK d : d = Len(decoded')
    OBVIOUS
  <2>6. Own(SubSeq(sent', 1, d)) # {} /\ d \in 0 .. Len(sent')
    BY <1>6, <2>3, <2>5, Zenon
  <2>7. Own(sent') # {} /\ FirstOwn(sent') = FirstOwn(SubSeq(sent', 1, d))
    BY <2>4, <2>6, OwnOfPrefix
  <2>8. QED
    BY <1>6, <2>3, <2>5, <2>7, Zenon
<1>11. /\ Waiting' /\ Answered' /\ Refusal'
       /\ dead' \in {"none", "protocol", "exited", "version"}
       /\ pending' \in {"none", "hello", "shutdown"}
       /\ answer' \in {NoAnswer, Failed} \cup Said
       /\ loop' \in {"reading", "killing", "ended"} /\ loop' # "ended"
       /\ answer # NoAnswer => answer' = answer
  <2>1. CASE r.threw
    <3>1. MarkDead("protocol") /\ loop' = "killing"
      BY <1>3, <2>1, Zenon
    <3>2. spoilt' # "no"
      BY <1>1, <1>5, <2>1
    <3>3. Excuse'
      BY <3>2, Zenon DEF Excuse
    <3>4. "protocol" \in {"protocol", "exited", "version"}
      OBVIOUS
    <3>5. loop' \in {"reading", "killing", "ended"} /\ loop' # "ended"
      BY <3>1
    <3>6. QED
      BY <1>4, <1>9, <3>1, <3>3, <3>4, <3>5, EntryFails, Zenon
  <2>2. CASE ~r.threw
    <3>1. HandleFrames(r.frames)
      BY <1>3, <2>2, Zenon
    <3>2. QED
      BY <1>1, <1>3, <1>4, <1>6, <1>7, <1>9, <1>10, <3>1, HandleKeeps, Zenon
  <2>3. QED
    BY <2>1, <2>2
<1>12. Up' /\ Down'
  BY <1>1, <1>4, <1>9, <1>11, StartStays, Zenon
<1>13. States'
  BY <1>1, <1>4, <1>11 DEF HelloInv, States
<1>14. Untouched'
  BY <1>1, Zenon DEF StartInv, Untouched
<1>15. QED
  BY <1>5, <1>11, <1>12, <1>13, <1>14, Zenon DEF StartInv, HelloInv

(* A step that touches neither the stream nor the entry.                   *)
LEMMA QuietSteps ==
  ASSUME StartInv, UNCHANGED <<sent, spoilt, pipe, buffer, decoded, threw, dead, pending,
         answer>>,
         loop' # "ended" => loop # "ended", start # "resolving", start' # "resolving",
         proc = "exited" => proc' = "exited", outOfTime = TRUE => outOfTime' = TRUE
  PROVE  /\ OutputInv' /\ Untouched' /\ Grows /\ HelloInv
         /\ Waiting' /\ Answered' /\ Refusal'
<1>1. OutputInv'
  BY OutputKept, Zenon DEF StartInv
<1>2. Grows /\ HelloInv
  BY NothingNew, Zenon DEF StartInv
<1>3. Untouched'
  BY Zenon DEF Untouched
<1>4. Waiting' /\ Answered' /\ Refusal'
  BY <1>2, EntryStays, Zenon DEF HelloInv, Waiting
<1>5. QED
  BY <1>1, <1>2, <1>3, <1>4

(* A step that marks the service dead and leaves the stream alone.         *)
LEMMA MarkSteps ==
  ASSUME StartInv, UNCHANGED <<sent, spoilt, pipe, buffer, decoded, threw>>,
         loop' # "ended" => loop # "ended", start # "resolving", start' # "resolving",
         proc = "exited" => proc' = "exited", outOfTime = TRUE => outOfTime' = TRUE,
         NEW error \in {"protocol", "exited", "version"}, MarkDead(error),
         pending = "hello" => Excuse'
  PROVE  /\ OutputInv' /\ Untouched' /\ Grows /\ HelloInv
         /\ Waiting' /\ Answered' /\ Refusal'
         /\ dead' \in {"none", "protocol", "exited", "version"}
         /\ pending' \in {"none", "hello", "shutdown"}
         /\ answer' \in {NoAnswer, Failed} \cup Said
         /\ answer # NoAnswer => answer' = answer
<1>1. OutputInv'
  BY OutputKept, Zenon DEF StartInv
<1>2. Grows /\ HelloInv
  BY NothingNew, Zenon DEF StartInv
<1>3. Untouched'
  BY Zenon DEF Untouched
<1>4. QED
  BY <1>1, <1>2, <1>3, EntryFails, Zenon

(* What runs was started.                                                  *)
LEMMA Started ==
  ASSUME StartInv
  PROVE  /\ loop # "ended" \/ watch = "watching" \/ scope # "open" => start # "resolving"
         /\ proc # "absent" => start # "resolving"
BY Zenon DEF StartInv, Untouched, HelloInv, States

(* The read loop after a failure or at the end of the output, and the      *)
(* watch on the child.                                                     *)
LEMMA LoopSteps ==
  ASSUME StartInv, KillAfterFailure \/ EndOfOutput \/ ObserveExit
  PROVE  StartInv'
<1>1. CASE KillAfterFailure
  <2>1. /\ loop = "killing" /\ loop' = "reading" /\ proc' = "exited"
        /\ UNCHANGED <<sent, spoilt, pipe, buffer, decoded, threw, watch, dead, pending,
           answer, start, window, outOfTime, scope>>
    BY <1>1 DEF KillAfterFailure, process, output, entry
  <2>2. loop # "ended" /\ proc' # "running"
    BY <2>1
  <2>3. start # "resolving"
    BY <2>2, Started, Zenon
  <2>4. OutputInv' /\ Untouched' /\ Grows /\ HelloInv /\ Waiting' /\ Answered' /\ Refusal'
    BY <2>1, <2>2, <2>3, QuietSteps, Zenon
  <2>5. Up' /\ Down'
    BY <2>1, <2>2, <2>4, StartStays, Zenon
  <2>6. States'
    BY <2>1, <2>4 DEF HelloInv, States
  <2>7. QED
    BY <2>4, <2>5, <2>6, Zenon DEF StartInv, HelloInv
<1>2. CASE EndOfOutput
  <2>1. /\ loop = "reading" /\ loop' = "ended" /\ proc = "exited"
        /\ \E error \in {"protocol", "exited", "version"} : MarkDead(error)
        /\ UNCHANGED <<proc, sent, spoilt, pipe, buffer, decoded, threw, watch, start, window,
           outOfTime, scope>>
    BY <1>2 DEF EndOfOutput, process, output
  <2>2. PICK error \in {"protocol", "exited", "version"} : MarkDead(error)
    BY <2>1
  <2>3. loop # "ended" /\ start # "resolving"
    BY <2>1, Started
  <2>4. Excuse'
    BY <2>1, Zenon DEF Excuse
  <2>5. /\ OutputInv' /\ Untouched' /\ Grows /\ HelloInv /\ Waiting' /\ Answered' /\ Refusal'
        /\ dead' \in {"none", "protocol", "exited", "version"}
        /\ pending' \in {"none", "hello", "shutdown"}
        /\ answer' \in {NoAnswer, Failed} \cup Said
        /\ answer # NoAnswer => answer' = answer
    BY <2>1, <2>2, <2>3, <2>4, MarkSteps, Zenon
  <2>6. Up' /\ Down'
    BY <2>1, <2>5, StartStays, Zenon
  <2>7. States'
    BY <2>1, <2>5 DEF HelloInv, States
  <2>8. QED
    BY <2>5, <2>6, <2>7, Zenon DEF StartInv, HelloInv
<1>3. CASE ObserveExit
  <2>1. /\ watch = "watching" /\ watch' = "ended" /\ proc = "exited" /\ MarkDead("exited")
        /\ UNCHANGED <<proc, sent, spoilt, pipe, buffer, decoded, threw, loop, start, window,
           outOfTime, scope>>
    BY <1>3 DEF ObserveExit, process, output
  <2>2. start # "resolving" /\ "exited" \in {"protocol", "exited", "version"}
    BY <2>1, Started
  <2>3. Excuse'
    BY <2>1, Zenon DEF Excuse
  <2>4. /\ OutputInv' /\ Untouched' /\ Grows /\ HelloInv /\ Waiting' /\ Answered' /\ Refusal'
        /\ dead' \in {"none", "protocol", "exited", "version"}
        /\ pending' \in {"none", "hello", "shutdown"}
        /\ answer' \in {NoAnswer, Failed} \cup Said
        /\ answer # NoAnswer => answer' = answer
    BY <2>1, <2>2, <2>3, MarkSteps, Zenon
  <2>5. Up' /\ Down'
    BY <2>1, <2>4, StartStays, Zenon
  <2>6. States'
    BY <2>1, <2>4 DEF HelloInv, States
  <2>7. QED
    BY <2>4, <2>5, <2>6, Zenon DEF StartInv, HelloInv
<1>4. QED
  BY <1>1, <1>2, <1>3

(* The program is found and spawned, or is not.                            *)
LEMMA SpawnSteps ==
  ASSUME StartInv, Spawn
  PROVE  StartInv'
<1>1. start = "resolving" /\ UNCHANGED <<sent, spoilt, pipe, buffer, decoded, threw, dead,
        window, outOfTime, scope>>
  BY DEF Spawn, process, output
<1>2. /\ proc = "absent" /\ decoded = <<>> /\ dead = "none" /\ pending = "none"
         /\ answer = NoAnswer
      /\ OutputInv /\ HelloInv /\ Untouched
  BY <1>1, Zenon DEF StartInv, Untouched
<1>3. OutputInv'
  BY <1>1, <1>2, OutputAtSpawn, Zenon
<1>4. Own(<<>>) = {}
  BY DEF Own
<1>5. CASE NotFound
  <2>1. start' = "failed" /\ UNCHANGED <<proc, loop, watch, pending, answer>>
    BY <1>5 DEF NotFound, entry
  <2>2. start' # "resolving" /\ start' # "up" /\ proc' # "running" /\ pending' # "hello"
    BY <1>2, <2>1
  <2>3. Untouched' /\ Up' /\ Down' /\ Waiting'
    BY <2>2, Zenon DEF Untouched, Up, Down, Waiting
  <2>4. Answered' /\ Refusal'
    BY <1>2, <2>1, Answers, Zenon DEF Answered, Refusal
  <2>5. States'
    BY <1>1, <1>2, <2>1 DEF HelloInv, States
  <2>6. QED
    BY <1>3, <2>3, <2>4, <2>5, Zenon DEF StartInv, HelloInv
<1>6. CASE /\ start' = "spawned"
           /\ proc' = "running" /\ loop' = "reading" /\ watch' = "watching"
           /\ pending' = "hello" /\ UNCHANGED answer
  <2>1. start' # "resolving" /\ start' # "up" /\ start' # "failed"
    BY <1>6
  <2>2. Untouched' /\ Up' /\ Down'
    BY <2>1, Zenon DEF Untouched, Up, Down
  <2>3. Waiting' /\ Answered' /\ Refusal'
    BY <1>1, <1>2, <1>4, <1>6, Answers, Zenon DEF Waiting, Answered, Refusal
  <2>4. States'
    BY <1>1, <1>2, <1>6 DEF HelloInv, States
  <2>5. QED
    BY <1>3, <2>2, <2>3, <2>4, Zenon DEF StartInv, HelloInv
<1>7. QED
  BY <1>5, <1>6, Zenon DEF Spawn

(* The hello is sent, or cannot be.                                        *)
LEMMA SendSteps ==
  ASSUME StartInv, SendHello
  PROVE  StartInv'
<1>1. /\ start = "spawned" /\ start # "resolving"
      /\ UNCHANGED <<proc, sent, spoilt, pipe, buffer, decoded, threw, loop, watch, window,
         outOfTime, scope>>
  BY DEF SendHello, process, output
<1>2. CASE start' = "awaiting" /\ UNCHANGED <<dead, pending, answer>>
  <2>1. start' # "resolving" /\ start' # "up" /\ start' # "failed"
    BY <1>2
  <2>2. OutputInv' /\ Untouched' /\ Grows /\ HelloInv /\ Waiting' /\ Answered' /\ Refusal'
    BY <1>1, <1>2, <2>1, QuietSteps, Zenon
  <2>3. Up' /\ Down'
    BY <2>1, Zenon DEF Up, Down
  <2>4. States'
    BY <1>1, <1>2, <2>2 DEF HelloInv, States
  <2>5. QED
    BY <2>2, <2>3, <2>4, Zenon DEF StartInv, HelloInv
<1>3. CASE proc = "exited" /\ start' = "failed" /\ MarkDead("exited")
  <2>1. start' # "resolving" /\ start' # "up" /\ "exited" \in {"protocol", "exited",
          "version"} /\ proc' # "running"
    BY <1>1, <1>3
  <2>2. Excuse'
    BY <1>1, <1>3, Zenon DEF Excuse
  <2>3. /\ OutputInv' /\ Untouched' /\ Grows /\ HelloInv /\ Waiting' /\ Answered' /\ Refusal'
        /\ dead' \in {"none", "protocol", "exited", "version"}
        /\ pending' \in {"none", "hello", "shutdown"}
        /\ answer' \in {NoAnswer, Failed} \cup Said
    BY <1>1, <1>3, <2>1, <2>2, MarkSteps, Zenon
  <2>4. Up' /\ Down'
    BY <2>1, Zenon DEF Up, Down
  <2>5. States'
    BY <1>1, <1>3, <2>3 DEF HelloInv, States
  <2>6. QED
    BY <2>3, <2>4, <2>5, Zenon DEF StartInv, HelloInv
<1>4. QED
  BY <1>2, <1>3, Zenon DEF SendHello, entry

(* The start takes its answer.                                             *)
LEMMA TakeSteps ==
  ASSUME StartInv, TakeAnswer
  PROVE  StartInv'
<1>1. /\ start = "awaiting" /\ start # "resolving" /\ answer # NoAnswer
      /\ UNCHANGED <<proc, sent, spoilt, pipe, buffer, decoded, threw, loop, watch, outOfTime,
         scope>>
  BY DEF TakeAnswer, process, output
<1>2. HelloInv
  BY DEF StartInv
<1>3. pending # "hello"
  BY <1>1, <1>2, Zenon DEF HelloInv, Waiting
<1>4. CASE answer = Failed /\ start' = "failed" /\ UNCHANGED <<dead, pending, answer, window>>
  <2>1. start' # "resolving" /\ start' # "up"
    BY <1>4
  <2>2. OutputInv' /\ Untouched' /\ Grows /\ HelloInv /\ Waiting' /\ Answered' /\ Refusal'
    BY <1>1, <1>4, <2>1, QuietSteps, Zenon
  <2>3. Up' /\ Down'
    BY <1>4, <2>1, Zenon DEF Up, Down
  <2>4. States'
    BY <1>1, <1>4, <2>2 DEF HelloInv, States
  <2>5. QED
    BY <2>2, <2>3, <2>4, Zenon DEF StartInv, HelloInv
<1>5. CASE start' = "killing" /\ MarkDead("version") /\ UNCHANGED window
  <2>1. start' # "resolving" /\ start' # "up" /\ start' # "failed"
          /\ "version" \in {"protocol", "exited", "version"}
    BY <1>5
  <2>2. /\ OutputInv' /\ Untouched' /\ Grows /\ HelloInv /\ Waiting' /\ Answered' /\ Refusal'
        /\ dead' \in {"none", "protocol", "exited", "version"}
        /\ pending' \in {"none", "hello", "shutdown"}
        /\ answer' \in {NoAnswer, Failed} \cup Said
    BY <1>1, <1>3, <1>5, <2>1, MarkSteps, Zenon
  <2>3. Up' /\ Down'
    BY <2>1, Zenon DEF Up, Down
  <2>4. States'
    BY <1>1, <1>5, <2>2 DEF HelloInv, States
  <2>5. QED
    BY <2>2, <2>3, <2>4, Zenon DEF StartInv, HelloInv
<1>6. CASE /\ answer # Failed /\ answer.meta[1] = Version
           /\ start' = "up" /\ window' = Negotiated(answer.meta) /\ UNCHANGED <<dead, pending,
              answer>>
  <2>1. start' # "resolving" /\ start' # "failed"
    BY <1>6
  <2>2. OutputInv' /\ Untouched' /\ Grows /\ HelloInv /\ Waiting' /\ Answered' /\ Refusal'
    BY <1>1, <1>6, <2>1, QuietSteps, Zenon
  <2>3. answer \in Said
    BY <1>1, <1>2, <1>6 DEF HelloInv, States
  <2>4. Up' /\ Down'
    BY <1>6, <2>1, <2>3, Zenon DEF Up, Down
  <2>5. IsHelloAck(answer)
    BY <1>2, <2>3, Zenon DEF HelloInv, Answered
  <2>6. window' \in Nat
    BY <1>6, <2>3, <2>5, NegotiatedTyped, Zenon
  <2>7. start' \in {"resolving", "spawned", "awaiting", "killing", "up", "failed"}
    BY <1>6
  <2>8. States
    BY <1>2 DEF HelloInv
  <2>9. UNCHANGED <<proc, loop, watch, outOfTime, scope, dead, pending, answer>>
    BY <1>1, <1>6, Zenon
  <2>10. States'
    BY <2>6, <2>7, <2>8, <2>9 DEF States
  <2>11. QED
    BY <2>2, <2>4, <2>10, Zenon DEF StartInv, HelloInv
<1>7. QED
  BY <1>4, <1>5, <1>6, Zenon DEF TakeAnswer, entry

(* No answer came in time.                                                 *)
LEMMA TimeoutSteps ==
  ASSUME StartInv, HelloTimeout
  PROVE  StartInv'
<1>1. /\ start = "awaiting" /\ start # "resolving" /\ start' = "killing"
         /\ outOfTime' = TRUE /\ MarkDead("protocol")
      /\ UNCHANGED <<proc, sent, spoilt, pipe, buffer, decoded, threw, loop, watch, window,
         scope>>
  BY DEF HelloTimeout, process, output
<1>2. start' # "resolving" /\ start' # "up" /\ start' # "failed" /\ "protocol" \in {"protocol",
        "exited", "version"}
  BY <1>1
<1>3. Excuse'
  BY <1>1, Zenon DEF Excuse
<1>4. /\ OutputInv' /\ Untouched' /\ Grows /\ HelloInv /\ Waiting' /\ Answered' /\ Refusal'
      /\ dead' \in {"none", "protocol", "exited", "version"}
      /\ pending' \in {"none", "hello", "shutdown"}
      /\ answer' \in {NoAnswer, Failed} \cup Said
  BY <1>1, <1>2, <1>3, MarkSteps, Zenon
<1>5. Up' /\ Down'
  BY <1>2, Zenon DEF Up, Down
<1>6. States'
  BY <1>1, <1>4 DEF HelloInv, States
<1>7. QED
  BY <1>4, <1>5, <1>6, Zenon DEF StartInv, HelloInv

(* A start that fails or is interrupted.                                   *)
LEMMA EndSteps ==
  ASSUME StartInv, KillAfterStart \/ InterruptStart
  PROVE  StartInv'
<1>1. /\ start # "resolving" /\ start' = "failed"
      /\ (proc' = "exited" /\ UNCHANGED outOfTime) \/ (outOfTime' = TRUE /\ UNCHANGED proc)
      /\ UNCHANGED <<sent, spoilt, pipe, buffer, decoded, threw, loop, watch, dead, pending,
         answer, window, scope>>
  BY DEF KillAfterStart, InterruptStart, process, output, entry
<1>2. start' # "resolving" /\ start' # "up" /\ (proc' # "running" \/ outOfTime' = TRUE)
  BY <1>1
<1>3. (proc = "exited" => proc' = "exited") /\ (outOfTime = TRUE => outOfTime' = TRUE)
  BY <1>1, Zenon
<1>4. OutputInv' /\ Untouched' /\ Grows /\ HelloInv /\ Waiting' /\ Answered' /\ Refusal'
  BY <1>1, <1>2, <1>3, QuietSteps, Zenon
<1>5. Up' /\ Down'
  BY <1>2, Zenon DEF Up, Down
<1>6. States
  BY <1>4, Zenon DEF HelloInv
<1>7. States'
  <2>1. proc' \in {"absent", "running", "exited"} /\ outOfTime' \in BOOLEAN
    BY <1>1, <1>6 DEF States
  <2>2. QED
    BY <1>1, <1>6, <2>1 DEF States
<1>8. QED
  BY <1>4, <1>5, <1>7, Zenon DEF StartInv, HelloInv

(* The scope of the service closes.                                        *)
LEMMA ScopeCloses ==
  ASSUME StartInv, CloseScope
  PROVE  StartInv'
<1>1. /\ start \in {"up", "failed"} /\ loop' = "ended" /\ watch' = "ended" /\ pipe' = <<>>
      /\ scope' \in {"open", "closing", "waiting", "killing", "closed"}
      /\ UNCHANGED <<proc, sent, spoilt, buffer, decoded, threw, dead, pending, answer, start,
         window, outOfTime>>
  BY DEF CloseScope, process, entry
<1>2. start # "resolving" /\ start' # "resolving"
  BY <1>1
<1>3. OutputInv'
  BY <1>1, OutputClosed, Zenon DEF StartInv
<1>4. Untouched'
  BY <1>2, Zenon DEF Untouched
<1>5. Grows /\ HelloInv
  BY <1>1, NothingNew, Zenon DEF StartInv
<1>6. Waiting' /\ Answered' /\ Refusal'
  BY <1>1, <1>5, EntryStays, Zenon DEF HelloInv, Waiting
<1>7. Up' /\ Down'
  BY <1>1, <1>5, StartStays, Zenon
<1>8. States'
  BY <1>1, <1>5 DEF HelloInv, States
<1>9. QED
  BY <1>3, <1>4, <1>6, <1>7, <1>8, Zenon DEF StartInv, HelloInv

(* What is left of closing it.                                             *)
LEMMA ClosingSteps ==
  ASSUME StartInv, Closing
  PROVE  StartInv'
<1>1. /\ scope # "open" /\ scope' \in {"open", "closing", "waiting", "killing", "closed"}
      /\ pending' = pending \/ pending' = "shutdown"
      /\ proc' = proc \/ proc' = "exited"
      /\ outOfTime' = outOfTime \/ outOfTime' = (outOfTime \/ proc # "exited")
      /\ UNCHANGED <<sent, spoilt, pipe, buffer, decoded, threw, loop, watch, dead, answer,
         start, window>>
  BY DEF Closing, Release, StopWaiting, KillAtRelease, process, output, entry
<1>2. start # "resolving" /\ start' # "resolving"
  BY <1>1, Started, Zenon
<1>3. HelloInv /\ States
  BY DEF StartInv, HelloInv
<1>4. proc = "exited" => proc' = "exited"
  BY <1>1, Zenon
<1>5. outOfTime' \in BOOLEAN /\ (outOfTime = TRUE => outOfTime' = TRUE)
  <2>1. outOfTime \in BOOLEAN
    BY <1>3 DEF States
  <2>2. QED
    BY <1>1, <2>1, Zenon
<1>6. OutputInv'
  BY <1>1, OutputKept, Zenon DEF StartInv
<1>7. Untouched'
  BY <1>2, Zenon DEF Untouched
<1>8. Grows
  BY <1>1, <1>4, <1>5, NothingNew, Zenon
<1>9. pending' = "hello" => pending = "hello"
  BY <1>1
<1>10. Waiting' /\ Answered' /\ Refusal'
  BY <1>1, <1>3, <1>8, <1>9, ExcuseStays, Zenon DEF HelloInv, Waiting, Answered, Refusal, Grows
<1>11. proc' = "running" => proc = "running"
  BY <1>1
<1>12. Up' /\ Down'
  BY <1>1, <1>3, <1>8, <1>11, StartStays, Zenon
<1>13. States'
  <2>1. pending' \in {"none", "hello", "shutdown"} /\ proc' \in {"absent", "running", "exited"}
    BY <1>1, <1>3 DEF States
  <2>2. QED
    BY <1>1, <1>3, <1>5, <2>1 DEF States
<1>14. QED
  BY <1>6, <1>7, <1>10, <1>12, <1>13, Zenon DEF StartInv, HelloInv

(* A stutter.                                                              *)
LEMMA StandStill ==
  ASSUME StartInv, UNCHANGED startVars
  PROVE  StartInv'
<1>1. UNCHANGED <<sent, spoilt, pipe, buffer, decoded, threw, loop, watch, proc, dead, pending,
        answer, start, window, outOfTime, scope>>
  BY DEF startVars
<1>2. OutputInv'
  BY <1>1, OutputKept, Zenon DEF StartInv
<1>3. Untouched'
  BY <1>1, Zenon DEF StartInv, Untouched
<1>4. Grows /\ HelloInv
  BY <1>1, NothingNew, Zenon DEF StartInv
<1>5. Waiting' /\ Answered' /\ Refusal'
  BY <1>1, <1>4, EntryStays, Zenon DEF HelloInv, Waiting
<1>6. Up' /\ Down'
  BY <1>1, <1>4, StartStays, Zenon
<1>7. States'
  BY <1>1, <1>4 DEF HelloInv, States
<1>8. QED
  BY <1>2, <1>3, <1>5, <1>6, <1>7, Zenon DEF StartInv, HelloInv

(* Output, decoder and handshake are in step in every state of a start:    *)
(* the invariant the next two theorems rest on.                            *)
THEOREM StartInvariance == StartSpec => []StartInv
<1>1. StartInit => StartInv
  BY OutputStarts, HelloStarts, Zenon DEF StartInv
<1>2. StartInv /\ [StartNext]_startVars => StartInv'
  <2>1. SUFFICES ASSUME StartInv, [StartNext]_startVars PROVE StartInv'
    OBVIOUS
  <2>2. CASE UNCHANGED startVars
    BY <2>1, <2>2, StandStill
  <2>3. ASSUME NEW f \in Said, Say(f) PROVE StartInv'
    BY <2>1, <2>3, SaySteps
  <2>4. ASSUME NEW bytes \in Noise, Garble(bytes) PROVE StartInv'
    BY <2>1, <2>4, GarbleSteps
  <2>5. CASE Exit
    BY <2>1, <2>5, ExitSteps
  <2>6. CASE Loops
    BY <2>1, <2>6, ReadSteps, LoopSteps, Zenon DEF Loops
  <2>7. CASE Starter
    BY <2>1, <2>7, SpawnSteps, SendSteps, TakeSteps, TimeoutSteps, EndSteps, Zenon DEF Starter
  <2>8. CASE InterruptStart
    BY <2>1, <2>8, EndSteps, Zenon
  <2>9. CASE CloseScope
    BY <2>1, <2>9, ScopeCloses
  <2>10. CASE Closing
    BY <2>1, <2>10, ClosingSteps
  <2>11. QED
    BY <2>1, <2>2, <2>3, <2>4, <2>5, <2>6, <2>7, <2>8, <2>9, <2>10, Zenon DEF StartNext
<1>3. QED
  BY <1>1, <1>2, PTL DEF StartSpec

(* The invariant says what CutsKeepFrames does.                            *)
LEMMA CutsFollow == StartInv => CutsKeepFrames
<1>1. SUFFICES ASSUME StartInv PROVE CutsKeepFrames
  OBVIOUS
<1>2. Typed /\ Prefix /\ Stopped /\ Small /\ States
  BY <1>1, Zenon DEF StartInv, OutputInv, HelloInv
<1>3. StartTypeOK
  <2>1. \A bytes \in Seq(Byte) : \A i \in DOMAIN bytes : bytes[i] \in Byte
    OBVIOUS
  <2>2. \A bytes \in {pipe, buffer} : \A i \in DOMAIN bytes : bytes[i] \in Byte
    BY <1>2, <2>1, Zenon DEF Typed
  <2>3. QED
    BY <1>2, <2>2, Zenon DEF StartTypeOK, States, Typed
<1>4. QED
  BY <1>2, <1>3, Zenon DEF CutsKeepFrames, Prefix, Stopped, Small

(* However the output of the Bridge is cut into chunks, the decoder gives  *)
(* the frames that were said, in order, holds less than a frame, and       *)
(* throws only at noise.                                                   *)
THEOREM FramesSurviveCuts == StartSpec => []CutsKeepFrames
BY StartInvariance, CutsFollow, PTL

(* The invariant says what AgreementDecides does.                          *)
LEMMA AgreementFollows == StartInv => AgreementDecides
<1>1. SUFFICES ASSUME StartInv PROVE AgreementDecides
  OBVIOUS
<1>2. Prefix /\ Typed /\ HelloInv
  BY <1>1, Zenon DEF StartInv, OutputInv
<1>3. ASSUME start = "up"
      PROVE  /\ Own(sent) # {} /\ AgreedWith(FirstOwn(sent))
             /\ window = Negotiated(FirstOwn(sent).meta) /\ window > 0
  <2>1. answer \in Said /\ answer.meta[1] = Version /\ window = Negotiated(answer.meta)
    BY <1>2, <1>3, Zenon DEF HelloInv, Up
  <2>2. Own(decoded) # {} /\ FirstOwn(decoded) = answer /\ IsHelloAck(answer)
    BY <1>2, <2>1, Zenon DEF HelloInv, Answered
  <2>3. PICK d : d = Len(decoded)
    OBVIOUS
  <2>4. sent \in Seq(Said) /\ d \in 0 .. Len(sent) /\ decoded = SubSeq(sent, 1, d)
    BY <1>2, <2>3, Zenon DEF Prefix, Typed
  <2>5. Own(SubSeq(sent, 1, d)) # {}
    BY <2>2, <2>4, Zenon
  <2>6. Own(sent) # {} /\ FirstOwn(sent) = FirstOwn(SubSeq(sent, 1, d))
    BY <2>4, <2>5, OwnOfPrefix
  <2>7. FirstOwn(sent) = answer
    BY <2>2, <2>4, <2>6, Zenon
  <2>8. window > 0
    BY <2>1, <2>2, NegotiatedTyped, Zenon
  <2>9. QED
    BY <2>1, <2>2, <2>6, <2>7, <2>8, Zenon DEF AgreedWith
<1>4. ASSUME start = "failed", proc = "running", spoilt = "no", Own(sent) # {},
             AgreedWith(FirstOwn(sent))
      PROVE  outOfTime
  <2>1. outOfTime = TRUE \/ answer = Failed
    BY <1>2, <1>4, Zenon DEF HelloInv, Down
  <2>2. proc # "exited"
    BY <1>4
  <2>3. answer = Failed => outOfTime = TRUE
    BY <1>2, <1>4, <2>2, Zenon DEF HelloInv, Refusal, Excuse
  <2>4. QED
    BY <2>1, <2>3, Zenon
<1>5. QED
  BY <1>3, <1>4, Zenon DEF AgreementDecides, UpMeansAgreed, OnlyTimeRefusesHonest

(* A start succeeds only when the Bridge's first answer agrees on the      *)
(* version, with the window it names; a Bridge that agrees and keeps       *)
(* running is refused only for being late.                                 *)
THEOREM OnlyAgreementDecides == StartSpec => []AgreementDecides
BY StartInvariance, AgreementFollows, PTL

-----------------------------------------------------------------------------
(* Operations of the dispatcher.                                           *)

Destroying == {"removed", "await", "retire", "closeIdle"}

(* An operation that has not started has left no trace.                    *)
Registered ==
  \A op \in Ops : op \notin started =>
    pc[op] = "idle" /\ terminals[op] = 0 /\ frames[op] = 0

(* Only the kinds that have a phase are in it.                             *)
Kinded ==
  \A op \in Ops :
    /\ pc[op] \in Destroying => op \in destroyed
    /\ op \in destroyed =>
         kind(op) = "destroy" /\ pc[op] \in Destroying \cup {"finish", "write", "defer", "done"}
    /\ pc[op] = "gated" => kind(op) = "request"
    /\ pc[op] = "checked" => kind(op) \in {"request", "ws"}

(* The table holds what its goroutine has not given up, but for a WebSocket *)
(* past its ws.open, which the dispatcher may have taken out.              *)
InTable ==
  \A op \in Ops :
    /\ pc[op] \in {"write", "defer", "done"} => op \notin table
    /\ op \in started /\ pc[op] \notin {"write", "defer", "done"}
         => op \in table \/ (kind(op) = "ws" /\ frames[op] > 0)

(* What the dispatcher's thread knows of the operation it ends, and of all *)
(* operations once it has waited for them.                                 *)
MainThread ==
  /\ main \in {"wsStopFirst", "wsFinish", "wsWrite", "wsStop"} =>
       mainOp \in started /\ kind(mainOp) = "ws" /\ frames[mainOp] > 0
  /\ main \in {"closing", "replying", "exited"} => \A op \in started : pc[op] = "done"
  /\ main = "replying" \/ goodbye = "sent" => store = {}
  /\ goodbye = "sent" => main = "exited"

(* The life of a session name: created, in the store, removed, retired,    *)
(* gone, and never back.                                                   *)
SessionLife ==
  /\ store \cap retired = {} /\ gone \subseteq retired
  /\ \A op \in Ops : kind(op) = "create" /\ pc[op] \in {"idle", "run"} =>
       /\ sess(op) \notin store \cup retired
       /\ \A p \in Ops : sess(p) = sess(op) => p \notin destroyed /\ ~Holding(p)
  /\ \A op \in destroyed :
       /\ sess(op) \notin store
       /\ pc[op] \notin {"removed", "await", "retire"} => sess(op) \in retired

(* A destroying operation that waits, waits for every holder of its        *)
(* session; one that has waited has none left.                             *)
HoldersAwaited ==
  \A op, p \in Ops : Holding(p) /\ sess(p) = sess(op) =>
    /\ pc[op] = "await" => p \in waits[op]
    /\ pc[op] # "retire"

(* Once the idle connections of a session are closed its gate is free.     *)
GateFree ==
  \A op \in destroyed : pc[op] \in {"finish", "write", "defer", "done"} =>
    \A p \in readers : sess(p) # sess(op)

(* No session is gone while a request holds its gate.                      *)
NoReaderGone == \A op \in readers : sess(op) \notin gone

(* A request has its gate from before its headers until it returns.        *)
ReadersKnown ==
  \A op \in Ops :
    /\ op \in readers => kind(op) = "request"
    /\ kind(op) = "request" /\ (frames[op] > 0 \/ pc[op] \in {"gated", "checked"})
         => op \in readers \/ pc[op] = "done"

IInv ==
  /\ TypeOK /\ TerminalOwedOnce /\ NoUseAfterRetire /\ NoReaderGone /\ ReadersKnown
  /\ Registered /\ Kinded /\ InTable /\ MainThread
  /\ SessionLife /\ HoldersAwaited /\ GateFree

USE OpsAssumption, PlansAssumption, CancellableAssumption, UnwritableAssumption
USE DEF kind, sess, Kinds, PCs, opVars, atRest, sessVars, mainVars, Goto, stop,
        Streaming, SameSession, AllEnded, Holding, Live, Pending, Concluded,
        Destroying

(* The initial state satisfies the inductive invariant.                    *)
LEMMA InitEstablishes == Init => IInv
BY DEF Init, IInv, TypeOK, TerminalOwedOnce, NoUseAfterRetire,
       NoReaderGone, ReadersKnown, Registered, Kinded, InTable, MainThread,
       SessionLife, HoldersAwaited, GateFree

(* cancelSession: what it will wait for are all the holders of the session, *)
(* because a holder is always in the table.                                *)
LEMMA CancelSessionPreserves ==
  ASSUME IInv, NEW op \in Ops, CancelSession(op)
  PROVE  IInv'
<1> USE DEF IInv, CancelSession, TypeOK, Registered, Kinded, InTable, MainThread
<1>1. SameSession(op) \subseteq Ops
  OBVIOUS
<1>2. TypeOK'
  BY <1>1
<1>3. Registered' /\ Kinded' /\ InTable' /\ MainThread'
  BY <1>1
<1>4. TerminalOwedOnce' /\ NoReaderGone' /\ ReadersKnown' /\ GateFree'
  BY <1>1 DEF TerminalOwedOnce, NoReaderGone, ReadersKnown, GateFree
<1>5. \A p \in Ops : Holding(p) /\ sess(p) = sess(op) => p \in waits'[op]
  OBVIOUS
<1>6. NoUseAfterRetire' /\ SessionLife' /\ HoldersAwaited'
  BY <1>1, <1>5 DEF NoUseAfterRetire, SessionLife, HoldersAwaited
<1>7. QED
  BY <1>2, <1>3, <1>4, <1>6

(* Every step of the dispatcher's thread or of a goroutine preserves the   *)
(* inductive invariant.                                                    *)
LEMMA StepPreserves == IInv /\ [Next]_vars => IInv'
<1> SUFFICES ASSUME IInv, [Next]_vars PROVE IInv'
  OBVIOUS
<1> USE DEF IInv, TypeOK, TerminalOwedOnce, NoUseAfterRetire,
            NoReaderGone, ReadersKnown, Registered, Kinded, InTable, MainThread,
            SessionLife, HoldersAwaited, GateFree
<1>1. ASSUME NEW op \in Ops, Start(op) PROVE IInv'
  BY <1>1 DEF Start
<1>2. ASSUME NEW op \in Ops, Cancel(op) PROVE IInv'
  BY <1>2 DEF Cancel
<1>3. ASSUME NEW op \in Ops, EndWebSocket(op) PROVE IInv'
  BY <1>3 DEF EndWebSocket
<1>4. ASSUME NEW op \in Ops, Remove(op) PROVE IInv'
  BY <1>4 DEF Remove
<1>5. ASSUME NEW op \in Ops, WriteTerminal(op) PROVE IInv'
  BY <1>5 DEF WriteTerminal
<1>6. ASSUME NEW op \in Ops, Return(op) PROVE IInv'
  BY <1>6 DEF Return
<1>7. ASSUME NEW op \in Ops, Create(op) PROVE IInv'
  BY <1>7 DEF Create
<1>8. ASSUME NEW op \in Ops, RefuseCreate(op) PROVE IInv'
  BY <1>8 DEF RefuseCreate
<1>9. ASSUME NEW op \in Ops, RefuseTerminal(op) PROVE IInv'
  BY <1>9 DEF RefuseTerminal
<1>10. ASSUME NEW op \in Ops, RefuseData(op) PROVE IInv'
  BY <1>10 DEF RefuseData
<1>11. CASE RefuseWebSocketTerminal
  BY <1>11 DEF RefuseWebSocketTerminal
<1>12. ASSUME NEW op \in Ops, Lookup(op) PROVE IInv'
  BY <1>12 DEF Lookup
<1>13. ASSUME NEW op \in Ops, BeginTracked(op) PROVE IInv'
  BY <1>13 DEF BeginTracked
<1>14. ASSUME NEW op \in Ops, WriteData(op) PROVE IInv'
  BY <1>14 DEF WriteData
<1>15. ASSUME NEW op \in Ops, CheckCurrent(op) PROVE IInv'
  BY <1>15 DEF CheckCurrent
<1>16. ASSUME NEW op \in Ops, Decide(op) PROVE IInv'
  BY <1>16 DEF Decide
<1>17. ASSUME NEW op \in Ops, DestroyRemove(op) PROVE IInv'
  BY <1>17 DEF DestroyRemove
<1>18. ASSUME NEW op \in Ops, CancelSession(op) PROVE IInv'
  BY <1>18, CancelSessionPreserves
<1>19. ASSUME NEW op \in Ops, Await(op) PROVE IInv'
  BY <1>19 DEF Await
<1>20. ASSUME NEW op \in Ops, Retire(op) PROVE IInv'
  BY <1>20 DEF Retire
<1>21. ASSUME NEW op \in Ops, CloseIdle(op) PROVE IInv'
  BY <1>21 DEF CloseIdle
<1>22. CASE StopWebSocket
  BY <1>22 DEF StopWebSocket
<1>23. CASE RemoveWebSocket
  BY <1>23 DEF RemoveWebSocket
<1>24. CASE WriteWebSocketTerminal
  BY <1>24 DEF WriteWebSocketTerminal
<1>25. CASE StopAll
  BY <1>25 DEF StopAll
<1>26. CASE Waited
  BY <1>26 DEF Waited
<1>27. CASE CloseAll
  BY <1>27 DEF CloseAll
<1>28. CASE Reply
  BY <1>28 DEF Reply
<1>29. CASE UNCHANGED vars
  BY <1>29 DEF vars
<1> HIDE DEF IInv
<1>30. QED
  BY <1>1, <1>2, <1>3, <1>4, <1>5, <1>6, <1>7, <1>8, <1>9, <1>10, <1>11,
     <1>12, <1>13, <1>14, <1>15, <1>16, <1>17, <1>18, <1>19, <1>20, <1>21,
     <1>22, <1>23, <1>24, <1>25, <1>26, <1>27, <1>28, <1>29
     DEF Next, Ending, Working, Destroy, EndingWs, Exiting

(* The inductive invariant holds in every reachable state.                 *)
THEOREM Invariance == Spec => []IInv
BY InitEstablishes, StepPreserves, PTL DEF Spec

(* Type correctness, in particular that no operation gets a second terminal *)
(* frame.                                                                  *)
THEOREM TypeCorrect == Spec => []TypeOK
<1>1. IInv => TypeOK
  BY DEF IInv
<1>2. QED
  BY <1>1, Invariance, PTL

(* Every started operation owes the client one terminal frame or has sent   *)
(* it, or the writer refused a frame of it, whoever ends it                 *)
(* (dispatcher.remove decides).                                            *)
THEOREM OneTerminal == Spec => []TerminalOwedOnce
<1>1. IInv => TerminalOwedOnce
  BY DEF IInv
<1>2. QED
  BY <1>1, Invariance, PTL

(* No operation uses a session whose totals have been retired.             *)
THEOREM RetiredUnused == Spec => []NoUseAfterRetire
<1>1. IInv => NoUseAfterRetire
  BY DEF IInv
<1>2. QED
  BY <1>1, Invariance, PTL

(* The steps that write a data frame or a terminal frame; the others leave  *)
(* both counts alone.                                                      *)
LEMMA Writers ==
  ASSUME [Next]_vars
  PROVE  \/ UNCHANGED <<frames, terminals>>
         \/ \E op \in Ops : WriteData(op) \/ WriteTerminal(op)
         \/ WriteWebSocketTerminal
BY DEF Next, vars, Ending, Working, Destroy, EndingWs, Exiting, Start, Cancel,
       EndWebSocket, Remove, RefuseTerminal, Return, Create, RefuseCreate, Lookup,
       BeginTracked, RefuseData, CheckCurrent, Decide, DestroyRemove, CancelSession,
       Await, Retire, CloseIdle, StopWebSocket, RemoveWebSocket,
       RefuseWebSocketTerminal, StopAll, Waited, CloseAll, Reply

(* After the ok of its destroy nothing is written for a session but late    *)
(* frames of WebSockets the dispatcher had ended, and terminal frames of    *)
(* operations without the gate.                                            *)
THEOREM DestroyedSilent == Spec => SilentAfterDestroyed
<1>1. ASSUME IInv, [Next]_vars, NEW op \in Ops, sess(op) \in gone
      PROVE  /\ frames'[op] # frames[op] => LateData(op)
             /\ terminals'[op] # terminals[op] => LateTerminal(op)
  <2> USE <1>1 DEF IInv, LateData, LateTerminal
  <2>1. sess(op) \in retired /\ ~Holding(op) /\ op \notin readers
    BY DEF SessionLife, NoUseAfterRetire, NoReaderGone
  <2>2. CASE UNCHANGED <<frames, terminals>>
    BY <2>2
  <2>3. ASSUME NEW p \in Ops, WriteData(p) PROVE frames'[op] # frames[op] => LateData(op)
    BY <2>1, <2>3 DEF WriteData, TypeOK, Kinded
  <2>4. ASSUME NEW p \in Ops, WriteData(p) PROVE terminals' = terminals
    BY <2>4 DEF WriteData
  <2>5. ASSUME NEW p \in Ops, WriteTerminal(p)
        PROVE frames' = frames /\ (terminals'[op] # terminals[op] => pc[op] = "write")
    BY <2>5 DEF WriteTerminal, TypeOK
  <2>6. CASE WriteWebSocketTerminal
    BY <2>1, <2>6 DEF WriteWebSocketTerminal, TypeOK, MainThread
  <2>7. kind(op) = "request" /\ frames[op] # 0 => pc[op] = "done"
    BY <2>1 DEF ReadersKnown, TypeOK
  <2>8. QED
    BY <2>1, <2>2, <2>3, <2>4, <2>5, <2>6, <2>7, Writers
<1>2. IInv /\ [Next]_vars =>
        [\A op \in Ops : sess(op) \in gone =>
           /\ frames'[op] # frames[op] => LateData(op)
           /\ terminals'[op] # terminals[op] => LateTerminal(op)]_vars
  BY <1>1
<1>3. QED
  BY <1>2, Invariance, PTL DEF Spec, SilentAfterDestroyed

(* The ok of shutdown is the last frame the process writes.                *)
THEOREM ShutdownSilent == Spec => SilentAfterShutdown
<1>1. IInv /\ [Next]_vars => [goodbye = "sent" => UNCHANGED <<frames, terminals>>]_vars
  <2> SUFFICES ASSUME IInv, [Next]_vars, goodbye = "sent"
               PROVE  UNCHANGED <<frames, terminals>>
    OBVIOUS
  <2>1. main = "exited" /\ \A op \in Ops : pc[op] \in {"idle", "done"}
    BY DEF IInv, MainThread, Registered
  <2>2. ~WriteWebSocketTerminal /\ \A op \in Ops : ~WriteData(op) /\ ~WriteTerminal(op)
    BY <2>1 DEF WriteWebSocketTerminal, WriteData, WriteTerminal
  <2>3. QED
    BY <2>2, Writers
<1>2. QED
  BY <1>1, Invariance, PTL DEF Spec, SilentAfterShutdown

(* The ok of shutdown comes after every terminal frame and after every      *)
(* session has been retired.                                               *)
THEOREM GoodbyeIsLast == Spec => []GoodbyeLast
<1>1. IInv => GoodbyeLast
  BY DEF IInv, TypeOK, InTable, MainThread, TerminalOwedOnce, GoodbyeLast
<1>2. QED
  BY <1>1, Invariance, PTL

(* One terminal frame for each operation, whoever ends it.                 *)
THEOREM TerminalEach == Spec => []OneTerminalEach
<1>1. IInv => OneTerminalEach
  BY DEF IInv, OneTerminalEach
<1>2. QED
  BY <1>1, Invariance, PTL

(* The two farewells: what may follow the ok of a destroy, and that nothing *)
(* is owed before and nothing written after the ok of shutdown.            *)
THEOREM FarewellsAreLast == Spec => SilenceAfterGoodbye
BY DestroyedSilent, ShutdownSilent, GoodbyeIsLast, PTL DEF SilenceAfterGoodbye
===============================================================================
