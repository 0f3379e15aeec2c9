--------------------------- MODULE MCBridgeStart ---------------------------
(* A Bridge that may say the right thing, another version, the wrong kind of
   frame, an error or a frame of another id, and break its stream.         *)
EXTENDS BridgeStart

Ok == HelloAck + 1

Frame(kind, id, meta, body) == [kind |-> kind, id |-> id, meta |-> meta, body |-> body]

MCSaid == {
  Frame(HelloAck, 0, <<Version, 3>>, <<>>), Frame(HelloAck, 0, <<Version, 0>>, <<>>),
  Frame(HelloAck, 0, <<Version + 1>>, <<>>),
  Frame(Ok, 0, <<>>, <<>>), Frame(ErrorKind, 0, <<>>, <<>>), Frame(Ok, 1, <<>>, <<2>>)}

\* A length that is too small, one that is too large, and metadata longer than
\* the frame.
MCNoise == {<<0, 2>>, <<0, 6>>, <<0, 3, HelloAck, 0, 1>>}

MCTorn == {<<0>>, <<0, 4, HelloAck, 0, 1>>}
=============================================================================
