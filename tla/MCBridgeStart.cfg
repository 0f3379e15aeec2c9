SPECIFICATION StartSpec
CONSTANTS
  Malformed = Malformed
  NoAnswer = NoAnswer
  Failed = Failed
  Base = 8
  FrameKinds = {4, 5, 6}
  HelloAck = 4
  ErrorKind = 6
  MAX_FRAME_LENGTH = 5
  Version = 1
  DefaultWindow = 2
  MaxSaid = 2
  Said <- MCSaid
  Noise <- MCNoise
  Torn <- MCTorn
INVARIANTS CutsKeepFrames AgreementDecides
PROPERTIES StartSettles
CHECK_DEADLOCK FALSE
