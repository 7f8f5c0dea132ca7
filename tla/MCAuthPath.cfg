\* Frames of all kinds; a key whose bytes 1..15 are equal.
CONSTANTS
  InFrames <- ArrivingFrames
  SECRET_KEY <- UniformKey
  VERIFIER_KEY <- UniformKey
  MaxFrames = 1
  AnyByte = {0, 1, 25, 36}
  AlteredBytes = {0, 1, 8, 25, 36, 79}
  ForeignFrames <- OptionFrames
  OptionBytes = {0, 1, 2, 4, 25}
SPECIFICATION FairSpec
INVARIANTS MatchIffAuthentic PayloadPreserved UnsignedAlmostUntouched ChecksumFresh
  HeadersKeptIffPlain HashInsideHeader RebuiltWithoutOption
PROPERTY HandlerReturns
CHECK_DEADLOCK FALSE
