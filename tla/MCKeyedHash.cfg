\* compute_keyed_hash on two CPUs with blocks of 8 bytes: messages that need
\* one padding block, two padding blocks, and that fill a block exactly.
CONSTANTS
  CPUs = {c1, c2}
  Packets <- MCPackets
  HeaderLen <- ScaledLen
  Avail <- ScaledAvail
  HeaderByte <- MCHeaderByte
  SECRET_KEY <- MCKey
  KeyLen = 3
  HdrMax = 5
  BlockLen = 8
  LenPos = 6
  BufLen = 10
SPECIFICATION Spec
INVARIANTS TypeOK DigestIsReference
