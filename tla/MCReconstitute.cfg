CONSTANTS
  P = 17
  FR_BITS = 5
  ByteBits = 2
  ChunkLen = 2
  FrBytes = 3
  MAX_BYTES_LEN = 4
  LimbBase = 8
  Curves <- SmallCurves
  Weierstrass <- SmallWeierstrass
  BaseMod <- SmallBaseMod
  ScalarMod <- SmallScalarMod
  Coord <- SmallCoord
  Poseidon <- SmallPoseidon
  HashToPoint <- SmallHashToPoint
  Digest <- SmallDigest
  WideDigestLen = 4
  Identifier <- Names
  Jobs <- ReconstituteJobs
  MaxRandom = 2
SPECIFICATION Spec
INVARIANTS ReconstitutesByTable
