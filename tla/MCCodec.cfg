CONSTANTS
  P = 17
  FR_BITS = 5
  ByteBits = 2
  ChunkLen = 2
  FrBytes = 3
  MAX_BYTES_LEN = 12
  LimbBase = 8
  Curves <- CodecCurves
  Weierstrass <- CodecWeierstrass
  BaseMod <- CodecBaseMod
  ScalarMod <- CodecScalarMod
  Coord <- CodecCoord
  Poseidon <- SmallPoseidon
  HashToPoint <- SmallHashToPoint
  Digest <- SmallDigest
  WideDigestLen = 4
  Identifier <- CodecTexts
  JsonFiles <- SmallJson
  BinaryFiles <- SmallBinary
SPECIFICATION CodecSpec
INVARIANTS CodecTypeOK SurvivesForms TypesCanonical RewritesFaithfully
