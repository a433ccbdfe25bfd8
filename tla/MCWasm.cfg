CONSTANTS
  c1 = c1
  c2 = c2
  mute = mute
  Junk = Junk
  Unknown = Unknown
  Calls <- SmallCalls
  Silent <- SmallSilent
  P = 17
  BigInts <- SmallBigInts
  Preimages <- SmallPreimages
  Materials <- SmallMaterials
  Verdict <- SmallVerdict
  MaxChanges = 2
SPECIFICATION FairWasmSpec
INVARIANTS WasmTypeOK ProofOfOneMaterial BindingIsAsked
PROPERTIES WorksOnOneCopy CallsEnd
CHECK_DEADLOCK FALSE
