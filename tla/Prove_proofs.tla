----------------------------- MODULE Prove_proofs -----------------------------
(***************************************************************************)
(* Theorems about prove for every source, preimage, field and curve.       *)
(* CellsAligned is inductive with two facts: while preprocess runs there   *)
(* is no cell, and once it has accepted its memory is final and, by        *)
(* DomainExact, binds every name the circuit may bind, so that mem_insert  *)
(* has something to compare with.  SynthInv types the cells of a synthesis *)
(* on a typed witness, with ProveInv relating the witness to preprocess;   *)
(* from it follows, arm by arm, that the circuit refines Keygen.  ChipsInv *)
(* follows the curves that come into being.  HonestInv is the invariant of *)
(* synthesis with the witness of an accepted single-assignment run: at     *)
(* each instruction the circuit has bound, exposed and put out what        *)
(* preprocess had there, as TraceInv keeps it in the final memory.         *)
(***************************************************************************)
EXTENDS Prove, Preprocess_proofs, Twin_proofs

------------------------------------------------------------------------------
(* The cells against the memory of preprocess.                               *)

\* What acceptance leaves behind.
AcceptedAtEnd == status = "accepted" => Seeded /\ pc = Len(src.code) + 1
CellsWait == status # "accepted" => cells = EmptyMemory
CInv == IInv /\ AcceptedAtEnd /\ CellsWait /\ cpc \in Nat \ {0} /\ CellsAligned

\* Every input and every output of the code is bound in an accepted memory.
LEMMA AcceptedBinds ==
  ASSUME IInv, AcceptedAtEnd, status = "accepted"
  PROVE  /\ \A i \in DOMAIN src.inputs : src.inputs[i].name \in DOMAIN memory
         /\ \A i \in DOMAIN src.code : ToSet(src.code[i].outs) \subseteq DOMAIN memory
<1>1. pc \in Nat \ {0} /\ Seeded /\ pc = Len(src.code) + 1
  BY DEF IInv, TypeOK, AcceptedAtEnd
<1>2. DOMAIN src.inputs = 1..Len(src.inputs) /\ DOMAIN src.code = 1..Len(src.code)
      /\ Len(src.code) \in Nat
  BY JobTypes, LenProperties DEF IInv, Source
<1>3. Executed = pc - 1 /\ Decoded = Len(src.inputs)
  BY <1>1 DEF Executed, Decoded
<1>4. \A i \in 1..Len(src.inputs) : src.inputs[i].name \in DOMAIN memory
  BY <1>3 DEF IInv, DomainExact
<1>5. ASSUME NEW i \in DOMAIN src.code, NEW x \in ToSet(src.code[i].outs)
      PROVE  x \in DOMAIN memory
  <2>1. i \in 1..pc - 1
    BY <1>1, <1>2
  <2> QED
    BY <1>3, <1>5, <2>1 DEF IInv, DomainExact
<1> QED
  BY <1>2, <1>4, <1>5

\* Binding names to their values in the memory keeps the cells aligned.
LEMMA AlignedBind ==
  ASSUME CellsAligned, NEW ids \in Seq(Identifier), NEW vals, src' = src, memory' = memory,
         cells' = Bind(cells, ids, vals),
         RawFree(src) =>
           \A i \in DOMAIN ids : ids[i] \in DOMAIN memory /\ memory[ids[i]] = vals[i]
  PROVE  CellsAligned'
<1> SUFFICES ASSUME RawFree(src), NEW id \in DOMAIN cells'
             PROVE  id \in DOMAIN memory /\ cells'[id] = memory[id]
  BY DEF CellsAligned, RawFree
<1>1. DOMAIN cells' = DOMAIN cells \cup ToSet(ids)
  BY BindProperties
<1>2. CASE id \notin ToSet(ids)
  <2>1. cells'[id] = cells[id]
    BY <1>1, <1>2 DEF Bind
  <2> QED
    BY <1>1, <1>2, <2>1 DEF CellsAligned
<1>3. CASE id \in ToSet(ids)
  <2> DEFINE last(i) == ids[i] = id /\ \A j \in DOMAIN ids : ids[j] = id => j <= i
  <2>1. DOMAIN ids = 1..Len(ids) /\ Len(ids) \in Nat
    BY LenProperties
  <2>2. \E i \in DOMAIN ids : last(i)
    BY <1>3, LastOccurrence
  <2>3. PICK k \in DOMAIN ids : k = CHOOSE i \in DOMAIN ids : last(i)
    BY <2>2
  <2>4. ids[k] = id
    BY <2>2, <2>3
  <2>5. cells'[id] = vals[k]
    BY <1>1, <1>3, <2>3 DEF Bind
  <2> QED
    BY <2>3, <2>4, <2>5
<1> QED
  BY <1>2, <1>3

------------------------------------------------------------------------------
(* One lemma for each action of synthesis that makes cells.                  *)

LEMMA SameBind ==
  ASSUME NEW m, NEW ids, NEW vals
  PROVE  C!Bind(m, ids, vals) = Bind(m, ids, vals)
  BY DEF C!Bind, Bind, C!ToSet, ToSet

\* The instruction synthesis is at.
LEMMA CFetched ==
  ASSUME CInv, NEW ops, C!CFetch(ops)
  PROVE  /\ cpc \in DOMAIN src.code /\ C!CInstr = src.code[cpc]
         /\ C!CInstr.outs \in Seq(Identifier) /\ C!CInstr.op \in ops
         /\ WellShaped(C!CInstr)
<1>1. src.code \in Seq(Instruction) /\ \A i \in DOMAIN src.code : WellShaped(src.code[i])
  BY JobTypes DEF CInv, IInv, Source
<1>2. cpc \in DOMAIN src.code
  BY <1>1, LenProperties DEF CInv, C!CFetch
<1>3. src.code[cpc] \in Instruction
  BY <1>1, <1>2, ElementOfSeq, LenProperties
<1> QED
  BY <1>1, <1>2, <1>3 DEF C!CInstr, C!CFetch, Instruction

LEMMA AlignedSame ==
  ASSUME CellsAligned, src' = src, memory' = memory, cells' = cells
  PROVE  CellsAligned'
  BY DEF CellsAligned, RawFree

LEMMA AlignedAssign ==
  ASSUME CInv, C!AssignInput, status = "accepted", UNCHANGED pvars
  PROVE  CellsAligned'
<1> DEFINE id == src.inputs[cpc]
<1>0. src' = src /\ memory' = memory /\ CellsAligned
  BY DEF pvars, CInv
<1>1. cpc \in DOMAIN src.inputs /\ id.name \in Identifier
  <2>1. src.inputs \in Seq([name : Identifier, ty : IrType])
    BY JobTypes DEF CInv, IInv, Source
  <2>2. cpc \in DOMAIN src.inputs
    BY <2>1, LenProperties DEF CInv, C!AssignInput
  <2>3. src.inputs[cpc] \in [name : Identifier, ty : IrType]
    BY <2>1, <2>2, ElementOfSeq, LenProperties
  <2> QED
    BY <2>2, <2>3
<1>2. id.name \in DOMAIN memory
  BY <1>1, AcceptedBinds DEF CInv
<1>3. CASE cells' = cells
  BY <1>0, <1>3, AlignedSame
<1>4. CASE cells' = Bind(cells, <<id.name>>, <<memory[id.name]>>)
  <2>1. <<id.name>> \in Seq(Identifier)
    BY <1>1
  <2>2. \A i \in DOMAIN <<id.name>> :
          <<id.name>>[i] \in DOMAIN memory
          /\ memory[<<id.name>>[i]] = <<memory[id.name]>>[i]
    BY <1>2
  <2> HIDE DEF id
  <2> QED
    BY <1>0, <1>4, <2>1, <2>2, AlignedBind
<1> QED
  BY <1>2, <1>3, <1>4, SameBind DEF C!AssignInput, C!CStop, wit

LEMMA AlignedGate ==
  ASSUME CInv, C!Gate, status = "accepted", UNCHANGED pvars
  PROVE  CellsAligned'
<1> DEFINE ins == C!CInstr
<1>0. src' = src /\ memory' = memory /\ CellsAligned
  BY DEF pvars, CInv
<1>1. cpc \in DOMAIN src.code /\ ins = src.code[cpc] /\ ins.outs \in Seq(Identifier)
  BY CFetched DEF C!Gate
<1>2. \A i \in DOMAIN ins.outs : ins.outs[i] \in DOMAIN memory
  BY <1>1, AcceptedBinds DEF CInv, ToSet
<1>3. CASE cells' = cells
  BY <1>0, <1>3, AlignedSame
<1>4. ASSUME NEW vals, C!Aligned(ins, vals), cells' = Bind(cells, ins.outs, vals)
      PROVE  CellsAligned'
  <2>1. RawFree(src) => \A i \in DOMAIN ins.outs : memory[ins.outs[i]] = vals[i]
    BY <1>1, <1>2, <1>4 DEF C!Aligned, RawFree, wit
  <2> QED
    BY <1>0, <1>1, <1>2, <1>4, <2>1, AlignedBind
<1>5. CASE cells' # cells
  <2>1. PICK vals : C!Aligned(ins, vals) /\ cells' = C!Bind(cells, ins.outs, vals)
    BY <1>5 DEF C!Gate, C!CStop
  <2> QED
    BY <1>4, <2>1, SameBind
<1> QED
  BY <1>3, <1>5

LEMMA AlignedRead ==
  ASSUME CInv, C!WitnessRead, status = "accepted", UNCHANGED pvars
  PROVE  CellsAligned'
<1> DEFINE ins == C!CInstr
           id == ins.outs[1]
<1>0. src' = src /\ memory' = memory /\ CellsAligned
  BY DEF pvars, CInv
<1>1. ins.outs \in Seq(Identifier) /\ Len(ins.outs) = 1
  BY CFetched, ReadShape DEF C!WitnessRead, C!CFetch, C!CInstr
<1>2. CASE cells' = cells
  BY <1>0, <1>2, AlignedSame
<1>3. CASE cells' # cells
  <2>1. id \in DOMAIN memory /\ cells' = Bind(cells, ins.outs, <<memory[id]>>)
    BY <1>3, SameBind DEF C!WitnessRead, C!CStop, wit
  <2>2. \A i \in DOMAIN ins.outs : i = 1
    BY <1>1, LenProperties
  <2> QED
    BY <1>0, <1>1, <2>1, <2>2, AlignedBind
<1> QED
  BY <1>2, <1>3

------------------------------------------------------------------------------
LEMMA CInvInit == ProveInit => CInv
<1> SUFFICES ASSUME ProveInit PROVE CInv
  OBVIOUS
<1>1. IInv
  BY DomainInit DEF ProveInit
<1>2. status = "decoding" /\ cells = C!EmptyMemory /\ cpc = 1
  BY DEF ProveInit, Init, C!CInit
<1>3. cells = EmptyMemory /\ DOMAIN cells = {}
  BY <1>2 DEF C!EmptyMemory, EmptyMemory, C!Fr, Fr, C!V, V, C!Native, Native
<1> QED
  BY <1>1, <1>2, <1>3 DEF CInv, AcceptedAtEnd, CellsWait, CellsAligned

\* A run accepts nowhere but after its last instruction.
LEMMA AcceptedStep ==
  ASSUME IInv, AcceptedAtEnd, Next
  PROVE  AcceptedAtEnd'
<1> SUFFICES ASSUME status' = "accepted" PROVE Seeded' /\ pc' = Len(src'.code) + 1
  BY DEF AcceptedAtEnd
<1>1. CASE Finish
  <2>1. Seeded /\ pc = Len(src.code) + 1
    <3>1. Len(src.code) \in Nat /\ pc \in Nat
      BY JobTypes, LenProperties DEF IInv, TypeOK, Source
    <3> QED
      BY <1>1, <3>1 DEF Finish, IInv, Stage, Seeded
  <2>2. src' = src /\ pc' = pc /\ pis' = pis
    BY <1>1 DEF Finish, Reject, Stop
  <2> QED
    BY <2>1, <2>2 DEF Seeded
<1>2. CASE Terminated
  BY <1>2 DEF Terminated, pvars, AcceptedAtEnd, Seeded
<1>3. CASE DecodeInput \/ SeedPublicInputs \/ Compute \/ ReadPublic \/ ReadPrivate
           \/ ImpactSkipped \/ ImpactActive \/ OutputValues
  <2>1. status \in {"decoding", "executing"}
    BY <1>3 DEF DecodeInput, SeedPublicInputs, Compute, ReadPublic, ReadPrivate, Read,
                ImpactSkipped, ImpactActive, OutputValues, Fetch
  <2>2. status' \in {status, "executing", "rejected", "panicked"}
    BY <1>3 DEF DecodeInput, SeedPublicInputs, Compute, ReadPublic, ReadPrivate, Read,
                ImpactSkipped, ImpactActive, OutputValues, Reject, Stop
  <2> QED
    BY <2>1, <2>2
<1> QED
  BY <1>1, <1>2, <1>3 DEF Next, Step

\* Once accepted, preprocess takes no further step.
LEMMA AcceptedRests ==
  ASSUME status = "accepted"
  PROVE  ~Step
  BY DEF Step, DecodeInput, SeedPublicInputs, Compute, ReadPublic, ReadPrivate, Read,
         ImpactSkipped, ImpactActive, OutputValues, Finish, Fetch

LEMMA CInvPrepare ==
  ASSUME CInv, Prepare
  PROVE  CInv'
<1>1. Next /\ Step /\ cells' = cells /\ cpc' = cpc
  BY DEF Prepare, Next, synthVars
<1>2. IInv'
  BY <1>1, DomainNext DEF CInv
<1>3. AcceptedAtEnd'
  BY <1>1, AcceptedStep DEF CInv
<1>4. cells = EmptyMemory
  BY <1>1, AcceptedRests DEF CInv, CellsWait
<1>5. CellsWait' /\ CellsAligned'
  BY <1>1, <1>4 DEF CellsWait, CellsAligned, EmptyMemory
<1> QED
  BY <1>1, <1>2, <1>3, <1>5 DEF CInv

LEMMA CInvSynthesize ==
  ASSUME CInv, Synthesize
  PROVE  CInv'
<1>1. status = "accepted" /\ UNCHANGED pvars /\ C!CStep
  BY DEF Synthesize
<1>2. IInv'
  BY <1>1, DomainNext DEF CInv
<1>3. AcceptedAtEnd' /\ CellsWait'
  BY <1>1 DEF CInv, AcceptedAtEnd, CellsWait, pvars, Seeded
<1>4. CellsAligned'
  <2>1. CASE C!SeedInstance \/ C!PushImpact \/ C!OutputCells \/ C!ConstrainInstance
    <3>1. cells' = cells
      BY <2>1 DEF C!SeedInstance, C!PushImpact, C!OutputCells, C!ConstrainInstance, C!CStop
    <3> QED
      BY <1>1, <3>1, AlignedSame DEF CInv, pvars
  <2> QED
    BY <1>1, <2>1, AlignedAssign, AlignedGate, AlignedRead DEF C!CStep
<1>5. cpc' \in {cpc, cpc + 1, 1}
  BY <1>1 DEF C!CStep, C!AssignInput, C!SeedInstance, C!Gate, C!WitnessRead, C!PushImpact,
     C!OutputCells, C!ConstrainInstance, C!CStop
<1> QED
  BY <1>2, <1>3, <1>4, <1>5 DEF CInv

LEMMA CInvStill ==
  ASSUME CInv, UNCHANGED proveVars
  PROVE  CInv'
<1>1. UNCHANGED pvars /\ src' = src /\ memory' = memory /\ cells' = cells /\ cpc' = cpc
  BY DEF proveVars, pvars
<1>2. IInv'
  BY <1>1, DomainNext DEF CInv
<1>3. AcceptedAtEnd' /\ CellsWait'
  BY <1>1 DEF CInv, AcceptedAtEnd, CellsWait, pvars, Seeded
<1> QED
  BY <1>1, <1>2, <1>3, AlignedSame DEF CInv

\* For every source without the arms that skip mem_insert, single-assignment or
\* not, whatever the preimage and the curves: a cell of the circuit holds the
\* value its name has when preprocess ends.
THEOREM CellsAreAligned == ProveSpec => []CellsAligned
<1>1. CInv /\ [ProveNext]_proveVars => CInv'
  BY CInvPrepare, CInvSynthesize, CInvStill DEF ProveNext, Returned
<1>2. CInv => CellsAligned
  BY DEF CInv
<1> QED
  BY CInvInit, <1>1, <1>2, PTL DEF ProveSpec

\* prove runs preprocess: what holds of every run of preprocess, the theorems
\* of Preprocess_proofs among it, holds of the first half of prove.
THEOREM ProveRunsPreprocess == ProveSpec => Spec
<1>1. ProveInit => Init
  BY DEF ProveInit
<1>2. [ProveNext]_proveVars => [Next]_pvars
  BY DEF ProveNext, Prepare, Synthesize, Returned, Next, proveVars, pvars
<1> QED
  BY <1>1, <1>2, PTL DEF ProveSpec, Spec

------------------------------------------------------------------------------
(* Synthesis, key generation and preprocess read the same definitions.       *)

LEMMA SameShape ==
  ASSUME NEW ins, NEW tys
  PROVE  C!Shape(ins, tys) = Shape(ins, tys)
BY DEF ByteBase, C!ByteBase, Native, C!Native, Bool, C!Bool, Byte, C!Byte, Bytes, C!Bytes,
  Point, C!Point, Scalar, C!Scalar, Base, C!Base, PrimeFields, C!PrimeFields, Points,
  C!Points, Order, C!Order, V, C!V, Fr, C!Fr, IsPoint, C!IsPoint, LeBytes, C!LeBytes, Total,
  C!Total, LeInt, C!LeInt, DivCeil, C!DivCeil, ChunkAt, C!ChunkAt, Chunks, C!Chunks,
  encoded_len, C!encoded_len, Limbs, C!Limbs, FromLimbs, C!FromLimbs, EncodePoint,
  C!EncodePoint, Encode, C!Encode, Some, C!Some, ChunkBytes, C!ChunkBytes, decode_bytes,
  C!decode_bytes, PointFromRaw, C!PointFromRaw, FromPublicInput, C!FromPublicInput, Decode,
  C!Decode, PointBytesLen, C!PointBytesLen, HasBytes, C!HasBytes, Nothing, C!Nothing,
  LimbsMatch, C!LimbsMatch, HashOps, C!HashOps, DigestLen, C!DigestLen, Width, C!Width,
  AllOf, C!AllOf, IsBytesType, C!IsBytesType, AddShape, C!AddShape, MulShape, C!MulShape,
  NegShape, C!NegShape, InvShape, C!InvShape, NotShape, C!NotShape, BitListShape,
  C!BitListShape, ConstrainEqShape, C!ConstrainEqShape, TestEqShape, C!TestEqShape,
  CondSelectShape, C!CondSelectShape, CheckShape, C!CheckShape, LessThanShape,
  C!LessThanShape, DivModShape, C!DivModShape, ReconstituteShape, C!ReconstituteShape,
  JubjubScalarShape, C!JubjubScalarShape, TransientHashShape, C!TransientHashShape,
  HashToCurveShape, C!HashToCurveShape, EcMulShape, C!EcMulShape, EcMulGeneratorShape,
  C!EcMulGeneratorShape, IntoCoordinatesShape, C!IntoCoordinatesShape, FromCoordinatesShape,
  C!FromCoordinatesShape, BytesOf, C!BytesOf, ToBytesShape, C!ToBytesShape,
  IntoBytes32Shape, C!IntoBytes32Shape, FromBytesShape, C!FromBytesShape, FromBytes32Shape,
  C!FromBytes32Shape, ReverseShape, C!ReverseShape, SliceShape, C!SliceShape, NthShape,
  C!NthShape, ByteCount, C!ByteCount, ConcatShape, C!ConcatShape, EncodeShape,
  C!EncodeShape, BytesIntoNativesShape, C!BytesIntoNativesShape, BytesFromNativesShape,
  C!BytesFromNativesShape, LowHighShape, C!LowHighShape, FromLowHighShape,
  C!FromLowHighShape, Decodable, C!Decodable, AlignedWidth, C!AlignedWidth, ByteHashShape,
  C!ByteHashShape, LoadConstantShape, C!LoadConstantShape, Shape, C!Shape

LEMMA SameHolds ==
  ASSUME NEW ins, NEW a
  PROVE  C!Holds(ins, a) = Holds(ins, a)
BY DEF ByteBase, C!ByteBase, TopBit, C!TopBit, Native, C!Native, Bytes, C!Bytes, Base,
  C!Base, V, C!V, BytesV, C!BytesV, IsPoint, C!IsPoint, LeBytes, C!LeBytes, Total, C!Total,
  LeInt, C!LeInt, DivCeil, C!DivCeil, ChunkBytes, C!ChunkBytes, CompressEdwards,
  C!CompressEdwards, CompressSec1, C!CompressSec1, ZeroBytes, C!ZeroBytes, PointToBytes,
  C!PointToBytes, PointBytesLen, C!PointBytesLen, PointFromBytes, C!PointFromBytes, ToBytes,
  C!ToBytes, PointAt, C!PointAt, HashOps, C!HashOps, Width, C!Width, AlignedWidth,
  C!AlignedWidth, BitHolds, C!BitHolds, AssertHolds, C!AssertHolds, ConstrainBitsHolds,
  C!ConstrainBitsHolds, EvenBound, C!EvenBound, LessThanHolds, C!LessThanHolds,
  ReconstituteResult, C!ReconstituteResult, ReconstituteHolds, C!ReconstituteHolds,
  IntoCoordinatesHolds, C!IntoCoordinatesHolds, CurveWithBase, C!CurveWithBase,
  FromCoordinatesHolds, C!FromCoordinatesHolds, WitnessPoint, C!WitnessPoint,
  FromBytesHolds, C!FromBytesHolds, BytesFromNativesHolds, C!BytesFromNativesHolds,
  FromLowHighHolds, C!FromLowHighHolds, AtomStart, C!AtomStart, AtomPieces, C!AtomPieces,
  Pieces, C!Pieces, ByteHashHolds, C!ByteHashHolds, Holds, C!Holds

LEMMA SameCells ==
  ASSUME NEW ins, NEW a
  PROVE  C!Cells(ins, a) = Cells(ins, a)
BY DEF ByteBase, C!ByteBase, TopBit, C!TopBit, Native, C!Native, Bool, C!Bool, Byte, C!Byte,
  Bytes, C!Bytes, Point, C!Point, Scalar, C!Scalar, Base, C!Base, Order, C!Order, V, C!V,
  Fr, C!Fr, BytesV, C!BytesV, FrSeq, C!FrSeq, Payloads, C!Payloads, IsBytes, C!IsBytes,
  IsPoint, C!IsPoint, ToBit, C!ToBit, LeBytes, C!LeBytes, Total, C!Total, LeInt, C!LeInt,
  DivCeil, C!DivCeil, ChunkAt, C!ChunkAt, Chunks, C!Chunks, encoded_len, C!encoded_len,
  Limbs, C!Limbs, FromLimbs, C!FromLimbs, EncodePoint, C!EncodePoint, Encode, C!Encode,
  Some, C!Some, ChunkBytes, C!ChunkBytes, decode_bytes, C!decode_bytes, PointFromRaw,
  C!PointFromRaw, FromPublicInput, C!FromPublicInput, Decode, C!Decode, CompressEdwards,
  C!CompressEdwards, CompressSec1, C!CompressSec1, ZeroBytes, C!ZeroBytes, PointToBytes,
  C!PointToBytes, PointBytesLen, C!PointBytesLen, PointFromBytes, C!PointFromBytes, ToBytes,
  C!ToBytes, Coordinates, C!Coordinates, PointAt, C!PointAt, Inverses, C!Inverses, Parity,
  C!Parity, ByteString, C!ByteString, HashOps, C!HashOps, Width, C!Width, AlignedWidth,
  C!AlignedWidth, ReconstituteResult, C!ReconstituteResult, CurveWithBase, C!CurveWithBase,
  WitnessPoint, C!WitnessPoint, AtomStart, C!AtomStart, AtomPieces, C!AtomPieces, Pieces,
  C!Pieces, AddCell, C!AddCell, MulCell, C!MulCell, NegCell, C!NegCell, InvCell, C!InvCell,
  AllSet, C!AllSet, BitListCell, C!BitListCell, EqualCell, C!EqualCell, SelectCell,
  C!SelectCell, LessThanCell, C!LessThanCell, DivModCells, C!DivModCells, JubjubScalarCell,
  C!JubjubScalarCell, FromCoordinatesCell, C!FromCoordinatesCell, FromBytesCell,
  C!FromBytesCell, BytesFromNativesCell, C!BytesFromNativesCell, LowHighCells,
  C!LowHighCells, FromLowHighCell, C!FromLowHighCell, DecodedBytes, C!DecodedBytes, Cells,
  C!Cells

LEMMA SameChips ==
  ASSUME NEW s, NEW tys
  PROVE  C!ChipsFor(s, tys) = ChipsFor(s, tys)
BY DEF Native, C!Native, Point, C!Point, Scalar, C!Scalar, Base, C!Base, CurveOf, C!CurveOf,
  InspectedTypes, C!InspectedTypes, UsedCurves, C!UsedCurves, ChipsFor, C!ChipsFor

LEMMA SameMemory ==
  ASSUME NEW m, NEW os, NEW vs
  PROVE  /\ C!ResolveAll(m, os) = ResolveAll(m, os)
         /\ C!AllResolvable(m, os) = AllResolvable(m, os)
         /\ C!TypesOf(vs) = TypesOf(vs)
         /\ C!AllFr(vs) = AllFr(vs)
BY DEF ResolveAll, C!ResolveAll, Resolve, C!Resolve, AllResolvable, C!AllResolvable,
  Resolvable, C!Resolvable, TypesOf, C!TypesOf, AllFr, C!AllFr, IsFr, C!IsFr, Fr, C!Fr, V, C!V,
  Native, C!Native

LEMMA SameConstants == C!ValueOps = ValueOps /\ C!Fr(0) = Fr(0) /\ K!ValueOps = ValueOps
BY DEF C!ValueOps, K!ValueOps, ValueOps, C!HashOps, K!HashOps, HashOps, C!Fr, Fr, C!V, V,
   C!Native, Native

LEMMA SameKShape ==
  ASSUME NEW ins, NEW tys
  PROVE  K!Shape(ins, tys) = Shape(ins, tys)
BY DEF ByteBase, K!ByteBase, Native, K!Native, Bool, K!Bool, Byte, K!Byte, Bytes, K!Bytes,
  Point, K!Point, Scalar, K!Scalar, Base, K!Base, PrimeFields, K!PrimeFields, Points,
  K!Points, Order, K!Order, V, K!V, Fr, K!Fr, IsPoint, K!IsPoint, LeBytes, K!LeBytes, Total,
  K!Total, LeInt, K!LeInt, DivCeil, K!DivCeil, ChunkAt, K!ChunkAt, Chunks, K!Chunks,
  encoded_len, K!encoded_len, Limbs, K!Limbs, FromLimbs, K!FromLimbs, EncodePoint,
  K!EncodePoint, Encode, K!Encode, Some, K!Some, ChunkBytes, K!ChunkBytes, decode_bytes,
  K!decode_bytes, PointFromRaw, K!PointFromRaw, FromPublicInput, K!FromPublicInput, Decode,
  K!Decode, PointBytesLen, K!PointBytesLen, HasBytes, K!HasBytes, Nothing, K!Nothing,
  LimbsMatch, K!LimbsMatch, HashOps, K!HashOps, DigestLen, K!DigestLen, Width, K!Width,
  AllOf, K!AllOf, IsBytesType, K!IsBytesType, AddShape, K!AddShape, MulShape, K!MulShape,
  NegShape, K!NegShape, InvShape, K!InvShape, NotShape, K!NotShape, BitListShape,
  K!BitListShape, ConstrainEqShape, K!ConstrainEqShape, TestEqShape, K!TestEqShape,
  CondSelectShape, K!CondSelectShape, CheckShape, K!CheckShape, LessThanShape,
  K!LessThanShape, DivModShape, K!DivModShape, ReconstituteShape, K!ReconstituteShape,
  JubjubScalarShape, K!JubjubScalarShape, TransientHashShape, K!TransientHashShape,
  HashToCurveShape, K!HashToCurveShape, EcMulShape, K!EcMulShape, EcMulGeneratorShape,
  K!EcMulGeneratorShape, IntoCoordinatesShape, K!IntoCoordinatesShape, FromCoordinatesShape,
  K!FromCoordinatesShape, BytesOf, K!BytesOf, ToBytesShape, K!ToBytesShape,
  IntoBytes32Shape, K!IntoBytes32Shape, FromBytesShape, K!FromBytesShape, FromBytes32Shape,
  K!FromBytes32Shape, ReverseShape, K!ReverseShape, SliceShape, K!SliceShape, NthShape,
  K!NthShape, ByteCount, K!ByteCount, ConcatShape, K!ConcatShape, EncodeShape,
  K!EncodeShape, BytesIntoNativesShape, K!BytesIntoNativesShape, BytesFromNativesShape,
  K!BytesFromNativesShape, LowHighShape, K!LowHighShape, FromLowHighShape,
  K!FromLowHighShape, Decodable, K!Decodable, AlignedWidth, K!AlignedWidth, ByteHashShape,
  K!ByteHashShape, LoadConstantShape, K!LoadConstantShape, Shape, K!Shape

LEMMA SameKChips ==
  ASSUME NEW s, NEW tys
  PROVE  K!ChipsFor(s, tys) = ChipsFor(s, tys)
BY DEF Native, K!Native, Point, K!Point, Scalar, K!Scalar, Base, K!Base, CurveOf, K!CurveOf,
  InspectedTypes, K!InspectedTypes, UsedCurves, K!UsedCurves, ChipsFor, K!ChipsFor

LEMMA SameKBind ==
  ASSUME NEW m, NEW ids, NEW vals
  PROVE  K!Bind(m, ids, vals) = Bind(m, ids, vals)
BY DEF Bind, K!Bind, ToSet, K!ToSet

------------------------------------------------------------------------------
(* The invariant of synthesis.                                               *)

SourceOK == src \in Source /\ \A i \in DOMAIN src.code : WellShaped(src.code[i])
WitnessOK ==
  /\ \A id \in DOMAIN wit.memory : wit.memory[id] \in IrValue(wit.memory[id].ty)
  /\ wit.binding \in Immediates /\ wit.comm \in Seq(Immediates) /\ Len(wit.comm) \in {0, 2}

CellsOK == MemoryTyped(cells) /\ DOMAIN cells \subseteq Identifier
\* The instance is empty until it is seeded and never again.
InstanceOK ==
  /\ cpis \in Seq(Immediates)
  /\ cstatus = "assigning" => cpis = <<>>
  /\ cstatus = "synthesizing" => cpis # <<>>
SynthInv ==
  /\ SourceOK /\ WitnessOK
  /\ cstatus \in C!CStatuses /\ cpc \in Nat \ {0}
  /\ CellsOK /\ InstanceOK /\ couts \in Seq(TypedValue)

\* Synthesis without the witness takes the step as well, or rests.
KFollows == K!KStep \/ UNCHANGED <<src, K!kvars>>

------------------------------------------------------------------------------
(* Steps.                                                                    *)

LEMMA InvStop ==
  ASSUME SynthInv, src' = src, wit' = wit, NEW s \in C!CStopped, C!CStop(s)
  PROVE  SynthInv'
BY DEF SynthInv, SourceOK, WitnessOK, C!CStatuses, C!CStopped, C!WitnessStops, C!CStop, CellsOK,
   MemoryTyped, InstanceOK

\* Where the witness stops synthesis, key generation has not moved.
LEMMA StopStutters ==
  ASSUME SynthInv, src' = src, cstatus \in {"assigning", "synthesizing"},
         NEW s \in C!WitnessStops, C!CStop(s)
  PROVE  KFollows
BY DEF SynthInv, InstanceOK, C!CStop, C!WitnessStops, KFollows, K!kvars

\* What stops synthesis whatever the witness stops key generation.
LEMMA StopFollows ==
  ASSUME src' = src, NEW s \in {"failed", "no_chip"}, C!CStop(s)
  PROVE  K!KStop(s)
BY DEF K!KStop, C!CStop, C!WitnessStops

LEMMA WitnessTyped ==
  ASSUME WitnessOK, NEW t \in IrType, NEW id \in DOMAIN wit.memory, wit.memory[id].ty = t
  PROVE  Is(wit.memory[id], t)
BY DEF WitnessOK, Is, Typed

\* One more cell.
LEMMA OneMoreCell ==
  ASSUME CellsOK, NEW ids \in Seq(Identifier), Len(ids) = 1, NEW t, NEW v, Is(v, t),
         cells' = Bind(cells, ids, <<v>>)
  PROVE  CellsOK' /\ TypeMap(cells') = Bind(TypeMap(cells), ids, <<t>>)
<1>1. Fits(<<v>>, <<t>>) /\ Yields(<<v>>, Len(ids)) /\ DOMAIN <<t>> = 1..Len(ids)
  BY FitsOne, YieldsOne
<1>2. MemoryTyped(cells')
  BY <1>1, BindTyped DEF CellsOK
<1>3. DOMAIN cells' \subseteq Identifier
  <2>1. DOMAIN cells' = DOMAIN cells \cup ToSet(ids)
    BY BindProperties
  <2>2. ToSet(ids) \subseteq Identifier
    BY ToSetSubset
  <2> QED
    BY <2>1, <2>2 DEF CellsOK
<1>4. TypeMap(cells') = Bind(TypeMap(cells), ids, <<t>>)
  BY <1>1, BindTypes
<1> QED
  BY <1>2, <1>3, <1>4 DEF CellsOK, MemoryTyped

LEMMA StepAssign ==
  ASSUME SynthInv, C!AssignInput, UNCHANGED <<src, wit>>
  PROVE  SynthInv' /\ KFollows
<1> DEFINE id == src.inputs[cpc]
           v == IF id.name \in DOMAIN wit.memory THEN wit.memory[id.name] ELSE Fr(0)
<1>1. id.name \in Identifier /\ id.ty \in IrType /\ cpc <= Len(src.inputs)
  <2>1. src.inputs \in Seq([name : Identifier, ty : IrType]) /\ cpc \in Nat \ {0}
    BY DEF SynthInv, SourceOK, Source
  <2>2. cpc \in 1..Len(src.inputs)
    BY <2>1, LenProperties DEF C!AssignInput
  <2>3. id \in [name : Identifier, ty : IrType]
    BY <2>1, <2>2, ElementOfSeq
  <2> QED
    BY <2>2, <2>3
<1>2. CASE C!CStop("bad_witness")
  BY <1>2, InvStop, StopStutters DEF C!AssignInput, C!CStopped, C!WitnessStops
<1>3. CASE /\ v.ty = id.ty /\ cells' = Bind(cells, <<id.name>>, <<v>>)
           /\ cpc' = cpc + 1 /\ UNCHANGED <<cstatus, cpis, couts>>
  <2>1. Is(v, id.ty)
    <3>1. CASE id.name \in DOMAIN wit.memory
      BY <1>1, <1>3, <3>1, WitnessTyped DEF SynthInv
    <3>2. CASE id.name \notin DOMAIN wit.memory
      <4>1. 0 \in 0..P - 1
        BY Constants
      <4>2. v = Fr(0) /\ Typed(Fr(0))
        BY <3>2, <4>1, TypedFr
      <4> QED
        BY <1>3, <4>2 DEF Is
    <3> QED
      BY <3>1, <3>2
  <2>2. <<id.name>> \in Seq(Identifier) /\ Len(<<id.name>>) = 1
    BY <1>1
  <2>3. cells' = Bind(cells, <<id.name>>, <<v>>)
    BY <1>3
  <2>4. cstatus = "assigning"
    BY DEF C!AssignInput
  <2> HIDE DEF id, v
  <2>5. CellsOK' /\ TypeMap(cells') = Bind(TypeMap(cells), <<id.name>>, <<id.ty>>)
    BY <2>1, <2>2, <2>3, OneMoreCell DEF SynthInv
  <2>6. SynthInv'
    BY <1>3, <2>5 DEF SynthInv, SourceOK, WitnessOK, InstanceOK
  <2>7. K!KAssignInput
    BY <1>1, <1>3, <2>4, <2>5, SameKBind DEF K!KAssignInput, TypeMap, C!WitnessStops, id
  <2> QED
    BY <2>6, <2>7 DEF KFollows, K!KStep
<1> QED
  BY <1>2, <1>3, SameBind, SameConstants DEF C!AssignInput

LEMMA JoinOnes ==
  ASSUME NEW S, NEW a \in S, NEW b \in S
  PROVE  /\ Cat(<<a>>, <<b>>) \in Seq(S) /\ Len(Cat(<<a>>, <<b>>)) = 2
         /\ Cat(<<a>>, <<b>>) # <<>>
<1>1. ASSUME NEW p \in Seq(S), NEW q \in Seq(S), Len(p) = 1, Len(q) = 1
      PROVE  Cat(p, q) \in Seq(S) /\ Len(Cat(p, q)) = 2 /\ Cat(p, q) # <<>>
  <2>1. Cat(p, q) \in Seq(S) /\ Len(Cat(p, q)) = 2
    BY <1>1, ConcatProperties DEF Cat
  <2>2. Len(<<>>) = 0
    OBVIOUS
  <2> QED
    BY <2>1, <2>2
<1>2. <<a>> \in Seq(S) /\ Len(<<a>>) = 1 /\ <<b>> \in Seq(S) /\ Len(<<b>>) = 1
  OBVIOUS
<1> QED
  BY <1>1, <1>2, Zenon

LEMMA StepSeed ==
  ASSUME SynthInv, C!SeedInstance, UNCHANGED <<src, wit>>
  PROVE  SynthInv' /\ KFollows
<1>1. CASE C!CStop("bad_witness") \/ C!CStop("misaligned")
  BY <1>1, InvStop, StopStutters DEF C!SeedInstance, C!CStopped, C!WitnessStops
<1>2. CASE /\ src.comm => wit.comm # <<>>
           /\ cpis' = <<wit.binding>> \o (IF src.comm THEN <<wit.comm[1]>> ELSE <<>>)
           /\ cstatus' = "synthesizing" /\ cpc' = 1 /\ UNCHANGED <<cells, couts>>
  <2>1. cstatus = "assigning" /\ cpc > Len(src.inputs)
    BY DEF C!SeedInstance
  <2>2. cpis' \in Seq(Immediates) /\ cpis' # <<>> /\ Len(cpis') = IF src.comm THEN 2 ELSE 1
    <3>1. wit.binding \in Immediates /\ wit.comm \in Seq(Immediates) /\ Len(wit.comm) \in {0, 2}
      BY DEF SynthInv, WitnessOK
    <3>2. CASE src.comm
      <4>1. wit.comm[1] \in Immediates
        BY <1>2, <3>1, <3>2, EmptySeq
      <4>2. cpis' = Cat(<<wit.binding>>, <<wit.comm[1]>>)
        BY <1>2, <3>2 DEF Cat
      <4> QED
        BY <3>1, <3>2, <4>1, <4>2, JoinOnes
    <3>3. CASE ~src.comm
      <4>1. cpis' = <<wit.binding>>
        BY <1>2, <3>1, <3>3
      <4> QED
        BY <3>1, <3>3, <4>1
    <3> QED
      BY <3>2, <3>3
  <2>3. SynthInv'
    BY <1>2, <2>2 DEF SynthInv, SourceOK, WitnessOK, InstanceOK, CellsOK, MemoryTyped, C!CStatuses
  <2>4. K!KSeedInstance
    BY <1>2, <2>1, <2>2 DEF K!KSeedInstance, C!WitnessStops
  <2> QED
    BY <2>3, <2>4 DEF KFollows, K!KStep
<1> QED
  BY <1>1, <1>2 DEF C!SeedInstance

------------------------------------------------------------------------------
\* The instruction synthesis is at, and what key generation sees of its operands.
LEMMA SynthFetched ==
  ASSUME SynthInv, NEW ops, C!CFetch(ops)
  PROVE  /\ C!CInstr \in Instruction /\ WellShaped(C!CInstr) /\ C!CInstr.op \in ops
         /\ C!CInstr.args \in Seq(Operand) /\ C!CInstr.outs \in Seq(Identifier)
         /\ C!CInstr.ty \in IrType /\ cpc \in DOMAIN src.code
         /\ cstatus = "synthesizing" /\ K!KFetch(ops) /\ K!KInstr = C!CInstr
<1>1. src.code \in Seq(Instruction) /\ \A i \in DOMAIN src.code : WellShaped(src.code[i])
  BY DEF SynthInv, SourceOK, Source
<1>2. cpc \in DOMAIN src.code
  BY <1>1, LenProperties DEF SynthInv, C!CFetch
<1>3. C!CInstr \in Instruction
  BY <1>1, <1>2, ElementOfSeq, LenProperties DEF C!CInstr
<1>4. K!KFetch(ops) /\ K!KInstr = C!CInstr /\ cstatus = "synthesizing"
  BY DEF C!CFetch, K!KFetch, K!KInstr, C!CInstr, C!WitnessStops
<1> QED
  BY <1>1, <1>2, <1>3, <1>4 DEF C!CInstr, C!CFetch, Instruction

LEMMA SameOperands ==
  ASSUME K!KInstr = C!CInstr, C!CInstr.args \in Seq(Operand)
  PROVE  /\ K!Bound <=> AllResolvable(cells, C!CInstr.args)
         /\ AllResolvable(cells, C!CInstr.args) => K!KTypes = C!OperandTypes
<1>1. K!Bound <=> AllResolvable(cells, C!CInstr.args)
  BY DEF K!Bound, AllResolvable, K!Resolvable, Resolvable
<1>2. ASSUME AllResolvable(cells, C!CInstr.args), NEW i \in DOMAIN C!CInstr.args
      PROVE  K!KTypeOf(C!CInstr.args[i]) = Resolve(cells, C!CInstr.args[i]).ty
  <2>1. PICK o \in Operand : o = C!CInstr.args[i]
    BY LenProperties, ElementOfSeq
  <2>2. o[1] = "imm" \/ (o[1] # "imm" /\ o[2] \in DOMAIN cells)
    BY <1>2, <2>1 DEF AllResolvable, Resolvable, Operand
  <2>3. K!KTypeOf(o) = Resolve(cells, o).ty
    BY <2>2 DEF Resolve, K!KTypeOf, Fr, V, Native, K!Native
  <2> QED
    BY <2>1, <2>3
<1> QED
  BY <1>1, <1>2, SameMemory DEF K!KTypes, C!OperandTypes, C!Operands, TypesOf, ResolveAll

LEMMA OperandsFit ==
  ASSUME SynthInv, C!CInstr.args \in Seq(Operand), AllResolvable(cells, C!CInstr.args)
  PROVE  AllTyped(C!Operands) /\ DOMAIN C!Operands = 1..Len(C!CInstr.args)
BY OperandsAre, SameMemory DEF SynthInv, CellsOK, C!Operands

LEMMA StepGate ==
  ASSUME GadgetsTyped, SynthInv, C!Gate, UNCHANGED <<src, wit>>
  PROVE  SynthInv' /\ KFollows
<1>1. /\ C!CInstr \in Instruction /\ WellShaped(C!CInstr) /\ C!CInstr.op \in ValueOps
      /\ C!CInstr.args \in Seq(Operand) /\ C!CInstr.outs \in Seq(Identifier)
      /\ cstatus = "synthesizing" /\ K!KFetch(ValueOps) /\ K!KInstr = C!CInstr
  BY SynthFetched, SameConstants DEF C!Gate
<1>2. /\ K!Bound <=> AllResolvable(cells, C!CInstr.args)
      /\ AllResolvable(cells, C!CInstr.args) => K!KTypes = C!OperandTypes
  BY <1>1, SameOperands
<1>3. ASSUME NEW s \in C!CStopped, C!CStop(s)
      PROVE  SynthInv'
  BY <1>3, InvStop
<1>4. CASE C!CStop("failed") /\ (AllResolvable(cells, C!CInstr.args) => Shape(C!CInstr, C!OperandTypes) = {})
  <2>1. SynthInv' /\ K!KStop("failed")
    BY <1>3, <1>4, StopFollows DEF C!CStopped
  <2>2. K!KGate
    BY <1>1, <1>2, <1>4, <2>1, SameKShape, SameConstants DEF K!KGate
  <2> QED
    BY <2>1, <2>2 DEF KFollows, K!KStep
<1>5. ASSUME NEW tys, AllResolvable(cells, C!CInstr.args), tys \in Shape(C!CInstr, C!OperandTypes),
             C!CStop("no_chip"), ~ChipsFor(src, tys)
      PROVE  SynthInv' /\ KFollows
  <2>1. SynthInv' /\ K!KStop("no_chip")
    BY <1>3, <1>5, StopFollows DEF C!CStopped
  <2>2. K!KGate
    BY <1>1, <1>2, <1>5, <2>1, SameKShape, SameConstants, SameKChips DEF K!KGate
  <2> QED
    BY <2>1, <2>2 DEF KFollows, K!KStep
<1>6. CASE C!CStop("unsatisfied") \/ C!CStop("misaligned")
  BY <1>1, <1>3, <1>6, StopStutters DEF C!WitnessStops, C!CStopped
<1>7. ASSUME NEW tys, AllResolvable(cells, C!CInstr.args), tys \in Shape(C!CInstr, C!OperandTypes),
             ChipsFor(src, tys), Holds(C!CInstr, C!Operands),
             cells' = Bind(cells, C!CInstr.outs, Cells(C!CInstr, C!Operands)),
             cpc' = cpc + 1, UNCHANGED <<cstatus, cpis, couts>>
      PROVE  SynthInv' /\ KFollows
  <2>1. /\ MemoryTyped(cells') /\ TypeMap(cells') = Bind(TypeMap(cells), C!CInstr.outs, tys)
    BY <1>1, <1>7, GateTyped, SameMemory DEF SynthInv, CellsOK, C!Operands, C!OperandTypes
  <2>2. DOMAIN cells' \subseteq Identifier
    <3>1. DOMAIN cells' = DOMAIN cells \cup ToSet(C!CInstr.outs)
      BY <1>7, BindProperties
    <3>2. ToSet(C!CInstr.outs) \subseteq Identifier
      BY <1>1, ToSetSubset
    <3> QED
      BY <3>1, <3>2 DEF SynthInv, CellsOK
  <2>3. SynthInv'
    BY <1>7, <2>1, <2>2 DEF SynthInv, SourceOK, WitnessOK, InstanceOK, CellsOK, MemoryTyped
  <2>4. K!KGate
    BY <1>1, <1>2, <1>7, <2>1, SameKShape, SameConstants, SameKChips, SameKBind
       DEF K!KGate, TypeMap, C!WitnessStops
  <2> QED
    BY <2>3, <2>4 DEF KFollows, K!KStep
<1> QED
  BY <1>4, <1>5, <1>6, <1>7, SameMemory, SameShape, SameChips, SameHolds, SameCells, SameBind
     DEF C!Gate

LEMMA StepRead ==
  ASSUME SynthInv, C!WitnessRead, UNCHANGED <<src, wit>>
  PROVE  SynthInv' /\ KFollows
<1> DEFINE id == C!CInstr.outs[1]
           ops == {"PublicInput", "PrivateInput"}
<1>1. /\ C!CInstr.ty \in IrType /\ C!CInstr.outs \in Seq(Identifier) /\ Len(C!CInstr.outs) = 1
      /\ cstatus = "synthesizing" /\ K!KFetch(ops) /\ K!KInstr = C!CInstr
  BY SynthFetched, ReadShape DEF C!WitnessRead
<1>2. CASE C!CStop("bad_witness")
  BY <1>1, <1>2, InvStop, StopStutters DEF C!CStopped, C!WitnessStops
<1>3. CASE /\ id \in DOMAIN wit.memory /\ wit.memory[id].ty = C!CInstr.ty
           /\ cells' = Bind(cells, C!CInstr.outs, <<wit.memory[id]>>)
           /\ cpc' = cpc + 1 /\ UNCHANGED <<cstatus, cpis, couts>>
  <2>1. Is(wit.memory[id], C!CInstr.ty)
    BY <1>1, <1>3, WitnessTyped DEF SynthInv
  <2>2. CellsOK' /\ TypeMap(cells') = Bind(TypeMap(cells), C!CInstr.outs, <<C!CInstr.ty>>)
    BY <1>1, <1>3, <2>1, OneMoreCell DEF SynthInv
  <2>3. SynthInv'
    BY <1>3, <2>2 DEF SynthInv, SourceOK, WitnessOK, InstanceOK
  <2>4. K!KRead
    BY <1>1, <1>3, <2>2, SameKBind DEF K!KRead, TypeMap, C!WitnessStops
  <2> QED
    BY <2>3, <2>4 DEF KFollows, K!KStep
<1> QED
  BY <1>2, <1>3, SameBind DEF C!WitnessRead

LEMMA StepImpact ==
  ASSUME SynthInv, C!PushImpact, UNCHANGED <<src, wit>>
  PROVE  SynthInv' /\ KFollows
<1> DEFINE native == AllResolvable(cells, C!CInstr.args) /\ AllFr(C!Operands)
           rest == Tail(C!Operands)
           pushed == [i \in DOMAIN rest |-> IF Head(C!Operands).val = 1 THEN rest[i].val ELSE 0]
<1>1. /\ WellShaped(C!CInstr) /\ C!CInstr.op = "Impact" /\ C!CInstr.args \in Seq(Operand)
      /\ C!CInstr.args # <<>>
      /\ cstatus = "synthesizing" /\ K!KFetch({"Impact"}) /\ K!KInstr = C!CInstr
  BY SynthFetched DEF C!PushImpact, WellShaped
<1>2. native <=> K!Bound /\ K!AllOf(K!KTypes, K!Native)
  <2>1. K!Bound <=> AllResolvable(cells, C!CInstr.args)
    BY <1>1, SameOperands
  <2>2. ASSUME AllResolvable(cells, C!CInstr.args)
        PROVE  AllFr(C!Operands) <=> K!AllOf(K!KTypes, K!Native)
    <3>1. K!KTypes = TypesOf(C!Operands)
      BY <1>1, <2>2, SameOperands, SameMemory DEF C!OperandTypes
    <3> QED
      BY <3>1 DEF AllFr, IsFr, K!AllOf, K!Native, Native, TypesOf
  <2> QED
    BY <2>1, <2>2
<1>3. CASE C!CStop("failed") /\ ~native
  <2>1. SynthInv' /\ K!KStop("failed")
    BY <1>3, InvStop, StopFollows DEF C!CStopped
  <2>2. K!KImpact
    BY <1>1, <1>2, <1>3, <2>1 DEF K!KImpact
  <2> QED
    BY <2>1, <2>2 DEF KFollows, K!KStep
<1>4. CASE C!CStop("unsatisfied") \/ C!CStop("misaligned")
  BY <1>1, <1>4, InvStop, StopStutters DEF C!CStopped, C!WitnessStops
<1>5. CASE /\ native /\ cpis' = cpis \o pushed
           /\ cpc' = cpc + 1 /\ UNCHANGED <<cstatus, cells, couts>>
  <2>1. /\ C!Operands \in Seq(TypedValue) /\ Len(C!Operands) = Len(C!CInstr.args)
    <3>1. C!Operands = ResolveAll(cells, C!CInstr.args) /\ AllResolvable(cells, C!CInstr.args)
      BY <1>5, SameMemory DEF C!Operands
    <3>2. MemoryTyped(cells)
      BY DEF SynthInv, CellsOK
    <3> QED
      BY <1>1, <3>1, <3>2, OperandsAreSeq
  <2>2. C!Operands # <<>> /\ Len(C!CInstr.args) \in Nat \ {0}
    BY <1>1, <2>1, EmptySeq, LenProperties
  <2>3. /\ rest \in Seq(TypedValue) /\ Len(rest) = Len(C!Operands) - 1
        /\ \A i \in 1..Len(rest) : rest[i] = C!Operands[i + 1]
    BY <2>1, <2>2, HeadTailProperties
  <2>4. PICK n \in Nat : n = Len(rest) /\ n = Len(C!CInstr.args) - 1
    <3>1. Len(C!CInstr.args) - 1 \in Nat
      BY <2>2
    <3>2. Len(rest) = Len(C!CInstr.args) - 1
      BY <2>1, <2>3
    <3> QED
      BY <3>1, <3>2, Zenon
  <2>5. DOMAIN rest = 1..n /\ DOMAIN C!Operands = 1..n + 1
    BY <2>1, <2>2, <2>3, <2>4, LenProperties
  <2>6. \A i \in 1..n : rest[i].val \in Immediates
    <3> SUFFICES ASSUME NEW i \in 1..n PROVE rest[i].val \in Immediates
      OBVIOUS
    <3>1. rest[i] = C!Operands[i + 1] /\ i + 1 \in DOMAIN C!Operands
      BY <2>3, <2>4, <2>5
    <3>2. Typed(C!Operands[i + 1]) /\ C!Operands[i + 1].ty = Native
      BY <1>5, <2>1, <3>1, TypedIsValue, ElementOfSeq, LenProperties DEF AllFr, IsFr
    <3> QED
      BY <3>1, <3>2, FrRange
  <2>7. 0 \in Immediates
    BY Constants DEF Immediates
  <2>8. pushed \in Seq(Immediates) /\ Len(pushed) = n
    <3>1. \A i \in 1..n : pushed[i] \in Immediates
      BY <2>5, <2>6, <2>7
    <3>2. pushed \in [1..n -> Immediates]
      BY <2>5, <3>1
    <3> HIDE DEF pushed
    <3>3. pushed \in Seq(Immediates)
      BY <3>2, SeqDef
    <3> QED
      BY <3>2, <3>3
  <2>9. Len(ImpactInputs(C!CInstr)) = n /\ K!ImpactInputs(C!CInstr) = ImpactInputs(C!CInstr)
    BY <1>1, <2>4, HeadTailProperties DEF ImpactInputs, K!ImpactInputs
  <2> HIDE DEF pushed
  <2>10. cpis' \in Seq(Immediates) /\ Len(cpis') = Len(cpis) + n /\ cpis' # <<>>
    <3>1. cpis' \in Seq(Immediates) /\ Len(cpis') = Len(cpis) + n
      BY <1>5, <2>8, ConcatProperties DEF SynthInv, InstanceOK
    <3>2. Len(cpis) \in Nat \ {0}
      BY <1>1, EmptySeq, LenProperties DEF SynthInv, InstanceOK
    <3> QED
      BY <3>1, <3>2, EmptySeq
  <2>11. SynthInv'
    BY <1>5, <1>1, <2>10 DEF SynthInv, SourceOK, WitnessOK, InstanceOK, CellsOK, MemoryTyped
  <2>12. K!KImpact
    BY <1>1, <1>2, <1>5, <2>9, <2>10 DEF K!KImpact, C!WitnessStops
  <2> QED
    BY <2>11, <2>12 DEF KFollows, K!KStep
<1> QED
  BY <1>3, <1>4, <1>5, SameMemory DEF C!PushImpact

LEMMA TypesOfConcat ==
  ASSUME NEW S, NEW s \in Seq(S), NEW t \in Seq(S)
  PROVE  TypesOf(s \o t) = TypesOf(s) \o TypesOf(t)
<1>1. PICK m \in Nat, n \in Nat : m = Len(s) /\ n = Len(t)
  BY LenProperties
<1>2. DOMAIN s = 1..m /\ DOMAIN t = 1..n
  BY <1>1, LenProperties
<1>3. /\ DOMAIN (s \o t) = 1..m + n
      /\ \A i \in 1..m + n : (s \o t)[i] = IF i <= m THEN s[i] ELSE t[i - m]
  BY <1>1, ConcatProperties, LenProperties
<1> DEFINE tys == {s[i].ty : i \in 1..m} \cup {t[i].ty : i \in 1..n}
<1>4. /\ TypesOf(s) \in [1..m -> tys] /\ TypesOf(t) \in [1..n -> tys]
      /\ TypesOf(s \o t) = [i \in 1..m + n |-> IF i <= m THEN s[i].ty ELSE t[i - m].ty]
  BY <1>2, <1>3 DEF TypesOf
<1> HIDE DEF tys
<1>5. PICK u, v, w : u = TypesOf(s) /\ v = TypesOf(t) /\ w = TypesOf(s \o t)
  OBVIOUS
<1>6. u \in Seq(tys) /\ v \in Seq(tys) /\ Len(u) = m /\ Len(v) = n
  BY <1>4, <1>5, SeqDef
<1>7. /\ u \o v \in Seq(tys) /\ Len(u \o v) = m + n
      /\ \A i \in 1..m + n : (u \o v)[i] = IF i <= m THEN u[i] ELSE v[i - m]
  BY <1>6, ConcatProperties
<1>8. \A i \in 1..m + n : w[i] = IF i <= m THEN u[i] ELSE v[i - m]
  <2>1. \A i \in 1..m : u[i] = s[i].ty
    BY <1>2, <1>5 DEF TypesOf
  <2>2. \A i \in 1..n : v[i] = t[i].ty
    BY <1>2, <1>5 DEF TypesOf
  <2> QED
    BY <1>4, <1>5, <2>1, <2>2
<1>9. PICK x \in Seq(tys) : x = u \o v
  BY <1>7
<1>10. DOMAIN x = 1..m + n /\ x = [i \in 1..m + n |-> x[i]]
  BY <1>7, <1>9, LenProperties
<1>11. w = [i \in 1..m + n |-> w[i]]
  BY <1>4, <1>5
<1>12. \A i \in 1..m + n : w[i] = x[i]
  BY <1>7, <1>8, <1>9
<1>13. w = x
  BY <1>10, <1>11, <1>12
<1> QED
  BY <1>5, <1>9, <1>13

LEMMA StepOutput ==
  ASSUME SynthInv, C!OutputCells, UNCHANGED <<src, wit>>
  PROVE  SynthInv' /\ KFollows
<1> DEFINE typed == /\ Len(C!CInstr.args) = Len(src.outputs)
                    /\ AllResolvable(cells, C!CInstr.args) /\ C!OperandTypes = src.outputs
<1>1. /\ C!CInstr.args \in Seq(Operand)
      /\ cstatus = "synthesizing" /\ K!KFetch({"Output"}) /\ K!KInstr = C!CInstr
  BY SynthFetched DEF C!OutputCells
<1>2. typed <=> Len(K!KInstr.args) = Len(src.outputs) /\ K!Bound /\ K!KTypes = src.outputs
  BY <1>1, SameOperands
<1>3. CASE C!CStop("failed") /\ ~typed
  <2>1. SynthInv' /\ K!KStop("failed")
    BY <1>3, InvStop, StopFollows DEF C!CStopped
  <2>2. K!KOutput
    BY <1>1, <1>2, <1>3, <2>1 DEF K!KOutput
  <2> QED
    BY <2>1, <2>2 DEF KFollows, K!KStep
<1>4. CASE /\ typed /\ couts' = couts \o C!Operands
           /\ cpc' = cpc + 1 /\ UNCHANGED <<cstatus, cells, cpis>>
  <2>1. C!Operands \in Seq(TypedValue)
    BY <1>1, <1>4, OperandsAreSeq, SameMemory DEF SynthInv, CellsOK, C!Operands
  <2>2. couts \in Seq(TypedValue)
    BY DEF SynthInv
  <2>3. couts' \in Seq(TypedValue)
    BY <1>4, <2>1, <2>2, ConcatProperties
  <2>4. TypesOf(couts') = TypesOf(couts) \o K!KTypes
    <3>1. K!KTypes = TypesOf(C!Operands)
      BY <1>1, <1>4, SameOperands, SameMemory DEF C!OperandTypes
    <3> QED
      BY <1>4, <2>1, <2>2, <3>1, TypesOfConcat
  <2>5. SynthInv'
    BY <1>4, <2>3 DEF SynthInv, SourceOK, WitnessOK, InstanceOK, CellsOK, MemoryTyped
  <2>6. K!KOutput
    BY <1>1, <1>2, <1>4, <2>4, SameMemory DEF K!KOutput, C!WitnessStops
  <2> QED
    BY <2>5, <2>6 DEF KFollows, K!KStep
<1> QED
  BY <1>3, <1>4, SameMemory DEF C!OutputCells

LEMMA StepConstrain ==
  ASSUME SynthInv, C!ConstrainInstance, UNCHANGED <<src, wit>>
  PROVE  SynthInv' /\ KFollows
<1>1. cstatus = "synthesizing" /\ cpc > Len(src.code)
  BY DEF C!ConstrainInstance
<1>2. CASE C!CStop("unsatisfied")
  BY <1>1, <1>2, InvStop, StopStutters DEF C!CStopped, C!WitnessStops
<1>3. CASE C!CStop("satisfied")
  <2>1. SynthInv'
    BY <1>3, InvStop DEF C!CStopped
  <2>2. K!KConstrain
    BY <1>1, <1>3 DEF K!KConstrain, K!KStop, C!CStop, C!WitnessStops
  <2> QED
    BY <2>1, <2>2 DEF KFollows, K!KStep
<1> QED
  BY <1>2, <1>3 DEF C!ConstrainInstance

------------------------------------------------------------------------------
(* The two halves together.                                                  *)

ProveInv == CInv /\ ValueInv /\ SynthInv

\* A typed run of preprocess leaves a typed witness.
LEMMA RunIsWitness ==
  ASSUME ValueInv
  PROVE  SourceOK /\ WitnessOK
<1>1. src \in Source /\ pre \in Preimage /\ Len(pre.comm) \in {0, 2}
      /\ \A i \in DOMAIN src.code : WellShaped(src.code[i])
  BY JobTypes DEF ValueInv
<1>2. wit.memory = memory /\ wit.binding = pre.binding /\ wit.comm = pre.comm
  BY DEF wit
<1> QED
  BY <1>1, <1>2 DEF SourceOK, WitnessOK, ValueInv, ValuesIn, MemoryTyped, Typed, Preimage

LEMMA ProveInvInit == ProveInit => ProveInv /\ K!KInit
<1> SUFFICES ASSUME ProveInit PROVE ProveInv /\ K!KInit
  OBVIOUS
<1>1. CInv /\ ValueInv
  BY CInvInit, ValueInit DEF ProveInit
<1>2. cstatus = "assigning" /\ cpc = 1 /\ cells = EmptyMemory /\ cpis = <<>> /\ couts = <<>>
  <2>1. C!EmptyMemory = EmptyMemory
    BY DEF C!EmptyMemory, EmptyMemory, C!Fr, Fr, C!V, V, C!Native, Native
  <2> QED
    BY <2>1 DEF ProveInit, C!CInit
<1>3. DOMAIN cells = {}
  BY <1>2 DEF EmptyMemory
<1>4. SynthInv
  BY <1>1, <1>2, <1>3, EmptySeq, RunIsWitness
     DEF SynthInv, C!CStatuses, CellsOK, MemoryTyped, InstanceOK
<1>5. K!KInit
  BY <1>2, <1>3 DEF K!KInit, C!WitnessStops, C!TypesOf, K!Native
<1> QED
  BY <1>1, <1>4, <1>5 DEF ProveInv

\* Where neither src nor synthesis moves, key generation does not either.
LEMMA SynthWaits ==
  ASSUME ProveInv, UNCHANGED <<src, synthVars>>, ValueInv'
  PROVE  SynthInv' /\ UNCHANGED <<src, K!kvars>>
<1>1. SourceOK' /\ WitnessOK'
  BY RunIsWitness, PTL
<1>2. UNCHANGED <<cstatus, cpc, cells, cpis, couts>>
  BY DEF synthVars
<1>3. UNCHANGED K!kvars
  BY <1>2 DEF K!kvars
<1> QED
  BY <1>1, <1>2, <1>3 DEF ProveInv, SynthInv, CellsOK, MemoryTyped, InstanceOK

LEMMA SynthStep ==
  ASSUME GadgetsTyped, ProveInv, Synthesize
  PROVE  SynthInv' /\ KFollows
<1>1. C!CStep /\ UNCHANGED pvars
  BY DEF Synthesize
<1>2. UNCHANGED <<src, wit>>
  BY <1>1 DEF pvars, wit
<1> QED
  BY <1>1, <1>2, StepAssign, StepSeed, StepGate, StepRead, StepImpact, StepOutput, StepConstrain
     DEF C!CStep, ProveInv

LEMMA ProveInvNext ==
  ASSUME GadgetsTyped, ProveInv, [ProveNext]_proveVars
  PROVE  ProveInv' /\ [K!KStep]_<<src, K!kvars>>
<1>1. CInv'
  BY CInvPrepare, CInvSynthesize, CInvStill DEF ProveNext, Returned, ProveInv
<1>2. [Next]_pvars
  BY DEF ProveNext, Prepare, Synthesize, Returned, Next, proveVars, pvars
<1>3. ValueInv'
  BY <1>2, ValueNext DEF ProveInv
<1>4. CASE Synthesize
  BY <1>1, <1>3, <1>4, SynthStep DEF ProveInv, KFollows
<1>5. CASE Prepare \/ Returned \/ UNCHANGED proveVars
  <2>1. UNCHANGED <<src, synthVars>>
    BY <1>5 DEF Prepare, Returned, proveVars, synthVars, Step, DecodeInput, SeedPublicInputs,
       Compute, ReadPublic, ReadPrivate, Read, ImpactSkipped, ImpactActive, OutputValues,
       Finish, Reject, Stop
  <2> QED
    BY <1>1, <1>3, <2>1, SynthWaits DEF ProveInv
<1> QED
  BY <1>4, <1>5 DEF ProveNext

\* For every source, preimage, field and curve: every cell of the circuit is a
\* value of its type and the public inputs are native elements.
THEOREM ProveTyped == GadgetsTyped => (ProveSpec => []ProveTypeOK)
<1> SUFFICES ASSUME GadgetsTyped PROVE ProveSpec => []ProveTypeOK
  OBVIOUS
<1>1. ProveInv /\ [ProveNext]_proveVars => ProveInv'
  BY ProveInvNext
<1>2. ProveInv => ProveTypeOK
  BY DEF ProveInv, SynthInv, CellsOK, InstanceOK, MemoryTyped, Typed, ProveTypeOK
<1> QED
  BY ProveInvInit, <1>1, <1>2, PTL DEF ProveSpec

\* For every source and preimage: the circuit that prove synthesises with the
\* witness of an accepted run is, step by step, the circuit that key generation
\* lays out of the source alone.
THEOREM ProofsFitTheKeys == GadgetsTyped => (ProveSpec => LaysOutTheKeyed)
<1> SUFFICES ASSUME GadgetsTyped PROVE ProveSpec => K!KSpec
  BY DEF LaysOutTheKeyed
<1>1. ProveInv /\ [ProveNext]_proveVars => ProveInv' /\ [K!KStep]_<<src, K!kvars>>
  BY ProveInvNext
<1> QED
  BY ProveInvInit, <1>1, PTL DEF ProveSpec, K!KSpec

------------------------------------------------------------------------------
(* The curves of the cells.                                                  *)

LEMMA CurvesOf ==
  /\ CurveOf(Native) = {} /\ CurveOf(Bool) = {} /\ CurveOf(Byte) = {}
  /\ \A n : CurveOf(Bytes(n)) = {}
  /\ \A c : CurveOf(Point(c)) \subseteq {c}
  /\ \A c \in Curves : /\ CurveOf(Point(c)) = {c} /\ CurveOf(Scalar(c)) = {c}
                       /\ CurveOf(Base(c)) \subseteq {c}
                       /\ c # "Jubjub" => CurveOf(Base(c)) = {c}
<1>1. \A c : Base(c) = (IF c = "Jubjub" THEN Native ELSE <<"Base", c>>)
  BY DEF Base
<1>2. \A c, t : c \in CurveOf(t) <=> /\ c \in Curves
                                     /\ \/ t = Point(c) \/ t = Scalar(c)
                                        \/ c # "Jubjub" /\ t = <<"Base", c>>
  BY <1>1 DEF CurveOf
<1>3. \A t : t[1] \notin {"Point", "Scalar", "Base"} => CurveOf(t) = {}
  BY <1>2, Tags
<1>4. \A t, c : t[2] = c => CurveOf(t) \subseteq {c}
  BY <1>2, Tags
<1>5. CurveOf(Native) = {} /\ CurveOf(Bool) = {} /\ CurveOf(Byte) = {}
  BY <1>3, Tags
<1>6. \A n : CurveOf(Bytes(n)) = {}
  BY <1>3, Tags
<1>7. \A c : CurveOf(Point(c)) \subseteq {c}
  BY <1>4, Tags
<1>8. ASSUME NEW c \in Curves
      PROVE  /\ CurveOf(Point(c)) = {c} /\ CurveOf(Scalar(c)) = {c}
             /\ CurveOf(Base(c)) \subseteq {c}
             /\ c # "Jubjub" => CurveOf(Base(c)) = {c}
  <2>1. CurveOf(Point(c)) = {c} /\ CurveOf(Scalar(c)) = {c}
    BY <1>2, <1>4, Tags
  <2>2. CurveOf(<<"Base", c>>) \subseteq {c} /\ (c # "Jubjub" => c \in CurveOf(<<"Base", c>>))
    BY <1>2, <1>4, Tags
  <2> QED
    BY <1>1, <1>5, <2>1, <2>2
<1> QED
  BY <1>5, <1>6, <1>7, <1>8

\* The three instructions that make a value of a curve out of nothing of it.
Unseen(ins, T) ==
  \/ ins.op \in {"LoadConstant", "JubjubScalarFromNative"}
  \/ ins.op = "FromCoordinates" /\ \A k \in DOMAIN T : T[k] = Native

\* Where the curve of a type u that an instruction makes comes from.
Derived(ins, T, u) ==
  \/ CurveOf(u) = {}
  \/ \E k \in DOMAIN T : CurveOf(u) \subseteq CurveOf(T[k])
  \/ ins.op = "HashToCurve" /\ u = Point("Jubjub")
  \/ ins.op \in {"FromBytes", "FromBytes32"} /\ u = ins.ty

LEMMA DerivedOne ==
  ASSUME NEW ins, NEW T, NEW u, Derived(ins, T, u)
  PROVE  \A i \in DOMAIN <<u>> : Derived(ins, T, <<u>>[i])
OBVIOUS

LEMMA ShapeCurves ==
  ASSUME NEW ins \in Instruction, WellShaped(ins), ins.op \in ValueOps,
         NEW T, DOMAIN T = 1..Len(ins.args), NEW tys \in Shape(ins, T), ~Unseen(ins, T),
         NEW i \in DOMAIN tys
  PROVE  Derived(ins, T, tys[i])
<1>1. /\ ins.op \in UnaryOps => 1 \in DOMAIN T
      /\ ins.op \in BinaryOps => 1 \in DOMAIN T /\ DOMAIN T = 1..2
      /\ ins.op = "CondSelect" => 2 \in DOMAIN T
  <2>1. /\ ins.op \in UnaryOps => Len(ins.args) = 1
        /\ ins.op \in BinaryOps => Len(ins.args) = 2
        /\ ins.op = "CondSelect" => Len(ins.args) = 3
    BY DEF WellShaped
  <2>2. 1 \in 1..1 /\ 1 \in 1..2 /\ 2 \in 1..3
    OBVIOUS
  <2>3. ins.op \in UnaryOps => 1 \in DOMAIN T
    BY <2>1, <2>2, Zenon
  <2>4. ins.op \in BinaryOps => 1 \in DOMAIN T /\ DOMAIN T = 1..2
    BY <2>1, <2>2, Zenon
  <2>5. ins.op = "CondSelect" => 2 \in DOMAIN T
    BY <2>1, <2>2, Zenon
  <2> QED
    BY <2>3, <2>4, <2>5
<1>2. ASSUME \E u : tys = <<u>> /\ Derived(ins, T, u)
      PROVE  Derived(ins, T, tys[i])
  BY <1>2, DerivedOne
<1>3. CASE ins.op \in {"ConstrainEq", "Assert", "ConstrainBits", "ConstrainToBoolean"}
  <2>1. tys = <<>>
    BY <1>3 DEF Shape, HashOps, ConstrainEqShape, CheckShape, Some, Nothing
  <2> QED
    BY <2>1
<1>4. CASE ins.op = "DivModPowerOfTwo" \/ ins.op = "Bytes32IntoLowHigh"
  <2>1. tys = <<Native, Native>>
    BY <1>4 DEF Shape, HashOps, DivModShape, LowHighShape, Some
  <2>2. tys[i] = Native
    BY <2>1
  <2> QED
    BY <2>2, CurvesOf DEF Derived
<1>5. CASE ins.op \in {"Encode", "BytesIntoNatives"}
  <2>1. tys = [k \in 1..encoded_len(T[1]) |-> Native]
    BY <1>5 DEF Shape, HashOps, BytesIntoNativesShape, EncodeShape, Some
  <2>2. tys[i] = Native
    BY <2>1
  <2> QED
    BY <2>2, CurvesOf DEF Derived
<1>6. CASE ins.op = "Copy"
  <2>1. tys = T
    BY <1>6 DEF Shape, HashOps
  <2> QED
    BY <2>1 DEF Derived
<1>7. CASE ins.op \in {"Not", "And", "Or", "Xor", "TestEq", "LessThan", "ReconstituteField",
                       "TransientHash"}
  <2>1. tys = <<Native>> \/ tys = <<Bool>>
    BY <1>7 DEF Shape, HashOps, Some, NotShape, BitListShape, TestEqShape, LessThanShape,
       ReconstituteShape, TransientHashShape
  <2> QED
    BY <1>2, <2>1, CurvesOf DEF Derived
<1>8. CASE ins.op \in {"ToBytes", "IntoBytes32", "Slice", "Nth", "Concat", "BytesFromNatives",
                       "Bytes32FromLowHigh"} \cup HashOps
  <2>1. tys = <<Byte>> \/ \E n : tys = <<Bytes(n)>>
    BY <1>8 DEF Shape, HashOps, Some, ToBytesShape, IntoBytes32Shape, BytesOf, SliceShape,
       NthShape, ConcatShape, BytesFromNativesShape, FromLowHighShape, ByteHashShape
  <2> QED
    BY <1>2, <2>1, CurvesOf DEF Derived
<1>9. CASE ins.op \in {"Add", "Mul", "Neg", "Inv", "Reverse", "ReverseBytes"}
  <2>1. tys = <<T[1]>> /\ 1 \in DOMAIN T
    BY <1>1, <1>9 DEF Shape, HashOps, Some, AddShape, MulShape, NegShape, InvShape,
       ReverseShape, UnaryOps, BinaryOps
  <2> QED
    BY <1>2, <2>1 DEF Derived
<1>10. CASE ins.op = "CondSelect"
  <2>1. tys = <<T[2]>> /\ 2 \in DOMAIN T
    BY <1>1, <1>10 DEF Shape, HashOps, Some, CondSelectShape
  <2> QED
    BY <1>2, <2>1 DEF Derived
<1>11. CASE ins.op = "HashToCurve"
  <2>1. tys = <<Point("Jubjub")>>
    BY <1>11 DEF Shape, HashOps, Some, HashToCurveShape
  <2> QED
    BY <1>2, <1>11, <2>1 DEF Derived
<1>12. CASE ins.op \in {"FromBytes", "FromBytes32"}
  <2>1. tys = <<ins.ty>>
    BY <1>12 DEF Shape, HashOps, Some, FromBytesShape, FromBytes32Shape
  <2> QED
    BY <1>2, <1>12, <2>1 DEF Derived
<1>13. CASE ins.op = "EcMul"
  <2>1. PICK c \in Curves : tys = <<Point(c)>> /\ T = <<Point(c), Scalar(c)>>
    BY <1>13 DEF Shape, HashOps, Some, EcMulShape
  <2>2. 1 \in DOMAIN T /\ T[1] = Point(c)
    BY <1>1, <1>13, <2>1 DEF BinaryOps
  <2> QED
    BY <1>2, <2>1, <2>2 DEF Derived
<1>14. CASE ins.op = "EcMulGenerator"
  <2>1. PICK c \in Curves : tys = <<Point(c)>> /\ T[1] = Scalar(c)
    BY <1>14 DEF Shape, HashOps, Some, EcMulGeneratorShape
  <2>2. CurveOf(Point(c)) \subseteq CurveOf(T[1]) /\ 1 \in DOMAIN T
    BY <1>1, <1>14, <2>1, CurvesOf DEF UnaryOps
  <2> QED
    BY <1>2, <2>1, <2>2 DEF Derived
<1>15. CASE ins.op = "IntoCoordinates"
  <2>1. PICK c \in Curves : tys = <<Base(c), Base(c)>> /\ T[1] = Point(c)
    BY <1>15 DEF Shape, HashOps, Some, IntoCoordinatesShape
  <2>2. CurveOf(Base(c)) \subseteq CurveOf(T[1]) /\ 1 \in DOMAIN T
    BY <1>1, <1>15, <2>1, CurvesOf DEF UnaryOps
  <2>3. tys[i] = Base(c)
    BY <2>1
  <2> QED
    BY <2>2, <2>3 DEF Derived
<1>16. CASE ins.op = "FromCoordinates"
  <2>1. PICK c \in Curves : tys = <<Point(c)>> /\ T = <<Base(c), Base(c)>>
    BY <1>16 DEF Shape, HashOps, Some, FromCoordinatesShape
  <2>2. c # "Jubjub"
    <3>1. DOMAIN T = 1..2
      BY <1>1, <1>16 DEF BinaryOps
    <3>2. T[1] = Base(c) /\ T[2] = Base(c)
      BY <2>1
    <3>3. \A k \in 1..2 : k = 1 \/ k = 2
      OBVIOUS
    <3>4. \A k \in DOMAIN T : T[k] = Base(c)
      BY <3>1, <3>2, <3>3, Zenon
    <3>5. ASSUME c = "Jubjub" PROVE FALSE
      <4>1. Base(c) = Native
        BY <3>5 DEF Base
      <4> QED
        BY <1>16, <3>4, <4>1 DEF Unseen
    <3> QED
      BY <3>5
  <2>3. CurveOf(Point(c)) \subseteq CurveOf(T[1]) /\ 1 \in DOMAIN T
    BY <2>1, <2>2, CurvesOf
  <2> QED
    BY <1>2, <2>1, <2>3 DEF Derived
<1> QED
  BY <1>3, <1>4, <1>5, <1>6, <1>7, <1>8, <1>9, <1>10, <1>11, <1>12, <1>13, <1>14, <1>15, <1>16
     DEF ValueOps, Unseen

\* The curves of the cells are known to used_chips.
Known(t) == CurveOf(t) \subseteq UsedCurves(src)
CurvesKnown == \A id \in DOMAIN cells : Known(cells[id].ty)
ChipsInv == ProveInv /\ CurvesKnown /\ MissingChipsExplained

\* What used_chips looks at, it provides for.
LEMMA InspectedKnown ==
  /\ \A i \in DOMAIN src.inputs : Known(src.inputs[i].ty)
  /\ \A i \in DOMAIN src.code :
       /\ src.code[i].op \in {"PublicInput", "PrivateInput", "FromBytes", "FromBytes32"} =>
            Known(src.code[i].ty)
       /\ src.code[i].op = "HashToCurve" => Known(Point("Jubjub"))
<1>1. \A t \in InspectedTypes(src) : Known(t)
  BY DEF Known, UsedCurves
<1>2. /\ \A i \in DOMAIN src.inputs : src.inputs[i].ty \in InspectedTypes(src)
      /\ \A i \in DOMAIN src.code :
           src.code[i].op \in {"PublicInput", "PrivateInput", "FromBytes", "FromBytes32"} =>
             src.code[i].ty \in InspectedTypes(src)
  BY DEF InspectedTypes
<1>3. (\E i \in DOMAIN src.code : src.code[i].op = "HashToCurve") => Known(Point("Jubjub"))
  <2>1. CurveOf(Point("Jubjub")) \subseteq {"Jubjub"}
    BY CurvesOf
  <2>2. (\E i \in DOMAIN src.code : src.code[i].op = "HashToCurve") => "Jubjub" \in UsedCurves(src)
    BY DEF UsedCurves
  <2> QED
    BY <2>1, <2>2 DEF Known
<1> QED
  BY <1>1, <1>2, <1>3

LEMMA KnownBind ==
  ASSUME CurvesKnown, src' = src, NEW ids \in Seq(Identifier), NEW vals,
         cells' = Bind(cells, ids, vals), \A i \in DOMAIN ids : Known(vals[i].ty)
  PROVE  CurvesKnown'
<1> SUFFICES ASSUME NEW id \in DOMAIN cells' PROVE Known(cells'[id].ty)
  BY DEF CurvesKnown, Known
<1>1. DOMAIN cells' = DOMAIN cells \cup ToSet(ids)
  BY BindProperties
<1>2. CASE id \notin ToSet(ids)
  <2>1. cells'[id] = cells[id]
    BY <1>1, <1>2 DEF Bind
  <2> QED
    BY <1>1, <1>2, <2>1 DEF CurvesKnown
<1>3. CASE id \in ToSet(ids)
  <2> DEFINE last(i) == ids[i] = id /\ \A j \in DOMAIN ids : ids[j] = id => j <= i
  <2>1. \E i \in DOMAIN ids : last(i)
    BY <1>3, LastOccurrence
  <2>2. PICK k \in DOMAIN ids : k = CHOOSE i \in DOMAIN ids : last(i)
    BY <2>1
  <2>3. cells'[id] = vals[k]
    BY <1>1, <1>3, <2>2 DEF Bind
  <2> QED
    BY <2>2, <2>3
<1> QED
  BY <1>2, <1>3

LEMMA KnownStill ==
  ASSUME CurvesKnown, src' = src, cells' = cells
  PROVE  CurvesKnown'
BY DEF CurvesKnown, Known

\* The instructions that need a chip nobody provided for.
LEMMA OnlyUnseen ==
  ASSUME SynthInv, CurvesKnown, C!CFetch(ValueOps), AllResolvable(cells, C!CInstr.args),
         NEW tys \in Shape(C!CInstr, C!OperandTypes), ~ChipsFor(src, tys)
  PROVE  Unseen(C!CInstr, C!OperandTypes)
<1> DEFINE T == C!OperandTypes
<1>1. /\ C!CInstr \in Instruction /\ WellShaped(C!CInstr) /\ C!CInstr.op \in ValueOps
      /\ C!CInstr.args \in Seq(Operand) /\ cpc \in DOMAIN src.code /\ C!CInstr = src.code[cpc]
  BY SynthFetched DEF C!CInstr
<1>2. DOMAIN T = 1..Len(C!CInstr.args)
  BY <1>1, OperandsFit, SameMemory DEF C!OperandTypes, TypesOf
<1>3. ASSUME NEW k \in DOMAIN T PROVE Known(T[k])
  <2>1. PICK o \in Operand : o = C!CInstr.args[k]
    BY <1>1, <1>2, ElementOfSeq, LenProperties
  <2>2. T[k] = Resolve(cells, o).ty
    BY <1>1, <1>2, <2>1, LenProperties, SameMemory
       DEF C!OperandTypes, C!Operands, TypesOf, ResolveAll
  <2>3. k \in DOMAIN C!CInstr.args
    BY <1>1, <1>2, LenProperties
  <2>4. o[1] = "imm" \/ (o[1] # "imm" /\ o[2] \in DOMAIN cells)
    BY <2>1, <2>3 DEF AllResolvable, Resolvable, Operand
  <2>5. T[k] = Native \/ \E id \in DOMAIN cells : T[k] = cells[id].ty
    BY <2>2, <2>4 DEF Resolve, Fr, V
  <2> QED
    BY <2>5, CurvesOf DEF CurvesKnown, Known
<1>4. PICK i \in DOMAIN tys : ~Known(tys[i])
  BY DEF ChipsFor, Known
<1> HIDE DEF T
<1>5. ASSUME Derived(C!CInstr, T, tys[i]) PROVE FALSE
  <2>1. CurveOf(tys[i]) # {}
    BY <1>4 DEF Known
  <2>2. ~\E k \in DOMAIN T : CurveOf(tys[i]) \subseteq CurveOf(T[k])
    BY <1>3, <1>4 DEF Known
  <2>3. ~(C!CInstr.op = "HashToCurve" /\ tys[i] = Point("Jubjub"))
    BY <1>1, <1>4, InspectedKnown
  <2>4. ~(C!CInstr.op \in {"FromBytes", "FromBytes32"} /\ tys[i] = C!CInstr.ty)
    BY <1>1, <1>4, InspectedKnown
  <2> QED
    BY <1>5, <2>1, <2>2, <2>3, <2>4 DEF Derived
<1>6. tys \in Shape(C!CInstr, T)
  BY DEF T
<1>7. Unseen(C!CInstr, T)
  BY <1>1, <1>2, <1>5, <1>6, ShapeCurves
<1> QED
  BY <1>7 DEF T

LEMMA ChipsGate ==
  ASSUME GadgetsTyped, SynthInv, CurvesKnown, C!Gate, src' = src
  PROVE  CurvesKnown' /\ MissingChipsExplained'
<1>1. /\ C!CInstr \in Instruction /\ WellShaped(C!CInstr) /\ C!CInstr.op \in ValueOps
      /\ C!CInstr.args \in Seq(Operand) /\ C!CInstr.outs \in Seq(Identifier)
      /\ cstatus = "synthesizing" /\ C!CFetch(ValueOps) /\ C!CInstr = src.code[cpc]
  BY SynthFetched, SameConstants DEF C!Gate, C!CInstr
<1>2. ASSUME NEW s \in {"failed", "unsatisfied", "misaligned"}, C!CStop(s)
      PROVE  CurvesKnown' /\ MissingChipsExplained'
  BY <1>2, KnownStill DEF C!CStop, MissingChipsExplained
<1>3. ASSUME NEW tys, AllResolvable(cells, C!CInstr.args), tys \in Shape(C!CInstr, C!OperandTypes),
             C!CStop("no_chip"), ~ChipsFor(src, tys)
      PROVE  CurvesKnown' /\ MissingChipsExplained'
  <2>1. Unseen(C!CInstr, C!OperandTypes)
    BY <1>1, <1>3, OnlyUnseen
  <2>2. C!CInstr.op \in {"LoadConstant", "JubjubScalarFromNative"}
        \/ /\ C!CInstr.op = "FromCoordinates"
           /\ \A k \in DOMAIN C!CInstr.args : Resolve(cells, C!CInstr.args[k]).ty = Native
    <3>1. CASE C!CInstr.op = "FromCoordinates" /\ \A k \in DOMAIN C!OperandTypes : C!OperandTypes[k] = Native
      <4>1. C!OperandTypes = [k \in DOMAIN C!CInstr.args |-> Resolve(cells, C!CInstr.args[k]).ty]
        BY SameMemory DEF C!OperandTypes, C!Operands, TypesOf, ResolveAll
      <4> QED
        BY <3>1, <4>1
    <3> QED
      BY <2>1, <3>1 DEF Unseen
  <2>3. cells' = cells /\ cpc' = cpc
    BY <1>3 DEF C!CStop
  <2> QED
    BY <1>1, <2>2, <2>3, KnownStill DEF MissingChipsExplained
<1>4. ASSUME NEW tys, AllResolvable(cells, C!CInstr.args), tys \in Shape(C!CInstr, C!OperandTypes),
             ChipsFor(src, tys), Holds(C!CInstr, C!Operands),
             cells' = Bind(cells, C!CInstr.outs, Cells(C!CInstr, C!Operands)), cstatus' = cstatus
      PROVE  CurvesKnown' /\ MissingChipsExplained'
  <2>1. PICK a : a = C!Operands
    OBVIOUS
  <2>2. AllTyped(a) /\ DOMAIN a = 1..Len(C!CInstr.args) /\ tys \in Shape(C!CInstr, TypesOf(a))
    BY <1>1, <1>4, <2>1, OperandsFit, SameMemory DEF C!OperandTypes
  <2>3. Fits(Cells(C!CInstr, a), tys) /\ DOMAIN tys = 1..Len(C!CInstr.outs)
    BY <1>1, <1>4, <2>1, <2>2, OnTyped, ShapeCount
  <2>4. \A i \in DOMAIN tys : Known(tys[i])
    BY <1>4 DEF ChipsFor, Known
  <2>5. ASSUME NEW i \in DOMAIN C!CInstr.outs PROVE Known(Cells(C!CInstr, a)[i].ty)
    <3>1. i \in DOMAIN tys
      BY <1>1, <2>3, LenProperties
    <3>2. tys[i] = Cells(C!CInstr, a)[i].ty
      BY <2>3, <3>1 DEF Fits, TypesOf
    <3> QED
      BY <2>4, <3>1, <3>2
  <2> QED
    BY <1>1, <1>4, <2>1, <2>5, KnownBind DEF MissingChipsExplained
<1> QED
  BY <1>2, <1>3, <1>4, SameMemory, SameShape, SameChips, SameHolds, SameCells, SameBind
     DEF C!Gate

LEMMA ChipsAssign ==
  ASSUME SynthInv, CurvesKnown, C!AssignInput, src' = src
  PROVE  CurvesKnown' /\ cstatus' # "no_chip"
<1> DEFINE id == src.inputs[cpc]
           v == IF id.name \in DOMAIN wit.memory THEN wit.memory[id.name] ELSE Fr(0)
<1>1. id.name \in Identifier /\ cpc \in DOMAIN src.inputs /\ cstatus = "assigning"
  <2>1. src.inputs \in Seq([name : Identifier, ty : IrType]) /\ cpc \in Nat \ {0}
    BY DEF SynthInv, SourceOK, Source
  <2>2. cpc \in 1..Len(src.inputs) /\ cpc \in DOMAIN src.inputs
    BY <2>1, LenProperties DEF C!AssignInput
  <2>3. id \in [name : Identifier, ty : IrType]
    BY <2>1, <2>2, ElementOfSeq
  <2> QED
    BY <2>2, <2>3 DEF C!AssignInput
<1>2. CASE C!CStop("bad_witness")
  BY <1>2, KnownStill DEF C!CStop
<1>3. CASE v.ty = id.ty /\ cells' = Bind(cells, <<id.name>>, <<v>>) /\ cstatus' = cstatus
  <2>1. Known(v.ty)
    BY <1>1, <1>3, InspectedKnown
  <2>2. <<id.name>> \in Seq(Identifier) /\ cells' = Bind(cells, <<id.name>>, <<v>>)
        /\ DOMAIN <<id.name>> = 1..1
    BY <1>1, <1>3
  <2>3. \A i \in DOMAIN <<id.name>> : Known(<<v>>[i].ty)
    BY <2>1, <2>2
  <2> HIDE DEF id, v
  <2>4. CurvesKnown'
    BY <2>2, <2>3, KnownBind
  <2> QED
    BY <1>1, <1>3, <2>4
<1> QED
  BY <1>2, <1>3, SameBind, SameConstants DEF C!AssignInput

LEMMA ChipsRead ==
  ASSUME SynthInv, CurvesKnown, C!WitnessRead, src' = src
  PROVE  CurvesKnown' /\ cstatus' # "no_chip"
<1> DEFINE id == C!CInstr.outs[1]
           ops == {"PublicInput", "PrivateInput"}
<1>1. /\ C!CInstr.outs \in Seq(Identifier) /\ Len(C!CInstr.outs) = 1 /\ C!CInstr.op \in ops
      /\ cstatus = "synthesizing" /\ cpc \in DOMAIN src.code /\ C!CInstr = src.code[cpc]
  BY SynthFetched, ReadShape DEF C!WitnessRead, C!CInstr
<1>2. CASE C!CStop("bad_witness")
  BY <1>2, KnownStill DEF C!CStop
<1>3. CASE /\ wit.memory[id].ty = C!CInstr.ty /\ cstatus' = cstatus
           /\ cells' = Bind(cells, C!CInstr.outs, <<wit.memory[id]>>)
  <2>1. Known(wit.memory[id].ty)
    BY <1>1, <1>3, InspectedKnown
  <2>2. \A i \in DOMAIN C!CInstr.outs : i = 1
    BY <1>1, LenProperties
  <2>3. \A i \in DOMAIN C!CInstr.outs : Known(<<wit.memory[id]>>[i].ty)
    BY <2>1, <2>2
  <2> HIDE DEF id
  <2> QED
    BY <1>1, <1>3, <2>3, KnownBind
<1> QED
  BY <1>2, <1>3, SameBind DEF C!WitnessRead

LEMMA ChipsNext ==
  ASSUME GadgetsTyped, ChipsInv, [ProveNext]_proveVars
  PROVE  ChipsInv'
<1>1. ProveInv' /\ SynthInv /\ CurvesKnown /\ MissingChipsExplained
  BY ProveInvNext DEF ChipsInv, ProveInv
<1>2. CASE Synthesize
  <2> SUFFICES CurvesKnown' /\ MissingChipsExplained'
    BY <1>1 DEF ChipsInv
  <2>1. src' = src /\ C!CStep
    BY <1>2 DEF Synthesize, pvars
  <2>2. CASE C!Gate
    BY <1>1, <2>1, <2>2, ChipsGate
  <2>3. CASE C!AssignInput
    BY <1>1, <2>1, <2>3, ChipsAssign DEF MissingChipsExplained
  <2>4. CASE C!WitnessRead
    BY <1>1, <2>1, <2>4, ChipsRead DEF MissingChipsExplained
  <2>5. CASE C!SeedInstance \/ C!PushImpact \/ C!OutputCells \/ C!ConstrainInstance
    <3>1. cells' = cells /\ cstatus' # "no_chip"
      BY <2>5 DEF C!SeedInstance, C!PushImpact, C!OutputCells, C!ConstrainInstance, C!CStop, C!CFetch
    <3> QED
      BY <1>1, <2>1, <3>1, KnownStill DEF MissingChipsExplained
  <2> QED
    BY <2>1, <2>2, <2>3, <2>4, <2>5 DEF C!CStep
<1>3. CASE Prepare \/ Returned \/ UNCHANGED proveVars
  <2>1. UNCHANGED <<src, synthVars>>
    BY <1>3 DEF Prepare, Returned, proveVars, synthVars, Step, DecodeInput, SeedPublicInputs,
       Compute, ReadPublic, ReadPrivate, Read, ImpactSkipped, ImpactActive, OutputValues,
       Finish, Reject, Stop
  <2>2. UNCHANGED <<src, cells, cpc, cstatus>>
    BY <2>1 DEF synthVars
  <2> QED
    BY <1>1, <2>2, KnownStill DEF MissingChipsExplained, ChipsInv
<1> QED
  BY <1>2, <1>3 DEF ProveNext

\* For every source and preimage: synthesis misses the chip of a curve at a
\* LoadConstant, at a JubjubScalarFromNative and at a FromCoordinates over natives,
\* and at no other instruction.
THEOREM ChipsAreProvided == GadgetsTyped => (ProveSpec => []MissingChipsExplained)
<1> SUFFICES ASSUME GadgetsTyped PROVE ProveSpec => []MissingChipsExplained
  OBVIOUS
<1>1. ProveInit => ChipsInv
  <2> SUFFICES ASSUME ProveInit PROVE ChipsInv
    OBVIOUS
  <2>1. ProveInv /\ cstatus = "assigning"
    BY ProveInvInit DEF ProveInit, C!CInit
  <2>2. DOMAIN cells = {}
    BY DEF ProveInit, C!CInit, C!EmptyMemory
  <2> QED
    BY <2>1, <2>2 DEF ChipsInv, CurvesKnown, MissingChipsExplained
<1>2. ChipsInv /\ [ProveNext]_proveVars => ChipsInv'
  BY ChipsNext
<1>3. ChipsInv => MissingChipsExplained
  BY DEF ChipsInv
<1> QED
  BY <1>1, <1>2, <1>3, PTL DEF ProveSpec
------------------------------------------------------------------------------
(* Synthesis with the witness of an accepted run.                            *)

\* What preprocess leaves behind, and what it has left of itself in the memory.
Honest == ProveInv /\ ReplayInv /\ AcceptInv /\ TraceInv
HonestRun == Honest /\ SingleAssignment(src) /\ status = "accepted"

LEMMA RunIsTraced ==
  ASSUME HonestRun
  PROVE  /\ Seeded /\ Len(src.code) \in Nat /\ Executed = Len(src.code)
         /\ \A k \in 1..Len(src.code) : Traced(k)
         /\ \A i \in DOMAIN src.inputs : memory[src.inputs[i].name].ty = src.inputs[i].ty
         /\ Header \in Seq(Immediates) /\ pis = Cat(Header, PushedTo(Len(src.code)))
         /\ outputs = PutTo(Len(src.code)) /\ NamesAt(Len(src.code) + 1) = DOMAIN memory
<1>1. IInv /\ TraceInv /\ Seeded /\ pc = Len(src.code) + 1
  BY DEF HonestRun, Honest, ProveInv, CInv, AcceptedAtEnd
<1>2. DOMAIN src.inputs = 1..Len(src.inputs) /\ Len(src.code) \in Nat
  BY <1>1, JobTypes, LenProperties DEF IInv, Source
<1>3. Executed = Len(src.code) /\ Decoded = Len(src.inputs)
  BY <1>1, <1>2 DEF Executed, Decoded
<1>4. NamesAt(Len(src.code) + 1) = DOMAIN memory
  BY <1>1, <1>3, NamesBound
<1> QED
  BY <1>1, <1>2, <1>3, <1>4 DEF TraceInv, HonestRun

\* What the instruction after the first k has added, to what was there and
\* before what was to come.
LEMMA PushedAt ==
  ASSUME HonestRun, NEW k \in Nat, k < Len(src.code)
  PROVE  /\ PushedTo(k + 1) = Cat(PushedTo(k), Pushed(src.code[k + 1]))
         /\ PutTo(k + 1) = Cat(PutTo(k), Put(src.code[k + 1]))
         /\ PushedTo(k) \in Seq(Immediates) /\ PutTo(k) \in Seq(TypedValue)
         /\ \E rest \in Seq(Immediates) :
              pis = Cat(Cat(Cat(Header, PushedTo(k)), Pushed(src.code[k + 1])), rest)
<1>1. PICK n \in Nat : n = Len(src.code)
  BY RunIsTraced
<1>2. /\ \A j \in 1..n : Pushed(src.code[j]) \in Seq(Immediates) /\ Put(src.code[j]) \in Seq(TypedValue)
      /\ Header \in Seq(Immediates) /\ pis = Cat(Header, PushedTo(n))
  BY <1>1, RunIsTraced DEF Traced
<1>3. k \in 0..n /\ k + 1 \in 1..n
  BY <1>1
<1>4. /\ PushedTo(k + 1) = Cat(PushedTo(k), Pushed(src.code[k + 1]))
      /\ PushedTo(k) \in Seq(Immediates)
  <2>1. PICK s : s = [j \in 1..k |-> Pushed(src.code[j])]
    OBVIOUS
  <2>2. PICK t : t = [j \in 1..k + 1 |-> Pushed(src.code[j])]
    OBVIOUS
  <2>3. \A j \in 1..k : j \in 1..n
    BY <1>3
  <2>4. s \in Seq(Seq(Immediates))
    <3>1. s = [j \in 1..k |-> s[j]]
      BY <2>1
    <3>2. \A j \in 1..k : s[j] \in Seq(Immediates)
      BY <1>2, <2>1, <2>3
    <3> QED
      BY <3>1, <3>2, IsASeq
  <2>5. PICK x \in Seq(Immediates) : x = Pushed(src.code[k + 1])
    BY <1>2, <1>3
  <2>6. Grows(s, t, k, x)
    BY <2>1, <2>2, <2>5 DEF Grows
  <2>7. FlattenSeq(s) \in Seq(Immediates) /\ FlattenSeq(t) = Cat(FlattenSeq(s), x)
    BY <2>4, <2>6, FlattenGrows
  <2> QED
    BY <2>1, <2>2, <2>5, <2>7 DEF PushedTo
<1>5. PutTo(k + 1) = Cat(PutTo(k), Put(src.code[k + 1])) /\ PutTo(k) \in Seq(TypedValue)
  <2>1. PICK s : s = [j \in 1..k |-> Put(src.code[j])]
    OBVIOUS
  <2>2. PICK t : t = [j \in 1..k + 1 |-> Put(src.code[j])]
    OBVIOUS
  <2>3. \A j \in 1..k : j \in 1..n
    BY <1>3
  <2>4. s \in Seq(Seq(TypedValue))
    <3>1. s = [j \in 1..k |-> s[j]]
      BY <2>1
    <3>2. \A j \in 1..k : s[j] \in Seq(TypedValue)
      BY <1>2, <2>1, <2>3
    <3> QED
      BY <3>1, <3>2, IsASeq
  <2>5. PICK x \in Seq(TypedValue) : x = Put(src.code[k + 1])
    BY <1>2, <1>3
  <2>6. Grows(s, t, k, x)
    BY <2>1, <2>2, <2>5 DEF Grows
  <2>7. FlattenSeq(s) \in Seq(TypedValue) /\ FlattenSeq(t) = Cat(FlattenSeq(s), x)
    BY <2>4, <2>6, FlattenGrows
  <2> QED
    BY <2>1, <2>2, <2>5, <2>7 DEF PutTo
<1>6. \E rest \in Seq(Immediates) :
        pis = Cat(Cat(Cat(Header, PushedTo(k)), Pushed(src.code[k + 1])), rest)
  <2>1. PICK t : t = [j \in 1..n |-> Pushed(src.code[j])]
    OBVIOUS
  <2>2. t \in Seq(Seq(Immediates)) /\ Len(t) = n
    <3>1. t = [j \in 1..n |-> t[j]] /\ Len(t) = n
      BY <2>1
    <3>2. \A j \in 1..n : t[j] \in Seq(Immediates)
      BY <1>2, <2>1
    <3> QED
      BY <3>1, <3>2, IsASeq
  <2>3. PICK rest \in Seq(Immediates) :
          FlattenSeq(t) = Cat(Cat(FlattenSeq(FirstOf(t, k)), t[k + 1]), rest)
    BY <1>1, <2>2, FlattenSplits
  <2>4. FirstOf(t, k) = [j \in 1..k |-> Pushed(src.code[j])]
    <3>1. \A j \in 1..k : j \in 1..n
      BY <1>3
    <3> QED
      BY <2>1, <3>1 DEF FirstOf
  <2>5. PICK u \in Seq(Immediates) : u = PushedTo(k)
    BY <1>4
  <2>6. PICK x \in Seq(Immediates) : x = Pushed(src.code[k + 1])
    BY <1>2, <1>3
  <2>7. PushedTo(n) = Cat(Cat(u, x), rest)
    BY <1>3, <2>1, <2>3, <2>4, <2>5, <2>6 DEF PushedTo
  <2>8. Cat(u, x) \in Seq(Immediates) /\ Cat(Header, u) \in Seq(Immediates)
    BY <1>2, ConcatProperties DEF Cat
  <2>9. Cat(Header, Cat(Cat(u, x), rest)) = Cat(Cat(Header, Cat(u, x)), rest)
    BY <1>2, <2>8, CatAssociative
  <2>10. Cat(Header, Cat(u, x)) = Cat(Cat(Header, u), x)
    BY <1>2, CatAssociative
  <2> QED
    BY <1>2, <2>5, <2>6, <2>7, <2>9, <2>10
<1> QED
  BY <1>4, <1>5, <1>6

\* Where synthesis stands then: what it has bound, exposed and put out is what
\* preprocess did up to the same instruction.
SynthAt ==
  /\ cells = [id \in DOMAIN cells |-> cells[id]] /\ Keeps(cells, memory)
  /\ cstatus \notin C!WitnessStops
  /\ cstatus = "failed" => NoArm(src.code[cpc])
  /\ cstatus = "assigning" =>
       /\ cpc <= Len(src.inputs) + 1 /\ couts = <<>>
       /\ DOMAIN cells = {src.inputs[i].name : i \in 1..cpc - 1}
  /\ cstatus = "synthesizing" =>
       /\ cpc <= Len(src.code) + 1 /\ DOMAIN cells = NamesAt(cpc)
       /\ cpis = Cat(Header, PushedTo(cpc - 1)) /\ couts = PutTo(cpc - 1)
  /\ cstatus = "satisfied" => cells = memory /\ couts = outputs
HonestInv ==
  SingleAssignment(src) =>
    /\ status # "accepted" => cstatus = "assigning" /\ cpc = 1
    /\ SynthAt

\* What depends on the run of preprocess alone does not move during synthesis.
LEMMA RunStill ==
  ASSUME UNCHANGED pvars
  PROVE  /\ Header' = Header /\ UNCHANGED <<src, memory, outputs>>
         /\ \A k : /\ NamesAt(k)' = NamesAt(k) /\ PushedTo(k)' = PushedTo(k)
                   /\ PutTo(k)' = PutTo(k)
<1>1. UNCHANGED <<src, pre, memory, outputs>>
  BY DEF pvars
<1>2. \A i : Pushed(i)' = Pushed(i) /\ Put(i)' = Put(i)
  BY <1>1 DEF Pushed, Put, GuardOpen, Guard, ImpactInputs
<1> QED
  BY <1>1, <1>2 DEF Header, NamesAt, PushedTo, PutTo

\* Synthesis stops for want of a chip or of an arm.
LEMMA SynthStops ==
  ASSUME SynthAt, UNCHANGED pvars, NEW s, C!CStop(s),
         s = "no_chip" \/ (s = "failed" /\ NoArm(src.code[cpc]))
  PROVE  SynthAt'
<1>1. UNCHANGED <<src, memory, outputs, cells, cpc, couts>> /\ cstatus' = s
  BY DEF pvars, C!CStop
<1>2. \A i : CellTypes(i)' = CellTypes(i) /\ GuardOpen(i)' = GuardOpen(i)
  <2>1. memory' = memory /\ cells' = cells
    BY <1>1
  <2> QED
    BY <2>1 DEF CellTypes, GuardOpen, Guard
<1>3. \A i : NoArm(i)' = NoArm(i)
  BY <1>2 DEF NoArm, SelectsBytes, TestsLengths, HighNotNative, HiddenImpact, HashesOption
<1> QED
  BY <1>1, <1>3 DEF SynthAt, Keeps, C!WitnessStops

\* Synthesis has gone past an instruction.
LEMMA SynthAdvance ==
  ASSUME HonestRun, SynthAt, UNCHANGED pvars, cstatus = "synthesizing", cpc \in 1..Len(src.code),
         cstatus' = cstatus, cpc' = cpc + 1, NEW i, i = src.code[cpc],
         cells' = [id \in DOMAIN cells' |-> cells'[id]], Keeps(cells', memory),
         DOMAIN cells' = DOMAIN cells \cup ToSet(i.outs),
         cpis' = Cat(cpis, Pushed(i)), couts' = Cat(couts, Put(i))
  PROVE  SynthAt'
<1>1. Len(src.code) \in Nat /\ Header \in Seq(Immediates)
      /\ \A k \in 1..Len(src.code) : Pushed(src.code[k]) \in Seq(Immediates)
  BY RunIsTraced DEF Traced
<1>2. PICK k \in Nat : cpc = k + 1
  <2>1. cpc - 1 \in Nat /\ cpc = (cpc - 1) + 1
    BY <1>1
  <2> QED
    BY <2>1
<1>3. cpc - 1 = k /\ cpc' - 1 = k + 1 /\ k < Len(src.code) /\ cpc' = k + 2
      /\ cpc' <= Len(src.code) + 1
  BY <1>1, <1>2
<1>4. /\ PushedTo(k + 1) = Cat(PushedTo(k), Pushed(i)) /\ PutTo(k + 1) = Cat(PutTo(k), Put(i))
      /\ PushedTo(k) \in Seq(Immediates)
  BY <1>2, <1>3, PushedAt
<1>5. cpis = Cat(Header, PushedTo(k)) /\ couts = PutTo(k) /\ DOMAIN cells = NamesAt(k + 1)
  BY <1>2, <1>3 DEF SynthAt
<1>6. NamesAt(k + 2) = NamesAt(k + 1) \cup ToSet(i.outs)
  <2>1. (k + 2) - 1 = k + 1 /\ (k + 1) - 1 = k
    OBVIOUS
  <2>2. \A j : j \in 1..k + 1 <=> j \in 1..k \/ j = k + 1
    OBVIOUS
  <2> QED
    BY <1>2, <2>1, <2>2 DEF NamesAt
<1>7. cpis' = Cat(Header, PushedTo(k + 1))
  BY <1>1, <1>2, <1>4, <1>5, CatAssociative
<1>8. /\ cpis' = Cat(Header', PushedTo(k + 1)') /\ couts' = PutTo(k + 1)'
      /\ DOMAIN cells' = NamesAt(k + 2)'
  BY <1>4, <1>5, <1>6, <1>7, RunStill
<1>9. Keeps(cells', memory') /\ Len(src'.code) = Len(src.code)
  BY RunStill
<1>10. cpis' = Cat(Header', PushedTo(cpc - 1)') /\ couts' = PutTo(cpc - 1)'
       /\ DOMAIN cells' = NamesAt(cpc)'
  <2>1. PICK m : m = cpc' /\ m - 1 = k + 1 /\ m = k + 2
    BY <1>3
  <2> QED
    BY <1>8, <2>1
<1> QED
  BY <1>3, <1>9, <1>10 DEF SynthAt, C!WitnessStops

\* The instruction synthesis is at: preprocess has executed it, and what it
\* looked at there has its cells.
LEMMA HonestFetched ==
  ASSUME HonestRun, SynthAt, NEW ops, C!CFetch(ops), NEW i, i = C!CInstr
  PROVE  /\ i \in Instruction /\ WellShaped(i) /\ i.op \in ops /\ i.args \in Seq(Operand)
         /\ i.outs \in Seq(Identifier) /\ i.ty \in IrType /\ i = src.code[cpc]
         /\ cpc \in 1..Len(src.code) /\ cstatus = "synthesizing"
         /\ Passed(i) /\ AllResolvable(cells, LookedAt(i))
         /\ ToSet(i.outs) \subseteq DOMAIN memory /\ Keeps(cells, memory)
         /\ cpis \in Seq(Immediates) /\ couts \in Seq(TypedValue)
<1>1. SynthInv /\ IInv /\ AcceptedAtEnd
  BY DEF HonestRun, Honest, ProveInv, CInv
<1>2. /\ i \in Instruction /\ WellShaped(i) /\ i.op \in ops /\ i.args \in Seq(Operand)
      /\ i.outs \in Seq(Identifier) /\ i.ty \in IrType /\ cpc \in DOMAIN src.code
      /\ cstatus = "synthesizing"
  BY <1>1, SynthFetched
<1>3. i = src.code[cpc] /\ cpc \in 1..Len(src.code)
  <2>1. src.code \in Seq(Instruction)
    BY <1>1, JobTypes DEF IInv, Source
  <2> QED
    BY <1>2, <2>1, LenProperties DEF C!CInstr
<1>4. Traced(cpc) /\ DOMAIN cells = NamesAt(cpc) /\ Keeps(cells, memory)
  BY <1>2, <1>3, RunIsTraced DEF SynthAt
<1>5. AllResolvable(cells, LookedAt(i)) /\ Passed(i)
  BY <1>3, <1>4 DEF Traced, AllEarly, Early, AllResolvable, Resolvable
<1>6. ToSet(i.outs) \subseteq DOMAIN memory
  BY <1>1, <1>2, <1>3, AcceptedBinds DEF HonestRun
<1>7. cpis \in Seq(Immediates) /\ couts \in Seq(TypedValue)
  BY <1>1 DEF SynthInv, InstanceOK
<1> QED
  BY <1>2, <1>3, <1>4, <1>5, <1>6, <1>7

\* Cells bound to the values of the memory keep it.
LEMMA KeepsBind ==
  ASSUME Keeps(cells, memory), NEW ids \in Seq(Identifier), NEW vals,
         ToSet(ids) \subseteq DOMAIN memory, \A j \in DOMAIN ids : memory[ids[j]] = vals[j],
         cells' = Bind(cells, ids, vals)
  PROVE  /\ Keeps(cells', memory) /\ cells' = [id \in DOMAIN cells' |-> cells'[id]]
         /\ DOMAIN cells' = DOMAIN cells \cup ToSet(ids)
<1>1. DOMAIN cells' = DOMAIN cells \cup ToSet(ids) /\ cells' = [id \in DOMAIN cells' |-> cells'[id]]
      /\ \A id \in DOMAIN cells \ ToSet(ids) : cells'[id] = cells[id]
  <2>1. PICK m : m = Bind(cells, ids, vals)
    OBVIOUS
  <2>2. DOMAIN m = DOMAIN cells \cup ToSet(ids) /\ m = [id \in DOMAIN m |-> m[id]]
    BY <2>1 DEF Bind
  <2>3. \A id \in DOMAIN cells \ ToSet(ids) : m[id] = cells[id]
    BY <2>1 DEF Bind
  <2>4. cells' = m
    BY <2>1
  <2> QED
    BY <2>2, <2>3, <2>4
<1>2. ASSUME NEW id \in ToSet(ids)
      PROVE  memory[id] = cells'[id]
  <2>1. PICK k : k = LastPlace(ids, id)
    OBVIOUS
  <2>2. k \in DOMAIN ids /\ ids[k] = id /\ cells'[id] = vals[k]
    BY <2>1, BindAt
  <2> QED
    BY <2>2
<1> QED
  BY <1>1, <1>2 DEF Keeps

\* An instruction without an arm in the circuit.
LEMMA ShapelessIs ==
  ASSUME NEW i \in Instruction, AllResolvable(cells, i.args), NoShape(i, TypesOf(ResolveAll(cells, i.args)))
  PROVE  NoArm(i)
<1>1. CellTypes(i) = TypesOf(ResolveAll(cells, i.args))
  BY DEF CellTypes, TypesOf, ResolveAll, AllResolvable
<1> QED
  BY <1>1 DEF NoShape, NoArm, SelectsBytes, TestsLengths, HighNotNative, HashesOption,
     BytesToSelect, OtherLengths, NoNativeHigh, OptionAlign

LEMMA HonestGate ==
  ASSUME HonestRun, SynthAt, C!Gate, UNCHANGED pvars
  PROVE  SynthAt'
<1>1. PICK i : i = C!CInstr
  OBVIOUS
<1>2. /\ i \in Instruction /\ WellShaped(i) /\ i.op \in ValueOps /\ i.args \in Seq(Operand)
      /\ i.outs \in Seq(Identifier) /\ i = src.code[cpc]
      /\ cpc \in 1..Len(src.code) /\ cstatus = "synthesizing"
      /\ Passed(i) /\ AllResolvable(cells, LookedAt(i))
      /\ ToSet(i.outs) \subseteq DOMAIN memory /\ Keeps(cells, memory)
      /\ cpis \in Seq(Immediates) /\ couts \in Seq(TypedValue)
  <2>1. C!CFetch(ValueOps)
    BY SameConstants DEF C!Gate
  <2> QED
    BY <1>1, <2>1, HonestFetched
<1>3. AllResolvable(cells, i.args) /\ Pushed(i) = <<>> /\ Put(i) = <<>>
  BY <1>2 DEF LookedAt, Pushed, Put, ValueOps, HashOps
<1>4. PICK a : a = ResolveAll(cells, i.args)
  OBVIOUS
<1>5. a = ResolveAll(memory, i.args)
  BY <1>2, <1>3, <1>4, ResolveAllSame
<1>6. AllTyped(a) /\ a = [j \in 1..Len(i.args) |-> a[j]]
  <2>1. AllTyped(a) /\ DOMAIN a = 1..Len(i.args)
    BY <1>2, <1>3, <1>4, OperandsAre DEF HonestRun, Honest, ProveInv, SynthInv, CellsOK
  <2>2. a = [j \in DOMAIN a |-> a[j]]
    BY <1>4 DEF ResolveAll
  <2> QED
    BY <2>1, <2>2
<1>7. PICK vals \in OffGate(i, a) : \A j \in DOMAIN i.outs : memory[i.outs[j]] = vals[j]
  BY <1>2, <1>5 DEF Passed, HasComputed
<1>8. PICK T : T = TypesOf(a)
  OBVIOUS
<1>9. Agrees(i, a, T, vals)
  BY <1>2, <1>6, <1>7, <1>8, TwinsAgree
<1>10. /\ C!AllResolvable(cells, i.args) /\ C!Operands = a /\ C!OperandTypes = T
       /\ C!Shape(i, T) = Shape(i, T) /\ C!Holds(i, a) = Holds(i, a) /\ C!Cells(i, a) = Cells(i, a)
  BY <1>1, <1>3, <1>4, <1>8, SameMemory, SameShape, SameHolds, SameCells
     DEF C!Operands, C!OperandTypes
<1>11. CASE Shape(i, T) = {}
  <2>1. NoArm(i)
    BY <1>2, <1>3, <1>4, <1>8, <1>9, <1>11, ShapelessIs DEF Agrees
  <2>2. C!CStop("failed")
    BY <1>1, <1>10, <1>11 DEF C!Gate
  <2> QED
    BY <1>2, <2>1, <2>2, SynthStops
<1>12. CASE Shape(i, T) # {}
  <2>1. Holds(i, a) /\ Cells(i, a) = vals
    BY <1>9, <1>12 DEF Agrees
  <2>2. C!Aligned(i, vals)
    BY <1>7 DEF C!Aligned, wit
  <2>3. \/ C!CStop("no_chip")
        \/ /\ cells' = C!Bind(cells, i.outs, vals) /\ cpc' = cpc + 1
           /\ UNCHANGED <<cstatus, cpis, couts>>
    BY <1>1, <1>10, <1>12, <2>1, <2>2 DEF C!Gate
  <2>4. CASE C!CStop("no_chip")
    BY <2>4, SynthStops
  <2>5. CASE /\ cells' = C!Bind(cells, i.outs, vals) /\ cpc' = cpc + 1
             /\ UNCHANGED <<cstatus, cpis, couts>>
    <3>1. cells' = Bind(cells, i.outs, vals)
      BY <2>5, SameBind
    <3>2. /\ Keeps(cells', memory) /\ cells' = [id \in DOMAIN cells' |-> cells'[id]]
          /\ DOMAIN cells' = DOMAIN cells \cup ToSet(i.outs)
      BY <1>2, <1>7, <3>1, KeepsBind
    <3>3. cpis' = Cat(cpis, Pushed(i)) /\ couts' = Cat(couts, Put(i))
      BY <1>2, <1>3, <2>5, CatEmpty
    <3>4. cstatus' = cstatus /\ cpc' = cpc + 1
      BY <2>5
    <3> QED
      BY <1>2, <3>2, <3>3, <3>4, SynthAdvance
  <2> QED
    BY <2>3, <2>4, <2>5
<1> QED
  BY <1>11, <1>12

LEMMA HonestRead ==
  ASSUME HonestRun, SynthAt, C!WitnessRead, UNCHANGED pvars
  PROVE  SynthAt'
<1>1. PICK i : i = C!CInstr
  OBVIOUS
<1>2. /\ i \in Instruction /\ WellShaped(i) /\ i.op \in {"PublicInput", "PrivateInput"}
      /\ i.outs \in Seq(Identifier) /\ i = src.code[cpc]
      /\ cpc \in 1..Len(src.code) /\ cstatus = "synthesizing" /\ Passed(i)
      /\ ToSet(i.outs) \subseteq DOMAIN memory /\ Keeps(cells, memory)
      /\ cpis \in Seq(Immediates) /\ couts \in Seq(TypedValue)
  BY <1>1, HonestFetched DEF C!WitnessRead
<1>3. memory[i.outs[1]].ty = i.ty /\ Pushed(i) = <<>> /\ Put(i) = <<>>
  BY <1>2 DEF Passed, HasRead, Pushed, Put
<1>4. DOMAIN i.outs = {1} /\ i.outs[1] \in DOMAIN memory
  <2>1. Len(i.outs) = 1
    BY <1>2, ReadShape
  <2>2. DOMAIN i.outs = {1}
    BY <1>2, <2>1, LenProperties
  <2> QED
    BY <1>2, <2>2 DEF ToSet
<1>5. PICK v : v = memory[i.outs[1]]
  OBVIOUS
<1>6. cells' = Bind(cells, i.outs, <<v>>) /\ cpc' = cpc + 1 /\ UNCHANGED <<cstatus, cpis, couts>>
  <2>1. wit.memory = memory
    BY DEF wit
  <2> QED
    BY <1>1, <1>3, <1>4, <1>5, <2>1, SameBind DEF C!WitnessRead
<1>7. \A j \in DOMAIN i.outs : memory[i.outs[j]] = <<v>>[j]
  BY <1>4, <1>5
<1>8. /\ Keeps(cells', memory) /\ cells' = [id \in DOMAIN cells' |-> cells'[id]]
      /\ DOMAIN cells' = DOMAIN cells \cup ToSet(i.outs)
  BY <1>2, <1>6, <1>7, KeepsBind
<1>9. cpis' = Cat(cpis, Pushed(i)) /\ couts' = Cat(couts, Put(i))
  BY <1>2, <1>3, <1>6, CatEmpty
<1>10. cstatus' = cstatus /\ cpc' = cpc + 1
  BY <1>6
<1> QED
  BY <1>2, <1>8, <1>9, <1>10, SynthAdvance

\* What an instruction has pushed is where the witness has it.
LEMMA PushesAlign ==
  ASSUME HonestRun, SynthAt, cstatus = "synthesizing", cpc \in 1..Len(src.code)
  PROVE  C!PisAligned(Pushed(src.code[cpc]))
<1>1. Len(src.code) \in Nat
  BY RunIsTraced
<1>2. PICK k \in Nat : k + 1 = cpc /\ k < Len(src.code)
  <2>1. cpc - 1 \in Nat /\ (cpc - 1) + 1 = cpc /\ cpc - 1 < Len(src.code)
    BY <1>1
  <2> QED
    BY <2>1
<1>3. PICK x \in Seq(Immediates) : x = Pushed(src.code[cpc])
  BY RunIsTraced DEF Traced
<1>4. Header \in Seq(Immediates) /\ PushedTo(k) \in Seq(Immediates)
  BY <1>2, RunIsTraced, PushedAt
<1>5. PICK u \in Seq(Immediates) : u = Cat(Header, PushedTo(k))
  BY <1>4, ConcatProperties DEF Cat
<1>6. PICK rest \in Seq(Immediates) : pis = Cat(Cat(u, x), rest)
  BY <1>2, <1>3, <1>5, PushedAt
<1>7. cpis = u
  <2>1. cpc - 1 = k
    BY <1>2
  <2> QED
    BY <1>5, <2>1 DEF SynthAt
<1>8. \A j \in DOMAIN x : pis[Len(u) + j] = x[j]
  BY <1>6, CatMiddle
<1>9. wit.pis = pis
  BY DEF wit
<1> QED
  BY <1>3, <1>7, <1>8, <1>9 DEF C!PisAligned

\* The operands of an Impact are its guard and its inputs.
LEMMA ImpactOperands ==
  ASSUME NEW i \in Instruction, WellShaped(i), i.op = "Impact"
  PROVE  \E n \in Nat : /\ DOMAIN i.args = 1..n + 1 /\ DOMAIN ImpactInputs(i) = 1..n
                        /\ Len(i.args) = n + 1 /\ Len(ImpactInputs(i)) = n
                        /\ \A j \in 1..n : ImpactInputs(i)[j] = i.args[j + 1]
<1>1. i.args \in Seq(Operand) /\ i.args # <<>>
  BY DEF Instruction, WellShaped
<1>2. Len(i.args) \in Nat \ {0} /\ DOMAIN i.args = 1..Len(i.args)
  BY <1>1, LenProperties, EmptySeq
<1>3. PICK n \in Nat : Len(i.args) = n + 1
  <2>1. Len(i.args) - 1 \in Nat /\ Len(i.args) = (Len(i.args) - 1) + 1
    BY <1>2
  <2> QED
    BY <2>1
<1>4. /\ ImpactInputs(i) \in Seq(Operand) /\ Len(ImpactInputs(i)) = n
      /\ \A j \in 1..n : ImpactInputs(i)[j] = i.args[j + 1]
  BY <1>1, <1>3, HeadTailProperties DEF ImpactInputs
<1>5. DOMAIN ImpactInputs(i) = 1..n
  BY <1>4, LenProperties
<1> QED
  BY <1>2, <1>3, <1>4, <1>5

LEMMA HonestImpact ==
  ASSUME HonestRun, SynthAt, C!PushImpact, UNCHANGED pvars
  PROVE  SynthAt'
<1>1. PICK i : i = C!CInstr
  OBVIOUS
<1>2. /\ i \in Instruction /\ WellShaped(i) /\ i.op = "Impact" /\ i.args \in Seq(Operand)
      /\ i.outs \in Seq(Identifier) /\ i = src.code[cpc]
      /\ cpc \in 1..Len(src.code) /\ cstatus = "synthesizing"
      /\ Passed(i) /\ AllResolvable(cells, LookedAt(i)) /\ Keeps(cells, memory)
      /\ cpis \in Seq(Immediates) /\ couts \in Seq(TypedValue)
  BY <1>1, HonestFetched DEF C!PushImpact
<1>3. PICK n \in Nat : /\ DOMAIN i.args = 1..n + 1 /\ DOMAIN ImpactInputs(i) = 1..n
                       /\ Len(i.args) = n + 1 /\ Len(ImpactInputs(i)) = n
                       /\ \A j \in 1..n : ImpactInputs(i)[j] = i.args[j + 1]
  BY <1>2, ImpactOperands
<1>4. IsBit(Resolve(memory, i.args[1]))
      /\ (GuardOpen(i) => AllFr(ResolveAll(memory, ImpactInputs(i))))
  BY <1>2 DEF Passed, HasPushed, Guard
<1>5. PICK a : a = ResolveAll(cells, i.args)
  OBVIOUS
<1>6. C!Operands = a /\ C!AllResolvable(cells, i.args) = AllResolvable(cells, i.args)
      /\ C!AllFr(a) = AllFr(a)
  BY <1>1, <1>5, SameMemory DEF C!Operands
<1>8. CASE ~(AllResolvable(cells, i.args) /\ AllFr(a))
  <2>1. C!CStop("failed")
    BY <1>1, <1>6, <1>8 DEF C!PushImpact
  <2>2. ~GuardOpen(i)
    <3> SUFFICES ASSUME GuardOpen(i) PROVE AllResolvable(cells, i.args) /\ AllFr(a)
      BY <1>8
    <3>1. AllResolvable(cells, i.args)
      BY <1>2 DEF LookedAt
    <3>2. a = ResolveAll(memory, i.args)
      BY <1>2, <1>5, <3>1, ResolveAllSame
    <3>3. IsFr(a[1])
      BY <1>3, <1>4, <3>2 DEF ResolveAll, IsBit
    <3>4. ASSUME NEW j \in 1..n
          PROVE  IsFr(a[j + 1])
      <4>1. Resolve(memory, ImpactInputs(i)[j]) = Resolve(memory, i.args[j + 1])
        BY <1>3
      <4>2. a[j + 1] = Resolve(memory, i.args[j + 1])
        BY <1>3, <3>2 DEF ResolveAll
      <4> QED
        BY <1>3, <1>4, <4>1, <4>2 DEF AllFr, ResolveAll
    <3>5. \A j \in 1..n + 1 : j = 1 \/ (j - 1 \in 1..n /\ (j - 1) + 1 = j)
      BY <1>3
    <3>6. DOMAIN a = 1..n + 1
      BY <1>3, <1>5 DEF ResolveAll
    <3>7. \A j \in 1..n + 1 : IsFr(a[j])
      BY <3>3, <3>4, <3>5
    <3> QED
      BY <3>1, <3>6, <3>7 DEF AllFr
  <2>3. \E k \in DOMAIN i.args : CellTypes(i)[k] # Native
    <3>1. CASE ~AllResolvable(cells, i.args)
      BY <3>1 DEF AllResolvable, CellTypes, Native
    <3>2. CASE AllResolvable(cells, i.args) /\ ~AllFr(a)
      BY <1>5, <3>2 DEF AllResolvable, AllFr, IsFr, CellTypes, ResolveAll
    <3> QED
      BY <1>8, <3>1, <3>2
  <2>4. NoArm(i)
    BY <1>2, <2>2, <2>3 DEF NoArm, HiddenImpact
  <2> QED
    BY <1>2, <2>1, <2>4, SynthStops
<1>9. CASE AllResolvable(cells, i.args) /\ AllFr(a)
  <2>1. a = ResolveAll(memory, i.args)
    BY <1>2, <1>5, <1>9, ResolveAllSame
  <2>2. a \in Seq(TypedValue) /\ Len(a) = n + 1 /\ a # <<>>
    <3>1. a \in Seq(TypedValue) /\ Len(a) = n + 1
      BY <1>2, <1>3, <1>5, <1>9, OperandsAreSeq
         DEF HonestRun, Honest, ProveInv, SynthInv, CellsOK
    <3> QED
      BY <3>1, EmptySeq
  <2>3. PICK rest : rest = Tail(a)
    OBVIOUS
  <2>4. /\ Head(a) = a[1] /\ rest \in Seq(TypedValue) /\ Len(rest) = n
        /\ \A j \in 1..n : rest[j] = a[j + 1]
    BY <2>2, <2>3, HeadTailProperties
  <2>5. DOMAIN rest = 1..n
    BY <2>4, LenProperties
  <2>6. a[1] = Resolve(memory, Guard(i)) /\ IsBit(a[1])
        /\ \A j \in 1..n : a[j + 1] = Resolve(memory, ImpactInputs(i)[j])
    <3>1. 1 \in DOMAIN i.args /\ \A j \in 1..n : j + 1 \in DOMAIN i.args
      BY <1>3
    <3> QED
      BY <1>3, <1>4, <2>1, <3>1 DEF ResolveAll, Guard
  <2>7. PICK pushed : pushed = [j \in DOMAIN rest |-> IF Head(a).val = 1 THEN rest[j].val ELSE 0]
    OBVIOUS
  <2>8. pushed = Pushed(i)
    <3>1. CASE a[1].val = 1
      <4>1. GuardOpen(i)
        BY <2>6, <3>1 DEF GuardOpen
      <4>2. Pushed(i) = [j \in 1..n |-> Resolve(memory, ImpactInputs(i)[j]).val]
        BY <1>2, <1>3, <4>1 DEF Pushed, Payloads, ResolveAll
      <4>3. pushed = [j \in 1..n |-> rest[j].val]
        BY <2>4, <2>5, <2>7, <3>1
      <4> QED
        BY <2>4, <2>6, <4>2, <4>3
    <3>2. CASE a[1].val # 1
      <4>1. ~GuardOpen(i)
        BY <1>2, <2>6, <3>2 DEF GuardOpen, WellShaped
      <4>2. Pushed(i) = [j \in 1..n |-> 0]
        BY <1>2, <1>3, <4>1 DEF Pushed, Zeros
      <4> QED
        BY <2>4, <2>5, <2>7, <3>2, <4>2
    <3> QED
      BY <3>1, <3>2
  <2>9. C!BitHolds(Head(a)) /\ C!PisAligned(pushed)
    <3>1. C!BitHolds(Head(a))
      BY <2>4, <2>6 DEF C!BitHolds, IsBit
    <3> QED
      BY <1>2, <2>8, <3>1, PushesAlign
  <2>10. cpis' = cpis \o pushed /\ cpc' = cpc + 1 /\ UNCHANGED <<cstatus, cells, couts>>
    BY <1>1, <1>6, <1>9, <2>3, <2>7, <2>9 DEF C!PushImpact
  <2>11. cpis' = Cat(cpis, Pushed(i)) /\ couts' = Cat(couts, Put(i))
    <3>1. Put(i) = <<>>
      BY <1>2 DEF Put
    <3>2. couts' = Cat(couts, Put(i))
      BY <1>2, <2>10, <3>1, CatEmpty
    <3> QED
      BY <2>8, <2>10, <3>2 DEF Cat
  <2>12. /\ cells' = [id \in DOMAIN cells' |-> cells'[id]] /\ Keeps(cells', memory)
         /\ DOMAIN cells' = DOMAIN cells \cup ToSet(i.outs)
    <3>1. i.outs = <<>>
      BY <1>2, NoOutputShape
    <3>2. ToSet(i.outs) = {}
      BY <3>1 DEF ToSet
    <3> QED
      BY <1>2, <2>10, <3>2 DEF SynthAt
  <2>13. cstatus' = cstatus /\ cpc' = cpc + 1
    BY <2>10
  <2> QED
    BY <1>2, <2>11, <2>12, <2>13, SynthAdvance
<1> QED
  BY <1>8, <1>9

LEMMA HonestOutput ==
  ASSUME HonestRun, SynthAt, C!OutputCells, UNCHANGED pvars
  PROVE  SynthAt'
<1>1. PICK i : i = C!CInstr
  OBVIOUS
<1>2. /\ i \in Instruction /\ WellShaped(i) /\ i.op = "Output" /\ i.args \in Seq(Operand)
      /\ i.outs \in Seq(Identifier) /\ i = src.code[cpc]
      /\ cpc \in 1..Len(src.code) /\ cstatus = "synthesizing"
      /\ Passed(i) /\ AllResolvable(cells, LookedAt(i)) /\ Keeps(cells, memory)
      /\ cpis \in Seq(Immediates) /\ couts \in Seq(TypedValue)
  BY <1>1, HonestFetched DEF C!OutputCells
<1>3. /\ AllResolvable(cells, i.args) /\ Len(i.args) = Len(src.outputs)
      /\ \A j \in DOMAIN i.args : Resolve(memory, i.args[j]).ty = src.outputs[j]
  BY <1>2 DEF LookedAt, Passed, HasPut
<1>4. PICK a : a = ResolveAll(cells, i.args)
  OBVIOUS
<1>5. a = ResolveAll(memory, i.args)
  BY <1>2, <1>3, <1>4, ResolveAllSame
<1>6. C!Operands = a /\ C!AllResolvable(cells, i.args) /\ C!OperandTypes = TypesOf(a)
  BY <1>1, <1>3, <1>4, SameMemory DEF C!Operands, C!OperandTypes
<1>7. TypesOf(a) = src.outputs
  <2>1. src.outputs \in Seq(IrType)
    BY JobTypes DEF HonestRun, Honest, ProveInv, CInv, IInv, TypeOK, Source
  <2>2. PICK m \in Nat : m = Len(i.args) /\ m = Len(src.outputs)
    BY <1>2, <1>3, LenProperties
  <2>3. DOMAIN i.args = 1..m /\ src.outputs = [j \in 1..m |-> src.outputs[j]]
    BY <1>2, <2>1, <2>2, LenProperties
  <2>4. \A j \in 1..m : Resolve(memory, i.args[j]).ty = src.outputs[j]
    BY <1>3, <2>3
  <2>5. TypesOf(a) = [j \in 1..m |-> Resolve(memory, i.args[j]).ty]
    BY <1>5, <2>3 DEF TypesOf, ResolveAll
  <2> QED
    BY <2>3, <2>4, <2>5
<1>8. couts' = couts \o a /\ cpc' = cpc + 1 /\ UNCHANGED <<cstatus, cells, cpis>>
  BY <1>1, <1>3, <1>6, <1>7 DEF C!OutputCells
<1>9. couts' = Cat(couts, Put(i))
  BY <1>2, <1>5, <1>8 DEF Put, Cat
<1>10. cpis' = Cat(cpis, Pushed(i))
  <2>1. Pushed(i) = <<>> /\ cpis' = cpis
    BY <1>2, <1>8 DEF Pushed
  <2>2. Cat(cpis, <<>>) = cpis
    BY <1>2, CatEmpty
  <2> QED
    BY <2>1, <2>2, Zenon
<1>11. /\ cells' = [id \in DOMAIN cells' |-> cells'[id]] /\ Keeps(cells', memory)
       /\ DOMAIN cells' = DOMAIN cells \cup ToSet(i.outs)
  <2>1. i.outs = <<>>
    BY <1>2, NoOutputShape
  <2>2. ToSet(i.outs) = {}
    BY <2>1 DEF ToSet
  <2> QED
    BY <1>2, <1>8, <2>2 DEF SynthAt
<1>12. cstatus' = cstatus /\ cpc' = cpc + 1
  BY <1>8
<1> QED
  BY <1>2, <1>9, <1>10, <1>11, <1>12, SynthAdvance

\* The inputs are bound first, one by one.
LEMMA HonestAssign ==
  ASSUME HonestRun, SynthAt, C!AssignInput, UNCHANGED pvars
  PROVE  SynthAt'
<1>1. SynthInv /\ IInv /\ AcceptedAtEnd /\ status = "accepted"
  BY DEF HonestRun, Honest, ProveInv, CInv
<1>2. PICK id : id = src.inputs[cpc]
  OBVIOUS
<1>3. cstatus = "assigning" /\ cpc \in DOMAIN src.inputs /\ id.name \in Identifier
  <2>1. src.inputs \in Seq([name : Identifier, ty : IrType]) /\ cpc \in Nat \ {0}
    BY <1>1 DEF SynthInv, SourceOK, Source
  <2>2. cpc \in 1..Len(src.inputs) /\ cpc \in DOMAIN src.inputs
    BY <2>1, LenProperties DEF C!AssignInput
  <2>3. id \in [name : Identifier, ty : IrType]
    BY <1>2, <2>1, <2>2, ElementOfSeq
  <2> QED
    BY <2>2, <2>3 DEF C!AssignInput
<1>4. id.name \in DOMAIN memory /\ memory[id.name].ty = id.ty
  BY <1>1, <1>2, <1>3, AcceptedBinds, RunIsTraced
<1>5. PICK ids : ids = <<id.name>>
  OBVIOUS
<1>6. ids \in Seq(Identifier) /\ DOMAIN ids = {1} /\ ids[1] = id.name
  BY <1>3, <1>5
<1>7. PICK v : v = memory[id.name]
  OBVIOUS
<1>8. cells' = Bind(cells, ids, <<v>>) /\ cpc' = cpc + 1 /\ UNCHANGED <<cstatus, cpis, couts>>
  <2>1. wit.memory = memory
    BY DEF wit
  <2> QED
    BY <1>2, <1>4, <1>5, <1>7, <2>1, SameBind DEF C!AssignInput
<1>9. ToSet(ids) = {id.name}
  BY <1>6 DEF ToSet
<1>10. Keeps(cells, memory)
  BY DEF SynthAt
<1>11. /\ Keeps(cells', memory) /\ cells' = [x \in DOMAIN cells' |-> cells'[x]]
       /\ DOMAIN cells' = DOMAIN cells \cup {id.name}
  <2>1. \A j \in DOMAIN ids : memory[ids[j]] = <<v>>[j]
    BY <1>6, <1>7
  <2>2. ToSet(ids) \subseteq DOMAIN memory
    BY <1>4, <1>9
  <2>3. /\ Keeps(cells', memory) /\ cells' = [x \in DOMAIN cells' |-> cells'[x]]
        /\ DOMAIN cells' = DOMAIN cells \cup ToSet(ids)
    BY <1>6, <1>8, <1>10, <2>1, <2>2, KeepsBind
  <2> QED
    BY <1>9, <2>3
<1>12. DOMAIN cells' = {src.inputs[i].name : i \in 1..cpc' - 1}
  <2>1. PICK k \in Nat : k + 1 = cpc
    <3>1. cpc \in Nat \ {0}
      BY <1>1 DEF SynthInv
    <3>2. cpc - 1 \in Nat /\ (cpc - 1) + 1 = cpc
      BY <3>1
    <3> QED
      BY <3>2
  <2>2. cpc - 1 = k /\ cpc' - 1 = k + 1
    BY <1>8, <2>1
  <2>3. DOMAIN cells = {src.inputs[i].name : i \in 1..k}
    BY <1>3, <2>2 DEF SynthAt
  <2>4. \A i : i \in 1..k + 1 <=> i \in 1..k \/ i = k + 1
    OBVIOUS
  <2>5. {src.inputs[i].name : i \in 1..k + 1} = {src.inputs[i].name : i \in 1..k} \cup {id.name}
    BY <1>2, <2>1, <2>4
  <2> QED
    BY <1>11, <2>2, <2>3, <2>5
<1>13. cpc' <= Len(src.inputs) + 1 /\ couts' = <<>>
  <2>1. cpc \in Nat /\ Len(src.inputs) \in Nat /\ cpc <= Len(src.inputs)
    BY <1>1, <1>3, LenProperties DEF SynthInv, SourceOK, Source
  <2> QED
    BY <1>3, <1>8, <2>1 DEF SynthAt
<1>14. UNCHANGED <<src, memory>> /\ cstatus' = "assigning"
  BY <1>3, <1>8 DEF pvars
<1>15. DOMAIN cells' = {src'.inputs[i].name : i \in 1..cpc' - 1}
       /\ cpc' <= Len(src'.inputs) + 1 /\ couts' = <<>>
  <2>1. src' = src
    BY <1>14
  <2> QED
    BY <1>12, <1>13, <2>1
<1>16. cells' = [x \in DOMAIN cells' |-> cells'[x]] /\ Keeps(cells', memory')
  BY <1>11, <1>14
<1>17. cstatus' \notin C!WitnessStops
  BY <1>14 DEF C!WitnessStops
<1> QED
  BY <1>14, <1>15, <1>16, <1>17 DEF SynthAt

LEMMA AllPushedTyped ==
  ASSUME HonestRun
  PROVE  PushedTo(Len(src.code)) \in Seq(Immediates)
<1>1. PICK n \in Nat : n = Len(src.code)
  BY RunIsTraced
<1>2. PICK t : t = [j \in 1..n |-> Pushed(src.code[j])]
  OBVIOUS
<1>3. \A j \in 1..n : t[j] \in Seq(Immediates)
  BY <1>1, <1>2, RunIsTraced DEF Traced
<1>4. t = [j \in 1..n |-> t[j]]
  BY <1>2
<1>5. t \in Seq(Seq(Immediates))
  BY <1>3, <1>4, IsASeq
<1>6. FlattenSeq(t) \in Seq(Immediates)
  BY <1>5, FlattenTyped
<1> QED
  BY <1>1, <1>2, <1>6 DEF PushedTo

\* Before the first instruction nothing is added.
LEMMA NothingYet == PushedTo(0) = <<>> /\ PutTo(0) = <<>>
<1>1. [k \in 1..0 |-> Put(src.code[k])] = <<>> /\ [k \in 1..0 |-> Pushed(src.code[k])] = <<>>
  OBVIOUS
<1> QED
  BY <1>1, FlattenEmpty DEF PutTo, PushedTo

LEMMA HonestSeed ==
  ASSUME HonestRun, SynthAt, C!SeedInstance, UNCHANGED pvars
  PROVE  SynthAt'
<1>1. /\ SynthInv /\ IInv /\ status = "accepted" /\ cstatus = "assigning" /\ cpis = <<>>
      /\ cpc > Len(src.inputs) /\ (src.comm => pre.comm # <<>>)
  BY DEF HonestRun, Honest, ProveInv, CInv, AcceptInv, SynthInv, InstanceOK, C!SeedInstance
<1>2. Header \in Seq(Immediates) /\ pis = Cat(Header, PushedTo(Len(src.code)))
      /\ Len(src.code) \in Nat
  BY RunIsTraced
<1>3. PICK rest \in Seq(Immediates) : rest = PushedTo(Len(src.code))
  BY AllPushedTyped
<1>4. C!PisAligned(Header)
  <2>1. \A j \in DOMAIN Header : Cat(Header, rest)[j] = Header[j]
    <3>1. PICK m \in Nat : m = Len(Header)
      BY <1>2, LenProperties
    <3>2. DOMAIN Header = 1..m
      BY <1>2, <3>1, LenProperties
    <3>3. PICK n \in Nat : n = Len(rest)
      BY <1>3, LenProperties
    <3>4. PICK w : w = Cat(Header, rest) /\ Joins(w, Header, rest, m, n)
      BY <1>2, <1>3, <3>1, <3>3, CatIs
    <3>5. \A j \in 1..m : w[j] = Header[j]
      BY <3>4 DEF Joins, Begins
    <3> QED
      BY <3>2, <3>4, <3>5
  <2>2. wit.pis = pis /\ Len(cpis) = 0
    BY <1>1 DEF wit
  <2>3. \A j \in DOMAIN Header : Len(cpis) + j = j
    <3>1. DOMAIN Header = 1..Len(Header)
      BY <1>2, LenProperties
    <3> QED
      BY <2>2, <3>1
  <2> QED
    BY <1>2, <1>3, <2>1, <2>2, <2>3 DEF C!PisAligned
<1>5. /\ cpis' = Header /\ cstatus' = "synthesizing" /\ cpc' = 1 /\ cells' = cells /\ couts' = couts
  <2>1. <<wit.binding>> \o (IF src.comm THEN <<wit.comm[1]>> ELSE <<>>) = Header
    BY DEF wit, Header
  <2>2. src.comm => wit.comm # <<>>
    BY <1>1 DEF wit
  <2> QED
    BY <1>4, <2>1, <2>2 DEF C!SeedInstance
<1>6. cpis' = Cat(Header, PushedTo(0)) /\ couts' = PutTo(0)
  <2>1. couts = <<>>
    BY <1>1 DEF SynthAt
  <2>2. Cat(Header, <<>>) = Header
    BY <1>2, CatEmpty
  <2> QED
    BY <1>5, <2>1, <2>2, NothingYet
<1>7. DOMAIN cells = NamesAt(1)
  <2>1. DOMAIN src.inputs = 1..Len(src.inputs) /\ Len(src.inputs) \in Nat
    BY <1>1, JobTypes, LenProperties DEF IInv, Source
  <2>2. cpc - 1 = Len(src.inputs)
    <3>1. cpc <= Len(src.inputs) + 1 /\ cpc \in Nat
      BY <1>1 DEF SynthAt, SynthInv
    <3> QED
      BY <1>1, <2>1, <3>1
  <2>3. DOMAIN cells = {src.inputs[i].name : i \in 1..cpc - 1}
    BY <1>1 DEF SynthAt
  <2>4. UNION {ToSet(src.code[i].outs) : i \in 1..1 - 1} = {}
    OBVIOUS
  <2> QED
    BY <2>1, <2>2, <2>3, <2>4 DEF NamesAt
<1>8. Keeps(cells', memory') /\ cells' = [id \in DOMAIN cells' |-> cells'[id]]
      /\ DOMAIN cells' = NamesAt(1)'
  BY <1>5, <1>7, RunStill DEF SynthAt
<1>9. cpis' = Cat(Header', PushedTo(0)') /\ couts' = PutTo(0)' /\ src' = src
  BY <1>6, RunStill
<1>10. cpis' = Cat(Header', PushedTo(cpc - 1)') /\ couts' = PutTo(cpc - 1)'
       /\ DOMAIN cells' = NamesAt(cpc)' /\ cpc' <= Len(src'.code) + 1
  <2>1. PICK m : m = cpc' /\ m = 1 /\ m - 1 = 0
    BY <1>5
  <2> QED
    BY <1>2, <1>8, <1>9, <2>1
<1> QED
  BY <1>5, <1>8, <1>10 DEF SynthAt, C!WitnessStops

------------------------------------------------------------------------------
(* The commitment of the circuit.                                            *)

LEMMA SameEncode ==
  ASSUME NEW v
  PROVE  C!Encode(v) = Encode(v)
BY DEF Encode, C!Encode, Native, C!Native, Bool, C!Bool, Byte, C!Byte, Scalar, C!Scalar,
   EncodePoint, C!EncodePoint, Limbs, C!Limbs, Chunks, C!Chunks, ChunkAt, C!ChunkAt, DivCeil,
   C!DivCeil, LeInt, C!LeInt, LeBytes, C!LeBytes, Total, C!Total

LEMMA SameEncodeAll ==
  ASSUME NEW vs
  PROVE  C!EncodeAll(vs) = EncodeAll(vs)
<1>1. [i \in DOMAIN vs |-> C!Encode(vs[i])] = [i \in DOMAIN vs |-> Encode(vs[i])]
  BY SameEncode
<1>2. ASSUME NEW s
      PROVE  C!FlattenSeq(s) = FlattenSeq(s)
  BY DEF C!FlattenSeq, FlattenSeq
<1> QED
  BY <1>1, <1>2 DEF EncodeAll, C!EncodeAll

\* The final cells of the inputs are the values the raw inputs encode, so the
\* circuit hashes what preprocess hashed.
LEMMA SameCommitment ==
  ASSUME HonestRun, cells = memory, couts = outputs
  PROVE  C!CircuitCommitment = Commitment
<1>1. IInv /\ AcceptedAtEnd /\ status = "accepted" /\ FullInv /\ Seeded /\ MemoryTyped(memory)
  BY RunIsTraced DEF HonestRun, Honest, ProveInv, CInv, FullInv, ValueInv, ValuesIn
<1>2. PICK m \in Nat : m = Len(src.inputs) /\ DOMAIN src.inputs = 1..m
  BY <1>1, JobTypes, LenProperties DEF IInv, Source
<1>3. PICK vs : vs = InputValues
  OBVIOUS
<1>4. \A k \in 1..m : src.inputs[k].name \in DOMAIN memory
  BY <1>1, <1>2, AcceptedBinds
<1>5. vs \in Seq(TypedValue)
  <2>1. vs = [k \in 1..m |-> vs[k]] /\ \A k \in 1..m : vs[k] = memory[src.inputs[k].name]
    BY <1>2, <1>3 DEF InputValues
  <2>2. \A k \in 1..m : vs[k] \in TypedValue
    BY <1>1, <1>4, <2>1, TypedIsValue DEF MemoryTyped
  <2> QED
    BY <2>1, <2>2, IsASeq
<1>6. C!CommittedInputs = vs
  <2>1. [k \in DOMAIN src.inputs |-> IF src.inputs[k].name \in DOMAIN cells
                                      THEN <<cells[src.inputs[k].name]>> ELSE <<>>] = Ones(vs)
    BY <1>2, <1>3, <1>4 DEF Ones, InputValues
  <2>2. FlattenSeq(Ones(vs)) = vs
    BY <1>5, FlattenOnes
  <2>3. \A s : C!FlattenSeq(s) = FlattenSeq(s)
    BY DEF C!FlattenSeq, FlattenSeq
  <2> QED
    BY <2>1, <2>2, <2>3 DEF C!CommittedInputs
<1>7. pre.inputs = EncodeAll(vs)
  BY <1>1, <1>3, InputsReplayed DEF HonestRun
<1>8. wit.comm = pre.comm
  BY DEF wit
<1> QED
  BY <1>6, <1>7, <1>8, SameEncodeAll DEF C!CircuitCommitment, Commitment

\* After the last instruction the circuit has all that preprocess has.
LEMMA HonestEnd ==
  ASSUME HonestRun, SynthAt, cstatus = "synthesizing", cpc > Len(src.code)
  PROVE  cells = memory /\ couts = outputs /\ cpis = pis
<1>1. PICK n \in Nat : n = Len(src.code)
  BY RunIsTraced
<1>2. cpc = n + 1 /\ cpc - 1 = n
  <2>1. cpc \in Nat /\ cpc <= n + 1
    BY <1>1 DEF SynthAt, HonestRun, Honest, ProveInv, SynthInv
  <2> QED
    BY <1>1, <2>1
<1>3. cpis = pis /\ couts = outputs /\ DOMAIN cells = DOMAIN memory
  BY <1>1, <1>2, RunIsTraced DEF SynthAt
<1>4. memory = [id \in DOMAIN memory |-> memory[id]]
  BY DEF HonestRun, Honest, ProveInv, CInv, IInv, TypeOK
<1>5. cells = memory
  BY <1>3, <1>4 DEF SynthAt, Keeps
<1> QED
  BY <1>3, <1>5

LEMMA HonestConstrain ==
  ASSUME HonestRun, SynthAt, C!ConstrainInstance, UNCHANGED pvars
  PROVE  SynthAt'
<1>1. cells = memory /\ couts = outputs /\ cpis = pis
  BY HonestEnd DEF C!ConstrainInstance
<1>2. C!CircuitCommitment = Commitment /\ wit.pis = pis
  BY <1>1, SameCommitment DEF wit
<1>3. src.comm => cpis[2] = Commitment
  <2> SUFFICES ASSUME src.comm PROVE pis[2] = Commitment
    BY <1>1
  <2>1. pre.comm[1] = Commitment /\ pre.comm # <<>>
    BY DEF HonestRun, Honest, AcceptInv
  <2>2. PICK h \in Seq(Immediates) : h = Header
    BY RunIsTraced
  <2>3. PICK rest \in Seq(Immediates) : rest = PushedTo(Len(src.code)) /\ pis = Cat(h, rest)
    BY <2>2, AllPushedTyped, RunIsTraced
  <2>4. Len(h) = 2 /\ h[2] = pre.comm[1]
    <3>1. h = <<pre.binding>> \o <<pre.comm[1]>>
      BY <2>2 DEF Header
    <3> QED
      BY <3>1
  <2>5. PICK n \in Nat : n = Len(rest)
    BY <2>3, LenProperties
  <2>6. PICK w : w = Cat(h, rest) /\ Joins(w, h, rest, 2, n)
    BY <2>4, <2>5, CatIs
  <2>7. w[2] = h[2]
    BY <2>6 DEF Joins, Begins
  <2> QED
    BY <2>1, <2>3, <2>4, <2>6, <2>7
<1>4. C!CStop("satisfied")
  BY <1>1, <1>2, <1>3 DEF C!ConstrainInstance
<1>5. UNCHANGED <<src, memory, outputs, cells, cpc, couts>> /\ cstatus' = "satisfied"
  BY <1>4 DEF pvars, C!CStop
<1> QED
  BY <1>1, <1>5 DEF SynthAt, Keeps, C!WitnessStops

------------------------------------------------------------------------------
(* All of prove.                                                             *)

\* While preprocess runs, synthesis has done nothing.
LEMMA SynthFresh ==
  ASSUME src' = src, src \in Source, cstatus' = "assigning", cpc' = 1, cells' = EmptyMemory,
         couts' = <<>>
  PROVE  SynthAt'
<1>1. cells' = [id \in DOMAIN cells' |-> cells'[id]] /\ DOMAIN cells' = {}
  BY DEF EmptyMemory
<1>2. {src'.inputs[i].name : i \in 1..cpc' - 1} = {}
  OBVIOUS
<1>3. cpc' <= Len(src'.inputs) + 1
  <2>1. Len(src.inputs) \in Nat
    BY LenProperties DEF Source
  <2> QED
    BY <2>1
<1>4. cstatus' \notin C!WitnessStops
  BY DEF C!WitnessStops
<1> QED
  BY <1>1, <1>2, <1>3, <1>4 DEF SynthAt, Keeps

LEMMA SynthSame ==
  ASSUME SynthAt, UNCHANGED proveVars
  PROVE  SynthAt'
<1>1. UNCHANGED <<src, memory, outputs, cells, cpc, couts, cpis, cstatus>> /\ UNCHANGED pvars
  BY DEF proveVars, pvars
<1>2. \A i : NoArm(i)' = NoArm(i)
  BY <1>1 DEF NoArm, SelectsBytes, TestsLengths, HighNotNative, HiddenImpact, HashesOption,
     CellTypes, GuardOpen, Guard
<1>3. PICK k : k = cpc /\ k = cpc'
  BY <1>1
<1>4. NamesAt(cpc)' = NamesAt(cpc) /\ PushedTo(cpc - 1)' = PushedTo(cpc - 1)
      /\ PutTo(cpc - 1)' = PutTo(cpc - 1) /\ Header' = Header
  BY <1>1, <1>3, RunStill
<1> QED
  BY <1>1, <1>2, <1>4 DEF SynthAt, Keeps

LEMMA HonestInit == ProveInit => Honest /\ HonestInv
<1> SUFFICES ASSUME ProveInit PROVE Honest /\ HonestInv
  OBVIOUS
<1>1. Honest
  BY ProveInvInit, ReplayInit, TraceInit DEF ProveInit, Honest
<1>2. cstatus = "assigning" /\ cpc = 1 /\ cells = EmptyMemory /\ couts = <<>>
  <2>1. C!EmptyMemory = EmptyMemory
    BY DEF C!EmptyMemory, EmptyMemory, C!Fr, Fr, C!V, V, C!Native, Native
  <2> QED
    BY <2>1 DEF ProveInit, C!CInit
<1>3. SynthAt
  <2>1. cells = [id \in DOMAIN cells |-> cells[id]] /\ DOMAIN cells = {}
    BY <1>2 DEF EmptyMemory
  <2>2. {src.inputs[i].name : i \in 1..cpc - 1} = {}
    BY <1>2
  <2>3. Len(src.inputs) \in Nat
    BY <1>1, JobTypes, LenProperties DEF Honest, ProveInv, CInv, IInv, Source
  <2> QED
    BY <1>2, <2>1, <2>2, <2>3 DEF SynthAt, Keeps, C!WitnessStops
<1> QED
  BY <1>1, <1>2, <1>3 DEF HonestInv

LEMMA HonestNext ==
  ASSUME GadgetsTyped, Honest, HonestInv, [ProveNext]_proveVars
  PROVE  Honest' /\ HonestInv'
<1>1. ProveInv' /\ [Next]_pvars
  BY ProveInvNext DEF ProveNext, Prepare, Synthesize, Returned, Next, proveVars, pvars, Honest
<1>2. IInv /\ IInv' /\ ValueInv
  BY <1>1 DEF Honest, ProveInv, CInv
<1>3. Honest'
  BY <1>1, <1>2, ReplayNext, AcceptNext, TraceNext DEF Honest
<1>4. src' = src
  <2>1. CASE Step
    BY <2>1 DEF Step, DecodeInput, SeedPublicInputs, Compute, ReadPublic, ReadPrivate, Read,
       ImpactSkipped, ImpactActive, OutputValues, Finish, Reject, Stop
  <2>2. CASE UNCHANGED pvars
    BY <2>2 DEF pvars
  <2> QED
    BY <1>1, <2>1, <2>2 DEF Next, Terminated
<1>5. CASE ~SingleAssignment(src)
  BY <1>3, <1>4, <1>5 DEF HonestInv
<1>6. CASE SingleAssignment(src) /\ Synthesize
  <2>1. HonestRun /\ SynthAt /\ UNCHANGED pvars /\ C!CStep
    BY <1>6 DEF Synthesize, HonestRun, HonestInv
  <2>2. SynthAt'
    BY <2>1, HonestAssign, HonestSeed, HonestGate, HonestRead, HonestImpact, HonestOutput,
       HonestConstrain DEF C!CStep
  <2>3. status' = "accepted"
    BY <2>1 DEF HonestRun, pvars
  <2> QED
    BY <1>3, <2>2, <2>3 DEF HonestInv
<1>7. CASE SingleAssignment(src) /\ Prepare
  <2>1. status # "accepted"
    BY <1>7, AcceptedRests DEF Prepare
  <2>2. cstatus = "assigning" /\ cpc = 1 /\ cells = EmptyMemory /\ couts = <<>>
    BY <1>7, <2>1 DEF HonestInv, SynthAt, Honest, ProveInv, CInv, CellsWait
  <2>3. cstatus' = "assigning" /\ cpc' = 1 /\ cells' = EmptyMemory /\ couts' = <<>>
    BY <1>7, <2>2 DEF Prepare, synthVars
  <2>4. cells' = EmptyMemory' /\ src \in Source
    BY <1>2, <2>3, JobTypes DEF EmptyMemory, IInv
  <2>5. SynthAt'
    BY <1>4, <2>3, <2>4, SynthFresh
  <2> QED
    BY <1>3, <2>3, <2>5 DEF HonestInv
<1>8. CASE SingleAssignment(src) /\ UNCHANGED proveVars
  <2>1. SynthAt'
    BY <1>8, SynthSame DEF HonestInv
  <2>2. UNCHANGED <<status, cstatus, cpc>>
    BY <1>8 DEF proveVars
  <2> QED
    BY <1>3, <1>8, <2>1, <2>2 DEF HonestInv
<1> QED
  BY <1>5, <1>6, <1>7, <1>8 DEF ProveNext, Returned

------------------------------------------------------------------------------
(* Where the circuit is lax.                                                 *)

LEMMA SameLaxity ==
  /\ \A m, o : C!Resolve(m, o) = Resolve(m, o)
  /\ \A m, os : C!ResolveAll(m, os) = ResolveAll(m, os)
  /\ \A v : C!IsBit(v) = IsBit(v)
  /\ \A t : C!Default(t) = Default(t)
  /\ \A align : C!AlignedWidth(align) = AlignedWidth(align)
  /\ \A k : C!NamesBefore(k) = NamesAt(k)
  /\ \A ins : C!Guard(ins) = Guard(ins)
  /\ C!SplitBits = SplitBits /\ C!HashOps = HashOps
<1>1. \A m, o : C!Resolve(m, o) = Resolve(m, o)
  BY DEF C!Resolve, Resolve, C!Fr, Fr, C!V, V, C!Native, Native
<1>2. \A m, os : C!ResolveAll(m, os) = ResolveAll(m, os)
  BY <1>1 DEF C!ResolveAll, ResolveAll
<1>3. \A v : C!IsBit(v) = IsBit(v)
  BY DEF C!IsBit, IsBit, C!IsFr, IsFr, C!Native, Native
<1>4. \A t : C!Default(t) = Default(t)
  BY DEF C!Default, Default, C!V, V, C!BytesTypes, BytesTypes, C!Bytes, Bytes
<1>5. \A align : C!AlignedWidth(align) = AlignedWidth(align)
  BY DEF C!AlignedWidth, AlignedWidth, C!Width, Width, C!Total, Total, C!DivCeil, DivCeil
<1>6. \A k : C!NamesBefore(k) = NamesAt(k)
  BY DEF C!NamesBefore, NamesAt, C!ToSet, ToSet
<1>7. \A ins : C!Guard(ins) = Guard(ins)
  BY DEF C!Guard, Guard
<1>8. C!SplitBits = SplitBits /\ C!HashOps = HashOps
  BY DEF C!SplitBits, SplitBits, C!HashOps, HashOps
<1> QED
  BY <1>1, <1>2, <1>3, <1>4, <1>5, <1>6, <1>7, <1>8

\* What the laxity of the circuit lets pass at an instruction, preprocess has
\* not let pass there.
LEMMA NotLaxAt ==
  ASSUME HonestRun, cells = memory, NEW k \in 1..Len(src.code)
  PROVE  ~C!LaxAt(k)
<1>1. IInv /\ Seeded /\ Traced(k) /\ MemoryTyped(memory)
  BY RunIsTraced DEF HonestRun, Honest, ProveInv, CInv, ValueInv, ValuesIn
<1>2. PICK i : i = src.code[k]
  OBVIOUS
<1>3. i \in Instruction /\ WellShaped(i) /\ i.args \in Seq(Operand)
  BY <1>1, <1>2, CodeTypes DEF IInv, Instruction
<1>4. AllEarly(k, LookedAt(i)) /\ Passed(i)
  BY <1>1, <1>2 DEF Traced
<1>5. CASE i.op \in ValueOps
  <2>1. PICK a : a = ResolveAll(memory, i.args)
    OBVIOUS
  <2>2. AllResolvable(memory, i.args)
    <3>1. LookedAt(i) = i.args
      BY <1>5 DEF LookedAt, ValueOps, HashOps
    <3>2. NamesAt(k) \subseteq DOMAIN memory
      <4>1. Executed = Len(src.code)
        BY RunIsTraced
      <4> QED
        BY <1>1, <4>1, NamesBound
    <3> QED
      BY <1>4, <3>1, <3>2, EarlyIs
  <2>3. AllTyped(a) /\ a = [j \in 1..Len(i.args) |-> a[j]] /\ DOMAIN a = 1..Len(i.args)
    <3>1. AllTyped(a) /\ DOMAIN a = 1..Len(i.args)
      BY <1>1, <1>3, <2>1, <2>2, OperandsAre
    <3>2. a = [j \in DOMAIN a |-> a[j]]
      BY <2>1 DEF ResolveAll
    <3> QED
      BY <3>1, <3>2
  <2>4. PICK vals \in OffGate(i, a) : TRUE
    BY <1>4, <1>5, <2>1 DEF Passed, HasComputed
  <2>5. Strict(i, a)
    BY <1>3, <1>5, <2>3, <2>4, TwinsStrict
  <2>7. C!LaxRead(k) = FALSE
    BY <1>2, <1>5 DEF C!LaxRead, ValueOps, HashOps
  <2>8. ~(i.op = "Assert" /\ a[1].val # 1)
    BY <2>5 DEF Strict
  <2>9. ~(/\ i.op \in {"ConstrainBits", "LessThan"}
          /\ i.n[1] >= FR_BITS \/ \E j \in DOMAIN a : a[j].val >= 2^i.n[1])
    <3> SUFFICES ASSUME i.op \in {"ConstrainBits", "LessThan"}
                 PROVE  ~(i.n[1] >= FR_BITS) /\ \A j \in DOMAIN a : ~(a[j].val >= 2^i.n[1])
      OBVIOUS
    <3>1. \A j \in DOMAIN a : IsFr(a[j])
      <4>1. CASE i.op = "ConstrainBits"
        <5>1. IsFr(a[1])
          BY <2>4, <4>1 DEF OffGate, ConstrainBitsOff, FitsBits, Some, HashOps
        <5>2. Len(i.args) = 1
          BY <1>3, <4>1 DEF WellShaped, UnaryOps
        <5>3. \A j \in 1..1 : j = 1
          OBVIOUS
        <5> QED
          BY <2>3, <5>1, <5>2, <5>3, Zenon
      <4>2. CASE i.op = "LessThan"
        <5>1. IsFr(a[1]) /\ IsFr(a[2])
          BY <2>4, <4>2 DEF OffGate, LessThanOff, FitsBits, Some, HashOps
        <5>2. Len(i.args) = 2
          BY <1>3, <4>2 DEF WellShaped, BinaryOps
        <5>3. \A j \in 1..2 : j = 1 \/ j = 2
          OBVIOUS
        <5> QED
          BY <2>3, <5>1, <5>2, <5>3, Zenon
      <4> QED
        BY <4>1, <4>2
    <3>2. \A j \in DOMAIN a : a[j].val \in Nat
      BY <2>3, <3>1, FrRange DEF AllTyped, IsFr
    <3>3. i.n[1] \in Nat
      BY <1>3, ParametersTyped DEF OneParameter
    <3>4. PICK p \in Nat : p = 2^i.n[1]
      <4>1. PICK m \in 0..FR_BITS : m = i.n[1]
        BY <2>5, <3>3, Constants DEF Strict
      <4>2. m \in m..FR_BITS
        BY <4>1, Constants
      <4> QED
        BY <4>1, <4>2, TwosGrow
    <3>5. i.n[1] < FR_BITS /\ \A j \in DOMAIN a : a[j].val < p
      BY <2>5, <3>4 DEF Strict
    <3>6. FR_BITS \in Nat
      BY Constants
    <3>7. ~(i.n[1] >= FR_BITS) /\ \A j \in DOMAIN a : ~(a[j].val >= p)
      BY <3>2, <3>3, <3>5, <3>6
    <3> QED
      BY <3>4, <3>7
  <2>10. ~(i.op \in {"DivModPowerOfTwo", "ReconstituteField"} /\ i.n[1] > SplitBits)
    <3> SUFFICES ASSUME i.op \in {"DivModPowerOfTwo", "ReconstituteField"} PROVE ~(i.n[1] > SplitBits)
      OBVIOUS
    <3>1. i.n[1] \in Nat
      BY <1>3, ParametersTyped DEF OneParameter
    <3>2. i.n[1] <= SplitBits
      BY <2>5 DEF Strict
    <3> QED
      BY <3>1, <3>2, SplitBitsFew
  <2>12. ~(i.op = "ReconstituteField" /\ i.n[1] = 0)
    BY <2>5 DEF Strict
  <2>11. ~(i.op \in HashOps /\ AlignedWidth(i.align) < Len(i.args))
    <3> SUFFICES ASSUME i.op \in HashOps PROVE ~(AlignedWidth(i.align) < Len(i.args))
      OBVIOUS
    <3>1. PICK n \in Nat : n = Len(i.args)
      BY <1>3, LenProperties
    <3>2. AlignedWidth(i.align) = n
      BY <2>5, <3>1 DEF Strict
    <3> QED
      BY <3>1, <3>2
  <2> QED
    BY <1>2, <2>1, <2>7, <2>8, <2>9, <2>10, <2>11, <2>12, SameLaxity DEF C!LaxAt
<1>6. CASE i.op \in {"PublicInput", "PrivateInput"}
  <2>1. HasRead(i) /\ LookedAt(i) = i.args
    BY <1>4, <1>6 DEF Passed, LookedAt
  <2> SUFFICES ~C!LaxRead(k)
    BY <1>2, <1>6, SameLaxity DEF C!LaxAt, HashOps
  <2> SUFFICES ASSUME i.args # <<>>
               PROVE  /\ Guard(i)[1] = "var" => Guard(i)[2] \in NamesAt(k)
                      /\ IsBit(Resolve(memory, Guard(i)))
                      /\ Resolve(memory, Guard(i)) = C!Fr(0) => memory[i.outs[1]] = Default(i.ty)
    BY <1>2, SameLaxity DEF C!LaxRead
  <2>2. 1 \in DOMAIN i.args
    BY <1>3, LenProperties, EmptySeq
  <2>3. Guard(i)[1] = "var" => Guard(i)[2] \in NamesAt(k)
    BY <1>4, <2>1, <2>2 DEF AllEarly, Early, Guard
  <2>4. Resolve(memory, Guard(i)) = C!Fr(0) => Resolve(memory, Guard(i)).val = 0
    BY DEF C!Fr, C!V
  <2> QED
    BY <2>1, <2>3, <2>4 DEF HasRead
<1>7. CASE i.op \in {"Impact", "Output"}
  BY <1>2, <1>7, SameLaxity DEF C!LaxAt, C!LaxRead, HashOps
<1> QED
  BY <1>3, <1>5, <1>6, <1>7 DEF Instruction, ControlOps
------------------------------------------------------------------------------
(* What an honest prover can count on.                                       *)

\* For every single-assignment source that preprocess accepts, whatever the
\* preimage, the field, the curves and the gadgets: no cell and no public input
\* of the circuit differs from those of preprocess and no constraint fails, so
\* that every arm of synthesis computes and admits what its twin does.
THEOREM HonestlyAligned == GadgetsTyped => (ProveSpec => []NeverMisaligned)
<1> SUFFICES ASSUME GadgetsTyped PROVE ProveSpec => []NeverMisaligned
  OBVIOUS
<1>1. Honest /\ HonestInv /\ [ProveNext]_proveVars => Honest' /\ HonestInv'
  BY HonestNext
<1>2. HonestInv => NeverMisaligned
  BY DEF HonestInv, SynthAt, NeverMisaligned, C!WitnessStops
<1> QED
  BY HonestInit, <1>1, <1>2, PTL DEF ProveSpec

\* Synthesis of an accepted single-assignment source fails at an instruction the
\* circuit has no arm for and nowhere else, and never for want of a witness.
THEOREM FailuresAreExplained == GadgetsTyped => (ProveSpec => []FailuresExplained)
<1> SUFFICES ASSUME GadgetsTyped PROVE ProveSpec => []FailuresExplained
  OBVIOUS
<1>1. Honest /\ HonestInv /\ [ProveNext]_proveVars => Honest' /\ HonestInv'
  BY HonestNext
<1>2. HonestInv => FailuresExplained
  BY DEF HonestInv, SynthAt, FailuresExplained, C!WitnessStops
<1> QED
  BY HonestInit, <1>1, <1>2, PTL DEF ProveSpec

\* A circuit that is satisfied has bound every name that preprocess bound to the
\* value it has there, and its outputs are those of preprocess.
THEOREM SatisfiedIsComplete == GadgetsTyped => (ProveSpec => []SatisfiedComplete)
<1> SUFFICES ASSUME GadgetsTyped PROVE ProveSpec => []SatisfiedComplete
  OBVIOUS
<1>1. Honest /\ HonestInv /\ [ProveNext]_proveVars => Honest' /\ HonestInv'
  BY HonestNext
<1>2. HonestInv => SatisfiedComplete
  BY DEF HonestInv, SynthAt, SatisfiedComplete
<1> QED
  BY HonestInit, <1>1, <1>2, PTL DEF ProveSpec

\* No honest proof of a single-assignment source rests on a check of preprocess
\* that the constraints of the circuit do not imply.
THEOREM HonestIsNotLax == GadgetsTyped => (ProveSpec => []HonestNotLax)
<1> SUFFICES ASSUME GadgetsTyped PROVE ProveSpec => []HonestNotLax
  OBVIOUS
<1>1. Honest /\ HonestInv /\ [ProveNext]_proveVars => Honest' /\ HonestInv'
  BY HonestNext
<1>2. Honest /\ HonestInv => HonestNotLax
  <2> SUFFICES ASSUME Honest, HonestInv, cstatus = "satisfied", SingleAssignment(src)
               PROVE  ~C!Lax
    BY DEF HonestNotLax
  <2>1. HonestRun /\ cells = memory
    BY DEF HonestInv, HonestRun, SynthAt
  <2>2. DOMAIN src.code = 1..Len(src.code)
    BY JobTypes, LenProperties DEF Honest, ProveInv, CInv, IInv, Source
  <2> QED
    BY <2>1, <2>2, NotLaxAt DEF C!Lax
<1> QED
  BY HonestInit, <1>1, <1>2, PTL DEF ProveSpec
==============================================================================
