---------------------------- MODULE Statement_proofs ----------------------------
(***************************************************************************)
(* Theorems about prove_unchecked for every source and every witness: the  *)
(* circuit it lays out is that of Keygen, all its variables keep their     *)
(* types, and a statement of a single-assignment source is sound exactly   *)
(* where no check that the circuit leaves out fails on its cells.          *)
(*                                                                         *)
(* The witness is typed but otherwise unknown, so the invariants are about *)
(* the synthesis (SynthInv), about what it has counted (CellsBound), about *)
(* what it has laid out (SynthTrace), and about the run of preprocess on   *)
(* the preimage that is read off the cells: its types (RunTyped), what it  *)
(* has made sure of (PassedInv) and that it binds, publishes and puts out  *)
(* what the circuit did until a check that the circuit leaves out stops it *)
(* (FollowInv).  The last rests on the converse of the twin theorem and on *)
(* the round trip of the codec (Twin_proofs).                              *)
(*                                                                         *)
(* Statement takes Keygen and Preprocess as instances, and theorems do not *)
(* come through INSTANCE: lemmas Same... show that the operators of the    *)
(* instances are those of the module.                                      *)
(***************************************************************************)
EXTENDS Statement, Twin_proofs

------------------------------------------------------------------------------
(* Key generation and synthesis read the same definitions.                   *)

LEMMA SameShape ==
  ASSUME NEW ins, NEW tys
  PROVE  K!Shape(ins, tys) = Shape(ins, tys)
BY DEF ByteBase, K!ByteBase, Native, K!Native, Bool, K!Bool, Byte, K!Byte, Bytes, K!Bytes,
  Point, K!Point, Scalar, K!Scalar, Base, K!Base, PrimeFields, K!PrimeFields, Points,
  K!Points, Order, K!Order, V, K!V, Fr, K!Fr, IsPoint, K!IsPoint, LeBytes, K!LeBytes, Total,
  K!Total, LeInt, K!LeInt, DivCeil, K!DivCeil, ChunkAt, K!ChunkAt, Chunks, K!Chunks,
  encoded_len, K!encoded_len, Limbs, K!Limbs, FromLimbs, K!FromLimbs, EncodePoint,
  K!EncodePoint, Encode, K!Encode, Some, K!Some, ChunkBytes, K!ChunkBytes, decode_bytes,
  K!decode_bytes, PointFromRaw, K!PointFromRaw, FromPublicInput, K!FromPublicInput, Decode,
  K!Decode, PointBytesLen, K!PointBytesLen, HasBytes, K!HasBytes, Nothing, K!Nothing,
  LimbsMatch, K!LimbsMatch, HashOps, K!HashOps, DigestLen, K!DigestLen, Width, K!Width,
  AllOf, K!AllOf, IsBytesType, K!IsBytesType, AddShape, K!AddShape, MulShape, K!MulShape,
  NegShape, K!NegShape, InvShape, K!InvShape, NotShape, K!NotShape, BitListShape,
  K!BitListShape, ConstrainEqShape, K!ConstrainEqShape, TestEqShape, K!TestEqShape,
  CondSelectShape, K!CondSelectShape, CheckShape, K!CheckShape, LessThanShape,
  K!LessThanShape, DivModShape, K!DivModShape, ReconstituteShape, K!ReconstituteShape,
  JubjubScalarShape, K!JubjubScalarShape, TransientHashShape, K!TransientHashShape,
  HashToCurveShape, K!HashToCurveShape, EcMulShape, K!EcMulShape, EcMulGeneratorShape,
  K!EcMulGeneratorShape, IntoCoordinatesShape, K!IntoCoordinatesShape, FromCoordinatesShape,
  K!FromCoordinatesShape, BytesOf, K!BytesOf, ToBytesShape, K!ToBytesShape,
  IntoBytes32Shape, K!IntoBytes32Shape, FromBytesShape, K!FromBytesShape, FromBytes32Shape,
  K!FromBytes32Shape, ReverseShape, K!ReverseShape, SliceShape, K!SliceShape, NthShape,
  K!NthShape, ByteCount, K!ByteCount, ConcatShape, K!ConcatShape, EncodeShape,
  K!EncodeShape, BytesIntoNativesShape, K!BytesIntoNativesShape, BytesFromNativesShape,
  K!BytesFromNativesShape, LowHighShape, K!LowHighShape, FromLowHighShape,
  K!FromLowHighShape, Decodable, K!Decodable, AlignedWidth, K!AlignedWidth, ByteHashShape,
  K!ByteHashShape, LoadConstantShape, K!LoadConstantShape, Shape, K!Shape

LEMMA SameChips ==
  ASSUME NEW s, NEW tys
  PROVE  K!ChipsFor(s, tys) = ChipsFor(s, tys)
BY DEF Native, K!Native, Point, K!Point, Scalar, K!Scalar, Base, K!Base, CurveOf, K!CurveOf,
  InspectedTypes, K!InspectedTypes, UsedCurves, K!UsedCurves, ChipsFor, K!ChipsFor

LEMMA SameBind ==
  ASSUME NEW m, NEW ids, NEW vals
  PROVE  K!Bind(m, ids, vals) = Bind(m, ids, vals)
BY DEF Bind, K!Bind, ToSet, K!ToSet

------------------------------------------------------------------------------
(* The invariant of synthesis.                                               *)

SourceOK == src \in Source /\ \A i \in DOMAIN src.code : WellShaped(src.code[i])
WitnessOK ==
  /\ \A id \in DOMAIN wit.memory : wit.memory[id] \in IrValue(wit.memory[id].ty)
  /\ wit.binding \in Immediates /\ wit.comm \in Seq(Immediates) /\ Len(wit.comm) \in {0, 2}

CellsOK == MemoryTyped(cells) /\ DOMAIN cells \subseteq Identifier
\* The instance is empty until it is seeded and never again.
InstanceOK ==
  /\ cpis \in Seq(Immediates)
  /\ cstatus = "assigning" => cpis = <<>>
  /\ cstatus = "synthesizing" => cpis # <<>>
SynthInv ==
  /\ SourceOK /\ WitnessOK
  /\ cstatus \in CStatuses /\ cpc \in Nat \ {0}
  /\ CellsOK /\ InstanceOK /\ couts \in Seq(TypedValue)

\* Synthesis without the witness takes the step as well, or rests.
KFollows == K!KStep \/ UNCHANGED <<src, K!kvars>>

------------------------------------------------------------------------------
(* Steps.                                                                    *)

LEMMA InvStop ==
  ASSUME SynthInv, src' = src, wit' = wit, NEW s \in CStopped, CStop(s)
  PROVE  SynthInv'
BY DEF SynthInv, SourceOK, WitnessOK, CStatuses, CStopped, WitnessStops, CStop, CellsOK,
   MemoryTyped, InstanceOK

\* Where the witness stops synthesis, key generation has not moved.
LEMMA StopStutters ==
  ASSUME SynthInv, src' = src, cstatus \in {"assigning", "synthesizing"},
         NEW s \in WitnessStops, CStop(s)
  PROVE  KFollows
BY DEF SynthInv, InstanceOK, CStop, WitnessStops, KFollows, K!kvars
\* What stops synthesis whatever the witness stops key generation.
LEMMA StopFollows ==
  ASSUME src' = src, NEW s \in {"failed", "no_chip"}, CStop(s)
  PROVE  K!KStop(s)
BY DEF K!KStop, CStop, WitnessStops

LEMMA WitnessTyped ==
  ASSUME WitnessOK, NEW t \in IrType, NEW id \in DOMAIN wit.memory, wit.memory[id].ty = t
  PROVE  Is(wit.memory[id], t)
BY DEF WitnessOK, Is, Typed

\* One more cell.
LEMMA BindOne ==
  ASSUME CellsOK, NEW ids \in Seq(Identifier), Len(ids) = 1, NEW t, NEW v, Is(v, t),
         cells' = Bind(cells, ids, <<v>>)
  PROVE  CellsOK' /\ TypeMap(cells') = Bind(TypeMap(cells), ids, <<t>>)
<1>1. Fits(<<v>>, <<t>>) /\ Yields(<<v>>, Len(ids)) /\ DOMAIN <<t>> = 1..Len(ids)
  BY FitsOne, YieldsOne
<1>2. MemoryTyped(cells')
  BY <1>1, BindTyped DEF CellsOK
<1>3. DOMAIN cells' \subseteq Identifier
  <2>1. DOMAIN cells' = DOMAIN cells \cup ToSet(ids)
    BY BindProperties
  <2>2. ToSet(ids) \subseteq Identifier
    BY ToSetSubset
  <2> QED
    BY <2>1, <2>2 DEF CellsOK
<1>4. TypeMap(cells') = Bind(TypeMap(cells), ids, <<t>>)
  BY <1>1, BindTypes
<1> QED
  BY <1>2, <1>3, <1>4 DEF CellsOK, MemoryTyped

LEMMA StepAssign ==
  ASSUME SynthInv, AssignInput, UNCHANGED <<src, wit>>
  PROVE  SynthInv' /\ KFollows
<1> DEFINE id == src.inputs[cpc]
           v == IF id.name \in DOMAIN wit.memory THEN wit.memory[id.name] ELSE Fr(0)
<1>1. id.name \in Identifier /\ id.ty \in IrType /\ cpc <= Len(src.inputs)
  <2>1. src.inputs \in Seq([name : Identifier, ty : IrType]) /\ cpc \in Nat \ {0}
    BY DEF SynthInv, SourceOK, Source
  <2>2. cpc \in 1..Len(src.inputs)
    BY <2>1, LenProperties DEF AssignInput
  <2>3. id \in [name : Identifier, ty : IrType]
    BY <2>1, <2>2, ElementOfSeq
  <2> QED
    BY <2>2, <2>3
<1>2. CASE CStop("bad_witness")
  BY <1>2, InvStop, StopStutters DEF AssignInput, CStopped, WitnessStops
<1>3. CASE /\ v.ty = id.ty /\ cells' = Bind(cells, <<id.name>>, <<v>>)
           /\ cpc' = cpc + 1 /\ UNCHANGED <<cstatus, cpis, couts>>
  <2>1. Is(v, id.ty)
    <3>1. CASE id.name \in DOMAIN wit.memory
      BY <1>1, <1>3, <3>1, WitnessTyped DEF SynthInv
    <3>2. CASE id.name \notin DOMAIN wit.memory
      <4>1. 0 \in 0..P - 1
        BY Constants
      <4>2. v = Fr(0) /\ Typed(Fr(0))
        BY <3>2, <4>1, TypedFr
      <4> QED
        BY <1>3, <4>2 DEF Is
    <3> QED
      BY <3>1, <3>2
  <2>2. <<id.name>> \in Seq(Identifier) /\ Len(<<id.name>>) = 1
    BY <1>1
  <2>3. cells' = Bind(cells, <<id.name>>, <<v>>)
    BY <1>3
  <2>4. cstatus = "assigning"
    BY DEF AssignInput
  <2> HIDE DEF id, v
  <2>5. CellsOK' /\ TypeMap(cells') = Bind(TypeMap(cells), <<id.name>>, <<id.ty>>)
    BY <2>1, <2>2, <2>3, BindOne DEF SynthInv
  <2>6. SynthInv'
    BY <1>3, <2>5 DEF SynthInv, SourceOK, WitnessOK, InstanceOK
  <2>7. K!KAssignInput
    BY <1>1, <1>3, <2>4, <2>5, SameBind DEF K!KAssignInput, TypeMap, WitnessStops, id
  <2> QED
    BY <2>6, <2>7 DEF KFollows, K!KStep
<1> QED
  BY <1>2, <1>3 DEF AssignInput

LEMMA JoinOnes ==
  ASSUME NEW S, NEW a \in S, NEW b \in S
  PROVE  /\ Cat(<<a>>, <<b>>) \in Seq(S) /\ Len(Cat(<<a>>, <<b>>)) = 2
         /\ Cat(<<a>>, <<b>>) # <<>>
<1>1. ASSUME NEW p \in Seq(S), NEW q \in Seq(S), Len(p) = 1, Len(q) = 1
      PROVE  Cat(p, q) \in Seq(S) /\ Len(Cat(p, q)) = 2 /\ Cat(p, q) # <<>>
  <2>1. Cat(p, q) \in Seq(S) /\ Len(Cat(p, q)) = 2
    BY <1>1, ConcatProperties DEF Cat
  <2>2. Len(<<>>) = 0
    OBVIOUS
  <2> QED
    BY <2>1, <2>2
<1>2. <<a>> \in Seq(S) /\ Len(<<a>>) = 1 /\ <<b>> \in Seq(S) /\ Len(<<b>>) = 1
  OBVIOUS
<1> QED
  BY <1>1, <1>2, Zenon

LEMMA StepSeed ==
  ASSUME SynthInv, SeedInstance, UNCHANGED <<src, wit>>
  PROVE  SynthInv' /\ KFollows
<1>1. CASE CStop("bad_witness") \/ CStop("misaligned")
  BY <1>1, InvStop, StopStutters DEF SeedInstance, CStopped, WitnessStops
<1>2. CASE /\ src.comm => wit.comm # <<>>
           /\ cpis' = <<wit.binding>> \o (IF src.comm THEN <<wit.comm[1]>> ELSE <<>>)
           /\ cstatus' = "synthesizing" /\ cpc' = 1 /\ UNCHANGED <<cells, couts>>
  <2>1. cstatus = "assigning" /\ cpc > Len(src.inputs)
    BY DEF SeedInstance
  <2>2. cpis' \in Seq(Immediates) /\ cpis' # <<>> /\ Len(cpis') = IF src.comm THEN 2 ELSE 1
    <3>1. wit.binding \in Immediates /\ wit.comm \in Seq(Immediates) /\ Len(wit.comm) \in {0, 2}
      BY DEF SynthInv, WitnessOK
    <3>2. CASE src.comm
      <4>1. wit.comm[1] \in Immediates
        BY <1>2, <3>1, <3>2, EmptySeq
      <4>2. cpis' = Cat(<<wit.binding>>, <<wit.comm[1]>>)
        BY <1>2, <3>2 DEF Cat
      <4> QED
        BY <3>1, <3>2, <4>1, <4>2, JoinOnes
    <3>3. CASE ~src.comm
      <4>1. cpis' = <<wit.binding>>
        BY <1>2, <3>1, <3>3
      <4> QED
        BY <3>1, <3>3, <4>1
    <3> QED
      BY <3>2, <3>3
  <2>3. SynthInv'
    BY <1>2, <2>2 DEF SynthInv, SourceOK, WitnessOK, InstanceOK, CellsOK, MemoryTyped, CStatuses
  <2>4. K!KSeedInstance
    BY <1>2, <2>1, <2>2 DEF K!KSeedInstance, WitnessStops
  <2> QED
    BY <2>3, <2>4 DEF KFollows, K!KStep
<1> QED
  BY <1>1, <1>2 DEF SeedInstance

------------------------------------------------------------------------------
\* The instruction synthesis is at, and what key generation sees of its operands.
LEMMA Fetched ==
  ASSUME SynthInv, NEW ops, CFetch(ops)
  PROVE  /\ CInstr \in Instruction /\ WellShaped(CInstr) /\ CInstr.op \in ops
         /\ CInstr.args \in Seq(Operand) /\ CInstr.outs \in Seq(Identifier)
         /\ CInstr.ty \in IrType /\ cpc \in DOMAIN src.code
         /\ cstatus = "synthesizing" /\ K!KFetch(ops) /\ K!KInstr = CInstr
<1>1. src.code \in Seq(Instruction) /\ \A i \in DOMAIN src.code : WellShaped(src.code[i])
  BY DEF SynthInv, SourceOK, Source
<1>2. cpc \in DOMAIN src.code
  BY <1>1, LenProperties DEF SynthInv, CFetch
<1>3. CInstr \in Instruction
  BY <1>1, <1>2, ElementOfSeq, LenProperties DEF CInstr
<1>4. K!KFetch(ops) /\ K!KInstr = CInstr /\ cstatus = "synthesizing"
  BY DEF CFetch, K!KFetch, K!KInstr, CInstr, WitnessStops
<1> QED
  BY <1>1, <1>2, <1>3, <1>4 DEF CInstr, CFetch, Instruction

LEMMA SameOperands ==
  ASSUME K!KInstr = CInstr, CInstr.args \in Seq(Operand)
  PROVE  /\ K!Bound <=> AllResolvable(cells, CInstr.args)
         /\ AllResolvable(cells, CInstr.args) => K!KTypes = OperandTypes
<1>1. K!Bound <=> AllResolvable(cells, CInstr.args)
  BY DEF K!Bound, AllResolvable, K!Resolvable, Resolvable
<1>2. ASSUME AllResolvable(cells, CInstr.args), NEW i \in DOMAIN CInstr.args
      PROVE  K!KTypeOf(CInstr.args[i]) = Resolve(cells, CInstr.args[i]).ty
  <2>1. PICK o \in Operand : o = CInstr.args[i]
    BY LenProperties, ElementOfSeq
  <2>2. o[1] = "imm" \/ (o[1] # "imm" /\ o[2] \in DOMAIN cells)
    BY <1>2, <2>1 DEF AllResolvable, Resolvable, Operand
  <2>3. K!KTypeOf(o) = Resolve(cells, o).ty
    BY <2>2 DEF Resolve, K!KTypeOf, Fr, V, Native, K!Native
  <2> QED
    BY <2>1, <2>3
<1> QED
  BY <1>1, <1>2 DEF K!KTypes, OperandTypes, Operands, TypesOf, ResolveAll

LEMMA OperandsFit ==
  ASSUME SynthInv, CInstr.args \in Seq(Operand), AllResolvable(cells, CInstr.args)
  PROVE  AllTyped(Operands) /\ DOMAIN Operands = 1..Len(CInstr.args)
BY OperandsAre DEF SynthInv, CellsOK, Operands

LEMMA SameOps == K!ValueOps = ValueOps
BY DEF K!ValueOps, ValueOps, K!HashOps, HashOps

LEMMA StepGate ==
  ASSUME GadgetsTyped, SynthInv, Gate, UNCHANGED <<src, wit>>
  PROVE  SynthInv' /\ KFollows
<1>1. /\ CInstr \in Instruction /\ WellShaped(CInstr) /\ CInstr.op \in ValueOps
      /\ CInstr.args \in Seq(Operand) /\ CInstr.outs \in Seq(Identifier)
      /\ cstatus = "synthesizing" /\ K!KFetch(ValueOps) /\ K!KInstr = CInstr
  BY Fetched DEF Gate
<1>2. /\ K!Bound <=> AllResolvable(cells, CInstr.args)
      /\ AllResolvable(cells, CInstr.args) => K!KTypes = OperandTypes
  BY <1>1, SameOperands
<1>3. ASSUME NEW s \in CStopped, CStop(s)
      PROVE  SynthInv'
  BY <1>3, InvStop
<1>4. CASE CStop("failed") /\ (AllResolvable(cells, CInstr.args) => Shape(CInstr, OperandTypes) = {})
  <2>1. SynthInv' /\ K!KStop("failed")
    BY <1>3, <1>4, StopFollows DEF CStopped
  <2>2. K!KGate
    BY <1>1, <1>2, <1>4, <2>1, SameShape, SameOps DEF K!KGate
  <2> QED
    BY <2>1, <2>2 DEF KFollows, K!KStep
<1>5. ASSUME NEW tys, AllResolvable(cells, CInstr.args), tys \in Shape(CInstr, OperandTypes),
             CStop("no_chip"), ~ChipsFor(src, tys)
      PROVE  SynthInv' /\ KFollows
  <2>1. SynthInv' /\ K!KStop("no_chip")
    BY <1>3, <1>5, StopFollows DEF CStopped
  <2>2. K!KGate
    BY <1>1, <1>2, <1>5, <2>1, SameShape, SameOps, SameChips DEF K!KGate
  <2> QED
    BY <2>1, <2>2 DEF KFollows, K!KStep
<1>6. CASE CStop("unsatisfied") \/ CStop("misaligned")
  BY <1>1, <1>3, <1>6, StopStutters DEF WitnessStops, CStopped
<1>7. ASSUME NEW tys, AllResolvable(cells, CInstr.args), tys \in Shape(CInstr, OperandTypes),
             ChipsFor(src, tys), Holds(CInstr, Operands),
             cells' = Bind(cells, CInstr.outs, Cells(CInstr, Operands)),
             cpc' = cpc + 1, UNCHANGED <<cstatus, cpis, couts>>
      PROVE  SynthInv' /\ KFollows
  <2>1. /\ MemoryTyped(cells') /\ TypeMap(cells') = Bind(TypeMap(cells), CInstr.outs, tys)
    BY <1>1, <1>7, GateTyped DEF SynthInv, CellsOK, Operands, OperandTypes
  <2>2. DOMAIN cells' \subseteq Identifier
    <3>1. DOMAIN cells' = DOMAIN cells \cup ToSet(CInstr.outs)
      BY <1>7, BindProperties
    <3>2. ToSet(CInstr.outs) \subseteq Identifier
      BY <1>1, ToSetSubset
    <3> QED
      BY <3>1, <3>2 DEF SynthInv, CellsOK
  <2>3. SynthInv'
    BY <1>7, <2>1, <2>2 DEF SynthInv, SourceOK, WitnessOK, InstanceOK, CellsOK, MemoryTyped
  <2>4. K!KGate
    BY <1>1, <1>2, <1>7, <2>1, SameShape, SameOps, SameChips, SameBind
       DEF K!KGate, TypeMap, WitnessStops
  <2> QED
    BY <2>3, <2>4 DEF KFollows, K!KStep
<1> QED
  BY <1>4, <1>5, <1>6, <1>7 DEF Gate

LEMMA StepRead ==
  ASSUME SynthInv, WitnessRead, UNCHANGED <<src, wit>>
  PROVE  SynthInv' /\ KFollows
<1> DEFINE id == CInstr.outs[1]
           ops == {"PublicInput", "PrivateInput"}
<1>1. /\ CInstr.ty \in IrType /\ CInstr.outs \in Seq(Identifier) /\ Len(CInstr.outs) = 1
      /\ cstatus = "synthesizing" /\ K!KFetch(ops) /\ K!KInstr = CInstr
  BY Fetched, ReadShape DEF WitnessRead
<1>2. CASE CStop("bad_witness")
  BY <1>1, <1>2, InvStop, StopStutters DEF CStopped, WitnessStops
<1>3. CASE /\ id \in DOMAIN wit.memory /\ wit.memory[id].ty = CInstr.ty
           /\ cells' = Bind(cells, CInstr.outs, <<wit.memory[id]>>)
           /\ cpc' = cpc + 1 /\ UNCHANGED <<cstatus, cpis, couts>>
  <2>1. Is(wit.memory[id], CInstr.ty)
    BY <1>1, <1>3, WitnessTyped DEF SynthInv
  <2>2. CellsOK' /\ TypeMap(cells') = Bind(TypeMap(cells), CInstr.outs, <<CInstr.ty>>)
    BY <1>1, <1>3, <2>1, BindOne DEF SynthInv
  <2>3. SynthInv'
    BY <1>3, <2>2 DEF SynthInv, SourceOK, WitnessOK, InstanceOK
  <2>4. K!KRead
    BY <1>1, <1>3, <2>2, SameBind DEF K!KRead, TypeMap, WitnessStops
  <2> QED
    BY <2>3, <2>4 DEF KFollows, K!KStep
<1> QED
  BY <1>2, <1>3 DEF WitnessRead

LEMMA StepImpact ==
  ASSUME SynthInv, PushImpact, UNCHANGED <<src, wit>>
  PROVE  SynthInv' /\ KFollows
<1> DEFINE native == AllResolvable(cells, CInstr.args) /\ AllFr(Operands)
           rest == Tail(Operands)
           pushed == [i \in DOMAIN rest |-> IF Head(Operands).val = 1 THEN rest[i].val ELSE 0]
<1>1. /\ WellShaped(CInstr) /\ CInstr.op = "Impact" /\ CInstr.args \in Seq(Operand)
      /\ CInstr.args # <<>>
      /\ cstatus = "synthesizing" /\ K!KFetch({"Impact"}) /\ K!KInstr = CInstr
  BY Fetched DEF PushImpact, WellShaped
<1>2. native <=> K!Bound /\ K!AllOf(K!KTypes, K!Native)
  <2>1. K!Bound <=> AllResolvable(cells, CInstr.args)
    BY <1>1, SameOperands
  <2>2. ASSUME AllResolvable(cells, CInstr.args)
        PROVE  AllFr(Operands) <=> K!AllOf(K!KTypes, K!Native)
    <3>1. K!KTypes = TypesOf(Operands)
      BY <1>1, <2>2, SameOperands DEF OperandTypes
    <3> QED
      BY <3>1 DEF AllFr, IsFr, K!AllOf, K!Native, Native, TypesOf
  <2> QED
    BY <2>1, <2>2
<1>3. CASE CStop("failed") /\ ~native
  <2>1. SynthInv' /\ K!KStop("failed")
    BY <1>3, InvStop, StopFollows DEF CStopped
  <2>2. K!KImpact
    BY <1>1, <1>2, <1>3, <2>1 DEF K!KImpact
  <2> QED
    BY <2>1, <2>2 DEF KFollows, K!KStep
<1>4. CASE CStop("unsatisfied") \/ CStop("misaligned")
  BY <1>1, <1>4, InvStop, StopStutters DEF CStopped, WitnessStops
<1>5. CASE /\ native /\ cpis' = cpis \o pushed
           /\ cpc' = cpc + 1 /\ UNCHANGED <<cstatus, cells, couts>>
  <2>1. /\ Operands \in Seq(TypedValue) /\ Len(Operands) = Len(CInstr.args)
    BY <1>1, <1>5, OperandsAreSeq DEF SynthInv, CellsOK, Operands
  <2>2. Operands # <<>> /\ Len(CInstr.args) \in Nat \ {0}
    BY <1>1, <2>1, EmptySeq, LenProperties
  <2>3. /\ rest \in Seq(TypedValue) /\ Len(rest) = Len(Operands) - 1
        /\ \A i \in 1..Len(rest) : rest[i] = Operands[i + 1]
    BY <2>1, <2>2, HeadTailProperties
  <2>4. PICK n \in Nat : n = Len(rest) /\ n = Len(CInstr.args) - 1
    BY <2>1, <2>2, <2>3
  <2>5. DOMAIN rest = 1..n /\ DOMAIN Operands = 1..n + 1
    BY <2>1, <2>2, <2>3, <2>4, LenProperties
  <2>6. \A i \in 1..n : rest[i].val \in Immediates
    <3> SUFFICES ASSUME NEW i \in 1..n PROVE rest[i].val \in Immediates
      OBVIOUS
    <3>1. rest[i] = Operands[i + 1] /\ i + 1 \in DOMAIN Operands
      BY <2>3, <2>4, <2>5
    <3>2. Typed(Operands[i + 1]) /\ Operands[i + 1].ty = Native
      BY <1>5, <2>1, <3>1, TypedIsValue, ElementOfSeq, LenProperties DEF AllFr, IsFr
    <3> QED
      BY <3>1, <3>2, FrRange
  <2>7. 0 \in Immediates
    BY Constants DEF Immediates
  <2>8. pushed \in Seq(Immediates) /\ Len(pushed) = n
    <3>1. \A i \in 1..n : pushed[i] \in Immediates
      BY <2>5, <2>6, <2>7
    <3>2. pushed \in [1..n -> Immediates]
      BY <2>5, <3>1
    <3> HIDE DEF pushed
    <3>3. pushed \in Seq(Immediates)
      BY <3>2, SeqDef
    <3> QED
      BY <3>2, <3>3
  <2>9. Len(ImpactInputs(CInstr)) = n /\ K!ImpactInputs(CInstr) = ImpactInputs(CInstr)
    BY <1>1, <2>4, HeadTailProperties DEF ImpactInputs, K!ImpactInputs
  <2> HIDE DEF pushed
  <2>10. cpis' \in Seq(Immediates) /\ Len(cpis') = Len(cpis) + n /\ cpis' # <<>>
    <3>1. cpis' \in Seq(Immediates) /\ Len(cpis') = Len(cpis) + n
      BY <1>5, <2>8, ConcatProperties DEF SynthInv, InstanceOK
    <3>2. Len(cpis) \in Nat \ {0}
      BY <1>1, EmptySeq, LenProperties DEF SynthInv, InstanceOK
    <3> QED
      BY <3>1, <3>2, EmptySeq
  <2>11. SynthInv'
    BY <1>5, <1>1, <2>10 DEF SynthInv, SourceOK, WitnessOK, InstanceOK, CellsOK, MemoryTyped
  <2>12. K!KImpact
    BY <1>1, <1>2, <1>5, <2>9, <2>10 DEF K!KImpact, WitnessStops
  <2> QED
    BY <2>11, <2>12 DEF KFollows, K!KStep
<1> QED
  BY <1>3, <1>4, <1>5 DEF PushImpact

LEMMA TypesOfConcat ==
  ASSUME NEW S, NEW s \in Seq(S), NEW t \in Seq(S)
  PROVE  TypesOf(s \o t) = TypesOf(s) \o TypesOf(t)
<1>1. PICK m \in Nat, n \in Nat : m = Len(s) /\ n = Len(t)
  BY LenProperties
<1>2. DOMAIN s = 1..m /\ DOMAIN t = 1..n
  BY <1>1, LenProperties
<1>3. /\ DOMAIN (s \o t) = 1..m + n
      /\ \A i \in 1..m + n : (s \o t)[i] = IF i <= m THEN s[i] ELSE t[i - m]
  BY <1>1, ConcatProperties, LenProperties
<1> DEFINE tys == {s[i].ty : i \in 1..m} \cup {t[i].ty : i \in 1..n}
<1>4. /\ TypesOf(s) \in [1..m -> tys] /\ TypesOf(t) \in [1..n -> tys]
      /\ TypesOf(s \o t) = [i \in 1..m + n |-> IF i <= m THEN s[i].ty ELSE t[i - m].ty]
  BY <1>2, <1>3 DEF TypesOf
<1> HIDE DEF tys
<1>5. PICK u, v, w : u = TypesOf(s) /\ v = TypesOf(t) /\ w = TypesOf(s \o t)
  OBVIOUS
<1>6. u \in Seq(tys) /\ v \in Seq(tys) /\ Len(u) = m /\ Len(v) = n
  BY <1>4, <1>5, SeqDef
<1>7. /\ u \o v \in Seq(tys) /\ Len(u \o v) = m + n
      /\ \A i \in 1..m + n : (u \o v)[i] = IF i <= m THEN u[i] ELSE v[i - m]
  BY <1>6, ConcatProperties
<1>8. \A i \in 1..m + n : w[i] = IF i <= m THEN u[i] ELSE v[i - m]
  <2>1. \A i \in 1..m : u[i] = s[i].ty
    BY <1>2, <1>5 DEF TypesOf
  <2>2. \A i \in 1..n : v[i] = t[i].ty
    BY <1>2, <1>5 DEF TypesOf
  <2> QED
    BY <1>4, <1>5, <2>1, <2>2
<1>9. PICK x \in Seq(tys) : x = u \o v
  BY <1>7
<1>10. DOMAIN x = 1..m + n /\ x = [i \in 1..m + n |-> x[i]]
  BY <1>7, <1>9, LenProperties
<1>11. w = [i \in 1..m + n |-> w[i]]
  BY <1>4, <1>5
<1>12. \A i \in 1..m + n : w[i] = x[i]
  BY <1>7, <1>8, <1>9
<1>13. w = x
  BY <1>10, <1>11, <1>12
<1> QED
  BY <1>5, <1>9, <1>13

LEMMA StepOutput ==
  ASSUME SynthInv, OutputCells, UNCHANGED <<src, wit>>
  PROVE  SynthInv' /\ KFollows
<1> DEFINE typed == /\ Len(CInstr.args) = Len(src.outputs)
                    /\ AllResolvable(cells, CInstr.args) /\ OperandTypes = src.outputs
<1>1. /\ CInstr.args \in Seq(Operand)
      /\ cstatus = "synthesizing" /\ K!KFetch({"Output"}) /\ K!KInstr = CInstr
  BY Fetched DEF OutputCells
<1>2. typed <=> Len(K!KInstr.args) = Len(src.outputs) /\ K!Bound /\ K!KTypes = src.outputs
  BY <1>1, SameOperands
<1>3. CASE CStop("failed") /\ ~typed
  <2>1. SynthInv' /\ K!KStop("failed")
    BY <1>3, InvStop, StopFollows DEF CStopped
  <2>2. K!KOutput
    BY <1>1, <1>2, <1>3, <2>1 DEF K!KOutput
  <2> QED
    BY <2>1, <2>2 DEF KFollows, K!KStep
<1>4. CASE /\ typed /\ couts' = couts \o Operands
           /\ cpc' = cpc + 1 /\ UNCHANGED <<cstatus, cells, cpis>>
  <2>1. Operands \in Seq(TypedValue)
    BY <1>1, <1>4, OperandsAreSeq DEF SynthInv, CellsOK, Operands
  <2>2. couts \in Seq(TypedValue)
    BY DEF SynthInv
  <2>3. couts' \in Seq(TypedValue)
    BY <1>4, <2>1, <2>2, ConcatProperties
  <2>4. TypesOf(couts') = TypesOf(couts) \o K!KTypes
    <3>1. K!KTypes = TypesOf(Operands)
      BY <1>1, <1>4, SameOperands DEF OperandTypes
    <3> QED
      BY <1>4, <2>1, <2>2, <3>1, TypesOfConcat
  <2>5. SynthInv'
    BY <1>4, <2>3 DEF SynthInv, SourceOK, WitnessOK, InstanceOK, CellsOK, MemoryTyped
  <2>6. K!KOutput
    BY <1>1, <1>2, <1>4, <2>4 DEF K!KOutput, WitnessStops
  <2> QED
    BY <2>5, <2>6 DEF KFollows, K!KStep
<1> QED
  BY <1>3, <1>4 DEF OutputCells

LEMMA StepConstrain ==
  ASSUME SynthInv, ConstrainInstance, UNCHANGED <<src, wit>>
  PROVE  SynthInv' /\ KFollows
<1>1. cstatus = "synthesizing" /\ cpc > Len(src.code)
  BY DEF ConstrainInstance
<1>2. CASE CStop("unsatisfied")
  BY <1>1, <1>2, InvStop, StopStutters DEF CStopped, WitnessStops
<1>3. CASE CStop("satisfied")
  <2>1. SynthInv'
    BY <1>3, InvStop DEF CStopped
  <2>2. K!KConstrain
    BY <1>1, <1>3 DEF K!KConstrain, K!KStop, CStop, WitnessStops
  <2> QED
    BY <2>1, <2>2 DEF KFollows, K!KStep
<1> QED
  BY <1>2, <1>3 DEF ConstrainInstance

------------------------------------------------------------------------------
(* Refinement.                                                               *)

LEMMA SynthInit == StInit => SynthInv /\ K!KInit
<1> SUFFICES ASSUME StInit PROVE SynthInv /\ K!KInit
  OBVIOUS
<1>1. SourceOK /\ WitnessOK
  BY ClaimsAssumption DEF StInit, SourceOK, WitnessOK
<1>2. /\ cstatus = "assigning" /\ cpc = 1 /\ cells = EmptyMemory /\ cpis = <<>> /\ couts = <<>>
  BY DEF StInit, CInit
<1>3. DOMAIN cells = {}
  BY <1>2 DEF EmptyMemory
<1>4. SynthInv
  BY <1>1, <1>2, <1>3, EmptySeq DEF SynthInv, CStatuses, CellsOK, MemoryTyped, InstanceOK
<1>5. K!KInit
  BY <1>2, <1>3 DEF K!KInit, WitnessStops, TypesOf
<1> QED
  BY <1>4, <1>5

LEMMA SynthStep ==
  ASSUME GadgetsTyped, SynthInv, CStep, UNCHANGED <<src, wit>>
  PROVE  SynthInv' /\ KFollows
BY StepAssign, StepSeed, StepGate, StepRead, StepImpact, StepOutput, StepConstrain DEF CStep

LEMMA SynthRests ==
  ASSUME SynthInv, UNCHANGED <<src, wit, cvars>>
  PROVE  SynthInv' /\ UNCHANGED <<src, K!kvars>>
BY DEF SynthInv, SourceOK, WitnessOK, CellsOK, MemoryTyped, InstanceOK, cvars, K!kvars

LEMMA SynthNext ==
  ASSUME GadgetsTyped, SynthInv, [StNext]_stVars
  PROVE  SynthInv' /\ [K!KStep]_<<src, K!kvars>>
<1>1. CASE Unchecked
  BY <1>1, SynthStep DEF Unchecked, KFollows
<1>2. CASE Replay \/ Rest \/ UNCHANGED stVars
  <2>1. UNCHANGED <<src, wit, cvars>>
    BY <1>2 DEF Replay, Rest, stVars, cvars
  <2> QED
    BY <2>1, SynthRests
<1> QED
  BY <1>1, <1>2 DEF StNext

\* For every source and whatever the caller puts in the witness: the circuit
\* synthesised over it is the one the keys were made for, step by step.
THEOREM EveryWitnessFitsKeys == GadgetsTyped => (StSpec => AnyWitnessFitsKeys)
<1> SUFFICES ASSUME GadgetsTyped PROVE StSpec => K!KSpec
  BY DEF AnyWitnessFitsKeys
<1>1. SynthInv /\ [StNext]_stVars => SynthInv' /\ [K!KStep]_<<src, K!kvars>>
  BY SynthNext
<1> QED
  BY SynthInit, <1>1, PTL DEF StSpec, K!KSpec

------------------------------------------------------------------------------
(* The names that are bound when synthesis has come to cpc.                  *)

CellsBound ==
  /\ cstatus = "assigning" =>
       \A i \in DOMAIN src.inputs : i < cpc => src.inputs[i].name \in DOMAIN cells
  /\ cstatus \in {"synthesizing", "satisfied"} =>
       /\ \A i \in DOMAIN src.inputs : src.inputs[i].name \in DOMAIN cells
       /\ \A k \in DOMAIN src.code : k < cpc => ToSet(src.code[k].outs) \subseteq DOMAIN cells
  /\ cstatus = "satisfied" => cpc > Len(src.code)

LEMMA BoundStop ==
  ASSUME CellsBound, src' = src, NEW s \in CStopped \ {"satisfied"}, CStop(s)
  PROVE  CellsBound'
BY DEF CellsBound, CStop, CStopped, WitnessStops

\* The next instruction, whatever it makes of the public inputs and outputs.
LEMMA BoundAdvance ==
  ASSUME SynthInv, CellsBound, src' = src, cstatus = "synthesizing", cstatus' = cstatus,
         cpc \in DOMAIN src.code, cpc' = cpc + 1,
         DOMAIN cells' = DOMAIN cells \cup ToSet(src.code[cpc].outs)
  PROVE  CellsBound'
<1>1. \A k \in DOMAIN src.code : k < cpc + 1 => k < cpc \/ k = cpc
  BY LenProperties DEF SynthInv, SourceOK, Source
<1> QED
  BY <1>1 DEF CellsBound

LEMMA BoundFetch ==
  ASSUME SynthInv, CellsBound, src' = src, NEW ops, CFetch(ops), cstatus' = cstatus,
         cpc' = cpc + 1, NEW vals, cells' = Bind(cells, CInstr.outs, vals)
  PROVE  CellsBound'
<1>1. cpc \in DOMAIN src.code /\ cstatus = "synthesizing"
  BY Fetched
<1>2. DOMAIN cells' = DOMAIN cells \cup ToSet(src.code[cpc].outs)
  BY BindProperties DEF CInstr
<1> QED
  BY <1>1, <1>2, BoundAdvance

LEMMA BoundSilent ==
  ASSUME SynthInv, CellsBound, src' = src, NEW ops, ops \subseteq {"Impact", "Output"},
         CFetch(ops), cstatus' = cstatus, cpc' = cpc + 1, cells' = cells
  PROVE  CellsBound'
<1>1. cpc \in DOMAIN src.code /\ cstatus = "synthesizing" /\ CInstr.outs = <<>>
  BY Fetched, NoOutputShape
<1>2. ToSet(<<>>) = {}
  BY DEF ToSet
<1> QED
  BY <1>1, <1>2, BoundAdvance DEF CInstr

LEMMA BoundAssign ==
  ASSUME SynthInv, CellsBound, AssignInput, src' = src
  PROVE  CellsBound'
<1>1. CASE CStop("bad_witness")
  BY <1>1, BoundStop DEF CStopped, WitnessStops
<1>2. CASE /\ cpc' = cpc + 1 /\ cstatus' = cstatus
           /\ \E v : cells' = Bind(cells, <<src.inputs[cpc].name>>, <<v>>)
  <2>1. PICK v : cells' = Bind(cells, <<src.inputs[cpc].name>>, <<v>>)
    BY <1>2
  <2>2. DOMAIN cells' = DOMAIN cells \cup ToSet(<<src.inputs[cpc].name>>)
    BY <2>1, BindProperties
  <2>3. src.inputs[cpc].name \in ToSet(<<src.inputs[cpc].name>>)
    BY DEF ToSet
  <2>4. \A i \in DOMAIN src.inputs : i < cpc + 1 => i < cpc \/ i = cpc
    BY LenProperties DEF SynthInv, SourceOK, Source
  <2>5. cstatus = "assigning"
    BY DEF AssignInput
  <2> QED
    BY <1>2, <2>2, <2>3, <2>4, <2>5 DEF CellsBound
<1> QED
  BY <1>1, <1>2 DEF AssignInput

LEMMA BoundSeed ==
  ASSUME SynthInv, CellsBound, SeedInstance, src' = src
  PROVE  CellsBound'
<1>1. CASE CStop("bad_witness") \/ CStop("misaligned")
  BY <1>1, BoundStop DEF CStopped, WitnessStops
<1>2. CASE cstatus' = "synthesizing" /\ cpc' = 1 /\ cells' = cells
  <2>1. \A i \in DOMAIN src.inputs : i < cpc
    BY LenProperties DEF SynthInv, SourceOK, Source, SeedInstance
  <2>2. \A k \in DOMAIN src.code : ~(k < 1)
    BY LenProperties DEF SynthInv, SourceOK, Source
  <2>3. cstatus = "assigning"
    BY DEF SeedInstance
  <2> QED
    BY <1>2, <2>1, <2>2, <2>3 DEF CellsBound
<1> QED
  BY <1>1, <1>2 DEF SeedInstance

LEMMA BoundConstrain ==
  ASSUME SynthInv, CellsBound, ConstrainInstance, src' = src
  PROVE  CellsBound'
<1>1. CASE CStop("unsatisfied")
  BY <1>1, BoundStop DEF CStopped, WitnessStops
<1>2. CASE CStop("satisfied")
  BY <1>2 DEF ConstrainInstance, CStop, CellsBound
<1> QED
  BY <1>1, <1>2 DEF ConstrainInstance

LEMMA BoundStep ==
  ASSUME SynthInv, CellsBound, CStep, src' = src
  PROVE  CellsBound'
<1>1. ASSUME NEW s \in CStopped \ {"satisfied"}, CStop(s)
      PROVE  CellsBound'
  BY <1>1, BoundStop
<1>2. CASE Gate
  <2>1. CFetch(ValueOps)
    BY <1>2 DEF Gate
  <2>2. \/ CStop("failed") \/ CStop("no_chip") \/ CStop("unsatisfied") \/ CStop("misaligned")
        \/ /\ \E vals : cells' = Bind(cells, CInstr.outs, vals)
           /\ cpc' = cpc + 1 /\ cstatus' = cstatus
    BY <1>2 DEF Gate
  <2> QED
    BY <1>1, <2>1, <2>2, BoundFetch DEF CStopped, WitnessStops
<1>3. CASE WitnessRead
  <2>1. CFetch({"PublicInput", "PrivateInput"})
    BY <1>3 DEF WitnessRead
  <2>2. \/ CStop("bad_witness")
        \/ /\ \E vals : cells' = Bind(cells, CInstr.outs, vals)
           /\ cpc' = cpc + 1 /\ cstatus' = cstatus
    BY <1>3 DEF WitnessRead
  <2> QED
    BY <1>1, <2>1, <2>2, BoundFetch DEF CStopped, WitnessStops
<1>4. CASE PushImpact \/ OutputCells
  <2>1. CFetch({"Impact"}) \/ CFetch({"Output"})
    BY <1>4 DEF PushImpact, OutputCells
  <2>2. \/ CStop("failed") \/ CStop("unsatisfied") \/ CStop("misaligned")
        \/ cpc' = cpc + 1 /\ cstatus' = cstatus /\ cells' = cells
    BY <1>4 DEF PushImpact, OutputCells
  <2> QED
    BY <1>1, <2>1, <2>2, BoundSilent DEF CStopped, WitnessStops
<1> QED
  BY <1>2, <1>3, <1>4, BoundAssign, BoundSeed, BoundConstrain DEF CStep

------------------------------------------------------------------------------
(* The run on the extract reads the same definitions.                        *)

LEMMA SameOffGate ==
  ASSUME NEW ins, NEW a
  PROVE  R!OffGate(ins, a) = OffGate(ins, a)
BY SMTT(30) DEF ByteBase, R!ByteBase, TopBit, R!TopBit, Native, R!Native, Bool, R!Bool, Byte, R!Byte,
  Bytes, R!Bytes, Point, R!Point, Scalar, R!Scalar, Base, R!Base, PrimeFields,
  R!PrimeFields, Points, R!Points, Order, R!Order, V, R!V, Fr, R!Fr, BytesV, R!BytesV,
  FrSeq, R!FrSeq, Payloads, R!Payloads, IsFr, R!IsFr, IsBytes, R!IsBytes, IsBit, R!IsBit,
  AllFr, R!AllFr, AllBool, R!AllBool, IsPoint, R!IsPoint, ToBit, R!ToBit, LeBytes,
  R!LeBytes, Total, R!Total, LeInt, R!LeInt, DivCeil, R!DivCeil, ChunkAt, R!ChunkAt, Chunks,
  R!Chunks, encoded_len, R!encoded_len, Limbs, R!Limbs, FromLimbs, R!FromLimbs, EncodePoint,
  R!EncodePoint, Encode, R!Encode, Some, R!Some, ChunkBytes, R!ChunkBytes, decode_bytes,
  R!decode_bytes, PointFromRaw, R!PointFromRaw, FromPublicInput, R!FromPublicInput, Decode,
  R!Decode, CompressEdwards, R!CompressEdwards, CompressSec1, R!CompressSec1, ZeroBytes,
  R!ZeroBytes, PointToBytes, R!PointToBytes, PointBytesLen, R!PointBytesLen, PointFromBytes,
  R!PointFromBytes, HasBytes, R!HasBytes, ToBytes, R!ToBytes, Coordinates, R!Coordinates,
  PointAt, R!PointAt, Nothing, R!Nothing, FitsBits, R!FitsBits, SplitBits, R!SplitBits,
  AddTypes, R!AddTypes, AddOff, R!AddOff, MulOff, R!MulOff, NegOff, R!NegOff, Inverses,
  R!Inverses, InvOff, R!InvOff, NotOff, R!NotOff, BoolList, R!BoolList, AndOff, R!AndOff,
  OrOff, R!OrOff, Parity, R!Parity, XorOff, R!XorOff, ConstrainEqOff, R!ConstrainEqOff,
  TestEqOff, R!TestEqOff, CondSelectOff, R!CondSelectOff, AssertOff, R!AssertOff,
  ConstrainToBooleanOff, R!ConstrainToBooleanOff, ConstrainBitsOff, R!ConstrainBitsOff,
  LessThanOff, R!LessThanOff, DivModPowerOfTwoOff, R!DivModPowerOfTwoOff,
  ReconstituteFieldOff, R!ReconstituteFieldOff, JubjubScalarFromNativeOff,
  R!JubjubScalarFromNativeOff, TransientHashOff, R!TransientHashOff, HashToCurveOff,
  R!HashToCurveOff, EcMulOff, R!EcMulOff, EcMulGeneratorOff, R!EcMulGeneratorOff,
  IntoCoordinatesOff, R!IntoCoordinatesOff, FromCoordinatesOff, R!FromCoordinatesOff,
  ToBytesOff, R!ToBytesOff, IsBytes32, R!IsBytes32, IntoBytes32Off, R!IntoBytes32Off,
  DecodeBytes, R!DecodeBytes, FromBytesOff, R!FromBytesOff, FromBytes32Off,
  R!FromBytes32Off, ReverseOff, R!ReverseOff, SliceOff, R!SliceOff, NthOff, R!NthOff,
  ByteString, R!ByteString, ConcatOff, R!ConcatOff, EncodeOff, R!EncodeOff,
  BytesIntoNativesOff, R!BytesIntoNativesOff, LimbsMatch, R!LimbsMatch, BytesFromNativesOff,
  R!BytesFromNativesOff, Bytes32IntoLowHighOff, R!Bytes32IntoLowHighOff,
  Bytes32FromLowHighOff, R!Bytes32FromLowHighOff, HashOps, R!HashOps, Width, R!Width,
  SegmentBytes, R!SegmentBytes, TakeSegment, R!TakeSegment, parse_field_repr,
  R!parse_field_repr, ByteHashOff, R!ByteHashOff, LoadConstantOff, R!LoadConstantOff,
  CopyOff, R!CopyOff, OffGate, R!OffGate

LEMMA SameDecode ==
  ASSUME NEW enc, NEW t
  PROVE  R!Decode(enc, t) = Decode(enc, t)
BY DEF ByteBase, R!ByteBase, Native, R!Native, Bool, R!Bool, Byte, R!Byte, Bytes, R!Bytes,
  Scalar, R!Scalar, Order, R!Order, V, R!V, Fr, R!Fr, LeBytes, R!LeBytes, Total, R!Total,
  LeInt, R!LeInt, DivCeil, R!DivCeil, ChunkAt, R!ChunkAt, Chunks, R!Chunks, encoded_len,
  R!encoded_len, Limbs, R!Limbs, FromLimbs, R!FromLimbs, EncodePoint, R!EncodePoint, Encode,
  R!Encode, Some, R!Some, ChunkBytes, R!ChunkBytes, decode_bytes, R!decode_bytes,
  PointFromRaw, R!PointFromRaw, FromPublicInput, R!FromPublicInput, Decode, R!Decode

LEMMA SameLength ==
  ASSUME NEW t
  PROVE  R!encoded_len(t) = encoded_len(t)
BY DEF Native, R!Native, Bool, R!Bool, Byte, R!Byte, Scalar, R!Scalar, DivCeil, R!DivCeil,
  encoded_len, R!encoded_len

LEMMA SameDefault ==
  ASSUME NEW t
  PROVE  R!Default(t) = Default(t)
BY DEF Bytes, R!Bytes, BytesTypes, R!BytesTypes, V, R!V, Default, R!Default

LEMMA SameMemory ==
  ASSUME NEW m, NEW os, NEW ids, NEW vals
  PROVE  /\ R!ResolveAll(m, os) = ResolveAll(m, os)
         /\ R!AllResolvable(m, os) = AllResolvable(m, os)
         /\ R!Bind(m, ids, vals) = Bind(m, ids, vals)
BY DEF ResolveAll, R!ResolveAll, Resolve, R!Resolve, AllResolvable, R!AllResolvable,
  Resolvable, R!Resolvable, Bind, R!Bind, ToSet, R!ToSet, Fr, R!Fr, V, R!V, Native, R!Native

------------------------------------------------------------------------------
(* The extract.                                                              *)

LEMMA FlattenMapped ==
  ASSUME NEW n \in Nat, NEW f, DOMAIN f = 1..n, f = [i \in 1..n |-> f[i]],
         \A i \in 1..n : f[i] \in Seq(Immediates)
  PROVE  FlattenSeq(f) \in Seq(Immediates)
<1>1. f \in [1..n -> Seq(Immediates)]
  OBVIOUS
<1>2. f \in Seq(Seq(Immediates))
  BY <1>1, SeqDef
<1> QED
  BY <1>2, FlattenTyped

\* What the run on the extract decodes are native elements.
LEMMA ExtractTyped ==
  ASSUME SynthInv, CellsBound, cstatus = "satisfied"
  PROVE  /\ Extract.inputs \in Seq(Immediates) /\ Extract.public_out \in Seq(Immediates)
         /\ Extract.private \in Seq(Immediates)
<1>1. /\ src.inputs \in Seq([name : Identifier, ty : IrType])
      /\ src.code \in Seq(Instruction) /\ \A k \in DOMAIN src.code : WellShaped(src.code[k])
  BY DEF SynthInv, SourceOK, Source
<1>2. PICK m \in Nat, n \in Nat : m = Len(src.inputs) /\ n = Len(src.code)
  BY <1>1, LenProperties
<1>3. DOMAIN src.inputs = 1..m /\ DOMAIN src.code = 1..n
  BY <1>1, <1>2, LenProperties
<1>4. ASSUME NEW id \in DOMAIN cells
      PROVE  Encode(cells[id]) \in Seq(Immediates)
  BY EncodeTyped DEF SynthInv, CellsOK, MemoryTyped
<1>5. Extract.inputs \in Seq(Immediates)
  <2> DEFINE f == [i \in 1..m |-> Encode(cells[src.inputs[i].name])]
  <2>1. \A i \in 1..m : f[i] \in Seq(Immediates)
    BY <1>3, <1>4 DEF CellsBound
  <2>2. DOMAIN f = 1..m /\ f = [i \in 1..m |-> f[i]]
    OBVIOUS
  <2>3. Extract.inputs = FlattenSeq(f)
    BY <1>3 DEF Extract, EncodeAll
  <2> HIDE DEF f
  <2> QED
    BY <2>1, <2>2, <2>3, FlattenMapped
<1>6. ASSUME NEW op \in {"PublicInput", "PrivateInput"}
      PROVE  Collected(op, ReadCell) \in Seq(Immediates)
  <2> DEFINE f == [k \in 1..n |-> IF src.code[k].op = op /\ Open(src.code[k])
                                   THEN ReadCell(src.code[k]) ELSE <<>>]
  <2>1. ASSUME NEW k \in 1..n
        PROVE  f[k] \in Seq(Immediates)
    <3>1. CASE src.code[k].op = op
      <4>1. /\ src.code[k].outs \in Seq(Identifier) /\ Len(src.code[k].outs) = 1
        <5>1. src.code[k] \in Instruction /\ WellShaped(src.code[k])
          BY <1>1, <1>2, <1>3, ElementOfSeq
        <5> QED
          BY <3>1, <5>1, ReadShape DEF Instruction
      <4>2. src.code[k].outs[1] \in ToSet(src.code[k].outs)
        BY <4>1, LenProperties DEF ToSet
      <4>3. k < cpc
        BY <1>2, <1>3 DEF CellsBound, SynthInv
      <4>4. src.code[k].outs[1] \in DOMAIN cells
        BY <1>3, <4>2, <4>3 DEF CellsBound
      <4>5. ReadCell(src.code[k]) \in Seq(Immediates)
        BY <1>4, <4>4 DEF ReadCell
      <4> QED
        BY <4>5, EmptySeq
    <3>2. CASE src.code[k].op # op
      BY <3>2, EmptySeq
    <3> QED
      BY <3>1, <3>2
  <2>2. DOMAIN f = 1..n /\ f = [i \in 1..n |-> f[i]]
    OBVIOUS
  <2>3. Collected(op, ReadCell) = FlattenSeq(f)
    BY <1>3 DEF Collected
  <2> HIDE DEF f
  <2> QED
    BY <2>1, <2>2, <2>3, FlattenMapped
<1>7. /\ Extract.public_out = Collected("PublicInput", ReadCell)
      /\ Extract.private = Collected("PrivateInput", ReadCell)
  BY DEF Extract
<1> QED
  BY <1>5, <1>6, <1>7

------------------------------------------------------------------------------
(* The run on the extract.                                                   *)

RunTyped ==
  /\ rstatus \in R!Statuses /\ rpc \in Nat \ {0}
  /\ rcur \in [R!StreamNames -> Nat]
  /\ MemoryTyped(rmemory)

LEMMA RunStop ==
  ASSUME RunTyped, NEW s \in R!Final, R!Stop(s)
  PROVE  RunTyped'
BY DEF RunTyped, R!Stop, R!Final, R!Statuses, MemoryTyped

LEMMA RunBinds ==
  ASSUME RunTyped, NEW ids \in Seq(Identifier), Len(ids) = 1, NEW t, NEW v, Is(v, t),
         rmemory' = Bind(rmemory, ids, <<v>>)
  PROVE  MemoryTyped(rmemory)'
<1>1. MemoryTyped(Bind(rmemory, ids, <<v>>))
  BY YieldsOne, BindTyped DEF RunTyped
<1> QED
  BY <1>1 DEF MemoryTyped

LEMMA TakenTyped ==
  ASSUME NEW s \in Seq(Immediates), NEW at \in Nat, NEW w \in Nat, R!Available(s, at, w)
  PROVE  R!Taken(s, at, w) \in Seq(Immediates)
<1>1. \A i \in at + 1 .. at + w : s[i] \in Immediates
  BY ElementOfSeq, LenProperties DEF R!Available
<1> QED
  BY <1>1, SubSeqProperties DEF R!Taken

LEMMA RunDecodes ==
  ASSUME SynthInv, CellsBound, cstatus = "satisfied", RunTyped, R!DecodeInput
  PROVE  RunTyped'
<1> DEFINE id == src.inputs[rpc]
           w == encoded_len(id.ty)
<1>1. id.name \in Identifier /\ id.ty \in IrType
  <2>1. src.inputs \in Seq([name : Identifier, ty : IrType]) /\ rpc \in Nat \ {0}
    BY DEF SynthInv, SourceOK, Source, RunTyped
  <2>2. rpc \in 1..Len(src.inputs)
    BY <2>1, LenProperties DEF R!DecodeInput
  <2>3. id \in [name : Identifier, ty : IrType]
    BY <2>1, <2>2, ElementOfSeq
  <2> QED
    BY <2>3
<1>2. w \in Nat /\ Extract.inputs \in Seq(Immediates) /\ rcur.raw \in Nat
  BY <1>1, EncodedLenNat, ExtractTyped DEF RunTyped, R!StreamNames
<1>3. <<id.name>> \in Seq(Identifier) /\ Len(<<id.name>>) = 1
  BY <1>1
<1>4. CASE R!Reject
  BY <1>4, RunStop DEF R!Reject, R!Final
<1>5. ASSUME ~R!Reject
      PROVE  \E v \in Decode(R!Taken(Extract.inputs, rcur.raw, w), id.ty) :
               /\ R!Available(Extract.inputs, rcur.raw, w)
               /\ rmemory' = Bind(rmemory, <<id.name>>, <<v>>)
               /\ rcur' = [rcur EXCEPT !["raw"] = @ + w]
               /\ rpc' = rpc + 1 /\ rstatus' = rstatus
  BY <1>5, SameDecode, SameLength, SameMemory DEF R!DecodeInput
<1> HIDE DEF id, w
<1>6. ASSUME ~R!Reject
      PROVE  RunTyped'
  <2>1. PICK v \in Decode(R!Taken(Extract.inputs, rcur.raw, w), id.ty) :
               /\ R!Available(Extract.inputs, rcur.raw, w)
               /\ rmemory' = Bind(rmemory, <<id.name>>, <<v>>)
               /\ rcur' = [rcur EXCEPT !["raw"] = @ + w]
               /\ rpc' = rpc + 1 /\ rstatus' = rstatus
    BY <1>5, <1>6
  <2>2. Is(v, id.ty)
    BY <1>1, <1>2, <2>1, TakenTyped, DecodeTyped DEF Is
  <2>3. MemoryTyped(rmemory)'
    BY <1>3, <2>1, <2>2, RunBinds
  <2> QED
    BY <1>2, <2>1, <2>3 DEF RunTyped, R!StreamNames
<1> QED
  BY <1>4, <1>6

\* The instruction the run is at.
LEMMA RunInstr ==
  ASSUME SynthInv, RunTyped, rpc <= Len(src.code)
  PROVE  /\ R!Instr \in Instruction /\ WellShaped(R!Instr)
         /\ R!Instr.args \in Seq(Operand) /\ R!Instr.outs \in Seq(Identifier)
         /\ R!Instr.ty \in IrType
<1>1. src.code \in Seq(Instruction) /\ \A i \in DOMAIN src.code : WellShaped(src.code[i])
  BY DEF SynthInv, SourceOK, Source
<1>2. rpc \in DOMAIN src.code
  BY <1>1, LenProperties DEF RunTyped
<1>3. R!Instr \in Instruction
  BY <1>1, <1>2, ElementOfSeq, LenProperties DEF R!Instr
<1> QED
  BY <1>1, <1>2, <1>3 DEF R!Instr, Instruction

LEMMA SameRunOps == R!ValueOps = ValueOps
BY DEF R!ValueOps, ValueOps, R!HashOps, HashOps

LEMMA RunComputes ==
  ASSUME GadgetsTyped, SynthInv, RunTyped, R!Compute
  PROVE  RunTyped'
<1>1. /\ R!Instr \in Instruction /\ WellShaped(R!Instr) /\ R!Instr.op \in ValueOps
  BY RunInstr, SameRunOps DEF R!Compute
<1>2. CASE R!Reject
  BY <1>2, RunStop DEF R!Reject, R!Final
<1>3. ASSUME NEW vals \in OffGate(R!Instr, ResolveAll(rmemory, R!Instr.args)),
             AllResolvable(rmemory, R!Instr.args), rmemory' = Bind(rmemory, R!Instr.outs, vals),
             rpc' = rpc + 1, UNCHANGED <<rstatus, rcur>>
      PROVE  RunTyped'
  <2>1. MemoryTyped(Bind(rmemory, R!Instr.outs, vals))
    BY <1>1, <1>3, ComputeTyped DEF RunTyped
  <2> QED
    BY <1>3, <2>1 DEF RunTyped, MemoryTyped
<1> QED
  BY <1>2, <1>3, SameOffGate, SameMemory DEF R!Compute

LEMMA RunReads ==
  ASSUME SynthInv, CellsBound, cstatus = "satisfied", RunTyped,
         NEW op \in {"PublicInput", "PrivateInput"},
         NEW stream \in {"public_out", "private"}, R!Read(op, stream)
  PROVE  RunTyped'
<1> DEFINE w == encoded_len(R!Instr.ty)
<1>1. /\ R!Instr.outs \in Seq(Identifier) /\ Len(R!Instr.outs) = 1 /\ R!Instr.ty \in IrType
      /\ w \in Nat
  BY RunInstr, ReadShape, EncodedLenNat DEF R!Read, R!Fetch, R!Instr
<1>2. Extract[stream] \in Seq(Immediates) /\ rcur[stream] \in Nat
  <2>1. Extract["public_out"] \in Seq(Immediates) /\ Extract["private"] \in Seq(Immediates)
    BY ExtractTyped
  <2> QED
    BY <2>1 DEF RunTyped, R!StreamNames
<1>3. CASE R!Reject \/ R!Stop("panicked")
  BY <1>3, RunStop DEF R!Reject, R!Final
<1>4. CASE /\ rmemory' = Bind(rmemory, R!Instr.outs, <<Default(R!Instr.ty)>>)
           /\ rpc' = rpc + 1 /\ UNCHANGED <<rstatus, rcur>>
  <2>1. MemoryTyped(rmemory)'
    BY <1>1, <1>4, DefaultTyped, RunBinds
  <2> QED
    BY <1>4, <2>1 DEF RunTyped
<1>5. CASE /\ R!Available(Extract[stream], rcur[stream], w)
           /\ \E v \in Decode(R!Taken(Extract[stream], rcur[stream], w), R!Instr.ty) :
                rmemory' = Bind(rmemory, R!Instr.outs, <<v>>)
           /\ rcur' = [rcur EXCEPT ![stream] = @ + w]
           /\ rpc' = rpc + 1 /\ rstatus' = rstatus
  <2>1. PICK v \in Decode(R!Taken(Extract[stream], rcur[stream], w), R!Instr.ty) :
                rmemory' = Bind(rmemory, R!Instr.outs, <<v>>)
    BY <1>5
  <2>2. Is(v, R!Instr.ty)
    BY <1>1, <1>2, <1>5, TakenTyped, DecodeTyped DEF Is
  <2>3. MemoryTyped(rmemory)'
    BY <1>1, <2>1, <2>2, RunBinds
  <2> QED
    BY <1>1, <1>2, <1>5, <2>3 DEF RunTyped, R!StreamNames
<1> QED
  BY <1>3, <1>4, <1>5, SameDecode, SameLength, SameDefault, SameMemory DEF R!Read

LEMMA RunImpacts ==
  ASSUME SynthInv, RunTyped, R!ImpactSkipped \/ R!ImpactActive
  PROVE  RunTyped'
<1> DEFINE n == Len(R!ImpactInputs(R!Instr))
<1>1. n \in Nat
  <2>1. R!Instr.args \in Seq(Operand) /\ R!Instr.args # <<>>
    BY RunInstr DEF R!ImpactSkipped, R!ImpactActive, R!Fetch, R!Instr, WellShaped
  <2> QED
    BY <2>1, HeadTailProperties, LenProperties DEF R!ImpactInputs
<1>2. CASE R!Reject
  BY <1>2, RunStop DEF R!Reject, R!Final
<1>3. CASE /\ rcur' \in {rcur, [rcur EXCEPT !["public_in"] = @ + n]}
           /\ rpc' = rpc + 1 /\ UNCHANGED <<rstatus, rmemory>>
  BY <1>1, <1>3 DEF RunTyped, R!StreamNames, MemoryTyped
<1> QED
  BY <1>2, <1>3 DEF R!ImpactSkipped, R!ImpactActive

LEMMA RunStep ==
  ASSUME GadgetsTyped, SynthInv, CellsBound, RunTyped, Replay
  PROVE  RunTyped'
<1>1. cstatus = "satisfied" /\ R!Step
  BY DEF Replay, Replayable
<1>2. CASE R!SeedPublicInputs
  <2>1. CASE R!Reject
    BY <2>1, RunStop DEF R!Reject, R!Final
  <2>2. CASE rstatus' = "executing" /\ rpc' = 1 /\ UNCHANGED <<rmemory, rcur>>
    BY <2>2 DEF RunTyped, R!Statuses, MemoryTyped
  <2> QED
    BY <1>2, <2>1, <2>2 DEF R!SeedPublicInputs
<1>3. CASE R!OutputValues
  <2>1. CASE R!Reject
    BY <2>1, RunStop DEF R!Reject, R!Final
  <2>2. CASE rpc' = rpc + 1 /\ UNCHANGED <<rstatus, rmemory, rcur>>
    BY <2>2 DEF RunTyped, MemoryTyped
  <2> QED
    BY <1>3, <2>1, <2>2 DEF R!OutputValues
<1>4. CASE R!Finish
  BY <1>4, RunStop DEF R!Finish, R!Reject, R!Final
<1>5. CASE R!ReadPublic \/ R!ReadPrivate
  BY <1>1, <1>5, RunReads DEF R!ReadPublic, R!ReadPrivate
<1> QED
  BY <1>1, <1>2, <1>3, <1>4, <1>5, RunDecodes, RunComputes, RunImpacts DEF R!Step

------------------------------------------------------------------------------
(* What a satisfied circuit has laid out, as a function of the source and of *)
(* its cells.                                                                *)

IsFcn(m) == m = [id \in DOMAIN m |-> m[id]]
ReadOps == {"PublicInput", "PrivateInput"}
CodeOK(s) == s \in Source /\ \A i \in DOMAIN s.code : WellShaped(s.code[i])
\* The names bound after n instructions, and after n inputs.
Names(s, n) ==
  {s.inputs[i].name : i \in DOMAIN s.inputs} \cup UNION {ToSet(s.code[i].outs) : i \in 1..n}
InputNames(s, n) == {s.inputs[i].name : i \in 1..n}
Early(s, n, o) == o[1] = "var" => o[2] \in Names(s, n)
AllEarly(s, n, os) == \A j \in DOMAIN os : Early(s, n, os[j])

\* What instruction i exposes and what it puts out.
Pushed(m, i) ==
  IF i.op = "Impact"
  THEN [j \in DOMAIN ImpactInputs(i) |->
          IF Resolve(m, Guard(i)).val = 1 THEN Resolve(m, ImpactInputs(i)[j]).val ELSE 0]
  ELSE <<>>
Put(m, i) == IF i.op = "Output" THEN ResolveAll(m, i.args) ELSE <<>>
PushedTo(s, m, n) == FlattenSeq([k \in 1..n |-> Pushed(m, s.code[k])])
PutTo(s, m, n) == FlattenSeq([k \in 1..n |-> Put(m, s.code[k])])
StartOf(s, w) == <<w.binding>> \o (IF s.comm THEN <<w.comm[1]>> ELSE <<>>)

\* What synthesis has made sure of at instruction i, whose operands a had cells.
HasGate(m, i, a) ==
  i.op \in ValueOps =>
    /\ Shape(i, TypesOf(a)) # {} /\ Holds(i, a)
    /\ \A j \in DOMAIN i.outs : m[i.outs[j]] = Cells(i, a)[j]
HasRead(m, i) == i.op \in ReadOps => m[i.outs[1]].ty = i.ty
HasPushed(i, a) == i.op = "Impact" => AllFr(a) /\ BitHolds(a[1])
HasPut(s, i, a) == i.op = "Output" => Len(i.args) = Len(s.outputs) /\ TypesOf(a) = s.outputs
Laid(s, m, i) ==
  /\ i.op \notin ReadOps =>
       /\ HasGate(m, i, ResolveAll(m, i.args)) /\ HasPushed(i, ResolveAll(m, i.args))
       /\ HasPut(s, i, ResolveAll(m, i.args))
  /\ HasRead(m, i)
  /\ Pushed(m, i) \in Seq(Immediates) /\ Put(m, i) \in Seq(TypedValue)
LaidAt(s, m, n) ==
  /\ s.code[n + 1].op \notin ReadOps => AllEarly(s, n, s.code[n + 1].args)
  /\ Laid(s, m, s.code[n + 1])
LaidTo(s, w, m, ps, os, n) ==
  /\ IsFcn(m) /\ DOMAIN m = Names(s, n)
  /\ \A i \in DOMAIN s.inputs : m[s.inputs[i].name].ty = s.inputs[i].ty
  /\ \A j \in Nat : j < n => LaidAt(s, m, j)
  /\ s.comm => w.comm # <<>>
  /\ StartOf(s, w) \in Seq(Immediates)
  /\ ps = Cat(StartOf(s, w), PushedTo(s, m, n)) /\ os = PutTo(s, m, n)

Keeps(m, mm) == \A id \in DOMAIN m : id \in DOMAIN mm /\ mm[id] = m[id]

\* A bound operand keeps its value in a memory that keeps the bindings.
LEMMA ResolveSame ==
  ASSUME NEW m, NEW mm, Keeps(m, mm), NEW o \in Operand, Resolvable(m, o)
  PROVE  Resolvable(mm, o) /\ Resolve(mm, o) = Resolve(m, o)
<1>1. o[1] \in {"var", "imm"}
  BY DEF Operand
<1> QED
  BY <1>1 DEF Keeps, Resolvable, Resolve

LEMMA ResolveAllSame ==
  ASSUME NEW m, NEW mm, Keeps(m, mm), NEW os \in Seq(Operand), AllResolvable(m, os)
  PROVE  AllResolvable(mm, os) /\ ResolveAll(mm, os) = ResolveAll(m, os)
<1>1. \A i \in DOMAIN os : os[i] \in Operand /\ Resolvable(m, os[i])
  BY ElementOfSeq, LenProperties DEF AllResolvable
<1>2. \A i \in DOMAIN os : Resolvable(mm, os[i]) /\ Resolve(mm, os[i]) = Resolve(m, os[i])
  BY <1>1, ResolveSame
<1> QED
  BY <1>2 DEF AllResolvable, ResolveAll

\* The instructions of a source.
LEMMA CodeAt ==
  ASSUME NEW s, CodeOK(s), NEW n \in Nat, n < Len(s.code), NEW i, i = s.code[n + 1]
  PROVE  /\ i \in Instruction /\ WellShaped(i) /\ i.args \in Seq(Operand)
         /\ i.outs \in Seq(Identifier) /\ i.ty \in IrType
         /\ n + 1 \in DOMAIN s.code /\ Len(s.code) \in Nat /\ DOMAIN s.code = 1..Len(s.code)
<1>1. s.code \in Seq(Instruction) /\ \A k \in DOMAIN s.code : WellShaped(s.code[k])
  BY DEF CodeOK, Source
<1>2. Len(s.code) \in Nat /\ DOMAIN s.code = 1..Len(s.code)
  BY <1>1, LenProperties
<1>3. n + 1 \in 1..Len(s.code)
  BY <1>2
<1>4. i \in Instruction
  BY <1>1, <1>3, ElementOfSeq
<1> QED
  BY <1>1, <1>2, <1>3, <1>4 DEF Instruction

LEMMA InputAt ==
  ASSUME NEW s, CodeOK(s), NEW i \in DOMAIN s.inputs
  PROVE  /\ s.inputs[i].name \in Identifier /\ s.inputs[i].ty \in IrType
         /\ DOMAIN s.inputs = 1..Len(s.inputs) /\ Len(s.inputs) \in Nat
<1>1. s.inputs \in Seq([name : Identifier, ty : IrType])
  BY DEF CodeOK, Source
<1>2. DOMAIN s.inputs = 1..Len(s.inputs) /\ Len(s.inputs) \in Nat
  BY <1>1, LenProperties
<1>3. s.inputs[i] \in [name : Identifier, ty : IrType]
  BY <1>1, <1>2, ElementOfSeq
<1> QED
  BY <1>2, <1>3

\* The names bound only grow, by the outputs of each instruction.
LEMMA NamesGrow ==
  ASSUME NEW s, NEW j \in Nat, NEW n \in Nat, j <= n
  PROVE  Names(s, j) \subseteq Names(s, n)
<1>1. \A i \in 1..j : i \in 1..n
  OBVIOUS
<1> QED
  BY <1>1 DEF Names

LEMMA NamesNext ==
  ASSUME NEW s, NEW n \in Nat
  PROVE  Names(s, n + 1) = Names(s, n) \cup ToSet(s.code[n + 1].outs)
<1>1. \A i : i \in 1..n + 1 <=> i \in 1..n \/ i = n + 1
  OBVIOUS
<1> QED
  BY <1>1 DEF Names

\* The name of a read.
LEMMA ReadName ==
  ASSUME NEW i \in Instruction, WellShaped(i), i.op \in ReadOps
  PROVE  /\ i.outs \in Seq(Identifier) /\ Len(i.outs) = 1 /\ DOMAIN i.outs = {1}
         /\ ToSet(i.outs) = {i.outs[1]} /\ i.outs[1] \in Identifier
<1>1. i.outs \in Seq(Identifier) /\ Len(i.outs) = 1
  BY ReadShape DEF Instruction, ReadOps
<1>2. DOMAIN i.outs = {1}
  BY <1>1, LenProperties
<1>3. i.outs[1] \in Identifier
  BY <1>1, ElementOfSeq
<1> QED
  BY <1>1, <1>2, <1>3 DEF ToSet

\* The inputs of an Impact are its operands after the guard.
LEMMA ImpactOperands ==
  ASSUME NEW i \in Instruction, WellShaped(i), i.op = "Impact"
  PROVE  \E n \in Nat : /\ DOMAIN i.args = 1..n + 1 /\ DOMAIN ImpactInputs(i) = 1..n
                        /\ Len(i.args) = n + 1 /\ Len(ImpactInputs(i)) = n
                        /\ \A j \in 1..n : ImpactInputs(i)[j] = i.args[j + 1]
<1>1. i.args \in Seq(Operand) /\ i.args # <<>>
  BY DEF Instruction, WellShaped
<1>2. Len(i.args) \in Nat \ {0} /\ DOMAIN i.args = 1..Len(i.args)
  BY <1>1, LenProperties, EmptySeq
<1>3. PICK n \in Nat : Len(i.args) = n + 1
  <2>1. Len(i.args) - 1 \in Nat /\ Len(i.args) = (Len(i.args) - 1) + 1
    BY <1>2
  <2> QED
    BY <2>1
<1>4. /\ ImpactInputs(i) \in Seq(Operand) /\ Len(ImpactInputs(i)) = n
      /\ \A j \in 1..n : ImpactInputs(i)[j] = i.args[j + 1]
  BY <1>1, <1>3, HeadTailProperties DEF ImpactInputs
<1>5. DOMAIN ImpactInputs(i) = 1..n
  BY <1>4, LenProperties
<1> QED
  BY <1>2, <1>3, <1>4, <1>5

\* What an Impact of n inputs pushes, over its operands a.
Pushes(m, i, a, n) ==
  /\ DOMAIN i.args = 1..n + 1 /\ Len(i.args) = n + 1 /\ DOMAIN a = 1..n + 1
  /\ DOMAIN ImpactInputs(i) = 1..n /\ Len(ImpactInputs(i)) = n
  /\ Resolve(m, Guard(i)) = a[1]
  /\ \A j \in 1..n : Resolve(m, ImpactInputs(i)[j]) = a[j + 1]
  /\ Pushed(m, i) = [j \in 1..n |-> IF a[1].val = 1 THEN a[j + 1].val ELSE 0]

\* What an Impact exposes, element by element.
LEMMA PushedIs ==
  ASSUME NEW i \in Instruction, WellShaped(i), i.op = "Impact", NEW m,
         NEW a, a = ResolveAll(m, i.args)
  PROVE  \E n \in Nat : Pushes(m, i, a, n)
<1>1. PICK n \in Nat : /\ DOMAIN i.args = 1..n + 1 /\ DOMAIN ImpactInputs(i) = 1..n
                       /\ Len(i.args) = n + 1 /\ Len(ImpactInputs(i)) = n
                       /\ \A j \in 1..n : ImpactInputs(i)[j] = i.args[j + 1]
  BY ImpactOperands
<1>2. 1 \in 1..n + 1 /\ \A j \in 1..n : j + 1 \in 1..n + 1
  OBVIOUS
<1>3. /\ Resolve(m, Guard(i)) = a[1] /\ DOMAIN a = 1..n + 1
      /\ \A j \in 1..n : Resolve(m, ImpactInputs(i)[j]) = a[j + 1]
  BY <1>1, <1>2 DEF ResolveAll, Guard
<1>4. Pushed(m, i) = [j \in 1..n |-> IF a[1].val = 1 THEN a[j + 1].val ELSE 0]
  BY <1>1, <1>3 DEF Pushed
<1> QED
  BY <1>1, <1>3, <1>4 DEF Pushes

\* Operands named before instruction n are bound when it is reached.
LEMMA EarlyIs ==
  ASSUME NEW s, NEW n, NEW m, Names(s, n) \subseteq DOMAIN m, NEW os, AllEarly(s, n, os)
  PROVE  AllResolvable(m, os)
BY DEF AllEarly, Early, AllResolvable, Resolvable

\* What was laid out does not change when names are added.
LEMMA LaidStays ==
  ASSUME NEW s, CodeOK(s), NEW m, NEW mm, Keeps(m, mm), NEW n \in Nat, n < Len(s.code),
         Names(s, n + 1) \subseteq DOMAIN m, LaidAt(s, m, n), NEW i, i = s.code[n + 1]
  PROVE  /\ LaidAt(s, mm, n) /\ Pushed(mm, i) = Pushed(m, i) /\ Put(mm, i) = Put(m, i)
<1>1. i \in Instruction /\ WellShaped(i) /\ i.args \in Seq(Operand) /\ i.outs \in Seq(Identifier)
  BY CodeAt
<1>2. Names(s, n) \subseteq DOMAIN m /\ ToSet(i.outs) \subseteq DOMAIN m
  BY NamesNext
<1>3. \A j \in DOMAIN i.outs : mm[i.outs[j]] = m[i.outs[j]]
  BY <1>2 DEF ToSet, Keeps
<1>4. CASE i.op \in ReadOps
  <2>1. mm[i.outs[1]] = m[i.outs[1]]
    BY <1>1, <1>3, <1>4, ReadName
  <2>2. Pushed(mm, i) = Pushed(m, i) /\ Put(mm, i) = Put(m, i)
    BY <1>4 DEF Pushed, Put, ReadOps
  <2> QED
    BY <1>4, <2>1, <2>2 DEF LaidAt, Laid, HasRead
<1>5. CASE i.op \notin ReadOps
  <2>1. AllResolvable(m, i.args)
    BY <1>2, <1>5, EarlyIs DEF LaidAt
  <2>2. ResolveAll(mm, i.args) = ResolveAll(m, i.args)
    BY <1>1, <2>1, ResolveAllSame
  <2>3. Pushed(mm, i) = Pushed(m, i)
    <3>1. CASE i.op = "Impact"
      <4>1. PICK a : a = ResolveAll(m, i.args)
        OBVIOUS
      <4>2. PICK k \in Nat : Pushes(m, i, a, k)
        BY <1>1, <3>1, <4>1, PushedIs
      <4>3. PICK l \in Nat : Pushes(mm, i, a, l)
        BY <1>1, <2>2, <3>1, <4>1, PushedIs
      <4>4. k = l
        BY <4>2, <4>3 DEF Pushes
      <4> QED
        BY <4>2, <4>3, <4>4 DEF Pushes
    <3>2. CASE i.op # "Impact"
      BY <3>2 DEF Pushed
    <3> QED
      BY <3>1, <3>2
  <2>4. Put(mm, i) = Put(m, i)
    BY <2>2 DEF Put
  <2>5. HasGate(mm, i, ResolveAll(m, i.args)) <=> HasGate(m, i, ResolveAll(m, i.args))
    BY <1>3 DEF HasGate
  <2> QED
    BY <1>5, <2>2, <2>3, <2>4, <2>5 DEF LaidAt, Laid, HasRead
<1> QED
  BY <1>4, <1>5

\* The sequences laid out after n instructions are those of the first n.
LEMMA LaidTyped ==
  ASSUME NEW s, NEW m, NEW n \in Nat, \A j \in Nat : j < n => LaidAt(s, m, j),
         NEW k \in 1..n
  PROVE  Pushed(m, s.code[k]) \in Seq(Immediates) /\ Put(m, s.code[k]) \in Seq(TypedValue)
<1>1. k - 1 \in Nat /\ k - 1 < n /\ (k - 1) + 1 = k
  OBVIOUS
<1>2. LaidAt(s, m, k - 1)
  BY <1>1
<1> QED
  BY <1>1, <1>2 DEF LaidAt, Laid

\* One instruction more adds what it exposes, and what it puts out, at the end.
LEMMA PushedToIs ==
  ASSUME NEW s, NEW m, NEW mm, NEW n \in Nat, \A j \in Nat : j < n => LaidAt(s, m, j),
         \A k \in 1..n : Pushed(mm, s.code[k]) = Pushed(m, s.code[k]),
         Pushed(mm, s.code[n + 1]) \in Seq(Immediates)
  PROVE  /\ PushedTo(s, m, n) \in Seq(Immediates)
         /\ PushedTo(s, mm, n + 1) = Cat(PushedTo(s, m, n), Pushed(mm, s.code[n + 1]))
<1>1. PICK u : u = [j \in 1..n |-> Pushed(m, s.code[j])]
  OBVIOUS
<1>2. PICK t : t = [j \in 1..n + 1 |-> Pushed(mm, s.code[j])]
  OBVIOUS
<1>3. u \in Seq(Seq(Immediates))
  <2>1. u = [j \in 1..n |-> u[j]]
    BY <1>1
  <2>2. \A j \in 1..n : u[j] \in Seq(Immediates)
    BY <1>1, LaidTyped
  <2> QED
    BY <2>1, <2>2, IsASeq
<1>4. PICK x \in Seq(Immediates) : x = Pushed(mm, s.code[n + 1])
  OBVIOUS
<1>5. Grows(u, t, n, x)
  BY <1>1, <1>2, <1>4 DEF Grows
<1>6. FlattenSeq(u) \in Seq(Immediates) /\ FlattenSeq(t) = Cat(FlattenSeq(u), x)
  BY <1>3, <1>5, FlattenGrows
<1> QED
  BY <1>1, <1>2, <1>4, <1>6 DEF PushedTo

LEMMA PutToIs ==
  ASSUME NEW s, NEW m, NEW mm, NEW n \in Nat, \A j \in Nat : j < n => LaidAt(s, m, j),
         \A k \in 1..n : Put(mm, s.code[k]) = Put(m, s.code[k]),
         Put(mm, s.code[n + 1]) \in Seq(TypedValue)
  PROVE  /\ PutTo(s, m, n) \in Seq(TypedValue)
         /\ PutTo(s, mm, n + 1) = Cat(PutTo(s, m, n), Put(mm, s.code[n + 1]))
<1>1. PICK u : u = [j \in 1..n |-> Put(m, s.code[j])]
  OBVIOUS
<1>2. PICK t : t = [j \in 1..n + 1 |-> Put(mm, s.code[j])]
  OBVIOUS
<1>3. u \in Seq(Seq(TypedValue))
  <2>1. u = [j \in 1..n |-> u[j]]
    BY <1>1
  <2>2. \A j \in 1..n : u[j] \in Seq(TypedValue)
    BY <1>1, LaidTyped
  <2> QED
    BY <2>1, <2>2, IsASeq
<1>4. PICK x \in Seq(TypedValue) : x = Put(mm, s.code[n + 1])
  OBVIOUS
<1>5. Grows(u, t, n, x)
  BY <1>1, <1>2, <1>4 DEF Grows
<1>6. FlattenSeq(u) \in Seq(TypedValue) /\ FlattenSeq(t) = Cat(FlattenSeq(u), x)
  BY <1>3, <1>5, FlattenGrows
<1> QED
  BY <1>1, <1>2, <1>4, <1>6 DEF PutTo

\* Nothing is pushed or put out before the first instruction.
LEMMA NothingYet ==
  ASSUME NEW s, NEW m
  PROVE  PushedTo(s, m, 0) = <<>> /\ PutTo(s, m, 0) = <<>>
<1>1. /\ [k \in 1..0 |-> Put(m, s.code[k])] = <<>>
      /\ [k \in 1..0 |-> Pushed(m, s.code[k])] = <<>>
  OBVIOUS
<1> QED
  BY <1>1, FlattenEmpty DEF PutTo, PushedTo

\* One more instruction.
LEMMA LaidNext ==
  ASSUME NEW s, CodeOK(s), NEW w, NEW n \in Nat, n < Len(s.code), NEW i, i = s.code[n + 1],
         NEW m, NEW ps, NEW os, LaidTo(s, w, m, ps, os, n),
         NEW mm, IsFcn(mm), Keeps(m, mm),
         DOMAIN mm = DOMAIN m \cup ToSet(i.outs), LaidAt(s, mm, n)
  PROVE  LaidTo(s, w, mm, Cat(ps, Pushed(mm, i)), Cat(os, Put(mm, i)), n + 1)
<1>1. /\ DOMAIN m = Names(s, n) /\ \A j \in Nat : j < n => LaidAt(s, m, j)
      /\ StartOf(s, w) \in Seq(Immediates)
      /\ ps = Cat(StartOf(s, w), PushedTo(s, m, n)) /\ os = PutTo(s, m, n)
  BY DEF LaidTo
<1>2. Len(s.code) \in Nat
  BY CodeAt
<1>3. ASSUME NEW j \in Nat, j < n
      PROVE  /\ LaidAt(s, mm, j) /\ Pushed(mm, s.code[j + 1]) = Pushed(m, s.code[j + 1])
             /\ Put(mm, s.code[j + 1]) = Put(m, s.code[j + 1])
  <2>1. j < Len(s.code) /\ j + 1 \in Nat /\ j + 1 <= n
    BY <1>2, <1>3
  <2>2. Names(s, j + 1) \subseteq DOMAIN m
    BY <1>1, <2>1, NamesGrow
  <2> QED
    BY <1>1, <1>3, <2>1, <2>2, LaidStays
<1>4. \A k \in 1..n : Pushed(mm, s.code[k]) = Pushed(m, s.code[k]) /\ Put(mm, s.code[k]) = Put(m, s.code[k])
  <2> SUFFICES ASSUME NEW k \in 1..n
               PROVE  Pushed(mm, s.code[k]) = Pushed(m, s.code[k]) /\ Put(mm, s.code[k]) = Put(m, s.code[k])
    OBVIOUS
  <2>1. k - 1 \in Nat /\ k - 1 < n /\ (k - 1) + 1 = k
    OBVIOUS
  <2> QED
    BY <1>3, <2>1
<1>5. Pushed(mm, i) \in Seq(Immediates) /\ Put(mm, i) \in Seq(TypedValue)
  BY DEF LaidAt, Laid
<1>6. /\ PushedTo(s, m, n) \in Seq(Immediates)
      /\ PushedTo(s, mm, n + 1) = Cat(PushedTo(s, m, n), Pushed(mm, i))
  BY <1>1, <1>4, <1>5, PushedToIs
<1>7. PutTo(s, mm, n + 1) = Cat(PutTo(s, m, n), Put(mm, i))
  BY <1>1, <1>4, <1>5, PutToIs
<1>8. Cat(ps, Pushed(mm, i)) = Cat(StartOf(s, w), PushedTo(s, mm, n + 1))
  BY <1>1, <1>5, <1>6, CatAssociative
<1>9. DOMAIN mm = Names(s, n + 1)
  BY <1>1, NamesNext
<1>10. \A j \in Nat : j < n + 1 => LaidAt(s, mm, j)
  <2>1. \A j \in Nat : j < n + 1 => j < n \/ j = n
    OBVIOUS
  <2> QED
    BY <1>3, <2>1
<1>11. \A k \in DOMAIN s.inputs : mm[s.inputs[k].name].ty = s.inputs[k].ty
  BY <1>1 DEF LaidTo, Keeps, Names
<1>12. s.comm => w.comm # <<>>
  BY DEF LaidTo
<1> QED
  BY <1>1, <1>7, <1>8, <1>9, <1>10, <1>11, <1>12 DEF LaidTo

\* No name a single-assignment source is about to bind is bound already.
LEMMA FreshAt ==
  ASSUME NEW s, CodeOK(s), SingleAssignment(s), NEW n \in Nat, n < Len(s.code)
  PROVE  Names(s, n) \cap ToSet(s.code[n + 1].outs) = {}
<1>1. DOMAIN s.code = 1..Len(s.code) /\ Len(s.code) \in Nat /\ n + 1 \in DOMAIN s.code
  BY CodeAt
<1>2. ASSUME NEW x \in Names(s, n)
      PROVE  x \notin ToSet(s.code[n + 1].outs)
  <2>1. CASE \E j \in DOMAIN s.inputs : x = s.inputs[j].name
    BY <1>1, <2>1 DEF SingleAssignment
  <2>2. ASSUME NEW j \in 1..n, x \in ToSet(s.code[j].outs)
        PROVE  x \notin ToSet(s.code[n + 1].outs)
    <3>1. j \in DOMAIN s.code /\ j # n + 1
      BY <1>1
    <3> QED
      BY <1>1, <2>2, <3>1 DEF SingleAssignment
  <2> QED
    BY <1>2, <2>1, <2>2 DEF Names
<1> QED
  BY <1>2

\* The name of an input is not that of an earlier one.
LEMMA FreshInputAt ==
  ASSUME NEW s, CodeOK(s), SingleAssignment(s), NEW n \in Nat, n + 1 \in DOMAIN s.inputs
  PROVE  s.inputs[n + 1].name \notin InputNames(s, n)
<1>1. DOMAIN s.inputs = 1..Len(s.inputs) /\ Len(s.inputs) \in Nat
  BY InputAt
<1>2. \A j \in 1..n : j \in DOMAIN s.inputs /\ j # n + 1
  BY <1>1
<1> QED
  BY <1>2 DEF SingleAssignment, InputNames

LEMMA InputNamesNext ==
  ASSUME NEW s, NEW n \in Nat
  PROVE  InputNames(s, n + 1) = InputNames(s, n) \cup {s.inputs[n + 1].name}
<1>1. \A i : i \in 1..n + 1 <=> i \in 1..n \/ i = n + 1
  OBVIOUS
<1> QED
  BY <1>1 DEF InputNames

\* All inputs are bound before the first instruction.
LEMMA NamesStart ==
  ASSUME NEW s, CodeOK(s), NEW n \in Nat, n = Len(s.inputs)
  PROVE  Names(s, 0) = InputNames(s, n)
<1>1. DOMAIN s.inputs = 1..n
  BY LenProperties DEF CodeOK, Source
<1>2. UNION {ToSet(s.code[i].outs) : i \in 1..0} = {}
  OBVIOUS
<1> QED
  BY <1>1, <1>2 DEF Names, InputNames

\* A bind to new names keeps the memory.
Fresh(m, ids) == DOMAIN m \cap ToSet(ids) = {} /\ IsInjective(ids)
Extends(m, ids, vals, mm) ==
  /\ Keeps(m, mm) /\ IsFcn(mm) /\ DOMAIN mm = DOMAIN m \cup ToSet(ids)
  /\ \A j \in DOMAIN ids : mm[ids[j]] = vals[j]

\* Binding new names keeps what is bound and adds exactly these.
LEMMA BindFresh ==
  ASSUME NEW m, NEW ids \in Seq(Identifier), Fresh(m, ids), NEW vals,
         NEW mm, mm = Bind(m, ids, vals)
  PROVE  Extends(m, ids, vals, mm)
<1>1. DOMAIN mm = DOMAIN m \cup ToSet(ids) /\ IsFcn(mm)
      /\ \A id \in DOMAIN m \ ToSet(ids) : mm[id] = m[id]
  BY DEF Bind, IsFcn
<1>2. ASSUME NEW j \in DOMAIN ids
      PROVE  mm[ids[j]] = vals[j]
  <2>1. ids[j] \in ToSet(ids)
    BY DEF ToSet
  <2>2. PICK k : k = LastPlace(ids, ids[j])
    OBVIOUS
  <2>3. k \in DOMAIN ids /\ ids[k] = ids[j] /\ mm[ids[j]] = vals[k]
    BY <2>1, <2>2, BindAt
  <2>4. k = j
    BY <2>3 DEF IsInjective, Fresh
  <2> QED
    BY <2>3, <2>4
<1>3. Keeps(m, mm)
  BY <1>1 DEF Keeps, Fresh
<1> QED
  BY <1>1, <1>2, <1>3 DEF Extends

LEMMA OneName ==
  ASSUME NEW x \in Identifier, NEW ids, ids = <<x>>
  PROVE  ids \in Seq(Identifier) /\ DOMAIN ids = {1} /\ ids[1] = x /\ ToSet(ids) = {x} /\ IsInjective(ids)
<1>1. ids \in Seq(Identifier) /\ DOMAIN ids = {1} /\ ids[1] = x
  OBVIOUS
<1> QED
  BY <1>1 DEF ToSet, IsInjective

------------------------------------------------------------------------------
(* The trace of synthesis.                                                   *)

\* What synthesis has laid out of a single-assignment source, and what it has
\* made sure of when it is satisfied.
SynthTrace ==
  /\ IsFcn(cells)
  /\ cstatus = "assigning" =>
       /\ cpc <= Len(src.inputs) + 1 /\ couts = <<>>
       /\ \A n \in Nat : n + 1 = cpc =>
            /\ DOMAIN cells = InputNames(src, n)
            /\ \A i \in 1..n : cells[src.inputs[i].name].ty = src.inputs[i].ty
  /\ cstatus \in {"synthesizing", "satisfied"} =>
       /\ cpc <= Len(src.code) + 1
       /\ \A n \in Nat : n + 1 = cpc => LaidTo(src, wit, cells, cpis, couts, n)
  /\ cstatus = "satisfied" /\ src.comm => CircuitCommitment = cpis[2]

\* The trace survives every step of synthesis, one lemma per action.
LEMMA TraceStop ==
  ASSUME SynthTrace, UNCHANGED <<src, wit>>, NEW s \in CStopped \ {"satisfied"}, CStop(s)
  PROVE  SynthTrace'
BY DEF SynthTrace, CStop, CStopped, WitnessStops

\* Synthesis has come past cpc - 1 instructions.
LEMMA Before ==
  ASSUME SynthInv
  PROVE  \E n \in Nat : n + 1 = cpc
<1>1. cpc \in Nat \ {0}
  BY DEF SynthInv
<1>2. cpc - 1 \in Nat /\ (cpc - 1) + 1 = cpc
  BY <1>1
<1> QED
  BY <1>2

LEMMA SourceIsOK ==
  ASSUME SynthInv
  PROVE  CodeOK(src)
BY DEF SynthInv, SourceOK, CodeOK

\* A step to the next instruction extends the trace by what that lays out.
LEMMA TraceAdvance ==
  ASSUME SynthInv, SynthTrace, UNCHANGED <<src, wit>>, cstatus = "synthesizing",
         NEW n \in Nat, n + 1 = cpc, n < Len(src.code), NEW i, i = src.code[n + 1],
         IsFcn(cells'), Keeps(cells, cells'),
         DOMAIN cells' = DOMAIN cells \cup ToSet(i.outs), LaidAt(src, cells', n),
         cpis' = Cat(cpis, Pushed(cells', i)), couts' = Cat(couts, Put(cells', i)),
         cpc' = cpc + 1, cstatus' = cstatus
  PROVE  SynthTrace'
<1>1. CodeOK(src) /\ LaidTo(src, wit, cells, cpis, couts, n)
  BY SourceIsOK DEF SynthTrace
<1>2. LaidTo(src, wit, cells', cpis', couts', n + 1)
  BY <1>1, LaidNext
<1>3. Len(src.code) \in Nat
  BY <1>1, CodeAt
<1>4. cpc' = n + 2 /\ cpc' <= Len(src.code) + 1
  BY <1>3
<1>5. \A k \in Nat : k + 1 = cpc' => k = n + 1
  BY <1>4
<1>6. \A k \in Nat : k + 1 = cpc' => LaidTo(src', wit', cells', cpis', couts', k)
  BY <1>2, <1>5
<1> QED
  BY <1>4, <1>6 DEF SynthTrace

\* The instruction synthesis is at.
LEMMA TraceFetched ==
  ASSUME SynthInv, SynthTrace, SingleAssignment(src), NEW ops, CFetch(ops)
  PROVE  \E n \in Nat :
           /\ n + 1 = cpc /\ n < Len(src.code) /\ CInstr = src.code[n + 1]
           /\ LaidTo(src, wit, cells, cpis, couts, n) /\ DOMAIN cells = Names(src, n)
           /\ Fresh(cells, CInstr.outs)
<1>1. cpc \in DOMAIN src.code /\ cstatus = "synthesizing" /\ CodeOK(src)
  BY Fetched, SourceIsOK
<1>2. PICK n \in Nat : n + 1 = cpc
  BY Before
<1>3. DOMAIN src.code = 1..Len(src.code) /\ Len(src.code) \in Nat
  BY <1>1, LenProperties DEF CodeOK, Source
<1>4. n < Len(src.code) /\ CInstr = src.code[n + 1]
  BY <1>1, <1>2, <1>3 DEF CInstr
<1>5. LaidTo(src, wit, cells, cpis, couts, n)
  BY <1>1, <1>2 DEF SynthTrace
<1>6. DOMAIN cells = Names(src, n)
  BY <1>5 DEF LaidTo
<1>7. Names(src, n) \cap ToSet(src.code[n + 1].outs) = {}
  BY <1>1, <1>4, FreshAt
<1>8. IsInjective(CInstr.outs)
  BY <1>1 DEF SingleAssignment, CInstr
<1> QED
  BY <1>2, <1>4, <1>5, <1>6, <1>7, <1>8 DEF Fresh

\* Operands that have cells were bound before.
LEMMA OperandsEarly ==
  ASSUME NEW s, NEW n, NEW m, DOMAIN m = Names(s, n), NEW os, AllResolvable(m, os)
  PROVE  AllEarly(s, n, os)
BY DEF AllEarly, Early, AllResolvable, Resolvable

LEMMA TraceAssign ==
  ASSUME SynthInv, SynthTrace, SingleAssignment(src), AssignInput, UNCHANGED <<src, wit>>
  PROVE  SynthTrace'
<1>1. CASE CStop("bad_witness")
  BY <1>1, TraceStop DEF CStopped, WitnessStops
<1>2. PICK n \in Nat : n + 1 = cpc
  BY Before
<1>3. /\ CodeOK(src) /\ cstatus = "assigning" /\ cpc \in DOMAIN src.inputs
      /\ DOMAIN src.inputs = 1..Len(src.inputs) /\ Len(src.inputs) \in Nat
  <2>1. CodeOK(src) /\ cpc <= Len(src.inputs) /\ cstatus = "assigning"
    BY SourceIsOK DEF AssignInput
  <2>2. DOMAIN src.inputs = 1..Len(src.inputs) /\ Len(src.inputs) \in Nat
    BY <2>1, LenProperties DEF CodeOK, Source
  <2> QED
    BY <1>2, <2>1, <2>2
<1>4. PICK x : x = src.inputs[n + 1].name
  OBVIOUS
<1>5. PICK ids : ids = <<x>>
  OBVIOUS
<1>6. x \in Identifier
  BY <1>2, <1>3, <1>4, InputAt
<1>7. /\ ids \in Seq(Identifier) /\ DOMAIN ids = {1} /\ ids[1] = x /\ ToSet(ids) = {x}
      /\ IsInjective(ids)
  BY <1>5, <1>6, OneName
<1>8. DOMAIN cells = InputNames(src, n) /\ couts = <<>>
      /\ \A i \in 1..n : cells[src.inputs[i].name].ty = src.inputs[i].ty
  BY <1>2, <1>3 DEF SynthTrace
<1>9. x \notin DOMAIN cells
  BY <1>2, <1>3, <1>4, <1>8, FreshInputAt
<1>10. ASSUME NEW v, v.ty = src.inputs[n + 1].ty, cells' = Bind(cells, ids, <<v>>),
              cpc' = cpc + 1, UNCHANGED <<cstatus, cpis, couts>>
       PROVE  SynthTrace'
  <2>1. /\ Keeps(cells, cells') /\ IsFcn(cells')
        /\ DOMAIN cells' = DOMAIN cells \cup {x} /\ cells'[x] = v
    <3>1. PICK mm : mm = cells'
      OBVIOUS
    <3>2. Fresh(cells, ids)
      BY <1>7, <1>9 DEF Fresh
    <3>3. PICK vs : vs = <<v>>
      OBVIOUS
    <3>4. mm = Bind(cells, ids, vs) /\ vs[1] = v
      BY <1>10, <3>1, <3>3
    <3>5. Extends(cells, ids, vs, mm)
      BY <1>7, <3>2, <3>4, BindFresh
    <3> QED
      BY <1>7, <3>1, <3>4, <3>5 DEF Extends
  <2>2. DOMAIN cells' = InputNames(src, n + 1)
    BY <1>4, <1>8, <2>1, InputNamesNext
  <2>3. \A i \in 1..n + 1 : cells'[src.inputs[i].name].ty = src.inputs[i].ty
    <3>1. ASSUME NEW i \in 1..n
          PROVE  cells'[src.inputs[i].name] = cells[src.inputs[i].name]
      <4>1. src.inputs[i].name \in DOMAIN cells
        BY <1>8 DEF InputNames
      <4> QED
        BY <2>1, <4>1 DEF Keeps
    <3>2. \A i \in 1..n + 1 : i \in 1..n \/ i = n + 1
      OBVIOUS
    <3> QED
      BY <1>4, <1>8, <1>10, <2>1, <3>1, <3>2
  <2>4. cpc' <= Len(src.inputs) + 1 /\ \A k \in Nat : k + 1 = cpc' => k = n + 1
    BY <1>2, <1>3, <1>10
  <2>5. \A k \in Nat : k + 1 = cpc' =>
          /\ DOMAIN cells' = InputNames(src', k)
          /\ \A i \in 1..k : cells'[src'.inputs[i].name].ty = src'.inputs[i].ty
    BY <2>2, <2>3, <2>4
  <2> QED
    BY <1>3, <1>8, <1>10, <2>1, <2>4, <2>5 DEF SynthTrace
<1>11. CASE ~CStop("bad_witness")
  <2>1. PICK v : /\ v.ty = src.inputs[n + 1].ty /\ cells' = Bind(cells, ids, <<v>>)
                 /\ cpc' = cpc + 1 /\ UNCHANGED <<cstatus, cpis, couts>>
    BY <1>2, <1>4, <1>5, <1>11 DEF AssignInput
  <2> QED
    BY <1>10, <2>1
<1> QED
  BY <1>1, <1>11

LEMMA TraceSeed ==
  ASSUME SynthInv, SynthTrace, SeedInstance, UNCHANGED <<src, wit>>
  PROVE  SynthTrace'
<1>1. CASE CStop("bad_witness") \/ CStop("misaligned")
  BY <1>1, TraceStop DEF CStopped, WitnessStops
<1>2. CASE ~(CStop("bad_witness") \/ CStop("misaligned"))
  <2>1. /\ cpis' = StartOf(src, wit) /\ cstatus' = "synthesizing" /\ cpc' = 1
        /\ cells' = cells /\ couts' = couts /\ (src.comm => wit.comm # <<>>)
        /\ cstatus = "assigning" /\ cpc > Len(src.inputs)
    BY <1>2 DEF SeedInstance, StartOf
  <2>2. PICK n \in Nat : n + 1 = cpc
    BY Before
  <2>3. CodeOK(src) /\ n = Len(src.inputs) /\ DOMAIN src.inputs = 1..n
    <3>1. CodeOK(src)
      BY SourceIsOK
    <3>2. DOMAIN src.inputs = 1..Len(src.inputs) /\ Len(src.inputs) \in Nat
      BY <3>1, LenProperties DEF CodeOK, Source
    <3>3. cpc <= Len(src.inputs) + 1
      BY <2>1 DEF SynthTrace
    <3> QED
      BY <2>1, <2>2, <3>1, <3>2, <3>3
  <2>4. /\ DOMAIN cells = InputNames(src, n) /\ couts = <<>>
        /\ \A i \in 1..n : cells[src.inputs[i].name].ty = src.inputs[i].ty
    BY <2>1, <2>2 DEF SynthTrace
  <2>5. DOMAIN cells = Names(src, 0)
    BY <2>3, <2>4, NamesStart
  <2>6. StartOf(src, wit) \in Seq(Immediates)
    <3>1. SynthInv'
      BY StepSeed
    <3>2. cpis' \in Seq(Immediates)
      BY <3>1 DEF SynthInv, InstanceOK
    <3> QED
      BY <2>1, <3>2
  <2>7. cpis' = Cat(StartOf(src, wit), PushedTo(src, cells, 0)) /\ couts' = PutTo(src, cells, 0)
    <3>1. Cat(StartOf(src, wit), <<>>) = StartOf(src, wit)
      BY <2>6, CatEmpty
    <3> QED
      BY <2>1, <2>4, <3>1, NothingYet
  <2>8. IsFcn(cells)
    BY DEF SynthTrace
  <2>9. LaidTo(src, wit, cells, cpis', couts', 0)
    <3>1. \A j \in Nat : ~(j < 0)
      OBVIOUS
    <3> QED
      BY <2>1, <2>3, <2>4, <2>5, <2>6, <2>7, <2>8, <3>1 DEF LaidTo
  <2>10. \A k \in Nat : k + 1 = cpc' => LaidTo(src', wit', cells', cpis', couts', k)
    <3>1. \A k \in Nat : k + 1 = cpc' => k = 0
      BY <2>1
    <3> QED
      BY <2>1, <2>9, <3>1
  <2>11. cpc' <= Len(src'.code) + 1
    <3>1. Len(src.code) \in Nat
      BY <2>3, LenProperties DEF CodeOK, Source
    <3> QED
      BY <2>1, <3>1
  <2> QED
    BY <2>1, <2>8, <2>10, <2>11 DEF SynthTrace
<1> QED
  BY <1>1, <1>2

\* Before an instruction is executed its operands are what they are after.
LEMMA OperandsStay ==
  ASSUME NEW m, NEW mm, Keeps(m, mm), NEW i \in Instruction, AllResolvable(m, i.args)
  PROVE  ResolveAll(mm, i.args) = ResolveAll(m, i.args)
BY ResolveAllSame DEF Instruction

LEMMA TraceGate ==
  ASSUME SynthInv, SynthTrace, SingleAssignment(src), Gate, UNCHANGED <<src, wit>>
  PROVE  SynthTrace'
<1>1. CFetch(ValueOps)
  BY DEF Gate
<1>2. PICK n \in Nat :
        /\ n + 1 = cpc /\ n < Len(src.code) /\ CInstr = src.code[n + 1]
        /\ LaidTo(src, wit, cells, cpis, couts, n) /\ DOMAIN cells = Names(src, n)
        /\ Fresh(cells, CInstr.outs)
  BY <1>1, TraceFetched
<1>3. PICK i : i = CInstr
  OBVIOUS
<1>4. /\ i \in Instruction /\ i.op \in ValueOps /\ i.outs \in Seq(Identifier)
      /\ cstatus = "synthesizing"
  BY <1>1, <1>3, Fetched
<1>5. CASE \E s \in CStopped \ {"satisfied"} : CStop(s)
  BY <1>5, TraceStop
<1>6. CASE ~\E s \in CStopped \ {"satisfied"} : CStop(s)
  <2>1. PICK a : a = ResolveAll(cells, i.args)
    OBVIOUS
  <2>2. PICK vals : vals = Cells(i, a)
    OBVIOUS
  <2>3. {"failed", "no_chip", "unsatisfied", "misaligned"} \subseteq CStopped \ {"satisfied"}
    BY DEF CStopped, WitnessStops
  <2>4. /\ AllResolvable(cells, i.args) /\ Shape(i, TypesOf(a)) # {} /\ Holds(i, a)
        /\ cells' = Bind(cells, i.outs, vals) /\ cpc' = cpc + 1 /\ UNCHANGED <<cstatus, cpis, couts>>
    BY <1>3, <1>6, <2>1, <2>2, <2>3 DEF Gate, Operands, OperandTypes
  <2>5. PICK mm : mm = cells'
    OBVIOUS
  <2>6. Fresh(cells, i.outs) /\ mm = Bind(cells, i.outs, vals)
    BY <1>2, <1>3, <2>4, <2>5
  <2>7. Extends(cells, i.outs, vals, mm)
    BY <1>4, <2>6, BindFresh
  <2>8. /\ Keeps(cells, mm) /\ IsFcn(mm) /\ DOMAIN mm = DOMAIN cells \cup ToSet(i.outs)
        /\ \A j \in DOMAIN i.outs : mm[i.outs[j]] = vals[j]
    BY <2>7 DEF Extends
  <2>9. ResolveAll(mm, i.args) = a
    BY <1>4, <2>1, <2>4, <2>8, OperandsStay
  <2>10. Pushed(mm, i) = <<>> /\ Put(mm, i) = <<>>
    BY <1>4 DEF Pushed, Put, ValueOps, HashOps
  <2>11. LaidAt(src, mm, n)
    <3>1. AllEarly(src, n, i.args)
      BY <1>2, <2>4, OperandsEarly
    <3>2. HasGate(mm, i, a)
      BY <2>2, <2>4, <2>8 DEF HasGate
    <3>3. i.op \notin {"Impact", "Output"} \cup ReadOps
      BY <1>4 DEF ReadOps, ValueOps, HashOps
    <3>4. <<>> \in Seq(Immediates) /\ <<>> \in Seq(TypedValue)
      OBVIOUS
    <3> QED
      BY <1>2, <1>3, <2>9, <2>10, <3>1, <3>2, <3>3, <3>4
         DEF LaidAt, Laid, HasRead, HasPushed, HasPut
  <2>12. cpis' = Cat(cpis, Pushed(mm, i)) /\ couts' = Cat(couts, Put(mm, i))
    <3>1. cpis \in Seq(Immediates) /\ couts \in Seq(TypedValue)
      BY DEF SynthInv, InstanceOK
    <3>2. Cat(cpis, <<>>) = cpis /\ Cat(couts, <<>>) = couts
      BY <3>1, CatEmpty
    <3> QED
      BY <2>4, <2>10, <3>2
  <2> QED
    BY <1>2, <1>3, <1>4, <2>4, <2>5, <2>8, <2>11, <2>12, TraceAdvance
<1> QED
  BY <1>5, <1>6

LEMMA TraceRead ==
  ASSUME SynthInv, SynthTrace, SingleAssignment(src), WitnessRead, UNCHANGED <<src, wit>>
  PROVE  SynthTrace'
<1>1. CFetch(ReadOps)
  BY DEF WitnessRead, ReadOps
<1>2. PICK n \in Nat :
        /\ n + 1 = cpc /\ n < Len(src.code) /\ CInstr = src.code[n + 1]
        /\ LaidTo(src, wit, cells, cpis, couts, n) /\ DOMAIN cells = Names(src, n)
        /\ Fresh(cells, CInstr.outs)
  BY <1>1, TraceFetched
<1>3. PICK i : i = CInstr
  OBVIOUS
<1>4. /\ i \in Instruction /\ WellShaped(i) /\ i.op \in ReadOps /\ i.outs \in Seq(Identifier)
      /\ cstatus = "synthesizing" /\ DOMAIN i.outs = {1}
  BY <1>1, <1>3, Fetched, ReadName
<1>5. CASE CStop("bad_witness")
  BY <1>5, TraceStop DEF CStopped, WitnessStops
<1>6. CASE ~CStop("bad_witness")
  <2>1. PICK v : v = wit.memory[i.outs[1]]
    OBVIOUS
  <2>2. PICK vals : vals = <<v>>
    OBVIOUS
  <2>4. /\ v.ty = i.ty /\ cells' = Bind(cells, i.outs, vals) /\ cpc' = cpc + 1
        /\ UNCHANGED <<cstatus, cpis, couts>>
    BY <1>3, <1>6, <2>1, <2>2 DEF WitnessRead
  <2>5. PICK mm : mm = cells'
    OBVIOUS
  <2>6. Fresh(cells, i.outs) /\ mm = Bind(cells, i.outs, vals)
    BY <1>2, <1>3, <2>4, <2>5
  <2>7. Extends(cells, i.outs, vals, mm)
    BY <1>4, <2>6, BindFresh
  <2>8. /\ Keeps(cells, mm) /\ IsFcn(mm) /\ DOMAIN mm = DOMAIN cells \cup ToSet(i.outs)
        /\ mm[i.outs[1]] = v
    BY <1>4, <2>2, <2>7 DEF Extends
  <2>10. Pushed(mm, i) = <<>> /\ Put(mm, i) = <<>>
    BY <1>4 DEF Pushed, Put, ReadOps
  <2>11. LaidAt(src, mm, n)
    <3>1. <<>> \in Seq(Immediates) /\ <<>> \in Seq(TypedValue)
      OBVIOUS
    <3> QED
      BY <1>2, <1>3, <1>4, <2>4, <2>8, <2>10, <3>1 DEF LaidAt, Laid, HasRead
  <2>12. cpis' = Cat(cpis, Pushed(mm, i)) /\ couts' = Cat(couts, Put(mm, i))
    <3>1. cpis \in Seq(Immediates) /\ couts \in Seq(TypedValue)
      BY DEF SynthInv, InstanceOK
    <3>2. Cat(cpis, <<>>) = cpis /\ Cat(couts, <<>>) = couts
      BY <3>1, CatEmpty
    <3> QED
      BY <2>4, <2>10, <3>2
  <2> QED
    BY <1>2, <1>3, <1>4, <2>4, <2>5, <2>8, <2>11, <2>12, TraceAdvance
<1> QED
  BY <1>5, <1>6

\* An instruction without outputs leaves the cells.
LEMMA NothingBound ==
  ASSUME NEW i, WellShaped(i), i.op \in {"Impact", "Output"}, NEW m
  PROVE  Keeps(m, m) /\ DOMAIN m = DOMAIN m \cup ToSet(i.outs)
<1>1. ToSet(i.outs) = {}
  BY NoOutputShape DEF ToSet
<1> QED
  BY <1>1 DEF Keeps

LEMMA TraceImpact ==
  ASSUME SynthInv, SynthTrace, SingleAssignment(src), PushImpact, UNCHANGED <<src, wit>>
  PROVE  SynthTrace'
<1>1. CFetch({"Impact"})
  BY DEF PushImpact
<1>2. PICK n \in Nat :
        /\ n + 1 = cpc /\ n < Len(src.code) /\ CInstr = src.code[n + 1]
        /\ LaidTo(src, wit, cells, cpis, couts, n) /\ DOMAIN cells = Names(src, n)
  BY <1>1, TraceFetched
<1>3. PICK i : i = CInstr
  OBVIOUS
<1>4. /\ i \in Instruction /\ WellShaped(i) /\ i.op = "Impact" /\ i.args \in Seq(Operand)
      /\ cstatus = "synthesizing"
  BY <1>1, <1>3, Fetched
<1>5. CASE \E s \in CStopped \ {"satisfied"} : CStop(s)
  BY <1>5, TraceStop
<1>6. CASE ~\E s \in CStopped \ {"satisfied"} : CStop(s)
  <2>1. PICK a : a = ResolveAll(cells, i.args)
    OBVIOUS
  <2>2. PICK rest : rest = Tail(a)
    OBVIOUS
  <2>3. {"failed", "unsatisfied", "misaligned"} \subseteq CStopped \ {"satisfied"}
    BY DEF CStopped, WitnessStops
  <2>4. PICK pushed : pushed = [j \in DOMAIN rest |-> IF Head(a).val = 1 THEN rest[j].val ELSE 0]
    OBVIOUS
  <2>5. /\ AllResolvable(cells, i.args) /\ AllFr(a) /\ BitHolds(Head(a))
        /\ cpis' = cpis \o pushed /\ cpc' = cpc + 1 /\ UNCHANGED <<cstatus, cells, couts>>
    BY <1>3, <1>6, <2>1, <2>2, <2>3, <2>4 DEF PushImpact, Operands
  <2>6. PICK k \in Nat : Pushes(cells, i, a, k)
    BY <1>4, <2>1, PushedIs
  <2>7. a \in Seq(TypedValue) /\ Len(a) = k + 1 /\ a # <<>>
    <3>1. a \in Seq(TypedValue) /\ Len(a) = k + 1
      BY <1>4, <2>1, <2>5, <2>6, OperandsAreSeq DEF SynthInv, CellsOK, Pushes
    <3> QED
      BY <3>1, EmptySeq
  <2>8. /\ Head(a) = a[1] /\ rest \in Seq(TypedValue) /\ Len(rest) = k
        /\ \A j \in 1..k : rest[j] = a[j + 1]
    BY <2>2, <2>7, HeadTailProperties
  <2>9. DOMAIN rest = 1..k
    BY <2>8, LenProperties
  <2>10. pushed = Pushed(cells, i)
    <3>1. pushed = [j \in 1..k |-> IF a[1].val = 1 THEN a[j + 1].val ELSE 0]
      BY <2>4, <2>8, <2>9
    <3> QED
      BY <2>6, <3>1 DEF Pushes
  <2>11. Pushed(cells, i) \in Seq(Immediates)
    <3>1. \A j \in 1..k : pushed[j] \in Immediates
      <4> SUFFICES ASSUME NEW j \in 1..k PROVE pushed[j] \in Immediates
        OBVIOUS
      <4>1. j + 1 \in 1..k + 1 /\ pushed[j] \in {a[j + 1].val, 0}
        BY <2>4, <2>8, <2>9
      <4>2. Typed(a[j + 1]) /\ a[j + 1].ty = Native
        BY <2>5, <2>7, <4>1, TypedIsValue, ElementOfSeq, LenProperties DEF AllFr, IsFr
      <4>3. 0 \in Immediates
        BY Constants DEF Immediates
      <4> QED
        BY <4>1, <4>2, <4>3, FrRange
    <3>2. pushed = [j \in 1..k |-> pushed[j]]
      BY <2>4, <2>9
    <3>3. pushed \in Seq(Immediates)
      BY <3>1, <3>2, IsASeq
    <3> QED
      BY <2>10, <3>3
  <2>12. Put(cells, i) = <<>>
    BY <1>4 DEF Put
  <2>13. LaidAt(src, cells, n)
    <3>1. AllEarly(src, n, i.args)
      BY <1>2, <2>5, OperandsEarly
    <3>2. HasPushed(i, a)
      BY <2>5, <2>8 DEF HasPushed
    <3>3. i.op \notin ValueOps \cup {"Output"} \cup ReadOps
      BY <1>4 DEF ReadOps, ValueOps, HashOps
    <3>4. <<>> \in Seq(TypedValue)
      OBVIOUS
    <3> QED
      BY <1>2, <1>3, <2>1, <2>11, <2>12, <3>1, <3>2, <3>3, <3>4
         DEF LaidAt, Laid, HasRead, HasGate, HasPut
  <2>14. cpis' = Cat(cpis, Pushed(cells, i)) /\ couts' = Cat(couts, Put(cells, i))
    <3>1. couts \in Seq(TypedValue)
      BY DEF SynthInv
    <3>2. Cat(couts, <<>>) = couts
      BY <3>1, CatEmpty
    <3> QED
      BY <2>5, <2>10, <2>12, <3>2 DEF Cat
  <2>15. Keeps(cells, cells) /\ DOMAIN cells = DOMAIN cells \cup ToSet(i.outs) /\ IsFcn(cells)
    BY <1>4, NothingBound DEF SynthTrace
  <2>16. cells' = cells /\ cpc' = cpc + 1 /\ cstatus' = cstatus
    BY <2>5
  <2> QED
    BY <1>2, <1>3, <1>4, <2>13, <2>14, <2>15, <2>16, TraceAdvance
<1> QED
  BY <1>5, <1>6

LEMMA TraceOutput ==
  ASSUME SynthInv, SynthTrace, SingleAssignment(src), OutputCells, UNCHANGED <<src, wit>>
  PROVE  SynthTrace'
<1>1. CFetch({"Output"})
  BY DEF OutputCells
<1>2. PICK n \in Nat :
        /\ n + 1 = cpc /\ n < Len(src.code) /\ CInstr = src.code[n + 1]
        /\ LaidTo(src, wit, cells, cpis, couts, n) /\ DOMAIN cells = Names(src, n)
  BY <1>1, TraceFetched
<1>3. PICK i : i = CInstr
  OBVIOUS
<1>4. /\ i \in Instruction /\ WellShaped(i) /\ i.op = "Output" /\ i.args \in Seq(Operand)
      /\ cstatus = "synthesizing"
  BY <1>1, <1>3, Fetched
<1>5. CASE CStop("failed")
  BY <1>5, TraceStop DEF CStopped, WitnessStops
<1>6. CASE ~CStop("failed")
  <2>1. PICK a : a = ResolveAll(cells, i.args)
    OBVIOUS
  <2>2. /\ AllResolvable(cells, i.args) /\ Len(i.args) = Len(src.outputs)
        /\ TypesOf(a) = src.outputs
        /\ couts' = couts \o a /\ cpc' = cpc + 1 /\ UNCHANGED <<cstatus, cells, cpis>>
    BY <1>3, <1>6, <2>1 DEF OutputCells, Operands, OperandTypes
  <2>3. a \in Seq(TypedValue)
    BY <1>4, <2>1, <2>2, OperandsAreSeq DEF SynthInv, CellsOK
  <2>4. Put(cells, i) = a /\ Pushed(cells, i) = <<>>
    BY <1>4, <2>1 DEF Put, Pushed
  <2>5. LaidAt(src, cells, n)
    <3>1. AllEarly(src, n, i.args)
      BY <1>2, <2>2, OperandsEarly
    <3>2. HasPut(src, i, a)
      BY <2>2 DEF HasPut
    <3>3. i.op \notin ValueOps \cup {"Impact"} \cup ReadOps
      BY <1>4 DEF ReadOps, ValueOps, HashOps
    <3>4. <<>> \in Seq(Immediates)
      OBVIOUS
    <3> QED
      BY <1>2, <1>3, <2>1, <2>3, <2>4, <3>1, <3>2, <3>3, <3>4
         DEF LaidAt, Laid, HasRead, HasGate, HasPushed
  <2>6. cpis' = Cat(cpis, Pushed(cells, i)) /\ couts' = Cat(couts, Put(cells, i))
    <3>1. cpis \in Seq(Immediates)
      BY DEF SynthInv, InstanceOK
    <3>2. Cat(cpis, <<>>) = cpis
      BY <3>1, CatEmpty
    <3> QED
      BY <2>2, <2>4, <3>2 DEF Cat
  <2>7. Keeps(cells, cells) /\ DOMAIN cells = DOMAIN cells \cup ToSet(i.outs) /\ IsFcn(cells)
    BY <1>4, NothingBound DEF SynthTrace
  <2>8. cells' = cells /\ cpc' = cpc + 1 /\ cstatus' = cstatus
    BY <2>2
  <2> QED
    BY <1>2, <1>3, <1>4, <2>5, <2>6, <2>7, <2>8, TraceAdvance
<1> QED
  BY <1>5, <1>6

LEMMA TraceConstrain ==
  ASSUME SynthTrace, ConstrainInstance, UNCHANGED <<src, wit>>
  PROVE  SynthTrace'
<1>1. CASE CStop("unsatisfied")
  BY <1>1, TraceStop DEF CStopped, WitnessStops
<1>2. CASE CStop("satisfied") /\ (src.comm => CircuitCommitment = cpis[2])
  <2>1. UNCHANGED <<cpc, cells, cpis, couts>> /\ cstatus' = "satisfied"
    BY <1>2 DEF CStop
  <2>2. CircuitCommitment' = CircuitCommitment
    BY <2>1 DEF CircuitCommitment, CommittedInputs
  <2> QED
    BY <1>2, <2>1, <2>2 DEF SynthTrace, ConstrainInstance
<1> QED
  BY <1>1, <1>2 DEF ConstrainInstance

LEMMA TraceInit ==
  ASSUME StInit
  PROVE  SynthTrace
<1>1. cstatus = "assigning" /\ cpc = 1 /\ cells = EmptyMemory /\ couts = <<>>
  BY DEF StInit, CInit
<1>2. IsFcn(cells) /\ DOMAIN cells = {}
  BY <1>1 DEF EmptyMemory, IsFcn
<1>3. \A n \in Nat : n + 1 = cpc => n = 0
  BY <1>1
<1>4. InputNames(src, 0) = {}
  BY DEF InputNames
<1>5. Len(src.inputs) \in Nat
  BY SynthInit, LenProperties DEF SynthInv, SourceOK, Source
<1> QED
  BY <1>1, <1>2, <1>3, <1>4, <1>5 DEF SynthTrace

LEMMA TraceNext ==
  ASSUME SynthInv, SingleAssignment(src) => SynthTrace, [StNext]_stVars
  PROVE  SingleAssignment(src') => SynthTrace'
<1> SUFFICES ASSUME SingleAssignment(src') PROVE SynthTrace'
  OBVIOUS
<1>1. CASE Unchecked
  <2>1. UNCHANGED <<src, wit>> /\ CStep
    BY <1>1 DEF Unchecked
  <2>2. SingleAssignment(src) /\ SynthTrace
    BY <2>1
  <2> QED
    BY <2>1, <2>2, TraceAssign, TraceSeed, TraceGate, TraceRead, TraceImpact, TraceOutput,
       TraceConstrain DEF CStep
<1>2. CASE UNCHANGED <<src, wit, cvars>>
  <2>1. SynthTrace
    BY <1>2
  <2>2. CircuitCommitment' = CircuitCommitment
    BY <1>2 DEF CircuitCommitment, CommittedInputs, cvars
  <2> QED
    BY <1>2, <2>1, <2>2 DEF SynthTrace, cvars
<1> QED
  BY <1>1, <1>2 DEF StNext, Replay, Rest, stVars, cvars

------------------------------------------------------------------------------
(* What the run on the extract finds in its streams.                         *)

Takers == {"Impact", "PublicInput", "PrivateInput"}
OpenIn(m, i) == i.args = <<>> \/ (Resolvable(m, Guard(i)) /\ Resolve(m, Guard(i)) = Fr(1))
Share(m, op, i) ==
  IF i.op = op /\ OpenIn(m, i)
  THEN IF op = "Impact" THEN Payloads(ResolveAll(m, ImpactInputs(i))) ELSE Encode(m[i.outs[1]])
  ELSE <<>>
ShareTo(s, m, op, n) == FlattenSeq([k \in 1..n |-> Share(m, op, s.code[k])])
RawShare(s, m, k) == Encode(m[s.inputs[k].name])
RawTo(s, m, n) == FlattenSeq([k \in 1..n |-> RawShare(s, m, k)])

\* The stream f holds x after u, and then a rest.
Carries(f, u, x) ==
  /\ R!Available(f, Len(u), Len(x)) /\ R!Taken(f, Len(u), Len(x)) = x

\* A stream carries a piece where that begins.
LEMMA HoldsSlice ==
  ASSUME NEW u \in Seq(Immediates), NEW x \in Seq(Immediates), NEW r \in Seq(Immediates),
         NEW f, f = Cat(Cat(u, x), r)
  PROVE  Carries(f, u, x)
<1>1. PICK p \in Nat, q \in Nat, z \in Nat : p = Len(u) /\ q = Len(x) /\ z = Len(r)
  BY LenProperties
<1>2. f \in Seq(Immediates) /\ Len(f) = p + q + z
  BY <1>1, ConcatProperties DEF Cat
<1>3. \A i \in 1..q : f[p + i] = x[i]
  <2>1. \A i \in DOMAIN x : Cat(Cat(u, x), r)[Len(u) + i] = x[i]
    BY CatMiddle
  <2>2. DOMAIN x = 1..q
    BY <1>1, LenProperties
  <2> QED
    BY <1>1, <2>1, <2>2
<1>4. \A i \in p + 1..p + q : f[i] \in Immediates
  BY <1>1, <1>2, ElementOfSeq
<1>5. PICK t : t = SubSeq(f, p + 1, p + q)
  OBVIOUS
<1>6. /\ t \in Seq(Immediates) /\ Len(t) = IF p + 1 <= p + q THEN p + q - (p + 1) + 1 ELSE 0
      /\ \A i \in 1..p + q - (p + 1) + 1 : t[i] = f[p + 1 + i - 1]
  BY <1>1, <1>4, <1>5, SubSeqProperties
<1>7. Len(t) = q
  BY <1>1, <1>6
<1>8. \A i \in 1..q : t[i] = x[i]
  <2> SUFFICES ASSUME NEW i \in 1..q PROVE t[i] = x[i]
    OBVIOUS
  <2>1. i \in 1..p + q - (p + 1) + 1 /\ p + 1 + i - 1 = p + i
    BY <1>1
  <2> QED
    BY <1>3, <1>6, <2>1
<1>9. t = x
  BY <1>1, <1>6, <1>7, <1>8, SeqEqual
<1>10. Len(u) + Len(x) <= Len(f)
  BY <1>1, <1>2
<1>11. SubSeq(f, Len(u) + 1, Len(u) + Len(x)) = x
  <2>1. SubSeq(f, p + 1, p + q) = x
    BY <1>5, <1>9
  <2> QED
    BY <1>1, <2>1
<1> QED
  BY <1>10, <1>11 DEF Carries, R!Available, R!Taken

LEMMA SeqOfStreams ==
  ASSUME NEW n \in Nat, NEW t, t = [k \in 1..n |-> t[k]], \A k \in 1..n : t[k] \in Seq(Immediates)
  PROVE  t \in Seq(Seq(Immediates)) /\ Len(t) = n
BY IsASeq

\* A stream of pieces t[1], t[2], ..., and what it carries after the first k.
Cut(f, u, x, v) ==
  /\ u \in Seq(Immediates) /\ x \in Seq(Immediates) /\ Carries(f, u, x) /\ v = Cat(u, x)
  /\ Len(v) = Len(u) + Len(x)

\* Piece k + 1 of a stream lies where the first k pieces end.
LEMMA CutAt ==
  ASSUME NEW n \in Nat, NEW t, t = [k \in 1..n |-> t[k]], \A k \in 1..n : t[k] \in Seq(Immediates),
         NEW k \in Nat, k < n,
         NEW u, u = FlattenSeq([j \in 1..k |-> t[j]]),
         NEW v, v = FlattenSeq([j \in 1..k + 1 |-> t[j]]),
         NEW x, x = t[k + 1], NEW f, f = FlattenSeq(t)
  PROVE  Cut(f, u, x, v)
<1>1. t \in Seq(Seq(Immediates)) /\ Len(t) = n
  BY SeqOfStreams
<1>2. x \in Seq(Immediates)
  BY <1>1
<1>3. PICK s : s = [j \in 1..k |-> t[j]]
  OBVIOUS
<1>4. PICK w : w = [j \in 1..k + 1 |-> t[j]]
  OBVIOUS
<1>6. s \in Seq(Seq(Immediates))
  <2>1. s = [i \in 1..k |-> s[i]]
    BY <1>3
  <2>2. \A i \in 1..k : s[i] \in Seq(Immediates)
    BY <1>3
  <2> QED
    BY <2>1, <2>2, SeqOfStreams
<1>7. Grows(s, w, k, x)
  BY <1>3, <1>4 DEF Grows
<1>8. FlattenSeq(s) \in Seq(Immediates) /\ FlattenSeq(w) = Cat(FlattenSeq(s), x)
  BY <1>2, <1>6, <1>7, FlattenGrows
<1>9. PICK r \in Seq(Immediates) : FlattenSeq(t) = Cat(Cat(FlattenSeq(FirstOf(t, k)), t[k + 1]), r)
  BY <1>1, FlattenSplits
<1>10. FirstOf(t, k) = s
  BY <1>3 DEF FirstOf
<1>11. u \in Seq(Immediates) /\ v = Cat(u, x)
  BY <1>3, <1>4, <1>8
<1>12. f = Cat(Cat(u, x), r)
  BY <1>3, <1>9, <1>10
<1>13. Carries(f, u, x)
  BY <1>2, <1>11, <1>12, HoldsSlice
<1>14. Len(Cat(u, x)) = Len(u) + Len(x)
  BY <1>2, <1>11, ConcatProperties DEF Cat
<1> QED
  BY <1>2, <1>11, <1>13, <1>14 DEF Cut

------------------------------------------------------------------------------
\* A satisfied circuit of a single-assignment source.
SatisfiedRun ==
  /\ SynthInv /\ CellsBound /\ SynthTrace
  /\ cstatus = "satisfied" /\ SingleAssignment(src)

\* A satisfied circuit has laid out every instruction.
LEMMA AtEnd ==
  ASSUME SatisfiedRun
  PROVE  \E n \in Nat :
           /\ n = Len(src.code) /\ DOMAIN src.code = 1..n /\ CodeOK(src)
           /\ LaidTo(src, wit, cells, cpis, couts, n) /\ MemoryTyped(cells)
           /\ DOMAIN cells = Names(src, n)
<1>1. CodeOK(src) /\ MemoryTyped(cells) /\ cstatus = "satisfied"
  BY SourceIsOK DEF SatisfiedRun, SynthInv, CellsOK
<1>2. PICK k \in Nat : k + 1 = cpc
  BY Before DEF SatisfiedRun
<1>3. PICK n \in Nat : n = Len(src.code) /\ DOMAIN src.code = 1..n
  BY <1>1, LenProperties DEF CodeOK, Source
<1>4. cpc > n /\ cpc <= n + 1
  BY <1>1, <1>3 DEF SatisfiedRun, CellsBound, SynthTrace
<1>5. k = n
  BY <1>2, <1>3, <1>4
<1>6. LaidTo(src, wit, cells, cpis, couts, n)
  BY <1>1, <1>2, <1>5 DEF SatisfiedRun, SynthTrace
<1>7. DOMAIN cells = Names(src, n)
  BY <1>6 DEF LaidTo
<1> QED
  BY <1>1, <1>3, <1>6, <1>7

\* Instruction k + 1 of a satisfied circuit.
LEMMA EndAt ==
  ASSUME SatisfiedRun, NEW k \in Nat, k < Len(src.code), NEW i, i = src.code[k + 1]
  PROVE  /\ i \in Instruction /\ WellShaped(i) /\ i.args \in Seq(Operand)
         /\ i.outs \in Seq(Identifier) /\ i.ty \in IrType /\ k + 1 \in DOMAIN src.code
         /\ CodeOK(src) /\ MemoryTyped(cells)
         /\ LaidAt(src, cells, k) /\ Names(src, k + 1) \subseteq DOMAIN cells
         /\ Names(src, k) \subseteq DOMAIN cells /\ ToSet(i.outs) \subseteq DOMAIN cells
<1>1. PICK n \in Nat :
        /\ n = Len(src.code) /\ CodeOK(src) /\ LaidTo(src, wit, cells, cpis, couts, n)
        /\ MemoryTyped(cells) /\ DOMAIN cells = Names(src, n)
  BY AtEnd
<1>2. /\ i \in Instruction /\ WellShaped(i) /\ i.args \in Seq(Operand)
      /\ i.outs \in Seq(Identifier) /\ i.ty \in IrType /\ k + 1 \in DOMAIN src.code
  BY <1>1, CodeAt
<1>3. LaidAt(src, cells, k)
  BY <1>1 DEF LaidTo
<1>4. k + 1 <= n /\ k + 1 \in Nat /\ k <= k + 1
  BY <1>1
<1>5. Names(src, k + 1) \subseteq Names(src, n)
  BY <1>1, <1>4, NamesGrow
<1>6. Names(src, k + 1) = Names(src, k) \cup ToSet(i.outs)
  BY NamesNext
<1> QED
  BY <1>1, <1>2, <1>3, <1>5, <1>6

\* The operands of an instruction that is not a read.
LEMMA OperandsAtEnd ==
  ASSUME SatisfiedRun, NEW k \in Nat, k < Len(src.code), NEW i, i = src.code[k + 1],
         i.op \notin ReadOps, NEW a, a = ResolveAll(cells, i.args)
  PROVE  /\ AllEarly(src, k, i.args) /\ AllResolvable(cells, i.args)
         /\ AllTyped(a) /\ DOMAIN a = 1..Len(i.args)
         /\ a \in Seq(TypedValue) /\ Len(a) = Len(i.args) /\ a = [j \in 1..Len(i.args) |-> a[j]]
<1>1. /\ i.args \in Seq(Operand) /\ MemoryTyped(cells) /\ AllEarly(src, k, i.args)
      /\ Names(src, k) \subseteq DOMAIN cells
  BY EndAt DEF LaidAt
<1>2. AllResolvable(cells, i.args)
  BY <1>1, EarlyIs
<1>3. AllTyped(a) /\ DOMAIN a = 1..Len(i.args) /\ a \in Seq(TypedValue) /\ Len(a) = Len(i.args)
  BY <1>1, <1>2, OperandsAre, OperandsAreSeq
<1>4. a = [j \in DOMAIN a |-> a[j]]
  BY DEF ResolveAll
<1> QED
  BY <1>1, <1>2, <1>3, <1>4

\* The guard of an Impact, and what it pushes.
LEMMA ImpactAtEnd ==
  ASSUME SatisfiedRun, NEW k \in Nat, k < Len(src.code), NEW i, i = src.code[k + 1],
         i.op = "Impact", NEW a, a = ResolveAll(cells, i.args)
  PROVE  /\ AllFr(a) /\ Resolve(cells, Guard(i)) = a[1] /\ IsBit(a[1])
         /\ i.args # <<>> /\ 1 \in DOMAIN i.args
         /\ a[1].val # 0 <=> a[1] = Fr(1)
         /\ OpenIn(cells, i) <=> a[1].val = 1
         /\ a[1].val = 1 => Pushed(cells, i) = Payloads(ResolveAll(cells, ImpactInputs(i)))
         /\ a[1].val # 1 => Pushed(cells, i) = [j \in 1..Len(ImpactInputs(i)) |-> 0]
         /\ Pushed(cells, i) \in Seq(Immediates)
<1>1. i.op \notin ReadOps /\ i \in Instruction /\ WellShaped(i)
  BY EndAt DEF ReadOps
<1>2. /\ AllResolvable(cells, i.args) /\ AllTyped(a)
  BY <1>1, OperandsAtEnd
<1>3. LaidAt(src, cells, k)
  BY EndAt
<1>4. AllFr(a) /\ BitHolds(a[1]) /\ Pushed(cells, i) \in Seq(Immediates)
  BY <1>1, <1>3 DEF LaidAt, Laid, HasPushed
<1>5. PICK n \in Nat : Pushes(cells, i, a, n)
  BY <1>1, PushedIs
<1>6. 1 \in 1..n + 1 /\ \A j \in 1..n : j + 1 \in 1..n + 1
  OBVIOUS
<1>7. /\ DOMAIN i.args = 1..n + 1 /\ DOMAIN a = 1..n + 1 /\ DOMAIN ImpactInputs(i) = 1..n
      /\ Len(ImpactInputs(i)) = n /\ Resolve(cells, Guard(i)) = a[1]
      /\ \A j \in 1..n : Resolve(cells, ImpactInputs(i)[j]) = a[j + 1]
      /\ Pushed(cells, i) = [j \in 1..n |-> IF a[1].val = 1 THEN a[j + 1].val ELSE 0]
  BY <1>5 DEF Pushes
<1>8. i.args # <<>> /\ 1 \in DOMAIN i.args
  BY <1>1, <1>6, <1>7 DEF WellShaped
<1>9. Typed(a[1]) /\ a[1].ty = Native /\ a[1].val \in {0, 1}
  BY <1>2, <1>4, <1>6, <1>7 DEF AllTyped, AllFr, IsFr, BitHolds
<1>10. IsBit(a[1]) /\ a[1] = Fr(a[1].val)
  BY <1>9, FrRange DEF IsBit, IsFr
<1>11. Fr(1).val = 1
  BY DEF Fr, V
<1>12. Resolvable(cells, Guard(i))
  BY <1>2, <1>8 DEF AllResolvable, Guard
<1>13. OpenIn(cells, i) <=> a[1].val = 1
  BY <1>7, <1>8, <1>9, <1>10, <1>11, <1>12 DEF OpenIn
<1>14. a[1].val = 1 => Pushed(cells, i) = Payloads(ResolveAll(cells, ImpactInputs(i)))
  <2> SUFFICES ASSUME a[1].val = 1 PROVE Pushed(cells, i) = Payloads(ResolveAll(cells, ImpactInputs(i)))
    OBVIOUS
  <2>1. Payloads(ResolveAll(cells, ImpactInputs(i))) = [j \in 1..n |-> a[j + 1].val]
    BY <1>7 DEF Payloads, ResolveAll
  <2> QED
    BY <1>7, <2>1
<1>15. a[1].val # 1 => Pushed(cells, i) = [j \in 1..Len(ImpactInputs(i)) |-> 0]
  BY <1>7
<1>16. a[1].val # 0 <=> a[1] = Fr(1)
  BY <1>9, <1>10, <1>11
<1> QED
  BY <1>4, <1>7, <1>8, <1>10, <1>13, <1>14, <1>15, <1>16

\* The cell of a read.
LEMMA ReadAtEnd ==
  ASSUME SatisfiedRun, NEW k \in Nat, k < Len(src.code), NEW i, i = src.code[k + 1],
         i.op \in ReadOps
  PROVE  /\ i.outs[1] \in DOMAIN cells /\ Typed(cells[i.outs[1]]) /\ cells[i.outs[1]].ty = i.ty
         /\ i.outs \in Seq(Identifier) /\ DOMAIN i.outs = {1} /\ ToSet(i.outs) = {i.outs[1]}
         /\ i.outs[1] \in Identifier
<1>1. /\ i \in Instruction /\ WellShaped(i) /\ LaidAt(src, cells, k) /\ MemoryTyped(cells)
      /\ ToSet(i.outs) \subseteq DOMAIN cells
  BY EndAt
<1>2. /\ i.outs \in Seq(Identifier) /\ DOMAIN i.outs = {1} /\ ToSet(i.outs) = {i.outs[1]}
      /\ i.outs[1] \in Identifier
  BY <1>1, ReadName
<1> QED
  BY <1>1, <1>2 DEF MemoryTyped, LaidAt, Laid, HasRead

\* What an instruction takes from a stream is elements of the field.
LEMMA ShareTyped ==
  ASSUME SatisfiedRun, NEW k \in Nat, k < Len(src.code), NEW op \in Takers
  PROVE  Share(cells, op, src.code[k + 1]) \in Seq(Immediates)
<1>1. PICK i : i = src.code[k + 1]
  OBVIOUS
<1>2. CASE ~(i.op = op /\ OpenIn(cells, i))
  <2>1. Share(cells, op, i) = <<>>
    BY <1>2 DEF Share
  <2> QED
    BY <1>1, <2>1
<1>3. CASE i.op = op /\ OpenIn(cells, i) /\ op = "Impact"
  <2>1. PICK a : a = ResolveAll(cells, i.args)
    OBVIOUS
  <2>2. Pushed(cells, i) \in Seq(Immediates) /\ a[1].val = 1
        /\ (a[1].val = 1 => Pushed(cells, i) = Payloads(ResolveAll(cells, ImpactInputs(i))))
    BY <1>1, <1>3, <2>1, ImpactAtEnd
  <2> QED
    BY <1>1, <1>3, <2>2 DEF Share
<1>4. CASE i.op = op /\ OpenIn(cells, i) /\ op # "Impact"
  <2>1. Typed(cells[i.outs[1]])
    BY <1>1, <1>4, ReadAtEnd DEF Takers, ReadOps
  <2> QED
    BY <1>1, <1>4, <2>1, EncodeTyped DEF Share
<1> QED
  BY <1>2, <1>3, <1>4

------------------------------------------------------------------------------
(* The run on the extract.                                                   *)

StreamOf(op) ==
  CASE op = "Impact" -> "public_in" [] op = "PublicInput" -> "public_out"
    [] op = "PrivateInput" -> "private"

\* LaxAt(n + 1), as a function of the source and the cells.
LaxGate(i, a) ==
  \/ i.op = "Assert" /\ a[1].val # 1
  \/ /\ i.op \in {"ConstrainBits", "LessThan"}
     /\ i.n[1] >= FR_BITS \/ \E j \in DOMAIN a : a[j].val >= 2^i.n[1]
  \/ i.op \in {"DivModPowerOfTwo", "ReconstituteField"} /\ i.n[1] > SplitBits
  \/ i.op = "ReconstituteField" /\ i.n[1] = 0
  \/ i.op \in HashOps /\ AlignedWidth(i.align) < Len(i.args)
LaxGuard(s, m, n, i) ==
  /\ i.op \in ReadOps /\ i.args # <<>>
  /\ \/ ~Early(s, n, Guard(i))
     \/ ~IsBit(Resolve(m, Guard(i)))
     \/ Resolve(m, Guard(i)) = Fr(0) /\ m[i.outs[1]] # Default(i.ty)
LaxOf(s, m, n) ==
  LaxGate(s.code[n + 1], ResolveAll(m, s.code[n + 1].args)) \/ LaxGuard(s, m, n, s.code[n + 1])

\* A run with memory mm that has decoded n inputs of the extract of m, and one
\* that has executed n instructions.
ReadsTo(s, m, mm, c, os, n) ==
  /\ IsFcn(mm) /\ DOMAIN mm = InputNames(s, n) /\ Keeps(mm, m) /\ n <= Len(s.inputs)
  /\ c.raw = Len(RawTo(s, m, n)) /\ os = <<>>
  /\ \A op \in Takers : c[StreamOf(op)] = 0
FollowsTo(s, w, m, mm, ps, os, c, n) ==
  /\ IsFcn(mm) /\ DOMAIN mm = Names(s, n) /\ Keeps(mm, m) /\ n <= Len(s.code)
  /\ ps = Cat(StartOf(s, w), PushedTo(s, m, n)) /\ os = PutTo(s, m, n)
  /\ \A op \in Takers : c[StreamOf(op)] = Len(ShareTo(s, m, op, n))
\* Where a run stands that has passed no check the circuit omits.
FollowsAt(n) ==
  /\ rpis = <<>> => rstatus = "decoding" /\ ReadsTo(src, cells, rmemory, rcur, routputs, n)
  /\ rpis # <<>> =>
       /\ rstatus \in {"executing", "accepted", "rejected"}
       /\ FollowsTo(src, wit, cells, rmemory, rpis, routputs, rcur, n)
       /\ rstatus = "rejected" => n < Len(src.code) /\ LaxOf(src, cells, n)
       /\ rstatus = "accepted" => n = Len(src.code)
Clear(n) == rpis # <<>> => \A j \in Nat : j < n => ~LaxOf(src, cells, j)
FollowInv == Replayable => \A n \in Nat : n + 1 = rpc /\ Clear(n) => FollowsAt(n)

\* What a run with memory m has made sure of at instruction n + 1.
PassedAt(s, m, n) ==
  LET i == s.code[n + 1] IN
  /\ i.op \in ValueOps => AllEarly(s, n, i.args) /\ OffGate(i, ResolveAll(m, i.args)) # {}
  /\ i.op \in ReadOps /\ i.args # <<>> =>
       /\ Early(s, n, Guard(i)) /\ IsBit(Resolve(m, Guard(i)))
       /\ Resolve(m, Guard(i)) = Fr(0) => m[i.outs[1]] = Default(i.ty)
PassedTo(s, m, n) ==
  IsFcn(m) /\ DOMAIN m = Names(s, n) /\ \A j \in Nat : j < n => PassedAt(s, m, j)

\* The run starts when the circuit is satisfied.
Untouched ==
  /\ rstatus = "decoding" /\ rpc = 1
  /\ rmemory = EmptyMemory /\ rpis = <<>> /\ routputs = <<>>
  /\ rcur = [s \in R!StreamNames |-> 0]
Starts == cstatus = "satisfied" \/ Untouched

------------------------------------------------------------------------------
(* The extract.                                                              *)

\* The public inputs of a satisfied circuit start with the binding input and the
\* commitment of the witness.
LEMMA StartIs ==
  ASSUME WitnessOK, src.comm => wit.comm # <<>>,
         NEW u, u = StartOf(src, wit)
  PROVE  /\ u \in Seq(Immediates) /\ 1 \in DOMAIN u /\ u[1] = wit.binding
         /\ src.comm => u = <<wit.binding>> \o <<wit.comm[1]>> /\ 2 \in DOMAIN u /\ u[2] = wit.comm[1]
<1>1. CASE src.comm
  <2>1. PICK b \in Immediates, c \in Immediates : b = wit.binding /\ c = wit.comm[1]
    <3>1. 1 \in DOMAIN wit.comm
      BY <1>1, LenProperties, EmptySeq DEF WitnessOK
    <3> QED
      BY <3>1, ElementOfSeq DEF WitnessOK
  <2>8. PICK p : p = <<b>>
    OBVIOUS
  <2>9. PICK q : q = <<c>>
    OBVIOUS
  <2>2. p \in Seq(Immediates) /\ Len(p) = 1 /\ p[1] = b
    BY <2>1, <2>8
  <2>3. q \in Seq(Immediates) /\ Len(q) = 1 /\ q[1] = c
    BY <2>1, <2>9
  <2>4. u = Cat(p, q) /\ u = <<wit.binding>> \o <<wit.comm[1]>>
    BY <1>1, <2>1, <2>8, <2>9 DEF StartOf, Cat
  <2>5. PICK w \in Seq(Immediates) : w = Cat(p, q) /\ Joins(w, p, q, 1, 1)
    BY <2>2, <2>3, CatIs
  <2>6. 1 \in 1..1 /\ 1 \in 1..2 /\ 2 \in 1..2 /\ 1 + 1 = 2
    OBVIOUS
  <2>7. w[1] = b /\ w[2] = c /\ DOMAIN w = 1..2
    BY <2>2, <2>3, <2>5, <2>6 DEF Joins, Begins, Ends
  <2> QED
    BY <1>1, <2>1, <2>4, <2>5, <2>6, <2>7
<1>2. CASE ~src.comm
  <2>1. PICK b \in Immediates : b = wit.binding
    BY DEF WitnessOK
  <2>2. u = <<b>> \o <<>>
    BY <1>2, <2>1 DEF StartOf
  <2>3. <<b>> \o <<>> = <<b>> /\ <<b>> \in Seq(Immediates) /\ DOMAIN <<b>> = 1..1
    OBVIOUS
  <2>4. 1 \in 1..1
    OBVIOUS
  <2> QED
    BY <1>2, <2>1, <2>2, <2>3, <2>4
<1> QED
  BY <1>1, <1>2

LEMMA FirstOfCat ==
  ASSUME NEW S, NEW u \in Seq(S), NEW v \in Seq(S), NEW i \in DOMAIN u
  PROVE  Cat(u, v)[i] = u[i]
<1>1. PICK m \in Nat, n \in Nat : m = Len(u) /\ n = Len(v)
  BY LenProperties
<1>2. PICK w : w = Cat(u, v) /\ Joins(w, u, v, m, n)
  BY <1>1, CatIs
<1>3. i \in 1..m
  BY <1>1, LenProperties
<1> QED
  BY <1>2, <1>3 DEF Joins, Begins

\* What all instructions of a satisfied circuit have pushed.
LEMMA AllPushed ==
  ASSUME SatisfiedRun, NEW n \in Nat, n <= Len(src.code)
  PROVE  PushedTo(src, cells, n) \in Seq(Immediates) /\ PutTo(src, cells, n) \in Seq(TypedValue)
<1>1. PICK l \in Nat : l = Len(src.code) /\ LaidTo(src, wit, cells, cpis, couts, l)
  BY AtEnd
<1>2. \A j \in Nat : j < n => LaidAt(src, cells, j)
  <2> SUFFICES ASSUME NEW j \in Nat, j < n PROVE LaidAt(src, cells, j)
    OBVIOUS
  <2>1. j < l
    BY <1>1
  <2> QED
    BY <1>1, <2>1 DEF LaidTo
<1>3. PICK t : t = [k \in 1..n |-> Pushed(cells, src.code[k])]
  OBVIOUS
<1>4. PICK u : u = [k \in 1..n |-> Put(cells, src.code[k])]
  OBVIOUS
<1>5. t \in Seq(Seq(Immediates))
  <2>1. t = [k \in 1..n |-> t[k]]
    BY <1>3
  <2>2. \A k \in 1..n : t[k] \in Seq(Immediates)
    BY <1>2, <1>3, LaidTyped
  <2> QED
    BY <2>1, <2>2, SeqOfStreams
<1>6. u \in Seq(Seq(TypedValue))
  <2>1. u = [k \in 1..n |-> u[k]]
    BY <1>4
  <2>2. \A k \in 1..n : u[k] \in Seq(TypedValue)
    BY <1>2, <1>4, LaidTyped
  <2> QED
    BY <2>1, <2>2, IsASeq
<1> QED
  BY <1>3, <1>4, <1>5, <1>6, FlattenTyped DEF PushedTo, PutTo

\* The extract has the binding input and the commitment of the witness.
LEMMA HeaderIs ==
  ASSUME SatisfiedRun
  PROVE  /\ cpis[1] = wit.binding
         /\ src.comm => cpis[2] = wit.comm[1] /\ wit.comm # <<>>
         /\ StartOf(src, wit) \in Seq(Immediates) /\ StartOf(src, wit) # <<>>
<1>1. PICK n \in Nat : n = Len(src.code) /\ LaidTo(src, wit, cells, cpis, couts, n)
  BY AtEnd
<1>2. PICK u : u = StartOf(src, wit)
  OBVIOUS
<1>3. (src.comm => wit.comm # <<>>) /\ WitnessOK
  BY <1>1 DEF LaidTo, SatisfiedRun, SynthInv
<1>4. /\ u \in Seq(Immediates) /\ 1 \in DOMAIN u /\ u[1] = wit.binding
      /\ src.comm => u = <<wit.binding>> \o <<wit.comm[1]>> /\ 2 \in DOMAIN u /\ u[2] = wit.comm[1]
  BY <1>2, <1>3, StartIs
<1>5. PICK v \in Seq(Immediates) : v = PushedTo(src, cells, n)
  BY <1>1, AllPushed
<1>6. cpis = Cat(u, v)
  BY <1>1, <1>2, <1>5 DEF LaidTo
<1>7. cpis[1] = u[1] /\ (2 \in DOMAIN u => cpis[2] = u[2])
  BY <1>4, <1>5, <1>6, FirstOfCat
<1>8. u # <<>>
  BY <1>4, EmptySeq
<1> QED
  BY <1>2, <1>3, <1>4, <1>7, <1>8

\* The streams of the extract are the shares of the instructions, in order.
LEMMA ExtractIs ==
  ASSUME SatisfiedRun
  PROVE  /\ Extract.inputs = RawTo(src, cells, Len(src.inputs))
         /\ Extract.public_in = ShareTo(src, cells, "Impact", Len(src.code))
         /\ Extract.public_out = ShareTo(src, cells, "PublicInput", Len(src.code))
         /\ Extract.private = ShareTo(src, cells, "PrivateInput", Len(src.code))
         /\ Extract.binding = wit.binding
         /\ Extract.comm = IF src.comm THEN wit.comm ELSE <<>>
<1>1. PICK n \in Nat : n = Len(src.code) /\ DOMAIN src.code = 1..n /\ CodeOK(src)
  BY AtEnd
<1>2. PICK l \in Nat : l = Len(src.inputs) /\ DOMAIN src.inputs = 1..l
  BY <1>1, LenProperties DEF CodeOK, Source
<1>3. Extract.inputs = RawTo(src, cells, Len(src.inputs))
  <2>1. Extract.inputs = EncodeAll([i \in 1..l |-> cells[src.inputs[i].name]])
    BY <1>2 DEF Extract
  <2>2. EncodeAll([i \in 1..l |-> cells[src.inputs[i].name]])
          = FlattenSeq([i \in 1..l |-> Encode(cells[src.inputs[i].name])])
    BY DEF EncodeAll
  <2> QED
    BY <1>2, <2>1, <2>2 DEF RawTo, RawShare
<1>4. \A k \in 1..n :
        /\ Share(cells, "Impact", src.code[k]) =
             IF src.code[k].op = "Impact" /\ Open(src.code[k]) THEN Published(src.code[k]) ELSE <<>>
        /\ Share(cells, "PublicInput", src.code[k]) =
             IF src.code[k].op = "PublicInput" /\ Open(src.code[k]) THEN ReadCell(src.code[k]) ELSE <<>>
        /\ Share(cells, "PrivateInput", src.code[k]) =
             IF src.code[k].op = "PrivateInput" /\ Open(src.code[k]) THEN ReadCell(src.code[k]) ELSE <<>>
  BY DEF Share, Open, OpenIn, Published, ReadCell
<1>5. Extract.public_in = ShareTo(src, cells, "Impact", Len(src.code))
  BY <1>1, <1>4 DEF Extract, Collected, ShareTo
<1>6. Extract.public_out = ShareTo(src, cells, "PublicInput", Len(src.code))
  BY <1>1, <1>4 DEF Extract, Collected, ShareTo
<1>7. Extract.private = ShareTo(src, cells, "PrivateInput", Len(src.code))
  BY <1>1, <1>4 DEF Extract, Collected, ShareTo
<1>8. Extract.binding = wit.binding
  <2>1. Extract.binding = cpis[1]
    BY DEF Extract
  <2> QED
    BY <2>1, HeaderIs
<1>9. Extract.comm = IF src.comm THEN wit.comm ELSE <<>>
  BY DEF Extract
<1> QED
  BY <1>3, <1>5, <1>6, <1>7, <1>8, <1>9

\* The run reads the same definitions.
LEMMA SameEncode ==
  ASSUME NEW v
  PROVE  R!Encode(v) = Encode(v)
BY DEF ByteBase, R!ByteBase, Native, R!Native, Bool, R!Bool, Byte, R!Byte,
  Scalar, R!Scalar, LeBytes, R!LeBytes, Total, R!Total,
  LeInt, R!LeInt, DivCeil, R!DivCeil, ChunkAt, R!ChunkAt, Chunks, R!Chunks, encoded_len,
  R!encoded_len, Limbs, R!Limbs, EncodePoint, R!EncodePoint, Encode, R!Encode

LEMMA SameEncodeAll ==
  ASSUME NEW vs
  PROVE  R!EncodeAll(vs) = EncodeAll(vs)
<1>1. [i \in DOMAIN vs |-> R!Encode(vs[i])] = [i \in DOMAIN vs |-> Encode(vs[i])]
  BY SameEncode
<1>2. ASSUME NEW s
      PROVE  R!FlattenSeq(s) = FlattenSeq(s)
  BY DEF R!FlattenSeq, FlattenSeq
<1> QED
  BY <1>1, <1>2 DEF EncodeAll, R!EncodeAll

LEMMA SameControl ==
  ASSUME NEW m, NEW o, NEW v, NEW vs, NEW i
  PROVE  /\ R!Resolve(m, o) = Resolve(m, o) /\ R!Resolvable(m, o) = Resolvable(m, o)
         /\ R!IsBit(v) = IsBit(v) /\ R!AllFr(vs) = AllFr(vs) /\ R!Payloads(vs) = Payloads(vs)
         /\ R!Guard(i) = Guard(i) /\ R!ImpactInputs(i) = ImpactInputs(i)
BY DEF Resolve, R!Resolve, Resolvable, R!Resolvable, IsBit, R!IsBit, IsFr, R!IsFr, AllFr, R!AllFr,
  Payloads, R!Payloads, Guard, R!Guard, ImpactInputs, R!ImpactInputs, Fr, R!Fr, V, R!V,
  Native, R!Native

\* The share of instruction k + 1 lies where those before it end.
LEMMA ShareCut ==
  ASSUME SatisfiedRun, NEW k \in Nat, k < Len(src.code), NEW op \in Takers,
         NEW f, f = ShareTo(src, cells, op, Len(src.code))
  PROVE  Cut(f, ShareTo(src, cells, op, k), Share(cells, op, src.code[k + 1]),
             ShareTo(src, cells, op, k + 1))
<1>1. PICK n \in Nat : n = Len(src.code)
  BY AtEnd
<1>2. PICK t : t = [j \in 1..n |-> Share(cells, op, src.code[j])]
  OBVIOUS
<1>3. t = [j \in 1..n |-> t[j]]
  BY <1>2
<1>4. \A j \in 1..n : t[j] \in Seq(Immediates)
  <2> SUFFICES ASSUME NEW j \in 1..n PROVE Share(cells, op, src.code[j]) \in Seq(Immediates)
    BY <1>2
  <2>1. PICK l \in Nat : l + 1 = j /\ l < n
    <3>1. j - 1 \in Nat /\ (j - 1) + 1 = j /\ j - 1 < n
      BY <1>1
    <3> QED
      BY <3>1
  <2>2. Share(cells, op, src.code[l + 1]) \in Seq(Immediates)
    BY <1>1, <2>1, ShareTyped
  <2> QED
    BY <2>1, <2>2
<1>5. k + 1 \in 1..n /\ k < n
  BY <1>1
<1>6. PICK u : u = FlattenSeq([j \in 1..k |-> t[j]])
  OBVIOUS
<1>7. PICK v : v = FlattenSeq([j \in 1..k + 1 |-> t[j]])
  OBVIOUS
<1>8. PICK x : x = t[k + 1]
  OBVIOUS
<1>9. f = FlattenSeq(t)
  BY <1>1, <1>2 DEF ShareTo
<1>10. Cut(f, u, x, v)
  BY <1>3, <1>4, <1>5, <1>6, <1>7, <1>8, <1>9, CutAt
<1>11. /\ \A j \in 1..k : t[j] = Share(cells, op, src.code[j])
       /\ \A j \in 1..k + 1 : t[j] = Share(cells, op, src.code[j])
  BY <1>2, <1>5
<1>12. u = ShareTo(src, cells, op, k) /\ v = ShareTo(src, cells, op, k + 1)
       /\ x = Share(cells, op, src.code[k + 1])
  BY <1>2, <1>5, <1>6, <1>7, <1>8, <1>11 DEF ShareTo
<1> QED
  BY <1>10, <1>12

\* An input of a satisfied circuit has a cell, whose encoding decodes to it.
RawOf(id, v, x) ==
  /\ id.name \in DOMAIN cells /\ Typed(v) /\ v.ty = id.ty /\ id.name \in Identifier
  /\ x \in Seq(Immediates) /\ Len(x) = encoded_len(id.ty) /\ Decode(x, id.ty) = {v}

\* The raw elements of input k + 1 are the one encoding of its cell.
LEMMA RawAt ==
  ASSUME SatisfiedRun, NEW k \in Nat, k < Len(src.inputs), NEW id, id = src.inputs[k + 1],
         NEW v, v = cells[id.name], NEW x, x = RawShare(src, cells, k + 1)
  PROVE  RawOf(id, v, x) /\ k + 1 \in DOMAIN src.inputs
<1>1. PICK n \in Nat :
         /\ n = Len(src.code) /\ CodeOK(src) /\ LaidTo(src, wit, cells, cpis, couts, n)
         /\ MemoryTyped(cells) /\ DOMAIN cells = Names(src, n)
  BY AtEnd
<1>2. k + 1 \in DOMAIN src.inputs
  <2>1. DOMAIN src.inputs = 1..Len(src.inputs) /\ Len(src.inputs) \in Nat
    BY <1>1, LenProperties DEF CodeOK, Source
  <2> QED
    BY <2>1
<1>3. id.name \in Identifier
  BY <1>1, <1>2, InputAt
<1>4. id.name \in DOMAIN cells
  BY <1>1, <1>2 DEF Names
<1>5. Typed(v) /\ v.ty = id.ty
  BY <1>1, <1>2, <1>4 DEF MemoryTyped, LaidTo
<1>6. RawShare(src, cells, k + 1) = Encode(v)
  BY DEF RawShare
<1> QED
  BY <1>2, <1>3, <1>4, <1>5, <1>6, EncodeTyped, RoundTrip DEF RawOf

LEMMA RawCut ==
  ASSUME SatisfiedRun, NEW k \in Nat, k < Len(src.inputs),
         NEW f, f = RawTo(src, cells, Len(src.inputs))
  PROVE  Cut(f, RawTo(src, cells, k), RawShare(src, cells, k + 1), RawTo(src, cells, k + 1))
<1>1. PICK n \in Nat : n = Len(src.inputs)
  BY AtEnd, LenProperties DEF CodeOK, Source
<1>2. PICK t : t = [j \in 1..n |-> RawShare(src, cells, j)]
  OBVIOUS
<1>3. t = [j \in 1..n |-> t[j]]
  BY <1>2
<1>4. \A j \in 1..n : t[j] \in Seq(Immediates)
  <2> SUFFICES ASSUME NEW j \in 1..n PROVE RawShare(src, cells, j) \in Seq(Immediates)
    BY <1>2
  <2>1. PICK l \in Nat : l + 1 = j /\ l < n
    <3>1. j - 1 \in Nat /\ (j - 1) + 1 = j /\ j - 1 < n
      BY <1>1
    <3> QED
      BY <3>1
  <2>2. RawShare(src, cells, l + 1) \in Seq(Immediates)
    BY <1>1, <2>1, RawAt DEF RawOf
  <2> QED
    BY <2>1, <2>2
<1>5. k + 1 \in 1..n /\ k < n
  BY <1>1
<1>6. PICK u : u = FlattenSeq([j \in 1..k |-> t[j]])
  OBVIOUS
<1>7. PICK v : v = FlattenSeq([j \in 1..k + 1 |-> t[j]])
  OBVIOUS
<1>8. PICK x : x = t[k + 1]
  OBVIOUS
<1>9. f = FlattenSeq(t)
  BY <1>1, <1>2 DEF RawTo
<1>10. Cut(f, u, x, v)
  BY <1>3, <1>4, <1>5, <1>6, <1>7, <1>8, <1>9, CutAt
<1>11. /\ \A j \in 1..k : t[j] = RawShare(src, cells, j)
       /\ \A j \in 1..k + 1 : t[j] = RawShare(src, cells, j)
  BY <1>2, <1>5
<1>12. u = RawTo(src, cells, k) /\ v = RawTo(src, cells, k + 1) /\ x = RawShare(src, cells, k + 1)
  BY <1>2, <1>5, <1>6, <1>7, <1>8, <1>11 DEF RawTo
<1> QED
  BY <1>10, <1>12

\* Nothing is taken before the first input and the first instruction.
LEMMA NothingTaken ==
  ASSUME NEW s, NEW m, NEW op
  PROVE  RawTo(s, m, 0) = <<>> /\ ShareTo(s, m, op, 0) = <<>>
<1>1. [k \in 1..0 |-> RawShare(s, m, k)] = <<>> /\ [k \in 1..0 |-> Share(m, op, s.code[k])] = <<>>
  OBVIOUS
<1> QED
  BY <1>1, FlattenEmpty DEF RawTo, ShareTo

\* The commitment of the circuit is that of the run on the extract.
LEMMA ExtractOpens ==
  ASSUME SatisfiedRun, src.comm, routputs = couts
  PROVE  Extract.comm # <<>> /\ Extract.comm[1] = R!Commitment
<1>1. PICK n \in Nat : n = Len(src.code) /\ CodeOK(src) /\ MemoryTyped(cells)
                       /\ LaidTo(src, wit, cells, cpis, couts, n)
  BY AtEnd
<1>2. PICK m \in Nat : m = Len(src.inputs) /\ DOMAIN src.inputs = 1..m
  BY <1>1, LenProperties DEF CodeOK, Source
<1>3. PICK vs : vs = [k \in 1..m |-> cells[src.inputs[k].name]]
  OBVIOUS
<1>4. \A k \in 1..m : src.inputs[k].name \in DOMAIN cells
  BY <1>1, <1>2 DEF LaidTo, Names
<1>5. vs \in Seq(TypedValue)
  <2>1. vs = [k \in 1..m |-> vs[k]]
    BY <1>3
  <2>2. \A k \in 1..m : vs[k] \in TypedValue
    BY <1>1, <1>3, <1>4, TypedIsValue DEF MemoryTyped
  <2> QED
    BY <2>1, <2>2, IsASeq
<1>6. CommittedInputs = vs
  <2>1. [k \in DOMAIN src.inputs |-> IF src.inputs[k].name \in DOMAIN cells
                                      THEN <<cells[src.inputs[k].name]>> ELSE <<>>] = Ones(vs)
    BY <1>2, <1>3, <1>4 DEF Ones
  <2>2. FlattenSeq(Ones(vs)) = vs
    BY <1>5, FlattenOnes
  <2> QED
    BY <2>1, <2>2 DEF CommittedInputs
<1>7. Extract.inputs = EncodeAll(vs)
  BY <1>2, <1>3 DEF Extract
<1>8. wit.comm # <<>> /\ cpis[2] = wit.comm[1] /\ Extract.comm = wit.comm
  BY HeaderIs, ExtractIs
<1>9. CircuitCommitment = cpis[2]
  BY DEF SatisfiedRun, SynthTrace
<1>10. R!EncodeAll(routputs) = EncodeAll(couts)
  BY SameEncodeAll
<1>11. R!Commitment = CircuitCommitment
  BY <1>6, <1>7, <1>8, <1>10 DEF R!Commitment, CircuitCommitment
<1> QED
  BY <1>8, <1>9, <1>11

------------------------------------------------------------------------------
(* The run on the extract follows the cells.                                 *)

\* LaxAt and Following in the terms of the invariant.
LEMMA LaxIs ==
  ASSUME NEW n \in Nat
  PROVE  LaxAt(n + 1) <=> LaxOf(src, cells, n)
<1>1. NamesBefore(n + 1) = Names(src, n)
  <2>1. n + 1 - 1 = n
    OBVIOUS
  <2> QED
    BY <2>1 DEF NamesBefore, Names
<1> QED
  BY <1>1 DEF LaxAt, LaxRead, LaxOf, LaxGate, LaxGuard, Early, ReadOps

LEMMA FollowingIs ==
  ASSUME NEW n \in Nat, n + 1 = rpc
  PROVE  Following <=> Replayable /\ Clear(n)
<1>1. CASE rpis = <<>>
  <2>1. \A k \in 1..0 : FALSE
    OBVIOUS
  <2> QED
    BY <1>1, <2>1 DEF Following, Clear
<1>2. CASE rpis # <<>>
  <2>1. rpc - 1 = n
    OBVIOUS
  <2>2. (\A k \in 1..n : ~LaxAt(k)) <=> (\A j \in Nat : j < n => ~LaxAt(j + 1))
    <3>1. ASSUME \A k \in 1..n : ~LaxAt(k), NEW j \in Nat, j < n
          PROVE  ~LaxAt(j + 1)
      <4>1. j + 1 \in 1..n
        BY <3>1
      <4> QED
        BY <3>1, <4>1
    <3>2. ASSUME \A j \in Nat : j < n => ~LaxAt(j + 1), NEW k \in 1..n
          PROVE  ~LaxAt(k)
      <4>1. k - 1 \in Nat /\ k - 1 < n /\ (k - 1) + 1 = k
        OBVIOUS
      <4>2. ~LaxAt((k - 1) + 1)
        BY <3>2, <4>1
      <4> QED
        BY <4>1, <4>2
    <3> QED
      BY <3>1, <3>2
  <2> QED
    BY <1>2, <2>1, <2>2, LaxIs DEF Following, Clear
<1> QED
  BY <1>1, <1>2

\* Bindings of the run to the cells' values.
LEMMA KeepsBind ==
  ASSUME NEW m, NEW mm, Keeps(mm, m), NEW ids, NEW vals, NEW x, Extends(mm, ids, vals, x),
         ToSet(ids) \subseteq DOMAIN m, \A j \in DOMAIN ids : m[ids[j]] = vals[j]
  PROVE  Keeps(x, m)
<1> SUFFICES ASSUME NEW id \in DOMAIN x PROVE id \in DOMAIN m /\ m[id] = x[id]
  BY DEF Keeps
<1>1. CASE id \in DOMAIN mm
  BY <1>1 DEF Keeps, Extends
<1>2. CASE id \in ToSet(ids)
  BY <1>2 DEF ToSet, Extends
<1> QED
  BY <1>1, <1>2 DEF Extends

\* What instruction i adds to the memory, and what it moves the cursors by.
Adds(mm, m, i, x) == IsFcn(x) /\ Keeps(x, m) /\ DOMAIN x = DOMAIN mm \cup ToSet(i.outs)
Moves(m, i, c, d) ==
  \A op \in Takers : d[StreamOf(op)] = c[StreamOf(op)] + Len(Share(m, op, i))

\* One more instruction.
LEMMA FollowsNext ==
  ASSUME SatisfiedRun, NEW n \in Nat, n < Len(src.code), NEW i, i = src.code[n + 1],
         NEW mm, NEW ps, NEW os, NEW c, FollowsTo(src, wit, cells, mm, ps, os, c, n),
         NEW x, Adds(mm, cells, i, x),
         NEW qs, qs = Cat(ps, Pushed(cells, i)), NEW us, us = Cat(os, Put(cells, i)),
         NEW d, Moves(cells, i, c, d)
  PROVE  FollowsTo(src, wit, cells, x, qs, us, d, n + 1)
<1>1. PICK l \in Nat : l = Len(src.code) /\ LaidTo(src, wit, cells, cpis, couts, l)
  BY AtEnd
<1>2. n < l /\ n <= l /\ n + 1 <= l /\ n + 1 \in Nat
  BY <1>1
<1>3. \A j \in Nat : j < n => LaidAt(src, cells, j)
  <2> SUFFICES ASSUME NEW j \in Nat, j < n PROVE LaidAt(src, cells, j)
    OBVIOUS
  <2>1. j < l
    BY <1>2
  <2> QED
    BY <1>1, <2>1 DEF LaidTo
<1>4. LaidAt(src, cells, n)
  BY <1>1, <1>2 DEF LaidTo
<1>5. Pushed(cells, i) \in Seq(Immediates) /\ Put(cells, i) \in Seq(TypedValue)
  BY <1>4 DEF LaidAt, Laid
<1>6. /\ PushedTo(src, cells, n) \in Seq(Immediates)
      /\ PushedTo(src, cells, n + 1) = Cat(PushedTo(src, cells, n), Pushed(cells, i))
  BY <1>3, <1>5, PushedToIs
<1>7. PutTo(src, cells, n + 1) = Cat(PutTo(src, cells, n), Put(cells, i))
  BY <1>3, <1>5, PutToIs
<1>8. StartOf(src, wit) \in Seq(Immediates)
  BY HeaderIs
<1>9. ps = Cat(StartOf(src, wit), PushedTo(src, cells, n)) /\ os = PutTo(src, cells, n)
      /\ DOMAIN mm = Names(src, n)
  BY DEF FollowsTo
<1>10. qs = Cat(StartOf(src, wit), PushedTo(src, cells, n + 1))
  BY <1>5, <1>6, <1>8, <1>9, CatAssociative
<1>11. us = PutTo(src, cells, n + 1)
  BY <1>7, <1>9
<1>12. DOMAIN x = Names(src, n + 1)
  BY <1>9, NamesNext DEF Adds
<1>13. \A op \in Takers : d[StreamOf(op)] = Len(ShareTo(src, cells, op, n + 1))
  <2> SUFFICES ASSUME NEW op \in Takers
               PROVE  d[StreamOf(op)] = Len(ShareTo(src, cells, op, n + 1))
    OBVIOUS
  <2>1. Cut(ShareTo(src, cells, op, Len(src.code)), ShareTo(src, cells, op, n),
            Share(cells, op, i), ShareTo(src, cells, op, n + 1))
    BY ShareCut
  <2>2. c[StreamOf(op)] = Len(ShareTo(src, cells, op, n))
    BY DEF FollowsTo
  <2> QED
    BY <2>1, <2>2 DEF Cut, Moves
<1> QED
  BY <1>1, <1>2, <1>10, <1>11, <1>12, <1>13 DEF FollowsTo, Adds

\* A step to the next instruction.
LEMMA FollowAdvance ==
  ASSUME SatisfiedRun, UNCHANGED <<src, wit, cvars>>, NEW n \in Nat, n + 1 = rpc,
         n < Len(src.code), NEW i, i = src.code[n + 1], rpis # <<>>, rstatus = "executing",
         FollowsTo(src, wit, cells, rmemory, rpis, routputs, rcur, n),
         Adds(rmemory, cells, i, rmemory'),
         rpis' = Cat(rpis, Pushed(cells, i)), routputs' = Cat(routputs, Put(cells, i)),
         Moves(cells, i, rcur, rcur'),
         rpc' = rpc + 1, rstatus' = rstatus,
         NEW k \in Nat, k + 1 = rpc'
  PROVE  FollowsAt(k)'
<1>1. k = n + 1
  OBVIOUS
<1>2. FollowsTo(src, wit, cells, rmemory', rpis', routputs', rcur', n + 1)
  <2>1. PICK x : x = rmemory'
    OBVIOUS
  <2>2. PICK qs : qs = rpis'
    OBVIOUS
  <2>3. PICK us : us = routputs'
    OBVIOUS
  <2>4. PICK d : d = rcur'
    OBVIOUS
  <2>5. PICK mm : mm = rmemory
    OBVIOUS
  <2>6. PICK ps : ps = rpis
    OBVIOUS
  <2>7. PICK os : os = routputs
    OBVIOUS
  <2>8. PICK c : c = rcur
    OBVIOUS
  <2>9. FollowsTo(src, wit, cells, mm, ps, os, c, n)
    BY <2>5, <2>6, <2>7, <2>8
  <2>10. Adds(mm, cells, i, x)
    BY <2>1, <2>5
  <2>11. qs = Cat(ps, Pushed(cells, i)) /\ us = Cat(os, Put(cells, i))
    BY <2>2, <2>3, <2>6, <2>7
  <2>12. Moves(cells, i, c, d)
    BY <2>4, <2>8
  <2>13. FollowsTo(src, wit, cells, x, qs, us, d, n + 1)
    BY <2>9, <2>10, <2>11, <2>12, FollowsNext
  <2> QED
    BY <2>1, <2>2, <2>3, <2>4, <2>13
<1>3. src' = src /\ wit' = wit /\ cells' = cells
  BY DEF cvars
<1>4. rpis' # <<>>
  <2>1. rpis \in Seq(Immediates) /\ Pushed(cells, i) \in Seq(Immediates)
    <3>1. /\ rpis = Cat(StartOf(src, wit), PushedTo(src, cells, n)) /\ n <= Len(src.code)
      BY DEF FollowsTo
    <3>2. StartOf(src, wit) \in Seq(Immediates) /\ PushedTo(src, cells, n) \in Seq(Immediates)
      BY <3>1, HeaderIs, AllPushed
    <3>3. LaidAt(src, cells, n)
      BY EndAt
    <3> QED
      BY <3>1, <3>2, <3>3, ConcatProperties DEF Cat, LaidAt, Laid
  <2> QED
    BY <2>1, ConcatProperties, EmptySeq DEF Cat
<1> QED
  BY <1>1, <1>2, <1>3, <1>4 DEF FollowsAt

\* A run that has passed no omitted check after a step has passed none before.
LEMMA ClearBack ==
  ASSUME NEW n \in Nat, NEW k \in Nat, n <= k, Clear(k)', src' = src, cells' = cells,
         rpis # <<>> => rpis' # <<>>
  PROVE  Clear(n)
<1>1. \A j \in Nat : j < n => j < k
  OBVIOUS
<1> QED
  BY <1>1 DEF Clear

Gains(m, x, v, mm) ==
  Keeps(m, mm) /\ IsFcn(mm) /\ DOMAIN mm = DOMAIN m \cup {x} /\ mm[x] = v

\* Binding one new name.
LEMMA BindName ==
  ASSUME NEW m, NEW x \in Identifier, x \notin DOMAIN m, NEW v, NEW mm, mm = Bind(m, <<x>>, <<v>>)
  PROVE  Gains(m, x, v, mm)
<1>1. PICK ids : ids = <<x>>
  OBVIOUS
<1>2. /\ ids \in Seq(Identifier) /\ DOMAIN ids = {1} /\ ids[1] = x /\ ToSet(ids) = {x}
      /\ IsInjective(ids)
  BY <1>1, OneName
<1>3. PICK vs : vs = <<v>>
  OBVIOUS
<1>4. mm = Bind(m, ids, vs) /\ vs[1] = v
  BY <1>1, <1>3
<1>5. Fresh(m, ids)
  BY <1>2 DEF Fresh
<1>6. Extends(m, ids, vs, mm)
  BY <1>2, <1>4, <1>5, BindFresh
<1> QED
  BY <1>2, <1>4, <1>6 DEF Extends, Gains

\* Decoding an input of the extract yields the cell it was read from.
LEMMA FollowDecode ==
  ASSUME SatisfiedRun, RunTyped, UNCHANGED <<src, wit, cvars>>, R!DecodeInput, rpis = <<>>,
         NEW n \in Nat, n + 1 = rpc, Clear(n) => FollowsAt(n),
         NEW k \in Nat, k + 1 = rpc'
  PROVE  FollowsAt(k)'
<1>1. rstatus = "decoding" /\ ReadsTo(src, cells, rmemory, rcur, routputs, n)
  BY DEF Clear, FollowsAt
<1>2. n < Len(src.inputs) /\ Len(src.inputs) \in Nat /\ CodeOK(src) /\ SingleAssignment(src)
  <2>1. CodeOK(src)
    BY AtEnd
  <2>2. Len(src.inputs) \in Nat
    BY <2>1, LenProperties DEF CodeOK, Source
  <2> QED
    BY <2>1, <2>2 DEF R!DecodeInput, SatisfiedRun
<1>3. PICK id : id = src.inputs[n + 1]
  OBVIOUS
<1>4. PICK v : v = cells[id.name]
  OBVIOUS
<1>5. PICK x : x = RawShare(src, cells, n + 1)
  OBVIOUS
<1>6. PICK u : u = RawTo(src, cells, n)
  OBVIOUS
<1>7. /\ id.name \in DOMAIN cells /\ v.ty = id.ty /\ id.name \in Identifier
      /\ n + 1 \in DOMAIN src.inputs /\ Len(x) = encoded_len(id.ty) /\ Decode(x, id.ty) = {v}
  <2>1. RawOf(id, v, x) /\ n + 1 \in DOMAIN src.inputs
    BY <1>2, <1>3, <1>4, <1>5, RawAt
  <2> QED
    BY <2>1 DEF RawOf
<1>8. Cut(Extract.inputs, u, x, RawTo(src, cells, n + 1))
  BY <1>2, <1>5, <1>6, RawCut, ExtractIs
<1>9. /\ rcur.raw = Len(u)
      /\ R!Available(Extract.inputs, rcur.raw, encoded_len(id.ty))
      /\ R!Taken(Extract.inputs, rcur.raw, encoded_len(id.ty)) = x
  BY <1>1, <1>6, <1>7, <1>8 DEF Cut, Carries, ReadsTo
<1>10. /\ rmemory' = Bind(rmemory, <<id.name>>, <<v>>)
       /\ rcur' = [rcur EXCEPT !["raw"] = @ + encoded_len(id.ty)]
       /\ rpc' = rpc + 1 /\ rstatus' = rstatus /\ rpis' = rpis /\ routputs' = routputs
  <2>1. src.inputs[rpc] = id
    BY <1>3
  <2>2. R!encoded_len(id.ty) = encoded_len(id.ty) /\ R!Decode(x, id.ty) = {v}
    BY <1>7, SameLength, SameDecode
  <2>3. R!Bind(rmemory, <<id.name>>, <<v>>) = Bind(rmemory, <<id.name>>, <<v>>)
    BY SameMemory
  <2> QED
    BY <1>9, <2>1, <2>2, <2>3 DEF R!DecodeInput
<1>11. id.name \notin DOMAIN rmemory
  <2>1. DOMAIN rmemory = InputNames(src, n)
    BY <1>1 DEF ReadsTo
  <2> QED
    BY <1>2, <1>3, <1>7, <2>1, FreshInputAt
<1>12. PICK mm : mm = rmemory'
  OBVIOUS
<1>13. /\ Keeps(rmemory, mm) /\ IsFcn(mm) /\ DOMAIN mm = DOMAIN rmemory \cup {id.name}
       /\ mm[id.name] = v
  <2>1. PICK x1 : x1 = id.name
    OBVIOUS
  <2>2. PICK m1 : m1 = rmemory
    OBVIOUS
  <2>3. x1 \in Identifier /\ x1 \notin DOMAIN m1
    BY <1>7, <1>11, <2>1, <2>2
  <2>4. mm = Bind(m1, <<x1>>, <<v>>)
    BY <1>10, <1>12, <2>1, <2>2
  <2>5. Gains(m1, x1, v, mm)
    BY <2>3, <2>4, BindName
  <2> QED
    BY <2>1, <2>2, <2>5 DEF Gains
<1>14. DOMAIN mm = InputNames(src, n + 1)
  BY <1>1, <1>3, <1>13, InputNamesNext DEF ReadsTo
<1>15. Keeps(mm, cells)
  BY <1>1, <1>4, <1>7, <1>13 DEF Keeps, ReadsTo
<1>16. n + 1 <= Len(src.inputs)
  BY <1>2
<1>17. /\ rcur'.raw = Len(RawTo(src, cells, n + 1))
       /\ \A op \in Takers : rcur'[StreamOf(op)] = 0
  <2>1. rcur \in [R!StreamNames -> Nat]
    BY DEF RunTyped
  <2>2. rcur'.raw = rcur.raw + Len(x)
    BY <1>7, <1>10, <2>1 DEF R!StreamNames
  <2>3. \A op \in Takers : StreamOf(op) \in R!StreamNames \ {"raw"}
    BY DEF Takers, StreamOf, R!StreamNames
  <2>4. \A op \in Takers : rcur'[StreamOf(op)] = rcur[StreamOf(op)]
    BY <1>10, <2>1, <2>3
  <2>5. \A op \in Takers : rcur[StreamOf(op)] = 0
    BY <1>1 DEF ReadsTo
  <2> QED
    BY <1>8, <1>9, <2>2, <2>4, <2>5 DEF Cut
<1>18. k = n + 1 /\ src' = src /\ cells' = cells /\ routputs = <<>>
  BY <1>1, <1>10 DEF cvars, ReadsTo
<1>19. ReadsTo(src, cells, mm, rcur', <<>>, n + 1)
  BY <1>13, <1>14, <1>15, <1>16, <1>17 DEF ReadsTo
<1> QED
  BY <1>1, <1>10, <1>12, <1>18, <1>19 DEF FollowsAt

\* The run seeds its public inputs as the circuit does.
LEMMA FollowSeed ==
  ASSUME SatisfiedRun, RunTyped, UNCHANGED <<src, wit, cvars>>, R!SeedPublicInputs, rpis = <<>>,
         NEW n \in Nat, n + 1 = rpc, Clear(n) => FollowsAt(n),
         NEW k \in Nat, k + 1 = rpc'
  PROVE  FollowsAt(k)'
<1>1. rstatus = "decoding" /\ ReadsTo(src, cells, rmemory, rcur, routputs, n)
  BY DEF Clear, FollowsAt
<1>2. n = Len(src.inputs) /\ CodeOK(src) /\ Len(src.code) \in Nat
  <2>1. CodeOK(src)
    BY AtEnd
  <2>2. Len(src.inputs) \in Nat /\ Len(src.code) \in Nat
    BY <2>1, LenProperties DEF CodeOK, Source
  <2>3. n <= Len(src.inputs)
    BY <1>1 DEF ReadsTo
  <2> QED
    BY <2>1, <2>2, <2>3 DEF R!SeedPublicInputs
<1>3. /\ rcur.raw = Len(Extract.inputs)
      /\ src.comm => Extract.comm # <<>> /\ Extract.comm = wit.comm
      /\ Extract.binding = wit.binding
  BY <1>1, <1>2, ExtractIs, HeaderIs DEF ReadsTo
<1>4. /\ rpis' = <<Extract.binding>> \o (IF src.comm THEN <<Extract.comm[1]>> ELSE <<>>)
      /\ rstatus' = "executing" /\ rpc' = 1
      /\ UNCHANGED <<rmemory, rcur, routputs>>
  BY <1>3 DEF R!SeedPublicInputs, R!Reject, R!Stop
<1>5. rpis' = StartOf(src, wit)
  BY <1>3, <1>4 DEF StartOf
<1>6. StartOf(src, wit) \in Seq(Immediates) /\ StartOf(src, wit) # <<>>
  BY HeaderIs
<1>7. rpis' = Cat(StartOf(src, wit), PushedTo(src, cells, 0)) /\ routputs' = PutTo(src, cells, 0)
  <2>1. Cat(StartOf(src, wit), <<>>) = StartOf(src, wit)
    BY <1>6, CatEmpty
  <2> QED
    BY <1>1, <1>4, <1>5, <2>1, NothingYet DEF ReadsTo
<1>8. DOMAIN rmemory = Names(src, 0)
  BY <1>1, <1>2, NamesStart DEF ReadsTo
<1>9. \A op \in Takers : rcur[StreamOf(op)] = Len(ShareTo(src, cells, op, 0))
  BY <1>1, NothingTaken DEF ReadsTo
<1>10. FollowsTo(src, wit, cells, rmemory', rpis', routputs', rcur', 0)
  BY <1>1, <1>2, <1>4, <1>7, <1>8, <1>9 DEF FollowsTo, ReadsTo
<1>11. k = 0 /\ src' = src /\ wit' = wit /\ cells' = cells
  BY <1>4 DEF cvars
<1> QED
  BY <1>4, <1>5, <1>6, <1>10, <1>11 DEF FollowsAt

\* The operands of a bound check are elements of the field.
LEMMA BoundedAre ==
  ASSUME NEW i \in Instruction, WellShaped(i), i.op \in {"ConstrainBits", "LessThan"},
         NEW a, a = [j \in 1..Len(i.args) |-> a[j]], AllTyped(a),
         \/ i.op = "ConstrainBits" /\ a[1].ty = Native
         \/ i.op = "LessThan" /\ a[1].ty = Native /\ a[2].ty = Native
  PROVE  i.n[1] \in Nat /\ \A j \in DOMAIN a : a[j].val \in Nat
<1>1. i.n[1] \in Nat
  BY ParametersTyped DEF OneParameter
<1>2. \A j \in DOMAIN a : a[j].ty = Native
  <2>1. CASE i.op = "ConstrainBits"
    <3>1. Len(i.args) = 1
      BY <2>1 DEF WellShaped, UnaryOps
    <3>2. \A j \in 1..1 : j = 1
      OBVIOUS
    <3>3. DOMAIN a = 1..1 /\ a[1].ty = Native
      BY <2>1, <3>1
    <3> QED
      BY <3>2, <3>3, Zenon
  <2>2. CASE i.op = "LessThan"
    <3>1. Len(i.args) = 2
      BY <2>2 DEF WellShaped, BinaryOps
    <3>2. \A j \in 1..2 : j = 1 \/ j = 2
      OBVIOUS
    <3>3. DOMAIN a = 1..2 /\ a[1].ty = Native /\ a[2].ty = Native
      BY <2>2, <3>1
    <3> QED
      BY <3>2, <3>3, Zenon
  <2> QED
    BY <2>1, <2>2
<1>3. \A j \in DOMAIN a : a[j].val \in Nat
  BY <1>2, FrRange DEF AllTyped
<1> QED
  BY <1>1, <1>3

\* The powers of two below the width of the field are naturals.
LEMMA PowerBelow ==
  ASSUME NEW n \in Nat, n < FR_BITS
  PROVE  2^n \in Nat
<1>1. PICK m \in 0..FR_BITS : m = n
  BY Constants
<1>2. m \in m..FR_BITS
  BY <1>1, Constants
<1> QED
  BY <1>1, <1>2, TwosGrow

\* Where the constraints imply the checks of preprocess.
LEMMA StrictUnlessLax ==
  ASSUME NEW i \in Instruction, WellShaped(i), i.op \in ValueOps,
         NEW a, a = [j \in 1..Len(i.args) |-> a[j]], AllTyped(a), Shape(i, TypesOf(a)) # {},
         ~LaxGate(i, a)
  PROVE  Strict(i, a)
<1>1. PICK n \in Nat : n = Len(i.args)
  BY LenProperties DEF Instruction
<1>2. PICK T : T = TypesOf(a)
  OBVIOUS
<1>3. a = [j \in 1..n |-> a[j]] /\ DOMAIN a = 1..n
  BY <1>1
<1>4. DOMAIN T = 1..n /\ Len(T) = n /\ \A j \in 1..n : T[j] = a[j].ty
  BY <1>2, <1>3, TypesAre
<1>5. i.op = "Assert" => a[1].val = 1
  BY DEF LaxGate
<1>6. i.op \in {"ConstrainBits", "LessThan"} =>
        i.n[1] < FR_BITS /\ \A j \in DOMAIN a : a[j].val < 2^i.n[1]
  <2> SUFFICES ASSUME i.op \in {"ConstrainBits", "LessThan"}
               PROVE  i.n[1] < FR_BITS /\ \A j \in DOMAIN a : a[j].val < 2^i.n[1]
    OBVIOUS
  <2>1. \/ i.op = "ConstrainBits" /\ a[1].ty = Native
        \/ i.op = "LessThan" /\ a[1].ty = Native /\ a[2].ty = Native
    <3>1. CASE i.op = "ConstrainBits"
      <4>1. T[1] = Native
        BY <1>2, <3>1 DEF Shape, CheckShape, Some, HashOps
      <4>2. n = 1 /\ 1 \in 1..1
        BY <1>1, <3>1 DEF WellShaped, UnaryOps
      <4> QED
        BY <1>4, <3>1, <4>1, <4>2
    <3>2. CASE i.op = "LessThan"
      <4>1. AllOf(T, Native)
        BY <1>2, <3>2 DEF Shape, LessThanShape, Some, HashOps
      <4>2. n = 2 /\ 1 \in 1..2 /\ 2 \in 1..2
        BY <1>1, <3>2 DEF WellShaped, BinaryOps
      <4> QED
        BY <1>4, <3>2, <4>1, <4>2 DEF AllOf
    <3> QED
      BY <3>1, <3>2
  <2>2. i.n[1] \in Nat /\ \A j \in DOMAIN a : a[j].val \in Nat
    BY <2>1, BoundedAre
  <2>3. ~(i.n[1] >= FR_BITS) /\ \A j \in DOMAIN a : ~(a[j].val >= 2^i.n[1])
    BY DEF LaxGate
  <2>4. i.n[1] < FR_BITS
    BY <2>2, <2>3, Constants
  <2>5. PICK p \in Nat : p = 2^i.n[1]
    BY <2>2, <2>4, PowerBelow
  <2>6. \A j \in DOMAIN a : a[j].val < p
    <3> SUFFICES ASSUME NEW j \in DOMAIN a PROVE a[j].val < p
      OBVIOUS
    <3>1. ~(a[j].val >= p)
      BY <2>3, <2>5
    <3>2. a[j].val \in Nat
      BY <2>2
    <3> QED
      BY <3>1, <3>2
  <2> QED
    BY <2>4, <2>5, <2>6
<1>7. i.op \in {"DivModPowerOfTwo", "ReconstituteField"} => i.n[1] <= SplitBits
  <2> SUFFICES ASSUME i.op \in {"DivModPowerOfTwo", "ReconstituteField"} PROVE i.n[1] <= SplitBits
    OBVIOUS
  <2>1. i.n[1] \in Nat
    BY ParametersTyped DEF OneParameter
  <2>2. ~(i.n[1] > SplitBits)
    BY DEF LaxGate
  <2> QED
    BY <2>1, <2>2, SplitBitsFew
<1>8. i.op = "ReconstituteField" => i.n[1] # 0
  BY DEF LaxGate
<1>9. i.op \in HashOps => AlignedWidth(i.align) = Len(i.args)
  <2> SUFFICES ASSUME i.op \in HashOps PROVE AlignedWidth(i.align) = n
    BY <1>1
  <2>1. ByteHashShape(i, T) # {}
    BY <1>2 DEF Shape, HashOps
  <2>2. AlignedWidth(i.align) <= n
    BY <1>4, <2>1 DEF ByteHashShape, Some
  <2>3. ~(AlignedWidth(i.align) < n)
    BY <1>1 DEF LaxGate
  <2>4. AlignedWidth(i.align) \in Nat
    BY AlignedWidthNat DEF Instruction
  <2> QED
    BY <2>2, <2>3, <2>4
<1> QED
  BY <1>5, <1>6, <1>7, <1>8, <1>9 DEF Strict

\* An instruction that preprocess computes is nowhere lax.
LEMMA StrictNotLax ==
  ASSUME NEW i \in Instruction, WellShaped(i), i.op \in ValueOps,
         NEW a, a = [j \in 1..Len(i.args) |-> a[j]], AllTyped(a), OffGate(i, a) # {}
  PROVE  ~LaxGate(i, a)
<1>1. PICK vals \in OffGate(i, a) : TRUE
  OBVIOUS
<1>2. Strict(i, a)
  BY <1>1, TwinsStrict
<1>3. ~(i.op = "Assert" /\ a[1].val # 1)
  BY <1>2 DEF Strict
<1>4. ~(/\ i.op \in {"ConstrainBits", "LessThan"}
        /\ i.n[1] >= FR_BITS \/ \E j \in DOMAIN a : a[j].val >= 2^i.n[1])
  <2> SUFFICES ASSUME i.op \in {"ConstrainBits", "LessThan"}
               PROVE  ~(i.n[1] >= FR_BITS) /\ \A j \in DOMAIN a : ~(a[j].val >= 2^i.n[1])
    OBVIOUS
  <2>1. \/ i.op = "ConstrainBits" /\ a[1].ty = Native
        \/ i.op = "LessThan" /\ a[1].ty = Native /\ a[2].ty = Native
    BY <1>1 DEF OffGate, ConstrainBitsOff, LessThanOff, FitsBits, IsFr, Some, HashOps
  <2>2. i.n[1] \in Nat /\ \A j \in DOMAIN a : a[j].val \in Nat
    BY <2>1, BoundedAre
  <2>3. i.n[1] < FR_BITS /\ \A j \in DOMAIN a : a[j].val < 2^i.n[1]
    BY <1>2 DEF Strict
  <2>4. PICK p \in Nat : p = 2^i.n[1]
    BY <2>2, <2>3, PowerBelow
  <2>5. \A j \in DOMAIN a : ~(a[j].val >= p)
    <3> SUFFICES ASSUME NEW j \in DOMAIN a PROVE ~(a[j].val >= p)
      OBVIOUS
    <3>1. a[j].val < p
      BY <2>3, <2>4
    <3>2. a[j].val \in Nat
      BY <2>2
    <3> QED
      BY <3>1, <3>2
  <2>6. ~(i.n[1] >= FR_BITS)
    <3>1. i.n[1] < FR_BITS /\ i.n[1] \in Nat /\ FR_BITS \in Nat
      BY <2>2, <2>3, Constants
    <3> QED
      BY <3>1
  <2> QED
    BY <2>4, <2>5, <2>6
<1>5. ~(i.op \in {"DivModPowerOfTwo", "ReconstituteField"} /\ i.n[1] > SplitBits)
  <2> SUFFICES ASSUME i.op \in {"DivModPowerOfTwo", "ReconstituteField"} PROVE ~(i.n[1] > SplitBits)
    OBVIOUS
  <2>1. i.n[1] \in Nat
    BY ParametersTyped DEF OneParameter
  <2>2. i.n[1] <= SplitBits
    BY <1>2 DEF Strict
  <2> QED
    BY <2>1, <2>2, SplitBitsFew
<1>6. ~(i.op = "ReconstituteField" /\ i.n[1] = 0)
  BY <1>2 DEF Strict
<1>7. ~(i.op \in HashOps /\ AlignedWidth(i.align) < Len(i.args))
  <2> SUFFICES ASSUME i.op \in HashOps PROVE ~(AlignedWidth(i.align) < Len(i.args))
    OBVIOUS
  <2>1. PICK n \in Nat : n = Len(i.args)
    BY LenProperties DEF Instruction
  <2>2. AlignedWidth(i.align) = n
    BY <1>2, <2>1 DEF Strict
  <2> QED
    BY <2>1, <2>2
<1> QED
  BY <1>3, <1>4, <1>5, <1>6, <1>7 DEF LaxGate

\* A rejection at a check the circuit omits.
LEMMA FollowReject ==
  ASSUME UNCHANGED <<src, wit, cvars>>, R!Reject, rpis # <<>>,
         NEW n \in Nat, n + 1 = rpc, n < Len(src.code), LaxOf(src, cells, n),
         FollowsTo(src, wit, cells, rmemory, rpis, routputs, rcur, n),
         NEW k \in Nat, k + 1 = rpc'
  PROVE  FollowsAt(k)'
<1>1. /\ rstatus' = "rejected" /\ rpc' = rpc /\ rmemory' = rmemory /\ rpis' = rpis
      /\ routputs' = routputs /\ rcur' = rcur
  BY DEF R!Reject, R!Stop
<1>2. k = n /\ src' = src /\ wit' = wit /\ cells' = cells
  BY <1>1 DEF cvars
<1> QED
  BY <1>1, <1>2 DEF FollowsAt

\* The instruction the run has come to.
LEMMA RunFetched ==
  ASSUME SatisfiedRun, NEW n \in Nat, n + 1 = rpc, rpc <= Len(src.code)
  PROVE  n < Len(src.code) /\ R!Instr = src.code[n + 1] /\ SingleAssignment(src)
<1>1. PICK l \in Nat : l = Len(src.code)
  BY AtEnd
<1> QED
  BY <1>1 DEF R!Instr, SatisfiedRun

\* What the run at instruction n + 1 finds its operands to be.
LEMMA OperandsFollow ==
  ASSUME SatisfiedRun, NEW n \in Nat, n < Len(src.code), NEW i, i = src.code[n + 1],
         FollowsTo(src, wit, cells, rmemory, rpis, routputs, rcur, n),
         NEW os \in Seq(Operand), AllEarly(src, n, os)
  PROVE  AllResolvable(rmemory, os) /\ ResolveAll(rmemory, os) = ResolveAll(cells, os)
<1>1. DOMAIN rmemory = Names(src, n) /\ Keeps(rmemory, cells)
  BY DEF FollowsTo
<1>2. AllResolvable(rmemory, os)
  BY <1>1, EarlyIs
<1> QED
  BY <1>1, <1>2, ResolveAllSame

\* An instruction that takes nothing moves no cursor.
LEMMA SilentMoves ==
  ASSUME NEW m, NEW i, i.op \notin Takers, NEW c, \A op \in Takers : c[StreamOf(op)] \in Nat
  PROVE  Moves(m, i, c, c)
<1> SUFFICES ASSUME NEW op \in Takers
             PROVE  c[StreamOf(op)] = c[StreamOf(op)] + Len(Share(m, op, i))
  BY DEF Moves
<1>1. Share(m, op, i) = <<>>
  BY DEF Share
<1>2. Len(<<>>) = 0
  OBVIOUS
<1> QED
  BY <1>1, <1>2

LEMMA CursorsAreNat ==
  ASSUME RunTyped
  PROVE  \A op \in Takers : rcur[StreamOf(op)] \in Nat
BY DEF RunTyped, Takers, StreamOf, R!StreamNames

\* Nothing published and nothing put out is the same as nothing.
LEMMA NothingMore ==
  ASSUME SatisfiedRun, NEW n \in Nat, n <= Len(src.code),
         FollowsTo(src, wit, cells, rmemory, rpis, routputs, rcur, n)
  PROVE  rpis \in Seq(Immediates) /\ routputs \in Seq(TypedValue)
         /\ Cat(rpis, <<>>) = rpis /\ Cat(routputs, <<>>) = routputs
<1>1. StartOf(src, wit) \in Seq(Immediates)
  BY HeaderIs
<1>2. PushedTo(src, cells, n) \in Seq(Immediates) /\ PutTo(src, cells, n) \in Seq(TypedValue)
  BY AllPushed
<1>3. rpis \in Seq(Immediates) /\ routputs \in Seq(TypedValue)
  BY <1>1, <1>2, ConcatProperties DEF FollowsTo, Cat
<1> QED
  BY <1>3, CatEmpty

\* A gate of the run binds what the cells are, or the circuit omits its check.
LEMMA FollowCompute ==
  ASSUME SatisfiedRun, RunTyped, UNCHANGED <<src, wit, cvars>>, R!Compute, rpis # <<>>,
         NEW n \in Nat, n + 1 = rpc, Clear(n) => FollowsAt(n),
         NEW k \in Nat, k + 1 = rpc', Clear(k)'
  PROVE  FollowsAt(k)'
<1>1. PICK i : i = src.code[n + 1]
  OBVIOUS
<1>2. PICK a : a = ResolveAll(cells, i.args)
  OBVIOUS
<1>3. n < Len(src.code) /\ R!Instr = i /\ SingleAssignment(src)
  BY <1>1, RunFetched DEF R!Compute
<1>4. i.op \in ValueOps /\ i.op \notin ReadOps /\ i.op \notin Takers /\ i.op \notin {"Impact", "Output"}
  BY <1>3, SameRunOps DEF R!Compute, ReadOps, Takers, ValueOps, HashOps
<1>5. /\ i \in Instruction /\ WellShaped(i) /\ i.args \in Seq(Operand) /\ i.outs \in Seq(Identifier)
      /\ LaidAt(src, cells, n) /\ CodeOK(src) /\ ToSet(i.outs) \subseteq DOMAIN cells
  BY <1>1, <1>3, EndAt
<1>6. /\ AllEarly(src, n, i.args) /\ AllTyped(a) /\ DOMAIN a = 1..Len(i.args)
      /\ a = [j \in 1..Len(i.args) |-> a[j]]
  <2>1. AllEarly(src, n, i.args) /\ AllTyped(a) /\ DOMAIN a = 1..Len(i.args)
    BY <1>1, <1>2, <1>3, <1>4, OperandsAtEnd
  <2>2. a = [j \in DOMAIN a |-> a[j]]
    BY <1>2 DEF ResolveAll
  <2> QED
    BY <2>1, <2>2
<1>7. rpis' = rpis /\ src' = src /\ cells' = cells /\ n <= k
  <2>1. rpis' = rpis /\ (rpc' = rpc \/ rpc' = rpc + 1)
    BY DEF R!Compute, R!Reject, R!Stop
  <2> QED
    BY <2>1 DEF cvars
<1>8. Clear(n)
  BY <1>7, ClearBack
<1>9. FollowsTo(src, wit, cells, rmemory, rpis, routputs, rcur, n) /\ rstatus = "executing"
  BY <1>8 DEF FollowsAt, R!Compute
<1>10. AllResolvable(rmemory, i.args) /\ ResolveAll(rmemory, i.args) = a
  BY <1>1, <1>2, <1>3, <1>5, <1>6, <1>9, OperandsFollow
<1>11. \/ OffGate(i, a) = {} /\ R!Reject
       \/ \E vals \in OffGate(i, a) :
            /\ rmemory' = Bind(rmemory, i.outs, vals)
            /\ rpc' = rpc + 1 /\ UNCHANGED <<rstatus, rpis, rcur, routputs>>
  BY <1>3, <1>10, SameOffGate, SameMemory DEF R!Compute
<1>12. HasGate(cells, i, a) /\ Pushed(cells, i) = <<>> /\ Put(cells, i) = <<>>
  BY <1>1, <1>2, <1>4, <1>5 DEF LaidAt, Laid, Pushed, Put
<1>13. CASE OffGate(i, a) = {} /\ R!Reject
  <2>1. ~Strict(i, a)
    BY <1>4, <1>5, <1>6, <1>12, <1>13, TwinsComplete DEF HasGate
  <2>2. LaxGate(i, a)
    BY <1>4, <1>5, <1>6, <1>12, <2>1, StrictUnlessLax DEF HasGate
  <2>3. LaxOf(src, cells, n)
    BY <1>1, <1>2, <2>2 DEF LaxOf
  <2> QED
    BY <1>3, <1>9, <1>13, <2>3, FollowReject
<1>14. CASE \E vals \in OffGate(i, a) :
              /\ rmemory' = Bind(rmemory, i.outs, vals)
              /\ rpc' = rpc + 1 /\ UNCHANGED <<rstatus, rpis, rcur, routputs>>
  <2>1. PICK vals \in OffGate(i, a) :
              /\ rmemory' = Bind(rmemory, i.outs, vals)
              /\ rpc' = rpc + 1 /\ UNCHANGED <<rstatus, rpis, rcur, routputs>>
    BY <1>14
  <2>2. Agrees(i, a, TypesOf(a), vals)
    BY <1>4, <1>5, <1>6, TwinsAgree
  <2>3. \A j \in DOMAIN i.outs : cells[i.outs[j]] = vals[j]
    BY <1>4, <1>12, <2>2 DEF HasGate, Agrees
  <2>4. PICK x : x = rmemory'
    OBVIOUS
  <2>5. Fresh(rmemory, i.outs)
    <3>1. Names(src, n) \cap ToSet(i.outs) = {}
      BY <1>1, <1>3, <1>5, FreshAt
    <3>2. IsInjective(i.outs)
      BY <1>1, <1>3, EndAt DEF SingleAssignment
    <3> QED
      BY <1>9, <3>1, <3>2 DEF Fresh, FollowsTo
  <2>6. x = Bind(rmemory, i.outs, vals)
    BY <2>1, <2>4
  <2>7. Extends(rmemory, i.outs, vals, x)
    BY <1>5, <2>5, <2>6, BindFresh
  <2>8. Keeps(x, cells)
    <3>1. Keeps(rmemory, cells)
      BY <1>9 DEF FollowsTo
    <3> QED
      BY <1>5, <2>3, <2>7, <3>1, KeepsBind
  <2>9. Adds(rmemory, cells, i, rmemory')
    BY <2>4, <2>7, <2>8 DEF Adds, Extends
  <2>10. Moves(cells, i, rcur, rcur')
    <3>1. Moves(cells, i, rcur, rcur)
      BY <1>4, CursorsAreNat, SilentMoves
    <3> QED
      BY <2>1, <3>1
  <2>11. rpis' = Cat(rpis, Pushed(cells, i)) /\ routputs' = Cat(routputs, Put(cells, i))
    <3>1. n <= Len(src.code)
      BY <1>9 DEF FollowsTo
    <3> QED
      BY <1>9, <1>12, <2>1, <3>1, NothingMore
  <2> QED
    BY <1>1, <1>3, <1>9, <2>1, <2>9, <2>10, <2>11, FollowAdvance
<1> QED
  BY <1>11, <1>13, <1>14

\* What a read of the run does, in the terms of the statement.
IsOn(m, o) == Resolvable(m, o) /\ IsBit(Resolve(m, o))
SkipsRead(i) ==
  /\ i.args # <<>> /\ IsOn(rmemory, i.args[1]) /\ Resolve(rmemory, i.args[1]).val = 0
  /\ rmemory' = Bind(rmemory, i.outs, <<Default(i.ty)>>)
  /\ rpc' = rpc + 1 /\ UNCHANGED <<rstatus, rpis, rcur, routputs>>
ReadsOn(i) ==
  i.args # <<>> => IsOn(rmemory, i.args[1]) /\ Resolve(rmemory, i.args[1]).val # 0
TakesRead(i, stream, f) ==
  LET w == encoded_len(i.ty)
      x == R!Taken(f, rcur[stream], w)
      avail == R!Available(f, rcur[stream], w)
  IN \/ ~avail /\ R!Stop("panicked")
     \/ avail /\ Decode(x, i.ty) = {} /\ R!Reject
     \/ /\ avail /\ \E v \in Decode(x, i.ty) : rmemory' = Bind(rmemory, i.outs, <<v>>)
        /\ rcur' = [rcur EXCEPT ![stream] = @ + w]
        /\ rpc' = rpc + 1 /\ UNCHANGED <<rstatus, rpis, routputs>>

\* Reads in the terms of the module, not of its instance.
LEMMA SameIsOn ==
  ASSUME NEW m, NEW o
  PROVE  R!BoolOperand(m, o) = IsOn(m, o) /\ R!Resolve(m, o) = Resolve(m, o)
BY SameControl DEF R!BoolOperand, IsOn

LEMMA ReadDoes ==
  ASSUME NEW op, NEW stream, R!Read(op, stream), NEW i, i = R!Instr,
         NEW f, f = Extract[stream]
  PROVE  /\ rstatus = "executing" /\ rpc <= Len(src.code) /\ src.code[rpc].op = op
         /\ \/ i.args # <<>> /\ ~IsOn(rmemory, i.args[1]) /\ R!Reject
            \/ SkipsRead(i)
            \/ ReadsOn(i) /\ TakesRead(i, stream, f)
<1>1. /\ R!BoolOperand(rmemory, i.args[1]) = IsOn(rmemory, i.args[1])
      /\ R!Resolve(rmemory, i.args[1]) = Resolve(rmemory, i.args[1])
  BY SameIsOn
<1>2. /\ R!encoded_len(i.ty) = encoded_len(i.ty)
      /\ R!Default(i.ty) = Default(i.ty)
      /\ R!Bind(rmemory, i.outs, <<Default(i.ty)>>) = Bind(rmemory, i.outs, <<Default(i.ty)>>)
      /\ \A enc : R!Decode(enc, i.ty) = Decode(enc, i.ty)
      /\ \A v : R!Bind(rmemory, i.outs, <<v>>) = Bind(rmemory, i.outs, <<v>>)
  BY SameLength, SameDefault, SameDecode, SameMemory
<1> QED
  BY <1>1, <1>2 DEF R!Read, R!Fetch, SkipsRead, ReadsOn, TakesRead

\* A guard that the run does not find a bit is one the circuit omits to check;
\* any other is in the run what it is in the cells.
LEMMA GuardFollows ==
  ASSUME SatisfiedRun, RunTyped, NEW n \in Nat, n < Len(src.code), NEW i, i = src.code[n + 1],
         i.op \in ReadOps, i.args # <<>>,
         FollowsTo(src, wit, cells, rmemory, rpis, routputs, rcur, n),
         NEW g, g = Resolve(rmemory, i.args[1])
  PROVE  /\ ~IsOn(rmemory, i.args[1]) => LaxOf(src, cells, n)
         /\ IsOn(rmemory, i.args[1]) =>
              /\ Resolvable(cells, Guard(i)) /\ Resolve(cells, Guard(i)) = g
              /\ g.val = 0 => g = Fr(0)
              /\ g.val # 0 => g = Fr(1)
<1>1. PICK o : o = Guard(i)
  OBVIOUS
<1>2. o = i.args[1] /\ o \in Operand
  <2>1. i.args \in Seq(Operand)
    BY EndAt
  <2>2. 1 \in DOMAIN i.args
    BY <2>1, EmptySeq, LenProperties
  <2> QED
    BY <1>1, <2>1, <2>2, ElementOfSeq, LenProperties DEF Guard
<1>3. DOMAIN rmemory = Names(src, n) /\ Keeps(rmemory, cells) /\ MemoryTyped(rmemory)
  BY DEF FollowsTo, RunTyped
<1>4. Early(src, n, o) <=> Resolvable(rmemory, o)
  BY <1>3 DEF Early, Resolvable
<1>5. Resolvable(rmemory, o) => Resolvable(cells, o) /\ Resolve(cells, o) = Resolve(rmemory, o)
  BY <1>2, <1>3, ResolveSame
<1>6. ASSUME ~IsOn(rmemory, o) PROVE LaxOf(src, cells, n)
  <2>1. LaxGuard(src, cells, n, i)
    BY <1>1, <1>4, <1>5, <1>6 DEF LaxGuard, IsOn
  <2> QED
    BY <2>1 DEF LaxOf
<1>7. ASSUME IsOn(rmemory, o) PROVE (g.val = 0 => g = Fr(0)) /\ (g.val # 0 => g = Fr(1))
  <2>1. Resolvable(rmemory, o) /\ IsBit(g) /\ Typed(g)
    BY <1>2, <1>3, <1>7, OperandIs DEF IsOn
  <2>2. g.ty = Native /\ g.val \in {0, 1}
    BY <2>1 DEF IsBit, IsFr
  <2>3. g = Fr(g.val)
    BY <2>1, <2>2, FrRange
  <2> QED
    BY <2>2, <2>3
<1> QED
  BY <1>1, <1>2, <1>5, <1>6, <1>7 DEF IsOn

\* A read that is off in the run.
LEMMA FollowSkip ==
  ASSUME SatisfiedRun, RunTyped, UNCHANGED <<src, wit, cvars>>, rpis # <<>>,
         rstatus = "executing", NEW n \in Nat, n + 1 = rpc, n < Len(src.code),
         NEW i, i = src.code[n + 1], i.op \in ReadOps,
         FollowsTo(src, wit, cells, rmemory, rpis, routputs, rcur, n),
         SkipsRead(i), ~LaxOf(src, cells, n),
         NEW k \in Nat, k + 1 = rpc'
  PROVE  FollowsAt(k)'
<1>1. PICK x : x = i.outs[1]
  OBVIOUS
<1>2. PICK g : g = Resolve(rmemory, i.args[1])
  OBVIOUS
<1>3. /\ i.args # <<>> /\ Resolvable(cells, Guard(i)) /\ Resolve(cells, Guard(i)) = Fr(0)
  BY <1>2, GuardFollows DEF SkipsRead
<1>4. cells[x] = Default(i.ty)
  BY <1>1, <1>3 DEF LaxOf, LaxGuard
<1>5. /\ x \in DOMAIN cells /\ i.outs \in Seq(Identifier) /\ DOMAIN i.outs = {1}
      /\ ToSet(i.outs) = {x} /\ x \in Identifier
  BY <1>1, ReadAtEnd
<1>6. x \notin DOMAIN rmemory
  <2>1. CodeOK(src) /\ SingleAssignment(src)
    BY EndAt DEF SatisfiedRun
  <2>2. Names(src, n) \cap ToSet(i.outs) = {}
    BY <2>1, FreshAt
  <2> QED
    BY <1>5, <2>2 DEF FollowsTo
<1>7. PICK mm : mm = rmemory'
  OBVIOUS
<1>8. Adds(rmemory, cells, i, mm)
  <2>1. PICK m1 : m1 = rmemory
    OBVIOUS
  <2>2. PICK v : v = Default(i.ty)
    OBVIOUS
  <2>3. PICK vs : vs = <<v>>
    OBVIOUS
  <2>4. mm = Bind(m1, i.outs, vs) /\ vs[1] = v
    BY <1>7, <2>1, <2>2, <2>3 DEF SkipsRead
  <2>5. Fresh(m1, i.outs)
    BY <1>5, <1>6, <2>1 DEF Fresh, IsInjective
  <2>6. Extends(m1, i.outs, vs, mm)
    BY <1>5, <2>4, <2>5, BindFresh
  <2>7. Keeps(m1, cells)
    BY <2>1 DEF FollowsTo
  <2>8. \A j \in DOMAIN i.outs : cells[i.outs[j]] = vs[j]
    BY <1>1, <1>4, <1>5, <2>2, <2>4
  <2>9. Keeps(mm, cells)
    BY <1>5, <2>6, <2>7, <2>8, KeepsBind
  <2> QED
    BY <2>1, <2>6, <2>9 DEF Adds, Extends
<1>9. Moves(cells, i, rcur, rcur')
  <2>1. rcur' = rcur /\ \A op \in Takers : rcur[StreamOf(op)] \in Nat
    BY CursorsAreNat DEF SkipsRead
  <2>2. Fr(0) # Fr(1)
    BY DEF Fr, V
  <2>3. ~OpenIn(cells, i)
    BY <1>3, <2>2 DEF OpenIn
  <2>4. \A op \in Takers : Share(cells, op, i) = <<>>
    BY <2>3 DEF Share
  <2>5. Len(<<>>) = 0
    OBVIOUS
  <2> QED
    BY <2>1, <2>4, <2>5 DEF Moves
<1>10. rpis' = Cat(rpis, Pushed(cells, i)) /\ routputs' = Cat(routputs, Put(cells, i))
  <2>1. Pushed(cells, i) = <<>> /\ Put(cells, i) = <<>>
    BY DEF Pushed, Put, ReadOps
  <2>2. n <= Len(src.code)
    BY DEF FollowsTo
  <2> QED
    BY <2>1, <2>2, NothingMore DEF SkipsRead
<1>11. rpc' = rpc + 1 /\ rstatus' = rstatus
  BY DEF SkipsRead
<1>12. Adds(rmemory, cells, i, rmemory')
  BY <1>7, <1>8
<1> QED
  BY <1>9, <1>10, <1>11, <1>12, FollowAdvance

\* A read that is on finds what the cell encodes.
LEMMA FollowTake ==
  ASSUME SatisfiedRun, RunTyped, UNCHANGED <<src, wit, cvars>>, rpis # <<>>,
         rstatus = "executing", NEW n \in Nat, n + 1 = rpc, n < Len(src.code),
         NEW i, i = src.code[n + 1], i.op \in ReadOps,
         FollowsTo(src, wit, cells, rmemory, rpis, routputs, rcur, n),
         ReadsOn(i), TakesRead(i, StreamOf(i.op), Extract[StreamOf(i.op)]),
         NEW k \in Nat, k + 1 = rpc'
  PROVE  FollowsAt(k)'
<1>1. PICK x : x = i.outs[1]
  OBVIOUS
<1>2. PICK v : v = cells[x]
  OBVIOUS
<1>3. PICK f : f = Extract[StreamOf(i.op)]
  OBVIOUS
<1>4. PICK u : u = ShareTo(src, cells, i.op, n)
  OBVIOUS
<1>5. PICK e : e = Encode(v)
  OBVIOUS
<1>6. /\ x \in DOMAIN cells /\ Typed(v) /\ v.ty = i.ty /\ i.outs \in Seq(Identifier)
      /\ DOMAIN i.outs = {1} /\ ToSet(i.outs) = {x} /\ x \in Identifier
  BY <1>1, <1>2, ReadAtEnd
<1>7. OpenIn(cells, i)
  <2>1. CASE i.args = <<>>
    BY <2>1 DEF OpenIn
  <2>2. CASE i.args # <<>>
    <3>1. PICK g : g = Resolve(rmemory, i.args[1])
      OBVIOUS
    <3>2. Resolvable(cells, Guard(i)) /\ Resolve(cells, Guard(i)) = Fr(1)
      BY <2>2, <3>1, GuardFollows DEF ReadsOn
    <3> QED
      BY <3>2 DEF OpenIn
  <2> QED
    BY <2>1, <2>2
<1>8. Share(cells, i.op, i) = e /\ i.op \in Takers
  BY <1>1, <1>2, <1>5, <1>7 DEF Share, ReadOps, Takers
<1>9. f = ShareTo(src, cells, i.op, Len(src.code))
  BY <1>3, ExtractIs DEF StreamOf, ReadOps
<1>10. Cut(f, u, e, ShareTo(src, cells, i.op, n + 1))
  BY <1>4, <1>8, <1>9, ShareCut
<1>11. rcur[StreamOf(i.op)] = Len(u)
  BY <1>4, <1>8 DEF FollowsTo
<1>12. Len(e) = encoded_len(i.ty) /\ Decode(e, i.ty) = {v}
  BY <1>5, <1>6, EncodeTyped, RoundTrip
<1>13. /\ R!Available(f, rcur[StreamOf(i.op)], encoded_len(i.ty))
       /\ R!Taken(f, rcur[StreamOf(i.op)], encoded_len(i.ty)) = e
  BY <1>10, <1>11, <1>12 DEF Cut, Carries
<1>14. /\ rmemory' = Bind(rmemory, i.outs, <<v>>)
       /\ rcur' = [rcur EXCEPT ![StreamOf(i.op)] = @ + encoded_len(i.ty)]
       /\ rpc' = rpc + 1 /\ UNCHANGED <<rstatus, rpis, routputs>>
  BY <1>3, <1>12, <1>13 DEF TakesRead
<1>15. x \notin DOMAIN rmemory
  <2>1. CodeOK(src) /\ SingleAssignment(src)
    BY EndAt DEF SatisfiedRun
  <2>2. Names(src, n) \cap ToSet(i.outs) = {}
    BY <2>1, FreshAt
  <2> QED
    BY <1>6, <2>2 DEF FollowsTo
<1>16. PICK mm : mm = rmemory'
  OBVIOUS
<1>17. Adds(rmemory, cells, i, mm)
  <2>1. PICK m1 : m1 = rmemory
    OBVIOUS
  <2>3. PICK vs : vs = <<v>>
    OBVIOUS
  <2>4. mm = Bind(m1, i.outs, vs) /\ vs[1] = v
    BY <1>14, <1>16, <2>1, <2>3
  <2>5. Fresh(m1, i.outs)
    BY <1>6, <1>15, <2>1 DEF Fresh, IsInjective
  <2>6. Extends(m1, i.outs, vs, mm)
    BY <1>6, <2>4, <2>5, BindFresh
  <2>7. Keeps(m1, cells)
    BY <2>1 DEF FollowsTo
  <2>8. \A j \in DOMAIN i.outs : cells[i.outs[j]] = vs[j]
    BY <1>1, <1>2, <1>6, <2>4
  <2>9. Keeps(mm, cells)
    BY <1>6, <2>6, <2>7, <2>8, KeepsBind
  <2> QED
    BY <2>1, <2>6, <2>9 DEF Adds, Extends
<1>18. Moves(cells, i, rcur, rcur')
  <2> SUFFICES ASSUME NEW op \in Takers
               PROVE  rcur'[StreamOf(op)] = rcur[StreamOf(op)] + Len(Share(cells, op, i))
    BY DEF Moves
  <2>1. rcur \in [R!StreamNames -> Nat] /\ StreamOf(op) \in R!StreamNames
        /\ StreamOf(i.op) \in R!StreamNames
    BY <1>8 DEF RunTyped, Takers, StreamOf, R!StreamNames
  <2>2. CASE op = i.op
    BY <1>8, <1>12, <1>14, <2>1, <2>2
  <2>3. CASE op # i.op
    <3>1. Share(cells, op, i) = <<>> /\ Len(<<>>) = 0
      BY <2>3 DEF Share
    <3>2. StreamOf(op) # StreamOf(i.op)
      BY <1>8, <2>3 DEF StreamOf, Takers
    <3>3. rcur'[StreamOf(op)] = rcur[StreamOf(op)] /\ rcur[StreamOf(op)] \in Nat
      BY <1>14, <2>1, <3>2
    <3> QED
      BY <3>1, <3>3
  <2> QED
    BY <2>2, <2>3
<1>19. rpis' = Cat(rpis, Pushed(cells, i)) /\ routputs' = Cat(routputs, Put(cells, i))
  <2>1. Pushed(cells, i) = <<>> /\ Put(cells, i) = <<>>
    BY DEF Pushed, Put, ReadOps
  <2>2. n <= Len(src.code)
    BY DEF FollowsTo
  <2> QED
    BY <1>14, <2>1, <2>2, NothingMore
<1>20. Adds(rmemory, cells, i, rmemory')
  BY <1>16, <1>17
<1>21. rpc' = rpc + 1 /\ rstatus' = rstatus
  BY <1>14
<1> QED
  BY <1>18, <1>19, <1>20, <1>21, FollowAdvance

\* A read of the run follows, or fails for a guard the circuit omits to check.
LEMMA FollowRead ==
  ASSUME SatisfiedRun, RunTyped, UNCHANGED <<src, wit, cvars>>, NEW op \in ReadOps,
         R!Read(op, StreamOf(op)), rpis # <<>>,
         NEW n \in Nat, n + 1 = rpc, Clear(n) => FollowsAt(n),
         NEW k \in Nat, k + 1 = rpc', Clear(k)'
  PROVE  FollowsAt(k)'
<1>1. PICK i : i = src.code[n + 1]
  OBVIOUS
<1>2. PICK f : f = Extract[StreamOf(op)]
  OBVIOUS
<1>3. R!Instr = i
  BY <1>1 DEF R!Instr
<1>4. /\ rstatus = "executing" /\ rpc <= Len(src.code) /\ src.code[rpc].op = op
      /\ \/ i.args # <<>> /\ ~IsOn(rmemory, i.args[1]) /\ R!Reject
         \/ SkipsRead(i)
         \/ ReadsOn(i) /\ TakesRead(i, StreamOf(op), f)
  BY <1>2, <1>3, ReadDoes
<1>5. n < Len(src.code) /\ i.op = op /\ i.op \in ReadOps
  BY <1>1, <1>4, RunFetched
<1>6. rpis' = rpis /\ src' = src /\ cells' = cells /\ n <= k
  <2>1. rpis' = rpis /\ (rpc' = rpc \/ rpc' = rpc + 1)
    BY <1>4 DEF SkipsRead, TakesRead, R!Reject, R!Stop
  <2> QED
    BY <2>1 DEF cvars
<1>7. Clear(n)
  BY <1>6, ClearBack
<1>8. FollowsTo(src, wit, cells, rmemory, rpis, routputs, rcur, n)
  BY <1>7 DEF FollowsAt
<1>9. CASE i.args # <<>> /\ ~IsOn(rmemory, i.args[1]) /\ R!Reject
  <2>1. PICK g : g = Resolve(rmemory, i.args[1])
    OBVIOUS
  <2>2. LaxOf(src, cells, n)
    BY <1>1, <1>5, <1>8, <1>9, <2>1, GuardFollows
  <2> QED
    BY <1>5, <1>8, <1>9, <2>2, FollowReject
<1>10. CASE SkipsRead(i)
  <2>1. k = n + 1 /\ n < k
    BY <1>10 DEF SkipsRead
  <2>2. ~LaxOf(src, cells, n)
    BY <1>6, <2>1 DEF Clear
  <2> QED
    BY <1>1, <1>4, <1>5, <1>8, <1>10, <2>2, FollowSkip
<1>11. CASE ReadsOn(i) /\ TakesRead(i, StreamOf(op), f)
  <2>1. TakesRead(i, StreamOf(i.op), Extract[StreamOf(i.op)])
    BY <1>2, <1>5, <1>11
  <2> QED
    BY <1>1, <1>4, <1>5, <1>8, <1>11, <2>1, FollowTake
<1> QED
  BY <1>4, <1>9, <1>10, <1>11

\* What an Impact and an Output of the run do, in the terms of the statement.
SkipsImpact(i) ==
  /\ IsOn(rmemory, Guard(i)) /\ Resolve(rmemory, Guard(i)).val = 0
  /\ rpis' = rpis \o [j \in 1..Len(ImpactInputs(i)) |-> 0]
  /\ rpc' = rpc + 1 /\ UNCHANGED <<rstatus, rmemory, rcur, routputs>>
Matches(i, vals, f) ==
  /\ IsOn(rmemory, Guard(i)) /\ AllResolvable(rmemory, ImpactInputs(i)) /\ AllFr(vals)
  /\ R!Available(f, rcur.public_in, Len(ImpactInputs(i)))
  /\ R!Taken(f, rcur.public_in, Len(ImpactInputs(i))) = Payloads(vals)
TakesImpact(i, vals) ==
  /\ rpis' = rpis \o Payloads(vals)
  /\ rcur' = [rcur EXCEPT !["public_in"] = @ + Len(ImpactInputs(i))]
  /\ rpc' = rpc + 1 /\ UNCHANGED <<rstatus, rmemory, routputs>>

\* Impacts and outputs in the terms of the module, not of its instance.
LEMMA ImpactDoes ==
  ASSUME R!ImpactSkipped \/ R!ImpactActive, NEW i, i = R!Instr, NEW f, f = Extract.public_in,
         NEW vals, vals = ResolveAll(rmemory, ImpactInputs(i))
  PROVE  /\ rstatus = "executing" /\ rpc <= Len(src.code) /\ src.code[rpc].op = "Impact"
         /\ \/ SkipsImpact(i)
            \/ /\ ~(IsOn(rmemory, Guard(i)) /\ Resolve(rmemory, Guard(i)).val = 0)
               /\ \/ ~Matches(i, vals, f) /\ R!Reject
                  \/ Matches(i, vals, f) /\ TakesImpact(i, vals)
<1>1. R!Guard(i) = Guard(i) /\ R!ImpactInputs(i) = ImpactInputs(i)
  BY SameControl
<1>2. /\ R!BoolOperand(rmemory, Guard(i)) = IsOn(rmemory, Guard(i))
      /\ R!Resolve(rmemory, Guard(i)) = Resolve(rmemory, Guard(i))
  BY SameIsOn
<1>3. /\ R!ResolveAll(rmemory, ImpactInputs(i)) = vals
      /\ R!AllResolvable(rmemory, ImpactInputs(i)) = AllResolvable(rmemory, ImpactInputs(i))
      /\ R!AllFr(vals) = AllFr(vals) /\ R!Payloads(vals) = Payloads(vals)
  BY SameMemory, SameControl
<1>4. CASE R!ImpactSkipped
  BY <1>1, <1>2, <1>4 DEF R!ImpactSkipped, R!Fetch, SkipsImpact, R!Zeros
<1>5. CASE R!ImpactActive
  BY <1>1, <1>2, <1>3, <1>5 DEF R!ImpactActive, R!Fetch, Matches, TakesImpact
<1> QED
  BY <1>4, <1>5

PutsOut(vals) ==
  /\ routputs' = routputs \o vals
  /\ rpc' = rpc + 1 /\ UNCHANGED <<rstatus, rmemory, rpis, rcur>>
LEMMA OutputDoes ==
  ASSUME R!OutputValues, NEW i, i = R!Instr, NEW vals, vals = ResolveAll(rmemory, i.args),
         Len(i.args) = Len(src.outputs), AllResolvable(rmemory, i.args),
         \A j \in DOMAIN i.args : vals[j].ty = src.outputs[j]
  PROVE  /\ rstatus = "executing" /\ rpc <= Len(src.code) /\ src.code[rpc].op = "Output"
         /\ PutsOut(vals)
<1>1. /\ R!ResolveAll(rmemory, i.args) = vals
      /\ R!AllResolvable(rmemory, i.args) = AllResolvable(rmemory, i.args)
  BY SameMemory
<1> QED
  BY <1>1 DEF R!OutputValues, R!Fetch, PutsOut

\* The run finds the operands of an Impact to be the cells.
LEMMA ImpactFollows ==
  ASSUME SatisfiedRun, NEW n \in Nat, n < Len(src.code), NEW i, i = src.code[n + 1],
         i.op = "Impact", NEW a, a = ResolveAll(cells, i.args),
         NEW vals, vals = ResolveAll(cells, ImpactInputs(i)),
         FollowsTo(src, wit, cells, rmemory, rpis, routputs, rcur, n)
  PROVE  /\ IsOn(rmemory, Guard(i)) /\ Resolve(rmemory, Guard(i)) = a[1]
         /\ AllResolvable(rmemory, ImpactInputs(i))
         /\ ResolveAll(rmemory, ImpactInputs(i)) = vals
         /\ AllFr(vals) /\ Len(Payloads(vals)) = Len(ImpactInputs(i))
<1>1. i \in Instruction /\ WellShaped(i) /\ i.args \in Seq(Operand)
  BY EndAt
<1>2. AllEarly(src, n, i.args) /\ AllResolvable(cells, i.args) /\ DOMAIN a = 1..Len(i.args)
  BY OperandsAtEnd DEF ReadOps
<1>3. /\ AllFr(a) /\ Resolve(cells, Guard(i)) = a[1] /\ IsBit(a[1]) /\ 1 \in DOMAIN i.args
  BY ImpactAtEnd
<1>4. PICK l \in Nat : /\ DOMAIN i.args = 1..l + 1 /\ DOMAIN ImpactInputs(i) = 1..l
                       /\ Len(i.args) = l + 1 /\ Len(ImpactInputs(i)) = l
                       /\ \A j \in 1..l : ImpactInputs(i)[j] = i.args[j + 1]
  BY <1>1, ImpactOperands
<1>5. PICK os : os = ImpactInputs(i)
  OBVIOUS
<1>6. \A j \in 1..l : j + 1 \in 1..l + 1
  OBVIOUS
<1>7. os \in Seq(Operand)
  BY <1>1, <1>3, <1>5, HeadTailProperties, EmptySeq DEF ImpactInputs
<1>8. AllEarly(src, n, os)
  BY <1>2, <1>4, <1>5, <1>6 DEF AllEarly
<1>9. AllResolvable(rmemory, i.args) /\ ResolveAll(rmemory, i.args) = a
  BY <1>1, <1>2, OperandsFollow
<1>10. AllResolvable(rmemory, os) /\ ResolveAll(rmemory, os) = vals
  BY <1>5, <1>7, <1>8, OperandsFollow
<1>11. Resolvable(rmemory, Guard(i)) /\ Resolve(rmemory, Guard(i)) = a[1]
  BY <1>3, <1>9 DEF Guard, AllResolvable, ResolveAll
<1>12. AllFr(vals)
  <2>1. DOMAIN vals = 1..l /\ \A j \in 1..l : vals[j] = a[j + 1]
    BY <1>4, <1>6 DEF ResolveAll
  <2>2. \A j \in 1..l : j + 1 \in DOMAIN a
    BY <1>2, <1>4, <1>6
  <2> QED
    BY <1>3, <2>1, <2>2 DEF AllFr
<1>13. Len(Payloads(vals)) = l
  <2>1. DOMAIN vals = 1..l
    BY <1>4 DEF ResolveAll
  <2> QED
    BY <2>1 DEF Payloads
<1> QED
  BY <1>3, <1>4, <1>5, <1>10, <1>11, <1>12, <1>13 DEF IsOn

\* An Impact of the run publishes what the circuit exposes: it cannot fail.
LEMMA FollowImpact ==
  ASSUME SatisfiedRun, RunTyped, UNCHANGED <<src, wit, cvars>>,
         R!ImpactSkipped \/ R!ImpactActive, rpis # <<>>, rpis' # <<>>,
         NEW n \in Nat, n + 1 = rpc, Clear(n) => FollowsAt(n),
         NEW k \in Nat, k + 1 = rpc', Clear(k)'
  PROVE  FollowsAt(k)'
<1>1. PICK i : i = src.code[n + 1]
  OBVIOUS
<1>2. PICK a : a = ResolveAll(cells, i.args)
  OBVIOUS
<1>3. PICK f : f = Extract.public_in
  OBVIOUS
<1>4. PICK vals : vals = ResolveAll(rmemory, ImpactInputs(i))
  OBVIOUS
<1>5. R!Instr = i
  BY <1>1 DEF R!Instr
<1>6. /\ rstatus = "executing" /\ rpc <= Len(src.code) /\ src.code[rpc].op = "Impact"
      /\ \/ SkipsImpact(i)
         \/ /\ ~(IsOn(rmemory, Guard(i)) /\ Resolve(rmemory, Guard(i)).val = 0)
            /\ \/ ~Matches(i, vals, f) /\ R!Reject
               \/ Matches(i, vals, f) /\ TakesImpact(i, vals)
  BY <1>3, <1>4, <1>5, ImpactDoes
<1>7. n < Len(src.code) /\ i.op = "Impact"
  BY <1>1, <1>6, RunFetched
<1>8. src' = src /\ cells' = cells /\ n <= k
  <2>1. rpc' = rpc \/ rpc' = rpc + 1
    BY <1>6 DEF SkipsImpact, TakesImpact, R!Reject, R!Stop
  <2> QED
    BY <2>1 DEF cvars
<1>9. Clear(n)
  BY <1>8, ClearBack
<1>10. FollowsTo(src, wit, cells, rmemory, rpis, routputs, rcur, n) /\ n <= Len(src.code)
  BY <1>9 DEF FollowsAt, FollowsTo
<1>11. PICK xs : xs = ResolveAll(cells, ImpactInputs(i))
  OBVIOUS
<1>12. /\ IsOn(rmemory, Guard(i)) /\ Resolve(rmemory, Guard(i)) = a[1]
       /\ AllResolvable(rmemory, ImpactInputs(i)) /\ vals = xs
       /\ AllFr(xs) /\ Len(Payloads(xs)) = Len(ImpactInputs(i))
  BY <1>1, <1>2, <1>4, <1>7, <1>10, <1>11, ImpactFollows
<1>13. /\ a[1].val # 0 <=> a[1] = Fr(1)
       /\ OpenIn(cells, i) <=> a[1].val = 1
       /\ a[1].val = 1 => Pushed(cells, i) = Payloads(xs)
       /\ a[1].val # 1 => Pushed(cells, i) = [j \in 1..Len(ImpactInputs(i)) |-> 0]
  BY <1>1, <1>2, <1>7, <1>11, ImpactAtEnd
<1>14. IsFcn(rmemory) /\ Keeps(rmemory, cells)
  BY <1>10 DEF FollowsTo
<1>15. ASSUME rmemory' = rmemory PROVE Adds(rmemory, cells, i, rmemory')
  <2>1. WellShaped(i)
    BY <1>1, <1>7, EndAt
  <2>2. PICK m : m = rmemory
    OBVIOUS
  <2>3. DOMAIN m = DOMAIN m \cup ToSet(i.outs)
    BY <1>7, <2>1, NothingBound
  <2> QED
    BY <1>14, <1>15, <2>2, <2>3 DEF Adds
<1>16. ASSUME routputs' = routputs PROVE routputs' = Cat(routputs, Put(cells, i))
  <2>1. Put(cells, i) = <<>>
    BY <1>7 DEF Put
  <2> QED
    BY <1>10, <1>16, <2>1, NothingMore
<1>17. \A op \in Takers : rcur[StreamOf(op)] \in Nat
  BY CursorsAreNat
<1>18. CASE a[1].val = 0
  <2>1. SkipsImpact(i)
    BY <1>6, <1>12, <1>18
  <2>2. Pushed(cells, i) = [j \in 1..Len(ImpactInputs(i)) |-> 0] /\ ~OpenIn(cells, i)
    BY <1>13, <1>18
  <2>3. rpis' = Cat(rpis, Pushed(cells, i))
    BY <2>1, <2>2 DEF SkipsImpact, Cat
  <2>4. Moves(cells, i, rcur, rcur')
    <3>1. \A op \in Takers : Share(cells, op, i) = <<>>
      BY <2>2 DEF Share
    <3>2. Len(<<>>) = 0
      OBVIOUS
    <3> QED
      BY <1>17, <2>1, <3>1, <3>2 DEF Moves, SkipsImpact
  <2>5. Adds(rmemory, cells, i, rmemory') /\ routputs' = Cat(routputs, Put(cells, i))
    BY <1>15, <1>16, <2>1 DEF SkipsImpact
  <2>6. rpc' = rpc + 1 /\ rstatus' = rstatus
    BY <2>1 DEF SkipsImpact
  <2> QED
    BY <1>1, <1>6, <1>7, <1>10, <2>3, <2>4, <2>5, <2>6, FollowAdvance
<1>19. CASE a[1].val # 0
  <2>1. a[1].val = 1
    BY <1>13, <1>19 DEF Fr, V
  <2>2. Pushed(cells, i) = Payloads(xs) /\ OpenIn(cells, i)
    BY <1>13, <2>1
  <2>3. Share(cells, "Impact", i) = Payloads(xs) /\ "Impact" \in Takers
    BY <1>7, <1>11, <2>2 DEF Share, Takers
  <2>4. PICK u : u = ShareTo(src, cells, "Impact", n)
    OBVIOUS
  <2>5. Cut(f, u, Payloads(xs), ShareTo(src, cells, "Impact", n + 1))
    <3>1. f = ShareTo(src, cells, "Impact", Len(src.code))
      BY <1>3, ExtractIs
    <3> QED
      BY <1>1, <1>7, <2>3, <2>4, <3>1, ShareCut
  <2>6. rcur.public_in = Len(u)
    <3>1. rcur[StreamOf("Impact")] = Len(u)
      BY <1>10, <2>3, <2>4 DEF FollowsTo
    <3> QED
      BY <3>1 DEF StreamOf
  <2>7. Matches(i, vals, f)
    BY <1>12, <2>5, <2>6 DEF Matches, Cut, Carries
  <2>8. TakesImpact(i, vals)
    BY <1>6, <1>12, <1>19, <2>7 DEF SkipsImpact
  <2>9. rpis' = Cat(rpis, Pushed(cells, i))
    BY <1>12, <2>2, <2>8 DEF TakesImpact, Cat
  <2>10. Moves(cells, i, rcur, rcur')
    <3> SUFFICES ASSUME NEW op \in Takers
                 PROVE  rcur'[StreamOf(op)] = rcur[StreamOf(op)] + Len(Share(cells, op, i))
      BY DEF Moves
    <3>1. rcur \in [R!StreamNames -> Nat] /\ StreamOf(op) \in R!StreamNames
          /\ "public_in" \in R!StreamNames
      BY DEF RunTyped, Takers, StreamOf, R!StreamNames
    <3>2. CASE op = "Impact"
      <4>1. StreamOf(op) = "public_in"
        BY <3>2 DEF StreamOf
      <4> QED
        BY <1>12, <2>3, <2>8, <3>1, <3>2, <4>1 DEF TakesImpact
    <3>3. CASE op # "Impact"
      <4>1. Share(cells, op, i) = <<>> /\ Len(<<>>) = 0
        BY <1>7, <3>3 DEF Share
      <4>2. StreamOf(op) # "public_in"
        BY <3>3 DEF StreamOf, Takers
      <4>3. rcur'[StreamOf(op)] = rcur[StreamOf(op)] /\ rcur[StreamOf(op)] \in Nat
        BY <2>8, <3>1, <4>2 DEF TakesImpact
      <4> QED
        BY <4>1, <4>3
    <3> QED
      BY <3>2, <3>3
  <2>11. Adds(rmemory, cells, i, rmemory') /\ routputs' = Cat(routputs, Put(cells, i))
    BY <1>15, <1>16, <2>8 DEF TakesImpact
  <2>12. rpc' = rpc + 1 /\ rstatus' = rstatus
    BY <2>8 DEF TakesImpact
  <2> QED
    BY <1>1, <1>6, <1>7, <1>10, <2>9, <2>10, <2>11, <2>12, FollowAdvance
<1> QED
  BY <1>18, <1>19

\* An Output of the run puts out the cells, of the declared types: it cannot fail.
LEMMA FollowOutput ==
  ASSUME SatisfiedRun, RunTyped, UNCHANGED <<src, wit, cvars>>, R!OutputValues, rpis # <<>>,
         NEW n \in Nat, n + 1 = rpc, Clear(n) => FollowsAt(n),
         NEW k \in Nat, k + 1 = rpc', Clear(k)'
  PROVE  FollowsAt(k)'
<1>1. PICK i : i = src.code[n + 1]
  OBVIOUS
<1>2. PICK a : a = ResolveAll(cells, i.args)
  OBVIOUS
<1>3. R!Instr = i
  BY <1>1 DEF R!Instr
<1>4. n < Len(src.code) /\ i.op = "Output"
  <2>1. rpc <= Len(src.code) /\ i.op = "Output"
    BY <1>1 DEF R!OutputValues, R!Fetch
  <2> QED
    BY <2>1, RunFetched
<1>5. src' = src /\ cells' = cells /\ n <= k /\ rpis' = rpis
  <2>1. rpis' = rpis /\ (rpc' = rpc \/ rpc' = rpc + 1)
    BY DEF R!OutputValues, R!Reject, R!Stop
  <2> QED
    BY <2>1 DEF cvars
<1>6. Clear(n)
  BY <1>5, ClearBack
<1>7. /\ FollowsTo(src, wit, cells, rmemory, rpis, routputs, rcur, n) /\ n <= Len(src.code)
      /\ IsFcn(rmemory) /\ Keeps(rmemory, cells)
  BY <1>6 DEF FollowsAt, FollowsTo
<1>8. i \in Instruction /\ WellShaped(i) /\ i.args \in Seq(Operand) /\ LaidAt(src, cells, n)
  BY <1>1, <1>4, EndAt
<1>9. AllEarly(src, n, i.args) /\ DOMAIN a = DOMAIN i.args
  <2>1. AllEarly(src, n, i.args)
    BY <1>1, <1>2, <1>4, OperandsAtEnd DEF ReadOps
  <2> QED
    BY <1>2, <2>1 DEF ResolveAll
<1>10. AllResolvable(rmemory, i.args) /\ ResolveAll(rmemory, i.args) = a
  BY <1>1, <1>2, <1>4, <1>7, <1>8, <1>9, OperandsFollow
<1>11. Len(i.args) = Len(src.outputs) /\ TypesOf(a) = src.outputs
  BY <1>1, <1>2, <1>4, <1>8 DEF LaidAt, Laid, HasPut, ReadOps
<1>12. \A j \in DOMAIN i.args : a[j].ty = src.outputs[j]
  BY <1>9, <1>11 DEF TypesOf
<1>13. rstatus = "executing" /\ PutsOut(a)
  BY <1>3, <1>10, <1>11, <1>12, OutputDoes
<1>14. routputs' = Cat(routputs, Put(cells, i)) /\ rpc' = rpc + 1 /\ rstatus' = rstatus
  BY <1>2, <1>4, <1>13 DEF PutsOut, Put, Cat
<1>15. rpis' = Cat(rpis, Pushed(cells, i))
  <2>1. Pushed(cells, i) = <<>>
    BY <1>4 DEF Pushed
  <2> QED
    BY <1>5, <1>7, <2>1, NothingMore
<1>16. Adds(rmemory, cells, i, rmemory')
  <2>1. PICK m : m = rmemory
    OBVIOUS
  <2>2. DOMAIN m = DOMAIN m \cup ToSet(i.outs)
    BY <1>4, <1>8, NothingBound
  <2>3. rmemory' = rmemory
    BY <1>13 DEF PutsOut
  <2> QED
    BY <1>7, <2>1, <2>2, <2>3 DEF Adds
<1>17. Moves(cells, i, rcur, rcur')
  <2>1. Moves(cells, i, rcur, rcur)
    BY <1>4, CursorsAreNat, SilentMoves DEF Takers
  <2>2. rcur' = rcur
    BY <1>13 DEF PutsOut
  <2> QED
    BY <2>1, <2>2
<1> QED
  BY <1>1, <1>4, <1>7, <1>13, <1>14, <1>15, <1>16, <1>17, FollowAdvance

\* A run that has followed to the end finds its streams consumed and the
\* commitment opened.
LEMMA FollowFinish ==
  ASSUME SatisfiedRun, RunTyped, UNCHANGED <<src, wit, cvars>>, R!Finish, rpis # <<>>,
         NEW n \in Nat, n + 1 = rpc, Clear(n) => FollowsAt(n),
         NEW k \in Nat, k + 1 = rpc', Clear(k)'
  PROVE  FollowsAt(k)'
<1>1. PICK l \in Nat : l = Len(src.code) /\ LaidTo(src, wit, cells, cpis, couts, l)
  BY AtEnd
<1>2. /\ src' = src /\ wit' = wit /\ cells' = cells /\ k = n
      /\ rmemory' = rmemory /\ rpis' = rpis /\ routputs' = routputs /\ rcur' = rcur
  BY DEF cvars, R!Finish, R!Reject, R!Stop
<1>3. Clear(n)
  <2>1. n <= k
    BY <1>2
  <2> QED
    BY <1>2, <2>1, ClearBack
<1>4. FollowsTo(src, wit, cells, rmemory, rpis, routputs, rcur, n)
  BY <1>3 DEF FollowsAt
<1>5. n = l
  BY <1>1, <1>4 DEF FollowsTo, R!Finish
<1>6. routputs = couts
  BY <1>1, <1>4, <1>5 DEF FollowsTo, LaidTo
<1>7. R!Consumed
  <2>1. \A op \in Takers : rcur[StreamOf(op)] = Len(ShareTo(src, cells, op, l))
    BY <1>4, <1>5 DEF FollowsTo
  <2>2. /\ rcur.public_in = Len(ShareTo(src, cells, "Impact", l))
        /\ rcur.public_out = Len(ShareTo(src, cells, "PublicInput", l))
        /\ rcur.private = Len(ShareTo(src, cells, "PrivateInput", l))
    BY <2>1 DEF Takers, StreamOf
  <2> QED
    BY <1>1, <2>2, ExtractIs DEF R!Consumed
<1>8. src.comm => Extract.comm # <<>> /\ Extract.comm[1] = R!Commitment
  BY <1>6, ExtractOpens
<1>9. rstatus' = "accepted"
  BY <1>7, <1>8 DEF R!Finish, R!Reject, R!Stop
<1> QED
  BY <1>1, <1>2, <1>4, <1>5, <1>9 DEF FollowsAt

\* The run publishes elements of the field, and never takes one back.
LEMMA PublishedTyped ==
  ASSUME SatisfiedRun, RunTyped, rpis \in Seq(Immediates), UNCHANGED <<src, wit, cvars>>, R!Step
  PROVE  rpis' \in Seq(Immediates) /\ (rpis # <<>> => rpis' # <<>> \/ R!SeedPublicInputs)
<1>1. CASE rpis' = rpis
  BY <1>1
<1>2. CASE R!SeedPublicInputs /\ ~R!Reject
  <2>1. /\ src.comm => Extract.comm = wit.comm
        /\ Extract.binding = wit.binding
    BY HeaderIs, ExtractIs
  <2>2. rpis' = <<Extract.binding>> \o (IF src.comm THEN <<Extract.comm[1]>> ELSE <<>>)
    BY <1>2 DEF R!SeedPublicInputs
  <2>3. rpis' = StartOf(src, wit)
    BY <2>1, <2>2 DEF StartOf
  <2> QED
    BY <1>2, <2>3, HeaderIs
<1>3. CASE R!ImpactSkipped \/ R!ImpactActive
  <2>1. PICK i : i = R!Instr
    OBVIOUS
  <2>2. PICK f : f = Extract.public_in
    OBVIOUS
  <2>3. PICK vals : vals = ResolveAll(rmemory, ImpactInputs(i))
    OBVIOUS
  <2>4. /\ rpc <= Len(src.code) /\ i.op = "Impact"
        /\ \/ SkipsImpact(i) \/ R!Reject
           \/ Matches(i, vals, f) /\ TakesImpact(i, vals)
    BY <1>3, <2>1, <2>2, <2>3, ImpactDoes DEF R!Instr
  <2>5. i \in Instruction /\ WellShaped(i) /\ i.args \in Seq(Operand)
    BY <2>1, <2>4, RunInstr DEF SatisfiedRun
  <2>6. PICK l \in Nat : /\ DOMAIN ImpactInputs(i) = 1..l /\ Len(ImpactInputs(i)) = l
                         /\ Len(i.args) = l + 1
    BY <2>4, <2>5, ImpactOperands
  <2>7. ASSUME NEW x \in Seq(Immediates), rpis' = rpis \o x
        PROVE  rpis' \in Seq(Immediates) /\ (rpis # <<>> => rpis' # <<>>)
    BY <2>7, ConcatProperties, EmptySeq, LenProperties
  <2>8. CASE SkipsImpact(i)
    <3>1. PICK z : z = [j \in 1..l |-> 0]
      OBVIOUS
    <3>2. z = [j \in 1..l |-> z[j]] /\ \A j \in 1..l : z[j] \in Immediates
      BY <3>1, Constants DEF Immediates
    <3>3. z \in Seq(Immediates)
      BY <3>2, IsASeq
    <3> QED
      BY <2>6, <2>7, <2>8, <3>1, <3>3 DEF SkipsImpact
  <2>9. CASE Matches(i, vals, f) /\ TakesImpact(i, vals)
    <3>1. ImpactInputs(i) \in Seq(Operand)
      <4>1. i.args # <<>>
        BY <2>4, <2>5 DEF WellShaped
      <4> QED
        BY <2>5, <4>1, HeadTailProperties DEF ImpactInputs
    <3>2. \A j \in 1..l : vals[j] = Resolve(rmemory, ImpactInputs(i)[j]) /\ IsFr(vals[j])
      BY <2>3, <2>6, <2>9 DEF ResolveAll, Matches, AllFr
    <3>3. \A j \in 1..l : vals[j].val \in Immediates
      <4> SUFFICES ASSUME NEW j \in 1..l PROVE vals[j].val \in Immediates
        OBVIOUS
      <4>1. ImpactInputs(i)[j] \in Operand
        BY <2>6, <3>1, ElementOfSeq
      <4>2. Resolvable(rmemory, ImpactInputs(i)[j])
        BY <2>6, <2>9 DEF Matches, AllResolvable
      <4>3. Typed(vals[j])
        BY <3>2, <4>1, <4>2, OperandIs DEF RunTyped
      <4> QED
        BY <3>2, <4>3, FrRange DEF IsFr
    <3>4. PICK x : x = Payloads(vals)
      OBVIOUS
    <3>5. x = [j \in 1..l |-> x[j]] /\ \A j \in 1..l : x[j] \in Immediates
      <4>1. DOMAIN vals = 1..l
        BY <2>3, <2>6 DEF ResolveAll
      <4> QED
        BY <3>3, <3>4, <4>1 DEF Payloads
    <3>6. x \in Seq(Immediates)
      BY <3>5, IsASeq
    <3> QED
      BY <2>7, <2>9, <3>4, <3>6 DEF TakesImpact
  <2> QED
    BY <1>1, <2>4, <2>8, <2>9 DEF R!Reject, R!Stop
<1>4. rpis' = rpis \/ R!SeedPublicInputs \/ R!ImpactSkipped \/ R!ImpactActive
  BY DEF R!Step, R!DecodeInput, R!Compute, R!ReadPublic, R!ReadPrivate, R!Read, R!OutputValues,
         R!Finish, R!Reject, R!Stop
<1> QED
  BY <1>1, <1>2, <1>3, <1>4 DEF R!Reject, R!Stop

\* A run that has published nothing is decoding, or has failed to decode.
Phase == rstatus = "decoding" <=> rpis = <<>> /\ rstatus \notin R!Final

\* A run seeds its public inputs when it has decoded, and never again.
LEMMA PhaseStep ==
  ASSUME SatisfiedRun, RunTyped, Phase, rpis \in Seq(Immediates),
         UNCHANGED <<src, wit, cvars>>, R!Step
  PROVE  Phase' /\ rpis' \in Seq(Immediates)
<1>1. rpis' \in Seq(Immediates) /\ (rpis # <<>> => rpis' # <<>> \/ R!SeedPublicInputs)
  BY PublishedTyped
<1>2. rstatus \in {"decoding", "executing"}
  BY DEF R!Step, R!DecodeInput, R!SeedPublicInputs, R!Compute, R!ReadPublic, R!ReadPrivate, R!Read,
         R!ImpactSkipped, R!ImpactActive, R!OutputValues, R!Finish, R!Fetch
<1>3. CASE \E s \in R!Final : R!Stop(s)
  BY <1>3 DEF R!Stop, Phase, R!Final
<1>4. CASE R!SeedPublicInputs /\ ~R!Reject
  <2>1. /\ src.comm => Extract.comm = wit.comm
        /\ Extract.binding = wit.binding
    BY HeaderIs, ExtractIs
  <2>2. /\ rpis' = <<Extract.binding>> \o (IF src.comm THEN <<Extract.comm[1]>> ELSE <<>>)
        /\ rstatus' = "executing"
    BY <1>4 DEF R!SeedPublicInputs
  <2>3. rpis' = StartOf(src, wit)
    BY <2>1, <2>2 DEF StartOf
  <2> QED
    BY <2>2, <2>3, HeaderIs DEF Phase
<1>5. CASE rstatus' = rstatus /\ ~R!SeedPublicInputs /\ (rstatus = "decoding" => rpis' = rpis)
  BY <1>1, <1>2, <1>5 DEF Phase, R!Final
<1>6. \/ \E s \in R!Final : R!Stop(s)
      \/ R!SeedPublicInputs /\ ~R!Reject
      \/ rstatus' = rstatus /\ ~R!SeedPublicInputs /\ (rstatus = "decoding" => rpis' = rpis)
  <2>1. CASE R!SeedPublicInputs
    BY <2>1 DEF R!Reject, R!Final
  <2>2. CASE ~R!SeedPublicInputs
    BY <2>2 DEF R!Step, R!DecodeInput, R!Compute, R!ReadPublic, R!ReadPrivate, R!Read,
         R!ImpactSkipped, R!ImpactActive, R!OutputValues, R!Finish, R!Fetch, R!Reject, R!Final, R!Stop
  <2> QED
    BY <2>1, <2>2
<1> QED
  BY <1>1, <1>3, <1>4, <1>5, <1>6

\* Every step of a run that has passed no omitted check follows.
LEMMA FollowStep ==
  ASSUME SatisfiedRun, RunTyped, Phase, rpis \in Seq(Immediates), FollowInv,
         UNCHANGED <<src, wit, cvars>>, R!Step
  PROVE  FollowInv'
<1> SUFFICES ASSUME NEW k \in Nat, k + 1 = rpc', Clear(k)' PROVE FollowsAt(k)'
  BY DEF FollowInv
<1>1. PICK n \in Nat : n + 1 = rpc
  <2>1. rpc \in Nat \ {0}
    BY DEF RunTyped
  <2>2. rpc - 1 \in Nat /\ (rpc - 1) + 1 = rpc
    BY <2>1
  <2> QED
    BY <2>2
<1>2. Clear(n) => FollowsAt(n)
  BY <1>1 DEF FollowInv, Replayable, SatisfiedRun
<1>3. rpis # <<>> => rpis' # <<>> \/ R!SeedPublicInputs
  BY PublishedTyped
<1>4. CASE R!DecodeInput
  <2>1. rpis = <<>>
    BY <1>4 DEF R!DecodeInput, Phase
  <2> QED
    BY <1>1, <1>2, <1>4, <2>1, FollowDecode
<1>5. CASE R!SeedPublicInputs
  <2>1. rpis = <<>>
    BY <1>5 DEF R!SeedPublicInputs, Phase
  <2> QED
    BY <1>1, <1>2, <1>5, <2>1, FollowSeed
<1>6. CASE rstatus = "executing"
  <2>1. rpis # <<>> /\ ~R!SeedPublicInputs /\ rpis' # <<>>
    BY <1>3, <1>6 DEF Phase, R!Final, R!SeedPublicInputs
  <2>2. CASE R!Compute
    BY <1>1, <1>2, <2>1, <2>2, FollowCompute
  <2>3. CASE R!ReadPublic
    <3>1. R!Read("PublicInput", StreamOf("PublicInput")) /\ "PublicInput" \in ReadOps
      BY <2>3 DEF R!ReadPublic, StreamOf, ReadOps
    <3> QED
      BY <1>1, <1>2, <2>1, <3>1, FollowRead
  <2>4. CASE R!ReadPrivate
    <3>1. R!Read("PrivateInput", StreamOf("PrivateInput")) /\ "PrivateInput" \in ReadOps
      BY <2>4 DEF R!ReadPrivate, StreamOf, ReadOps
    <3> QED
      BY <1>1, <1>2, <2>1, <3>1, FollowRead
  <2>5. CASE R!ImpactSkipped \/ R!ImpactActive
    BY <1>1, <1>2, <2>1, <2>5, FollowImpact
  <2>6. CASE R!OutputValues
    BY <1>1, <1>2, <2>1, <2>6, FollowOutput
  <2>7. CASE R!Finish
    BY <1>1, <1>2, <2>1, <2>7, FollowFinish
  <2>8. ~R!DecodeInput
    BY <1>6 DEF R!DecodeInput
  <2> QED
    BY <2>1, <2>2, <2>3, <2>4, <2>5, <2>6, <2>7, <2>8 DEF R!Step
<1>7. R!DecodeInput \/ R!SeedPublicInputs \/ rstatus = "executing"
  BY DEF R!Step, R!Compute, R!ReadPublic, R!ReadPrivate, R!Read, R!ImpactSkipped, R!ImpactActive,
         R!OutputValues, R!Finish, R!Fetch
<1> QED
  BY <1>4, <1>5, <1>6, <1>7

------------------------------------------------------------------------------
(* What a run has passed.                                                    *)

PassedSoFar ==
  /\ rstatus = "accepted" => rpis # <<>> /\ rpc > Len(src.code)
  /\ IsFcn(rmemory)
  /\ \A n \in Nat : n + 1 = rpc =>
       /\ rpis = <<>> => DOMAIN rmemory = InputNames(src, n) /\ n <= Len(src.inputs)
       /\ rpis # <<>> => PassedTo(src, rmemory, n) /\ n <= Len(src.code)
PassedInv == Replayable => PassedSoFar

\* What has been passed stays passed as the memory grows.
LEMMA PassedStays ==
  ASSUME NEW s, CodeOK(s), NEW m, NEW mm, Keeps(m, mm), NEW n \in Nat, n < Len(s.code),
         Names(s, n + 1) \subseteq DOMAIN m, PassedAt(s, m, n)
  PROVE  PassedAt(s, mm, n)
<1>1. PICK i : i = s.code[n + 1]
  OBVIOUS
<1>2. i \in Instruction /\ WellShaped(i) /\ i.args \in Seq(Operand) /\ i.outs \in Seq(Identifier)
  BY <1>1, CodeAt
<1>3. /\ Names(s, n) \subseteq DOMAIN m /\ ToSet(i.outs) \subseteq DOMAIN m
  BY <1>1, NamesNext
<1>4. ASSUME i.op \in ValueOps
      PROVE  AllEarly(s, n, i.args) /\ OffGate(i, ResolveAll(mm, i.args)) # {}
  <2>1. AllEarly(s, n, i.args) /\ OffGate(i, ResolveAll(m, i.args)) # {}
    BY <1>1, <1>4 DEF PassedAt
  <2>2. AllResolvable(m, i.args)
    BY <1>3, <2>1, EarlyIs
  <2>3. ResolveAll(mm, i.args) = ResolveAll(m, i.args)
    BY <1>2, <2>2, ResolveAllSame
  <2> QED
    BY <2>1, <2>3
<1>5. ASSUME i.op \in ReadOps, i.args # <<>>
      PROVE  /\ Early(s, n, Guard(i)) /\ IsBit(Resolve(mm, Guard(i)))
             /\ Resolve(mm, Guard(i)) = Fr(0) => mm[i.outs[1]] = Default(i.ty)
  <2>1. /\ Early(s, n, Guard(i)) /\ IsBit(Resolve(m, Guard(i)))
        /\ Resolve(m, Guard(i)) = Fr(0) => m[i.outs[1]] = Default(i.ty)
    BY <1>1, <1>5 DEF PassedAt
  <2>2. Guard(i) \in Operand
    <3>1. 1 \in DOMAIN i.args
      BY <1>2, <1>5, EmptySeq, LenProperties
    <3> QED
      BY <1>2, <3>1, ElementOfSeq, LenProperties DEF Guard
  <2>3. Resolvable(m, Guard(i))
    BY <1>3, <2>1 DEF Early, Resolvable
  <2>4. Resolve(mm, Guard(i)) = Resolve(m, Guard(i))
    BY <2>2, <2>3, ResolveSame
  <2>5. mm[i.outs[1]] = m[i.outs[1]]
    <3>1. ToSet(i.outs) = {i.outs[1]}
      BY <1>2, <1>5, ReadName
    <3> QED
      BY <1>3, <3>1 DEF Keeps
  <2> QED
    BY <2>1, <2>4, <2>5
<1> QED
  BY <1>1, <1>4, <1>5 DEF PassedAt

\* One instruction more.
LEMMA PassedNext ==
  ASSUME NEW s, CodeOK(s), NEW n \in Nat, n < Len(s.code), NEW m, PassedTo(s, m, n),
         NEW mm, IsFcn(mm), Keeps(m, mm), DOMAIN mm = DOMAIN m \cup ToSet(s.code[n + 1].outs),
         PassedAt(s, mm, n)
  PROVE  PassedTo(s, mm, n + 1)
<1>1. DOMAIN mm = Names(s, n + 1)
  BY NamesNext DEF PassedTo
<1>2. PICK l \in Nat : l = Len(s.code)
  BY LenProperties DEF CodeOK, Source
<1>3. ASSUME NEW j \in Nat, j < n + 1 PROVE PassedAt(s, mm, j)
  <2>1. CASE j = n
    BY <2>1
  <2>2. CASE j < n
    <3>1. PassedAt(s, m, j)
      BY <2>2 DEF PassedTo
    <3>2. j + 1 \in Nat /\ j + 1 <= n /\ j < Len(s.code)
      BY <1>2, <2>2
    <3>3. Names(s, j + 1) \subseteq DOMAIN m
      BY <3>2, NamesGrow DEF PassedTo
    <3> QED
      BY <3>1, <3>2, <3>3, PassedStays
  <2> QED
    BY <1>3, <2>1, <2>2
<1> QED
  BY <1>1, <1>3 DEF PassedTo

\* One more instruction passed.
LEMMA PassedAdvance ==
  ASSUME SatisfiedRun, src' = src, NEW n \in Nat, n + 1 = rpc, n < Len(src.code),
         rstatus = "executing", rstatus' = rstatus, rpc' = rpc + 1, rpis # <<>>, rpis' # <<>>,
         PassedSoFar, IsFcn(rmemory'), Keeps(rmemory, rmemory'),
         DOMAIN rmemory' = DOMAIN rmemory \cup ToSet(src.code[n + 1].outs),
         PassedAt(src, rmemory', n)
  PROVE  PassedSoFar'
<1>1. PICK m : m = rmemory
  OBVIOUS
<1>2. PICK mm : mm = rmemory'
  OBVIOUS
<1>3. PassedTo(src, m, n) /\ CodeOK(src)
  BY <1>1, EndAt DEF PassedSoFar
<1>4. PassedTo(src, mm, n + 1)
  BY <1>1, <1>2, <1>3, PassedNext
<1>5. n + 1 <= Len(src.code)
  <2>1. Len(src.code) \in Nat
    BY AtEnd
  <2> QED
    BY <2>1
<1>6. \A k \in Nat : k + 1 = rpc' => k = n + 1
  OBVIOUS
<1> QED
  BY <1>2, <1>4, <1>5, <1>6 DEF PassedSoFar

\* Each step of a run passes what it has made sure of, one lemma per action.
LEMMA PassedDecode ==
  ASSUME SatisfiedRun, UNCHANGED <<src, wit, cvars>>, R!DecodeInput, ~R!Reject, rpis = <<>>,
         NEW n \in Nat, n + 1 = rpc, PassedSoFar
  PROVE  PassedSoFar'
<1>1. n < Len(src.inputs) /\ Len(src.inputs) \in Nat /\ CodeOK(src) /\ SingleAssignment(src)
  <2>1. CodeOK(src)
    BY AtEnd
  <2>2. Len(src.inputs) \in Nat
    BY <2>1, LenProperties DEF CodeOK, Source
  <2> QED
    BY <2>1, <2>2 DEF R!DecodeInput, SatisfiedRun
<1>2. PICK x : x = src.inputs[n + 1].name
  OBVIOUS
<1>3. n + 1 \in DOMAIN src.inputs /\ x \in Identifier
  <2>1. n + 1 \in DOMAIN src.inputs
    BY <1>1, LenProperties DEF CodeOK, Source
  <2> QED
    BY <1>1, <1>2, <2>1, InputAt
<1>4. DOMAIN rmemory = InputNames(src, n)
  BY DEF PassedSoFar
<1>5. \E v : rmemory' = Bind(rmemory, <<x>>, <<v>>)
  <2>1. \A v : R!Bind(rmemory, <<x>>, <<v>>) = Bind(rmemory, <<x>>, <<v>>)
    BY SameMemory
  <2> QED
    BY <1>2, <2>1 DEF R!DecodeInput
<1>6. PICK v : rmemory' = Bind(rmemory, <<x>>, <<v>>)
  BY <1>5
<1>7. PICK m : m = rmemory
  OBVIOUS
<1>8. PICK mm : mm = rmemory'
  OBVIOUS
<1>9. x \notin DOMAIN m
  BY <1>1, <1>2, <1>3, <1>4, <1>7, FreshInputAt
<1>10. mm = Bind(m, <<x>>, <<v>>)
  BY <1>6, <1>7, <1>8
<1>11. Gains(m, x, v, mm)
  BY <1>3, <1>9, <1>10, BindName
<1>12. IsFcn(mm) /\ DOMAIN mm = InputNames(src, n + 1)
  BY <1>2, <1>4, <1>7, <1>11, InputNamesNext DEF Gains
<1>13. /\ rpc' = rpc + 1 /\ rpis' = rpis /\ rstatus' = "decoding" /\ src' = src
       /\ n + 1 <= Len(src.inputs)
  BY <1>1 DEF R!DecodeInput
<1>14. \A k \in Nat : k + 1 = rpc' => k = n + 1
  BY <1>13
<1> QED
  BY <1>8, <1>12, <1>13, <1>14 DEF PassedSoFar

LEMMA PassedSeed ==
  ASSUME SatisfiedRun, UNCHANGED <<src, wit, cvars>>, R!SeedPublicInputs, ~R!Reject, rpis = <<>>,
         NEW n \in Nat, n + 1 = rpc, PassedSoFar
  PROVE  PassedSoFar'
<1>1. n = Len(src.inputs) /\ CodeOK(src) /\ Len(src.code) \in Nat
  <2>1. CodeOK(src)
    BY AtEnd
  <2>2. Len(src.inputs) \in Nat /\ Len(src.code) \in Nat
    BY <2>1, LenProperties DEF CodeOK, Source
  <2>3. n <= Len(src.inputs)
    BY DEF PassedSoFar
  <2> QED
    BY <2>1, <2>2, <2>3 DEF R!SeedPublicInputs
<1>2. rstatus' = "executing" /\ rpc' = 1 /\ rmemory' = rmemory /\ src' = src
  BY DEF R!SeedPublicInputs
<1>3. rpis' # <<>>
  <2>1. /\ src.comm => Extract.comm = wit.comm
        /\ Extract.binding = wit.binding
    BY HeaderIs, ExtractIs
  <2>2. rpis' = <<Extract.binding>> \o (IF src.comm THEN <<Extract.comm[1]>> ELSE <<>>)
    BY DEF R!SeedPublicInputs
  <2>3. rpis' = StartOf(src, wit)
    BY <2>1, <2>2 DEF StartOf
  <2> QED
    BY <2>3, HeaderIs
<1>4. IsFcn(rmemory) /\ DOMAIN rmemory = Names(src, 0)
  BY <1>1, NamesStart DEF PassedSoFar
<1>5. PassedTo(src, rmemory, 0)
  BY <1>4 DEF PassedTo
<1>6. \A k \in Nat : k + 1 = rpc' => k = 0
  BY <1>2
<1> QED
  BY <1>1, <1>2, <1>3, <1>4, <1>5, <1>6 DEF PassedSoFar

LEMMA PassedCompute ==
  ASSUME SatisfiedRun, UNCHANGED <<src, wit, cvars>>, R!Compute, ~R!Reject, rpis # <<>>,
         NEW n \in Nat, n + 1 = rpc, PassedSoFar
  PROVE  PassedSoFar'
<1>1. PICK i : i = src.code[n + 1]
  OBVIOUS
<1>2. PICK m : m = rmemory
  OBVIOUS
<1>3. PICK mm : mm = rmemory'
  OBVIOUS
<1>4. PICK a : a = ResolveAll(m, i.args)
  OBVIOUS
<1>5. n < Len(src.code) /\ R!Instr = i /\ SingleAssignment(src) /\ i.op \in ValueOps
  <2>1. n < Len(src.code) /\ R!Instr = i /\ SingleAssignment(src)
    BY <1>1, RunFetched DEF R!Compute
  <2> QED
    BY <2>1, SameRunOps DEF R!Compute
<1>6. /\ AllResolvable(m, i.args) /\ rstatus = "executing" /\ rstatus' = rstatus
      /\ rpc' = rpc + 1 /\ rpis' = rpis /\ src' = src
      /\ \E vals \in OffGate(i, a) : mm = Bind(m, i.outs, vals)
  BY <1>2, <1>3, <1>4, <1>5, SameOffGate, SameMemory DEF R!Compute
<1>7. PICK vals \in OffGate(i, a) : mm = Bind(m, i.outs, vals)
  BY <1>6
<1>8. CodeOK(src) /\ i.outs \in Seq(Identifier) /\ i.args \in Seq(Operand)
  BY <1>1, <1>5, EndAt
<1>9. DOMAIN m = Names(src, n)
  BY <1>2 DEF PassedSoFar, PassedTo
<1>10. Fresh(m, i.outs)
  <2>1. Names(src, n) \cap ToSet(i.outs) = {}
    BY <1>1, <1>5, <1>8, FreshAt
  <2>2. IsInjective(i.outs)
    BY <1>1, <1>5, EndAt DEF SingleAssignment
  <2> QED
    BY <1>9, <2>1, <2>2 DEF Fresh
<1>11. Extends(m, i.outs, vals, mm)
  BY <1>7, <1>8, <1>10, BindFresh
<1>12. IsFcn(mm) /\ Keeps(m, mm) /\ DOMAIN mm = DOMAIN m \cup ToSet(i.outs)
  BY <1>11 DEF Extends
<1>13. PassedAt(src, mm, n)
  <2>1. AllEarly(src, n, i.args)
    BY <1>6, <1>9, OperandsEarly
  <2>2. ResolveAll(mm, i.args) = a
    BY <1>4, <1>6, <1>8, <1>12, ResolveAllSame
  <2>3. i.op \notin ReadOps
    BY <1>5 DEF ReadOps, ValueOps, HashOps
  <2> QED
    BY <1>1, <1>7, <2>1, <2>2, <2>3 DEF PassedAt
<1>14. /\ IsFcn(rmemory') /\ Keeps(rmemory, rmemory')
       /\ DOMAIN rmemory' = DOMAIN rmemory \cup ToSet(src.code[n + 1].outs)
       /\ PassedAt(src, rmemory', n)
  BY <1>1, <1>2, <1>3, <1>12, <1>13
<1> QED
  BY <1>5, <1>6, <1>14, PassedAdvance

LEMMA PassedRead ==
  ASSUME SatisfiedRun, RunTyped, UNCHANGED <<src, wit, cvars>>, NEW op \in ReadOps,
         R!Read(op, StreamOf(op)), ~R!Reject, ~R!Stop("panicked"), rpis # <<>>,
         NEW n \in Nat, n + 1 = rpc, PassedSoFar
  PROVE  PassedSoFar'
<1>1. PICK i : i = src.code[n + 1]
  OBVIOUS
<1>2. PICK m : m = rmemory
  OBVIOUS
<1>3. PICK mm : mm = rmemory'
  OBVIOUS
<1>4. PICK f : f = Extract[StreamOf(op)]
  OBVIOUS
<1>5. R!Instr = i
  BY <1>1 DEF R!Instr
<1>6. /\ rstatus = "executing" /\ rpc <= Len(src.code) /\ src.code[rpc].op = op
      /\ SkipsRead(i) \/ (ReadsOn(i) /\ TakesRead(i, StreamOf(op), f))
  BY <1>4, <1>5, ReadDoes
<1>7. n < Len(src.code) /\ i.op = op /\ i.op \in ReadOps /\ SingleAssignment(src)
  BY <1>1, <1>6, RunFetched
<1>8. rstatus' = rstatus /\ rpc' = rpc + 1 /\ rpis' = rpis /\ src' = src
  BY <1>6 DEF SkipsRead, TakesRead
<1>9. /\ i.outs \in Seq(Identifier) /\ DOMAIN i.outs = {1} /\ ToSet(i.outs) = {i.outs[1]}
      /\ CodeOK(src) /\ i.args \in Seq(Operand)
  BY <1>1, <1>7, ReadAtEnd, EndAt
<1>10. \E v : mm = Bind(m, i.outs, <<v>>) /\ (SkipsRead(i) => v = Default(i.ty))
  <2>1. CASE SkipsRead(i)
    BY <1>2, <1>3, <2>1 DEF SkipsRead
  <2>2. CASE ~SkipsRead(i)
    BY <1>2, <1>3, <1>6, <2>2 DEF TakesRead
  <2> QED
    BY <2>1, <2>2
<1>11. PICK v : mm = Bind(m, i.outs, <<v>>) /\ (SkipsRead(i) => v = Default(i.ty))
  BY <1>10
<1>12. PICK vs : vs = <<v>>
  OBVIOUS
<1>13. mm = Bind(m, i.outs, vs) /\ vs[1] = v
  BY <1>11, <1>12
<1>14. DOMAIN m = Names(src, n) /\ MemoryTyped(m)
  BY <1>2 DEF PassedSoFar, PassedTo, RunTyped
<1>15. Fresh(m, i.outs)
  <2>1. Names(src, n) \cap ToSet(i.outs) = {}
    BY <1>1, <1>7, <1>9, FreshAt
  <2> QED
    BY <1>9, <1>14, <2>1 DEF Fresh, IsInjective
<1>16. Extends(m, i.outs, vs, mm)
  BY <1>9, <1>13, <1>15, BindFresh
<1>17. /\ IsFcn(mm) /\ Keeps(m, mm) /\ DOMAIN mm = DOMAIN m \cup ToSet(i.outs)
       /\ mm[i.outs[1]] = v
  BY <1>9, <1>13, <1>16 DEF Extends
<1>18. PassedAt(src, mm, n)
  <2>1. i.op \notin ValueOps
    BY <1>7 DEF ReadOps, ValueOps, HashOps
  <2>2. ASSUME i.args # <<>>
        PROVE  /\ Early(src, n, Guard(i)) /\ IsBit(Resolve(mm, Guard(i)))
               /\ Resolve(mm, Guard(i)) = Fr(0) => mm[i.outs[1]] = Default(i.ty)
    <3>1. PICK g : g = Resolve(m, i.args[1])
      OBVIOUS
    <3>2. i.args[1] \in Operand /\ Guard(i) = i.args[1]
      <4>1. 1 \in DOMAIN i.args
        BY <1>9, <2>2, EmptySeq, LenProperties
      <4> QED
        BY <1>9, <4>1, ElementOfSeq, LenProperties DEF Guard
    <3>3. IsOn(m, i.args[1])
      BY <1>2, <1>6, <2>2 DEF SkipsRead, ReadsOn
    <3>4. Resolvable(m, i.args[1]) /\ IsBit(g)
      BY <3>1, <3>3 DEF IsOn
    <3>5. Resolve(mm, i.args[1]) = g
      BY <1>17, <3>1, <3>2, <3>4, ResolveSame
    <3>6. Early(src, n, Guard(i))
      BY <1>14, <3>2, <3>4 DEF Early, Resolvable
    <3>7. g = Fr(0) => SkipsRead(i)
      <4>1. Fr(0).val = 0
        BY DEF Fr, V
      <4> QED
        BY <1>2, <1>6, <2>2, <3>1, <4>1 DEF ReadsOn
    <3>8. g = Fr(0) => mm[i.outs[1]] = Default(i.ty)
      BY <1>11, <1>17, <3>7
    <3> QED
      BY <3>2, <3>4, <3>5, <3>6, <3>8
  <2> QED
    BY <1>1, <2>1, <2>2 DEF PassedAt
<1>19. /\ IsFcn(rmemory') /\ Keeps(rmemory, rmemory')
       /\ DOMAIN rmemory' = DOMAIN rmemory \cup ToSet(src.code[n + 1].outs)
       /\ PassedAt(src, rmemory', n)
  BY <1>1, <1>2, <1>3, <1>17, <1>18
<1> QED
  BY <1>6, <1>7, <1>8, <1>19, PassedAdvance

LEMMA PassedSilent ==
  ASSUME SatisfiedRun, UNCHANGED <<src, wit, cvars>>, rpis # <<>>, rpis' # <<>>,
         R!ImpactSkipped \/ R!ImpactActive \/ R!OutputValues, ~R!Reject,
         NEW n \in Nat, n + 1 = rpc, PassedSoFar
  PROVE  PassedSoFar'
<1>1. PICK i : i = src.code[n + 1]
  OBVIOUS
<1>2. PICK m : m = rmemory
  OBVIOUS
<1>3. /\ rstatus = "executing" /\ rstatus' = rstatus /\ rpc <= Len(src.code)
      /\ i.op \in {"Impact", "Output"} /\ rpc' = rpc + 1 /\ rmemory' = rmemory /\ src' = src
  BY <1>1 DEF R!ImpactSkipped, R!ImpactActive, R!OutputValues, R!Fetch
<1>4. n < Len(src.code)
  BY <1>3, RunFetched
<1>5. WellShaped(i)
  BY <1>1, <1>4, EndAt
<1>6. Keeps(m, m) /\ DOMAIN m = DOMAIN m \cup ToSet(i.outs)
  BY <1>3, <1>5, NothingBound
<1>7. PassedAt(src, m, n)
  BY <1>1, <1>3 DEF PassedAt, ValueOps, HashOps, ReadOps
<1>8. IsFcn(m)
  BY <1>2 DEF PassedSoFar
<1>9. /\ IsFcn(rmemory') /\ Keeps(rmemory, rmemory')
      /\ DOMAIN rmemory' = DOMAIN rmemory \cup ToSet(src.code[n + 1].outs)
      /\ PassedAt(src, rmemory', n)
  BY <1>1, <1>2, <1>3, <1>6, <1>7, <1>8
<1> QED
  BY <1>3, <1>4, <1>9, PassedAdvance

LEMMA PassedStop ==
  ASSUME SatisfiedRun, UNCHANGED <<src, wit, cvars>>, NEW s \in R!Final, R!Stop(s), PassedSoFar,
         s = "accepted" => rpis # <<>> /\ rpc > Len(src.code)
  PROVE  PassedSoFar'
BY DEF R!Stop, PassedSoFar

\* Every step of a run passes what it has made sure of.
LEMMA PassedStep ==
  ASSUME SatisfiedRun, RunTyped, Phase, rpis \in Seq(Immediates), PassedSoFar,
         UNCHANGED <<src, wit, cvars>>, R!Step
  PROVE  PassedSoFar'
<1>1. PICK n \in Nat : n + 1 = rpc
  <2>1. rpc \in Nat \ {0}
    BY DEF RunTyped
  <2>2. rpc - 1 \in Nat /\ (rpc - 1) + 1 = rpc
    BY <2>1
  <2> QED
    BY <2>2
<1>2. rpis # <<>> => rpis' # <<>> \/ R!SeedPublicInputs
  BY PublishedTyped
<1>3. CASE R!Reject
  <2>1. R!Stop("rejected") /\ "rejected" \in R!Final
    BY <1>3 DEF R!Reject, R!Final
  <2> QED
    BY <2>1, PassedStop
<1>4. CASE R!Stop("panicked")
  <2>1. "panicked" \in R!Final
    BY DEF R!Final
  <2> QED
    BY <1>4, <2>1, PassedStop
<1>5. CASE rstatus = "decoding" /\ ~R!Reject
  <2>1. rpis = <<>>
    BY <1>5 DEF Phase
  <2>2. R!DecodeInput \/ R!SeedPublicInputs
    BY <1>5 DEF R!Step, R!Compute, R!ReadPublic, R!ReadPrivate, R!Read, R!ImpactSkipped,
                R!ImpactActive, R!OutputValues, R!Finish, R!Fetch
  <2> QED
    BY <1>1, <1>5, <2>1, <2>2, PassedDecode, PassedSeed
<1>6. CASE rstatus # "decoding" /\ ~R!Reject /\ ~R!Stop("panicked")
  <2>1. rstatus = "executing" /\ ~R!DecodeInput /\ ~R!SeedPublicInputs
    BY <1>6 DEF R!Step, R!DecodeInput, R!SeedPublicInputs, R!Compute, R!ReadPublic, R!ReadPrivate,
                R!Read, R!ImpactSkipped, R!ImpactActive, R!OutputValues, R!Finish, R!Fetch
  <2>2. rpis # <<>> /\ rpis' # <<>>
    BY <1>2, <2>1 DEF Phase, R!Final
  <2>3. CASE R!Compute
    BY <1>1, <1>6, <2>2, <2>3, PassedCompute
  <2>4. CASE R!ReadPublic
    <3>1. R!Read("PublicInput", StreamOf("PublicInput")) /\ "PublicInput" \in ReadOps
      BY <2>4 DEF R!ReadPublic, StreamOf, ReadOps
    <3> QED
      BY <1>1, <1>6, <2>2, <3>1, PassedRead
  <2>5. CASE R!ReadPrivate
    <3>1. R!Read("PrivateInput", StreamOf("PrivateInput")) /\ "PrivateInput" \in ReadOps
      BY <2>5 DEF R!ReadPrivate, StreamOf, ReadOps
    <3> QED
      BY <1>1, <1>6, <2>2, <3>1, PassedRead
  <2>6. CASE R!ImpactSkipped \/ R!ImpactActive \/ R!OutputValues
    BY <1>1, <1>6, <2>2, <2>6, PassedSilent
  <2>7. CASE R!Finish
    <3>1. R!Stop("accepted") /\ "accepted" \in R!Final /\ rpc > Len(src.code)
      BY <1>6, <2>7 DEF R!Finish, R!Final
    <3> QED
      BY <2>2, <3>1, PassedStop
  <2> QED
    BY <2>1, <2>3, <2>4, <2>5, <2>6, <2>7 DEF R!Step
<1> QED
  BY <1>3, <1>4, <1>5, <1>6

------------------------------------------------------------------------------
(* The invariant of a source and of the run on its extract.                  *)

StInv ==
  /\ SynthInv /\ CellsBound /\ RunTyped /\ Starts
  /\ SingleAssignment(src) => SynthTrace
  /\ Replayable => Phase /\ rpis \in Seq(Immediates)
  /\ PassedInv /\ FollowInv

\* A run that has not started follows, and has passed nothing.
LEMMA StartNext ==
  ASSUME Untouched', CodeOK(src')
  PROVE  PassedSoFar' /\ FollowInv' /\ Phase' /\ (rpis \in Seq(Immediates))'
<1>1. PICK s : s = src'
  OBVIOUS
<1>2. PICK m : m = cells'
  OBVIOUS
<1>3. PICK mm : mm = rmemory'
  OBVIOUS
<1>4. IsFcn(mm) /\ DOMAIN mm = {}
  BY <1>3 DEF Untouched, IsFcn, EmptyMemory
<1>5. InputNames(s, 0) = {} /\ Keeps(mm, m)
  BY <1>4 DEF InputNames, Keeps
<1>6. 0 <= Len(s.inputs)
  BY <1>1, LenProperties DEF CodeOK, Source
<1>7. RawTo(s, m, 0) = <<>> /\ Len(<<>>) = 0
  BY NothingTaken
<1>8. rcur'.raw = 0 /\ \A op \in Takers : rcur'[StreamOf(op)] = 0
  BY DEF Untouched, R!StreamNames, Takers, StreamOf
<1>9. ReadsTo(s, m, mm, rcur', routputs', 0)
  BY <1>4, <1>5, <1>6, <1>7, <1>8 DEF ReadsTo, Untouched
<1>10. \A n \in Nat : n + 1 = rpc' => n = 0
  BY DEF Untouched
<1>11. rpis' = <<>> /\ rstatus' = "decoding"
  BY DEF Untouched
<1>12. FollowsAt(0)'
  BY <1>1, <1>2, <1>3, <1>9, <1>11 DEF FollowsAt
<1>13. FollowInv'
  BY <1>10, <1>12 DEF FollowInv
<1>14. PassedSoFar'
  BY <1>1, <1>3, <1>4, <1>5, <1>6, <1>10, <1>11 DEF PassedSoFar
<1>15. Phase' /\ (rpis \in Seq(Immediates))'
  BY <1>11 DEF Phase, R!Final
<1> QED
  BY <1>13, <1>14, <1>15

\* StInv is an inductive invariant.
LEMMA StInvInit == StInit => StInv
<1> SUFFICES ASSUME StInit PROVE StInv
  OBVIOUS
<1>1. SynthInv /\ SynthTrace
  BY SynthInit, TraceInit
<1>2. cstatus = "assigning" /\ cpc = 1 /\ Untouched
  BY DEF StInit, CInit, Untouched
<1>3. \A i \in DOMAIN src.inputs : ~(i < 1)
  BY <1>1, LenProperties DEF SynthInv, SourceOK, Source
<1>4. CellsBound
  BY <1>2, <1>3 DEF CellsBound
<1>5. RunTyped
  BY <1>2 DEF Untouched, RunTyped, R!Statuses, MemoryTyped, EmptyMemory
<1>6. ~Replayable
  BY <1>2 DEF Replayable
<1> QED
  BY <1>1, <1>2, <1>4, <1>5, <1>6 DEF StInv, Starts, PassedInv, FollowInv

LEMMA StInvNext ==
  ASSUME GadgetsTyped, StInv, [StNext]_stVars
  PROVE  StInv'
<1>1. SynthInv' /\ (SingleAssignment(src') => SynthTrace')
  BY SynthNext, TraceNext DEF StInv
<1>2. CodeOK(src)
  BY SourceIsOK DEF StInv
<1>3. CASE Unchecked
  <2>1. src' = src /\ wit' = wit /\ UNCHANGED rvars
    BY <1>3 DEF Unchecked
  <2>2. cstatus # "satisfied"
    BY <1>3 DEF Unchecked, CStep, AssignInput, SeedInstance, Gate, WitnessRead, PushImpact,
                OutputCells, ConstrainInstance, CFetch
  <2>3. Untouched'
    BY <2>1, <2>2 DEF StInv, Starts, Untouched, rvars
  <2>4. CellsBound' /\ RunTyped'
    BY <1>3, <2>1, BoundStep DEF StInv, Unchecked, rvars, RunTyped, MemoryTyped
  <2>5. PassedSoFar' /\ FollowInv' /\ Phase' /\ (rpis \in Seq(Immediates))'
    BY <1>2, <2>1, <2>3, StartNext
  <2> QED
    BY <1>1, <2>3, <2>4, <2>5 DEF StInv, Starts, PassedInv
<1>4. CASE Replay
  <2>1. UNCHANGED <<src, wit, cvars>> /\ R!Step /\ Replayable
    BY <1>4 DEF Replay
  <2>2. SatisfiedRun /\ RunTyped /\ Phase /\ rpis \in Seq(Immediates) /\ PassedSoFar /\ FollowInv
    BY <2>1 DEF StInv, SatisfiedRun, Replayable, PassedInv
  <2>3. CellsBound' /\ RunTyped'
    BY <1>4, <2>1, RunStep DEF StInv, cvars, CellsBound
  <2>4. Starts'
    BY <2>1 DEF Starts, Replayable, cvars
  <2>5. Phase' /\ (rpis \in Seq(Immediates))'
    BY <2>1, <2>2, PhaseStep
  <2>6. PassedSoFar'
    BY <2>1, <2>2, PassedStep
  <2>7. FollowInv'
    BY <2>1, <2>2, FollowStep
  <2> QED
    BY <1>1, <2>3, <2>4, <2>5, <2>6, <2>7 DEF StInv, PassedInv
<1>5. CASE Rest \/ UNCHANGED stVars
  <2>1. UNCHANGED stVars
    BY <1>5 DEF Rest
  <2>2. CellsBound' /\ RunTyped' /\ Starts'
    BY <2>1 DEF StInv, stVars, CellsBound, RunTyped, MemoryTyped, Starts, Untouched
  <2>3. (Replayable => Phase /\ rpis \in Seq(Immediates))' /\ PassedInv'
    BY <2>1 DEF StInv, stVars, Replayable, Phase, PassedInv, PassedSoFar
  <2>4. FollowInv'
    BY <2>1 DEF StInv, stVars, Replayable, FollowInv, FollowsAt, Clear
  <2> QED
    BY <1>1, <2>2, <2>3, <2>4 DEF StInv
<1> QED
  BY <1>3, <1>4, <1>5 DEF StNext

\* What has been published is the beginning of what the circuit exposes.
LEMMA PublishedIsPrefix ==
  ASSUME SatisfiedRun, NEW n \in Nat, n <= Len(src.code)
  PROVE  /\ IsPrefix(Cat(StartOf(src, wit), PushedTo(src, cells, n)), cpis)
         /\ IsPrefix(PutTo(src, cells, n), couts)
<1>1. PICK l \in Nat : l = Len(src.code) /\ LaidTo(src, wit, cells, cpis, couts, l)
  BY AtEnd
<1>2. \A j \in Nat : j < l => LaidAt(src, cells, j)
  BY <1>1 DEF LaidTo
<1>3. PICK h \in Seq(Immediates) : h = StartOf(src, wit)
  BY HeaderIs
<1>4. PICK t : t = [k \in 1..l |-> Pushed(cells, src.code[k])]
  OBVIOUS
<1>5. PICK p : p = [k \in 1..l |-> Put(cells, src.code[k])]
  OBVIOUS
<1>6. PICK u : u = PushedTo(src, cells, n)
  OBVIOUS
<1>7. PICK v : v = PutTo(src, cells, n)
  OBVIOUS
<1>8. u \in Seq(Immediates) /\ \E r \in Seq(Immediates) : FlattenSeq(t) = Cat(u, r)
  <2>1. t = [k \in 1..l |-> t[k]]
    BY <1>4
  <2>2. \A k \in 1..l : t[k] \in Seq(Immediates)
    BY <1>2, <1>4, LaidTyped
  <2>3. t \in Seq(Seq(Immediates)) /\ Len(t) = l
    BY <2>1, <2>2, SeqOfStreams
  <2>4. FirstOf(t, n) = [k \in 1..n |-> Pushed(cells, src.code[k])]
    BY <1>1, <1>4 DEF FirstOf
  <2>5. u = FlattenSeq(FirstOf(t, n))
    BY <1>6, <2>4 DEF PushedTo
  <2>6. OpensWith(Immediates, u, FlattenSeq(t))
    BY <1>1, <2>3, <2>5, FlattenBegins
  <2> QED
    BY <2>6 DEF OpensWith
<1>9. v \in Seq(TypedValue) /\ \E q \in Seq(TypedValue) : FlattenSeq(p) = Cat(v, q)
  <2>1. p = [k \in 1..l |-> p[k]]
    BY <1>5
  <2>2. \A k \in 1..l : p[k] \in Seq(TypedValue)
    BY <1>2, <1>5, LaidTyped
  <2>3. p \in Seq(Seq(TypedValue)) /\ Len(p) = l
    BY <2>1, <2>2, IsASeq
  <2>4. FirstOf(p, n) = [k \in 1..n |-> Put(cells, src.code[k])]
    BY <1>1, <1>5 DEF FirstOf
  <2>5. v = FlattenSeq(FirstOf(p, n))
    BY <1>7, <2>4 DEF PutTo
  <2>6. OpensWith(TypedValue, v, FlattenSeq(p))
    BY <1>1, <2>3, <2>5, FlattenBegins
  <2> QED
    BY <2>6 DEF OpensWith
<1>13. PICK r \in Seq(Immediates) : FlattenSeq(t) = Cat(u, r)
  BY <1>8
<1>14. PICK q \in Seq(TypedValue) : FlattenSeq(p) = Cat(v, q)
  BY <1>9
<1>10. cpis = Cat(h, Cat(u, r)) /\ couts = Cat(v, q)
  BY <1>1, <1>3, <1>4, <1>5, <1>13, <1>14 DEF LaidTo, PushedTo, PutTo
<1>11. cpis = Cat(Cat(h, u), r) /\ Cat(h, u) \in Seq(Immediates)
  <2>1. Cat(Cat(h, u), r) = Cat(h, Cat(u, r))
    BY <1>3, <1>8, <1>13, CatAssociative
  <2> QED
    BY <1>3, <1>8, <1>10, <2>1, ConcatProperties DEF Cat
<1>12. IsPrefix(Cat(h, u), cpis) /\ IsPrefix(v, couts)
  <2>1. IsPrefix(Cat(h, u), Cat(Cat(h, u), r))
    BY <1>11, <1>13, PrefixOfCat
  <2>2. IsPrefix(v, Cat(v, q))
    BY <1>9, <1>14, PrefixOfCat
  <2> QED
    BY <1>10, <1>11, <2>1, <2>2
<1> QED
  BY <1>3, <1>6, <1>7, <1>12

\* The instructions the run has come past.
LEMMA RunIsAt ==
  ASSUME StInv
  PROVE  \E n \in Nat : n + 1 = rpc
<1>1. rpc \in Nat \ {0}
  BY DEF StInv, RunTyped
<1>2. rpc - 1 \in Nat /\ (rpc - 1) + 1 = rpc
  BY <1>1
<1> QED
  BY <1>2

\* The invariant implies the properties.
LEMMA FollowsByInv == StInv => FollowsCells
<1> SUFFICES ASSUME StInv, Following
             PROVE  /\ \A id \in DOMAIN rmemory : id \in DOMAIN cells /\ rmemory[id] = cells[id]
                    /\ IsPrefix(rpis, cpis) /\ IsPrefix(routputs, couts)
                    /\ rstatus # "panicked"
                    /\ rstatus = "rejected" =>
                         rpis # <<>> /\ rpc \in DOMAIN src.code /\ LaxAt(rpc)
  BY DEF FollowsCells
<1>1. PICK n \in Nat : n + 1 = rpc
  BY RunIsAt
<1>2. Replayable /\ Clear(n)
  BY <1>1, FollowingIs
<1>3. FollowsAt(n)
  BY <1>1, <1>2 DEF StInv, FollowInv
<1>4. SatisfiedRun
  BY <1>2 DEF StInv, SatisfiedRun, Replayable
<1>5. CASE rpis = <<>>
  <2>1. rstatus = "decoding" /\ Keeps(rmemory, cells) /\ routputs = <<>>
    BY <1>3, <1>5 DEF FollowsAt, ReadsTo
  <2>2. PICK l \in Nat : LaidTo(src, wit, cells, cpis, couts, l) /\ l = Len(src.code)
    BY <1>4, AtEnd
  <2>3. cpis \in Seq(Immediates) /\ couts \in Seq(TypedValue)
    <3>1. /\ PushedTo(src, cells, l) \in Seq(Immediates) /\ PutTo(src, cells, l) \in Seq(TypedValue)
          /\ StartOf(src, wit) \in Seq(Immediates)
      BY <1>4, <2>2, AllPushed, HeaderIs
    <3> QED
      BY <2>2, <3>1, ConcatProperties DEF LaidTo, Cat
  <2>4. \A S : \A s \in Seq(S) : IsPrefix(<<>>, s)
    <3> SUFFICES ASSUME NEW S, NEW s \in Seq(S) PROVE IsPrefix(<<>>, s)
      OBVIOUS
    <3>1. Cat(<<>>, s) = s
      BY ConcatProperties DEF Cat
    <3>2. IsPrefix(<<>>, Cat(<<>>, s))
      BY PrefixOfCat, EmptySeq
    <3> QED
      BY <3>1, <3>2
  <2> QED
    BY <1>5, <2>1, <2>3, <2>4 DEF Keeps
<1>6. CASE rpis # <<>>
  <2>1. /\ rstatus \in {"executing", "accepted", "rejected"}
        /\ FollowsTo(src, wit, cells, rmemory, rpis, routputs, rcur, n)
        /\ rstatus = "rejected" => n < Len(src.code) /\ LaxOf(src, cells, n)
    BY <1>3, <1>6 DEF FollowsAt
  <2>2. IsPrefix(rpis, cpis) /\ IsPrefix(routputs, couts) /\ Keeps(rmemory, cells)
    BY <1>4, <2>1, PublishedIsPrefix DEF FollowsTo
  <2>3. ASSUME rstatus = "rejected" PROVE rpc \in DOMAIN src.code /\ LaxAt(rpc)
    <3>1. n < Len(src.code) /\ LaxOf(src, cells, n)
      BY <2>1, <2>3
    <3>2. n + 1 \in DOMAIN src.code
      BY <1>4, <3>1, EndAt
    <3> QED
      BY <1>1, <3>1, <3>2, LaxIs
  <2> QED
    BY <1>6, <2>1, <2>2, <2>3 DEF Keeps
<1> QED
  BY <1>5, <1>6

\* An accepted run with the values of the cells has passed every check.
LEMMA AcceptedIsStrict ==
  ASSUME SatisfiedRun, NEW n \in Nat, n < Len(src.code), PassedAt(src, cells, n)
  PROVE  ~LaxOf(src, cells, n)
<1>1. PICK i : i = src.code[n + 1]
  OBVIOUS
<1>2. PICK a : a = ResolveAll(cells, i.args)
  OBVIOUS
<1>3. i \in Instruction /\ WellShaped(i)
  BY <1>1, EndAt
<1>4. ~LaxGate(i, a)
  <2>1. CASE i.op \in ValueOps
    <3>1. OffGate(i, a) # {}
      BY <1>1, <1>2, <2>1 DEF PassedAt
    <3>2. i.op \notin ReadOps
      BY <2>1 DEF ReadOps, ValueOps, HashOps
    <3>3. AllTyped(a) /\ a = [j \in 1..Len(i.args) |-> a[j]]
      BY <1>1, <1>2, <3>2, OperandsAtEnd
    <3> QED
      BY <1>3, <2>1, <3>1, <3>3, StrictNotLax
  <2>2. CASE i.op \notin ValueOps
    BY <2>2 DEF LaxGate, ValueOps, HashOps
  <2> QED
    BY <2>1, <2>2
<1>5. ~LaxGuard(src, cells, n, i)
  BY <1>1 DEF LaxGuard, PassedAt
<1> QED
  BY <1>1, <1>2, <1>4, <1>5 DEF LaxOf

LEMMA SoundByInv == StInv => StatementSound
<1> SUFFICES ASSUME StInv, Replayable, rstatus \in R!Final
             PROVE  ( /\ rstatus = "accepted"
                      /\ rpis = cpis /\ rmemory = cells /\ routputs = couts )  <=>  ~Lax
  BY DEF StatementSound
<1>1. PICK n \in Nat : n + 1 = rpc
  BY RunIsAt
<1>2. SatisfiedRun /\ PassedSoFar
  BY DEF StInv, SatisfiedRun, Replayable, PassedInv
<1>3. PICK l \in Nat : l = Len(src.code) /\ DOMAIN src.code = 1..l
                       /\ LaidTo(src, wit, cells, cpis, couts, l)
  BY <1>2, AtEnd
<1>4. Lax <=> \E j \in Nat : j < l /\ LaxOf(src, cells, j)
  <2>1. ASSUME NEW k \in DOMAIN src.code, LaxAt(k)
        PROVE  \E j \in Nat : j < l /\ LaxOf(src, cells, j)
    <3>1. k - 1 \in Nat /\ (k - 1) + 1 = k /\ k - 1 < l
      BY <1>3
    <3>2. PICK j \in Nat : j + 1 = k /\ j < l
      BY <3>1
    <3>3. LaxOf(src, cells, j)
      BY <2>1, <3>2, LaxIs
    <3> QED
      BY <3>2, <3>3
  <2>2. ASSUME NEW j \in Nat, j < l, LaxOf(src, cells, j)
        PROVE  \E k \in DOMAIN src.code : LaxAt(k)
    <3>1. j + 1 \in DOMAIN src.code
      BY <1>3, <2>2
    <3> QED
      BY <2>2, <3>1, LaxIs
  <2> QED
    BY <2>1, <2>2 DEF Lax
<1>5. ASSUME ~Lax
      PROVE  rstatus = "accepted" /\ rpis = cpis /\ rmemory = cells /\ routputs = couts
  <2>1. \A j \in Nat : j < l => ~LaxOf(src, cells, j)
    BY <1>4, <1>5
  <2>2. Clear(n)
    <3> SUFFICES ASSUME rpis # <<>>, NEW j \in Nat, j < n PROVE ~LaxOf(src, cells, j)
      BY DEF Clear
    <3>1. n <= l
      BY <1>1, <1>2, <1>3 DEF PassedSoFar
    <3> QED
      BY <2>1, <3>1
  <2>3. FollowsAt(n)
    BY <1>1, <2>2 DEF StInv, FollowInv
  <2>4. rpis # <<>>
    BY <2>3 DEF FollowsAt, R!Final
  <2>5. rstatus = "accepted" /\ n = l
    BY <1>3, <2>1, <2>3, <2>4 DEF FollowsAt, R!Final
  <2>6. FollowsTo(src, wit, cells, rmemory, rpis, routputs, rcur, l)
    BY <2>3, <2>4, <2>5 DEF FollowsAt
  <2>7. rpis = cpis /\ routputs = couts
    BY <1>3, <2>6 DEF LaidTo, FollowsTo
  <2>8. rmemory = cells
    <3>1. IsFcn(rmemory) /\ IsFcn(cells) /\ DOMAIN rmemory = DOMAIN cells
      BY <1>3, <2>6 DEF LaidTo, FollowsTo
    <3>2. \A id \in DOMAIN rmemory : rmemory[id] = cells[id]
      BY <2>6 DEF FollowsTo, Keeps
    <3> QED
      BY <3>1, <3>2 DEF IsFcn
  <2> QED
    BY <2>5, <2>7, <2>8
<1>6. ASSUME rstatus = "accepted", rmemory = cells
      PROVE  ~Lax
  <2>1. rpis # <<>> /\ rpc > l
    BY <1>2, <1>3, <1>6 DEF PassedSoFar
  <2>2. PassedTo(src, cells, n) /\ n <= l
    BY <1>1, <1>2, <1>3, <1>6, <2>1 DEF PassedSoFar
  <2>3. n = l
    BY <1>1, <2>1, <2>2
  <2>4. \A j \in Nat : j < l => PassedAt(src, cells, j)
    BY <2>2, <2>3 DEF PassedTo
  <2>5. \A j \in Nat : j < l => ~LaxOf(src, cells, j)
    BY <1>2, <1>3, <2>4, AcceptedIsStrict
  <2> QED
    BY <1>4, <2>5
<1> QED
  BY <1>5, <1>6

------------------------------------------------------------------------------
(* The theorems.                                                             *)

LEMMA TypedByInv == StInv => StTypeOK
BY DEF StInv, SynthInv, CellsOK, InstanceOK, RunTyped, MemoryTyped, Typed, StTypeOK

\* With any witness, for every source, field and curve: the cells and the public
\* inputs of synthesis are typed, and so is all that the run on the extract binds.
THEOREM StatementTyped == GadgetsTyped => (StSpec => []StTypeOK)
<1> SUFFICES ASSUME GadgetsTyped PROVE StSpec => []StTypeOK
  OBVIOUS
<1>1. StInv /\ [StNext]_stVars => StInv'
  BY StInvNext
<1> QED
  BY StInvInit, <1>1, TypedByInv, PTL DEF StSpec

\* The run on the extract of a satisfied circuit follows the cells until it comes
\* to a check that the circuit leaves out, and fails at no other.
THEOREM RunFollows == GadgetsTyped => (StSpec => []FollowsCells)
<1> SUFFICES ASSUME GadgetsTyped PROVE StSpec => []FollowsCells
  OBVIOUS
<1>1. StInv /\ [StNext]_stVars => StInv'
  BY StInvNext
<1> QED
  BY StInvInit, <1>1, FollowsByInv, PTL DEF StSpec

\* Statement soundness and its converse: a proof made from any witness of a
\* single-assignment source is the proof of an accepting run of preprocess with
\* the same public inputs, values and outputs, if and only if no check that the
\* circuit leaves out fails on its cells.
THEOREM SoundStatements == GadgetsTyped => (StSpec => []StatementSound)
<1> SUFFICES ASSUME GadgetsTyped PROVE StSpec => []StatementSound
  OBVIOUS
<1>1. StInv /\ [StNext]_stVars => StInv'
  BY StInvNext
<1> QED
  BY StInvInit, <1>1, SoundByInv, PTL DEF StSpec

==============================================================================
