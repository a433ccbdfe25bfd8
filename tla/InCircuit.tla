------------------------------ MODULE InCircuit ------------------------------
(***************************************************************************)
(* What each value instruction contributes to the circuit (the match of    *)
(* `circuit` in ir_vm.rs and the *_incircuit functions).  Synthesis splits *)
(* in three:                                                               *)
(*   Shape(ins, tys)  {} where synthesis returns an error, {<<t1, ...>>},  *)
(*                    the types of the new cells, where it succeeds.  It   *)
(*                    sees the types of the operands only: at key          *)
(*                    generation no cell has a value.                      *)
(*   Holds(ins, a)    whether the constraints emitted on the operand       *)
(*                    values a can be satisfied.                           *)
(*   Cells(ins, a)    the values of the new cells.                         *)
(* Holds and Cells are read only where Shape succeeds.                     *)
(***************************************************************************)
EXTENDS OffCircuit

CONSTANT MinRange   \* smallest bound lower_than accepts (4)

ASSUME RangeAssumption == MinRange \in 0..FR_BITS

AllOf(tys, t) == \A i \in DOMAIN tys : tys[i] = t
IsBytesType(t) == t[1] = "Bytes"

------------------------------------------------------------------------------
(* Shapes: the types each *_incircuit function has an arm for.               *)

\* Mutant of AddShape: no arm for points.
AddFieldsShape(tys) == Some(tys[1] = tys[2] /\ tys[1] \in PrimeFields, <<tys[1]>>)
AddShape(tys) == Some(tys[1] = tys[2] /\ tys[1] \in PrimeFields \cup Points, <<tys[1]>>)
MulShape(tys) == Some(tys[1] = tys[2] /\ tys[1] \in PrimeFields, <<tys[1]>>)
NegShape(tys) == Some(tys[1] \in PrimeFields \cup Points \cup {Bool}, <<tys[1]>>)
InvShape(tys) == Some(tys[1] \in PrimeFields, <<tys[1]>>)
NotShape(tys) == Some(tys[1] = Native, <<Native>>)

\* resolve_bit_list
BitListShape(tys) == Some(tys # <<>> /\ AllOf(tys, Bool), <<Bool>>)

\* Bytes compare with Bytes of the same length only.
ConstrainEqShape(tys) == Some(tys[1] = tys[2], Nothing)
TestEqShape(tys) == Some(tys[1] = tys[2], <<Native>>)

\* select_incircuit has no arm for Bytes.
CondSelectShape(tys) ==
  Some(tys[1] = Native /\ tys[2] = tys[3] /\ ~IsBytesType(tys[2]), <<tys[2]>>)

\* Assert, ConstrainBits and ConstrainToBoolean take a Native and bind nothing.
CheckShape(tys) == Some(tys[1] = Native, Nothing)
LessThanShape(tys) == Some(AllOf(tys, Native), <<Native>>)
\* Cutting the FR_BITS bits of an element beyond their end panics.
DivModShape(ins, tys) ==
  Some(Len(ins.outs) = 2 /\ tys[1] = Native /\ ins.n[1] <= FR_BITS, <<Native, Native>>)
ReconstituteShape(ins, tys) == Some(AllOf(tys, Native) /\ ins.n[1] <= FR_BITS, <<Native>>)
JubjubScalarShape(tys) == Some(tys[1] = Native, <<Scalar("Jubjub")>>)
TransientHashShape(tys) == Some(AllOf(tys, Native), <<Native>>)
HashToCurveShape(tys) == Some(AllOf(tys, Native), <<Point("Jubjub")>>)

EcMulShape(tys) ==
  UNION {Some(tys = <<Point(c), Scalar(c)>>, <<Point(c)>>) : c \in Curves}
EcMulGeneratorShape(tys) == UNION {Some(tys[1] = Scalar(c), <<Point(c)>>) : c \in Curves}
IntoCoordinatesShape(tys) ==
  UNION {Some(tys[1] = Point(c), <<Base(c), Base(c)>>) : c \in Curves}
FromCoordinatesShape(tys) ==
  UNION {Some(tys = <<Base(c), Base(c)>>, <<Point(c)>>) : c \in Curves}

\* Mutant of BytesOf: the 33rd byte of a SEC1 point is forgotten.
FixedBytesOf(t) == Bytes(FrBytes)
\* The length of to_bytes_incircuit's result.
BytesOf(t) == Bytes(IF IsPoint(t) THEN PointBytesLen(t[2]) ELSE FrBytes)
ToBytesShape(tys) == Some(HasBytes(tys[1]), <<BytesOf(tys[1])>>)
IntoBytes32Shape(tys) == {s \in ToBytesShape(tys) : s[1] = Bytes(FrBytes)}

FromBytesShape(ins, tys) ==
  Some(/\ IsBytesType(tys[1])
       /\ \/ ins.ty \in PrimeFields
          \/ IsPoint(ins.ty) /\ tys[1] = Bytes(PointBytesLen(ins.ty[2])),
       <<ins.ty>>)
FromBytes32Shape(ins, tys) ==
  IF tys[1] = Bytes(FrBytes) THEN FromBytesShape(ins, tys) ELSE {}

ReverseShape(tys) == Some(IsBytesType(tys[1]), <<tys[1]>>)
SliceShape(ins, tys) ==
  Some(IsBytesType(tys[1]) /\ ins.n[2] # 0 /\ ins.n[1] + ins.n[2] <= tys[1][2],
       <<Bytes(ins.n[2])>>)
NthShape(ins, tys) == Some(IsBytesType(tys[1]) /\ ins.n[1] < tys[1][2], <<Byte>>)

ByteCount(t) == IF t = Byte THEN 1 ELSE t[2]
ConcatShape(tys) ==
  LET n == Total([i \in DOMAIN tys |-> ByteCount(tys[i])]) IN
  Some((\A i \in DOMAIN tys : tys[i] = Byte \/ IsBytesType(tys[i])) /\ n \in 1..MAX_BYTES_LEN,
       <<Bytes(n)>>)

EncodeShape(ins, tys) ==
  Some(encoded_len(tys[1]) = Len(ins.outs), [i \in 1..encoded_len(tys[1]) |-> Native])
BytesIntoNativesShape(ins, tys) == IF IsBytesType(tys[1]) THEN EncodeShape(ins, tys) ELSE {}
BytesFromNativesShape(ins, tys) ==
  Some(LimbsMatch(ins.n[1], Len(tys)) /\ AllOf(tys, Native), <<Bytes(ins.n[1])>>)

LowHighShape(tys) == Some(tys[1] = Bytes(FrBytes), <<Native, Native>>)
\* `high` goes through AssignedNative, `low` through to_bytes.
FromLowHighShape(tys) ==
  Some(tys[2] = Native /\ IntoBytes32Shape(tys) # {}, <<Bytes(FrBytes)>>)

\* fab_decode_to_bytes has no options; elements beyond the last atom are ignored.
Decodable(seg) == seg[1] \in {"Field", "Bytes"}
AlignedWidth(align) == Total([k \in DOMAIN align |-> Width(align[k])])
ByteHashShape(ins, tys) ==
  Some(/\ AllOf(tys, Native)
       /\ \A i \in DOMAIN ins.align : Decodable(ins.align[i])
       /\ AlignedWidth(ins.align) <= Len(tys),
       <<Bytes(DigestLen(ins.op))>>)

LoadConstantShape(ins) == {<<v.ty>> : v \in Decode(ins.enc, ins.ty)}

Shape(ins, tys) ==
  CASE ins.op = "Add" -> AddShape(tys)
    [] ins.op = "Mul" -> MulShape(tys)
    [] ins.op = "Neg" -> NegShape(tys)
    [] ins.op = "Inv" -> InvShape(tys)
    [] ins.op = "Not" -> NotShape(tys)
    [] ins.op \in {"And", "Or", "Xor"} -> BitListShape(tys)
    [] ins.op = "ConstrainEq" -> ConstrainEqShape(tys)
    [] ins.op = "TestEq" -> TestEqShape(tys)
    [] ins.op = "CondSelect" -> CondSelectShape(tys)
    [] ins.op \in {"Assert", "ConstrainBits", "ConstrainToBoolean"} -> CheckShape(tys)
    [] ins.op = "LessThan" -> LessThanShape(tys)
    [] ins.op = "DivModPowerOfTwo" -> DivModShape(ins, tys)
    [] ins.op = "ReconstituteField" -> ReconstituteShape(ins, tys)
    [] ins.op = "JubjubScalarFromNative" -> JubjubScalarShape(tys)
    [] ins.op = "TransientHash" -> TransientHashShape(tys)
    [] ins.op = "HashToCurve" -> HashToCurveShape(tys)
    [] ins.op = "EcMul" -> EcMulShape(tys)
    [] ins.op = "EcMulGenerator" -> EcMulGeneratorShape(tys)
    [] ins.op = "IntoCoordinates" -> IntoCoordinatesShape(tys)
    [] ins.op = "FromCoordinates" -> FromCoordinatesShape(tys)
    [] ins.op = "ToBytes" -> ToBytesShape(tys)
    [] ins.op = "IntoBytes32" -> IntoBytes32Shape(tys)
    [] ins.op = "FromBytes" -> FromBytesShape(ins, tys)
    [] ins.op = "FromBytes32" -> FromBytes32Shape(ins, tys)
    [] ins.op \in {"Reverse", "ReverseBytes"} -> ReverseShape(tys)
    [] ins.op = "Slice" -> SliceShape(ins, tys)
    [] ins.op = "Nth" -> NthShape(ins, tys)
    [] ins.op = "Concat" -> ConcatShape(tys)
    [] ins.op = "Encode" -> EncodeShape(ins, tys)
    [] ins.op = "BytesIntoNatives" -> BytesIntoNativesShape(ins, tys)
    [] ins.op = "BytesFromNatives" -> BytesFromNativesShape(ins, tys)
    [] ins.op = "Bytes32IntoLowHigh" -> LowHighShape(tys)
    [] ins.op = "Bytes32FromLowHigh" -> FromLowHighShape(tys)
    [] ins.op = "LoadConstant" -> LoadConstantShape(ins)
    [] ins.op \in HashOps -> ByteHashShape(ins, tys)
    [] ins.op = "Copy" -> {tys}

------------------------------------------------------------------------------
(* Constraints.                                                              *)

\* std.convert from a native to a bit constrains it to 0 or 1.
BitHolds(v) == v.val \in {0, 1}
\* assert_non_zero, where preprocess demands exactly 1.
AssertHolds(a) == a[1].val # 0
\* Beyond FR_BITS the decomposition is only required to be canonical.
ConstrainBitsHolds(ins, a) == ins.n[1] >= FR_BITS \/ a[1].val < 2^ins.n[1]

\* Mutant of EvenBound: rounded down.
EvenBelow(n) == LET m == n - (n % 2) IN IF m < MinRange THEN MinRange ELSE m
EvenBound(n) == LET m == n + (n % 2) IN IF m < MinRange THEN MinRange ELSE m
LessThanHolds(ins, a) == \A i \in {1, 2} : a[i].val < 2^EvenBound(ins.n[1])

\* Mutant of ReconstituteResult: the sum is not reduced.
ReconstituteUnreduced(ins, a) == 2^ins.n[1] * a[1].val + a[2].val
\* The canonical bits of the result, split at `bits`, equal the two operands.
ReconstituteResult(ins, a) == (2^ins.n[1] * a[1].val + a[2].val) % P
ReconstituteHolds(ins, a) ==
  LET r == ReconstituteResult(ins, a) IN
  r % 2^ins.n[1] = a[2].val /\ r \div 2^ins.n[1] = a[1].val

\* x and y reject the identity of a Weierstrass curve.
IntoCoordinatesHolds(a) == ~(a[1].ty[2] \in Weierstrass /\ a[1].val = 0)

CurveWithBase(t) == CHOOSE c \in Curves : Base(c) = t
FromCoordinatesHolds(a) == PointAt(CurveWithBase(a[1].ty), a[1], a[2]) # {}

\* The witnessed point, the generator where the bytes do not decode.
WitnessPoint(c, bs) ==
  IF PointFromBytes(c, bs) = {} THEN 1 ELSE CHOOSE k \in PointFromBytes(c, bs) : TRUE
\* assert_bytes_equal on the point's own encoding.
FromBytesHolds(ins, a) ==
  IsPoint(ins.ty) =>
    LET c == ins.ty[2] IN PointToBytes(c, WitnessPoint(c, a[1].val)) = a[1].val

\* Mutant of BytesFromNativesHolds: the last limb may be as large as the others.
FullLimbsHold(ins, a) == \A i \in DOMAIN a : a[i].val < ByteBase^ChunkLen
\* Every limb is decomposed into exactly the bytes it contributes.
BytesFromNativesHolds(ins, a) ==
  \A i \in DOMAIN a : a[i].val < ByteBase^ChunkBytes(ins.n[1], i)

FromLowHighHolds(a) == Last(ToBytes(a[1]).val) = 0 /\ a[2].val < ByteBase

\* Where in the operands an atom starts.
AtomStart(align, k) == AlignedWidth(SubSeq(align, 1, k - 1))

\* The pieces of an atom in the order their bytes are output, each an operand
\* and the bytes it gives: the whole chunks backwards, and the stray bytes,
\* which come first among the operands, at the end.
AtomPieces(align, k) ==
  LET seg == align[k]
      at == AtomStart(align, k)
      stray == seg[2] % ChunkLen
      chunks == seg[2] \div ChunkLen
      first == IF stray > 0 THEN at + 1 ELSE at
  IN IF seg[1] = "Field" THEN <<[from |-> at + 1, len |-> FrBytes]>>
     ELSE [i \in 1..chunks |-> [from |-> first + chunks + 1 - i, len |-> ChunkLen]]
            \o (IF stray > 0 THEN <<[from |-> at + 1, len |-> stray]>> ELSE <<>>)
Pieces(align) == FlattenSeq([k \in DOMAIN align |-> AtomPieces(align, k)])

\* assigned_to_le_bytes with a length constrains the element to it.
ByteHashHolds(ins, a) ==
  \A i \in DOMAIN Pieces(ins.align) :
    LET p == Pieces(ins.align)[i] IN a[p.from].val < ByteBase^p.len

Holds(ins, a) ==
  CASE ins.op \in {"Not", "ConstrainToBoolean", "CondSelect"} -> BitHolds(a[1])
    [] ins.op = "Assert" -> AssertHolds(a)
    [] ins.op = "Inv" -> a[1].val # 0
    [] ins.op = "ConstrainEq" -> a[1] = a[2]
    [] ins.op = "ConstrainBits" -> ConstrainBitsHolds(ins, a)
    [] ins.op = "LessThan" -> LessThanHolds(ins, a)
    [] ins.op = "ReconstituteField" -> ReconstituteHolds(ins, a)
    [] ins.op = "IntoCoordinates" -> IntoCoordinatesHolds(a)
    [] ins.op = "FromCoordinates" -> FromCoordinatesHolds(a)
    [] ins.op \in {"FromBytes", "FromBytes32"} -> FromBytesHolds(ins, a)
    [] ins.op = "BytesFromNatives" -> BytesFromNativesHolds(ins, a)
    [] ins.op = "Bytes32FromLowHigh" -> FromLowHighHolds(a)
    [] ins.op \in HashOps -> ByteHashHolds(ins, a)
    [] OTHER -> TRUE

------------------------------------------------------------------------------
(* Cells.                                                                    *)

AddCell(a) == V(a[1].ty, (a[1].val + a[2].val) % Order(a[1].ty))
MulCell(a) == V(a[1].ty, (a[1].val * a[2].val) % Order(a[1].ty))
NegCell(a) == IF a[1].ty = Bool THEN V(Bool, 1 - a[1].val)
                                ELSE V(a[1].ty, (-a[1].val) % Order(a[1].ty))
InvCell(a) == V(a[1].ty, CHOOSE x \in Inverses(a[1]) : TRUE)

AllSet(a) == \A i \in DOMAIN a : a[i].val = 1
BitListCell(ins, a) ==
  V(Bool, CASE ins.op = "And" -> ToBit(AllSet(a))
            [] ins.op = "Or" -> ToBit(\E i \in DOMAIN a : a[i].val = 1)
            [] ins.op = "Xor" -> Parity(a))

\* Byte strings compare byte by byte.
EqualCell(a) ==
  Fr(ToBit(IF IsBytes(a[1]) THEN \A i \in DOMAIN a[1].val : a[1].val[i] = a[2].val[i]
                            ELSE a[1].val = a[2].val))
SelectCell(a) == IF a[1].val = 1 THEN a[2] ELSE a[3]
LessThanCell(a) == Fr(ToBit(a[1].val < a[2].val))

\* The bits of the canonical decomposition from `bits` on, then those below.
DivModCells(ins, a) == <<Fr(a[1].val \div 2^ins.n[1]), Fr(a[1].val % 2^ins.n[1])>>

\* The remainder of the biguint by the Jubjub order.
JubjubScalarCell(a) == V(Scalar("Jubjub"), a[1].val % ScalarMod["Jubjub"])

FromCoordinatesCell(a) ==
  LET c == CurveWithBase(a[1].ty) IN V(Point(c), CHOOSE k \in PointAt(c, a[1], a[2]) : TRUE)

\* Mutant of FromBytesCell: the integer is not reduced.
FromBytesUnreduced(ins, a) ==
  V(ins.ty, IF IsPoint(ins.ty) THEN WitnessPoint(ins.ty[2], a[1].val) ELSE LeInt(a[1].val))

FromBytesCell(ins, a) ==
  IF IsPoint(ins.ty) THEN V(ins.ty, WitnessPoint(ins.ty[2], a[1].val))
  ELSE V(ins.ty, LeInt(a[1].val) % Order(ins.ty))

BytesFromNativesCell(ins, a) ==
  BytesV(FlattenSeq([i \in DOMAIN a |-> LeBytes(a[i].val, ChunkBytes(ins.n[1], i))]))

\* Mutant of LowHighCells: high first.
HighLowCells(a) == <<Fr(Last(a[1].val)), Fr(LeInt(Front(a[1].val)) % P)>>
LowHighCells(a) ==
  <<Fr(LeInt(Front(a[1].val)) % P), Fr(Last(a[1].val))>>
FromLowHighCell(a) == BytesV(Append(Front(ToBytes(a[1]).val), a[2].val))

\* fab_decode_to_bytes
DecodedBytes(align, a) ==
  FlattenSeq([i \in DOMAIN Pieces(align) |->
                LeBytes(a[Pieces(align)[i].from].val, Pieces(align)[i].len)])

Cells(ins, a) ==
  CASE ins.op = "Add" -> <<AddCell(a)>>
    [] ins.op = "Mul" -> <<MulCell(a)>>
    [] ins.op = "Neg" -> <<NegCell(a)>>
    [] ins.op = "Inv" -> <<InvCell(a)>>
    [] ins.op = "Not" -> <<Fr(1 - a[1].val)>>
    [] ins.op \in {"And", "Or", "Xor"} -> <<BitListCell(ins, a)>>
    [] ins.op = "TestEq" -> <<EqualCell(a)>>
    [] ins.op = "CondSelect" -> <<SelectCell(a)>>
    [] ins.op = "LessThan" -> <<LessThanCell(a)>>
    [] ins.op = "DivModPowerOfTwo" -> DivModCells(ins, a)
    [] ins.op = "ReconstituteField" -> <<Fr(ReconstituteResult(ins, a))>>
    [] ins.op = "JubjubScalarFromNative" -> <<JubjubScalarCell(a)>>
    [] ins.op = "TransientHash" -> <<Fr(Poseidon(Payloads(a)))>>
    [] ins.op = "HashToCurve" -> <<V(Point("Jubjub"), HashToPoint(Payloads(a)))>>
    [] ins.op = "EcMul" -> <<V(a[1].ty, (a[1].val * a[2].val) % Order(a[1].ty))>>
    [] ins.op = "EcMulGenerator" -> <<V(Point(a[1].ty[2]), a[1].val)>>
    [] ins.op = "IntoCoordinates" -> Coordinates(a[1].ty[2], a[1].val)
    [] ins.op = "FromCoordinates" -> <<FromCoordinatesCell(a)>>
    [] ins.op \in {"ToBytes", "IntoBytes32"} -> <<ToBytes(a[1])>>
    [] ins.op \in {"FromBytes", "FromBytes32"} -> <<FromBytesCell(ins, a)>>
    [] ins.op \in {"Reverse", "ReverseBytes"} -> <<BytesV(Reverse(a[1].val))>>
    [] ins.op = "Slice" -> <<BytesV(SubSeq(a[1].val, ins.n[1] + 1, ins.n[1] + ins.n[2]))>>
    [] ins.op = "Nth" -> <<V(Byte, a[1].val[ins.n[1] + 1])>>
    [] ins.op = "Concat" -> <<BytesV(FlattenSeq([i \in DOMAIN a |-> ByteString(a[i])]))>>
    [] ins.op \in {"Encode", "BytesIntoNatives"} -> FrSeq(Encode(a[1]))
    [] ins.op = "BytesFromNatives" -> <<BytesFromNativesCell(ins, a)>>
    [] ins.op = "Bytes32IntoLowHigh" -> LowHighCells(a)
    [] ins.op = "Bytes32FromLowHigh" -> <<FromLowHighCell(a)>>
    [] ins.op = "LoadConstant" -> <<CHOOSE v \in Decode(ins.enc, ins.ty) : TRUE>>
    [] ins.op = "Copy" -> a
    [] ins.op \in HashOps -> <<BytesV(Digest(ins.op, DecodedBytes(ins.align, a)))>>
    [] OTHER -> <<>>

\* The types of a sequence of values.
TypesOf(vs) == [i \in DOMAIN vs |-> vs[i].ty]
==============================================================================
