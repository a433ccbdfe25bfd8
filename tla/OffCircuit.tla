------------------------------ MODULE OffCircuit ------------------------------
(***************************************************************************)
(* What each value instruction computes in `preprocess` (ir_vm.rs and the  *)
(* *_offcircuit functions).  An instruction is a record                    *)
(*   op    its name,                     args  its operands, in order,     *)
(*   outs  the names it binds, in order, ty    its `val_t`,                *)
(*   n     its integer parameters,       enc   the encoding of a constant, *)
(*   align the alignment of a byte hash.                                   *)
(* An operator takes the instruction and the values a of its operands; it  *)
(* is {} where the code returns an error and {<<v1, ...>>}, the values for *)
(* the names in outs, where it succeeds.                                   *)
(***************************************************************************)
EXTENDS IrTypes

CONSTANTS
  Poseidon(_),     \* transient_hash on a sequence of native elements
  HashToPoint(_),  \* hash_to_curve, the discrete logarithm of the point
  Digest(_, _),    \* Digest(op, bs), the bytes of the digest of bs
  WideDigestLen    \* length of a SHA-512 digest (64), the others have FrBytes

ASSUME DigestAssumption == {WideDigestLen, FrBytes} \subseteq 1..MAX_BYTES_LEN

Nothing == <<>>

(* resolve_operand_bits with `constrain`: at most n bits, n below FR_BITS.    *)
FitsBits(v, n) == IsFr(v) /\ n < FR_BITS /\ v.val < 2^n

SplitBits == ChunkLen * ByteBits   \* FR_BYTES_STORED * 8

------------------------------------------------------------------------------
(* Arithmetic.                                                               *)

AddTypes == PrimeFields \cup Points
\* Mutant of AddOff: the sum is not reduced.
AddUnreduced(a) == Some(a[1].ty = a[2].ty /\ a[1].ty \in AddTypes,
                        <<V(a[1].ty, a[1].val + a[2].val)>>)
AddOff(a) == Some(a[1].ty = a[2].ty /\ a[1].ty \in AddTypes,
                  <<V(a[1].ty, (a[1].val + a[2].val) % Order(a[1].ty))>>)

MulOff(a) == Some(a[1].ty = a[2].ty /\ a[1].ty \in PrimeFields,
                  <<V(a[1].ty, (a[1].val * a[2].val) % Order(a[1].ty))>>)

NegOff(a) == Some(a[1].ty \in PrimeFields \cup Points \cup {Bool},
                  <<V(a[1].ty, IF a[1].ty = Bool THEN 1 - a[1].val
                                                 ELSE (-a[1].val) % Order(a[1].ty))>>)

Inverses(v) == {x \in 0..Order(v.ty) - 1 : (x * v.val) % Order(v.ty) = 1}
InvOff(a) == IF a[1].ty \in PrimeFields THEN {<<V(a[1].ty, x)>> : x \in Inverses(a[1])} ELSE {}

NotOff(a) == Some(IsBit(a[1]), <<Fr(1 - a[1].val)>>)

\* resolve_bool_list: at least one operand, every one of them a Bool.
BoolList(a) == a # <<>> /\ AllBool(a)
AndOff(a) == Some(BoolList(a), <<V(Bool, ToBit(\A i \in DOMAIN a : a[i].val = 1))>>)
OrOff(a) == Some(BoolList(a), <<V(Bool, ToBit(\E i \in DOMAIN a : a[i].val = 1))>>)
Parity(a) == Cardinality({i \in DOMAIN a : a[i].val = 1}) % 2
XorOff(a) == Some(BoolList(a), <<V(Bool, Parity(a))>>)

------------------------------------------------------------------------------
(* Equality, selection and range checks.                                     *)

ConstrainEqOff(a) == Some(a[1] = a[2], Nothing)

\* Two Bytes of different lengths are unequal, not an error.
TestEqOff(a) == Some(a[1].ty = a[2].ty \/ (IsBytes(a[1]) /\ IsBytes(a[2])),
                     <<Fr(ToBit(a[1] = a[2]))>>)

CondSelectOff(a) == Some(IsBit(a[1]) /\ a[2].ty = a[3].ty,
                         <<IF a[1].val = 1 THEN a[2] ELSE a[3]>>)

\* Mutant of AssertOff: any value but zero will do.
AssertNonZero(a) == Some(IsFr(a[1]) /\ a[1].val # 0, Nothing)
AssertOff(a) == Some(IsFr(a[1]) /\ a[1].val = 1, Nothing)

ConstrainToBooleanOff(a) == Some(IsBit(a[1]), Nothing)

ConstrainBitsOff(ins, a) == Some(FitsBits(a[1], ins.n[1]), Nothing)

LessThanOff(ins, a) == Some(FitsBits(a[1], ins.n[1]) /\ FitsBits(a[2], ins.n[1]),
                            <<Fr(ToBit(a[1].val < a[2].val))>>)

DivModPowerOfTwoOff(ins, a) ==
  Some(Len(ins.outs) = 2 /\ ins.n[1] <= SplitBits /\ IsFr(a[1]),
       <<Fr(a[1].val \div 2^ins.n[1]), Fr(a[1].val % 2^ins.n[1])>>)

\* The operands are <<divisor, modulus>>.  The code compares the concatenated
\* bits of the two with those of -1, from the top.
ReconstituteFieldOff(ins, a) ==
  LET bits == ins.n[1]
      sum == 2^bits * a[1].val + a[2].val
  IN Some(/\ bits <= SplitBits
          /\ FitsBits(a[2], bits) /\ FitsBits(a[1], FR_BITS - bits)
          /\ sum <= P - 1,
          <<Fr(sum % P)>>)

JubjubScalarFromNativeOff(a) ==
  Some(IsFr(a[1]), <<V(Scalar("Jubjub"), a[1].val % ScalarMod["Jubjub"])>>)

TransientHashOff(a) == Some(AllFr(a), <<Fr(Poseidon(Payloads(a)))>>)

HashToCurveOff(a) == Some(AllFr(a), <<V(Point("Jubjub"), HashToPoint(Payloads(a)))>>)

------------------------------------------------------------------------------
(* Curves.                                                                   *)

EcMulOff(a) ==
  UNION {Some(a[1].ty = Point(c) /\ a[2].ty = Scalar(c),
              <<V(Point(c), (a[1].val * a[2].val) % ScalarMod[c])>>) : c \in Curves}

EcMulGeneratorOff(a) ==
  UNION {Some(a[1].ty = Scalar(c), <<V(Point(c), a[1].val)>>) : c \in Curves}

\* Only the identity of a Weierstrass curve has no coordinates.
IntoCoordinatesOff(a) ==
  UNION {Some(a[1].ty = Point(c) /\ ~(c \in Weierstrass /\ a[1].val = 0),
              Coordinates(c, a[1].val)) : c \in Curves}

FromCoordinatesOff(a) ==
  UNION {{<<V(Point(c), k)>> : k \in PointAt(c, a[1], a[2])}
           : c \in {d \in Curves : a[1].ty = Base(d) /\ a[2].ty = Base(d)}}

------------------------------------------------------------------------------
(* Bytes.                                                                    *)

ToBytesOff(a) == Some(HasBytes(a[1].ty), <<ToBytes(a[1])>>)

\* ir_value_to_bytes32
IsBytes32(v) == v.ty = Bytes(FrBytes)
IntoBytes32Off(a) == {o \in ToBytesOff(a) : IsBytes32(o[1])}

\* Field elements are reduced; points must be in canonical form.
DecodeBytes(t, bs) ==
  IF t \in PrimeFields THEN {V(t, LeInt(bs) % Order(t))}
  ELSE IF IsPoint(t) THEN {v \in {V(t, k) : k \in PointFromBytes(t[2], bs)} : ToBytes(v).val = bs}
  ELSE {}

FromBytesOff(ins, a) ==
  IF IsBytes(a[1]) THEN {<<v>> : v \in DecodeBytes(ins.ty, a[1].val)} ELSE {}
FromBytes32Off(ins, a) == IF IsBytes32(a[1]) THEN FromBytesOff(ins, a) ELSE {}

ReverseOff(a) == Some(IsBytes(a[1]), <<BytesV(Reverse(a[1].val))>>)

\* Parameters <<start, len>>, the start counted from 0.
SliceOff(ins, a) ==
  LET s == ins.n[1]  l == ins.n[2] IN
  Some(IsBytes(a[1]) /\ l # 0 /\ s + l <= Len(a[1].val),
       <<BytesV(SubSeq(a[1].val, s + 1, s + l))>>)

NthOff(ins, a) == Some(IsBytes(a[1]) /\ ins.n[1] < Len(a[1].val),
                       <<V(Byte, a[1].val[ins.n[1] + 1])>>)

ByteString(v) == IF v.ty = Byte THEN <<v.val>> ELSE v.val
ConcatOff(a) ==
  LET bs == FlattenSeq([i \in DOMAIN a |-> ByteString(a[i])]) IN
  Some(/\ \A i \in DOMAIN a : a[i].ty = Byte \/ IsBytes(a[i])
       /\ Len(bs) \in 1..MAX_BYTES_LEN,
       <<BytesV(bs)>>)

EncodeOff(ins, a) == LET e == FrSeq(Encode(a[1])) IN Some(Len(e) = Len(ins.outs), e)
BytesIntoNativesOff(ins, a) == IF IsBytes(a[1]) THEN EncodeOff(ins, a) ELSE {}

\* bytes_from_natives_nb_limbs
LimbsMatch(len, nb) == len \in 1..MAX_BYTES_LEN /\ nb = DivCeil(len, ChunkLen)
BytesFromNativesOff(ins, a) ==
  IF LimbsMatch(ins.n[1], Len(a)) /\ AllFr(a)
  THEN {<<v>> : v \in Decode(Payloads(a), Bytes(ins.n[1]))} ELSE {}

Bytes32IntoLowHighOff(a) ==
  Some(IsBytes32(a[1]),
       <<Fr(LeInt(Front(a[1].val)) % P), Fr(Last(a[1].val))>>)

\* Both operands may be of any type with a 32-byte representation.
Bytes32FromLowHighOff(a) ==
  UNION {UNION {Some(Last(lo[1].val) = 0 /\ \A i \in 2..FrBytes : hi[1].val[i] = 0,
                     <<BytesV(Append(Front(lo[1].val), hi[1].val[1]))>>)
                  : hi \in IntoBytes32Off(<<a[2]>>)} : lo \in IntoBytes32Off(<<a[1]>>)}

------------------------------------------------------------------------------
(* The byte hashes.  An alignment is a sequence of segments, atoms and       *)
(* options; of the options, those without payload, which take and represent  *)
(* the index of the alternative.  The parser is external: it must use up its *)
(* input, and reads the chunks of a byte string from the last to the first.  *)

HashOps == {"PersistentHash", "Keccak256", "Sha512"}
Segment == {<<"Field">>, <<"Compress">>} \cup ({"Bytes", "Option"} \X Nat)
DigestLen(op) == IF op = "Sha512" THEN WideDigestLen ELSE FrBytes

\* Elements a segment takes.
Width(seg) == IF seg[1] = "Bytes" THEN DivCeil(seg[2], ChunkLen) ELSE 1

\* The bytes of a segment from as many elements as it takes, {} if they do not fit.
SegmentBytes(seg, es) ==
  CASE seg[1] = "Compress" -> {}
    [] seg[1] = "Field" -> {LeBytes(es[1], FrBytes)}
    [] seg[1] = "Bytes" -> {v.val : v \in decode_bytes(Reverse(es), seg[2])}
    [] seg[1] = "Option" -> Some(es[1] < seg[2], <<es[1]>>)

\* One segment further: the elements left and the bytes so far.
TakeSegment(acc, seg) ==
  UNION {{[left |-> SubSeq(p.left, Width(seg) + 1, Len(p.left)), bytes |-> p.bytes \o bs]
            : bs \in SegmentBytes(seg, SubSeq(p.left, 1, Width(seg)))}
           : p \in {q \in acc : Width(seg) <= Len(q.left)}}
parse_field_repr(align, es) ==
  LET after[k \in 0..Len(align)] ==
        IF k = 0 THEN {[left |-> es, bytes |-> <<>>]} ELSE TakeSegment(after[k - 1], align[k])
  IN {p.bytes : p \in {q \in after[Len(align)] : q.left = <<>>}}

ByteHashOff(ins, a) ==
  IF AllFr(a)
  THEN {<<BytesV(Digest(ins.op, bs))>> : bs \in parse_field_repr(ins.align, Payloads(a))} ELSE {}

LoadConstantOff(ins) == {<<v>> : v \in Decode(ins.enc, ins.ty)}

------------------------------------------------------------------------------
CopyOff(a) == {a}

\* The arm of `preprocess` for a value instruction.
OffGate(ins, a) ==
  CASE ins.op = "Encode" -> EncodeOff(ins, a)
    [] ins.op = "Add" -> AddOff(a)
    [] ins.op = "Mul" -> MulOff(a)
    [] ins.op = "Neg" -> NegOff(a)
    [] ins.op = "Inv" -> InvOff(a)
    [] ins.op = "Not" -> NotOff(a)
    [] ins.op = "And" -> AndOff(a)
    [] ins.op = "Or" -> OrOff(a)
    [] ins.op = "Xor" -> XorOff(a)
    [] ins.op = "ConstrainEq" -> ConstrainEqOff(a)
    [] ins.op = "CondSelect" -> CondSelectOff(a)
    [] ins.op = "Assert" -> AssertOff(a)
    [] ins.op = "TestEq" -> TestEqOff(a)
    [] ins.op = "Copy" -> CopyOff(a)
    [] ins.op = "ConstrainToBoolean" -> ConstrainToBooleanOff(a)
    [] ins.op = "ConstrainBits" -> ConstrainBitsOff(ins, a)
    [] ins.op = "DivModPowerOfTwo" -> DivModPowerOfTwoOff(ins, a)
    [] ins.op = "ReconstituteField" -> ReconstituteFieldOff(ins, a)
    [] ins.op = "LessThan" -> LessThanOff(ins, a)
    [] ins.op = "JubjubScalarFromNative" -> JubjubScalarFromNativeOff(a)
    [] ins.op = "TransientHash" -> TransientHashOff(a)
    [] ins.op = "HashToCurve" -> HashToCurveOff(a)
    [] ins.op = "EcMul" -> EcMulOff(a)
    [] ins.op = "EcMulGenerator" -> EcMulGeneratorOff(a)
    [] ins.op = "IntoCoordinates" -> IntoCoordinatesOff(a)
    [] ins.op = "FromCoordinates" -> FromCoordinatesOff(a)
    [] ins.op = "ToBytes" -> ToBytesOff(a)
    [] ins.op = "IntoBytes32" -> IntoBytes32Off(a)
    [] ins.op = "FromBytes" -> FromBytesOff(ins, a)
    [] ins.op = "FromBytes32" -> FromBytes32Off(ins, a)
    [] ins.op \in {"Reverse", "ReverseBytes"} -> ReverseOff(a)
    [] ins.op = "Slice" -> SliceOff(ins, a)
    [] ins.op = "BytesIntoNatives" -> BytesIntoNativesOff(ins, a)
    [] ins.op = "BytesFromNatives" -> BytesFromNativesOff(ins, a)
    [] ins.op = "Bytes32IntoLowHigh" -> Bytes32IntoLowHighOff(a)
    [] ins.op = "Bytes32FromLowHigh" -> Bytes32FromLowHighOff(a)
    [] ins.op = "Nth" -> NthOff(ins, a)
    [] ins.op = "Concat" -> ConcatOff(a)
    [] ins.op = "LoadConstant" -> LoadConstantOff(ins)
    [] ins.op \in HashOps -> ByteHashOff(ins, a)

ValueOps ==
  {"Encode", "Add", "Mul", "Neg", "Inv", "Not", "And", "Or", "Xor", "ConstrainEq",
   "CondSelect", "Assert", "TestEq", "Copy", "ConstrainToBoolean", "ConstrainBits",
   "DivModPowerOfTwo", "ReconstituteField", "LessThan", "JubjubScalarFromNative",
   "TransientHash", "HashToCurve", "EcMul", "EcMulGenerator", "IntoCoordinates",
   "FromCoordinates", "ToBytes", "IntoBytes32", "FromBytes", "FromBytes32", "Reverse",
   "ReverseBytes", "Slice", "BytesIntoNatives", "BytesFromNatives", "Bytes32IntoLowHigh",
   "Bytes32FromLowHigh", "Nth", "Concat", "LoadConstant"} \cup HashOps
==============================================================================
