------------------------------- MODULE IrTypes -------------------------------
(***************************************************************************)
(* The typed values of ZKIR v3 and their two codecs: the packing of a      *)
(* value into native field elements (ir_types.rs, encode.rs) and its byte  *)
(* representation (to_bytes.rs, from_bytes.rs).                            *)
(*                                                                         *)
(* The native field, the bytes and the curves are parameters, so that the  *)
(* model checker can use a field of a few elements with the same           *)
(* inequalities as the real one: a chunk of ChunkLen bytes is always below *)
(* P, FrBytes bytes are not, and FR_BITS is one bit short of FrBytes bytes.*)
(***************************************************************************)
EXTENDS Integers, Sequences, SequencesExt

CONSTANTS
  P,            \* order of the native field
  FR_BITS,      \* bits of a native field element
  ByteBits,     \* bits of a byte
  ChunkLen,     \* BYTES_PER_FIELD_ELEMENT and FR_BYTES_STORED
  FrBytes,      \* the 32 of the Bytes32 instructions and of to_bytes
  MAX_BYTES_LEN,
  LimbBase,     \* radix of the two-limb encoding of a foreign field element
  Curves,       \* "Jubjub" and the foreign curves
  Weierstrass,  \* the curves whose identity has no affine coordinates
  BaseMod,      \* [Curves -> Nat], orders of the base fields
  ScalarMod,    \* [Curves -> Nat], orders of the groups
  Coord         \* Coord[c][k] is <<x, y>>, the coordinates of k times the generator

ByteBase == 2^ByteBits
TopBit == 2^(ByteBits - 1)

ASSUME FieldAssumption ==
  /\ {P, FR_BITS, ByteBits, ChunkLen, FrBytes, MAX_BYTES_LEN, LimbBase}
       \subseteq Nat \ {0}
  /\ 2^(FR_BITS - 1) < P /\ P <= 2^FR_BITS
  /\ ByteBase^ChunkLen < P /\ ChunkLen < FrBytes /\ FrBytes < MAX_BYTES_LEN
  /\ ByteBits * ChunkLen < FR_BITS /\ FR_BITS < ByteBits * FrBytes /\ ByteBits > 1

\* Laws of exponents, on the exponents of the model, which the proofs rest on.
ASSUME PowerAssumption ==
  /\ \A k \in 0..FR_BITS : 2^k \in Nat \ {0}
  /\ \A k \in 1..FR_BITS : 2^k = 2 * 2^(k - 1)
  /\ ByteBase \in Nat /\ ByteBase > 3 /\ TopBit \in Nat /\ 2 * TopBit = ByteBase
  /\ ByteBase^0 = 1
  /\ \A k \in 0..MAX_BYTES_LEN :
       ByteBase^k \in Nat \ {0} /\ ByteBase^(k + 1) = ByteBase * ByteBase^k
  /\ P <= ByteBase^FrBytes

\* An element of a foreign field has two limbs, the coordinates of a point are
\* elements of the base field and fit FrBytes bytes, of which the curves in
\* compressed Edwards form leave the top bit free.
ASSUME CurveAssumption ==
  /\ Weierstrass \subseteq Curves /\ "Jubjub" \in Curves \ Weierstrass
  /\ BaseMod \in [Curves -> Nat \ {0}] /\ ScalarMod \in [Curves -> Nat \ {0, 1}]
  /\ BaseMod["Jubjub"] = P /\ ScalarMod["Jubjub"] < P /\ LimbBase <= P
  /\ \A c \in Curves :
       /\ BaseMod[c] <= LimbBase * P /\ ScalarMod[c] <= LimbBase * P
       /\ c \notin Weierstrass => BaseMod[c] <= TopBit * ByteBase^(FrBytes - 1)
       /\ c \in Weierstrass => BaseMod[c] <= ByteBase^FrBytes
       /\ DOMAIN Coord[c] = (IF c \in Weierstrass THEN 1 ELSE 0)..ScalarMod[c] - 1
       /\ \A k \in DOMAIN Coord[c] :
            Coord[c][k] \in (0..BaseMod[c] - 1) \X (0..BaseMod[c] - 1)

\* A point is determined by its compressed form: one coordinate and the parity of
\* the other, which says nothing where that is zero.
ASSUME CompressionAssumption ==
  \A c \in Curves : \A j, k \in DOMAIN Coord[c] :
    LET p == Coord[c][j]
        q == Coord[c][k]
    IN j # k => IF c \in Weierstrass THEN p[1] # q[1] \/ p[2] % 2 # q[2] % 2
                ELSE p[2] # q[2] \/ (p[1] % 2 # q[1] % 2 /\ p[1] # 0)

\* The orders are primes: every element but zero has an inverse.
ASSUME InverseAssumption ==
  \A m \in {BaseMod[c] : c \in Curves} \cup {ScalarMod[c] : c \in Curves} :
    \A x \in 1..m - 1 : \E y \in 0..m - 1 : (y * x) % m = 1

------------------------------------------------------------------------------
(* Types and values.  A point is its discrete logarithm; a Bool is 0 or 1.   *)

Native == <<"Native">>
Bool == <<"Bool">>
Byte == <<"Byte">>
Bytes(n) == <<"Bytes", n>>
Point(c) == <<"Point", c>>
Scalar(c) == <<"Scalar", c>>
Base(c) == IF c = "Jubjub" THEN Native ELSE <<"Base", c>>

PrimeFields == {Native} \cup {Scalar(c) : c \in Curves} \cup {Base(c) : c \in Curves}
Points == {Point(c) : c \in Curves}
BytesTypes == {Bytes(n) : n \in 1..MAX_BYTES_LEN}
IrType == PrimeFields \cup Points \cup BytesTypes \cup {Bool, Byte}

\* The curve a type belongs to, {} for the types that need no curve chip.
CurveOf(t) == {c \in Curves : t \in {Point(c), Scalar(c)} \/ (c # "Jubjub" /\ t = Base(c))}

\* The order of the additive group the payloads of a type form.
Order(t) ==
  CASE t = Native -> P
    [] t = Bool -> 2
    [] t = Byte -> ByteBase
    [] t[1] = "Base" -> BaseMod[t[2]]
    [] t[1] \in {"Scalar", "Point"} -> ScalarMod[t[2]]

IrValue(t) == [ty : {t}, val : IF t \in BytesTypes THEN [1..t[2] -> 0..ByteBase - 1]
                                                   ELSE 0..Order(t) - 1]

V(t, x) == [ty |-> t, val |-> x]
Fr(x) == V(Native, x)
BytesV(bs) == V(Bytes(Len(bs)), bs)
FrSeq(xs) == [i \in DOMAIN xs |-> Fr(xs[i])]
Payloads(vs) == [i \in DOMAIN vs |-> vs[i].val]

IsFr(v) == v.ty = Native
IsBytes(v) == v.ty[1] = "Bytes"
IsBit(v) == IsFr(v) /\ v.val \in {0, 1}
AllFr(vs) == \A i \in DOMAIN vs : IsFr(vs[i])
AllBool(vs) == \A i \in DOMAIN vs : vs[i].ty = Bool
IsPoint(t) == t[1] = "Point"
ToBit(cond) == IF cond THEN 1 ELSE 0

\* Mutant of Default: the native zero for every type.
DefaultNative(t) == Fr(0)

\* IrValue::default, what a guarded-off transcript read binds.
Default(t) == V(t, IF t \in BytesTypes THEN [i \in 1..t[2] |-> 0] ELSE 0)

------------------------------------------------------------------------------
(* Little-endian bytes.                                                      *)

LeBytes(x, n) == [i \in 1..n |-> (x \div ByteBase^(i - 1)) % ByteBase]
\* The sum of a sequence of numbers.
Total(ns) ==
  LET upTo[i \in 0..Len(ns)] == IF i = 0 THEN 0 ELSE upTo[i - 1] + ns[i]
  IN upTo[Len(ns)]
LeInt(bs) == Total([i \in DOMAIN bs |-> bs[i] * ByteBase^(i - 1)])

DivCeil(n, d) == (n + d - 1) \div d
\* slice::chunks: every chunk has ChunkLen bytes, the last one what remains.
ChunkAt(bs, i) ==
  SubSeq(bs, ChunkLen * (i - 1) + 1, IF ChunkLen * i < Len(bs) THEN ChunkLen * i ELSE Len(bs))
Chunks(bs) == [i \in 1..DivCeil(Len(bs), ChunkLen) |-> ChunkAt(bs, i)]

------------------------------------------------------------------------------
(* Packing into native field elements.                                       *)

encoded_len(t) ==
  CASE t \in {Native, Bool, Byte, Scalar("Jubjub")} -> 1
    [] t[1] = "Bytes" -> DivCeil(t[2], ChunkLen)
    [] t[1] = "Point" ->
         IF t[2] = "Jubjub" THEN 2 ELSE IF t[2] \in Weierstrass THEN 5 ELSE 4
    [] OTHER -> 2

Limbs(x) == <<x % LimbBase, x \div LimbBase>>
FromLimbs(lo, hi) == lo + LimbBase * hi

EncodePoint(c, k) ==
  IF c = "Jubjub" THEN Coord[c][k]
  ELSE IF c \in Weierstrass
  THEN IF k = 0 THEN <<0, 0, 0, 0, 1>>
       ELSE Limbs(Coord[c][k][1]) \o Limbs(Coord[c][k][2]) \o <<0>>
  ELSE Limbs(Coord[c][k][1]) \o Limbs(Coord[c][k][2])

\* The raw elements of a value (encode_offcircuit before it wraps them).
Encode(v) ==
  LET t == v.ty IN
  CASE t \in {Native, Bool, Byte, Scalar("Jubjub")} -> <<v.val>>
    [] t[1] = "Bytes" -> [i \in DOMAIN Chunks(v.val) |-> LeInt(Chunks(v.val)[i])]
    [] t[1] = "Point" -> EncodePoint(t[2], v.val)
    [] OTHER -> Limbs(v.val)

EncodeAll(vs) == FlattenSeq([i \in DOMAIN vs |-> Encode(vs[i])])

\* An option is a set with at most one element.
Some(cond, x) == IF cond THEN {x} ELSE {}

\* Bytes that chunk i of an n-byte string holds.
ChunkBytes(n, i) == IF ChunkLen * i <= n THEN ChunkLen ELSE n - ChunkLen * (i - 1)

decode_bytes(enc, n) ==
  LET chunk(i) == LeBytes(enc[i], ChunkBytes(n, i)) IN
  Some(/\ Len(enc) = DivCeil(n, ChunkLen)
       /\ \A i \in DOMAIN enc : enc[i] < ByteBase^ChunkBytes(n, i),
       V(Bytes(n), FlattenSeq([i \in DOMAIN enc |-> chunk(i)])))

\* The chips' from_public_input: it reduces what is out of range and does not
\* look at more than it needs, which is why decode_offcircuit encodes again.
PointFromRaw(c, enc) ==
  LET at(x, y) == {k \in DOMAIN Coord[c] : Coord[c][k] = <<x, y>>}
      limb(i) == FromLimbs(enc[i], enc[i + 1]) % BaseMod[c]
  IN IF c = "Jubjub" THEN at(enc[1], enc[2])
     ELSE IF c \in Weierstrass /\ enc[5] # 0 THEN {0}
     ELSE at(limb(1), limb(3))

FromPublicInput(enc, t) ==
  IF Len(enc) # encoded_len(t) THEN {}
  ELSE CASE t = Native -> {Fr(enc[1])}
         [] t \in {Bool, Byte, Scalar("Jubjub")} -> {V(t, enc[1] % Order(t))}
         [] t[1] = "Bytes" -> decode_bytes(enc, t[2])
         [] t[1] = "Point" -> {V(t, k) : k \in PointFromRaw(t[2], enc)}
         [] OTHER -> {V(t, FromLimbs(enc[1], enc[2]) % Order(t))}

\* Mutants of Decode: without the comparison with the encoding, and with the
\* element taken for the payload.
DecodeLenient(enc, t) == FromPublicInput(enc, t)
DecodeUnreduced(enc, t) ==
  {IF t \in {Bool, Byte, Scalar("Jubjub")} THEN V(t, enc[1]) ELSE v : v \in FromPublicInput(enc, t)}

\* decode_offcircuit: canonical encodings only.
Decode(enc, t) == {v \in FromPublicInput(enc, t) : Encode(v) = enc}

------------------------------------------------------------------------------
(* Byte representations.                                                     *)

\* The y coordinate with the parity of x in the top bit of the last byte.
CompressEdwards(xy) ==
  LET y == LeBytes(xy[2], FrBytes) IN Append(Front(y), Last(y) + TopBit * (xy[1] % 2))
\* 0x02 | (y mod 2), then x in big-endian.
CompressSec1(xy) == <<2 + (xy[2] % 2)>> \o Reverse(LeBytes(xy[1], FrBytes))
ZeroBytes(n) == [i \in 1..n |-> 0]

PointToBytes(c, k) ==
  IF c \notin Weierstrass THEN CompressEdwards(Coord[c][k])
  ELSE IF k = 0 THEN ZeroBytes(FrBytes + 1) ELSE CompressSec1(Coord[c][k])

PointBytesLen(c) == IF c \in Weierstrass THEN FrBytes + 1 ELSE FrBytes

\* The curve crates' decompression, as lenient as it may be: a sign bit on
\* x = 0, an unreduced coordinate and any tail of the identity are accepted.
PointFromBytes(c, bs) ==
  LET n == Len(bs)
      sign == bs[n] \div TopBit
      y == LeInt([bs EXCEPT ![n] = @ % TopBit]) % BaseMod[c]
      x == LeInt(Reverse(Tail(bs))) % BaseMod[c]
  IN IF n # PointBytesLen(c) THEN {}
     ELSE IF c \notin Weierstrass
     THEN {k \in DOMAIN Coord[c] : /\ Coord[c][k][2] = y
                                   /\ Coord[c][k][1] % 2 = sign \/ Coord[c][k][1] = 0}
     ELSE IF bs[1] = 0 THEN {0}
     ELSE {k \in DOMAIN Coord[c] : Coord[c][k][1] = x /\ 2 + (Coord[c][k][2] % 2) = bs[1]}

HasBytes(t) == t \in PrimeFields \cup Points

ToBytes(v) ==
  BytesV(IF IsPoint(v.ty) THEN PointToBytes(v.ty[2], v.val) ELSE LeBytes(v.val, FrBytes))

\* The coordinates of a point as values of the curve's base field.
Coordinates(c, k) == <<V(Base(c), Coord[c][k][1]), V(Base(c), Coord[c][k][2])>>
PointAt(c, x, y) == {k \in DOMAIN Coord[c] : Coord[c][k] = <<x.val, y.val>>}
==============================================================================
