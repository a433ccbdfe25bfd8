------------------------------ MODULE Twin_proofs ------------------------------
(***************************************************************************)
(* The two halves of each instruction agree: what the arm of `preprocess`  *)
(* (OffGate) computes of typed operands, the arm of `circuit` has a shape  *)
(* for, constrains satisfiably and gives its cells (Shape, Holds, Cells).  *)
(* One lemma per instruction or group of like instructions, from facts of  *)
(* uniqueness (an inverse, a point, a decoding, a power of two, digits);   *)
(* the byte hashes take a section of their own, in which the parser of     *)
(* preprocess and the limbs of the circuit meet over the segments of the   *)
(* alignment.                                                              *)
(*                                                                         *)
(* Then the round trip of the codec, every value being the one decoding of *)
(* its encoding, and the converse: where the circuit has a shape and its   *)
(* constraints hold, preprocess computes, unless one of the checks that    *)
(* the circuit leaves out fails (Strict).                                  *)
(***************************************************************************)
EXTENDS Gates_proofs

------------------------------------------------------------------------------
(* Uniqueness.                                                               *)

\* An element has one inverse at most.
LEMMA InverseUnique ==
  ASSUME NEW m \in Nat, m > 0, NEW x \in Nat, NEW y \in 0..m - 1, NEW z \in 0..m - 1,
         (y * x) % m = 1, (z * x) % m = 1
  PROVE  y = z
<1>1. y * x \in Nat /\ z * x \in Nat
  OBVIOUS
<1>2. PICK a \in Nat : a = (y * x) \div m
  BY <1>1, DivNat
<1>3. PICK b \in Nat : b = (z * x) \div m
  BY <1>1, DivNat
<1>4. y * x = m * a + 1 /\ z * x = m * b + 1
  <2>1. (y * x) % m = y * x - m * a /\ (z * x) % m = z * x - m * b
    BY <1>1, <1>2, <1>3, ModIs
  <2>2. m * a \in Nat /\ m * b \in Nat
    OBVIOUS
  <2> QED
    BY <1>1, <2>1, <2>2
<1>5. z * (y * x) = y * (z * x)
  OBVIOUS
<1>6. z * (m * a + 1) = y * (m * b + 1)
  BY <1>4, <1>5
<1>7. PICK q \in Int : q = z * a - y * b
  OBVIOUS
<1>8. m * q = m * (z * a) - m * (y * b)
  BY <1>7
<1>9. z * (m * a + 1) = m * (z * a) + z /\ y * (m * b + 1) = m * (y * b) + y
  OBVIOUS
<1>10. m * q = y - z
  BY <1>6, <1>8, <1>9
<1>11. q = 0
  <2>1. CASE q >= 1
    <3>1. m * q >= m
      BY <2>1
    <3> QED
      BY <1>10, <3>1
  <2>2. CASE q <= -1
    <3>1. m * q <= -m
      BY <2>2
    <3> QED
      BY <1>10, <3>1
  <2> QED
    BY <2>1, <2>2
<1> QED
  BY <1>10, <1>11

\* A point is determined by its coordinates, and by its compressed form.
LEMMA CoordUnique ==
  ASSUME NEW c \in Curves, NEW j \in DOMAIN Coord[c], NEW k \in DOMAIN Coord[c]
  PROVE  /\ Coord[c][j] = Coord[c][k] => j = k
         /\ c \in Weierstrass /\ Coord[c][j][1] = Coord[c][k][1]
              /\ Coord[c][j][2] % 2 = Coord[c][k][2] % 2 => j = k
         /\ c \notin Weierstrass /\ Coord[c][j][2] = Coord[c][k][2]
              /\ (Coord[c][j][1] % 2 = Coord[c][k][1] % 2 \/ Coord[c][j][1] = 0) => j = k
BY CompressionAssumption

LEMMA PointAtUnique ==
  ASSUME NEW c \in Curves, NEW x, NEW y, NEW j \in PointAt(c, x, y), NEW k \in PointAt(c, x, y)
  PROVE  j = k
<1>1. j \in DOMAIN Coord[c] /\ k \in DOMAIN Coord[c] /\ Coord[c][j] = Coord[c][k]
  BY DEF PointAt
<1> QED
  BY <1>1, CoordUnique

LEMMA RawPointUnique ==
  ASSUME NEW c \in Curves, NEW enc, NEW j \in PointFromRaw(c, enc), NEW k \in PointFromRaw(c, enc)
  PROVE  j = k
<1>1. \/ j = 0 /\ k = 0
      \/ j \in DOMAIN Coord[c] /\ k \in DOMAIN Coord[c] /\ Coord[c][j] = Coord[c][k]
  BY DEF PointFromRaw
<1> QED
  BY <1>1, CoordUnique

LEMMA BytesPointUnique ==
  ASSUME NEW c \in Curves, NEW bs, NEW j \in PointFromBytes(c, bs), NEW k \in PointFromBytes(c, bs)
  PROVE  j = k /\ Len(bs) = PointBytesLen(c)
<1>1. PICK sign, y, x :
        /\ sign = bs[Len(bs)] \div TopBit
        /\ y = LeInt([bs EXCEPT ![Len(bs)] = @ % TopBit]) % BaseMod[c]
        /\ x = LeInt(Reverse(Tail(bs))) % BaseMod[c]
  OBVIOUS
<1>2. PointFromBytes(c, bs) =
        IF Len(bs) # PointBytesLen(c) THEN {}
        ELSE IF c \notin Weierstrass
        THEN {i \in DOMAIN Coord[c] : /\ Coord[c][i][2] = y
                                      /\ Coord[c][i][1] % 2 = sign \/ Coord[c][i][1] = 0}
        ELSE IF bs[1] = 0 THEN {0}
        ELSE {i \in DOMAIN Coord[c] : Coord[c][i][1] = x /\ 2 + (Coord[c][i][2] % 2) = bs[1]}
  BY <1>1 DEF PointFromBytes
<1>3. Len(bs) = PointBytesLen(c)
  BY <1>2
<1>4. CASE c \notin Weierstrass
  <2>1. /\ j \in DOMAIN Coord[c] /\ Coord[c][j][2] = y
        /\ Coord[c][j][1] % 2 = sign \/ Coord[c][j][1] = 0
        /\ k \in DOMAIN Coord[c] /\ Coord[c][k][2] = y
        /\ Coord[c][k][1] % 2 = sign \/ Coord[c][k][1] = 0
    BY <1>2, <1>3, <1>4
  <2> QED
    BY <1>3, <1>4, <2>1, CoordUnique
<1>5. CASE c \in Weierstrass /\ bs[1] = 0
  BY <1>2, <1>3, <1>5
<1>6. CASE c \in Weierstrass /\ bs[1] # 0
  <2>1. /\ j \in DOMAIN Coord[c] /\ Coord[c][j][1] = x /\ 2 + (Coord[c][j][2] % 2) = bs[1]
        /\ k \in DOMAIN Coord[c] /\ Coord[c][k][1] = x /\ 2 + (Coord[c][k][2] % 2) = bs[1]
    BY <1>2, <1>3, <1>6
  <2>2. Coord[c][j][2] \in Nat /\ Coord[c][k][2] \in Nat
    <3>1. BaseMod[c] \in Nat \ {0}
      BY Constants
    <3> QED
      BY <2>1, <3>1, CoordTyped
  <2>3. Coord[c][j][2] % 2 = Coord[c][k][2] % 2
    BY <2>1, <2>2
  <2> QED
    BY <1>3, <1>6, <2>1, <2>3, CoordUnique
<1> QED
  BY <1>4, <1>5, <1>6

------------------------------------------------------------------------------
(* What an arm of `preprocess` accepts, the arm of `circuit` has a shape and *)
(* a satisfied constraint for, and the same values.                          *)

LEMMA ArithmeticTwin ==
  ASSUME NEW a, NEW T, T[1] = a[1].ty, T[2] = a[2].ty, NEW vals
  PROVE  /\ vals \in AddOff(a) => vals = <<AddCell(a)>> /\ AddShape(T) # {}
         /\ vals \in MulOff(a) => vals = <<MulCell(a)>> /\ MulShape(T) # {}
BY DEF AddOff, MulOff, AddCell, MulCell, AddShape, MulShape, AddTypes, Some

LEMMA InvTwin ==
  ASSUME NEW a, Typed(a[1]), NEW vals \in InvOff(a)
  PROVE  a[1].ty \in PrimeFields /\ a[1].val # 0 /\ vals = <<InvCell(a)>>
<1>1. PICK x \in Inverses(a[1]) : a[1].ty \in PrimeFields /\ vals = <<V(a[1].ty, x)>>
  BY DEF InvOff
<1>2. a[1].ty \in IrType \ BytesTypes
  BY <1>1, Members
<1>3. PICK m : m = Order(a[1].ty)
  OBVIOUS
<1>4. m \in Nat /\ m > 0 /\ a[1].val \in Nat
  BY <1>2, <1>3, OrderIsNat, ValueRange
<1>5. \A z \in Inverses(a[1]) : z \in 0..m - 1 /\ (z * a[1].val) % m = 1
  BY <1>3 DEF Inverses
<1>6. \A z \in Inverses(a[1]) : z = x
  BY <1>1, <1>4, <1>5, InverseUnique
<1>7. a[1].val # 0
  <2>1. (x * a[1].val) % m = 1 /\ x \in Nat
    BY <1>1, <1>4, <1>5
  <2>2. ASSUME a[1].val = 0 PROVE FALSE
    <3>1. x * a[1].val = 0
      BY <2>1, <2>2
    <3>2. 0 % m = 0
      BY <1>4
    <3> QED
      BY <2>1, <3>1, <3>2
  <2> QED
    BY <2>2
<1>8. (CHOOSE z \in Inverses(a[1]) : TRUE) = x
  BY <1>1, <1>6
<1> QED
  BY <1>1, <1>7, <1>8 DEF InvCell

LEMMA OneOperandTwin ==
  ASSUME NEW a, NEW T, Typed(a[1]), T[1] = a[1].ty, NEW vals
  PROVE  /\ vals \in NegOff(a) => vals = <<NegCell(a)>> /\ NegShape(T) # {}
         /\ vals \in InvOff(a) =>
              vals = <<InvCell(a)>> /\ a[1].val # 0 /\ InvShape(T) # {}
         /\ vals \in NotOff(a) =>
              vals = <<Fr(1 - a[1].val)>> /\ BitHolds(a[1]) /\ NotShape(T) # {}
         /\ vals \in JubjubScalarFromNativeOff(a) =>
              vals = <<JubjubScalarCell(a)>> /\ JubjubScalarShape(T) # {}
<1>1. vals \in NegOff(a) => vals = <<NegCell(a)>> /\ NegShape(T) # {}
  <2>1. vals \in NegOff(a) => vals = <<NegCell(a)>> /\ a[1].ty \in PrimeFields \cup Points \cup {Bool}
    BY NegOffIs
  <2> QED
    BY <2>1 DEF NegShape, Some
<1>2. vals \in InvOff(a) => vals = <<InvCell(a)>> /\ a[1].val # 0 /\ InvShape(T) # {}
  BY InvTwin DEF InvShape, Some
<1>3. vals \in NotOff(a) => vals = <<Fr(1 - a[1].val)>> /\ BitHolds(a[1]) /\ NotShape(T) # {}
  BY DEF NotOff, IsBit, IsFr, BitHolds, NotShape, Some
<1>4. vals \in JubjubScalarFromNativeOff(a) =>
        vals = <<JubjubScalarCell(a)>> /\ JubjubScalarShape(T) # {}
  BY DEF JubjubScalarFromNativeOff, JubjubScalarCell, JubjubScalarShape, Some, IsFr
<1> QED
  BY <1>1, <1>2, <1>3, <1>4

LEMMA BitListTwin ==
  ASSUME NEW ins, NEW n \in Nat, NEW a, a = [i \in 1..n |-> a[i]],
         NEW T, DOMAIN T = 1..n, \A i \in 1..n : T[i] = a[i].ty,
         NEW vals, \/ ins.op = "And" /\ vals \in AndOff(a)
                   \/ ins.op = "Or" /\ vals \in OrOff(a)
                   \/ ins.op = "Xor" /\ vals \in XorOff(a)
  PROVE  vals = <<BitListCell(ins, a)>> /\ BitListShape(T) # {}
<1>1. BoolList(a) /\ vals = <<BitListCell(ins, a)>>
  BY DEF AndOff, OrOff, XorOff, BitListCell, AllSet, Some
<1>2. T # <<>> /\ AllOf(T, Bool)
  <2>1. n # 0
    <3>1. ASSUME n = 0 PROVE FALSE
      <4>1. a = <<>>
        BY <3>1
      <4> QED
        BY <1>1, <4>1 DEF BoolList
    <3> QED
      BY <3>1
  <2>2. 1 \in DOMAIN T
    BY <2>1
  <2> QED
    BY <1>1, <2>2 DEF BoolList, AllBool, AllOf
<1> QED
  BY <1>1, <1>2 DEF BitListShape, Some

LEMMA CheckTwin ==
  ASSUME NEW ins, NEW a, NEW T, T[1] = a[1].ty, NEW vals
  PROVE  /\ T[2] = a[2].ty /\ vals \in ConstrainEqOff(a) =>
              vals = <<>> /\ a[1] = a[2] /\ ConstrainEqShape(T) # {}
         /\ vals \in AssertOff(a) =>
              vals = <<>> /\ a[1].val = 1 /\ AssertHolds(a) /\ CheckShape(T) # {}
         /\ vals \in ConstrainToBooleanOff(a) =>
              vals = <<>> /\ BitHolds(a[1]) /\ CheckShape(T) # {}
         /\ vals \in ConstrainBitsOff(ins, a) =>
              /\ vals = <<>> /\ ConstrainBitsHolds(ins, a) /\ CheckShape(T) # {}
              /\ ins.n[1] < FR_BITS /\ a[1].val < 2^ins.n[1]
<1>1. T[2] = a[2].ty /\ vals \in ConstrainEqOff(a) =>
        vals = <<>> /\ a[1] = a[2] /\ ConstrainEqShape(T) # {}
  BY DEF ConstrainEqOff, ConstrainEqShape, Some, Nothing
<1>2. vals \in AssertOff(a) => vals = <<>> /\ a[1].val = 1 /\ AssertHolds(a) /\ CheckShape(T) # {}
  BY DEF AssertOff, AssertHolds, CheckShape, Some, Nothing, IsFr
<1>3. vals \in ConstrainToBooleanOff(a) => vals = <<>> /\ BitHolds(a[1]) /\ CheckShape(T) # {}
  BY DEF ConstrainToBooleanOff, IsBit, BitHolds, CheckShape, Some, Nothing, IsFr
<1>4. vals \in ConstrainBitsOff(ins, a) =>
        /\ vals = <<>> /\ ConstrainBitsHolds(ins, a) /\ CheckShape(T) # {}
        /\ ins.n[1] < FR_BITS /\ a[1].val < 2^ins.n[1]
  BY DEF ConstrainBitsOff, FitsBits, ConstrainBitsHolds, CheckShape, Some, Nothing, IsFr
<1> QED
  BY <1>1, <1>2, <1>3, <1>4

\* Values of one type are equal if their payloads are; payloads of bytes are
\* if every byte is.
LEMMA EqualIs ==
  ASSUME NEW a, Typed(a[1]), Typed(a[2]), a[1].ty = a[2].ty
  PROVE  EqualCell(a) = Fr(ToBit(a[1] = a[2]))
<1>1. CASE a[1].ty \in BytesTypes
  <2>1. IsBytes(a[1])
    BY <1>1, IsBytesTyped
  <2>2. PICK n : n = a[1].ty[2]
    OBVIOUS
  <2>3. /\ a[1].val \in [1..n -> Octets] /\ a[1] = V(a[1].ty, a[1].val)
        /\ a[2].val \in [1..n -> Octets] /\ a[2] = V(a[1].ty, a[2].val)
    BY <1>1, <2>2, BytesRange
  <2>4. (\A i \in DOMAIN a[1].val : a[1].val[i] = a[2].val[i]) <=> a[1].val = a[2].val
    BY <2>3
  <2>5. a[1].val = a[2].val <=> a[1] = a[2]
    BY <2>3 DEF V
  <2> QED
    BY <2>1, <2>4, <2>5 DEF EqualCell, ToBit
<1>2. CASE a[1].ty \notin BytesTypes
  <2>1. ~IsBytes(a[1])
    BY <1>2, IsBytesTyped
  <2>2. a[1] = V(a[1].ty, a[1].val) /\ a[2] = V(a[1].ty, a[2].val)
    BY <1>2, ValueRange
  <2>3. a[1].val = a[2].val <=> a[1] = a[2]
    BY <2>2 DEF V
  <2> QED
    BY <2>1, <2>3 DEF EqualCell, ToBit
<1> QED
  BY <1>1, <1>2

\* What TestEq takes beyond the circuit.
OtherLengths(T) == T[1] # T[2] /\ {T[1], T[2]} \subseteq BytesTypes

LEMMA TestEqTwin ==
  ASSUME NEW a, NEW T, Typed(a[1]), Typed(a[2]), T[1] = a[1].ty, T[2] = a[2].ty,
         NEW vals \in TestEqOff(a)
  PROVE  /\ TestEqShape(T) # {} => vals = <<EqualCell(a)>>
         /\ TestEqShape(T) # {} \/ OtherLengths(T)
<1>1. vals = <<Fr(ToBit(a[1] = a[2]))>> /\ (a[1].ty = a[2].ty \/ (IsBytes(a[1]) /\ IsBytes(a[2])))
  BY DEF TestEqOff, Some
<1>2. TestEqShape(T) # {} <=> a[1].ty = a[2].ty
  BY DEF TestEqShape, Some
<1>3. a[1].ty = a[2].ty => vals = <<EqualCell(a)>>
  BY <1>1, EqualIs
<1>4. a[1].ty # a[2].ty => OtherLengths(T)
  BY <1>1, IsBytesTyped DEF OtherLengths
<1> QED
  BY <1>2, <1>3, <1>4

\* A power of two is no less than a smaller one.
LEMMA TwosGrow ==
  ASSUME NEW m \in 0..FR_BITS, NEW n \in m..FR_BITS
  PROVE  2^m \in Nat /\ 2^n \in Nat /\ 2^m <= 2^n
<1>1. FR_BITS \in Nat /\ m \in Nat /\ n \in Nat
  BY Constants
<1> DEFINE S == {k \in Nat : m + k \in 0..FR_BITS => 2^m <= 2^(m + k)}
<1>2. 0 \in S
  <2>1. 2^m \in Nat
    BY PowerAssumption
  <2> QED
    BY <1>1, <2>1
<1>3. ASSUME NEW k \in S
      PROVE  k + 1 \in S
  <2> SUFFICES ASSUME m + (k + 1) \in 0..FR_BITS
               PROVE  2^m <= 2^(m + (k + 1))
    OBVIOUS
  <2>1. PICK j \in Nat : j = m + k /\ j \in 0..FR_BITS /\ m + (k + 1) = j + 1
    BY <1>1
  <2>2. j + 1 \in 1..FR_BITS /\ (j + 1) - 1 = j
    BY <2>1
  <2>3. 2^(j + 1) = 2 * 2^j /\ 2^j \in Nat /\ 2^m \in Nat
    BY <2>1, <2>2, PowerAssumption
  <2>4. 2^m <= 2^j
    BY <2>1
  <2> QED
    BY <2>1, <2>3, <2>4
<1> HIDE DEF S
<1>4. S \in SUBSET Nat
  BY DEF S
<1>5. S = Nat
  BY <1>2, <1>3, <1>4, InductionOnSet
<1>6. PICK k \in Nat : m + k = n
  BY <1>1
<1>7. m + k \in 0..FR_BITS => 2^m <= 2^(m + k)
  BY <1>5 DEF S
<1>8. 2^m \in Nat /\ 2^n \in Nat /\ n \in 0..FR_BITS
  BY <1>1, PowerAssumption
<1> QED
  BY <1>6, <1>7, <1>8

LEMMA LessThanTwin ==
  ASSUME NEW ins, ins.n[1] \in Nat, NEW a, Typed(a[1]), Typed(a[2]),
         NEW T, DOMAIN T = 1..2, T[1] = a[1].ty, T[2] = a[2].ty, NEW vals \in LessThanOff(ins, a)
  PROVE  /\ vals = <<LessThanCell(a)>> /\ LessThanHolds(ins, a) /\ LessThanShape(T) # {}
         /\ ins.n[1] < FR_BITS /\ a[1].val < 2^ins.n[1] /\ a[2].val < 2^ins.n[1]
<1>1. PICK n \in Nat : n = ins.n[1]
  OBVIOUS
<1>2. /\ vals = <<LessThanCell(a)>> /\ a[1].ty = Native /\ a[2].ty = Native
      /\ n < FR_BITS /\ a[1].val < 2^n /\ a[2].val < 2^n
  BY <1>1 DEF LessThanOff, LessThanCell, FitsBits, IsFr, Some
<1>3. LessThanShape(T) # {}
  <2>1. \A i \in 1..2 : i = 1 \/ i = 2
    OBVIOUS
  <2>2. AllOf(T, Native)
    BY <1>2, <2>1 DEF AllOf
  <2> QED
    BY <2>2 DEF LessThanShape, Some
<1>4. FR_BITS \in Nat /\ MinRange \in 0..FR_BITS
  BY Constants, RangeAssumption
<1>5. PICK e : e = EvenBound(n)
  OBVIOUS
<1>6. e \in n..FR_BITS
  <2>1. n % 2 \in 0..1
    BY ModRange
  <2> QED
    BY <1>2, <1>4, <1>5, <2>1 DEF EvenBound
<1>7. 2^n \in Nat /\ 2^e \in Nat /\ 2^n <= 2^e
  BY <1>2, <1>4, <1>6, TwosGrow
<1>8. a[1].val \in Nat /\ a[2].val \in Nat
  BY <1>2, FrRange
<1>9. a[1].val < 2^e /\ a[2].val < 2^e
  BY <1>2, <1>7, <1>8
<1>10. LessThanHolds(ins, a)
  BY <1>1, <1>5, <1>9 DEF LessThanHolds
<1> QED
  BY <1>1, <1>2, <1>3, <1>10

\* What CondSelect takes beyond the circuit.
BytesToSelect(T) == T[2] \in BytesTypes

LEMMA SelectTwin ==
  ASSUME NEW a, Typed(a[2]), NEW T, T[1] = a[1].ty, T[2] = a[2].ty, T[3] = a[3].ty,
         NEW vals \in CondSelectOff(a)
  PROVE  /\ vals = <<SelectCell(a)>> /\ BitHolds(a[1])
         /\ CondSelectShape(T) # {} \/ BytesToSelect(T)
<1>1. /\ vals = <<SelectCell(a)>> /\ a[1].ty = Native /\ a[1].val \in {0, 1}
      /\ a[2].ty = a[3].ty
  BY DEF CondSelectOff, SelectCell, IsBit, IsFr, Some
<1>2. IsBytesType(a[2].ty) <=> a[2].ty \in BytesTypes
  BY BytesTypeIs DEF Typed
<1> QED
  BY <1>1, <1>2 DEF BitHolds, CondSelectShape, BytesToSelect, Some

LEMMA SplitBitsFew == SplitBits \in Nat /\ SplitBits < FR_BITS
<1>1. ByteBits \in Nat /\ ChunkLen \in Nat /\ ByteBits * ChunkLen < FR_BITS
  BY FieldAssumption
<1>2. ChunkLen * ByteBits = ByteBits * ChunkLen /\ ByteBits * ChunkLen \in Nat
  BY <1>1
<1> QED
  BY <1>1, <1>2 DEF SplitBits

LEMMA SplitTwin ==
  ASSUME NEW ins, ins.n[1] \in Nat, NEW a, NEW T, T[1] = a[1].ty,
         NEW vals \in DivModPowerOfTwoOff(ins, a)
  PROVE  vals = DivModCells(ins, a) /\ DivModShape(ins, T) # {} /\ ins.n[1] <= SplitBits
<1>1. /\ Len(ins.outs) = 2 /\ ins.n[1] <= SplitBits /\ a[1].ty = Native
      /\ vals = DivModCells(ins, a)
  BY DEF DivModPowerOfTwoOff, DivModCells, IsFr, Some
<1>2. ins.n[1] <= FR_BITS
  <2>1. FR_BITS \in Nat
    BY Constants
  <2> QED
    BY <1>1, <2>1, SplitBitsFew
<1> QED
  BY <1>1, <1>2 DEF DivModShape, Some

\* The digits of a number of two.
LEMMA TwoDigits ==
  ASSUME NEW m \in Nat, NEW q \in Nat, NEW r \in Nat, r < m
  PROVE  (m * q + r) % m = r /\ (m * q + r) \div m = q
<1>1. PICK x \in Nat : x = m * q + r
  OBVIOUS
<1>2. PICK d \in Nat : d = x \div m
  BY DivNat
<1>3. x % m = x - m * d /\ x % m \in 0..m - 1
  BY <1>2, ModIs, ModRange
<1>4. m * d \in Nat /\ m * q \in Nat
  BY <1>2
<1>5. m * q + r - m * d \in 0..m - 1
  BY <1>1, <1>3
<1>6. d = q
  <2>1. CASE d >= q + 1
    <3>1. m * d >= m * (q + 1)
      BY <2>1, <1>2, TimesMonotone
    <3>2. m * (q + 1) = m * q + m
      OBVIOUS
    <3> QED
      BY <1>4, <1>5, <3>1, <3>2
  <2>2. CASE q >= d + 1
    <3>1. m * q >= m * (d + 1)
      BY <2>2, <1>2, TimesMonotone
    <3>2. m * (d + 1) = m * d + m
      BY <1>2
    <3> QED
      BY <1>4, <1>5, <3>1, <3>2
  <2> QED
    BY <1>2, <2>1, <2>2
<1> QED
  BY <1>1, <1>2, <1>3, <1>4, <1>6

LEMMA JoinTwin ==
  ASSUME NEW ins, ins.n[1] \in Nat, NEW a, Typed(a[1]), Typed(a[2]),
         NEW T, DOMAIN T = 1..2, T[1] = a[1].ty, T[2] = a[2].ty,
         NEW vals \in ReconstituteFieldOff(ins, a)
  PROVE  /\ vals = <<Fr(ReconstituteResult(ins, a))>> /\ ReconstituteHolds(ins, a)
         /\ ReconstituteShape(ins, T) # {} /\ ins.n[1] <= SplitBits
<1>1. /\ ins.n[1] <= SplitBits /\ a[1].ty = Native /\ a[2].ty = Native
      /\ a[2].val < 2^ins.n[1] /\ 2^ins.n[1] * a[1].val + a[2].val <= P - 1
      /\ vals = <<Fr(ReconstituteResult(ins, a))>>
  BY DEF ReconstituteFieldOff, ReconstituteResult, FitsBits, IsFr, Some
<1>2. ins.n[1] <= FR_BITS
  <2>1. FR_BITS \in Nat
    BY Constants
  <2> QED
    BY <1>1, <2>1, SplitBitsFew
<1>3. PICK m \in Nat : m = 2^ins.n[1]
  BY <1>2, SplitPower
<1>4. PICK q \in Nat : q = a[1].val
  BY <1>1, FrRange
<1>5. PICK r \in Nat : r = a[2].val
  BY <1>1, FrRange
<1>6. r < m /\ m * q + r <= P - 1 /\ m * q + r \in Nat /\ P \in Nat
  BY <1>1, <1>3, <1>4, <1>5, Constants
<1>7. (m * q + r) % P = m * q + r
  BY <1>6
<1>8. ReconstituteResult(ins, a) = m * q + r
  BY <1>3, <1>4, <1>5, <1>7 DEF ReconstituteResult
<1>9. ReconstituteHolds(ins, a)
  <2>1. (m * q + r) % m = r /\ (m * q + r) \div m = q
    BY <1>6, TwoDigits
  <2> QED
    BY <1>3, <1>4, <1>5, <1>8, <2>1 DEF ReconstituteHolds
<1>10. ReconstituteShape(ins, T) # {}
  <2>1. \A i \in 1..2 : i = 1 \/ i = 2
    OBVIOUS
  <2>2. AllOf(T, Native)
    BY <1>1, <2>1 DEF AllOf
  <2> QED
    BY <1>2, <2>2 DEF ReconstituteShape, Some
<1> QED
  BY <1>1, <1>9, <1>10

LEMMA FromNativesTwin ==
  ASSUME NEW n \in Nat, NEW a, DOMAIN a = 1..n,
         NEW T, DOMAIN T = 1..n, \A i \in 1..n : T[i] = a[i].ty, NEW vals
  PROVE  /\ vals \in TransientHashOff(a) =>
              vals = <<Fr(Poseidon(Payloads(a)))>> /\ TransientHashShape(T) # {}
         /\ vals \in HashToCurveOff(a) =>
              vals = <<V(Point("Jubjub"), HashToPoint(Payloads(a)))>> /\ HashToCurveShape(T) # {}
<1>1. AllFr(a) => AllOf(T, Native)
  BY DEF AllFr, IsFr, AllOf
<1> QED
  BY <1>1 DEF TransientHashOff, HashToCurveOff, TransientHashShape, HashToCurveShape, Some

LEMMA GroupTwin ==
  ASSUME NEW a, Typed(a[1]), NEW T, T[1] = a[1].ty, NEW vals
  PROVE  /\ vals \in EcMulGeneratorOff(a) =>
              vals = <<V(Point(a[1].ty[2]), a[1].val)>> /\ EcMulGeneratorShape(T) # {}
         /\ T = <<a[1].ty, a[2].ty>> /\ vals \in EcMulOff(a) =>
              /\ vals = <<V(a[1].ty, (a[1].val * a[2].val) % Order(a[1].ty))>>
              /\ EcMulShape(T) # {}
<1>1. ASSUME vals \in EcMulGeneratorOff(a)
      PROVE  vals = <<V(Point(a[1].ty[2]), a[1].val)>> /\ EcMulGeneratorShape(T) # {}
  <2>1. PICK c \in Curves : a[1].ty = Scalar(c) /\ vals = <<V(Point(c), a[1].val)>>
    BY <1>1 DEF EcMulGeneratorOff, Some
  <2>2. a[1].ty[2] = c
    BY <2>1, Tags
  <2>3. <<Point(c)>> \in EcMulGeneratorShape(T)
    BY <2>1 DEF EcMulGeneratorShape, Some
  <2> QED
    BY <2>1, <2>2, <2>3
<1>2. ASSUME T = <<a[1].ty, a[2].ty>>, vals \in EcMulOff(a)
      PROVE  /\ vals = <<V(a[1].ty, (a[1].val * a[2].val) % Order(a[1].ty))>>
             /\ EcMulShape(T) # {}
  <2>1. PICK c \in Curves : /\ a[1].ty = Point(c) /\ a[2].ty = Scalar(c)
                            /\ vals = <<V(Point(c), (a[1].val * a[2].val) % ScalarMod[c])>>
    BY <1>2 DEF EcMulOff, Some
  <2>2. Order(a[1].ty) = ScalarMod[c]
    BY <2>1, Orders
  <2>3. T = <<Point(c), Scalar(c)>>
    BY <1>2, <2>1
  <2>4. <<Point(c)>> \in EcMulShape(T)
    BY <2>3 DEF EcMulShape, Some
  <2> QED
    BY <2>1, <2>2, <2>4
<1> QED
  BY <1>1, <1>2

LEMMA IntoCoordinatesTwin ==
  ASSUME NEW a, NEW T, T[1] = a[1].ty, NEW vals \in IntoCoordinatesOff(a)
  PROVE  /\ vals = Coordinates(a[1].ty[2], a[1].val) /\ IntoCoordinatesHolds(a)
         /\ IntoCoordinatesShape(T) # {}
<1>1. PICK c \in Curves : /\ a[1].ty = Point(c) /\ ~(c \in Weierstrass /\ a[1].val = 0)
                          /\ vals = Coordinates(c, a[1].val)
  BY DEF IntoCoordinatesOff, Some
<1>2. a[1].ty[2] = c
  BY <1>1, Tags
<1>3. <<Base(c), Base(c)>> \in IntoCoordinatesShape(T)
  BY <1>1 DEF IntoCoordinatesShape, Some
<1> QED
  BY <1>1, <1>2, <1>3 DEF IntoCoordinatesHolds

LEMMA FromCoordinatesTwin ==
  ASSUME NEW a, NEW T, T = <<a[1].ty, a[2].ty>>, NEW vals \in FromCoordinatesOff(a)
  PROVE  /\ vals = <<FromCoordinatesCell(a)>> /\ FromCoordinatesHolds(a)
         /\ FromCoordinatesShape(T) # {}
<1>1. PICK c \in Curves : /\ a[1].ty = Base(c) /\ a[2].ty = Base(c)
                          /\ \E k \in PointAt(c, a[1], a[2]) : vals = <<V(Point(c), k)>>
  BY DEF FromCoordinatesOff
<1>2. PICK k \in PointAt(c, a[1], a[2]) : vals = <<V(Point(c), k)>>
  BY <1>1
<1>3. CurveWithBase(a[1].ty) = c
  BY <1>1, CurveWithBaseIs
<1>4. \A j \in PointAt(c, a[1], a[2]) : j = k
  BY <1>2, PointAtUnique
<1>5. (CHOOSE j \in PointAt(c, a[1], a[2]) : TRUE) = k
  BY <1>2, <1>4
<1>6. FromCoordinatesCell(a) = V(Point(c), k)
  BY <1>3, <1>5 DEF FromCoordinatesCell
<1>7. FromCoordinatesHolds(a)
  BY <1>2, <1>3 DEF FromCoordinatesHolds
<1>8. T = <<Base(c), Base(c)>>
  BY <1>1
<1>9. <<Point(c)>> \in FromCoordinatesShape(T)
  BY <1>8 DEF FromCoordinatesShape, Some
<1> QED
  BY <1>2, <1>6, <1>7, <1>9

LEMMA ToBytesTwin ==
  ASSUME NEW a, Typed(a[1]), NEW T, T[1] = a[1].ty, NEW vals
  PROVE  /\ vals \in ToBytesOff(a) => vals = <<ToBytes(a[1])>> /\ ToBytesShape(T) # {}
         /\ vals \in IntoBytes32Off(a) => vals = <<ToBytes(a[1])>> /\ IntoBytes32Shape(T) # {}
<1>1. ASSUME vals \in ToBytesOff(a)
      PROVE  vals = <<ToBytes(a[1])>> /\ ToBytesShape(T) # {}
  BY <1>1, ToBytesOffIs DEF ToBytesShape, Some
<1>2. ASSUME vals \in IntoBytes32Off(a)
      PROVE  vals = <<ToBytes(a[1])>> /\ IntoBytes32Shape(T) # {}
  <2>1. HasBytes(a[1].ty) /\ vals = <<ToBytes(a[1])>> /\ ToBytes(a[1]).ty = Bytes(FrBytes)
    BY <1>2, IntoBytes32OffIs
  <2>2. BytesOf(a[1].ty) = Bytes(FrBytes)
    BY <2>1, ToBytesTyped
  <2>3. <<Bytes(FrBytes)>> \in ToBytesShape(T)
    BY <2>1, <2>2 DEF ToBytesShape, Some
  <2>4. <<Bytes(FrBytes)>> \in IntoBytes32Shape(T)
    BY <2>3 DEF IntoBytes32Shape
  <2> QED
    BY <2>1, <2>4
<1> QED
  BY <1>1, <1>2

\* A decoded point is the one that is witnessed, and its own bytes match.
LEMMA PointBytesTwin ==
  ASSUME NEW t \in IrType, IsPoint(t), t \notin PrimeFields, NEW bs, NEW v \in DecodeBytes(t, bs)
  PROVE  /\ v = V(t, WitnessPoint(t[2], bs))
         /\ PointToBytes(t[2], WitnessPoint(t[2], bs)) = bs
         /\ Len(bs) = PointBytesLen(t[2])
<1>1. t[2] \in Curves /\ t = Point(t[2])
  <2>1. PICK c \in Curves : t = Point(c)
    BY TypeKinds, Tags DEF IsPoint
  <2> QED
    BY <2>1, Tags
<1>2. v \in {w \in {V(t, k) : k \in PointFromBytes(t[2], bs)} : ToBytes(w).val = bs}
  BY DEF DecodeBytes
<1>3. PICK k \in PointFromBytes(t[2], bs) : v = V(t, k) /\ ToBytes(v).val = bs
  BY <1>2
<1>4. \A j \in PointFromBytes(t[2], bs) : j = k /\ Len(bs) = PointBytesLen(t[2])
  BY <1>1, <1>3, BytesPointUnique
<1>5. (CHOOSE j \in PointFromBytes(t[2], bs) : TRUE) = k
  BY <1>3, <1>4
<1>6. WitnessPoint(t[2], bs) = k
  BY <1>3, <1>5 DEF WitnessPoint
<1>7. ToBytes(v).val = PointToBytes(t[2], k)
  <2>1. v.ty = t /\ v.val = k
    BY <1>3 DEF V
  <2> QED
    BY <2>1 DEF ToBytes, BytesV, V
<1> QED
  BY <1>3, <1>4, <1>6, <1>7

LEMMA PrimeIsNoPoint ==
  ASSUME NEW t, t \in PrimeFields
  PROVE  ~IsPoint(t)
BY Tags DEF PrimeFields, IsPoint, Base

LEMMA FromBytesTwin ==
  ASSUME NEW ins, ins.ty \in IrType, NEW a, Typed(a[1]), NEW T, T[1] = a[1].ty, NEW vals
  PROVE  /\ vals \in FromBytesOff(ins, a) =>
              /\ vals = <<FromBytesCell(ins, a)>> /\ FromBytesHolds(ins, a)
              /\ FromBytesShape(ins, T) # {}
         /\ vals \in FromBytes32Off(ins, a) =>
              /\ vals = <<FromBytesCell(ins, a)>> /\ FromBytesHolds(ins, a)
              /\ FromBytes32Shape(ins, T) # {}
<1>1. ASSUME vals \in FromBytesOff(ins, a)
      PROVE  /\ vals = <<FromBytesCell(ins, a)>> /\ FromBytesHolds(ins, a)
             /\ FromBytesShape(ins, T) # {}
  <2>1. IsBytes(a[1]) /\ \E v \in DecodeBytes(ins.ty, a[1].val) : vals = <<v>>
    BY <1>1 DEF FromBytesOff
  <2>2. PICK v \in DecodeBytes(ins.ty, a[1].val) : vals = <<v>>
    BY <2>1
  <2>3. IsBytesType(T[1])
    BY <2>1 DEF IsBytesType, IsBytes
  <2>4. CASE ins.ty \in PrimeFields
    <3>1. ~IsPoint(ins.ty)
      BY <2>4, PrimeIsNoPoint
    <3>2. v = V(ins.ty, LeInt(a[1].val) % Order(ins.ty))
      BY <2>2, <2>4 DEF DecodeBytes
    <3>3. FromBytesShape(ins, T) # {}
      BY <2>3, <2>4 DEF FromBytesShape, Some
    <3> QED
      BY <2>2, <3>1, <3>2, <3>3 DEF FromBytesCell, FromBytesHolds
  <2>5. CASE ins.ty \notin PrimeFields
    <3>1. IsPoint(ins.ty)
      BY <2>2, <2>5 DEF DecodeBytes
    <3>2. /\ v = V(ins.ty, WitnessPoint(ins.ty[2], a[1].val))
          /\ PointToBytes(ins.ty[2], WitnessPoint(ins.ty[2], a[1].val)) = a[1].val
          /\ Len(a[1].val) = PointBytesLen(ins.ty[2])
      BY <2>2, <2>5, <3>1, PointBytesTwin
    <3>3. T[1] = Bytes(PointBytesLen(ins.ty[2]))
      <4>1. a[1].ty = Bytes(a[1].ty[2]) /\ Len(a[1].val) = a[1].ty[2]
        BY <2>1, IsBytesTyped, BytesRange
      <4> QED
        BY <3>2, <4>1
    <3>4. FromBytesShape(ins, T) # {}
      BY <2>3, <3>1, <3>3 DEF FromBytesShape, Some
    <3> QED
      BY <2>2, <3>1, <3>2, <3>4 DEF FromBytesCell, FromBytesHolds
  <2> QED
    BY <2>4, <2>5
<1>2. ASSUME vals \in FromBytes32Off(ins, a)
      PROVE  /\ vals = <<FromBytesCell(ins, a)>> /\ FromBytesHolds(ins, a)
             /\ FromBytes32Shape(ins, T) # {}
  <2>1. a[1].ty = Bytes(FrBytes) /\ vals \in FromBytesOff(ins, a)
    BY <1>2 DEF FromBytes32Off, IsBytes32
  <2> QED
    BY <1>1, <2>1 DEF FromBytes32Shape
<1> QED
  BY <1>1, <1>2

LEMMA ByteOpsTwin ==
  ASSUME NEW ins, NEW a, Typed(a[1]), NEW T, T[1] = a[1].ty, NEW vals
  PROVE  /\ vals \in ReverseOff(a) => vals = <<BytesV(Reverse(a[1].val))>> /\ ReverseShape(T) # {}
         /\ vals \in SliceOff(ins, a) =>
              /\ vals = <<BytesV(SubSeq(a[1].val, ins.n[1] + 1, ins.n[1] + ins.n[2]))>>
              /\ SliceShape(ins, T) # {}
         /\ vals \in NthOff(ins, a) =>
              vals = <<V(Byte, a[1].val[ins.n[1] + 1])>> /\ NthShape(ins, T) # {}
<1>1. IsBytes(a[1]) => IsBytesType(T[1]) /\ Len(a[1].val) = T[1][2]
  BY IsBytesTyped, BytesRange DEF IsBytes, IsBytesType
<1>2. vals \in ReverseOff(a) => vals = <<BytesV(Reverse(a[1].val))>> /\ ReverseShape(T) # {}
  BY <1>1 DEF ReverseOff, ReverseShape, Some
<1>3. vals \in SliceOff(ins, a) =>
        /\ vals = <<BytesV(SubSeq(a[1].val, ins.n[1] + 1, ins.n[1] + ins.n[2]))>>
        /\ SliceShape(ins, T) # {}
  BY <1>1 DEF SliceOff, SliceShape, Some
<1>4. vals \in NthOff(ins, a) =>
        vals = <<V(Byte, a[1].val[ins.n[1] + 1])>> /\ NthShape(ins, T) # {}
  BY <1>1 DEF NthOff, NthShape, Some
<1> QED
  BY <1>2, <1>3, <1>4

LEMMA ConcatTwin ==
  ASSUME NEW n \in Nat, NEW a, DOMAIN a = 1..n, AllTyped(a), NEW vals \in ConcatOff(a)
  PROVE  /\ vals = <<BytesV(FlattenSeq([i \in DOMAIN a |-> ByteString(a[i])]))>>
         /\ ConcatShape(TypesOf(a)) # {}
<1> DEFINE bs == FlattenSeq([i \in DOMAIN a |-> ByteString(a[i])])
           tys == TypesOf(a)
           m == Total([i \in DOMAIN tys |-> ByteCount(tys[i])])
<1>1. /\ \A i \in 1..n : a[i].ty = Byte \/ IsBytes(a[i])
      /\ Len(bs) \in 1..MAX_BYTES_LEN /\ vals = <<BytesV(bs)>>
  BY DEF ConcatOff, Some
<1>2. \A i \in 1..n : a[i].ty = Byte \/ a[i].ty \in BytesTypes
  BY <1>1, IsBytesTyped DEF AllTyped
<1>3. Len(bs) = m
  BY <1>2, ConcatIs
<1>4. \A i \in DOMAIN tys : tys[i] = Byte \/ IsBytesType(tys[i])
  <2>1. DOMAIN tys = 1..n /\ \A i \in 1..n : tys[i] = a[i].ty
    BY TypesAre
  <2> QED
    BY <1>1, <2>1 DEF IsBytes, IsBytesType
<1>5. <<Bytes(m)>> \in ConcatShape(TypesOf(a))
  BY <1>1, <1>3, <1>4 DEF ConcatShape, Some
<1> QED
  BY <1>1, <1>5

LEMMA EncodeTwin ==
  ASSUME NEW ins, NEW a, Typed(a[1]), NEW T, T[1] = a[1].ty, NEW vals
  PROVE  /\ vals \in EncodeOff(ins, a) => vals = FrSeq(Encode(a[1])) /\ EncodeShape(ins, T) # {}
         /\ vals \in BytesIntoNativesOff(ins, a) =>
              vals = FrSeq(Encode(a[1])) /\ BytesIntoNativesShape(ins, T) # {}
<1>1. Len(FrSeq(Encode(a[1]))) = encoded_len(a[1].ty)
  BY EncodesAre
<1>2. vals \in EncodeOff(ins, a) => vals = FrSeq(Encode(a[1])) /\ EncodeShape(ins, T) # {}
  BY <1>1 DEF EncodeOff, EncodeShape, Some
<1>3. vals \in BytesIntoNativesOff(ins, a) =>
        vals = FrSeq(Encode(a[1])) /\ BytesIntoNativesShape(ins, T) # {}
  BY <1>2 DEF BytesIntoNativesOff, BytesIntoNativesShape, IsBytes, IsBytesType
<1> QED
  BY <1>2, <1>3

LEMMA NativesToBytesTwin ==
  ASSUME NEW ins, NEW n \in Nat, NEW a, DOMAIN a = 1..n, AllTyped(a),
         NEW T, DOMAIN T = 1..n, Len(T) = n, \A i \in 1..n : T[i] = a[i].ty, Len(a) = n,
         NEW vals \in BytesFromNativesOff(ins, a)
  PROVE  /\ vals = <<BytesFromNativesCell(ins, a)>> /\ BytesFromNativesHolds(ins, a)
         /\ BytesFromNativesShape(ins, T) # {}
<1>1. /\ LimbsMatch(ins.n[1], n) /\ \A i \in 1..n : a[i].ty = Native
      /\ \E v \in Decode(Payloads(a), Bytes(ins.n[1])) : vals = <<v>>
  BY DEF BytesFromNativesOff, AllFr, IsFr
<1>2. PICK v \in Decode(Payloads(a), Bytes(ins.n[1])) : vals = <<v>>
  BY <1>1
<1>3. ins.n[1] \in 1..MAX_BYTES_LEN
  BY <1>1 DEF LimbsMatch
<1>4. Payloads(a) \in Seq(Immediates) /\ Len(Payloads(a)) = n
  BY <1>1, PayloadsTyped
<1>5. DOMAIN Payloads(a) = 1..n /\ \A i \in 1..n : Payloads(a)[i] = a[i].val
  BY DEF Payloads
<1>6. v \in decode_bytes(Payloads(a), ins.n[1])
  BY FromPublicInputIs DEF Decode
<1>7. Payloads(a) \in Seq(Nat)
  <2>1. Immediates \subseteq Nat
    BY Constants DEF Immediates
  <2> QED
    BY <1>4, <2>1, SeqWider
<1>8. v = BytesV(FlattenSeq([i \in DOMAIN Payloads(a) |->
                               LeBytes(Payloads(a)[i], ChunkBytes(ins.n[1], i))]))
  BY <1>3, <1>6, <1>7, DecodeBytesTyped
<1>9. [i \in DOMAIN Payloads(a) |-> LeBytes(Payloads(a)[i], ChunkBytes(ins.n[1], i))]
        = [i \in DOMAIN a |-> LeBytes(a[i].val, ChunkBytes(ins.n[1], i))]
  BY <1>5
<1>10. v = BytesFromNativesCell(ins, a)
  BY <1>8, <1>9 DEF BytesFromNativesCell
<1>11. BytesFromNativesHolds(ins, a)
  <2>1. \A i \in DOMAIN Payloads(a) : Payloads(a)[i] < ByteBase^ChunkBytes(ins.n[1], i)
    BY <1>6 DEF decode_bytes, Some
  <2> QED
    BY <1>5, <2>1 DEF BytesFromNativesHolds
<1>12. AllOf(T, Native)
  BY <1>1 DEF AllOf
<1>13. BytesFromNativesShape(ins, T) # {}
  BY <1>1, <1>12 DEF BytesFromNativesShape, Some
<1> QED
  BY <1>2, <1>10, <1>11, <1>13

LEMMA LowHighTwin ==
  ASSUME NEW a, NEW T, T[1] = a[1].ty, NEW vals \in Bytes32IntoLowHighOff(a)
  PROVE  vals = LowHighCells(a) /\ LowHighShape(T) # {}
BY DEF Bytes32IntoLowHighOff, LowHighCells, LowHighShape, IsBytes32, Some

\* A number whose bytes but the lowest are zero is that byte.
LEMMA OneByte ==
  ASSUME NEW x \in Nat, x < ByteBase^FrBytes,
         \A i \in 2..FrBytes : LeBytes(x, FrBytes)[i] = 0
  PROVE  x < ByteBase /\ LeBytes(x, FrBytes)[1] = x
<1>1. FrBytes \in Nat \ {0} /\ FrBytes \in 0..MAX_BYTES_LEN /\ ByteBase \in Nat /\ ByteBase > 3
  BY FrBytesIs, Constants
<1> DEFINE S == {k \in Nat : k < FrBytes => x < ByteBase^(FrBytes - k)}
<1>2. 0 \in S
  BY <1>1
<1>3. ASSUME NEW k \in S
      PROVE  k + 1 \in S
  <2> SUFFICES ASSUME k + 1 < FrBytes
               PROVE  x < ByteBase^(FrBytes - (k + 1))
    OBVIOUS
  <2>1. PICK j \in Nat : j = FrBytes - (k + 1) /\ FrBytes - k = j + 1 /\ j + 1 \in 2..FrBytes
    BY <1>1
  <2>2. x < ByteBase^(j + 1)
    <3>1. k \in Nat /\ (k < FrBytes => x < ByteBase^(FrBytes - k))
      BY DEF S
    <3>2. k < FrBytes
      BY <1>1, <3>1
    <3>3. x < ByteBase^(FrBytes - k)
      BY <3>1, <3>2
    <3> QED
      BY <2>1, <3>3
  <2>3. j \in 0..MAX_BYTES_LEN
    BY <1>1, <2>1, Constants
  <2>4. ByteBase^j \in Nat \ {0} /\ ByteBase^(j + 1) = ByteBase * ByteBase^j
    BY <2>3, PowerAssumption
  <2>5. PICK p \in Nat : p = ByteBase^j /\ p > 0
    BY <2>4
  <2>6. x < p * ByteBase
    BY <1>1, <2>2, <2>4, <2>5
  <2>7. x \div p < ByteBase /\ x \div p \in Nat
    BY <1>1, <2>5, <2>6, DivBelow, DivNat
  <2>8. LeBytes(x, FrBytes)[j + 1] = (x \div p) % ByteBase
    <3>1. j + 1 \in 1..FrBytes /\ (j + 1) - 1 = j
      BY <1>1, <2>1
    <3> QED
      BY <2>5, <3>1 DEF LeBytes
  <2>9. (x \div p) % ByteBase = x \div p
    <3>1. PICK q \in Nat : q = x \div p
      BY <2>7
    <3>2. PICK b \in Nat : b = ByteBase
      BY <1>1
    <3>3. q < b /\ q >= 0
      BY <2>7, <3>1, <3>2
    <3>4. q % b = q
      BY <3>3
    <3> QED
      BY <3>1, <3>2, <3>4
  <2>10. x \div p = 0
    BY <2>1, <2>8, <2>9
  <2>11. x < p
    <3>1. x % p = x - p * (x \div p) /\ x % p \in 0..p - 1
      <4> x \in Nat /\ p \in Nat /\ p > 0
        BY <2>5
      <4>1. x % p = x - p * (x \div p)
        BY ONLY x \in Nat, p \in Nat, p > 0, ModIs
      <4>2. x % p \in 0..p - 1
        BY ModRange
      <4> QED
        BY <4>1, <4>2
    <3>2. p * (x \div p) = 0
      BY <2>5, <2>10
    <3> QED
      BY <2>5, <3>1, <3>2
  <2> QED
    BY <2>1, <2>5, <2>11
<1> HIDE DEF S
<1>4. S \in SUBSET Nat
  BY DEF S
<1>5. S = Nat
  BY <1>2, <1>3, <1>4, InductionOnSet
<1>6. PICK k \in Nat : k = FrBytes - 1 /\ k < FrBytes /\ FrBytes - k = 1
  BY <1>1
<1>7. x < ByteBase^1
  BY <1>5, <1>6 DEF S
<1>8. ByteBase^1 = ByteBase
  <2>1. 0 \in 0..MAX_BYTES_LEN /\ 0 + 1 = 1
    BY Constants
  <2>2. ByteBase^(0 + 1) = ByteBase * ByteBase^0 /\ ByteBase^0 = 1
    BY <2>1, PowerAssumption
  <2>3. ByteBase^1 = ByteBase * 1
    BY <2>1, <2>2
  <2> QED
    BY <1>1, <2>3
<1>9. x < ByteBase
  BY <1>7, <1>8
<1>10. LeBytes(x, FrBytes)[1] = (x \div ByteBase^0) % ByteBase
  <2>1. 1 \in 1..FrBytes /\ 1 - 1 = 0
    BY <1>1
  <2> QED
    BY <2>1 DEF LeBytes
<1>11. x \div 1 = x /\ x % ByteBase = x
  BY <1>1, <1>9
<1>12. ByteBase^0 = 1
  BY PowerAssumption
<1> QED
  BY <1>9, <1>10, <1>11, <1>12

\* What Bytes32FromLowHigh takes beyond the circuit.
NoNativeHigh(T) == T[2] # Native

LEMMA FromLowHighTwin ==
  ASSUME NEW a, Typed(a[1]), Typed(a[2]), NEW T, T[1] = a[1].ty, T[2] = a[2].ty,
         NEW vals \in Bytes32FromLowHighOff(a)
  PROVE  /\ FromLowHighShape(T) # {} => vals = <<FromLowHighCell(a)>> /\ FromLowHighHolds(a)
         /\ FromLowHighShape(T) # {} \/ NoNativeHigh(T)
<1> DEFINE lo == ToBytes(a[1])
           hi == ToBytes(a[2])
<1>1. \E l \in IntoBytes32Off(<<a[1]>>), h \in IntoBytes32Off(<<a[2]>>) :
        /\ Last(l[1].val) = 0 /\ \A i \in 2..FrBytes : h[1].val[i] = 0
        /\ vals = <<BytesV(Append(Front(l[1].val), h[1].val[1]))>>
  BY DEF Bytes32FromLowHighOff, Some
<1>2. PICK l \in IntoBytes32Off(<<a[1]>>), h \in IntoBytes32Off(<<a[2]>>) :
        /\ Last(l[1].val) = 0 /\ \A i \in 2..FrBytes : h[1].val[i] = 0
        /\ vals = <<BytesV(Append(Front(l[1].val), h[1].val[1]))>>
  BY <1>1
<1>3. HasBytes(a[1].ty) /\ l[1] = lo /\ lo.ty = Bytes(FrBytes)
  <2>1. Typed((<<a[1]>>)[1]) /\ (<<a[1]>>)[1] = a[1]
    OBVIOUS
  <2> QED
    BY <2>1, IntoBytes32OffIs
<1>4. h[1] = hi
  <2>1. Typed((<<a[2]>>)[1]) /\ (<<a[2]>>)[1] = a[2]
    OBVIOUS
  <2> QED
    BY <2>1, IntoBytes32OffIs
<1> HIDE DEF lo, hi
<1>5. /\ Last(lo.val) = 0 /\ \A i \in 2..FrBytes : hi.val[i] = 0
      /\ vals = <<BytesV(Append(Front(lo.val), hi.val[1]))>>
  BY <1>2, <1>3, <1>4
<1>6. IntoBytes32Shape(T) # {}
  <2>1. BytesOf(a[1].ty) = Bytes(FrBytes)
    BY <1>3, ToBytesTyped DEF lo
  <2>2. <<Bytes(FrBytes)>> \in ToBytesShape(T)
    BY <1>3, <2>1 DEF ToBytesShape, Some
  <2> QED
    BY <2>2 DEF IntoBytes32Shape
<1>7. CASE a[2].ty # Native
  <2>1. FromLowHighShape(T) = {} /\ NoNativeHigh(T)
    BY <1>7 DEF FromLowHighShape, NoNativeHigh, Some
  <2> QED
    BY <2>1
<1>8. CASE a[2].ty = Native
  <2>1. FromLowHighShape(T) # {}
    BY <1>6, <1>8 DEF FromLowHighShape, Some
  <2>2. PICK x \in Nat : x = a[2].val /\ x < P
    <3>1. P \in Nat
      BY Constants
    <3> QED
      BY <1>8, <3>1, FrRange
  <2>3. hi.val = LeBytes(x, FrBytes)
    <3>1. ~IsPoint(a[2].ty)
      BY <1>8, Tags DEF IsPoint
    <3> QED
      BY <2>2, <3>1 DEF hi, ToBytes, BytesV, V
  <2>4. x < ByteBase^FrBytes
    <3>1. P <= ByteBase^FrBytes /\ P \in Nat
      BY PowerAssumption, Constants
    <3>2. ByteBase^FrBytes \in Nat
      BY PowerAssumption, FrBytesIs
    <3> QED
      BY <2>2, <3>1, <3>2
  <2>5. x < ByteBase /\ hi.val[1] = x
    BY <1>5, <2>3, <2>4, OneByte
  <2>6. vals = <<FromLowHighCell(a)>>
    BY <1>5, <2>2, <2>5 DEF FromLowHighCell, lo
  <2>7. FromLowHighHolds(a)
    BY <1>5, <2>2, <2>5 DEF FromLowHighHolds, lo
  <2> QED
    BY <2>1, <2>6, <2>7
<1> QED
  BY <1>7, <1>8

\* A constant is decoded to one value.
LEMMA DecodeUnique ==
  ASSUME NEW t \in IrType, NEW enc \in Seq(Immediates), NEW v \in Decode(enc, t), NEW w \in Decode(enc, t)
  PROVE  v = w
<1>1. v \in FromPublicInput(enc, t) /\ w \in FromPublicInput(enc, t)
  BY DEF Decode
<1>2. CASE t \in {Native, Bool, Byte}
  BY <1>1, <1>2, FromPublicInputIs
<1>3. CASE \E c \in Curves : t = Scalar(c)
  <2>1. PICK c \in Curves : t = Scalar(c)
    BY <1>3
  <2>2. c = "Jubjub" \/ c \in Foreign
    BY DEF Foreign
  <2> QED
    BY <1>1, <2>1, <2>2, FromPublicInputIs
<1>4. CASE \E c \in Foreign : t = <<"Base", c>>
  BY <1>1, <1>4, FromPublicInputIs
<1>5. CASE \E c \in Curves : t = Point(c)
  <2>1. PICK c \in Curves : t = Point(c)
    BY <1>5
  <2>2. PICK j \in PointFromRaw(c, enc) : v = V(t, j)
    BY <1>1, <2>1, FromPublicInputIs
  <2>3. PICK k \in PointFromRaw(c, enc) : w = V(t, k)
    BY <1>1, <2>1, FromPublicInputIs
  <2> QED
    BY <2>2, <2>3, RawPointUnique
<1>6. CASE \E n \in 1..MAX_BYTES_LEN : t = Bytes(n)
  <2>1. PICK n \in 1..MAX_BYTES_LEN : t = Bytes(n)
    BY <1>6
  <2>2. v \in decode_bytes(enc, n) /\ w \in decode_bytes(enc, n)
    BY <1>1, <2>1, FromPublicInputIs
  <2> QED
    BY <2>2 DEF decode_bytes, Some
<1> QED
  BY <1>2, <1>3, <1>4, <1>5, <1>6, TypeKinds

LEMMA ConstantTwin ==
  ASSUME NEW ins, ins.ty \in IrType, ins.enc \in Seq(Immediates), NEW vals \in LoadConstantOff(ins)
  PROVE  vals = <<CHOOSE v \in Decode(ins.enc, ins.ty) : TRUE>> /\ LoadConstantShape(ins) # {}
<1>1. PICK v \in Decode(ins.enc, ins.ty) : vals = <<v>>
  BY DEF LoadConstantOff
<1>2. \A w \in Decode(ins.enc, ins.ty) : w = v
  BY <1>1, DecodeUnique
<1>3. (CHOOSE w \in Decode(ins.enc, ins.ty) : TRUE) = v
  BY <1>1, <1>2
<1>4. LoadConstantShape(ins) # {}
  BY <1>1 DEF LoadConstantShape
<1> QED
  BY <1>1, <1>3, <1>4

------------------------------------------------------------------------------
(* The byte hashes: what the parser accepts, the circuit decodes to the same  *)
(* bytes.                                                                     *)

\* Each segment starts where the one before it ends.
LEMMA StartsAdd ==
  ASSUME NEW align \in Seq(Segment)
  PROVE  /\ AtomStart(align, 1) = 0
         /\ \A k \in 1..Len(align) + 1 : AtomStart(align, k) \in Nat
         /\ \A k \in 1..Len(align) : AtomStart(align, k + 1) = AtomStart(align, k) + Width(align[k])
         /\ AtomStart(align, Len(align) + 1) = AlignedWidth(align)
<1>1. PICK n \in Nat : n = Len(align) /\ DOMAIN align = 1..n
  BY LenProperties
<1> DEFINE ns == [j \in 1..n |-> Width(align[j])]
<1>2. AlignedWidth(align) = Total(ns) /\ Len(ns) = n
  BY <1>1 DEF AlignedWidth
<1>3. \A j \in 1..n : ns[j] \in Nat /\ ns[j] = Width(align[j])
  BY <1>1, ElementOfSeq, WidthNat
<1> HIDE DEF ns
<1>4. PICK f : Sums(f, ns, n) /\ Total(ns) = f[n]
  BY <1>2, TotalIs
<1>5. \A j \in 0..n : f[j] \in Nat
  BY <1>3, <1>4, SumsNat
<1>6. ASSUME NEW m \in 0..n
      PROVE  AlignedWidth(SubSeq(align, 1, m)) = f[m]
  <2> DEFINE before == SubSeq(align, 1, m)
             ms == [j \in DOMAIN before |-> Width(before[j])]
  <2>1. Len(ms) = m /\ DOMAIN ms = 1..m /\ \A j \in 1..m : ms[j] = ns[j]
    <3>1. before = [j \in 1..m |-> align[j]]
      BY <1>1
    <3>2. \A j \in 1..m : j \in 1..n
      BY <1>1
    <3> QED
      BY <1>3, <3>1, <3>2
  <2> HIDE DEF ms, before
  <2>2. PICK g : Sums(g, ms, m) /\ Total(ms) = g[m]
    BY <2>1, TotalIs
  <2> DEFINE S == {j \in Nat : j \in 0..m => g[j] = f[j]}
  <2>3. 0 \in S
    BY <1>4, <2>2, SumsStep
  <2>4. ASSUME NEW j \in Nat, j \in S
        PROVE  j + 1 \in S
    <3> SUFFICES ASSUME j + 1 \in 0..m PROVE g[j + 1] = f[j + 1]
      OBVIOUS
    <3>1. j + 1 \in 1..m /\ j + 1 \in 1..n
      OBVIOUS
    <3>2. g[j] = f[j]
      BY <2>4, <3>1
    <3> HIDE DEF S
    <3>3. g[j + 1] = g[j] + ms[j + 1]
      BY <2>2, <3>1, SumsStep
    <3>4. f[j + 1] = f[j] + ns[j + 1]
      BY <1>4, <3>1, SumsStep
    <3> QED
      BY <2>1, <3>1, <3>2, <3>3, <3>4
  <2>5. m \in S
    <3> HIDE DEF S
    <3>1. S \in SUBSET Nat
      BY DEF S
    <3>2. \A j \in S : j + 1 \in S
      BY <2>4, <3>1
    <3>3. S = Nat
      BY <2>3, <3>1, <3>2, InductionOnSet
    <3> QED
      BY <3>3
  <2>6. g[m] = f[m]
    BY <2>5
  <2>7. AlignedWidth(SubSeq(align, 1, m)) = Total(ms)
    BY DEF AlignedWidth, ms, before
  <2> QED
    BY <2>2, <2>6, <2>7
<1>7. ASSUME NEW k \in 1..n + 1
      PROVE  AtomStart(align, k) = f[k - 1]
  <2>1. k - 1 \in 0..n
    BY <1>1
  <2> QED
    BY <1>6, <2>1 DEF AtomStart
<1>8. AtomStart(align, 1) = 0
  <2>1. f[0] = 0
    BY <1>4, SumsStep
  <2>2. 1 \in 1..n + 1 /\ 1 - 1 = 0
    OBVIOUS
  <2> QED
    BY <1>7, <2>1, <2>2
<1>9. ASSUME NEW k \in 1..n + 1
      PROVE  AtomStart(align, k) \in Nat
  <2>1. k - 1 \in 0..n
    BY <1>1
  <2> QED
    BY <1>5, <1>7, <2>1
<1>10. ASSUME NEW k \in 1..n
       PROVE  AtomStart(align, k + 1) = AtomStart(align, k) + Width(align[k])
  <2>1. k \in 1..n + 1 /\ k + 1 \in 1..n + 1 /\ (k + 1) - 1 = k /\ (k - 1) + 1 = k
    OBVIOUS
  <2>2. f[k] = f[k - 1] + ns[k]
    BY <1>4, <2>1, SumsStep
  <2> QED
    BY <1>3, <1>7, <2>1, <2>2
<1>11. AtomStart(align, n + 1) = AlignedWidth(align)
  <2>1. n + 1 \in 1..n + 1 /\ (n + 1) - 1 = n
    OBVIOUS
  <2> QED
    BY <1>2, <1>4, <1>7, <2>1
<1> QED
  BY <1>1, <1>8, <1>9, <1>10, <1>11

\* The limbs of a byte string: its whole chunks, and one for the stray bytes.
LEMMA LimbLengths ==
  ASSUME NEW n \in Nat, NEW c \in Nat, NEW s \in Nat, c = n \div ChunkLen, s = n % ChunkLen
  PROVE  /\ DivCeil(n, ChunkLen) = IF s > 0 THEN c + 1 ELSE c
         /\ \A i \in 1..c : ChunkBytes(n, i) = ChunkLen
         /\ s > 0 => ChunkBytes(n, c + 1) = s
<1>1. PICK d \in Nat : d = ChunkLen /\ d > 0
  BY Constants
<1>2. PICK w \in Nat : w = DivCeil(n, ChunkLen) /\ \A i \in 1..w : d * (i - 1) < n
  BY <1>1, ChunkCount
<1>3. s < d /\ c <= w /\ (s > 0 => c + 1 <= w)
  BY <1>1, <1>2, AtomElements
<1>4. PICK e \in Nat : e = d * c
  BY <1>1
<1>5. n = e + s
  BY <1>1, <1>4, ModIs
<1>6. d * (c + 1) = e + d
  BY <1>1, <1>4
<1>7. w <= c + 1
  <2> SUFFICES ASSUME c + 2 <= w PROVE FALSE
    BY <1>2
  <2>1. c + 2 \in 1..w /\ (c + 2) - 1 = c + 1
    OBVIOUS
  <2>2. d * (c + 1) < n
    BY <1>2, <2>1
  <2> QED
    BY <1>1, <1>3, <1>4, <1>5, <1>6, <2>2
<1>8. s = 0 => w <= c
  <2> SUFFICES ASSUME s = 0, c + 1 <= w PROVE FALSE
    BY <1>2
  <2>1. c + 1 \in 1..w /\ (c + 1) - 1 = c
    OBVIOUS
  <2>2. d * c < n
    BY <1>2, <2>1
  <2> QED
    BY <1>4, <1>5, <2>2
<1>9. ASSUME NEW i \in 1..c
      PROVE  ChunkBytes(n, i) = ChunkLen
  <2>1. d * i <= d * c
    BY <1>1, TimesMonotone
  <2>2. d * i <= n
    BY <1>1, <1>4, <1>5, <2>1
  <2> QED
    BY <1>1, <2>2 DEF ChunkBytes
<1>10. s > 0 => ChunkBytes(n, c + 1) = s
  <2>1. (c + 1) - 1 = c
    OBVIOUS
  <2>2. ~(d * (c + 1) <= n) /\ n - d * c = s
    BY <1>1, <1>3, <1>4, <1>5, <1>6
  <2>3. ChunkBytes(n, c + 1) = n - d * c
    BY <1>1, <2>1, <2>2 DEF ChunkBytes
  <2> QED
    BY <2>2, <2>3
<1> QED
  BY <1>2, <1>3, <1>7, <1>8, <1>9, <1>10

\* The bytes of a piece, and whether its operand fits in it.
PieceBytes(es, p) == LeBytes(es[p.from], p.len)
PieceFits(es, p) == es[p.from] < ByteBase^p.len

AreBytesOf(bs, es, ps) ==
  /\ bs = FlattenSeq([i \in DOMAIN ps |-> PieceBytes(es, ps[i])])
  /\ \A i \in DOMAIN ps : PieceFits(es, ps[i])

\* The pieces of a byte string name its limbs, from the last to the first.
LEMMA PieceOfLimb ==
  ASSUME NEW align \in Seq(Segment), NEW k \in 1..Len(align), align[k][1] = "Bytes",
         NEW at \in Nat, at = AtomStart(align, k), NEW w \in Nat, w = Width(align[k])
  PROVE  /\ DOMAIN AtomPieces(align, k) = 1..w
         /\ \A i \in 1..w : /\ AtomPieces(align, k)[i].from = (at + w + 1) - i
                            /\ AtomPieces(align, k)[i].len = ChunkBytes(align[k][2], i)
<1>1. align[k] \in Segment
  BY ElementOfSeq
<1>2. PICK n \in Nat : n = align[k][2] /\ w = DivCeil(n, ChunkLen)
  BY <1>1, WidthNat DEF Width
<1>3. PICK c \in Nat, s \in Nat : c = n \div ChunkLen /\ s = n % ChunkLen
  BY AtomElements
<1>4. /\ w = IF s > 0 THEN c + 1 ELSE c
      /\ \A i \in 1..c : ChunkBytes(n, i) = ChunkLen
      /\ s > 0 => ChunkBytes(n, c + 1) = s
  BY <1>2, <1>3, LimbLengths
<1>5. PICK first \in Nat : first = IF s > 0 THEN at + 1 ELSE at
  OBVIOUS
<1> DEFINE h == [i \in 1..c |-> [from |-> first + c + 1 - i, len |-> ChunkLen]]
           last == [from |-> at + 1, len |-> s]
           t == IF s > 0 THEN <<last>> ELSE <<>>
<1>6. AtomPieces(align, k) = h \o t
  BY <1>2, <1>3, <1>5 DEF AtomPieces
<1>7. CASE s > 0
  <2>1. first + c = at + w /\ w = c + 1
    BY <1>4, <1>5, <1>7
  <2>2. h \o t = [i \in 1..c + 1 |-> IF i \in 1..c THEN h[i] ELSE last]
    <3>1. t = <<last>> /\ Len(h) = c
      BY <1>7
    <3> HIDE DEF h, last, t
    <3>2. PICK l : l = last
      OBVIOUS
    <3>3. Len(<<l>>) = 1 /\ <<l>>[1] = l
      OBVIOUS
    <3> QED
      BY <3>1, <3>2, <3>3
  <2>3. ASSUME NEW i \in 1..w
        PROVE  /\ (h \o t)[i].from = (at + w + 1) - i
               /\ (h \o t)[i].len = ChunkBytes(n, i)
    <3>1. CASE i \in 1..c
      <4>1. (h \o t)[i] = h[i]
        BY <2>1, <2>2, <3>1
      <4>2. h[i].from = first + c + 1 - i /\ h[i].len = ChunkLen
        BY <3>1
      <4>3. first + c + 1 - i = (at + w + 1) - i
        BY <2>1
      <4> QED
        BY <1>4, <3>1, <4>1, <4>2, <4>3
    <3>2. CASE i = c + 1
      <4>1. (h \o t)[i] = last
        BY <2>1, <2>2, <3>2
      <4>2. at + 1 = (at + w + 1) - i
        BY <2>1, <3>2
      <4>3. last.from = at + 1 /\ last.len = s
        OBVIOUS
      <4>4. s = ChunkBytes(n, i)
        BY <1>4, <1>7, <3>2
      <4> HIDE DEF h, t, last
      <4> QED
        BY <4>1, <4>2, <4>3, <4>4
    <3>3. i \in 1..c \/ i = c + 1
      BY <2>1
    <3> HIDE DEF h, t, last
    <3> QED
      BY <3>1, <3>2, <3>3
  <2>4. DOMAIN (h \o t) = 1..w
    BY <2>1, <2>2
  <2> HIDE DEF h, t
  <2> QED
    BY <1>2, <1>6, <2>3, <2>4
<1>8. CASE ~(s > 0)
  <2>1. first + c = at + w /\ w = c
    BY <1>4, <1>5, <1>8
  <2>2. h \o t = h
    BY <1>8
  <2>3. ASSUME NEW i \in 1..w
        PROVE  /\ h[i].from = (at + w + 1) - i
               /\ h[i].len = ChunkBytes(n, i)
    <3>1. h[i].from = first + c + 1 - i /\ h[i].len = ChunkLen
      BY <2>1
    <3>2. first + c + 1 - i = (at + w + 1) - i
      BY <2>1
    <3> QED
      BY <1>4, <2>1, <3>1, <3>2
  <2>4. DOMAIN h = 1..w
    BY <2>1
  <2> HIDE DEF h, t
  <2> QED
    BY <1>2, <1>6, <2>2, <2>3, <2>4
<1> QED
  BY <1>7, <1>8

\* xs is the w elements of es after the first at.
ReadsFrom(xs, es, at, w) == \A i \in 1..w : xs[i] = es[at + i]

\* The parser's bytes of a segment are those of its pieces, and they fit.
LEMMA AtomTwin ==
  ASSUME NEW align \in Seq(Segment), NEW k \in 1..Len(align), Decodable(align[k]),
         NEW at \in Nat, at = AtomStart(align, k), NEW w \in Nat, w = Width(align[k]),
         NEW es, NEW xs \in [1..w -> Immediates], ReadsFrom(xs, es, at, w),
         NEW bs \in SegmentBytes(align[k], xs)
  PROVE  AreBytesOf(bs, es, AtomPieces(align, k))
<1>1. align[k] \in Segment
  BY ElementOfSeq
<1>2. CASE align[k][1] = "Field"
  <2>1. w = 1
    BY <1>1, <1>2, WidthNat
  <2>2. xs[1] \in Immediates /\ xs[1] = es[at + 1] /\ bs = LeBytes(xs[1], FrBytes)
    BY <1>2, <2>1 DEF SegmentBytes, ReadsFrom
  <2> DEFINE p == [from |-> at + 1, len |-> FrBytes]
             b == PieceBytes(es, p)
  <2>3. AtomPieces(align, k) = <<p>>
    BY <1>2 DEF AtomPieces
  <2>4. b = bs
    BY <2>2 DEF PieceBytes
  <2>5. PieceFits(es, p)
    <3>1. P \in Nat /\ P <= ByteBase^FrBytes
      BY Constants, PowerAssumption
    <3>2. ByteBase^FrBytes \in Nat
      BY FrBytesIs, PowerAssumption
    <3>3. xs[1] < ByteBase^FrBytes
      <4>1. PICK top \in Nat : top = ByteBase^FrBytes
        BY <3>2
      <4>2. PICK x \in Nat : x = xs[1] /\ x < P
        BY <2>2, <3>1 DEF Immediates
      <4>3. P <= top
        BY <3>1, <4>1
      <4>4. x < top
        BY <3>1, <4>2, <4>3
      <4> QED
        BY <4>1, <4>2, <4>4
    <3> QED
      BY <2>2, <3>3 DEF PieceFits
  <2> HIDE DEF b
  <2>6. DOMAIN <<p>> = 1..1 /\ <<p>>[1] = p
    OBVIOUS
  <2>7. [i \in DOMAIN <<p>> |-> PieceBytes(es, <<p>>[i])] = <<b>>
    BY <2>6 DEF b
  <2>8. FlattenSeq(<<b>>) = b
    BY FlattenOne
  <2> QED
    BY <2>3, <2>4, <2>5, <2>6, <2>7, <2>8 DEF AreBytesOf
<1>3. CASE align[k][1] = "Bytes"
  <2>1. PICK n \in Nat : n = align[k][2] /\ w = DivCeil(n, ChunkLen)
    BY <1>1, <1>3, WidthNat DEF Width
  <2>2. PICK ps : ps = AtomPieces(align, k)
    OBVIOUS
  <2>3. /\ DOMAIN ps = 1..w
        /\ \A i \in 1..w : ps[i].from = (at + w + 1) - i /\ ps[i].len = ChunkBytes(n, i)
    <3>1. DOMAIN AtomPieces(align, k) = 1..w
      BY <1>3, PieceOfLimb
    <3>2. \A i \in 1..w : /\ AtomPieces(align, k)[i].from = (at + w + 1) - i
                          /\ AtomPieces(align, k)[i].len = ChunkBytes(align[k][2], i)
      BY <1>3, PieceOfLimb
    <3> QED
      BY <2>1, <2>2, <3>1, <3>2
  <2>4. PICK rs \in [1..w -> Immediates] : rs = Reverse(xs) /\ \A i \in 1..w : rs[i] = xs[(w - i) + 1]
    <3>1. Reverse(xs) \in [1..w -> Immediates]
      BY ReverseTyped
    <3>2. ASSUME NEW i \in 1..w
          PROVE  Reverse(xs)[i] = xs[(w - i) + 1]
      <4>1. Len(xs) = w
        OBVIOUS
      <4> QED
        BY <4>1 DEF Reverse
    <3> QED
      BY <3>1, <3>2
  <2>5. PICK v \in decode_bytes(rs, n) : bs = v.val
    BY <1>3, <2>1, <2>4 DEF SegmentBytes
  <2>6. /\ \A i \in 1..w : rs[i] < ByteBase^ChunkBytes(n, i)
        /\ bs = FlattenSeq([i \in 1..w |-> LeBytes(rs[i], ChunkBytes(n, i))])
    BY <2>4, <2>5 DEF decode_bytes, Some, V
  <2>7. ASSUME NEW i \in 1..w
        PROVE  rs[i] = es[ps[i].from]
    <3>1. (w - i) + 1 \in 1..w /\ at + ((w - i) + 1) = (at + w + 1) - i
      BY ONLY at \in Nat, w \in Nat, i \in 1..w
    <3>2. xs[(w - i) + 1] = es[at + ((w - i) + 1)]
      BY <3>1 DEF ReadsFrom
    <3> QED
      BY <2>3, <2>4, <3>1, <3>2
  <2>8. \A i \in 1..w : LeBytes(rs[i], ChunkBytes(n, i)) = PieceBytes(es, ps[i])
    BY <2>3, <2>7 DEF PieceBytes
  <2>9. [i \in 1..w |-> LeBytes(rs[i], ChunkBytes(n, i))] = [i \in DOMAIN ps |-> PieceBytes(es, ps[i])]
    BY <2>3, <2>8
  <2>10. \A i \in 1..w : PieceFits(es, ps[i])
    BY <2>3, <2>6, <2>7 DEF PieceFits
  <2> QED
    BY <2>2, <2>3, <2>6, <2>9, <2>10 DEF AreBytesOf
<1> QED
  BY <1>2, <1>3 DEF Decodable

\* Where the parser is after k segments: it met no compressed value, and has
\* the elements from the next segment on left.
ParsedTo(align, es, m, k, p) ==
  /\ AtomStart(align, k + 1) <= m
  /\ p.left = SubSeq(es, AtomStart(align, k + 1) + 1, m)
  /\ \A j \in 1..k : align[j][1] # "Compress"

\* What TakeSegment adds to a result p: the bytes bs of the elements xs.
Takes(align, es, m, k, p, q, xs, bs) ==
  LET at == AtomStart(align, k + 1)
      w == Width(align[k + 1])
  IN /\ at + w <= m /\ xs \in [1..w -> Immediates]
     /\ ReadsFrom(xs, es, at, w)
     /\ bs \in SegmentBytes(align[k + 1], xs)
     /\ q.left = SubSeq(es, at + w + 1, m) /\ q.bytes = Cat(p.bytes, bs)

LEMMA TakesOne ==
  ASSUME NEW align \in Seq(Segment), NEW m \in Nat, NEW es \in [1..m -> Immediates],
         NEW k \in Nat, k + 1 \in 1..Len(align), NEW acc,
         \A p \in acc : ParsedTo(align, es, m, k, p),
         NEW q \in TakeSegment(acc, align[k + 1])
  PROVE  \E p, xs, bs : p \in acc /\ Takes(align, es, m, k, p, q, xs, bs)
<1>1. PICK p \in acc :
        /\ Width(align[k + 1]) <= Len(p.left)
        /\ \E bs \in SegmentBytes(align[k + 1], SubSeq(p.left, 1, Width(align[k + 1]))) :
             q = [left |-> SubSeq(p.left, Width(align[k + 1]) + 1, Len(p.left)),
                  bytes |-> p.bytes \o bs]
  BY DEF TakeSegment
<1>2. align[k + 1] \in Segment
  BY ElementOfSeq
<1>3. PICK w \in Nat : w = Width(align[k + 1])
  BY <1>2, WidthNat
<1>4. PICK at \in Nat : at = AtomStart(align, k + 1)
  <2>1. k + 1 \in 1..Len(align) + 1
    BY LenProperties
  <2> QED
    BY <2>1, StartsAdd
<1>5. PICK l : l = p.left /\ l = SubSeq(es, at + 1, m) /\ at <= m
  BY <1>4 DEF ParsedTo
<1>6. at + w <= m
  <2>1. Len(l) = m - at
    BY <1>5
  <2>2. w <= Len(l)
    BY <1>1, <1>3, <1>5
  <2> QED
    BY <1>5, <2>1, <2>2
<1>7. PICK xs : xs = SubSeq(l, 1, w)
  OBVIOUS
<1>8. /\ xs \in [1..w -> Immediates]
      /\ ReadsFrom(xs, es, at, w)
      /\ SubSeq(l, w + 1, Len(l)) = SubSeq(es, at + w + 1, m)
  <2>1. /\ SubSeq(l, 1, w) \in [1..w -> Immediates]
        /\ ReadsFrom(SubSeq(l, 1, w), es, at, w)
        /\ SubSeq(l, w + 1, Len(l)) = SubSeq(es, at + w + 1, m)
    <3>1. PICK r \in Nat : r = m - at /\ w <= r
      BY <1>5, <1>6
    <3>2. l = [i \in 1..r |-> es[at + i]]
      BY <1>5, <3>1
    <3>3. Len(l) = r /\ \A i \in 1..r : l[i] = es[at + i]
      BY <3>2
    <3>4. SubSeq(l, 1, w) = [i \in 1..w |-> l[i]]
      BY <3>1, <3>3
    <3>5. ASSUME NEW i \in 1..w
          PROVE  l[i] = es[at + i] /\ es[at + i] \in Immediates
      <4>1. i \in 1..r /\ at + i \in 1..m
        BY <3>1
      <4> QED
        BY <3>3, <4>1
    <3>6. SubSeq(l, w + 1, Len(l)) = [i \in 1..r - w |-> l[w + i]]
      BY <3>1, <3>3
    <3>7. SubSeq(es, at + w + 1, m) = [i \in 1..r - w |-> es[at + w + i]]
      BY <3>1
    <3>8. ASSUME NEW i \in 1..r - w
          PROVE  l[w + i] = es[at + w + i]
      <4>1. w + i \in 1..r /\ at + (w + i) = at + w + i
        BY <3>1
      <4>2. l[w + i] = es[at + (w + i)]
        BY <3>3, <4>1
      <4> QED
        BY <4>1, <4>2
    <3>9. SubSeq(l, w + 1, Len(l)) = SubSeq(es, at + w + 1, m)
      BY <3>6, <3>7, <3>8
    <3>10. SubSeq(l, 1, w) \in [1..w -> Immediates]
      BY <3>4, <3>5
    <3>11. ReadsFrom(SubSeq(l, 1, w), es, at, w)
      BY <3>4, <3>5 DEF ReadsFrom
    <3> QED
      BY <3>9, <3>10, <3>11
  <2> QED
    BY <1>7, <2>1
<1>9. PICK bs : /\ bs \in SegmentBytes(align[k + 1], xs)
                /\ q = [left |-> SubSeq(l, w + 1, Len(l)), bytes |-> p.bytes \o bs]
  BY <1>1, <1>3, <1>5, <1>7
<1>10. q.left = SubSeq(l, w + 1, Len(l)) /\ q.bytes = Cat(p.bytes, bs)
  BY <1>9 DEF Cat
<1>11. Takes(align, es, m, k, p, q, xs, bs)
  BY <1>3, <1>4, <1>6, <1>8, <1>9, <1>10 DEF Takes
<1> QED
  BY <1>11

LEMMA ParseConsumes ==
  ASSUME NEW align \in Seq(Segment), NEW m \in Nat, NEW es \in [1..m -> Immediates],
         NEW f, ParseRun(f, align, es, Len(align))
  PROVE  \A k \in 0..Len(align) : \A p \in f[k] : ParsedTo(align, es, m, k, p)
<1>1. PICK n \in Nat : n = Len(align)
  BY LenProperties
<1> DEFINE S == {k \in Nat : k \in 0..n => \A p \in f[k] : ParsedTo(align, es, m, k, p)}
<1>2. 0 \in S
  <2>1. f[0] = {[left |-> es, bytes |-> <<>>]}
    BY <1>1 DEF ParseRun
  <2>2. AtomStart(align, 0 + 1) = 0
    BY StartsAdd
  <2>3. SubSeq(es, 1, m) = es
    OBVIOUS
  <2>4. \A p \in f[0] : p.left = es
    BY <2>1
  <2> QED
    BY <2>2, <2>3, <2>4 DEF ParsedTo
<1>3. ASSUME NEW k \in Nat, k \in S
      PROVE  k + 1 \in S
  <2>0. k \in 0..n => \A p \in f[k] : ParsedTo(align, es, m, k, p)
    BY <1>3
  <2> SUFFICES ASSUME k + 1 \in 0..n, NEW q \in f[k + 1]
               PROVE  ParsedTo(align, es, m, k + 1, q)
    OBVIOUS
  <2> HIDE DEF S
  <2>1. k \in 0..n /\ k + 1 \in 1..Len(align) /\ k + 1 # 0 /\ (k + 1) - 1 = k
    BY <1>1
  <2>2. f[k + 1] = TakeSegment(f[k], align[k + 1])
    BY <1>1, <2>1 DEF ParseRun
  <2>3. PICK p, xs, bs : p \in f[k] /\ Takes(align, es, m, k, p, q, xs, bs)
    BY <2>0, <2>1, <2>2, TakesOne
  <2>4. AtomStart(align, (k + 1) + 1) = AtomStart(align, k + 1) + Width(align[k + 1])
    BY <2>1, StartsAdd
  <2>5. align[k + 1][1] # "Compress"
    BY <2>3 DEF Takes, SegmentBytes
  <2>6. \A j \in 1..k : align[j][1] # "Compress"
    BY <2>0, <2>1, <2>3 DEF ParsedTo
  <2>7. \A j \in 1..k + 1 : align[j][1] # "Compress"
    <3>1. \A j \in 1..k + 1 : j \in 1..k \/ j = k + 1
      OBVIOUS
    <3> QED
      BY <2>5, <2>6, <3>1
  <2>8. AtomStart(align, (k + 1) + 1) <= m /\ q.left = SubSeq(es, AtomStart(align, (k + 1) + 1) + 1, m)
    BY <2>3, <2>4 DEF Takes
  <2> QED
    BY <2>7, <2>8 DEF ParsedTo
<1> HIDE DEF S
<1>4. S \in SUBSET Nat
  BY DEF S
<1>5. \A k \in S : k + 1 \in S
  BY <1>3, <1>4
<1>6. S = Nat
  BY <1>2, <1>4, <1>5, InductionOnSet
<1>7. ASSUME NEW k \in 0..Len(align), NEW p \in f[k]
      PROVE  ParsedTo(align, es, m, k, p)
  <2>1. k \in Nat /\ k \in 0..n
    BY <1>1
  <2> QED
    BY <1>6, <2>1 DEF S
<1> QED
  BY <1>7

\* The bytes of the pieces of the first k segments.
PiecesTo(align, k) == FlattenSeq([j \in 1..k |-> AtomPieces(align, j)])
Fitting(es, m) == {p \in Piece(m) : PieceFits(es, p)}
BytesOfPiece(es, m) == [p \in Fitting(es, m) |-> PieceBytes(es, p)]

LEMMA BytesOfPieceTyped ==
  ASSUME NEW m \in Nat, NEW es \in [1..m -> Immediates]
  PROVE  BytesOfPiece(es, m) \in [Fitting(es, m) -> Seq(Nat)]
<1>1. ASSUME NEW p \in Fitting(es, m)
      PROVE  PieceBytes(es, p) \in Seq(Nat)
  <2>1. p.from \in 1..m /\ p.len \in 0..MAX_BYTES_LEN
    BY DEF Fitting, Piece
  <2>2. es[p.from] \in Nat
    BY <2>1 DEF Immediates
  <2>3. LeBytes(es[p.from], p.len) \in Seq(Octets)
    BY <2>1, <2>2, LeBytesTyped
  <2>4. Octets \subseteq Nat
    BY Constants DEF Octets
  <2> QED
    BY <2>3, <2>4, SeqWider DEF PieceBytes
<1> QED
  BY <1>1 DEF BytesOfPiece

\* What the parser has of the first k segments, if fab_decode_to_bytes knows them.
GatheredTo(align, es, m, k, p) ==
  (\A j \in 1..k : Decodable(align[j])) =>
    /\ \A j \in 1..k : AtomPieces(align, j) \in Seq(Fitting(es, m))
    /\ p.bytes = FlattenSeq(Mapped(BytesOfPiece(es, m), PiecesTo(align, k)))

LEMMA PiecesMore ==
  ASSUME NEW align, NEW S, NEW k \in Nat, \A j \in 1..k + 1 : AtomPieces(align, j) \in Seq(S)
  PROVE  /\ PiecesTo(align, k) \in Seq(S) /\ AtomPieces(align, k + 1) \in Seq(S)
         /\ PiecesTo(align, k + 1) = Cat(PiecesTo(align, k), AtomPieces(align, k + 1))
<1> DEFINE t == [j \in 1..k + 1 |-> AtomPieces(align, j)]
           s == [j \in 1..k |-> AtomPieces(align, j)]
<1>1. k + 1 \in Nat /\ k + 1 \in 1..k + 1 /\ \A j \in 1..k : j \in 1..k + 1
  OBVIOUS
<1>2. t \in Seq(Seq(S)) /\ Len(t) = k + 1
  BY <1>1, IsASeq
<1>3. s \in Seq(Seq(S))
  BY <1>1, IsASeq
<1>4. FirstOf(t, k) = s /\ t[k + 1] = AtomPieces(align, k + 1)
  BY <1>1 DEF FirstOf
<1> HIDE DEF s, t
<1>5. FlattenSeq(t) = Cat(FlattenSeq(FirstOf(t, k)), t[k + 1])
  BY <1>2, FlattenNext
<1>6. FlattenSeq(s) \in Seq(S)
  BY <1>3, FlattenTyped
<1> QED
  BY <1>1, <1>4, <1>5, <1>6 DEF PiecesTo, s, t

LEMMA CollectsOne ==
  ASSUME NEW align \in Seq(Segment), NEW m \in Nat, m = AlignedWidth(align),
         NEW es \in [1..m -> Immediates], NEW k \in Nat, k + 1 \in 1..Len(align),
         NEW p, NEW q, NEW xs, NEW bs, Takes(align, es, m, k, p, q, xs, bs),
         GatheredTo(align, es, m, k, p)
  PROVE  GatheredTo(align, es, m, k + 1, q)
<1> SUFFICES ASSUME \A j \in 1..k + 1 : Decodable(align[j])
             PROVE  /\ \A j \in 1..k + 1 : AtomPieces(align, j) \in Seq(Fitting(es, m))
                    /\ q.bytes = FlattenSeq(Mapped(BytesOfPiece(es, m), PiecesTo(align, k + 1)))
  BY DEF GatheredTo
<1>1. /\ \A j \in 1..k : AtomPieces(align, j) \in Seq(Fitting(es, m))
      /\ p.bytes = FlattenSeq(Mapped(BytesOfPiece(es, m), PiecesTo(align, k)))
  BY DEF GatheredTo
<1>2. k + 1 \in 1..Len(align) + 1
  BY LenProperties
<1>3. PICK at \in Nat : at = AtomStart(align, k + 1)
  BY <1>2, StartsAdd
<1>4. align[k + 1] \in Segment /\ Decodable(align[k + 1])
  BY ElementOfSeq
<1>5. PICK w \in Nat : w = Width(align[k + 1])
  BY <1>4, WidthNat
<1>6. /\ xs \in [1..w -> Immediates] /\ ReadsFrom(xs, es, at, w)
      /\ bs \in SegmentBytes(align[k + 1], xs) /\ q.bytes = Cat(p.bytes, bs)
  BY <1>3, <1>5 DEF Takes
<1>7. PICK ps : ps = AtomPieces(align, k + 1)
  OBVIOUS
<1>8. /\ bs = FlattenSeq([i \in DOMAIN ps |-> PieceBytes(es, ps[i])])
      /\ \A i \in DOMAIN ps : PieceFits(es, ps[i])
  <2>1. AreBytesOf(bs, es, AtomPieces(align, k + 1))
    BY <1>3, <1>4, <1>5, <1>6, AtomTwin
  <2> QED
    BY <1>7, <2>1 DEF AreBytesOf
<1>9. ps \in Seq(Piece(m))
  BY <1>4, <1>7, AtomPiecesTyped
<1>10. PICK n \in Nat : n = Len(ps) /\ DOMAIN ps = 1..n /\ ps = [i \in 1..n |-> ps[i]]
  BY <1>9, LenProperties
<1>11. \A i \in 1..n : ps[i] \in Fitting(es, m)
  BY <1>8, <1>9, <1>10, ElementOfSeq DEF Fitting
<1>12. ps \in Seq(Fitting(es, m))
  <2>1. [i \in 1..n |-> ps[i]] \in Seq(Fitting(es, m))
    BY <1>11, IsASeq
  <2> QED
    BY <1>10, <2>1
<1>13. \A j \in 1..k + 1 : AtomPieces(align, j) \in Seq(Fitting(es, m))
  <2>1. \A j \in 1..k + 1 : j \in 1..k \/ j = k + 1
    OBVIOUS
  <2> QED
    BY <1>1, <1>7, <1>12, <2>1
<1>14. bs = FlattenSeq(Mapped(BytesOfPiece(es, m), ps))
  <2>1. \A i \in DOMAIN ps : BytesOfPiece(es, m)[ps[i]] = PieceBytes(es, ps[i])
    BY <1>10, <1>11 DEF BytesOfPiece
  <2>2. Mapped(BytesOfPiece(es, m), ps) = [i \in DOMAIN ps |-> PieceBytes(es, ps[i])]
    BY <2>1 DEF Mapped
  <2> QED
    BY <1>8, <2>2
<1>15. PICK u \in Seq(Fitting(es, m)) : u = PiecesTo(align, k) /\ PiecesTo(align, k + 1) = Cat(u, ps)
  BY <1>7, <1>13, PiecesMore
<1>16. Maps(BytesOfPiece(es, m), Fitting(es, m), Seq(Nat))
  BY BytesOfPieceTyped DEF Maps
<1>17. PICK f : f = BytesOfPiece(es, m)
  OBVIOUS
<1>18. FlattenSeq(Mapped(f, Cat(u, ps))) = Cat(FlattenSeq(Mapped(f, u)), FlattenSeq(Mapped(f, ps)))
  BY <1>12, <1>16, <1>17, MappedFlatten
<1>19. q.bytes = FlattenSeq(Mapped(BytesOfPiece(es, m), PiecesTo(align, k + 1)))
  BY <1>1, <1>6, <1>14, <1>15, <1>17, <1>18
<1> QED
  BY <1>13, <1>19

LEMMA ParseCollects ==
  ASSUME NEW align \in Seq(Segment), NEW m \in Nat, m = AlignedWidth(align),
         NEW es \in [1..m -> Immediates], NEW f, ParseRun(f, align, es, Len(align))
  PROVE  \A k \in 0..Len(align) : \A p \in f[k] : GatheredTo(align, es, m, k, p)
<1>1. PICK n \in Nat : n = Len(align)
  BY LenProperties
<1> DEFINE S == {k \in Nat : k \in 0..n => \A p \in f[k] : GatheredTo(align, es, m, k, p)}
<1>2. 0 \in S
  <2>1. f[0] = {[left |-> es, bytes |-> <<>>]}
    BY <1>1 DEF ParseRun
  <2>2. PiecesTo(align, 0) = <<>>
    <3>1. [j \in 1..0 |-> AtomPieces(align, j)] = <<>>
      OBVIOUS
    <3> QED
      BY <3>1, FlattenEmpty DEF PiecesTo
  <2>3. Mapped(BytesOfPiece(es, m), <<>>) = <<>>
    BY DEF Mapped
  <2>4. \A p \in f[0] : p.bytes = <<>>
    BY <2>1
  <2>5. \A p \in f[0] : GatheredTo(align, es, m, 0, p)
    BY <2>2, <2>3, <2>4, FlattenEmpty DEF GatheredTo
  <2> QED
    BY <2>5
<1>3. ASSUME NEW k \in Nat, k \in S
      PROVE  k + 1 \in S
  <2>0. k \in 0..n => \A p \in f[k] : GatheredTo(align, es, m, k, p)
    BY <1>3
  <2> SUFFICES ASSUME k + 1 \in 0..n, NEW q \in f[k + 1]
               PROVE  GatheredTo(align, es, m, k + 1, q)
    OBVIOUS
  <2> HIDE DEF S
  <2>1. k \in 0..n /\ k \in 0..Len(align) /\ k + 1 \in 1..Len(align) /\ k + 1 # 0 /\ (k + 1) - 1 = k
    BY <1>1
  <2>2. f[k + 1] = TakeSegment(f[k], align[k + 1])
    BY <1>1, <2>1 DEF ParseRun
  <2>3. \A p \in f[k] : ParsedTo(align, es, m, k, p)
    BY <2>1, ParseConsumes
  <2>4. PICK p, xs, bs : p \in f[k] /\ Takes(align, es, m, k, p, q, xs, bs)
    BY <2>1, <2>2, <2>3, TakesOne
  <2>5. GatheredTo(align, es, m, k, p)
    BY <2>0, <2>1, <2>4
  <2> QED
    BY <2>1, <2>4, <2>5, CollectsOne
<1> HIDE DEF S
<1>4. S \in SUBSET Nat
  BY DEF S
<1>5. \A k \in S : k + 1 \in S
  BY <1>3, <1>4
<1>6. S = Nat
  BY <1>2, <1>4, <1>5, InductionOnSet
<1>7. ASSUME NEW k \in 0..Len(align), NEW p \in f[k]
      PROVE  GatheredTo(align, es, m, k, p)
  <2>1. k \in Nat /\ k \in 0..n
    BY <1>1
  <2> QED
    BY <1>6, <2>1 DEF S
<1> QED
  BY <1>7

\* A successful parse used up its input and met no compressed value; where
\* fab_decode_to_bytes knows every segment, it is what the circuit decodes.
LEMMA ParseTwin ==
  ASSUME NEW align \in Seq(Segment), NEW m \in Nat, NEW es \in [1..m -> Immediates],
         NEW bs \in parse_field_repr(align, es)
  PROVE  /\ m = AlignedWidth(align)
         /\ \A j \in DOMAIN align : align[j][1] # "Compress"
         /\ (\A j \in DOMAIN align : Decodable(align[j])) =>
              /\ Pieces(align) \in Seq(Fitting(es, m))
              /\ bs = FlattenSeq(Mapped(BytesOfPiece(es, m), Pieces(align)))
<1>1. PICK n \in Nat : n = Len(align) /\ DOMAIN align = 1..n
  BY LenProperties
<1>2. PICK f : /\ ParseRun(f, align, es, n)
               /\ parse_field_repr(align, es) = {p.bytes : p \in {q \in f[n] : q.left = <<>>}}
  BY <1>1, ParseIs
<1>3. PICK p \in f[n] : p.left = <<>> /\ bs = p.bytes
  BY <1>2
<1>4. n \in 0..Len(align)
  BY <1>1
<1>5. ParsedTo(align, es, m, n, p)
  BY <1>1, <1>2, <1>4, ParseConsumes
<1>6. PICK w \in Nat : w = AlignedWidth(align)
  BY AlignedWidthNat
<1>7. AtomStart(align, n + 1) = w
  BY <1>1, <1>6, StartsAdd
<1>8. w <= m /\ SubSeq(es, w + 1, m) = <<>>
  BY <1>3, <1>5, <1>7 DEF ParsedTo
<1>9. m = w
  <2>1. Len(SubSeq(es, w + 1, m)) = m - w
    BY <1>8
  <2>2. Len(<<>>) = 0
    OBVIOUS
  <2> QED
    BY <1>8, <2>1, <2>2, SMTT(20)
<1>10. \A j \in DOMAIN align : align[j][1] # "Compress"
  BY <1>1, <1>5 DEF ParsedTo
<1>11. ASSUME \A j \in DOMAIN align : Decodable(align[j])
       PROVE  /\ Pieces(align) \in Seq(Fitting(es, m))
              /\ bs = FlattenSeq(Mapped(BytesOfPiece(es, m), Pieces(align)))
  <2>1. GatheredTo(align, es, m, n, p)
    BY <1>1, <1>2, <1>4, <1>6, <1>9, ParseCollects
  <2>2. /\ \A j \in 1..n : AtomPieces(align, j) \in Seq(Fitting(es, m))
        /\ p.bytes = FlattenSeq(Mapped(BytesOfPiece(es, m), PiecesTo(align, n)))
    BY <1>1, <1>11, <2>1 DEF GatheredTo
  <2>3. PiecesTo(align, n) = Pieces(align)
    BY <1>1 DEF PiecesTo, Pieces
  <2>4. [j \in 1..n |-> AtomPieces(align, j)] \in Seq(Seq(Fitting(es, m)))
    BY <2>2, IsASeq
  <2>5. PiecesTo(align, n) \in Seq(Fitting(es, m))
    BY <2>4, FlattenTyped DEF PiecesTo
  <2> QED
    BY <1>3, <2>2, <2>3, <2>5
<1> QED
  BY <1>6, <1>9, <1>10, <1>11

\* fab_decode_to_bytes has no options, the parser has.
OptionAlign(ins) == \E j \in DOMAIN ins.align : ins.align[j][1] = "Option"

LEMMA ByteHashTwin ==
  ASSUME NEW ins, ins.align \in Seq(Segment), NEW n \in Nat, NEW a, DOMAIN a = 1..n, AllTyped(a),
         NEW T, DOMAIN T = 1..n, Len(T) = n, \A i \in 1..n : T[i] = a[i].ty,
         NEW vals \in ByteHashOff(ins, a)
  PROVE  /\ ByteHashShape(ins, T) # {} =>
              /\ vals = <<BytesV(Digest(ins.op, DecodedBytes(ins.align, a)))>>
              /\ ByteHashHolds(ins, a)
         /\ ByteHashShape(ins, T) # {} \/ OptionAlign(ins)
         /\ AlignedWidth(ins.align) = n
<1>1. PICK align \in Seq(Segment) : align = ins.align
  OBVIOUS
<1>2. PICK es : es = Payloads(a)
  OBVIOUS
<1>3. /\ \A i \in 1..n : a[i].ty = Native
      /\ \E bs \in parse_field_repr(align, es) : vals = <<BytesV(Digest(ins.op, bs))>>
  BY <1>1, <1>2 DEF ByteHashOff, AllFr, IsFr
<1>4. PICK bs \in parse_field_repr(align, es) : vals = <<BytesV(Digest(ins.op, bs))>>
  BY <1>3
<1>5. es \in [1..n -> Immediates] /\ \A i \in 1..n : es[i] = a[i].val
  <2>1. \A i \in 1..n : a[i].val \in Immediates
    BY <1>3, FrRange DEF AllTyped
  <2>2. es = [i \in 1..n |-> a[i].val]
    BY <1>2 DEF Payloads
  <2> QED
    BY <2>1, <2>2
<1>6. /\ n = AlignedWidth(align)
      /\ \A j \in DOMAIN align : align[j][1] # "Compress"
      /\ (\A j \in DOMAIN align : Decodable(align[j])) =>
           /\ Pieces(align) \in Seq(Fitting(es, n))
           /\ bs = FlattenSeq(Mapped(BytesOfPiece(es, n), Pieces(align)))
  BY <1>5, ParseTwin
<1>7. CASE \A j \in DOMAIN align : Decodable(align[j])
  <2>1. PICK ps : ps = Pieces(align)
    OBVIOUS
  <2>2. ps \in Seq(Fitting(es, n)) /\ bs = FlattenSeq(Mapped(BytesOfPiece(es, n), ps))
    BY <1>6, <1>7, <2>1
  <2>3. PICK k \in Nat : k = Len(ps) /\ DOMAIN ps = 1..k
    BY <2>2, LenProperties
  <2>4. \A i \in 1..k : ps[i] \in Fitting(es, n)
    BY <2>2, <2>3, ElementOfSeq
  <2>5. ASSUME NEW i \in 1..k
        PROVE  /\ a[ps[i].from].val < ByteBase^ps[i].len
               /\ BytesOfPiece(es, n)[ps[i]] = LeBytes(a[ps[i].from].val, ps[i].len)
    <3>1. ps[i].from \in 1..n /\ PieceFits(es, ps[i])
      BY <2>4 DEF Fitting, Piece
    <3>2. es[ps[i].from] = a[ps[i].from].val
      BY <1>5, <3>1
    <3> QED
      BY <2>4, <3>1, <3>2 DEF PieceFits, BytesOfPiece, PieceBytes
  <2>6. ByteHashHolds(ins, a)
    BY <1>1, <2>1, <2>3, <2>5 DEF ByteHashHolds
  <2>7. Mapped(BytesOfPiece(es, n), ps) = [i \in 1..k |-> LeBytes(a[ps[i].from].val, ps[i].len)]
    BY <2>3, <2>5 DEF Mapped
  <2>8. DecodedBytes(align, a) = FlattenSeq([i \in 1..k |-> LeBytes(a[ps[i].from].val, ps[i].len)])
    BY <2>1, <2>3 DEF DecodedBytes
  <2>9. bs = DecodedBytes(align, a)
    BY <2>2, <2>7, <2>8
  <2>10. ByteHashShape(ins, T) # {}
    <3>1. AllOf(T, Native)
      BY <1>3 DEF AllOf
    <3>2. AlignedWidth(align) <= Len(T)
      BY <1>6
    <3> QED
      BY <1>1, <1>7, <3>1, <3>2 DEF ByteHashShape, Some
  <2> QED
    BY <1>1, <1>4, <1>6, <2>6, <2>9, <2>10
<1>8. CASE ~(\A j \in DOMAIN align : Decodable(align[j]))
  <2>1. PICK j \in DOMAIN align : ~Decodable(align[j])
    BY <1>8
  <2>2. align[j] \in Segment
    BY LenProperties, ElementOfSeq
  <2>3. align[j][1] = "Option"
    BY <1>6, <2>1, <2>2 DEF Segment, Decodable
  <2>4. ByteHashShape(ins, T) = {}
    BY <1>1, <2>1 DEF ByteHashShape, Some
  <2> QED
    BY <1>1, <1>6, <2>3, <2>4 DEF OptionAlign
<1> QED
  BY <1>7, <1>8

------------------------------------------------------------------------------
(* Every value instruction.                                                  *)

\* What `preprocess` runs and `circuit` has no arm for.
NoShape(ins, T) ==
  \/ ins.op = "CondSelect" /\ BytesToSelect(T)
  \/ ins.op = "TestEq" /\ OtherLengths(T)
  \/ ins.op = "Bytes32FromLowHigh" /\ NoNativeHigh(T)
  \/ ins.op \in HashOps /\ OptionAlign(ins)

\* Where it has one, its constraints admit the operands and its cells are vals.
Agrees(ins, a, T, vals) ==
  /\ Shape(ins, T) # {} => Holds(ins, a) /\ Cells(ins, a) = vals
  /\ Shape(ins, T) # {} \/ NoShape(ins, T)

\* Each arm of `circuit` agrees with its twin in `preprocess`: on operands that
\* preprocess accepts, the constraints can be satisfied and the cells are the
\* values preprocess binds, and an arm is missing in four cases only.
THEOREM TwinsAgree ==
  ASSUME NEW ins \in Instruction, WellShaped(ins), ins.op \in ValueOps,
         NEW a, a = [i \in 1..Len(ins.args) |-> a[i]], AllTyped(a), NEW vals \in OffGate(ins, a)
  PROVE  Agrees(ins, a, TypesOf(a), vals)
<1>1. /\ Len(ins.args) \in Nat /\ ins.ty \in IrType /\ ins.enc \in Seq(Immediates)
      /\ ins.align \in Seq(Segment) /\ ins.n \in Seq(Nat)
  BY DEF Instruction
<1>0. PICK n \in Nat : n = Len(ins.args)
  BY <1>1
<1>7. DOMAIN a = 1..n /\ a = [i \in 1..n |-> a[i]]
  BY <1>0
<1>8. Len(a) = n
  BY <1>7
<1>2. /\ ins.op \in UnaryOps => Typed(a[1])
      /\ ins.op \in BinaryOps => Typed(a[1]) /\ Typed(a[2])
      /\ ins.op = "CondSelect" => Typed(a[1]) /\ Typed(a[2]) /\ Typed(a[3])
  BY <1>0, <1>7, OperandsTyped
<1>3. /\ ins.op \in OneParameter => ins.n[1] \in Nat
      /\ ins.op = "Slice" => ins.n[1] \in Nat /\ ins.n[2] \in Nat
  BY ParametersTyped
<1>5. PICK T : T = TypesOf(a)
  OBVIOUS
<1>6. DOMAIN T = 1..n /\ Len(T) = n /\ \A i \in 1..n : T[i] = a[i].ty
  BY <1>5, <1>7, TypesAre
<1>9. /\ ins.op \in UnaryOps => n = 1
      /\ ins.op \in BinaryOps => n = 2
      /\ ins.op = "CondSelect" => n = 3
  BY <1>0 DEF WellShaped
<1>4. /\ ins.op \in UnaryOps => T[1] = a[1].ty
      /\ ins.op \in BinaryOps => T[1] = a[1].ty /\ T[2] = a[2].ty /\ DOMAIN T = 1..2
      /\ ins.op = "CondSelect" => T[1] = a[1].ty /\ T[2] = a[2].ty /\ T[3] = a[3].ty
  <2>1. 1 \in 1..1 /\ {1, 2} \subseteq 1..2 /\ {1, 2, 3} \subseteq 1..3
    OBVIOUS
  <2>2. ins.op \in UnaryOps => T[1] = a[1].ty
    BY <1>6, <1>9, <2>1
  <2>3. ins.op \in BinaryOps => T[1] = a[1].ty /\ T[2] = a[2].ty /\ DOMAIN T = 1..2
    BY <1>6, <1>9, <2>1
  <2>4. ins.op = "CondSelect" => T[1] = a[1].ty /\ T[2] = a[2].ty /\ T[3] = a[3].ty
    BY <1>6, <1>9, <2>1
  <2> QED
    BY <2>2, <2>3, <2>4
<1>10. ins.op \in BinaryOps => T = <<a[1].ty, a[2].ty>>
  <2>1. T = [i \in 1..n |-> a[i].ty]
    BY <1>5, <1>7 DEF TypesOf
  <2> QED
    BY <1>9, <2>1
<1> SUFFICES Agrees(ins, a, T, vals)
  BY <1>5
<1>11. CASE ins.op = "Add"
  <2>1. /\ vals \in AddOff(a)
        /\ Shape(ins, T) = AddShape(T)
        /\ Cells(ins, a) = <<AddCell(a)>>
        /\ Holds(ins, a)
    BY <1>11 DEF OffGate, Shape, Cells, Holds, HashOps
  <2>2. Typed(a[1]) /\ Typed(a[2]) /\ T[1] = a[1].ty /\ T[2] = a[2].ty /\ DOMAIN T = 1..2
    BY <1>11, <1>2, <1>3, <1>4 DEF UnaryOps, BinaryOps, OneParameter
  <2>3. vals \in AddOff(a) =>
          vals = <<AddCell(a)>> /\ AddShape(T) # {}
    BY <2>2, ArithmeticTwin
  <2> QED
    BY <2>1, <2>3 DEF Agrees
<1>12. CASE ins.op = "Mul"
  <2>1. /\ vals \in MulOff(a)
        /\ Shape(ins, T) = MulShape(T)
        /\ Cells(ins, a) = <<MulCell(a)>>
        /\ Holds(ins, a)
    BY <1>12 DEF OffGate, Shape, Cells, Holds, HashOps
  <2>2. Typed(a[1]) /\ Typed(a[2]) /\ T[1] = a[1].ty /\ T[2] = a[2].ty /\ DOMAIN T = 1..2
    BY <1>12, <1>2, <1>3, <1>4 DEF UnaryOps, BinaryOps, OneParameter
  <2>3. vals \in MulOff(a) =>
          vals = <<MulCell(a)>> /\ MulShape(T) # {}
    BY <2>2, ArithmeticTwin
  <2> QED
    BY <2>1, <2>3 DEF Agrees
<1>13. CASE ins.op = "Neg"
  <2>1. /\ vals \in NegOff(a)
        /\ Shape(ins, T) = NegShape(T)
        /\ Cells(ins, a) = <<NegCell(a)>>
        /\ Holds(ins, a)
    BY <1>13 DEF OffGate, Shape, Cells, Holds, HashOps
  <2>2. Typed(a[1]) /\ T[1] = a[1].ty
    BY <1>13, <1>2, <1>3, <1>4 DEF UnaryOps, BinaryOps, OneParameter
  <2>3. vals \in NegOff(a) =>
          vals = <<NegCell(a)>> /\ NegShape(T) # {}
    BY <2>2, OneOperandTwin
  <2> QED
    BY <2>1, <2>3 DEF Agrees
<1>14. CASE ins.op = "Inv"
  <2>1. /\ vals \in InvOff(a)
        /\ Shape(ins, T) = InvShape(T)
        /\ Cells(ins, a) = <<InvCell(a)>>
        /\ (a[1].val # 0) => Holds(ins, a)
    BY <1>14 DEF OffGate, Shape, Cells, Holds, HashOps
  <2>2. Typed(a[1]) /\ T[1] = a[1].ty
    BY <1>14, <1>2, <1>3, <1>4 DEF UnaryOps, BinaryOps, OneParameter
  <2>3. vals \in InvOff(a) =>
          vals = <<InvCell(a)>> /\ a[1].val # 0 /\ InvShape(T) # {}
    BY <2>2, OneOperandTwin
  <2> QED
    BY <2>1, <2>3 DEF Agrees
<1>15. CASE ins.op = "Not"
  <2>1. /\ vals \in NotOff(a)
        /\ Shape(ins, T) = NotShape(T)
        /\ Cells(ins, a) = <<Fr(1 - a[1].val)>>
        /\ (BitHolds(a[1])) => Holds(ins, a)
    BY <1>15 DEF OffGate, Shape, Cells, Holds, HashOps
  <2>2. Typed(a[1]) /\ T[1] = a[1].ty
    BY <1>15, <1>2, <1>3, <1>4 DEF UnaryOps, BinaryOps, OneParameter
  <2>3. vals \in NotOff(a) =>
          vals = <<Fr(1 - a[1].val)>> /\ BitHolds(a[1]) /\ NotShape(T) # {}
    BY <2>2, OneOperandTwin
  <2> QED
    BY <2>1, <2>3 DEF Agrees
<1>16. CASE ins.op = "JubjubScalarFromNative"
  <2>1. /\ vals \in JubjubScalarFromNativeOff(a)
        /\ Shape(ins, T) = JubjubScalarShape(T)
        /\ Cells(ins, a) = <<JubjubScalarCell(a)>>
        /\ Holds(ins, a)
    BY <1>16 DEF OffGate, Shape, Cells, Holds, HashOps
  <2>2. Typed(a[1]) /\ T[1] = a[1].ty
    BY <1>16, <1>2, <1>3, <1>4 DEF UnaryOps, BinaryOps, OneParameter
  <2>3. vals \in JubjubScalarFromNativeOff(a) =>
          vals = <<JubjubScalarCell(a)>> /\ JubjubScalarShape(T) # {}
    BY <2>2, OneOperandTwin
  <2> QED
    BY <2>1, <2>3 DEF Agrees
<1>17. CASE ins.op = "And"
  <2>1. /\ vals \in AndOff(a)
        /\ Shape(ins, T) = BitListShape(T)
        /\ Cells(ins, a) = <<BitListCell(ins, a)>>
        /\ Holds(ins, a)
    BY <1>17 DEF OffGate, Shape, Cells, Holds, HashOps
  <2>2. \/ ins.op = "And" /\ vals \in AndOff(a)
        \/ ins.op = "Or" /\ vals \in OrOff(a)
        \/ ins.op = "Xor" /\ vals \in XorOff(a)
    BY <2>1, <1>17
  <2>3. vals = <<BitListCell(ins, a)>> /\ BitListShape(T) # {}
    BY <2>2, <1>6, <1>7, BitListTwin
  <2> QED
    BY <2>1, <2>3 DEF Agrees
<1>18. CASE ins.op = "Or"
  <2>1. /\ vals \in OrOff(a)
        /\ Shape(ins, T) = BitListShape(T)
        /\ Cells(ins, a) = <<BitListCell(ins, a)>>
        /\ Holds(ins, a)
    BY <1>18 DEF OffGate, Shape, Cells, Holds, HashOps
  <2>2. \/ ins.op = "And" /\ vals \in AndOff(a)
        \/ ins.op = "Or" /\ vals \in OrOff(a)
        \/ ins.op = "Xor" /\ vals \in XorOff(a)
    BY <2>1, <1>18
  <2>3. vals = <<BitListCell(ins, a)>> /\ BitListShape(T) # {}
    BY <2>2, <1>6, <1>7, BitListTwin
  <2> QED
    BY <2>1, <2>3 DEF Agrees
<1>19. CASE ins.op = "Xor"
  <2>1. /\ vals \in XorOff(a)
        /\ Shape(ins, T) = BitListShape(T)
        /\ Cells(ins, a) = <<BitListCell(ins, a)>>
        /\ Holds(ins, a)
    BY <1>19 DEF OffGate, Shape, Cells, Holds, HashOps
  <2>2. \/ ins.op = "And" /\ vals \in AndOff(a)
        \/ ins.op = "Or" /\ vals \in OrOff(a)
        \/ ins.op = "Xor" /\ vals \in XorOff(a)
    BY <2>1, <1>19
  <2>3. vals = <<BitListCell(ins, a)>> /\ BitListShape(T) # {}
    BY <2>2, <1>6, <1>7, BitListTwin
  <2> QED
    BY <2>1, <2>3 DEF Agrees
<1>20. CASE ins.op = "ConstrainEq"
  <2>1. /\ vals \in ConstrainEqOff(a)
        /\ Shape(ins, T) = ConstrainEqShape(T)
        /\ Cells(ins, a) = <<>>
        /\ (a[1] = a[2]) => Holds(ins, a)
    BY <1>20 DEF OffGate, Shape, Cells, Holds, HashOps
  <2>2. Typed(a[1]) /\ Typed(a[2]) /\ T[1] = a[1].ty /\ T[2] = a[2].ty /\ DOMAIN T = 1..2
    BY <1>20, <1>2, <1>3, <1>4 DEF UnaryOps, BinaryOps, OneParameter
  <2>3. vals \in ConstrainEqOff(a) =>
          vals = <<>> /\ a[1] = a[2] /\ ConstrainEqShape(T) # {}
    BY <2>2, CheckTwin
  <2> QED
    BY <2>1, <2>3 DEF Agrees
<1>21. CASE ins.op = "Assert"
  <2>1. /\ vals \in AssertOff(a)
        /\ Shape(ins, T) = CheckShape(T)
        /\ Cells(ins, a) = <<>>
        /\ (AssertHolds(a)) => Holds(ins, a)
    BY <1>21 DEF OffGate, Shape, Cells, Holds, HashOps
  <2>2. Typed(a[1]) /\ T[1] = a[1].ty
    BY <1>21, <1>2, <1>3, <1>4 DEF UnaryOps, BinaryOps, OneParameter
  <2>3. vals \in AssertOff(a) =>
          vals = <<>> /\ AssertHolds(a) /\ CheckShape(T) # {}
    BY <2>2 DEF AssertOff, AssertHolds, CheckShape, IsFr, Some, Nothing
  <2> QED
    BY <2>1, <2>3 DEF Agrees
<1>22. CASE ins.op = "ConstrainToBoolean"
  <2>1. /\ vals \in ConstrainToBooleanOff(a)
        /\ Shape(ins, T) = CheckShape(T)
        /\ Cells(ins, a) = <<>>
        /\ (BitHolds(a[1])) => Holds(ins, a)
    BY <1>22 DEF OffGate, Shape, Cells, Holds, HashOps
  <2>2. Typed(a[1]) /\ T[1] = a[1].ty
    BY <1>22, <1>2, <1>3, <1>4 DEF UnaryOps, BinaryOps, OneParameter
  <2>3. vals \in ConstrainToBooleanOff(a) =>
          vals = <<>> /\ BitHolds(a[1]) /\ CheckShape(T) # {}
    BY <2>2, CheckTwin
  <2> QED
    BY <2>1, <2>3 DEF Agrees
<1>23. CASE ins.op = "ConstrainBits"
  <2>1. /\ vals \in ConstrainBitsOff(ins, a)
        /\ Shape(ins, T) = CheckShape(T)
        /\ Cells(ins, a) = <<>>
        /\ (ConstrainBitsHolds(ins, a)) => Holds(ins, a)
    BY <1>23 DEF OffGate, Shape, Cells, Holds, HashOps
  <2>2. Typed(a[1]) /\ T[1] = a[1].ty /\ ins.n[1] \in Nat
    BY <1>23, <1>2, <1>3, <1>4 DEF UnaryOps, BinaryOps, OneParameter
  <2>3. vals \in ConstrainBitsOff(ins, a) =>
          vals = <<>> /\ ConstrainBitsHolds(ins, a) /\ CheckShape(T) # {}
    BY <2>2, CheckTwin
  <2> QED
    BY <2>1, <2>3 DEF Agrees
<1>24. CASE ins.op = "TestEq"
  <2>1. /\ vals \in TestEqOff(a)
        /\ Shape(ins, T) = TestEqShape(T)
        /\ Cells(ins, a) = <<EqualCell(a)>>
        /\ Holds(ins, a)
    BY <1>24 DEF OffGate, Shape, Cells, Holds, HashOps
  <2>2. Typed(a[1]) /\ Typed(a[2]) /\ T[1] = a[1].ty /\ T[2] = a[2].ty /\ DOMAIN T = 1..2
    BY <1>24, <1>2, <1>3, <1>4 DEF UnaryOps, BinaryOps, OneParameter
  <2>3. /\ TestEqShape(T) # {} => vals = <<EqualCell(a)>> /\ TRUE
        /\ TestEqShape(T) # {} \/ OtherLengths(T)
    BY <2>1, <2>2, TestEqTwin
  <2> QED
    BY <1>24, <2>1, <2>3 DEF Agrees, NoShape
<1>25. CASE ins.op = "LessThan"
  <2>1. /\ vals \in LessThanOff(ins, a)
        /\ Shape(ins, T) = LessThanShape(T)
        /\ Cells(ins, a) = <<LessThanCell(a)>>
        /\ (LessThanHolds(ins, a)) => Holds(ins, a)
    BY <1>25 DEF OffGate, Shape, Cells, Holds, HashOps
  <2>2. Typed(a[1]) /\ Typed(a[2]) /\ T[1] = a[1].ty /\ T[2] = a[2].ty /\ DOMAIN T = 1..2 /\ ins.n[1] \in Nat
    BY <1>25, <1>2, <1>3, <1>4 DEF UnaryOps, BinaryOps, OneParameter
  <2>3. vals = <<LessThanCell(a)>> /\ LessThanHolds(ins, a) /\ LessThanShape(T) # {}
    BY <2>1, <2>2, LessThanTwin
  <2> QED
    BY <2>1, <2>3 DEF Agrees
<1>26. CASE ins.op = "CondSelect"
  <2>1. /\ vals \in CondSelectOff(a)
        /\ Shape(ins, T) = CondSelectShape(T)
        /\ Cells(ins, a) = <<SelectCell(a)>>
        /\ (BitHolds(a[1])) => Holds(ins, a)
    BY <1>26 DEF OffGate, Shape, Cells, Holds, HashOps
  <2>2. Typed(a[2]) /\ T[1] = a[1].ty /\ T[2] = a[2].ty /\ T[3] = a[3].ty
    BY <1>26, <1>2, <1>3, <1>4 DEF UnaryOps, BinaryOps, OneParameter
  <2>3. /\ CondSelectShape(T) # {} => vals = <<SelectCell(a)>> /\ BitHolds(a[1])
        /\ CondSelectShape(T) # {} \/ BytesToSelect(T)
    BY <2>1, <2>2, SelectTwin
  <2> QED
    BY <1>26, <2>1, <2>3 DEF Agrees, NoShape
<1>27. CASE ins.op = "DivModPowerOfTwo"
  <2>1. /\ vals \in DivModPowerOfTwoOff(ins, a)
        /\ Shape(ins, T) = DivModShape(ins, T)
        /\ Cells(ins, a) = DivModCells(ins, a)
        /\ Holds(ins, a)
    BY <1>27 DEF OffGate, Shape, Cells, Holds, HashOps
  <2>2. Typed(a[1]) /\ T[1] = a[1].ty /\ ins.n[1] \in Nat
    BY <1>27, <1>2, <1>3, <1>4 DEF UnaryOps, BinaryOps, OneParameter
  <2>3. vals = DivModCells(ins, a) /\ DivModShape(ins, T) # {}
    BY <2>1, <2>2, SplitTwin
  <2> QED
    BY <2>1, <2>3 DEF Agrees
<1>28. CASE ins.op = "ReconstituteField"
  <2>1. /\ vals \in ReconstituteFieldOff(ins, a)
        /\ Shape(ins, T) = ReconstituteShape(ins, T)
        /\ Cells(ins, a) = <<Fr(ReconstituteResult(ins, a))>>
        /\ (ReconstituteHolds(ins, a)) => Holds(ins, a)
    BY <1>28 DEF OffGate, Shape, Cells, Holds, HashOps
  <2>2. Typed(a[1]) /\ Typed(a[2]) /\ T[1] = a[1].ty /\ T[2] = a[2].ty /\ DOMAIN T = 1..2 /\ ins.n[1] \in Nat
    BY <1>28, <1>2, <1>3, <1>4 DEF UnaryOps, BinaryOps, OneParameter
  <2>3. vals = <<Fr(ReconstituteResult(ins, a))>> /\ ReconstituteHolds(ins, a) /\ ReconstituteShape(ins, T) # {}
    BY <2>1, <2>2, JoinTwin
  <2> QED
    BY <2>1, <2>3 DEF Agrees
<1>29. CASE ins.op = "TransientHash"
  <2>1. /\ vals \in TransientHashOff(a)
        /\ Shape(ins, T) = TransientHashShape(T)
        /\ Cells(ins, a) = <<Fr(Poseidon(Payloads(a)))>>
        /\ Holds(ins, a)
    BY <1>29 DEF OffGate, Shape, Cells, Holds, HashOps
  <2>3. vals \in TransientHashOff(a) =>
          vals = <<Fr(Poseidon(Payloads(a)))>> /\ TransientHashShape(T) # {}
    BY <1>1, <1>6, <1>7, <1>8, FromNativesTwin
  <2> QED
    BY <2>1, <2>3 DEF Agrees
<1>30. CASE ins.op = "HashToCurve"
  <2>1. /\ vals \in HashToCurveOff(a)
        /\ Shape(ins, T) = HashToCurveShape(T)
        /\ Cells(ins, a) = <<V(Point("Jubjub"), HashToPoint(Payloads(a)))>>
        /\ Holds(ins, a)
    BY <1>30 DEF OffGate, Shape, Cells, Holds, HashOps
  <2>3. vals \in HashToCurveOff(a) =>
          vals = <<V(Point("Jubjub"), HashToPoint(Payloads(a)))>> /\ HashToCurveShape(T) # {}
    BY <1>1, <1>6, <1>7, <1>8, FromNativesTwin
  <2> QED
    BY <2>1, <2>3 DEF Agrees
<1>31. CASE ins.op = "EcMul"
  <2>1. /\ vals \in EcMulOff(a)
        /\ Shape(ins, T) = EcMulShape(T)
        /\ Cells(ins, a) = <<V(a[1].ty, (a[1].val * a[2].val) % Order(a[1].ty))>>
        /\ Holds(ins, a)
    BY <1>31 DEF OffGate, Shape, Cells, Holds, HashOps
  <2>2. Typed(a[1]) /\ Typed(a[2]) /\ T[1] = a[1].ty /\ T[2] = a[2].ty /\ DOMAIN T = 1..2 /\ T = <<a[1].ty, a[2].ty>>
    BY <1>31, <1>2, <1>3, <1>4, <1>10 DEF UnaryOps, BinaryOps, OneParameter
  <2>3. vals \in EcMulOff(a) =>
          vals = <<V(a[1].ty, (a[1].val * a[2].val) % Order(a[1].ty))>> /\ EcMulShape(T) # {}
    BY <2>2, GroupTwin
  <2> QED
    BY <2>1, <2>3 DEF Agrees
<1>32. CASE ins.op = "EcMulGenerator"
  <2>1. /\ vals \in EcMulGeneratorOff(a)
        /\ Shape(ins, T) = EcMulGeneratorShape(T)
        /\ Cells(ins, a) = <<V(Point(a[1].ty[2]), a[1].val)>>
        /\ Holds(ins, a)
    BY <1>32 DEF OffGate, Shape, Cells, Holds, HashOps
  <2>2. Typed(a[1]) /\ T[1] = a[1].ty
    BY <1>32, <1>2, <1>3, <1>4 DEF UnaryOps, BinaryOps, OneParameter
  <2>3. vals \in EcMulGeneratorOff(a) =>
          vals = <<V(Point(a[1].ty[2]), a[1].val)>> /\ EcMulGeneratorShape(T) # {}
    BY <2>2, GroupTwin
  <2> QED
    BY <2>1, <2>3 DEF Agrees
<1>33. CASE ins.op = "IntoCoordinates"
  <2>1. /\ vals \in IntoCoordinatesOff(a)
        /\ Shape(ins, T) = IntoCoordinatesShape(T)
        /\ Cells(ins, a) = Coordinates(a[1].ty[2], a[1].val)
        /\ (IntoCoordinatesHolds(a)) => Holds(ins, a)
    BY <1>33 DEF OffGate, Shape, Cells, Holds, HashOps
  <2>2. Typed(a[1]) /\ T[1] = a[1].ty
    BY <1>33, <1>2, <1>3, <1>4 DEF UnaryOps, BinaryOps, OneParameter
  <2>3. vals = Coordinates(a[1].ty[2], a[1].val) /\ IntoCoordinatesHolds(a) /\ IntoCoordinatesShape(T) # {}
    BY <2>1, <2>2, IntoCoordinatesTwin
  <2> QED
    BY <2>1, <2>3 DEF Agrees
<1>34. CASE ins.op = "FromCoordinates"
  <2>1. /\ vals \in FromCoordinatesOff(a)
        /\ Shape(ins, T) = FromCoordinatesShape(T)
        /\ Cells(ins, a) = <<FromCoordinatesCell(a)>>
        /\ (FromCoordinatesHolds(a)) => Holds(ins, a)
    BY <1>34 DEF OffGate, Shape, Cells, Holds, HashOps
  <2>2. Typed(a[1]) /\ Typed(a[2]) /\ T[1] = a[1].ty /\ T[2] = a[2].ty /\ DOMAIN T = 1..2 /\ T = <<a[1].ty, a[2].ty>>
    BY <1>34, <1>2, <1>3, <1>4, <1>10 DEF UnaryOps, BinaryOps, OneParameter
  <2>3. vals = <<FromCoordinatesCell(a)>> /\ FromCoordinatesHolds(a) /\ FromCoordinatesShape(T) # {}
    BY <2>1, <2>2, FromCoordinatesTwin
  <2> QED
    BY <2>1, <2>3 DEF Agrees
<1>35. CASE ins.op = "ToBytes"
  <2>1. /\ vals \in ToBytesOff(a)
        /\ Shape(ins, T) = ToBytesShape(T)
        /\ Cells(ins, a) = <<ToBytes(a[1])>>
        /\ Holds(ins, a)
    BY <1>35 DEF OffGate, Shape, Cells, Holds, HashOps
  <2>2. Typed(a[1]) /\ T[1] = a[1].ty
    BY <1>35, <1>2, <1>3, <1>4 DEF UnaryOps, BinaryOps, OneParameter
  <2>3. vals \in ToBytesOff(a) =>
          vals = <<ToBytes(a[1])>> /\ ToBytesShape(T) # {}
    BY <2>2, ToBytesTwin
  <2> QED
    BY <2>1, <2>3 DEF Agrees
<1>36. CASE ins.op = "IntoBytes32"
  <2>1. /\ vals \in IntoBytes32Off(a)
        /\ Shape(ins, T) = IntoBytes32Shape(T)
        /\ Cells(ins, a) = <<ToBytes(a[1])>>
        /\ Holds(ins, a)
    BY <1>36 DEF OffGate, Shape, Cells, Holds, HashOps
  <2>2. Typed(a[1]) /\ T[1] = a[1].ty
    BY <1>36, <1>2, <1>3, <1>4 DEF UnaryOps, BinaryOps, OneParameter
  <2>3. vals \in IntoBytes32Off(a) =>
          vals = <<ToBytes(a[1])>> /\ IntoBytes32Shape(T) # {}
    BY <2>2, ToBytesTwin
  <2> QED
    BY <2>1, <2>3 DEF Agrees
<1>37. CASE ins.op = "FromBytes"
  <2>1. /\ vals \in FromBytesOff(ins, a)
        /\ Shape(ins, T) = FromBytesShape(ins, T)
        /\ Cells(ins, a) = <<FromBytesCell(ins, a)>>
        /\ (FromBytesHolds(ins, a)) => Holds(ins, a)
    BY <1>37 DEF OffGate, Shape, Cells, Holds, HashOps
  <2>2. Typed(a[1]) /\ T[1] = a[1].ty
    BY <1>37, <1>2, <1>3, <1>4 DEF UnaryOps, BinaryOps, OneParameter
  <2>3. vals \in FromBytesOff(ins, a) =>
          vals = <<FromBytesCell(ins, a)>> /\ FromBytesHolds(ins, a) /\ FromBytesShape(ins, T) # {}
    BY <1>1, <2>2, FromBytesTwin
  <2> QED
    BY <2>1, <2>3 DEF Agrees
<1>38. CASE ins.op = "FromBytes32"
  <2>1. /\ vals \in FromBytes32Off(ins, a)
        /\ Shape(ins, T) = FromBytes32Shape(ins, T)
        /\ Cells(ins, a) = <<FromBytesCell(ins, a)>>
        /\ (FromBytesHolds(ins, a)) => Holds(ins, a)
    BY <1>38 DEF OffGate, Shape, Cells, Holds, HashOps
  <2>2. Typed(a[1]) /\ T[1] = a[1].ty
    BY <1>38, <1>2, <1>3, <1>4 DEF UnaryOps, BinaryOps, OneParameter
  <2>3. vals \in FromBytes32Off(ins, a) =>
          vals = <<FromBytesCell(ins, a)>> /\ FromBytesHolds(ins, a) /\ FromBytes32Shape(ins, T) # {}
    BY <1>1, <2>2, FromBytesTwin
  <2> QED
    BY <2>1, <2>3 DEF Agrees
<1>39. CASE ins.op \in {"Reverse", "ReverseBytes"}
  <2>1. /\ vals \in ReverseOff(a)
        /\ Shape(ins, T) = ReverseShape(T)
        /\ Cells(ins, a) = <<BytesV(Reverse(a[1].val))>>
        /\ Holds(ins, a)
    BY <1>39 DEF OffGate, Shape, Cells, Holds, HashOps
  <2>2. Typed(a[1]) /\ T[1] = a[1].ty
    BY <1>39, <1>2, <1>3, <1>4 DEF UnaryOps, BinaryOps, OneParameter
  <2>3. vals \in ReverseOff(a) =>
          vals = <<BytesV(Reverse(a[1].val))>> /\ ReverseShape(T) # {}
    BY <2>2, ByteOpsTwin
  <2> QED
    BY <2>1, <2>3 DEF Agrees
<1>40. CASE ins.op = "Slice"
  <2>1. /\ vals \in SliceOff(ins, a)
        /\ Shape(ins, T) = SliceShape(ins, T)
        /\ Cells(ins, a) = <<BytesV(SubSeq(a[1].val, ins.n[1] + 1, ins.n[1] + ins.n[2]))>>
        /\ Holds(ins, a)
    BY <1>40 DEF OffGate, Shape, Cells, Holds, HashOps
  <2>2. Typed(a[1]) /\ T[1] = a[1].ty
    BY <1>40, <1>2, <1>3, <1>4 DEF UnaryOps, BinaryOps, OneParameter
  <2>3. vals \in SliceOff(ins, a) =>
          vals = <<BytesV(SubSeq(a[1].val, ins.n[1] + 1, ins.n[1] + ins.n[2]))>> /\ SliceShape(ins, T) # {}
    BY <2>2, ByteOpsTwin
  <2> QED
    BY <2>1, <2>3 DEF Agrees
<1>41. CASE ins.op = "Nth"
  <2>1. /\ vals \in NthOff(ins, a)
        /\ Shape(ins, T) = NthShape(ins, T)
        /\ Cells(ins, a) = <<V(Byte, a[1].val[ins.n[1] + 1])>>
        /\ Holds(ins, a)
    BY <1>41 DEF OffGate, Shape, Cells, Holds, HashOps
  <2>2. Typed(a[1]) /\ T[1] = a[1].ty /\ ins.n[1] \in Nat
    BY <1>41, <1>2, <1>3, <1>4 DEF UnaryOps, BinaryOps, OneParameter
  <2>3. vals \in NthOff(ins, a) =>
          vals = <<V(Byte, a[1].val[ins.n[1] + 1])>> /\ NthShape(ins, T) # {}
    BY <2>2, ByteOpsTwin
  <2> QED
    BY <2>1, <2>3 DEF Agrees
<1>42. CASE ins.op = "Concat"
  <2>1. /\ vals \in ConcatOff(a)
        /\ Shape(ins, T) = ConcatShape(T)
        /\ Cells(ins, a) = <<BytesV(FlattenSeq([i \in DOMAIN a |-> ByteString(a[i])]))>>
        /\ Holds(ins, a)
    BY <1>42 DEF OffGate, Shape, Cells, Holds, HashOps
  <2>3. vals = <<BytesV(FlattenSeq([i \in DOMAIN a |-> ByteString(a[i])]))>> /\ ConcatShape(T) # {}
    BY <2>1, <1>1, <1>6, <1>7, <1>8, <1>5, ConcatTwin
  <2> QED
    BY <2>1, <2>3 DEF Agrees
<1>43. CASE ins.op = "Encode"
  <2>1. /\ vals \in EncodeOff(ins, a)
        /\ Shape(ins, T) = EncodeShape(ins, T)
        /\ Cells(ins, a) = FrSeq(Encode(a[1]))
        /\ Holds(ins, a)
    BY <1>43 DEF OffGate, Shape, Cells, Holds, HashOps
  <2>2. Typed(a[1]) /\ T[1] = a[1].ty
    BY <1>43, <1>2, <1>3, <1>4 DEF UnaryOps, BinaryOps, OneParameter
  <2>3. vals \in EncodeOff(ins, a) =>
          vals = FrSeq(Encode(a[1])) /\ EncodeShape(ins, T) # {}
    BY <2>2, EncodeTwin
  <2> QED
    BY <2>1, <2>3 DEF Agrees
<1>44. CASE ins.op = "BytesIntoNatives"
  <2>1. /\ vals \in BytesIntoNativesOff(ins, a)
        /\ Shape(ins, T) = BytesIntoNativesShape(ins, T)
        /\ Cells(ins, a) = FrSeq(Encode(a[1]))
        /\ Holds(ins, a)
    BY <1>44 DEF OffGate, Shape, Cells, Holds, HashOps
  <2>2. Typed(a[1]) /\ T[1] = a[1].ty
    BY <1>44, <1>2, <1>3, <1>4 DEF UnaryOps, BinaryOps, OneParameter
  <2>3. vals \in BytesIntoNativesOff(ins, a) =>
          vals = FrSeq(Encode(a[1])) /\ BytesIntoNativesShape(ins, T) # {}
    BY <2>2, EncodeTwin
  <2> QED
    BY <2>1, <2>3 DEF Agrees
<1>45. CASE ins.op = "BytesFromNatives"
  <2>1. /\ vals \in BytesFromNativesOff(ins, a)
        /\ Shape(ins, T) = BytesFromNativesShape(ins, T)
        /\ Cells(ins, a) = <<BytesFromNativesCell(ins, a)>>
        /\ (BytesFromNativesHolds(ins, a)) => Holds(ins, a)
    BY <1>45 DEF OffGate, Shape, Cells, Holds, HashOps
  <2>3. vals = <<BytesFromNativesCell(ins, a)>> /\ BytesFromNativesHolds(ins, a) /\ BytesFromNativesShape(ins, T) # {}
    BY <2>1, <1>1, <1>6, <1>7, <1>8, NativesToBytesTwin
  <2> QED
    BY <2>1, <2>3 DEF Agrees
<1>46. CASE ins.op = "Bytes32IntoLowHigh"
  <2>1. /\ vals \in Bytes32IntoLowHighOff(a)
        /\ Shape(ins, T) = LowHighShape(T)
        /\ Cells(ins, a) = LowHighCells(a)
        /\ Holds(ins, a)
    BY <1>46 DEF OffGate, Shape, Cells, Holds, HashOps
  <2>2. Typed(a[1]) /\ T[1] = a[1].ty
    BY <1>46, <1>2, <1>3, <1>4 DEF UnaryOps, BinaryOps, OneParameter
  <2>3. vals = LowHighCells(a) /\ LowHighShape(T) # {}
    BY <2>1, <2>2, LowHighTwin
  <2> QED
    BY <2>1, <2>3 DEF Agrees
<1>47. CASE ins.op = "Bytes32FromLowHigh"
  <2>1. /\ vals \in Bytes32FromLowHighOff(a)
        /\ Shape(ins, T) = FromLowHighShape(T)
        /\ Cells(ins, a) = <<FromLowHighCell(a)>>
        /\ (FromLowHighHolds(a)) => Holds(ins, a)
    BY <1>47 DEF OffGate, Shape, Cells, Holds, HashOps
  <2>2. Typed(a[1]) /\ Typed(a[2]) /\ T[1] = a[1].ty /\ T[2] = a[2].ty /\ DOMAIN T = 1..2
    BY <1>47, <1>2, <1>3, <1>4 DEF UnaryOps, BinaryOps, OneParameter
  <2>3. /\ FromLowHighShape(T) # {} => vals = <<FromLowHighCell(a)>> /\ FromLowHighHolds(a)
        /\ FromLowHighShape(T) # {} \/ NoNativeHigh(T)
    BY <2>1, <2>2, FromLowHighTwin
  <2> QED
    BY <1>47, <2>1, <2>3 DEF Agrees, NoShape
<1>48. CASE ins.op = "LoadConstant"
  <2>1. /\ vals \in LoadConstantOff(ins)
        /\ Shape(ins, T) = LoadConstantShape(ins)
        /\ Cells(ins, a) = <<CHOOSE v \in Decode(ins.enc, ins.ty) : TRUE>>
        /\ Holds(ins, a)
    BY <1>48 DEF OffGate, Shape, Cells, Holds, HashOps
  <2>3. vals = <<CHOOSE v \in Decode(ins.enc, ins.ty) : TRUE>> /\ LoadConstantShape(ins) # {}
    BY <2>1, <1>1, ConstantTwin
  <2> QED
    BY <2>1, <2>3 DEF Agrees
<1>49. CASE ins.op \in HashOps
  <2>1. /\ vals \in ByteHashOff(ins, a)
        /\ Shape(ins, T) = ByteHashShape(ins, T)
        /\ Cells(ins, a) = <<BytesV(Digest(ins.op, DecodedBytes(ins.align, a)))>>
        /\ (ByteHashHolds(ins, a)) => Holds(ins, a)
    BY <1>49 DEF OffGate, Shape, Cells, Holds, HashOps
  <2>3. /\ ByteHashShape(ins, T) # {} => vals = <<BytesV(Digest(ins.op, DecodedBytes(ins.align, a)))>> /\ ByteHashHolds(ins, a)
        /\ ByteHashShape(ins, T) # {} \/ OptionAlign(ins)
    BY <2>1, <1>1, <1>6, <1>7, <1>8, <1>49, ByteHashTwin
  <2> QED
    BY <1>49, <2>1, <2>3 DEF Agrees, NoShape
<1>50. CASE ins.op = "Copy"
  <2>1. vals = a /\ Shape(ins, T) = {T} /\ Cells(ins, a) = a /\ Holds(ins, a)
    BY <1>50 DEF OffGate, CopyOff, Shape, Cells, Holds, HashOps
  <2> QED
    BY <2>1 DEF Agrees
<1> QED
  BY <1>11, <1>12, <1>13, <1>14, <1>15, <1>16, <1>17, <1>18, <1>19, <1>20, <1>21, <1>22, <1>23,
     <1>24, <1>25, <1>26, <1>27, <1>28, <1>29, <1>30, <1>31, <1>32, <1>33, <1>34, <1>35, <1>36,
     <1>37, <1>38, <1>39, <1>40, <1>41, <1>42, <1>43, <1>44, <1>45, <1>46, <1>47, <1>48, <1>49,
     <1>50 DEF ValueOps

\* What `preprocess` has checked and `circuit` does not constrain.
Strict(ins, a) ==
  /\ ins.op = "Assert" => a[1].val = 1
  /\ ins.op \in {"ConstrainBits", "LessThan"} =>
       ins.n[1] < FR_BITS /\ \A j \in DOMAIN a : a[j].val < 2^ins.n[1]
  /\ ins.op \in {"DivModPowerOfTwo", "ReconstituteField"} => ins.n[1] <= SplitBits
  /\ ins.op = "ReconstituteField" => ins.n[1] # 0
  /\ ins.op \in HashOps => AlignedWidth(ins.align) = Len(ins.args)

\* Operands that preprocess accepts pass every check it makes of them.
LEMMA TwinsStrict ==
  ASSUME NEW ins \in Instruction, WellShaped(ins), ins.op \in ValueOps,
         NEW a, a = [i \in 1..Len(ins.args) |-> a[i]], AllTyped(a), NEW vals \in OffGate(ins, a)
  PROVE  Strict(ins, a)
<1>1. ins.align \in Seq(Segment) /\ Len(ins.args) \in Nat
  BY DEF Instruction
<1>2. PICK n \in Nat : n = Len(ins.args)
  BY <1>1
<1>3. DOMAIN a = 1..n /\ a = [i \in 1..n |-> a[i]]
  BY <1>2
<1>4. CASE ins.op = "Assert"
  BY <1>4 DEF OffGate, AssertOff, Some, Strict, HashOps
<1>5. CASE ins.op = "ConstrainBits"
  <2>1. ins.n[1] < FR_BITS /\ a[1].val < 2^ins.n[1]
    BY <1>5 DEF OffGate, ConstrainBitsOff, FitsBits, Some, HashOps
  <2>2. n = 1
    BY <1>2, <1>5 DEF WellShaped, UnaryOps
  <2>3. \A j \in 1..1 : j = 1
    OBVIOUS
  <2>4. \A j \in DOMAIN a : a[j].val < 2^ins.n[1]
    BY <1>3, <2>1, <2>2, <2>3, Zenon
  <2> QED
    BY <1>5, <2>1, <2>4 DEF Strict, HashOps
<1>6. CASE ins.op = "LessThan"
  <2>1. ins.n[1] < FR_BITS /\ a[1].val < 2^ins.n[1] /\ a[2].val < 2^ins.n[1]
    BY <1>6 DEF OffGate, LessThanOff, FitsBits, Some, HashOps
  <2>2. n = 2
    BY <1>2, <1>6 DEF WellShaped, BinaryOps
  <2>3. \A j \in 1..2 : j = 1 \/ j = 2
    OBVIOUS
  <2>4. \A j \in DOMAIN a : a[j].val < 2^ins.n[1]
    BY <1>3, <2>1, <2>2, <2>3, Zenon
  <2> QED
    BY <1>6, <2>1, <2>4 DEF Strict, HashOps
<1>7. CASE ins.op = "DivModPowerOfTwo"
  BY <1>7 DEF OffGate, DivModPowerOfTwoOff, Some, Strict, HashOps
<1>8. CASE ins.op = "ReconstituteField"
  <2>1. ins.n[1] <= SplitBits /\ FR_BITS - ins.n[1] < FR_BITS
    BY <1>8 DEF OffGate, ReconstituteFieldOff, FitsBits, Some, HashOps
  <2>2. ins.n[1] # 0
    BY <2>1, Constants
  <2> QED
    BY <1>8, <2>1, <2>2 DEF Strict, HashOps
<1>9. CASE ins.op \in HashOps
  <2>1. vals \in ByteHashOff(ins, a)
    BY <1>9 DEF OffGate, HashOps
  <2>2. PICK T : T = TypesOf(a)
    OBVIOUS
  <2>3. DOMAIN T = 1..n /\ Len(T) = n /\ \A i \in 1..n : T[i] = a[i].ty
    BY <1>3, <2>2, TypesAre
  <2>4. AlignedWidth(ins.align) = n
    BY <1>1, <1>3, <2>1, <2>3, ByteHashTwin
  <2> QED
    BY <1>2, <1>9, <2>4 DEF Strict, HashOps
<1> QED
  BY <1>4, <1>5, <1>6, <1>7, <1>8, <1>9 DEF Strict, HashOps

------------------------------------------------------------------------------
(* The two codecs read back what they write.                                  *)

\* A number is the sum of its bytes, each at its place.
LEMMA ByteSums ==
  ASSUME NEW n \in 0..MAX_BYTES_LEN, NEW bs \in [1..n -> Octets]
  PROVE  \E f : /\ LeInt(bs) = f[n] /\ f[0] = 0
                /\ \A k \in Nat : k + 1 \in 1..n => f[k + 1] = f[k] + bs[k + 1] * ByteBase^k
                /\ \A k \in 0..n : f[k] \in Nat /\ f[k] < ByteBase^k
<1> DEFINE ns == [i \in DOMAIN bs |-> bs[i] * ByteBase^(i - 1)]
<1>0. n \in Nat /\ Len(ns) = n /\ ByteBase \in Nat /\ ByteBase > 3 /\ ByteBase^0 = 1
  BY Constants, PowerAssumption
<1>1. LeInt(bs) = Total(ns)
  BY DEF LeInt
<1>2. \A k \in Nat : k + 1 \in 1..n => ns[k + 1] = bs[k + 1] * ByteBase^k
  OBVIOUS
<1> HIDE DEF ns
<1>3. PICK f : Sums(f, ns, n) /\ Total(ns) = f[n]
  BY <1>0, TotalIs
<1>8. f[0] = 0 /\ \A k \in Nat : k + 1 \in 1..n => f[k + 1] = f[k] + bs[k + 1] * ByteBase^k
  <2>1. f[0] = 0
    BY <1>0, <1>3, SumsStep
  <2>2. ASSUME NEW k \in Nat, k + 1 \in 1..n
        PROVE  f[k + 1] = f[k] + bs[k + 1] * ByteBase^k
    BY <1>0, <1>2, <1>3, <2>2, SumsStep
  <2> QED
    BY <2>1, <2>2
<1> DEFINE S == {k \in Nat : k \in 0..n => f[k] \in Nat /\ f[k] < ByteBase^k}
<1>4. 0 \in S
  BY <1>0, <1>8
<1>5. ASSUME NEW k \in S
      PROVE  k + 1 \in S
  <2> SUFFICES ASSUME k + 1 \in 0..n
               PROVE  f[k + 1] \in Nat /\ f[k + 1] < ByteBase^(k + 1)
    OBVIOUS
  <2>1. k + 1 \in 1..n /\ k \in 0..n /\ k \in 0..MAX_BYTES_LEN
    BY <1>0, Constants
  <2>2. f[k + 1] = f[k] + bs[k + 1] * ByteBase^k
    BY <1>8, <2>1
  <2>3. bs[k + 1] \in Nat /\ bs[k + 1] <= ByteBase - 1
    BY <1>0, <2>1 DEF Octets
  <2>4. ByteBase^k \in Nat \ {0} /\ ByteBase^(k + 1) = ByteBase * ByteBase^k
    BY <2>1, PowerAssumption
  <2>5. PICK p \in Nat : p = ByteBase^k
    BY <2>4
  <2>6. PICK b \in Nat : b = bs[k + 1]
    BY <2>3
  <2>7. f[k] \in Nat /\ f[k] < p
    BY <2>1, <2>5
  <2>8. b < ByteBase
    BY <1>0, <2>3, <2>6
  <2>9. f[k] + b * p \in Nat /\ f[k] + b * p < ByteBase * p
    BY <1>0, <2>7, <2>8, NextPower
  <2> QED
    BY <2>2, <2>4, <2>5, <2>6, <2>9
<1> HIDE DEF S
<1>6. S \in SUBSET Nat
  BY DEF S
<1>7. S = Nat
  BY <1>4, <1>5, <1>6, InductionOnSet
<1>9. \A k \in 0..n : f[k] \in Nat /\ f[k] < ByteBase^k
  BY <1>0, <1>7 DEF S
<1> QED
  BY <1>1, <1>3, <1>8, <1>9

LEMMA DigitsRegroup ==
  ASSUME NEW p \in Nat, NEW b \in Nat, NEW d \in Nat, NEW r \in Nat
  PROVE  p * (b * d + r) = (b * p) * d + r * p
OBVIOUS

\* A number that fits n bytes is the number of its n bytes.
LEMMA IntOfBytes ==
  ASSUME NEW n \in 0..MAX_BYTES_LEN, NEW x \in Nat, x < ByteBase^n
  PROVE  LeInt(LeBytes(x, n)) = x
<1>0. n \in Nat /\ ByteBase \in Nat /\ ByteBase > 3 /\ ByteBase^0 = 1
  BY Constants, PowerAssumption
<1>1. PICK bs \in [1..n -> Octets] : bs = LeBytes(x, n)
  BY LeBytesTyped
<1>2. PICK f : /\ LeInt(bs) = f[n] /\ f[0] = 0
               /\ \A k \in Nat : k + 1 \in 1..n => f[k + 1] = f[k] + bs[k + 1] * ByteBase^k
               /\ \A k \in 0..n : f[k] \in Nat /\ f[k] < ByteBase^k
  BY ByteSums
<1> DEFINE S == {k \in Nat : k \in 0..n => x = ByteBase^k * (x \div ByteBase^k) + f[k]}
<1>3. 0 \in S
  <2>1. x \div 1 = x
    OBVIOUS
  <2>2. ByteBase^0 * (x \div ByteBase^0) = x
    BY <1>0, <2>1
  <2> QED
    BY <1>2, <2>2
<1>4. ASSUME NEW k \in S
      PROVE  k + 1 \in S
  <2> SUFFICES ASSUME k + 1 \in 0..n
               PROVE  x = ByteBase^(k + 1) * (x \div ByteBase^(k + 1)) + f[k + 1]
    OBVIOUS
  <2>1. k + 1 \in 1..n /\ k \in 0..n /\ k \in 0..MAX_BYTES_LEN /\ (k + 1) - 1 = k /\ k \in Nat
    BY <1>0, Constants
  <2>2. ByteBase^k \in Nat \ {0} /\ ByteBase^(k + 1) = ByteBase * ByteBase^k
    BY <2>1, PowerAssumption
  <2>3. PICK p \in Nat : p = ByteBase^k /\ p > 0
    BY <2>2
  <2>4. PICK q \in Nat : q = x \div p
    BY <2>3, DivNat
  <2>5. x = p * q + f[k]
    BY <2>1, <2>3, <2>4
  <2>6. PICK b \in Nat : b = ByteBase /\ b > 0
    BY <1>0
  <2>7. PICK d \in Nat : d = q \div b
    BY <2>6, DivNat
  <2>8. PICK r \in Nat : r = q % b /\ q = b * d + r
    <3>1. q % b = q - b * d /\ q % b \in 0..b - 1
      BY <2>6, <2>7, ModIs, ModRange
    <3>2. b * d \in Nat
      BY <2>6, <2>7
    <3> QED
      BY <3>1, <3>2
  <2>9. bs[k + 1] = r
    BY <1>1, <2>1, <2>3, <2>4, <2>6, <2>8 DEF LeBytes
  <2>10. f[k + 1] = f[k] + r * p
    BY <1>2, <2>1, <2>3, <2>9
  <2>11. x = (b * p) * d + f[k + 1]
    <3>1. p * (b * d + r) = (b * p) * d + r * p
      BY DigitsRegroup
    <3>2. f[k] \in Nat
      BY <1>2, <2>1
    <3>3. (b * p) * d \in Nat /\ r * p \in Nat
      BY <2>3, <2>6, <2>7, <2>8
    <3>4. p * q = (b * p) * d + r * p
      BY <2>8, <3>1
    <3> HIDE DEF S
    <3>5. PICK u \in Nat, v \in Nat, w \in Nat : u = (b * p) * d /\ v = r * p /\ w = f[k]
      BY <3>2, <3>3
    <3>6. x = (u + v) + w /\ f[k + 1] = w + v
      BY <2>5, <2>10, <3>4, <3>5
    <3> QED
      BY <3>5, <3>6
  <2>12. PICK m \in Nat : m = b * p /\ m = ByteBase^(k + 1)
    BY <2>2, <2>3, <2>6
  <2>13. PICK g \in Nat : g = f[k + 1] /\ g < m
    <3>1. k + 1 \in 0..n
      BY <2>1
    <3> QED
      BY <1>2, <2>12, <3>1
  <2>14. x = m * d + g
    BY <2>11, <2>12, <2>13
  <2>15. x \div m = d
    BY <2>13, <2>14, TwoDigits
  <2> QED
    BY <2>12, <2>13, <2>14, <2>15
<1> HIDE DEF S
<1>5. S \in SUBSET Nat
  BY DEF S
<1>6. S = Nat
  BY <1>3, <1>4, <1>5, InductionOnSet
<1>7. x = ByteBase^n * (x \div ByteBase^n) + f[n]
  BY <1>0, <1>6 DEF S
<1>8. PICK p \in Nat : p = ByteBase^n /\ p > 0
  <2>1. ByteBase^n \in Nat \ {0}
    BY PowerAssumption
  <2> QED
    BY <2>1
<1>9. x \div p = 0
  <2>1. x < p * 1
    BY <1>8
  <2>2. x \div p < 1
    BY <1>8, <2>1, DivBelow
  <2>3. x \div p \in Nat
    BY <1>8, DivNat
  <2> QED
    BY <2>2, <2>3
<1>10. f[n] \in Nat
  BY <1>0, <1>2
<1>11. x = f[n]
  BY <1>7, <1>8, <1>9, <1>10
<1> QED
  BY <1>1, <1>2, <1>11

\* The bytes of the number a byte string stands for are the string.
LEMMA BytesOfInt ==
  ASSUME NEW n \in 0..MAX_BYTES_LEN, NEW bs \in [1..n -> Octets]
  PROVE  LeBytes(LeInt(bs), n) = bs
<1>0. n \in Nat /\ ByteBase \in Nat /\ ByteBase > 3 /\ ByteBase^0 = 1
  BY Constants, PowerAssumption
<1>2. PICK f : /\ LeInt(bs) = f[n] /\ f[0] = 0
               /\ \A k \in Nat : k + 1 \in 1..n => f[k + 1] = f[k] + bs[k + 1] * ByteBase^k
               /\ \A k \in 0..n : f[k] \in Nat /\ f[k] < ByteBase^k
  BY ByteSums
<1>3. PICK x \in Nat : x = LeInt(bs) /\ x = f[n]
  <2>1. n \in 0..n
    BY <1>0
  <2> QED
    BY <1>2, <2>1
<1> DEFINE S == {k \in Nat : k \in 0..n => \E r \in Nat : x = ByteBase^(n - k) * r + f[n - k]}
<1>4. 0 \in S
  <2>1. n - 0 = n
    BY <1>0
  <2>2. PICK p \in Nat : p = ByteBase^n
    BY PowerAssumption
  <2>3. x = p * 0 + f[n]
    BY <1>3, <2>2
  <2> QED
    BY <2>1, <2>2, <2>3
<1>5. ASSUME NEW k \in S, k + 1 \in 0..n
      PROVE  \E j \in Nat, r \in Nat :
               /\ j = n - (k + 1) /\ j + 1 \in 1..n
               /\ x = ByteBase^j * (ByteBase * r + bs[j + 1]) + f[j]
  <2>1. PICK j \in Nat : j = n - (k + 1) /\ j + 1 = n - k /\ j + 1 \in 1..n /\ k \in 0..n
    BY <1>0, <1>5
  <2>2. PICK r \in Nat : x = ByteBase^(j + 1) * r + f[j + 1]
    BY <2>1
  <2>3. f[j + 1] = f[j] + bs[j + 1] * ByteBase^j
    BY <1>2, <2>1
  <2>4. j \in 0..MAX_BYTES_LEN /\ j \in 0..n
    BY <1>0, <2>1, Constants
  <2>5. PICK p \in Nat : p = ByteBase^j /\ ByteBase^(j + 1) = ByteBase * p
    BY <2>4, PowerAssumption
  <2>6. PICK b \in Nat : b = ByteBase
    BY <1>0
  <2>7. PICK d \in Nat : d = bs[j + 1]
    BY <1>0, <2>1 DEF Octets
  <2>8. PICK g \in Nat : g = f[j]
    BY <1>2, <2>4
  <2>9. x = (b * p) * r + (g + d * p)
    BY <2>2, <2>3, <2>5, <2>6, <2>7, <2>8
  <2>10. (b * p) * r + (g + d * p) = p * (b * r + d) + g
    <3>1. p * (b * r + d) = (b * p) * r + d * p
      BY DigitsRegroup
    <3>2. (b * p) * r \in Nat /\ d * p \in Nat
      OBVIOUS
    <3> QED
      BY <3>1, <3>2
  <2>11. x = ByteBase^j * (ByteBase * r + bs[j + 1]) + f[j]
    BY <2>5, <2>6, <2>7, <2>8, <2>9, <2>10
  <2> QED
    BY <2>1, <2>2, <2>11
<1>6. ASSUME NEW k \in S
      PROVE  k + 1 \in S
  <2> SUFFICES ASSUME k + 1 \in 0..n
               PROVE  \E r \in Nat : x = ByteBase^(n - (k + 1)) * r + f[n - (k + 1)]
    OBVIOUS
  <2>1. PICK j \in Nat, r \in Nat :
               /\ j = n - (k + 1) /\ j + 1 \in 1..n
               /\ x = ByteBase^j * (ByteBase * r + bs[j + 1]) + f[j]
    BY <1>5
  <2>2. ByteBase * r + bs[j + 1] \in Nat
    <3>1. bs[j + 1] \in Nat
      BY <1>0, <2>1 DEF Octets
    <3>2. ByteBase * r \in Nat
      BY <1>0
    <3> QED
      BY <3>1, <3>2
  <2> QED
    BY <2>1, <2>2
<1>7. S \in SUBSET Nat
  OBVIOUS
<1>8. S = Nat
  <2> HIDE DEF S
  <2> QED
    BY <1>4, <1>6, <1>7, InductionOnSet
<1>9. ASSUME NEW i \in 1..n
      PROVE  (x \div ByteBase^(i - 1)) % ByteBase = bs[i]
  <2>1. PICK k \in Nat : k = n - i /\ k + 1 \in 0..n /\ k \in S
    <3>1. n - i \in Nat /\ (n - i) + 1 \in 0..n
      BY <1>0
    <3> HIDE DEF S
    <3> QED
      BY <1>8, <3>1
  <2> HIDE DEF S
  <2>2. PICK j \in Nat, r \in Nat :
               /\ j = n - (k + 1) /\ j + 1 \in 1..n
               /\ x = ByteBase^j * (ByteBase * r + bs[j + 1]) + f[j]
    BY <1>5, <2>1
  <2>3. j + 1 = i /\ j = i - 1 /\ j \in 0..n /\ j \in 0..MAX_BYTES_LEN
    BY <1>0, <2>1, <2>2, Constants
  <2>4. PICK d \in Nat : d = bs[i] /\ d < ByteBase
    BY <1>0 DEF Octets
  <2>5. PICK b \in Nat : b = ByteBase
    BY <1>0
  <2>6. PICK p \in Nat, g \in Nat : p = ByteBase^j /\ g = f[j] /\ g < p
    BY <1>2, <2>3, PowerAssumption
  <2>7. PICK h \in Nat : h = b * r + d
    BY <2>2, <2>4, <2>5
  <2>8. x = p * h + g
    BY <2>2, <2>3, <2>4, <2>5, <2>6, <2>7
  <2>9. x \div p = h
    BY <2>6, <2>7, <2>8, TwoDigits
  <2>10. d < b
    BY <2>4, <2>5
  <2>11. h % b = d
    BY <2>2, <2>4, <2>5, <2>7, <2>10, TwoDigits
  <2> QED
    BY <2>3, <2>4, <2>5, <2>6, <2>9, <2>11
<1>10. LeBytes(x, n) = [i \in 1..n |-> bs[i]]
  BY <1>9 DEF LeBytes
<1> QED
  BY <1>3, <1>10

\* The bytes of the i-th chunk of a string of n bytes.
ChunkBody(bs, n, i) == [j \in 1..ChunkBytes(n, i) |-> bs[ChunkLen * (i - 1) + j]]

\* A chunk of a byte string, byte by byte.
LEMMA ChunkAtIs ==
  ASSUME NEW S, NEW n \in Nat, NEW bs \in [1..n -> S], NEW i \in 1..DivCeil(n, ChunkLen)
  PROVE  ChunkAt(bs, i) = ChunkBody(bs, n, i)
<1>1. PICK d \in Nat : d = ChunkLen /\ d > 0
  BY Constants
<1>2. DivCeil(n, ChunkLen) \in Nat
  BY ChunkCount
<1>3. PICK e \in Nat : e = d * (i - 1) /\ e < n
  BY <1>1, <1>2, ChunkCount
<1>4. d * i = e + d
  BY <1>1, <1>2, <1>3
<1>5. PICK m \in Nat : m = ChunkBytes(n, i) /\ e + m = IF e + d <= n THEN e + d ELSE n
  BY <1>1, <1>2, <1>3, <1>4, ChunkSizes
<1>0. Len(bs) = n
  OBVIOUS
<1>6. ChunkAt(bs, i) = SubSeq(bs, e + 1, e + m)
  <2>1. e + m = IF e + d < n THEN e + d ELSE n
    BY <1>1, <1>3, <1>5
  <2> QED
    BY <1>0, <1>1, <1>3, <1>4, <2>1 DEF ChunkAt
<1>7. SubSeq(bs, e + 1, e + m) = [j \in 1..m |-> bs[e + j]]
  <2>1. e + m <= n
    BY <1>1, <1>3, <1>5
  <2> QED
    BY <1>0, <2>1
<1> QED
  BY <1>1, <1>3, <1>5, <1>6, <1>7 DEF ChunkBody

\* Whole chunks take ChunkLen bytes each.
LEMMA WholeChunks ==
  ASSUME NEW S, NEW t \in Seq(Seq(S)), NEW k \in Nat, k <= Len(t),
         \A i \in 1..k : Len(t[i]) = ChunkLen
  PROVE  FlattenSeq(FirstOf(t, k)) \in Seq(S) /\ Len(FlattenSeq(FirstOf(t, k))) = ChunkLen * k
<1>1. PICK d \in Nat : d = ChunkLen
  BY Constants
<1>2. PICK w \in Nat : w = Len(t) /\ k <= w
  BY LenProperties
<1>3. ASSUME NEW j \in Nat, j <= w
      PROVE  FirstOf(t, j) \in Seq(Seq(S)) /\ Len(FirstOf(t, j)) = j
  <2>1. \A i \in 1..j : t[i] \in Seq(S)
    <3>1. \A i \in 1..j : i \in 1..Len(t)
      BY <1>2, <1>3
    <3> QED
      BY <3>1, ElementOfSeq
  <2> QED
    BY <2>1, IsASeq DEF FirstOf
<1> DEFINE K == {j \in Nat : j <= k => Len(FlattenSeq(FirstOf(t, j))) = d * j}
<1>4. 0 \in K
  <2>1. FirstOf(t, 0) = <<>>
    BY DEF FirstOf
  <2> QED
    BY <1>1, <2>1, FlattenEmpty
<1>5. ASSUME NEW j \in K
      PROVE  j + 1 \in K
  <2> SUFFICES ASSUME j + 1 <= k PROVE Len(FlattenSeq(FirstOf(t, j + 1))) = d * (j + 1)
    OBVIOUS
  <2>1. j \in Nat /\ j <= k /\ j <= w /\ j + 1 <= w /\ j + 1 \in 1..k /\ j + 1 \in Nat
    BY <1>2
  <2>2. Len(FlattenSeq(FirstOf(t, j))) = d * j
    BY <2>1
  <2> HIDE DEF K
  <2>3. FirstOf(t, j) = [i \in 1..j |-> FirstOf(t, j + 1)[i]] /\ FirstOf(t, j + 1)[j + 1] = t[j + 1]
    BY <2>1 DEF FirstOf
  <2>4. FirstOf(t, j + 1) \in Seq(Seq(S)) /\ Len(FirstOf(t, j + 1)) = j + 1
    BY <1>3, <2>1
  <2>5. FlattenSeq(FirstOf(t, j + 1)) = FlattenSeq(FirstOf(t, j)) \o t[j + 1]
    <3>1. PICK u : u = FirstOf(t, j)
      OBVIOUS
    <3>2. PICK v \in Seq(Seq(S)) : v = FirstOf(t, j + 1)
      BY <2>4
    <3>3. u = [i \in 1..j |-> v[i]] /\ Len(v) = j + 1 /\ v[j + 1] = t[j + 1]
      BY <2>3, <2>4, <3>1, <3>2
    <3>4. FlattenSeq(v) = FlattenSeq(u) \o v[j + 1]
      BY <2>1, <3>3, FlattenMore
    <3> QED
      BY <3>1, <3>2, <3>3, <3>4
  <2>6. FlattenSeq(FirstOf(t, j)) \in Seq(S)
    BY <1>3, <2>1, FlattenTyped
  <2>7. t[j + 1] \in Seq(S) /\ Len(t[j + 1]) = d
    <3>1. j + 1 \in 1..Len(t)
      BY <1>2, <2>1
    <3> QED
      BY <1>1, <2>1, <3>1, ElementOfSeq
  <2>8. Len(FlattenSeq(FirstOf(t, j)) \o t[j + 1]) = d * j + d
    <3>1. PICK u \in Seq(S) : u = FlattenSeq(FirstOf(t, j))
      BY <2>6
    <3>2. PICK v \in Seq(S) : v = t[j + 1]
      BY <2>7
    <3>3. Len(u \o v) = Len(u) + Len(v)
      BY ConcatProperties
    <3> QED
      BY <2>2, <2>7, <3>1, <3>2, <3>3
  <2>9. d * (j + 1) = d * j + d
    BY <1>1, <2>1
  <2> QED
    BY <2>5, <2>8, <2>9
<1> HIDE DEF K
<1>6. K \in SUBSET Nat
  BY DEF K
<1>7. K = Nat
  BY <1>4, <1>5, <1>6, InductionOnSet
<1>8. FlattenSeq(FirstOf(t, k)) \in Seq(S)
  BY <1>2, <1>3, FlattenTyped
<1>9. k \in K
  BY <1>7
<1>10. Len(FlattenSeq(FirstOf(t, k))) = d * k
  BY <1>9 DEF K
<1> QED
  BY <1>1, <1>8, <1>10

\* Where the bytes of a chunk are in the string the chunks make up.
LEMMA ChunkPlaces ==
  ASSUME NEW S, NEW n \in Nat \ {0}, NEW t \in Seq(Seq(S)), Len(t) = DivCeil(n, ChunkLen),
         \A i \in 1..DivCeil(n, ChunkLen) : Len(t[i]) = ChunkBytes(n, i)
  PROVE  /\ FlattenSeq(t) \in [1..n -> S]
         /\ \A i \in 1..DivCeil(n, ChunkLen) : \A j \in 1..ChunkBytes(n, i) :
              FlattenSeq(t)[ChunkLen * (i - 1) + j] = t[i][j]
<1>1. PICK d \in Nat : d = ChunkLen /\ d > 0
  BY Constants
<1>2. PICK w \in Nat : w = DivCeil(n, ChunkLen)
  BY ChunkCount
<1>3. FlattenSeq(t) \in [1..n -> S]
  <2> DEFINE ns == [i \in 1..w |-> ChunkBytes(n, i)]
  <2>1. Len(ns) = Len(t) /\ \A i \in 1..Len(t) : ns[i] = Len(t[i])
    BY <1>2
  <2>2. DOMAIN ns = 1..DivCeil(n, ChunkLen) /\ \A i \in 1..DivCeil(n, ChunkLen) : ns[i] = ChunkBytes(n, i)
    BY <1>2
  <2> HIDE DEF ns
  <2>3. FlattenSeq(t) \in Seq(S) /\ Len(FlattenSeq(t)) = Total(ns)
    BY <2>1, FlattenTotal
  <2>4. Total(ns) = n
    BY <2>2, ChunkTotal
  <2> QED
    BY <2>3, <2>4, LenProperties, ElementOfSeq
<1>4. ASSUME NEW i \in 1..w, NEW j \in 1..ChunkBytes(n, i)
      PROVE  FlattenSeq(t)[d * (i - 1) + j] = t[i][j]
  <2>1. PICK k \in Nat : k + 1 = i /\ k = i - 1 /\ k < w
    OBVIOUS
  <2>2. d * k < n
    BY <1>1, <1>2, <2>1, ChunkCount
  <2>3. ASSUME NEW h \in 1..k
        PROVE  Len(t[h]) = ChunkLen
    <3>1. h \in 1..w
      BY <2>1
    <3>2. d * h <= d * k
      BY <1>1, TimesMonotone
    <3>3. d * h <= n
      BY <1>1, <2>2, <3>2
    <3>4. ChunkBytes(n, h) = ChunkLen
      BY <1>1, <3>3 DEF ChunkBytes
    <3> QED
      BY <1>2, <3>1, <3>4
  <2>4. FlattenSeq(FirstOf(t, k)) \in Seq(S) /\ Len(FlattenSeq(FirstOf(t, k))) = d * k
    BY <1>1, <1>2, <2>1, <2>3, WholeChunks
  <2>5. t[i] \in Seq(S) /\ Len(t[i]) = ChunkBytes(n, i)
    BY <1>2, ElementOfSeq
  <2>6. PICK rest \in Seq(S) : FlattenSeq(t) = Cat(Cat(FlattenSeq(FirstOf(t, k)), t[k + 1]), rest)
    <3>1. k < Len(t)
      BY <1>2, <2>1
    <3> QED
      BY <3>1, FlattenSplits
  <2>7. j \in DOMAIN t[i]
    BY <2>5, LenProperties
  <2>8. PICK u \in Seq(S), x \in Seq(S) : u = FlattenSeq(FirstOf(t, k)) /\ x = t[i]
    BY <2>4, <2>5
  <2>9. Cat(Cat(u, x), rest)[Len(u) + j] = x[j]
    BY <2>7, <2>8, CatMiddle
  <2> QED
    BY <2>1, <2>4, <2>6, <2>8, <2>9
<1> QED
  BY <1>1, <1>2, <1>3, <1>4

\* The string is cut where its chunks were joined.
LEMMA ChunksOfFlat ==
  ASSUME NEW S, NEW n \in Nat \ {0}, NEW t \in Seq(Seq(S)), Len(t) = DivCeil(n, ChunkLen),
         \A i \in 1..DivCeil(n, ChunkLen) : Len(t[i]) = ChunkBytes(n, i)
  PROVE  Chunks(FlattenSeq(t)) = t
<1>1. PICK bs \in [1..n -> S] : bs = FlattenSeq(t)
  BY ChunkPlaces
<1>2. PICK w \in Nat : w = DivCeil(n, ChunkLen)
  BY ChunkCount
<1>3. Len(bs) = n
  OBVIOUS
<1>0. \A i \in 1..DivCeil(n, ChunkLen) : \A j \in 1..ChunkBytes(n, i) :
        FlattenSeq(t)[ChunkLen * (i - 1) + j] = t[i][j]
  BY ChunkPlaces
<1>4. ASSUME NEW i \in 1..w
      PROVE  ChunkAt(bs, i) = t[i]
  <2>1. PICK m \in Nat : m = ChunkBytes(n, i)
    BY <1>2, ChunkSizes
  <2>2. ChunkAt(bs, i) = [j \in 1..m |-> bs[ChunkLen * (i - 1) + j]]
    <3>1. n \in Nat /\ i \in 1..DivCeil(n, ChunkLen)
      BY <1>2
    <3>2. ChunkAt(bs, i) = ChunkBody(bs, n, i)
      BY <3>1, ChunkAtIs
    <3> QED
      BY <2>1, <3>2 DEF ChunkBody
  <2>3. ASSUME NEW j \in 1..m
        PROVE  bs[ChunkLen * (i - 1) + j] = t[i][j]
    <3>1. i \in 1..DivCeil(n, ChunkLen) /\ j \in 1..ChunkBytes(n, i)
      BY <1>2, <2>1
    <3>2. FlattenSeq(t)[ChunkLen * (i - 1) + j] = t[i][j]
      BY <1>0, <3>1
    <3> QED
      BY <1>1, <3>2
  <2>4. t[i] \in Seq(S) /\ Len(t[i]) = m
    BY <1>2, <2>1, ElementOfSeq
  <2>5. t[i] = [j \in 1..m |-> t[i][j]]
    BY <2>4, SeqIsTuple
  <2> QED
    BY <2>2, <2>3, <2>5
<1>5. Chunks(bs) = [i \in 1..w |-> ChunkAt(bs, i)]
  BY <1>2, <1>3 DEF Chunks
<1>6. t = [i \in 1..w |-> t[i]]
  BY <1>2, SeqIsTuple
<1> QED
  BY <1>1, <1>4, <1>5, <1>6

\* The chunks of a string make it up again.
LEMMA FlatOfChunks ==
  ASSUME NEW S, NEW n \in Nat \ {0}, NEW bs \in [1..n -> S]
  PROVE  FlattenSeq(Chunks(bs)) = bs
<1>1. PICK d \in Nat : d = ChunkLen /\ d > 0
  BY Constants
<1>2. PICK w \in Nat : w = DivCeil(n, ChunkLen) /\ n <= d * w
  BY <1>1, ChunkCount
<1>3. Len(bs) = n
  OBVIOUS
<1>4. PICK t : t = Chunks(bs) /\ t = [i \in 1..w |-> ChunkAt(bs, i)]
  BY <1>2, <1>3 DEF Chunks
<1>5. ASSUME NEW i \in 1..w
      PROVE  /\ t[i] = [j \in 1..ChunkBytes(n, i) |-> bs[ChunkLen * (i - 1) + j]]
             /\ t[i] \in Seq(S) /\ Len(t[i]) = ChunkBytes(n, i)
  <2>1. PICK m \in Nat : m = ChunkBytes(n, i)
    BY <1>2, ChunkSizes
  <2>2. t[i] = [j \in 1..m |-> bs[ChunkLen * (i - 1) + j]]
    <3>1. n \in Nat /\ i \in 1..DivCeil(n, ChunkLen)
      BY <1>2
    <3>2. ChunkAt(bs, i) = ChunkBody(bs, n, i)
      BY <3>1, ChunkAtIs
    <3>3. t[i] = ChunkAt(bs, i)
      BY <1>4
    <3> QED
      BY <2>1, <3>2, <3>3 DEF ChunkBody
  <2>3. PICK e \in Nat : e = d * (i - 1)
    BY <1>1, <1>2, ChunkCount
  <2>4. e + m <= n
    <3>1. d * i = e + d
      BY <1>1, <2>3
    <3>2. e + m = IF e + d <= n THEN e + d ELSE n
      BY <1>1, <1>2, <2>1, <2>3, <3>1, ChunkSizes
    <3> QED
      BY <1>1, <3>2
  <2>5. \A j \in 1..m : bs[e + j] \in S
    BY <2>4
  <2>6. t[i] \in Seq(S) /\ Len(t[i]) = m
    BY <1>1, <2>2, <2>3, <2>5, IsASeq
  <2> QED
    BY <2>1, <2>2, <2>6
<1>6. t \in Seq(Seq(S)) /\ Len(t) = w
  <2>1. \A i \in 1..w : t[i] \in Seq(S)
    BY <1>5
  <2>2. t = [i \in 1..w |-> t[i]] /\ Len(t) = w
    BY <1>4
  <2> QED
    BY <2>1, <2>2, IsASeq
<1>7. /\ FlattenSeq(t) \in [1..n -> S]
      /\ \A i \in 1..w : \A j \in 1..ChunkBytes(n, i) : FlattenSeq(t)[d * (i - 1) + j] = t[i][j]
  BY <1>1, <1>2, <1>5, <1>6, ChunkPlaces
<1>8. ASSUME NEW p \in 1..n
      PROVE  FlattenSeq(t)[p] = bs[p]
  <2>1. PICK q \in Nat : q = p - 1
    OBVIOUS
  <2>2. PICK k \in Nat : k = q \div d
    BY <1>1, DivNat
  <2>3. PICK r \in Nat : r = q % d /\ r < d /\ q = d * k + r
    <3>1. q % d = q - d * k /\ q % d \in 0..d - 1
      BY <1>1, <2>2, ModIs, ModRange
    <3>2. d * k \in Nat
      BY <1>1
    <3> QED
      BY <1>1, <3>1, <3>2
  <2>4. PICK e \in Nat : e = d * k /\ e + r + 1 = p
    BY <1>1, <2>1, <2>3
  <2>5. k + 1 \in 1..w /\ (k + 1) - 1 = k
    <3> SUFFICES ASSUME k >= w PROVE FALSE
      BY <1>2
    <3>1. d * w <= d * k
      BY <1>2, TimesMonotone
    <3> QED
      BY <1>2, <2>4, <3>1
  <2>6. r + 1 \in 1..ChunkBytes(n, k + 1)
    <3>1. d * (k + 1) = e + d
      BY <1>1, <2>4
    <3>2. ChunkBytes(n, k + 1) \in Nat /\ e + ChunkBytes(n, k + 1) = IF e + d <= n THEN e + d ELSE n
      BY <1>1, <1>2, <2>4, <2>5, <3>1, ChunkSizes
    <3> QED
      BY <1>1, <2>3, <2>4, <3>2
  <2>7. FlattenSeq(t)[e + (r + 1)] = t[k + 1][r + 1]
    BY <1>7, <2>4, <2>5, <2>6
  <2>8. t[k + 1][r + 1] = bs[e + (r + 1)]
    <3>1. ChunkLen * ((k + 1) - 1) = e
      BY <1>1, <2>4, <2>5
    <3>2. t[k + 1] = [j \in 1..ChunkBytes(n, k + 1) |-> bs[ChunkLen * ((k + 1) - 1) + j]]
      BY <1>5, <2>5
    <3> QED
      BY <2>6, <3>1, <3>2
  <2>9. e + (r + 1) = p
    BY <2>4
  <2> QED
    BY <2>7, <2>8, <2>9
<1>9. FlattenSeq(t) = bs
  BY <1>7, <1>8
<1> QED
  BY <1>4, <1>9

\* A chunk of n bytes is ChunkBytes(n, i) of them.
LEMMA ChunkRange ==
  ASSUME NEW S, NEW n \in Nat, NEW bs \in [1..n -> S], NEW i \in 1..DivCeil(n, ChunkLen)
  PROVE  ChunkAt(bs, i) \in [1..ChunkBytes(n, i) -> S] /\ ChunkBytes(n, i) \in Nat
         /\ ChunkBytes(n, i) <= ChunkLen
<1>1. PICK d \in Nat : d = ChunkLen /\ d > 0
  BY Constants
<1>2. PICK w \in Nat : w = DivCeil(n, ChunkLen)
  BY ChunkCount
<1>3. PICK e \in Nat : e = d * (i - 1) /\ e < n
  BY <1>1, <1>2, ChunkCount
<1>4. d * i = e + d
  BY <1>1, <1>2, <1>3
<1>5. PICK m \in Nat : m = ChunkBytes(n, i) /\ e + m = IF e + d <= n THEN e + d ELSE n
  BY <1>1, <1>2, <1>3, <1>4, ChunkSizes
<1>6. e + m <= n /\ m <= d
  BY <1>1, <1>3, <1>5
<1>7. \A j \in 1..m : bs[e + j] \in S
  BY <1>6
<1>8. ChunkAt(bs, i) = [j \in 1..m |-> bs[e + j]]
  <2>1. ChunkAt(bs, i) = ChunkBody(bs, n, i)
    BY ChunkAtIs
  <2> QED
    BY <1>1, <1>3, <1>5, <2>1 DEF ChunkBody
<1> QED
  BY <1>1, <1>5, <1>6, <1>7, <1>8

\* The elements of a byte string, each below the bound of its chunk, and what
\* their bytes make up.
LEMMA BytesBack ==
  ASSUME NEW n \in 1..MAX_BYTES_LEN, NEW v, v = V(Bytes(n), v.val), v.val \in [1..n -> Octets]
  PROVE  v \in decode_bytes(Encode(v), n)
<1>1. PICK q \in Nat : q = DivCeil(n, ChunkLen)
  BY ChunkCount, Constants
<1>2. PICK bs \in [1..n -> Octets] : bs = v.val
  OBVIOUS
<1>3. n \in Nat /\ n # 0 /\ Len(bs) = n
  BY Constants
<1>4. PICK enc : enc = Encode(v) /\ enc = [i \in 1..q |-> LeInt(ChunkAt(bs, i))]
  <2>0. v.ty = Bytes(n)
    BY DEF V
  <2>1. Encode(v) = [i \in DOMAIN Chunks(bs) |-> LeInt(Chunks(bs)[i])]
    BY <1>2, <2>0, EncodeIs
  <2>2. Chunks(bs) = [i \in 1..q |-> ChunkAt(bs, i)]
    BY <1>1, <1>3 DEF Chunks
  <2> QED
    BY <2>1, <2>2
<1>5. ASSUME NEW i \in 1..q
      PROVE  enc[i] < ByteBase^ChunkBytes(n, i) /\ LeBytes(enc[i], ChunkBytes(n, i)) = ChunkAt(bs, i)
  <2>1. PICK m \in Nat : m = ChunkBytes(n, i) /\ m <= ChunkLen /\ ChunkAt(bs, i) \in [1..m -> Octets]
    BY <1>1, <1>3, ChunkRange
  <2>2. m \in 0..MAX_BYTES_LEN
    BY <2>1, Constants
  <2>3. PICK cs \in [1..m -> Octets] : cs = ChunkAt(bs, i)
    BY <2>1
  <2>4. LeInt(cs) < ByteBase^m /\ LeBytes(LeInt(cs), m) = cs
    BY <2>2, LeIntRange, BytesOfInt
  <2>5. enc[i] = LeInt(cs)
    BY <1>4, <2>3
  <2> QED
    BY <2>1, <2>3, <2>4, <2>5
<1>6. [i \in DOMAIN enc |-> LeBytes(enc[i], ChunkBytes(n, i))] = Chunks(bs)
  <2>1. Chunks(bs) = [i \in 1..q |-> ChunkAt(bs, i)]
    BY <1>1, <1>3 DEF Chunks
  <2>2. DOMAIN enc = 1..q
    BY <1>4
  <2> QED
    BY <1>5, <2>1, <2>2
<1>7. FlattenSeq(Chunks(bs)) = bs
  BY <1>3, FlatOfChunks
<1>8. Len(enc) = q /\ DOMAIN enc = 1..q
  BY <1>4
<1>9. V(Bytes(n), bs) \in decode_bytes(enc, n)
  <2>1. FlattenSeq([i \in DOMAIN enc |-> LeBytes(enc[i], ChunkBytes(n, i))]) = bs
    BY <1>6, <1>7
  <2>2. \A i \in DOMAIN enc : enc[i] < ByteBase^ChunkBytes(n, i)
    BY <1>5, <1>8
  <2> QED
    BY <1>1, <1>8, <2>1, <2>2 DEF decode_bytes, Some
<1> QED
  BY <1>2, <1>4, <1>9

\* What from_public_input returns, type by type: the converse of FromPublicInputIs.
LEMMA IntoPublicInput ==
  ASSUME NEW enc, NEW t, Len(enc) = encoded_len(t)
  PROVE  /\ t = Native => Fr(enc[1]) \in FromPublicInput(enc, t)
         /\ t \in {Bool, Byte, Scalar("Jubjub")} => V(t, enc[1] % Order(t)) \in FromPublicInput(enc, t)
         /\ \A n : t = Bytes(n) => \A v \in decode_bytes(enc, n) : v \in FromPublicInput(enc, t)
         /\ \A c : t = Point(c) => \A k \in PointFromRaw(c, enc) : V(t, k) \in FromPublicInput(enc, t)
         /\ \A c \in Foreign : t \in {Scalar(c), <<"Base", c>>} =>
              V(t, FromLimbs(enc[1], enc[2]) % Order(t)) \in FromPublicInput(enc, t)
<1>2. t = Native => Fr(enc[1]) \in FromPublicInput(enc, t)
  BY Tags DEF FromPublicInput
<1>3. t \in {Bool, Byte, Scalar("Jubjub")} => V(t, enc[1] % Order(t)) \in FromPublicInput(enc, t)
  BY Tags DEF FromPublicInput
<1>4. \A n : t = Bytes(n) => \A v \in decode_bytes(enc, n) : v \in FromPublicInput(enc, t)
  BY Tags DEF FromPublicInput
<1>5. \A c : t = Point(c) => \A k \in PointFromRaw(c, enc) : V(t, k) \in FromPublicInput(enc, t)
  BY Tags DEF FromPublicInput
<1>6. \A c \in Foreign : t \in {Scalar(c), <<"Base", c>>} =>
        V(t, FromLimbs(enc[1], enc[2]) % Order(t)) \in FromPublicInput(enc, t)
  BY Tags DEF FromPublicInput, Foreign
<1> QED
  BY <1>2, <1>3, <1>4, <1>5, <1>6

\* Two limbs are put together again.
LEMMA LimbsBack ==
  ASSUME NEW x \in Nat
  PROVE  FromLimbs(Limbs(x)[1], Limbs(x)[2]) = x /\ Limbs(x) = <<x % LimbBase, x \div LimbBase>>
<1>1. LimbBase \in Nat /\ LimbBase > 0
  BY Constants
<1>2. x % LimbBase = x - LimbBase * (x \div LimbBase) /\ x \div LimbBase \in Nat
  BY <1>1, ModIs, DivNat
<1>3. LimbBase * (x \div LimbBase) \in Nat
  BY <1>1, <1>2
<1>4. Limbs(x) = <<x % LimbBase, x \div LimbBase>>
  BY DEF Limbs
<1>5. FromLimbs(x % LimbBase, x \div LimbBase) = (x % LimbBase) + LimbBase * (x \div LimbBase)
  BY DEF FromLimbs
<1> QED
  BY <1>2, <1>3, <1>4, <1>5

LEMMA FourPlaces ==
  ASSUME NEW S, NEW a \in S, NEW b \in S, NEW d \in S, NEW e \in S, NEW z \in S
  PROVE  /\ FourLimbs(a, b, d, e)[1] = a /\ FourLimbs(a, b, d, e)[2] = b
         /\ FourLimbs(a, b, d, e)[3] = d /\ FourLimbs(a, b, d, e)[4] = e
         /\ FiveLimbs(a, b, d, e, z)[1] = a /\ FiveLimbs(a, b, d, e, z)[2] = b
         /\ FiveLimbs(a, b, d, e, z)[3] = d /\ FiveLimbs(a, b, d, e, z)[4] = e
         /\ FiveLimbs(a, b, d, e, z)[5] = z
<1>1. ASSUME NEW p \in Seq(S), NEW q \in Seq(S), NEW r \in Seq(S), Len(p) = 2, Len(q) = 2, Len(r) = 1
      PROVE  /\ (p \o q)[1] = p[1] /\ (p \o q)[2] = p[2] /\ (p \o q)[3] = q[1] /\ (p \o q)[4] = q[2]
             /\ (p \o q \o r)[1] = p[1] /\ (p \o q \o r)[2] = p[2] /\ (p \o q \o r)[3] = q[1]
             /\ (p \o q \o r)[4] = q[2] /\ (p \o q \o r)[5] = r[1]
  <2>0. p \o q \in Seq(S) /\ Len(p \o q) = 4
    <3>1. p \o q \in Seq(S) /\ Len(p \o q) = Len(p) + Len(q)
      BY ConcatProperties
    <3> QED
      BY <1>1, <3>1
  <2>1. PICK s \in Seq(S) : s = p \o q /\ Len(s) = 4
    BY <2>0
  <2>2. s[1] = p[1] /\ s[2] = p[2] /\ s[3] = q[1] /\ s[4] = q[2]
    BY <1>1, <2>1
  <2>3. (s \o r)[1] = s[1] /\ (s \o r)[2] = s[2] /\ (s \o r)[3] = s[3] /\ (s \o r)[4] = s[4]
    BY <1>1, <2>1
  <2>4. (s \o r)[5] = r[1]
    <3>1. 5 \in (Len(s) + 1)..(Len(s) + Len(r)) /\ 5 - Len(s) = 1
      BY <1>1, <2>1
    <3>2. \A i \in (Len(s) + 1)..(Len(s) + Len(r)) : (s \o r)[i] = r[i - Len(s)]
      BY ConcatProperties
    <3> QED
      BY <3>1, <3>2
  <2> QED
    BY <2>1, <2>2, <2>3, <2>4, Zenon
<1>2. <<a, b>> \in Seq(S) /\ <<d, e>> \in Seq(S) /\ <<z>> \in Seq(S)
  OBVIOUS
<1>3. Len(<<a, b>>) = 2 /\ Len(<<d, e>>) = 2 /\ Len(<<z>>) = 1
  OBVIOUS
<1>4. PICK p \in Seq(S), q \in Seq(S), r \in Seq(S) : p = <<a, b>> /\ q = <<d, e>> /\ r = <<z>>
  BY <1>2
<1>5. p[1] = a /\ p[2] = b /\ q[1] = d /\ q[2] = e /\ r[1] = z
  BY <1>4
<1>6. FourLimbs(a, b, d, e) = p \o q /\ FiveLimbs(a, b, d, e, z) = p \o q \o r
  BY <1>4, Zenon DEF FourLimbs, FiveLimbs
<1>7. Len(p) = 2 /\ Len(q) = 2 /\ Len(r) = 1
  BY <1>3, <1>4
<1>8. /\ (p \o q)[1] = p[1] /\ (p \o q)[2] = p[2] /\ (p \o q)[3] = q[1] /\ (p \o q)[4] = q[2]
      /\ (p \o q \o r)[1] = p[1] /\ (p \o q \o r)[2] = p[2] /\ (p \o q \o r)[3] = q[1]
      /\ (p \o q \o r)[4] = q[2] /\ (p \o q \o r)[5] = r[1]
  BY <1>1, <1>7, Zenon
<1> QED
  BY <1>5, <1>6, <1>8, Zenon

\* A point is read from the elements it was packed into.
LEMMA PointBack ==
  ASSUME NEW c \in Curves, NEW k \in 0..ScalarMod[c] - 1
  PROVE  k \in PointFromRaw(c, EncodePoint(c, k))
<1>0. /\ "Jubjub" \notin Weierstrass /\ 0 \in Immediates
      /\ LimbBase * P \in Nat /\ BaseMod[c] <= LimbBase * P /\ BaseMod[c] \in Nat /\ BaseMod[c] > 0
  BY Constants, CurveAssumption DEF Immediates
<1>1. CASE c = "Jubjub"
  <2>1. k \in DOMAIN Coord[c]
    BY <1>0, <1>1, CoordDomain
  <2>2. EncodePoint(c, k) = Coord[c][k] /\ Coord[c][k] = <<Coord[c][k][1], Coord[c][k][2]>>
    BY <1>1, <2>1, CoordTyped DEF EncodePoint
  <2> QED
    BY <1>1, <2>1, <2>2 DEF PointFromRaw
<1>2. CASE c \in Weierstrass /\ k = 0
  <2>1. EncodePoint(c, k) = <<0, 0, 0, 0, 1>>
    BY <1>0, <1>2 DEF EncodePoint
  <2>2. c # "Jubjub" /\ <<0, 0, 0, 0, 1>>[5] # 0
    BY <1>0, <1>2
  <2>3. PointFromRaw(c, <<0, 0, 0, 0, 1>>) = {0}
    BY <1>2, <2>2 DEF PointFromRaw
  <2> QED
    BY <1>2, <2>1, <2>3
<1>3. CASE c # "Jubjub" /\ ~(c \in Weierstrass /\ k = 0)
  <2>1. k \in DOMAIN Coord[c]
    BY <1>3, CoordDomain
  <2>2. PICK x \in Nat, y \in Nat : /\ x = Coord[c][k][1] /\ y = Coord[c][k][2]
                                    /\ x < BaseMod[c] /\ y < BaseMod[c]
                                    /\ Coord[c][k] = <<x, y>>
    BY <1>0, <2>1, CoordTyped
  <2>3. PICK a \in Immediates, b \in Immediates : Limbs(x) = <<a, b>> /\ FromLimbs(a, b) = x
    <3>1. x < LimbBase * P
      BY <1>0, <2>2
    <3> QED
      BY <3>1, LimbsTyped, LimbsBack
  <2>4. PICK d \in Immediates, e \in Immediates : Limbs(y) = <<d, e>> /\ FromLimbs(d, e) = y
    <3>1. y < LimbBase * P
      BY <1>0, <2>2
    <3> QED
      BY <3>1, LimbsTyped, LimbsBack
  <2>5. x % BaseMod[c] = x /\ y % BaseMod[c] = y
    BY <1>0, <2>2
  <2>6. PICK enc : /\ enc = EncodePoint(c, k)
                   /\ enc = IF c \in Weierstrass THEN FiveLimbs(a, b, d, e, 0) ELSE FourLimbs(a, b, d, e)
    BY <1>3, <2>2, <2>3, <2>4 DEF EncodePoint, FourLimbs, FiveLimbs
  <2>7. enc[1] = a /\ enc[2] = b /\ enc[3] = d /\ enc[4] = e /\ (c \in Weierstrass => enc[5] = 0)
    BY <1>0, <2>6, FourPlaces
  <2>8. PointFromRaw(c, enc) =
          {j \in DOMAIN Coord[c] : Coord[c][j] = <<FromLimbs(enc[1], enc[2]) % BaseMod[c],
                                                   FromLimbs(enc[3], enc[4]) % BaseMod[c]>>}
    BY <1>3, <2>7 DEF PointFromRaw
  <2> QED
    BY <2>1, <2>2, <2>3, <2>4, <2>5, <2>6, <2>7, <2>8
<1> QED
  BY <1>1, <1>2, <1>3

\* A value is among those read from its own elements.
LEMMA ReadBack ==
  ASSUME NEW v, Typed(v)
  PROVE  v \in Decode(Encode(v), v.ty)
<1>1. Len(Encode(v)) = encoded_len(v.ty)
  BY EncodeTyped
<1> SUFFICES v \in FromPublicInput(Encode(v), v.ty)
  BY DEF Decode
<1>2. CASE v.ty \in {Native, Bool, Byte, Scalar("Jubjub")}
  <2>1. v.ty \notin BytesTypes /\ v.ty \in IrType
    BY <1>2, Members, Constants
  <2>2. v.val \in 0..Order(v.ty) - 1 /\ Order(v.ty) \in Nat \ {0} /\ v = V(v.ty, v.val)
    BY <2>1, ValueRange
  <2>3. Encode(v) = <<v.val>> /\ <<v.val>>[1] = v.val
    BY <1>2, EncodeIs
  <2>4. v.val % Order(v.ty) = v.val
    BY <2>2
  <2>5. CASE v.ty = Native
    BY <1>1, <2>2, <2>3, <2>5, IntoPublicInput DEF Fr
  <2>6. CASE v.ty # Native
    BY <1>1, <1>2, <2>2, <2>3, <2>4, <2>6, IntoPublicInput
  <2> QED
    BY <2>5, <2>6
<1>3. CASE v.ty \in BytesTypes
  <2>1. PICK n \in 1..MAX_BYTES_LEN : v.ty = Bytes(n) /\ v = V(Bytes(n), v.val) /\ v.val \in [1..n -> Octets]
    BY <1>3, BytesRange
  <2>2. v \in decode_bytes(Encode(v), n)
    BY <2>1, BytesBack
  <2> QED
    BY <1>1, <2>1, <2>2, IntoPublicInput
<1>4. CASE \E c \in Curves : v.ty = Point(c)
  <2>1. PICK c \in Curves : v.ty = Point(c)
    BY <1>4
  <2>2. v.ty \notin BytesTypes
    BY <2>1, Members
  <2>3. v.val \in 0..ScalarMod[c] - 1 /\ v = V(v.ty, v.val)
    BY <2>1, <2>2, ValueRange, Orders
  <2>4. Encode(v) = EncodePoint(c, v.val)
    BY <2>1, EncodeIs
  <2>5. v.val \in PointFromRaw(c, Encode(v))
    BY <2>3, <2>4, PointBack
  <2> QED
    BY <1>1, <2>1, <2>3, <2>5, IntoPublicInput
<1>5. CASE \E c \in Foreign : v.ty = Scalar(c) \/ v.ty = <<"Base", c>>
  <2>1. PICK c \in Foreign : v.ty \in {Scalar(c), <<"Base", c>>}
    BY <1>5
  <2>2. v.ty \notin BytesTypes
    BY <2>1, Members DEF Foreign, Base
  <2>3. v.val \in 0..Order(v.ty) - 1 /\ v = V(v.ty, v.val) /\ Order(v.ty) \in Nat \ {0} /\ v.val \in Nat
    BY <2>2, ValueRange
  <2>4. Encode(v) = Limbs(v.val)
    BY <2>1, EncodeIs
  <2>5. PICK x : x = Limbs(v.val)
    OBVIOUS
  <2>6. FromLimbs(x[1], x[2]) = v.val
    BY <2>3, <2>5, LimbsBack
  <2>7. v.val % Order(v.ty) = v.val
    BY <2>3
  <2>8. V(v.ty, FromLimbs(x[1], x[2]) % Order(v.ty)) \in FromPublicInput(x, v.ty)
    BY <1>1, <2>1, <2>4, <2>5, IntoPublicInput
  <2> QED
    BY <2>3, <2>4, <2>5, <2>6, <2>7, <2>8
<1>6. v.ty \in IrType
  BY DEF Typed
<1>7. \/ v.ty \in {Native, Bool, Byte, Scalar("Jubjub")} \/ v.ty \in BytesTypes
      \/ (\E c \in Curves : v.ty = Point(c))
      \/ (\E c \in Foreign : v.ty = Scalar(c) \/ v.ty = <<"Base", c>>)
  BY <1>6, TypeKinds, Members DEF Foreign
<1> QED
  BY <1>2, <1>3, <1>4, <1>5, <1>7


\* The packing is lossless: what decode_offcircuit reads from the elements of a
\* value (encode_offcircuit) is that value, and nothing else.
THEOREM RoundTrip ==
  ASSUME NEW v, Typed(v)
  PROVE  Decode(Encode(v), v.ty) = {v}
<1>1. v \in Decode(Encode(v), v.ty) /\ Encode(v) \in Seq(Immediates) /\ v.ty \in IrType
  BY ReadBack, EncodeTyped DEF Typed
<1>2. \A w \in Decode(Encode(v), v.ty) : w = v
  BY <1>1, DecodeUnique
<1> QED
  BY <1>1, <1>2

\* A point in compressed Edwards form is the one that decompresses from it.
LEMMA EdwardsBack ==
  ASSUME NEW c \in Curves \ Weierstrass, NEW k \in DOMAIN Coord[c]
  PROVE  k \in PointFromBytes(c, CompressEdwards(Coord[c][k]))
<1>1. PICK x \in Nat, y \in Nat : /\ x = Coord[c][k][1] /\ y = Coord[c][k][2] /\ y < BaseMod[c]
                                  /\ Coord[c][k] = <<x, y>>
  BY CoordTyped, Constants
<1>2. PICK p \in Nat : p = ByteBase^(FrBytes - 1) /\ p > 0 /\ ByteBase^FrBytes = ByteBase * p
  <2>1. FrBytes - 1 \in 0..MAX_BYTES_LEN /\ FrBytes = (FrBytes - 1) + 1
    BY Constants
  <2>2. ByteBase^(FrBytes - 1) \in Nat \ {0} /\ ByteBase^((FrBytes - 1) + 1) = ByteBase * ByteBase^(FrBytes - 1)
    BY <2>1, PowerAssumption
  <2> QED
    BY <2>1, <2>2
<1>3. PICK h \in Nat : h = TopBit /\ 2 * h = ByteBase /\ h > 1
  BY PowerAssumption
<1>4. y < p * h
  <2>1. BaseMod[c] <= TopBit * p
    BY <1>2, CurveAssumption
  <2>2. TopBit * p = p * h /\ p * h \in Nat
    BY <1>2, <1>3
  <2> QED
    BY <1>1, <2>1, <2>2, Constants
<1>5. PICK z \in Nat : z = y \div p /\ z < h
  BY <1>1, <1>2, <1>3, <1>4, DivNat, DivBelow
<1>6. z % ByteBase = z
  BY <1>3, <1>5
<1>7. PICK s \in {0, 1} : s = x % 2
  BY <1>1
<1>8. PICK n \in Nat \ {0} : n = FrBytes /\ n \in 0..MAX_BYTES_LEN
  BY FrBytesIs
<1>9. PICK yb : yb \in [1..n -> Octets] /\ yb = LeBytes(y, FrBytes)
  BY <1>1, <1>8, LeBytesTyped
<1>10. yb[n] = z
  BY <1>2, <1>5, <1>6, <1>8, <1>9 DEF LeBytes
<1>11. LeInt(yb) = y
  <2>1. p * h <= ByteBase * p
    BY <1>2, <1>3
  <2>2. y < ByteBase^FrBytes
    <3>1. p * h \in Nat /\ ByteBase * p \in Nat
      BY <1>2, <1>3
    <3> QED
      BY <1>1, <1>2, <1>4, <2>1, <3>1
  <2> QED
    BY <1>1, <1>8, <1>9, <2>2, IntOfBytes
<1>12. Front(yb) \in [1..(n - 1) -> Octets] /\ (\A i \in 1..(n - 1) : Front(yb)[i] = yb[i]) /\ Last(yb) = z
  <2>0. n \in Nat \ {0} /\ yb \in [1..n -> Octets] /\ Len(yb) = n
    BY <1>8, <1>9
  <2>1. Front(yb) = [i \in 1..(n - 1) |-> yb[i]]
    BY <2>0 DEF Front
  <2>2. \A i \in 1..(n - 1) : yb[i] \in Octets
    BY <2>0
  <2>3. Last(yb) = yb[n]
    BY <2>0, Zenon DEF Last
  <2> QED
    BY <1>10, <2>1, <2>2, <2>3
<1>13. PICK q \in Octets : q = z + h * s
  <2>1. z + h * s \in 0..ByteBase - 1
    BY <1>3, <1>5, <1>7
  <2> QED
    BY <2>1 DEF Octets
<1>14. PICK bs : bs \in [1..n -> Octets] /\ bs = Append(Front(yb), q)
                     /\ bs = [i \in 1..n |-> IF i \in 1..(n - 1) THEN Front(yb)[i] ELSE q]
  <2>0. PICK fb : fb = Front(yb) /\ fb \in [1..(n - 1) -> Octets]
    BY <1>12
  <2>1. Append(fb, q) = [i \in 1..n |-> IF i \in 1..(n - 1) THEN fb[i] ELSE q]
    <3>1. Len(fb) = n - 1 /\ fb \in Seq(Octets)
      BY <1>8, <2>0
    <3> QED
      BY <1>8, <3>1, AppendIs
  <2>2. Append(fb, q) \in [1..n -> Octets]
    BY <1>8, <1>13, <2>0, <2>1
  <2> QED
    BY <2>0, <2>1, <2>2
<1>15. bs = CompressEdwards(Coord[c][k])
  <2>1. CompressEdwards(<<x, y>>) = Append(Front(LeBytes(y, FrBytes)), Last(LeBytes(y, FrBytes)) + TopBit * (x % 2))
    BY DEF CompressEdwards
  <2> QED
    BY <1>1, <1>3, <1>7, <1>9, <1>12, <1>13, <1>14, <2>1
<1>16. Len(bs) = n /\ bs[n] = q /\ \A i \in 1..(n - 1) : bs[i] = yb[i]
  BY <1>8, <1>12, <1>14
<1>17. q \div TopBit = s /\ q % TopBit = z
  <2>1. q = h * s + z
    BY <1>3, <1>5, <1>7, <1>13
  <2>2. s \in Nat
    BY <1>7
  <2>3. (h * s + z) % h = z /\ (h * s + z) \div h = s
    BY <1>3, <1>5, <2>2, TwoDigits
  <2> QED
    BY <1>3, <2>1, <2>3
<1>18. [bs EXCEPT ![n] = @ % TopBit] = yb
  <2>1. \A i \in 1..n : [bs EXCEPT ![n] = @ % TopBit][i] = yb[i]
    <3>1. [bs EXCEPT ![n] = @ % TopBit][n] = bs[n] % TopBit
      BY <1>8, <1>14
    <3>2. \A i \in 1..(n - 1) : [bs EXCEPT ![n] = @ % TopBit][i] = bs[i]
      BY <1>8, <1>14
    <3>3. \A i \in 1..n : i = n \/ i \in 1..(n - 1)
      BY <1>8
    <3> QED
      BY <1>10, <1>16, <1>17, <3>1, <3>2, <3>3
  <2>2. [bs EXCEPT ![n] = @ % TopBit] = [i \in 1..n |-> [bs EXCEPT ![n] = @ % TopBit][i]]
    BY <1>14
  <2>3. yb = [i \in 1..n |-> yb[i]]
    BY <1>9
  <2> QED
    BY <2>1, <2>2, <2>3
<1>19. LeInt([bs EXCEPT ![n] = @ % TopBit]) % BaseMod[c] = y
  <2>1. LeInt([bs EXCEPT ![n] = @ % TopBit]) = y
    BY <1>11, <1>18, Zenon
  <2>2. y % BaseMod[c] = y
    <3>1. BaseMod[c] \in Nat /\ y < BaseMod[c] /\ y \in Nat
      BY <1>1, Constants
    <3> QED
      BY <3>1
  <2> QED
    BY <2>1, <2>2, Zenon
<1>20. k \in PointFromBytes(c, bs)
  <2>1. c \notin Weierstrass /\ Len(bs) = PointBytesLen(c)
    BY <1>8, <1>16 DEF PointBytesLen
  <2>2. PICK u : u = LeInt([bs EXCEPT ![Len(bs)] = @ % TopBit]) % BaseMod[c]
    OBVIOUS
  <2>3. u = y
    BY <1>16, <1>19, <2>2, Zenon
  <2>4. PICK w : w = bs[Len(bs)] \div TopBit
    OBVIOUS
  <2>5. w = s
    BY <1>16, <1>17, <2>4, Zenon
  <2>6. PointFromBytes(c, bs) = {j \in DOMAIN Coord[c] : /\ Coord[c][j][2] = u
                                                         /\ Coord[c][j][1] % 2 = w \/ Coord[c][j][1] = 0}
    BY <2>1, <2>2, <2>4, Zenon DEF PointFromBytes
  <2>7. Coord[c][k][2] = u /\ Coord[c][k][1] % 2 = w
    BY <1>1, <1>7, <2>3, <2>5
  <2> QED
    BY <2>6, <2>7
<1> QED
  BY <1>15, <1>20

\* A point in SEC1 form is the one that decompresses from it.
LEMMA Sec1Back ==
  ASSUME NEW c \in Weierstrass, NEW k \in DOMAIN Coord[c]
  PROVE  k \in PointFromBytes(c, CompressSec1(Coord[c][k]))
<1>0. c \in Curves /\ BaseMod[c] \in Nat /\ BaseMod[c] <= ByteBase^FrBytes
  BY Constants, CurveAssumption
<1>1. PICK x \in Nat, y \in Nat : /\ x = Coord[c][k][1] /\ y = Coord[c][k][2] /\ x < BaseMod[c]
                                  /\ Coord[c][k] = <<x, y>>
  BY <1>0, CoordTyped, Constants
<1>2. PICK n \in Nat \ {0} : n = FrBytes /\ n \in 0..MAX_BYTES_LEN
  BY FrBytesIs
<1>3. PICK xb : xb \in [1..n -> Octets] /\ xb = LeBytes(x, FrBytes)
  BY <1>1, <1>2, LeBytesTyped
<1>4. LeInt(xb) = x
  <2>1. x < ByteBase^FrBytes
    <3>1. ByteBase^FrBytes \in Nat
      BY <1>2, PowerAssumption
    <3> QED
      BY <1>0, <1>1, <3>1
  <2> QED
    BY <1>1, <1>2, <1>3, <2>1, IntOfBytes
<1>5. PICK rb : rb \in [1..n -> Octets] /\ rb = Reverse(xb) /\ \A i \in 1..n : rb[i] = xb[(n - i) + 1]
  <2>1. n \in Nat
    BY <1>2
  <2>2. Reverse(xb) = [i \in 1..n |-> xb[(n - i) + 1]]
    <3>1. Len(xb) = n
      BY <1>3, <2>1
    <3> QED
      BY <2>1, <3>1 DEF Reverse
  <2>3. \A i \in 1..n : xb[(n - i) + 1] \in Octets
    BY <1>3, <2>1
  <2> QED
    BY <2>2, <2>3
<1>6. Reverse(rb) = xb
  <2>1. Reverse(rb) = [i \in 1..n |-> rb[(n - i) + 1]]
    <3>1. Len(rb) = n /\ n \in Nat
      BY <1>2, <1>5
    <3> QED
      BY <3>1 DEF Reverse
  <2>2. \A i \in 1..n : rb[(n - i) + 1] = xb[i]
    <3>1. ASSUME NEW i \in 1..n PROVE rb[(n - i) + 1] = xb[i]
      <4>1. PICK j \in 1..n : j = (n - i) + 1 /\ (n - j) + 1 = i
        OBVIOUS
      <4> QED
        BY <1>5, <4>1
    <3> QED
      BY <3>1
  <2> QED
    BY <1>3, <2>1, <2>2
<1>7. PICK q \in Octets : q = 2 + (y % 2) /\ q # 0
  BY <1>1, Constants DEF Octets
<1>8. PICK bs \in Seq(Octets) : bs = <<q>> \o rb /\ Len(bs) = n + 1 /\ bs[1] = q /\ Tail(bs) = rb
  <2>1. rb \in Seq(Octets) /\ <<q>> \in Seq(Octets) /\ Len(rb) = n
    BY <1>2, <1>5
  <2>2. PICK one \in Seq(Octets) : one = <<q>> /\ Len(one) = 1 /\ one[1] = q
    BY <2>1
  <2>3. one \o rb \in Seq(Octets) /\ Len(one \o rb) = n + 1 /\ (one \o rb)[1] = q /\ Tail(one \o rb) = rb
    BY <2>1, <2>2
  <2> QED
    BY <2>2, <2>3
<1>9. bs = CompressSec1(Coord[c][k])
  <2>1. CompressSec1(<<x, y>>) = <<2 + (y % 2)>> \o Reverse(LeBytes(x, FrBytes))
    BY DEF CompressSec1
  <2> QED
    BY <1>1, <1>3, <1>5, <1>7, <1>8, <2>1
<1>10. LeInt(Reverse(Tail(bs))) % BaseMod[c] = x
  <2>1. LeInt(Reverse(Tail(bs))) = x
    BY <1>4, <1>6, <1>8
  <2>2. x % BaseMod[c] = x
    BY <1>0, <1>1
  <2> QED
    BY <2>1, <2>2, Zenon
<1>11. PointFromBytes(c, bs) = {j \in DOMAIN Coord[c] : Coord[c][j][1] = x /\ 2 + (Coord[c][j][2] % 2) = q}
  BY <1>2, <1>7, <1>8, <1>10, Zenon DEF PointFromBytes, PointBytesLen
<1> QED
  BY <1>1, <1>7, <1>9, <1>11

\* Every point decompresses from its own bytes.
LEMMA PointDecodes ==
  ASSUME NEW c \in Curves, NEW k \in 0..ScalarMod[c] - 1
  PROVE  k \in PointFromBytes(c, PointToBytes(c, k))
<1>1. CASE c \notin Weierstrass
  BY <1>1, CoordDomain, EdwardsBack DEF PointToBytes
<1>2. CASE c \in Weierstrass /\ k = 0
  <2>1. PICK n \in Nat \ {0} : n = FrBytes
    BY FrBytesIs
  <2>0. PICK bs : bs \in [1..(n + 1) -> {0}] /\ bs = [i \in 1..(n + 1) |-> 0]
    OBVIOUS
  <2>2. bs = [i \in 1..(n + 1) |-> 0] /\ Len(bs) = n + 1 /\ bs[1] = 0
    BY <2>0, <2>1
  <2>3. bs = PointToBytes(c, k)
    BY <1>2, <2>1, <2>2 DEF PointToBytes, ZeroBytes
  <2>4. PointFromBytes(c, bs) = {0}
    BY <1>2, <2>1, <2>2, Zenon DEF PointFromBytes, PointBytesLen
  <2> QED
    BY <1>2, <2>3, <2>4
<1>3. CASE c \in Weierstrass /\ k # 0
  BY <1>3, CoordDomain, Sec1Back DEF PointToBytes
<1> QED
  BY <1>1, <1>2, <1>3

------------------------------------------------------------------------------
(* The other direction: operands for which `circuit` has an arm and whose     *)
(* constraints hold are accepted by preprocess, but for the checks of Strict. *)

LEMMA ArithmeticBack ==
  ASSUME NEW a, NEW T, Typed(a[1]), T[1] = a[1].ty
  PROVE  /\ T[2] = a[2].ty /\ AddShape(T) # {} => AddOff(a) # {}
         /\ T[2] = a[2].ty /\ MulShape(T) # {} => MulOff(a) # {}
         /\ NegShape(T) # {} => NegOff(a) # {}
         /\ InvShape(T) # {} /\ a[1].val # 0 => InvOff(a) # {}
         /\ NotShape(T) # {} /\ BitHolds(a[1]) => NotOff(a) # {}
         /\ JubjubScalarShape(T) # {} => JubjubScalarFromNativeOff(a) # {}
<1>1. T[2] = a[2].ty /\ AddShape(T) # {} => AddOff(a) # {}
  BY DEF AddShape, AddOff, AddTypes, Some
<1>2. T[2] = a[2].ty /\ MulShape(T) # {} => MulOff(a) # {}
  BY DEF MulShape, MulOff, Some
<1>3. NegShape(T) # {} => NegOff(a) # {}
  BY DEF NegShape, NegOff, Some
<1>4. InvShape(T) # {} /\ a[1].val # 0 => InvOff(a) # {}
  <2> SUFFICES ASSUME InvShape(T) # {}, a[1].val # 0 PROVE InvOff(a) # {}
    OBVIOUS
  <2>1. a[1].ty \in PrimeFields
    BY DEF InvShape, Some
  <2>2. PICK x : x \in Inverses(a[1])
    BY <2>1, InverseExists
  <2> QED
    BY <2>1, <2>2 DEF InvOff
<1>5. NotShape(T) # {} /\ BitHolds(a[1]) => NotOff(a) # {}
  BY DEF NotShape, NotOff, BitHolds, IsBit, IsFr, Some
<1>6. JubjubScalarShape(T) # {} => JubjubScalarFromNativeOff(a) # {}
  BY DEF JubjubScalarShape, JubjubScalarFromNativeOff, IsFr, Some
<1> QED
  BY <1>1, <1>2, <1>3, <1>4, <1>5, <1>6

LEMMA BitListBack ==
  ASSUME NEW n \in Nat, NEW a, a = [i \in 1..n |-> a[i]],
         NEW T, T = TypesOf(a), BitListShape(T) # {}
  PROVE  AndOff(a) # {} /\ OrOff(a) # {} /\ XorOff(a) # {}
<1>1. T # <<>> /\ \A i \in DOMAIN T : T[i] = Bool
  BY DEF BitListShape, AllOf, Some
<1>2. DOMAIN T = DOMAIN a /\ \A i \in DOMAIN a : T[i] = a[i].ty
  BY DEF TypesOf
<1>3. a # <<>>
  <2>1. a = <<>> => T = <<>>
    BY DEF TypesOf
  <2> QED
    BY <1>1, <2>1
<1>4. BoolList(a)
  BY <1>1, <1>2, <1>3 DEF BoolList, AllBool
<1> QED
  BY <1>4 DEF AndOff, OrOff, XorOff, Some

LEMMA CheckBack ==
  ASSUME NEW ins, NEW a, NEW T, T[1] = a[1].ty
  PROVE  /\ a[1] = a[2] => ConstrainEqOff(a) # {}
         /\ CheckShape(T) # {} /\ a[1].val = 1 => AssertOff(a) # {}
         /\ CheckShape(T) # {} /\ BitHolds(a[1]) => ConstrainToBooleanOff(a) # {}
         /\ CheckShape(T) # {} /\ ins.n[1] < FR_BITS /\ a[1].val < 2^ins.n[1] => ConstrainBitsOff(ins, a) # {}
         /\ T[2] = a[2].ty /\ TestEqShape(T) # {} => TestEqOff(a) # {}
         /\ T[2] = a[2].ty /\ T[3] = a[3].ty /\ CondSelectShape(T) # {} /\ BitHolds(a[1])
              => CondSelectOff(a) # {}
<1>1. a[1] = a[2] => ConstrainEqOff(a) # {}
  BY DEF ConstrainEqOff, Some
<1>2. CheckShape(T) # {} /\ a[1].val = 1 => AssertOff(a) # {}
  BY DEF CheckShape, AssertOff, IsFr, Some
<1>3. CheckShape(T) # {} /\ BitHolds(a[1]) => ConstrainToBooleanOff(a) # {}
  BY DEF CheckShape, ConstrainToBooleanOff, BitHolds, IsBit, IsFr, Some
<1>4. CheckShape(T) # {} /\ ins.n[1] < FR_BITS /\ a[1].val < 2^ins.n[1] => ConstrainBitsOff(ins, a) # {}
  BY DEF CheckShape, ConstrainBitsOff, FitsBits, IsFr, Some
<1>5. T[2] = a[2].ty /\ TestEqShape(T) # {} => TestEqOff(a) # {}
  BY DEF TestEqShape, TestEqOff, Some
<1>6. T[2] = a[2].ty /\ T[3] = a[3].ty /\ CondSelectShape(T) # {} /\ BitHolds(a[1])
        => CondSelectOff(a) # {}
  BY DEF CondSelectShape, CondSelectOff, BitHolds, IsBit, IsFr, Some
<1> QED
  BY <1>1, <1>2, <1>3, <1>4, <1>5, <1>6

LEMMA SplitBack ==
  ASSUME NEW ins, NEW a, NEW T, T[1] = a[1].ty
  PROVE  /\ DOMAIN T = 1..2 /\ T[2] = a[2].ty /\ LessThanShape(T) # {} /\ ins.n[1] < FR_BITS
              /\ a[1].val < 2^ins.n[1] /\ a[2].val < 2^ins.n[1] => LessThanOff(ins, a) # {}
         /\ DivModShape(ins, T) # {} /\ ins.n[1] <= SplitBits => DivModPowerOfTwoOff(ins, a) # {}
<1>1. ASSUME DOMAIN T = 1..2, T[2] = a[2].ty, LessThanShape(T) # {},
             ins.n[1] < FR_BITS, a[1].val < 2^ins.n[1], a[2].val < 2^ins.n[1]
      PROVE  LessThanOff(ins, a) # {}
  <2>1. 1 \in 1..2 /\ 2 \in 1..2
    OBVIOUS
  <2>2. T[1] = Native /\ T[2] = Native
    BY <1>1, <2>1 DEF LessThanShape, AllOf, Some
  <2> QED
    BY <1>1, <2>2 DEF LessThanOff, FitsBits, IsFr, Some
<1>2. DivModShape(ins, T) # {} /\ ins.n[1] <= SplitBits => DivModPowerOfTwoOff(ins, a) # {}
  BY DEF DivModShape, DivModPowerOfTwoOff, IsFr, Some
<1> QED
  BY <1>1, <1>2

LEMMA FromNativesBack ==
  ASSUME NEW a, NEW T, T = TypesOf(a)
  PROVE  /\ TransientHashShape(T) # {} => TransientHashOff(a) # {}
         /\ HashToCurveShape(T) # {} => HashToCurveOff(a) # {}
         /\ AllOf(T, Native) => AllFr(a)
<1>1. AllOf(T, Native) => AllFr(a)
  BY DEF AllOf, AllFr, IsFr, TypesOf
<1>2. TransientHashShape(T) # {} => TransientHashOff(a) # {}
  BY <1>1 DEF TransientHashShape, TransientHashOff, Some
<1>3. HashToCurveShape(T) # {} => HashToCurveOff(a) # {}
  BY <1>1 DEF HashToCurveShape, HashToCurveOff, Some
<1> QED
  BY <1>1, <1>2, <1>3

LEMMA GroupBack ==
  ASSUME NEW a, NEW T, T[1] = a[1].ty
  PROVE  /\ EcMulGeneratorShape(T) # {} => EcMulGeneratorOff(a) # {}
         /\ T = <<a[1].ty, a[2].ty>> /\ EcMulShape(T) # {} => EcMulOff(a) # {}
         /\ IntoCoordinatesShape(T) # {} /\ IntoCoordinatesHolds(a) => IntoCoordinatesOff(a) # {}
<1>1. ASSUME EcMulGeneratorShape(T) # {} PROVE EcMulGeneratorOff(a) # {}
  <2>1. PICK c \in Curves : a[1].ty = Scalar(c)
    BY <1>1 DEF EcMulGeneratorShape, Some
  <2>2. <<V(Point(c), a[1].val)>> \in EcMulGeneratorOff(a)
    BY <2>1 DEF EcMulGeneratorOff, Some
  <2> QED
    BY <2>2
<1>2. ASSUME T = <<a[1].ty, a[2].ty>>, EcMulShape(T) # {} PROVE EcMulOff(a) # {}
  <2>1. PICK c \in Curves : T = <<Point(c), Scalar(c)>>
    BY <1>2 DEF EcMulShape, Some
  <2>2. a[1].ty = Point(c) /\ a[2].ty = Scalar(c)
    BY <1>2, <2>1
  <2>3. <<V(Point(c), (a[1].val * a[2].val) % ScalarMod[c])>> \in EcMulOff(a)
    BY <2>2 DEF EcMulOff, Some
  <2> QED
    BY <2>3
<1>3. ASSUME IntoCoordinatesShape(T) # {}, IntoCoordinatesHolds(a) PROVE IntoCoordinatesOff(a) # {}
  <2>1. PICK c \in Curves : a[1].ty = Point(c)
    BY <1>3 DEF IntoCoordinatesShape, Some
  <2>2. a[1].ty[2] = c
    BY <2>1, Tags
  <2>3. Coordinates(c, a[1].val) \in IntoCoordinatesOff(a)
    BY <1>3, <2>1, <2>2 DEF IntoCoordinatesOff, IntoCoordinatesHolds, Some
  <2> QED
    BY <2>3
<1> QED
  BY <1>1, <1>2, <1>3

LEMMA FromCoordinatesBack ==
  ASSUME NEW a, NEW T, T = <<a[1].ty, a[2].ty>>, FromCoordinatesShape(T) # {}, FromCoordinatesHolds(a)
  PROVE  FromCoordinatesOff(a) # {}
<1>1. PICK c \in Curves : T = <<Base(c), Base(c)>>
  BY DEF FromCoordinatesShape, Some
<1>2. a[1].ty = Base(c) /\ a[2].ty = Base(c)
  BY <1>1
<1>3. CurveWithBase(a[1].ty) = c
  BY <1>2, CurveWithBaseIs
<1>4. PICK k : k \in PointAt(c, a[1], a[2])
  BY <1>3 DEF FromCoordinatesHolds
<1>5. <<V(Point(c), k)>> \in FromCoordinatesOff(a)
  BY <1>2, <1>4 DEF FromCoordinatesOff
<1> QED
  BY <1>5

LEMMA ToBytesBack ==
  ASSUME NEW a, Typed(a[1]), NEW T, T[1] = a[1].ty
  PROVE  /\ ToBytesShape(T) # {} => ToBytesOff(a) # {}
         /\ IntoBytes32Shape(T) # {} => <<ToBytes(a[1])>> \in IntoBytes32Off(a) /\ HasBytes(a[1].ty)
              /\ ToBytes(a[1]).val \in [1..FrBytes -> Octets]
<1>1. ToBytesShape(T) # {} => <<ToBytes(a[1])>> \in ToBytesOff(a) /\ HasBytes(a[1].ty)
  BY DEF ToBytesShape, ToBytesOff, Some
<1>2. ASSUME IntoBytes32Shape(T) # {}
      PROVE  <<ToBytes(a[1])>> \in IntoBytes32Off(a) /\ HasBytes(a[1].ty)
              /\ ToBytes(a[1]).val \in [1..FrBytes -> Octets]
  <2>1. ToBytesShape(T) # {} /\ BytesOf(a[1].ty) = Bytes(FrBytes)
    BY <1>2 DEF IntoBytes32Shape, ToBytesShape, Some
  <2>2. HasBytes(a[1].ty) /\ <<ToBytes(a[1])>> \in ToBytesOff(a)
    BY <1>1, <2>1
  <2>3. ToBytes(a[1]).ty = Bytes(FrBytes) /\ ToBytes(a[1]).val \in [1..FrBytes -> Octets]
    BY <2>1, <2>2, ToBytesTyped, Tags
  <2>4. <<ToBytes(a[1])>>[1] = ToBytes(a[1])
    OBVIOUS
  <2> QED
    BY <2>2, <2>3, <2>4 DEF IntoBytes32Off, IsBytes32
<1> QED
  BY <1>1, <1>2

\* An element with all bytes but the first zero is that byte, and the other way round.
LEMMA ByteAlone ==
  ASSUME NEW x \in Nat, x < ByteBase
  PROVE  LeBytes(x, FrBytes)[1] = x /\ \A i \in 2..FrBytes : LeBytes(x, FrBytes)[i] = 0
<1>1. PICK n \in Nat : n = FrBytes /\ n > 0 /\ n < MAX_BYTES_LEN
  BY Constants
<1>2. LeBytes(x, n) = [i \in 1..n |-> (x \div ByteBase^(i - 1)) % ByteBase]
  BY DEF LeBytes
<1>3. LeBytes(x, n)[1] = x
  <2>1. LeBytes(x, n)[1] = (x \div ByteBase^0) % ByteBase
    <3>1. 1 - 1 = 0 /\ 1 \in 1..n
      BY <1>1
    <3> QED
      BY <1>2, <3>1
  <2>2. x \div 1 = x /\ x % ByteBase = x
    BY Constants
  <2> QED
    BY <2>1, <2>2, PowerAssumption
<1>4. ASSUME NEW i \in 2..n
      PROVE  LeBytes(x, n)[i] = 0
  <2>1. PICK k \in Nat : k + 1 = i - 1 /\ k \in 0..MAX_BYTES_LEN
    BY <1>1, <1>4, Constants
  <2>2. PICK q \in Nat : q = ByteBase^(i - 1) /\ x < q
    <3>1. PICK b \in Nat : b = ByteBase /\ b > 3
      BY Constants
    <3>2. PICK d \in Nat : d = ByteBase^k /\ d > 0 /\ ByteBase^(k + 1) = b * d
      BY <2>1, <3>1, PowerAssumption
    <3>3. b * d >= b /\ b * d \in Nat
      BY <3>1, <3>2
    <3> QED
      BY <2>1, <3>1, <3>2, <3>3
  <2>3. x \div q = 0
    BY <2>2
  <2>4. 0 % ByteBase = 0
    BY Constants
  <2> QED
    BY <1>2, <2>2, <2>3, <2>4
<1> QED
  BY <1>1, <1>3, <1>4

LEMMA LowHighBack ==
  ASSUME NEW a, Typed(a[1]), Typed(a[2]), NEW T, T[1] = a[1].ty, T[2] = a[2].ty,
         FromLowHighShape(T) # {}, FromLowHighHolds(a)
  PROVE  Bytes32FromLowHighOff(a) # {}
<1>1. a[2].ty = Native /\ IntoBytes32Shape(T) # {}
  BY DEF FromLowHighShape, Some
<1>2. PICK lo : lo = <<ToBytes(a[1])>>
  OBVIOUS
<1>3. PICK one : one = <<a[1]>>
  OBVIOUS
<1>14. one[1] = a[1]
  BY <1>3
<1>4. lo \in IntoBytes32Off(one)
  <2>0. PICK U : U = <<T[1]>>
    OBVIOUS
  <2>1. U[1] = one[1].ty /\ U[1] = T[1]
    BY <1>14, <2>0
  <2>2. IntoBytes32Shape(U) # {}
    BY <1>1, <2>1 DEF IntoBytes32Shape, ToBytesShape
  <2>3. Typed(one[1])
    BY <1>14
  <2> QED
    BY <1>2, <1>14, <2>1, <2>2, <2>3, ToBytesBack
<1>5. PICK two : two = <<a[2]>>
  OBVIOUS
<1>15. two[1] = a[2]
  BY <1>5
<1>6. PICK hi : hi = <<ToBytes(a[2])>>
  OBVIOUS
<1>7. HasBytes(Native) /\ ~IsPoint(Native) /\ BytesOf(Native) = Bytes(FrBytes)
  BY Members, Tags DEF HasBytes, IsPoint, BytesOf
<1>8. hi \in IntoBytes32Off(two)
  <2>0. PICK U : U = <<Native>>
    OBVIOUS
  <2>1. U[1] = two[1].ty /\ U[1] = Native
    BY <1>1, <1>15, <2>0
  <2>2. <<Bytes(FrBytes)>> \in ToBytesShape(U) /\ <<Bytes(FrBytes)>>[1] = Bytes(FrBytes)
    BY <1>7, <2>1 DEF ToBytesShape, Some
  <2>3. IntoBytes32Shape(U) # {}
    BY <2>2 DEF IntoBytes32Shape
  <2>4. Typed(two[1])
    BY <1>15
  <2> QED
    BY <1>6, <1>15, <2>1, <2>3, <2>4, ToBytesBack
<1>9. hi[1].val = LeBytes(a[2].val, FrBytes)
  BY <1>1, <1>6, <1>7 DEF ToBytes, BytesV, V
<1>10. a[2].val < ByteBase /\ a[2].val \in Nat /\ Last(ToBytes(a[1]).val) = 0
  <2>1. a[2].val \in Nat
    BY <1>1, ValueRange, Members
  <2> QED
    BY <2>1 DEF FromLowHighHolds
<1>11. \A i \in 2..FrBytes : hi[1].val[i] = 0
  BY <1>9, <1>10, ByteAlone
<1>12. Last(lo[1].val) = 0
  BY <1>2, <1>10
<1>13. <<BytesV(Append(Front(lo[1].val), hi[1].val[1]))>> \in Bytes32FromLowHighOff(a)
  BY <1>3, <1>4, <1>5, <1>8, <1>11, <1>12 DEF Bytes32FromLowHighOff, Some
<1> QED
  BY <1>13

\* A point witnessed for some bytes encodes to them only where they decode to it.
LEMMA FromBytesBack ==
  ASSUME NEW ins, ins.ty \in IrType, NEW a, Typed(a[1]), NEW T, T[1] = a[1].ty, FromBytesHolds(ins, a)
  PROVE  /\ FromBytesShape(ins, T) # {} => FromBytesOff(ins, a) # {}
         /\ FromBytes32Shape(ins, T) # {} => FromBytes32Off(ins, a) # {}
<1>1. ASSUME FromBytesShape(ins, T) # {} PROVE FromBytesOff(ins, a) # {}
  <2>1. /\ IsBytesType(a[1].ty)
        /\ ins.ty \in PrimeFields \/ IsPoint(ins.ty)
    BY <1>1 DEF FromBytesShape, Some
  <2>2. IsBytes(a[1])
    BY <2>1 DEF IsBytes, IsBytesType
  <2>3. CASE ins.ty \in PrimeFields
    BY <2>2, <2>3 DEF FromBytesOff, DecodeBytes
  <2>4. CASE ins.ty \notin PrimeFields
    <3>1. PICK c, bs : c = ins.ty[2] /\ bs = a[1].val
      OBVIOUS
    <3>2. IsPoint(ins.ty)
      BY <2>1, <2>4
    <3>3. PointToBytes(c, WitnessPoint(c, bs)) = bs
      BY <3>1, <3>2 DEF FromBytesHolds
    <3>4. c \in Curves /\ 1 \in 0..ScalarMod[c] - 1
      <4>1. 0 \in 0..ScalarMod[c] - 1 \/ c \notin Curves
        BY Constants
      <4>2. c \in Curves
        <5>1. \E d \in Curves : ins.ty = Point(d)
          BY <3>2, TypeKinds, Tags DEF IsPoint
        <5> QED
          BY <3>1, <5>1, Tags
      <4> QED
        BY <4>2, Constants
    <3>5. PICK k : k \in PointFromBytes(c, bs) /\ k = WitnessPoint(c, bs)
      <4>1. CASE PointFromBytes(c, bs) = {}
        <5>1. WitnessPoint(c, bs) = 1
          BY <4>1 DEF WitnessPoint
        <5>2. 1 \in PointFromBytes(c, PointToBytes(c, 1))
          BY <3>4, PointDecodes
        <5> QED
          BY <3>3, <4>1, <5>1, <5>2
      <4>2. CASE PointFromBytes(c, bs) # {}
        <5>1. WitnessPoint(c, bs) \in PointFromBytes(c, bs)
          BY <4>2 DEF WitnessPoint
        <5> QED
          BY <5>1
      <4> QED
        BY <4>1, <4>2
    <3>6. ToBytes(V(ins.ty, k)).val = bs
      <4>1. V(ins.ty, k).ty = ins.ty /\ V(ins.ty, k).val = k
        BY DEF V
      <4>2. ToBytes(V(ins.ty, k)) = BytesV(PointToBytes(c, k))
        BY <3>1, <3>2, <4>1 DEF ToBytes
      <4> QED
        BY <3>3, <3>5, <4>2 DEF BytesV, V
    <3>7. V(ins.ty, k) \in DecodeBytes(ins.ty, bs)
      BY <2>4, <3>1, <3>2, <3>5, <3>6 DEF DecodeBytes
    <3>8. <<V(ins.ty, k)>> \in FromBytesOff(ins, a)
      BY <2>2, <3>1, <3>7 DEF FromBytesOff
    <3> QED
      BY <3>8
  <2> QED
    BY <2>3, <2>4
<1>2. FromBytes32Shape(ins, T) # {} => FromBytes32Off(ins, a) # {}
  BY <1>1 DEF FromBytes32Shape, FromBytes32Off, IsBytes32
<1> QED
  BY <1>1, <1>2

LEMMA ByteOpsBack ==
  ASSUME NEW ins, NEW a, Typed(a[1]), NEW T, T[1] = a[1].ty
  PROVE  /\ ReverseShape(T) # {} => ReverseOff(a) # {}
         /\ SliceShape(ins, T) # {} => SliceOff(ins, a) # {}
         /\ NthShape(ins, T) # {} => NthOff(ins, a) # {}
<1>1. IsBytesType(T[1]) => IsBytes(a[1]) /\ Len(a[1].val) = T[1][2]
  BY IsBytesTyped, BytesRange DEF IsBytesType, IsBytes
<1>2. ReverseShape(T) # {} => ReverseOff(a) # {}
  BY <1>1 DEF ReverseShape, ReverseOff, Some
<1>3. SliceShape(ins, T) # {} => SliceOff(ins, a) # {}
  BY <1>1 DEF SliceShape, SliceOff, Some
<1>4. NthShape(ins, T) # {} => NthOff(ins, a) # {}
  BY <1>1 DEF NthShape, NthOff, Some
<1> QED
  BY <1>2, <1>3, <1>4

LEMMA EncodeBack ==
  ASSUME NEW ins, NEW a, Typed(a[1]), NEW T, T[1] = a[1].ty
  PROVE  /\ EncodeShape(ins, T) # {} => EncodeOff(ins, a) # {}
         /\ BytesIntoNativesShape(ins, T) # {} => BytesIntoNativesOff(ins, a) # {}
<1>1. EncodeShape(ins, T) # {} => EncodeOff(ins, a) # {}
  BY EncodesAre DEF EncodeShape, EncodeOff, Some
<1>2. BytesIntoNativesShape(ins, T) # {} => BytesIntoNativesOff(ins, a) # {}
  BY <1>1 DEF BytesIntoNativesShape, BytesIntoNativesOff, IsBytesType, IsBytes
<1> QED
  BY <1>1, <1>2

LEMMA ConcatBack ==
  ASSUME NEW n \in Nat, NEW a, DOMAIN a = 1..n, AllTyped(a), ConcatShape(TypesOf(a)) # {}
  PROVE  ConcatOff(a) # {}
<1>1. PICK tys : tys = TypesOf(a)
  OBVIOUS
<1>2. DOMAIN tys = 1..n /\ \A i \in 1..n : tys[i] = a[i].ty
  BY <1>1, TypesAre
<1>3. PICK m : m = Total([i \in DOMAIN tys |-> ByteCount(tys[i])])
  OBVIOUS
<1>4. (\A i \in 1..n : tys[i] = Byte \/ IsBytesType(tys[i])) /\ m \in 1..MAX_BYTES_LEN
  BY <1>1, <1>2, <1>3 DEF ConcatShape, Some
<1>5. \A i \in 1..n : a[i].ty = Byte \/ a[i].ty \in BytesTypes
  BY <1>2, <1>4, IsBytesTyped DEF AllTyped, IsBytesType, IsBytes
<1>6. Len(FlattenSeq([i \in DOMAIN a |-> ByteString(a[i])])) = m
  BY <1>1, <1>3, <1>5, ConcatIs
<1>7. \A i \in DOMAIN a : a[i].ty = Byte \/ IsBytes(a[i])
  BY <1>2, <1>4 DEF IsBytesType, IsBytes
<1> QED
  BY <1>4, <1>6, <1>7 DEF ConcatOff, Some

LEMMA ConstantBack ==
  ASSUME NEW ins, LoadConstantShape(ins) # {}
  PROVE  LoadConstantOff(ins) # {}
BY DEF LoadConstantShape, LoadConstantOff

\* The powers of two on both sides of a cut through the bits of an element.
LEMMA TwosSplit ==
  ASSUME NEW n \in 0..FR_BITS
  PROVE  2^n * 2^(FR_BITS - n) = 2^FR_BITS /\ 2^n \in Nat \ {0} /\ 2^(FR_BITS - n) \in Nat \ {0}
<1>1. FR_BITS \in Nat /\ n \in Nat
  BY Constants
<1>2. FR_BITS - n \in 0..FR_BITS
  BY <1>1
<1>3. 2^n \in Nat \ {0} /\ 2^(FR_BITS - n) \in Nat \ {0}
  BY <1>2, PowerAssumption
<1> DEFINE S == {k \in Nat : k \in 0..FR_BITS => 2^k * 2^(FR_BITS - k) = 2^FR_BITS}
<1>4. 0 \in S
  <2>1. 2^0 = 1 /\ FR_BITS - 0 = FR_BITS
    BY <1>1
  <2>2. PICK z \in Nat : z = 2^FR_BITS
    BY <1>1, PowerAssumption
  <2>3. 1 * z = z
    BY <2>2
  <2> QED
    BY <2>1, <2>2, <2>3
<1>5. ASSUME NEW k \in S
      PROVE  k + 1 \in S
  <2> SUFFICES ASSUME k + 1 \in 0..FR_BITS
               PROVE  2^(k + 1) * 2^(FR_BITS - (k + 1)) = 2^FR_BITS
    OBVIOUS
  <2>1. k \in Nat /\ k \in 0..FR_BITS /\ k + 1 \in 1..FR_BITS /\ (k + 1) - 1 = k
    BY <1>1
  <2>2. PICK j \in Nat : j = FR_BITS - (k + 1) /\ j + 1 = FR_BITS - k /\ j \in 0..FR_BITS
                          /\ j + 1 \in 1..FR_BITS /\ (j + 1) - 1 = j
    BY <1>1, <2>1
  <2>3. PICK x \in Nat : x = 2^k
    BY <2>1, PowerAssumption
  <2>4. PICK y \in Nat : y = 2^j
    BY <2>2, PowerAssumption
  <2>5. 2^(k + 1) = 2 * x
    BY <2>1, <2>3, PowerAssumption
  <2>6. 2^(j + 1) = 2 * y
    BY <2>2, <2>4, PowerAssumption
  <2>7. 2^k * 2^(FR_BITS - k) = 2^FR_BITS
    BY <2>1
  <2>8. x * (2 * y) = 2^FR_BITS
    BY <2>2, <2>3, <2>6, <2>7
  <2>9. (2 * x) * y = x * (2 * y)
    OBVIOUS
  <2> QED
    BY <2>2, <2>4, <2>5, <2>8, <2>9
<1> HIDE DEF S
<1>6. S \in SUBSET Nat
  BY DEF S
<1>7. S = Nat
  BY <1>4, <1>5, <1>6, InductionOnSet
<1>8. 2^n * 2^(FR_BITS - n) = 2^FR_BITS
  BY <1>1, <1>7 DEF S
<1> QED
  BY <1>3, <1>8

LEMMA JoinBack ==
  ASSUME NEW ins, ins.n[1] \in Nat, ins.n[1] # 0, ins.n[1] <= SplitBits,
         NEW a, Typed(a[1]), Typed(a[2]),
         NEW T, DOMAIN T = 1..2, T[1] = a[1].ty, T[2] = a[2].ty,
         ReconstituteShape(ins, T) # {}, ReconstituteHolds(ins, a)
  PROVE  ReconstituteFieldOff(ins, a) # {}
<1>1. a[1].ty = Native /\ a[2].ty = Native
  <2>1. 1 \in 1..2 /\ 2 \in 1..2
    OBVIOUS
  <2>2. AllOf(T, Native)
    BY DEF ReconstituteShape, Some
  <2> QED
    BY <2>1, <2>2 DEF AllOf
<1>2. PICK n \in Nat : n = ins.n[1] /\ n # 0 /\ n < FR_BITS /\ n \in 0..FR_BITS /\ FR_BITS - n < FR_BITS
  BY SplitBitsFew, Constants
<1>3. PICK m \in Nat : m = 2^n
  BY <1>2, TwosSplit
<1>4. PICK h \in Nat : h = 2^(FR_BITS - n)
  BY <1>2, TwosSplit
<1>5. m * h = 2^FR_BITS /\ m > 0 /\ m \in Nat
  <2>1. m \in Nat \ {0}
    BY <1>2, <1>3, TwosSplit
  <2>2. m * h = 2^FR_BITS
    BY <1>2, <1>3, <1>4, TwosSplit
  <2> QED
    BY <2>1, <2>2
<1>6. PICK q \in Nat : q = a[1].val
  BY <1>1, FrRange
<1>7. PICK s \in Nat : s = a[2].val
  BY <1>1, FrRange
<1>8. PICK r \in Nat : r = ReconstituteResult(ins, a) /\ r <= P - 1
  <2>1. m * q + s \in Nat
    BY <1>3
  <2>2. P \in Nat /\ P > 0
    BY Constants
  <2>3. (m * q + s) % P \in 0..P - 1
    BY <2>1, <2>2, ModRange
  <2> QED
    BY <1>2, <1>3, <1>6, <1>7, <2>2, <2>3 DEF ReconstituteResult
<1>9. r % m = s /\ r \div m = q
  BY <1>2, <1>3, <1>6, <1>7, <1>8 DEF ReconstituteHolds
<1>10. s < m
  BY <1>5, <1>9, ModRange
<1>11. q < h
  <2>1. P \in Nat /\ P <= m * h
    BY <1>5, FieldAssumption, Constants
  <2>2. m * h \in Nat
    OBVIOUS
  <2>3. r < m * h
    BY <1>8, <2>1, <2>2
  <2> QED
    BY <1>5, <1>9, <2>3, DivBelow
<1>12. m * q + s <= P - 1
  <2>1. r % m = r - m * (r \div m)
    BY <1>5, ModIs
  <2>2. s = r - m * q
    BY <1>9, <2>1
  <2>3. m * q \in Nat
    OBVIOUS
  <2> QED
    BY <1>8, <2>2, <2>3
<1>13. FitsBits(a[2], ins.n[1])
  BY <1>1, <1>2, <1>3, <1>7, <1>10 DEF FitsBits, IsFr
<1>14. FitsBits(a[1], FR_BITS - ins.n[1])
  BY <1>1, <1>2, <1>4, <1>6, <1>11 DEF FitsBits, IsFr
<1>15. 2^ins.n[1] * a[1].val + a[2].val <= P - 1
  BY <1>2, <1>3, <1>6, <1>7, <1>12
<1> QED
  BY <1>13, <1>14, <1>15 DEF ReconstituteFieldOff, Some

\* Elements that fit the chunks of a byte string are the encoding of one.
LEMMA LimbsRead ==
  ASSUME NEW n \in 1..MAX_BYTES_LEN, NEW xs \in Seq(Nat), Len(xs) = DivCeil(n, ChunkLen),
         \A i \in DOMAIN xs : xs[i] < ByteBase^ChunkBytes(n, i)
  PROVE  Decode(xs, Bytes(n)) # {} /\ decode_bytes(xs, n) # {}
<1>1. PICK w \in Nat : w = DivCeil(n, ChunkLen)
  BY ChunkCount, Constants
<1>2. xs \in [1..w -> Nat] /\ DOMAIN xs = 1..w /\ Len(xs) = w
  BY <1>1, SeqIsTuple
<1>3. n \in Nat \ {0} /\ n \in Nat
  BY Constants
<1>4. PICK t : t = [i \in DOMAIN xs |-> LeBytes(xs[i], ChunkBytes(n, i))]
  OBVIOUS
<1>5. t = [i \in 1..w |-> t[i]] /\ Len(t) = w
  BY <1>2, <1>4
<1>6. ASSUME NEW i \in 1..w
      PROVE  /\ t[i] \in Seq(Octets) /\ Len(t[i]) = ChunkBytes(n, i) /\ LeInt(t[i]) = xs[i]
  <2>1. ChunkBytes(n, i) \in 0..MAX_BYTES_LEN
    BY <1>1, <1>3, ChunkSizes
  <2>2. xs[i] \in Nat /\ xs[i] < ByteBase^ChunkBytes(n, i)
    BY <1>2
  <2>3. t[i] = LeBytes(xs[i], ChunkBytes(n, i))
    BY <1>2, <1>4
  <2> QED
    BY <2>1, <2>2, <2>3, LeBytesTyped, IntOfBytes
<1>7. t \in Seq(Seq(Octets))
  <2>1. \A i \in 1..w : t[i] \in Seq(Octets)
    BY <1>6
  <2>2. t = [i \in 1..w |-> t[i]]
    BY <1>5
  <2>3. [i \in 1..w |-> t[i]] \in Seq(Seq(Octets))
    BY <2>1, IsASeq
  <2> QED
    BY <2>2, <2>3
<1>8. Chunks(FlattenSeq(t)) = t
  <2>1. Len(t) = DivCeil(n, ChunkLen)
    BY <1>1, <1>5
  <2>2. \A i \in 1..DivCeil(n, ChunkLen) : Len(t[i]) = ChunkBytes(n, i)
    BY <1>1, <1>6
  <2> QED
    BY <1>3, <1>7, <2>1, <2>2, ChunksOfFlat
<1>0. PICK v : v = V(Bytes(n), FlattenSeq(t))
  OBVIOUS
<1>9. v = V(Bytes(n), FlattenSeq(t)) /\ v.ty = Bytes(n) /\ v.val = FlattenSeq(t)
  BY <1>0 DEF V
<1>10. v \in decode_bytes(xs, n)
  BY <1>4, <1>9 DEF decode_bytes, Some
<1>11. Encode(v) = xs
  <2>1. Encode(v) = [i \in DOMAIN t |-> LeInt(t[i])]
    BY <1>8, <1>9, EncodeIs
  <2>2. Encode(v) = [i \in 1..w |-> LeInt(t[i])]
    BY <1>5, <2>1
  <2>3. xs = [i \in 1..w |-> xs[i]]
    BY <1>2
  <2> QED
    BY <1>6, <2>2, <2>3
<1>12. v \in FromPublicInput(xs, Bytes(n))
  <2>1. Len(xs) = encoded_len(Bytes(n))
    BY EncodedLen
  <2> QED
    BY <1>10, <2>1, IntoPublicInput
<1> QED
  BY <1>10, <1>11, <1>12 DEF Decode

LEMMA NativesToBytesBack ==
  ASSUME NEW ins, NEW n \in Nat, NEW a, DOMAIN a = 1..n, AllTyped(a),
         NEW T, DOMAIN T = 1..n, Len(T) = n, \A i \in 1..n : T[i] = a[i].ty, Len(a) = n,
         BytesFromNativesShape(ins, T) # {}, BytesFromNativesHolds(ins, a)
  PROVE  BytesFromNativesOff(ins, a) # {}
<1>1. LimbsMatch(ins.n[1], n) /\ AllOf(T, Native)
  BY DEF BytesFromNativesShape, Some
<1>2. \A i \in 1..n : a[i].ty = Native
  BY <1>1 DEF AllOf
<1>3. AllFr(a)
  BY <1>2 DEF AllFr, IsFr
<1>4. PICK m \in 1..MAX_BYTES_LEN : m = ins.n[1] /\ n = DivCeil(m, ChunkLen)
  BY <1>1 DEF LimbsMatch
<1>5. PICK xs : xs = Payloads(a) /\ xs \in Seq(Immediates) /\ Len(xs) = n
  BY <1>2, PayloadsTyped
<1>6. DOMAIN xs = 1..n /\ \A i \in 1..n : xs[i] = a[i].val
  BY <1>5 DEF Payloads
<1>7. xs \in Seq(Nat)
  <2>1. Immediates \subseteq Nat
    BY Constants DEF Immediates
  <2> QED
    BY <1>5, <2>1, SeqWider
<1>8. \A i \in DOMAIN xs : xs[i] < ByteBase^ChunkBytes(m, i)
  BY <1>4, <1>6 DEF BytesFromNativesHolds
<1>9. PICK v : v \in Decode(xs, Bytes(m))
  BY <1>4, <1>5, <1>7, <1>8, LimbsRead
<1>10. <<v>> \in BytesFromNativesOff(ins, a)
  BY <1>1, <1>3, <1>4, <1>5, <1>9 DEF BytesFromNativesOff
<1> QED
  BY <1>10

\* Elements that fit the pieces of a segment are its representation.
LEMMA SegmentReads ==
  ASSUME NEW align \in Seq(Segment), NEW k \in 1..Len(align), Decodable(align[k]),
         NEW at \in Nat, at = AtomStart(align, k), NEW w \in Nat, w = Width(align[k]),
         NEW es, NEW xs \in [1..w -> Immediates], ReadsFrom(xs, es, at, w),
         \A i \in DOMAIN AtomPieces(align, k) : PieceFits(es, AtomPieces(align, k)[i])
  PROVE  SegmentBytes(align[k], xs) # {}
<1>1. align[k] \in Segment
  BY ElementOfSeq
<1>2. CASE align[k][1] = "Field"
  BY <1>2 DEF SegmentBytes
<1>3. CASE align[k][1] = "Bytes"
  <2>1. PICK n \in Nat : n = align[k][2] /\ w = DivCeil(n, ChunkLen)
    BY <1>1, <1>3, WidthNat DEF Width
  <2>2. PICK ps : ps = AtomPieces(align, k)
    OBVIOUS
  <2>3. /\ DOMAIN ps = 1..w
        /\ \A i \in 1..w : ps[i].from = (at + w + 1) - i /\ ps[i].len = ChunkBytes(n, i)
    <3>1. DOMAIN AtomPieces(align, k) = 1..w
      BY <1>3, PieceOfLimb
    <3>2. \A i \in 1..w : /\ AtomPieces(align, k)[i].from = (at + w + 1) - i
                          /\ AtomPieces(align, k)[i].len = ChunkBytes(align[k][2], i)
      BY <1>3, PieceOfLimb
    <3> QED
      BY <2>1, <2>2, <3>1, <3>2
  <2>4. PICK rs \in [1..w -> Immediates] : rs = Reverse(xs) /\ \A i \in 1..w : rs[i] = xs[(w - i) + 1]
    <3>1. Reverse(xs) \in [1..w -> Immediates]
      BY ReverseTyped
    <3>2. ASSUME NEW i \in 1..w
          PROVE  Reverse(xs)[i] = xs[(w - i) + 1]
      <4>1. Len(xs) = w
        OBVIOUS
      <4> QED
        BY <4>1 DEF Reverse
    <3> QED
      BY <3>1, <3>2
  <2>5. ASSUME NEW i \in 1..w
        PROVE  rs[i] < ByteBase^ChunkBytes(n, i)
    <3>1. (w - i) + 1 \in 1..w /\ at + ((w - i) + 1) = (at + w + 1) - i
      BY ONLY at \in Nat, w \in Nat, i \in 1..w
    <3>2. xs[(w - i) + 1] = es[at + ((w - i) + 1)]
      BY <3>1 DEF ReadsFrom
    <3>3. rs[i] = es[ps[i].from]
      BY <2>3, <2>4, <3>1, <3>2
    <3>4. es[ps[i].from] < ByteBase^ps[i].len
      BY <2>2, <2>3 DEF PieceFits
    <3> QED
      BY <2>3, <3>3, <3>4
  <2>6. Len(rs) = w /\ DOMAIN rs = 1..w
    BY <2>4
  <2>7. PICK v : v = V(Bytes(n), FlattenSeq([i \in DOMAIN rs |-> LeBytes(rs[i], ChunkBytes(n, i))]))
    OBVIOUS
  <2>8. v \in decode_bytes(rs, n)
    BY <2>1, <2>5, <2>6, <2>7 DEF decode_bytes, Some
  <2>9. v.val \in SegmentBytes(align[k], xs)
    BY <1>3, <2>1, <2>4, <2>8 DEF SegmentBytes
  <2> QED
    BY <2>9
<1> QED
  BY <1>2, <1>3 DEF Decodable

\* The alignment starts its segments no later than it ends.
LEMMA StartsBelow ==
  ASSUME NEW align \in Seq(Segment), NEW k \in 1..Len(align) + 1
  PROVE  AtomStart(align, k) <= AlignedWidth(align)
<1>1. PICK n \in Nat : n = Len(align)
  BY LenProperties
<1> DEFINE S == {j \in Nat : j \in 0..n => AtomStart(align, (n - j) + 1) <= AlignedWidth(align)}
<1>2. AlignedWidth(align) \in Nat /\ AtomStart(align, n + 1) = AlignedWidth(align)
  BY <1>1, StartsAdd, AlignedWidthNat
<1>3. 0 \in S
  <2>1. (n - 0) + 1 = n + 1
    OBVIOUS
  <2> QED
    BY <1>2, <2>1
<1>4. ASSUME NEW j \in Nat, j \in S
      PROVE  j + 1 \in S
  <2>0. j \in 0..n => AtomStart(align, (n - j) + 1) <= AlignedWidth(align)
    BY <1>4
  <2> SUFFICES ASSUME j + 1 \in 0..n
               PROVE  AtomStart(align, (n - (j + 1)) + 1) <= AlignedWidth(align)
    OBVIOUS
  <2> HIDE DEF S
  <2>1. PICK i \in Nat : i = n - j /\ i \in 1..n /\ (n - (j + 1)) + 1 = i /\ j \in 0..n
    OBVIOUS
  <2>2. AtomStart(align, i + 1) = AtomStart(align, i) + Width(align[i])
    BY <1>1, <2>1, StartsAdd
  <2>3. Width(align[i]) \in Nat
    <3>1. align[i] \in Segment
      BY <1>1, <2>1, ElementOfSeq
    <3> QED
      BY <3>1, WidthNat
  <2>4. AtomStart(align, i) \in Nat
    <3>1. i \in 1..Len(align) + 1
      BY <1>1, <2>1
    <3> QED
      BY <3>1, StartsAdd
  <2>5. AtomStart(align, i + 1) <= AlignedWidth(align)
    BY <2>0, <2>1
  <2> QED
    BY <1>2, <2>1, <2>2, <2>3, <2>4, <2>5
<1> HIDE DEF S
<1>5. S \in SUBSET Nat
  BY DEF S
<1>6. \A j \in S : j + 1 \in S
  BY <1>4, <1>5
<1>7. S = Nat
  BY <1>3, <1>5, <1>6, InductionOnSet
<1>8. PICK j \in Nat : j \in 0..n /\ (n - j) + 1 = k
  <2>1. (n + 1) - k \in 0..n /\ (n - ((n + 1) - k)) + 1 = k /\ (n + 1) - k \in Nat
    BY <1>1
  <2> QED
    BY <2>1
<1> QED
  BY <1>7, <1>8 DEF S

\* What a part has, the whole has.
LEMMA FlattenHas ==
  ASSUME NEW S, NEW t \in Seq(Seq(S)), NEW k \in Nat, k < Len(t), NEW i \in DOMAIN t[k + 1]
  PROVE  \E j \in DOMAIN FlattenSeq(t) : FlattenSeq(t)[j] = t[k + 1][i]
<1>1. PICK l \in Nat : l = Len(t)
  BY LenProperties
<1>2. PICK x \in Seq(S) : x = t[k + 1]
  BY <1>1, ElementOfSeq
<1>3. FirstOf(t, k) \in Seq(Seq(S))
  <2>1. \A j \in 1..k : t[j] \in Seq(S)
    BY <1>1, ElementOfSeq
  <2> QED
    BY <2>1, IsASeq DEF FirstOf
<1>4. PICK u \in Seq(S) : u = FlattenSeq(FirstOf(t, k))
  BY <1>3, FlattenTyped
<1>5. PICK r \in Seq(S) : FlattenSeq(t) = Cat(Cat(u, x), r)
  BY <1>2, <1>4, FlattenSplits
<1>6. PICK a \in Nat, b \in Nat, c \in Nat : a = Len(u) /\ b = Len(x) /\ c = Len(r)
  BY LenProperties
<1>7. Len(Cat(Cat(u, x), r)) = (a + b) + c /\ Cat(Cat(u, x), r) \in Seq(S)
  BY <1>6 DEF Cat
<1>0. PICK j : j = a + i
  OBVIOUS
<1>8. j \in Nat /\ j \in 1..(a + b) + c
  <2>1. PICK h \in 1..b : h = i
    BY <1>2, <1>6, LenProperties
  <2>2. a + h \in 1..(a + b) + c /\ a + h \in Nat
    BY ONLY a \in Nat, b \in Nat, c \in Nat, h \in 1..b
  <2> QED
    BY <1>0, <2>1, <2>2
<1>9. j \in DOMAIN FlattenSeq(t)
  BY <1>5, <1>7, <1>8, LenProperties
<1>10. FlattenSeq(t)[j] = x[i]
  <2>1. Cat(Cat(u, x), r)[Len(u) + i] = x[i]
    BY <1>2, CatMiddle
  <2> QED
    BY <1>0, <1>5, <1>6, <2>1
<1> QED
  BY <1>2, <1>9, <1>10

LEMMA SuffixIs ==
  ASSUME NEW S, NEW m \in Nat, NEW es \in [1..m -> S], NEW at \in Nat, at <= m, NEW r, r = m - at
  PROVE  SubSeq(es, at + 1, m) = [i \in 1..r |-> es[at + i]]
<1>1. r \in Nat
  OBVIOUS
<1> QED
  BY <1>1

\* The parser goes on where the next segment fits.
LEMMA TakesOn ==
  ASSUME NEW align \in Seq(Segment), NEW m \in Nat, NEW es \in [1..m -> Immediates],
         m = AlignedWidth(align),
         NEW k \in Nat, k + 1 \in 1..Len(align), Decodable(align[k + 1]), NEW acc, NEW p \in acc,
         ParsedTo(align, es, m, k, p),
         \A i \in DOMAIN AtomPieces(align, k + 1) : PieceFits(es, AtomPieces(align, k + 1)[i])
  PROVE  TakeSegment(acc, align[k + 1]) # {}
<1>1. align[k + 1] \in Segment
  BY ElementOfSeq
<1>2. PICK w \in Nat : w = Width(align[k + 1])
  BY <1>1, WidthNat
<1>3. PICK at \in Nat : at = AtomStart(align, k + 1)
  <2>1. k + 1 \in 1..Len(align) + 1
    BY LenProperties
  <2> QED
    BY <2>1, StartsAdd
<1>4. at + w <= m
  <2>1. (k + 1) + 1 \in 1..Len(align) + 1
    BY LenProperties
  <2>2. AtomStart(align, (k + 1) + 1) = at + w
    BY <1>2, <1>3, StartsAdd
  <2> QED
    BY <2>1, <2>2, StartsBelow
<1>5. PICK l : l = p.left /\ l = SubSeq(es, at + 1, m) /\ at <= m
  BY <1>3 DEF ParsedTo
<1>6. PICK r \in Nat : r = m - at /\ w <= r
  BY <1>4
<1>7. l = [i \in 1..r |-> es[at + i]]
  BY <1>5, <1>6, SuffixIs
<1>8. Len(l) = r /\ \A i \in 1..r : l[i] = es[at + i]
  BY <1>7
<1>9. PICK xs : xs = SubSeq(l, 1, w)
  OBVIOUS
<1>10. xs = [i \in 1..w |-> l[i]]
  BY <1>6, <1>8, <1>9
<1>11. ASSUME NEW i \in 1..w
       PROVE  l[i] = es[at + i] /\ es[at + i] \in Immediates
  <2>1. i \in 1..r /\ at + i \in 1..m
    BY <1>6
  <2> QED
    BY <1>8, <2>1
<1>12. xs \in [1..w -> Immediates] /\ ReadsFrom(xs, es, at, w)
  BY <1>10, <1>11 DEF ReadsFrom
<1>13. SegmentBytes(align[k + 1], xs) # {}
  BY <1>2, <1>3, <1>12, SegmentReads
<1>14. PICK bs : bs \in SegmentBytes(align[k + 1], SubSeq(p.left, 1, Width(align[k + 1])))
  BY <1>2, <1>5, <1>9, <1>13
<1>15. p \in {q \in acc : Width(align[k + 1]) <= Len(q.left)}
  BY <1>2, <1>5, <1>6, <1>8
<1> DEFINE G(z) == {[left |-> SubSeq(z.left, Width(align[k + 1]) + 1, Len(z.left)),
                     bytes |-> z.bytes \o b]
                      : b \in SegmentBytes(align[k + 1], SubSeq(z.left, 1, Width(align[k + 1])))}
<1>16. TakeSegment(acc, align[k + 1]) = UNION {G(z) : z \in {q \in acc : Width(align[k + 1]) <= Len(q.left)}}
  BY DEF TakeSegment
<1>17. G(p) # {}
  BY <1>14
<1> HIDE DEF G
<1>18. PICK y : y \in G(p)
  BY <1>17
<1>19. y \in TakeSegment(acc, align[k + 1])
  BY <1>15, <1>16, <1>18
<1> QED
  BY <1>19

\* A parse of elements that fit every piece succeeds.
LEMMA ParseSucceeds ==
  ASSUME NEW align \in Seq(Segment), NEW m \in Nat, NEW es \in [1..m -> Immediates],
         m = AlignedWidth(align), \A j \in DOMAIN align : Decodable(align[j]),
         \A i \in DOMAIN Pieces(align) : PieceFits(es, Pieces(align)[i])
  PROVE  parse_field_repr(align, es) # {}
<1>1. PICK n \in Nat : n = Len(align) /\ DOMAIN align = 1..n
  BY LenProperties
<1>2. PICK f : /\ ParseRun(f, align, es, n)
               /\ parse_field_repr(align, es) = {p.bytes : p \in {q \in f[n] : q.left = <<>>}}
  BY <1>1, ParseIs
<1>3. ASSUME NEW k \in Nat, k + 1 \in 1..n, NEW i \in DOMAIN AtomPieces(align, k + 1)
      PROVE  PieceFits(es, AtomPieces(align, k + 1)[i])
  <2>1. PICK W : W = Piece(m)
    OBVIOUS
  <2>2. \A j \in 1..n : AtomPieces(align, j) \in Seq(W)
    BY <1>1, <2>1, AtomPiecesTyped
  <2>3. PICK t : t = [j \in 1..n |-> AtomPieces(align, j)]
    OBVIOUS
  <2>4. [j \in 1..n |-> AtomPieces(align, j)] \in Seq(Seq(W))
    BY <2>2, IsASeq
  <2>5. t \in Seq(Seq(W)) /\ Len(t) = n /\ t[k + 1] = AtomPieces(align, k + 1) /\ k < Len(t)
    BY <1>3, <2>3, <2>4
  <2>6. Pieces(align) = FlattenSeq(t)
    BY <1>1, <2>3 DEF Pieces
  <2>7. i \in DOMAIN t[k + 1]
    BY <1>3, <2>5
  <2>8. PICK j \in DOMAIN FlattenSeq(t) : FlattenSeq(t)[j] = t[k + 1][i]
    BY <2>5, <2>7, FlattenHas
  <2>9. j \in DOMAIN Pieces(align) /\ Pieces(align)[j] = AtomPieces(align, k + 1)[i]
    BY <2>5, <2>6, <2>8
  <2> QED
    BY <2>9
<1> DEFINE S == {k \in Nat : k \in 0..n => f[k] # {}}
<1>4. 0 \in S
  <2>1. f[0] = {[left |-> es, bytes |-> <<>>]}
    BY <1>2 DEF ParseRun
  <2> QED
    BY <2>1
<1>5. ASSUME NEW k \in Nat, k \in S
      PROVE  k + 1 \in S
  <2>0. k \in 0..n => f[k] # {}
    BY <1>5
  <2> SUFFICES ASSUME k + 1 \in 0..n
               PROVE  f[k + 1] # {}
    OBVIOUS
  <2> HIDE DEF S
  <2>1. k \in 0..n /\ k + 1 \in 1..n /\ k + 1 \in 1..Len(align) /\ k + 1 # 0 /\ (k + 1) - 1 = k
        /\ k \in 0..Len(align)
    BY <1>1
  <2>2. f[k + 1] = TakeSegment(f[k], align[k + 1])
    BY <1>2, <2>1 DEF ParseRun
  <2>3. \A p \in f[k] : ParsedTo(align, es, m, k, p)
    BY <1>1, <1>2, <2>1, ParseConsumes
  <2>4. PICK p : p \in f[k]
    BY <2>0, <2>1
  <2>5. \A i \in DOMAIN AtomPieces(align, k + 1) : PieceFits(es, AtomPieces(align, k + 1)[i])
    BY <1>3, <2>1
  <2>6. Decodable(align[k + 1])
    BY <1>1, <2>1
  <2>7. ParsedTo(align, es, m, k, p)
    BY <2>3, <2>4
  <2>8. TakeSegment(f[k], align[k + 1]) # {}
    BY <2>1, <2>4, <2>5, <2>6, <2>7, TakesOn
  <2> QED
    BY <2>2, <2>8
<1> HIDE DEF S
<1>6. S \in SUBSET Nat
  BY DEF S
<1>7. \A k \in S : k + 1 \in S
  BY <1>5, <1>6
<1>8. S = Nat
  BY <1>4, <1>6, <1>7, InductionOnSet
<1>9. PICK p : p \in f[n]
  <2>1. n \in 0..n
    OBVIOUS
  <2> QED
    BY <1>8, <2>1 DEF S
<1>10. ParsedTo(align, es, m, n, p)
  <2>1. n \in 0..Len(align)
    BY <1>1
  <2> QED
    BY <1>1, <1>2, <1>9, <2>1, ParseConsumes
<1>11. p.left = <<>>
  <2>1. AtomStart(align, n + 1) = m
    BY <1>1, StartsAdd
  <2>2. p.left = SubSeq(es, m + 1, m)
    BY <1>10, <2>1 DEF ParsedTo
  <2>3. SubSeq(es, m + 1, m) = <<>>
    OBVIOUS
  <2> QED
    BY <2>2, <2>3
<1>12. p.bytes \in parse_field_repr(align, es)
  BY <1>2, <1>9, <1>11
<1> QED
  BY <1>12

LEMMA ByteHashBack ==
  ASSUME NEW ins, ins.align \in Seq(Segment), NEW n \in Nat, NEW a, DOMAIN a = 1..n, AllTyped(a),
         NEW T, DOMAIN T = 1..n, Len(T) = n, \A i \in 1..n : T[i] = a[i].ty,
         ByteHashShape(ins, T) # {}, ByteHashHolds(ins, a), AlignedWidth(ins.align) = n
  PROVE  ByteHashOff(ins, a) # {}
<1>1. PICK align \in Seq(Segment) : align = ins.align
  OBVIOUS
<1>2. PICK es : es = Payloads(a)
  OBVIOUS
<1>3. AllOf(T, Native) /\ \A i \in DOMAIN align : Decodable(align[i])
  BY <1>1 DEF ByteHashShape, Some
<1>4. \A i \in 1..n : a[i].ty = Native
  BY <1>3 DEF AllOf
<1>5. es \in [1..n -> Immediates] /\ \A i \in 1..n : es[i] = a[i].val
  <2>1. \A i \in 1..n : a[i].val \in Immediates
    BY <1>4, FrRange DEF AllTyped
  <2>2. es = [i \in 1..n |-> a[i].val]
    BY <1>2 DEF Payloads
  <2> QED
    BY <2>1, <2>2
<1>6. ASSUME NEW i \in DOMAIN Pieces(align)
      PROVE  PieceFits(es, Pieces(align)[i])
  <2>1. Pieces(align) \in Seq(Piece(n))
    BY <1>1, <1>3, PiecesTyped
  <2>2. Pieces(align)[i] \in Piece(n)
    BY <2>1, LenProperties, ElementOfSeq
  <2>3. Pieces(align)[i].from \in 1..n
    BY <2>2 DEF Piece
  <2>4. a[Pieces(align)[i].from].val < ByteBase^Pieces(align)[i].len
    BY <1>1 DEF ByteHashHolds
  <2> QED
    BY <1>5, <2>3, <2>4 DEF PieceFits
<1>7. PICK bs : bs \in parse_field_repr(align, es)
  BY <1>1, <1>3, <1>5, <1>6, ParseSucceeds
<1>8. AllFr(a)
  BY <1>4 DEF AllFr, IsFr
<1>9. <<BytesV(Digest(ins.op, bs))>> \in ByteHashOff(ins, a)
  BY <1>1, <1>2, <1>7, <1>8 DEF ByteHashOff
<1> QED
  BY <1>9

\* The other way round: operands for which `circuit` has an arm and whose
\* constraints can be satisfied are accepted by `preprocess`, unless they fail
\* one of the checks that `circuit` does not repeat.
THEOREM TwinsComplete ==
  ASSUME NEW ins \in Instruction, WellShaped(ins), ins.op \in ValueOps,
         NEW a, a = [i \in 1..Len(ins.args) |-> a[i]], AllTyped(a),
         Shape(ins, TypesOf(a)) # {}, Holds(ins, a), Strict(ins, a)
  PROVE  OffGate(ins, a) # {}
<1>1. /\ Len(ins.args) \in Nat /\ ins.ty \in IrType /\ ins.enc \in Seq(Immediates)
      /\ ins.align \in Seq(Segment) /\ ins.n \in Seq(Nat)
  BY DEF Instruction
<1>0. PICK n \in Nat : n = Len(ins.args)
  BY <1>1
<1>7. DOMAIN a = 1..n /\ a = [i \in 1..n |-> a[i]]
  BY <1>0
<1>8. Len(a) = n
  BY <1>7
<1>2. /\ ins.op \in UnaryOps => Typed(a[1])
      /\ ins.op \in BinaryOps => Typed(a[1]) /\ Typed(a[2])
      /\ ins.op = "CondSelect" => Typed(a[1]) /\ Typed(a[2]) /\ Typed(a[3])
  BY <1>0, <1>7, OperandsTyped
<1>3. /\ ins.op \in OneParameter => ins.n[1] \in Nat
      /\ ins.op = "Slice" => ins.n[1] \in Nat /\ ins.n[2] \in Nat
  BY ParametersTyped
<1>5. PICK T : T = TypesOf(a)
  OBVIOUS
<1>6. DOMAIN T = 1..n /\ Len(T) = n /\ \A i \in 1..n : T[i] = a[i].ty
  BY <1>5, <1>7, TypesAre
<1>9. /\ ins.op \in UnaryOps => n = 1
      /\ ins.op \in BinaryOps => n = 2
      /\ ins.op = "CondSelect" => n = 3
  BY <1>0 DEF WellShaped
<1>4. /\ ins.op \in UnaryOps => T[1] = a[1].ty
      /\ ins.op \in BinaryOps => T[1] = a[1].ty /\ T[2] = a[2].ty /\ DOMAIN T = 1..2
      /\ ins.op = "CondSelect" => T[1] = a[1].ty /\ T[2] = a[2].ty /\ T[3] = a[3].ty
  <2>1. 1 \in 1..1 /\ {1, 2} \subseteq 1..2 /\ {1, 2, 3} \subseteq 1..3
    OBVIOUS
  <2>2. ins.op \in UnaryOps => T[1] = a[1].ty
    BY <1>6, <1>9, <2>1
  <2>3. ins.op \in BinaryOps => T[1] = a[1].ty /\ T[2] = a[2].ty /\ DOMAIN T = 1..2
    BY <1>6, <1>9, <2>1
  <2>4. ins.op = "CondSelect" => T[1] = a[1].ty /\ T[2] = a[2].ty /\ T[3] = a[3].ty
    BY <1>6, <1>9, <2>1
  <2> QED
    BY <2>2, <2>3, <2>4
<1>10. ins.op \in BinaryOps => T = <<a[1].ty, a[2].ty>>
  <2>1. T = [i \in 1..n |-> a[i].ty]
    BY <1>5, <1>7 DEF TypesOf
  <2> QED
    BY <1>9, <2>1
<1>11. CASE ins.op = "Add"
  <2>1. OffGate(ins, a) = AddOff(a) /\ Shape(ins, T) = AddShape(T)
    BY <1>11 DEF OffGate, Shape, HashOps
  <2>2. AddShape(T) # {}
    BY <1>11, <1>5, <2>1 DEF Holds, HashOps
  <2>4. Typed(a[1]) /\ Typed(a[2]) /\ T[1] = a[1].ty /\ T[2] = a[2].ty /\ DOMAIN T = 1..2
    BY <1>11, <1>2, <1>3, <1>4 DEF UnaryOps, BinaryOps, OneParameter
  <2>5. AddOff(a) # {}
    BY <2>2, <2>4, ArithmeticBack
  <2> QED
    BY <2>1, <2>5
<1>12. CASE ins.op = "Mul"
  <2>1. OffGate(ins, a) = MulOff(a) /\ Shape(ins, T) = MulShape(T)
    BY <1>12 DEF OffGate, Shape, HashOps
  <2>2. MulShape(T) # {}
    BY <1>12, <1>5, <2>1 DEF Holds, HashOps
  <2>4. Typed(a[1]) /\ Typed(a[2]) /\ T[1] = a[1].ty /\ T[2] = a[2].ty /\ DOMAIN T = 1..2
    BY <1>12, <1>2, <1>3, <1>4 DEF UnaryOps, BinaryOps, OneParameter
  <2>5. MulOff(a) # {}
    BY <2>2, <2>4, ArithmeticBack
  <2> QED
    BY <2>1, <2>5
<1>13. CASE ins.op = "Neg"
  <2>1. OffGate(ins, a) = NegOff(a) /\ Shape(ins, T) = NegShape(T)
    BY <1>13 DEF OffGate, Shape, HashOps
  <2>2. NegShape(T) # {}
    BY <1>13, <1>5, <2>1 DEF Holds, HashOps
  <2>4. Typed(a[1]) /\ T[1] = a[1].ty
    BY <1>13, <1>2, <1>3, <1>4 DEF UnaryOps, BinaryOps, OneParameter
  <2>5. NegOff(a) # {}
    BY <2>2, <2>4, ArithmeticBack
  <2> QED
    BY <2>1, <2>5
<1>14. CASE ins.op = "Inv"
  <2>1. OffGate(ins, a) = InvOff(a) /\ Shape(ins, T) = InvShape(T)
    BY <1>14 DEF OffGate, Shape, HashOps
  <2>2. InvShape(T) # {} /\ a[1].val # 0
    BY <1>14, <1>5, <2>1 DEF Holds, HashOps
  <2>4. Typed(a[1]) /\ T[1] = a[1].ty
    BY <1>14, <1>2, <1>3, <1>4 DEF UnaryOps, BinaryOps, OneParameter
  <2>5. InvOff(a) # {}
    BY <2>2, <2>4, ArithmeticBack
  <2> QED
    BY <2>1, <2>5
<1>15. CASE ins.op = "Not"
  <2>1. OffGate(ins, a) = NotOff(a) /\ Shape(ins, T) = NotShape(T)
    BY <1>15 DEF OffGate, Shape, HashOps
  <2>2. NotShape(T) # {} /\ BitHolds(a[1])
    BY <1>15, <1>5, <2>1 DEF Holds, HashOps
  <2>4. Typed(a[1]) /\ T[1] = a[1].ty
    BY <1>15, <1>2, <1>3, <1>4 DEF UnaryOps, BinaryOps, OneParameter
  <2>5. NotOff(a) # {}
    BY <2>2, <2>4, ArithmeticBack
  <2> QED
    BY <2>1, <2>5
<1>16. CASE ins.op = "JubjubScalarFromNative"
  <2>1. OffGate(ins, a) = JubjubScalarFromNativeOff(a) /\ Shape(ins, T) = JubjubScalarShape(T)
    BY <1>16 DEF OffGate, Shape, HashOps
  <2>2. JubjubScalarShape(T) # {}
    BY <1>16, <1>5, <2>1 DEF Holds, HashOps
  <2>4. Typed(a[1]) /\ T[1] = a[1].ty
    BY <1>16, <1>2, <1>3, <1>4 DEF UnaryOps, BinaryOps, OneParameter
  <2>5. JubjubScalarFromNativeOff(a) # {}
    BY <2>2, <2>4, ArithmeticBack
  <2> QED
    BY <2>1, <2>5
<1>17. CASE ins.op = "And"
  <2>1. OffGate(ins, a) = AndOff(a) /\ Shape(ins, T) = BitListShape(T)
    BY <1>17 DEF OffGate, Shape, HashOps
  <2>2. BitListShape(T) # {}
    BY <1>17, <1>5, <2>1 DEF Holds, HashOps
  <2>5. AndOff(a) # {}
    BY <2>2, <1>5, <1>7, BitListBack
  <2> QED
    BY <2>1, <2>5
<1>18. CASE ins.op = "Or"
  <2>1. OffGate(ins, a) = OrOff(a) /\ Shape(ins, T) = BitListShape(T)
    BY <1>18 DEF OffGate, Shape, HashOps
  <2>2. BitListShape(T) # {}
    BY <1>18, <1>5, <2>1 DEF Holds, HashOps
  <2>5. OrOff(a) # {}
    BY <2>2, <1>5, <1>7, BitListBack
  <2> QED
    BY <2>1, <2>5
<1>19. CASE ins.op = "Xor"
  <2>1. OffGate(ins, a) = XorOff(a) /\ Shape(ins, T) = BitListShape(T)
    BY <1>19 DEF OffGate, Shape, HashOps
  <2>2. BitListShape(T) # {}
    BY <1>19, <1>5, <2>1 DEF Holds, HashOps
  <2>5. XorOff(a) # {}
    BY <2>2, <1>5, <1>7, BitListBack
  <2> QED
    BY <2>1, <2>5
<1>20. CASE ins.op = "ConstrainEq"
  <2>1. OffGate(ins, a) = ConstrainEqOff(a) /\ Shape(ins, T) = ConstrainEqShape(T)
    BY <1>20 DEF OffGate, Shape, HashOps
  <2>2. ConstrainEqShape(T) # {} /\ a[1] = a[2]
    BY <1>20, <1>5, <2>1 DEF Holds, HashOps
  <2>4. Typed(a[1]) /\ Typed(a[2]) /\ T[1] = a[1].ty /\ T[2] = a[2].ty /\ DOMAIN T = 1..2
    BY <1>20, <1>2, <1>3, <1>4 DEF UnaryOps, BinaryOps, OneParameter
  <2>5. ConstrainEqOff(a) # {}
    BY <2>2, <2>4, CheckBack
  <2> QED
    BY <2>1, <2>5
<1>21. CASE ins.op = "Assert"
  <2>1. OffGate(ins, a) = AssertOff(a) /\ Shape(ins, T) = CheckShape(T)
    BY <1>21 DEF OffGate, Shape, HashOps
  <2>2. CheckShape(T) # {}
    BY <1>21, <1>5, <2>1 DEF Holds, HashOps
  <2>3. a[1].val = 1
    BY <1>21, <1>0 DEF Strict, HashOps
  <2>4. Typed(a[1]) /\ T[1] = a[1].ty
    BY <1>21, <1>2, <1>3, <1>4 DEF UnaryOps, BinaryOps, OneParameter
  <2>5. AssertOff(a) # {}
    BY <2>2, <2>3, <2>4, CheckBack
  <2> QED
    BY <2>1, <2>5
<1>22. CASE ins.op = "ConstrainToBoolean"
  <2>1. OffGate(ins, a) = ConstrainToBooleanOff(a) /\ Shape(ins, T) = CheckShape(T)
    BY <1>22 DEF OffGate, Shape, HashOps
  <2>2. CheckShape(T) # {} /\ BitHolds(a[1])
    BY <1>22, <1>5, <2>1 DEF Holds, HashOps
  <2>4. Typed(a[1]) /\ T[1] = a[1].ty
    BY <1>22, <1>2, <1>3, <1>4 DEF UnaryOps, BinaryOps, OneParameter
  <2>5. ConstrainToBooleanOff(a) # {}
    BY <2>2, <2>4, CheckBack
  <2> QED
    BY <2>1, <2>5
<1>23. CASE ins.op = "ConstrainBits"
  <2>1. OffGate(ins, a) = ConstrainBitsOff(ins, a) /\ Shape(ins, T) = CheckShape(T)
    BY <1>23 DEF OffGate, Shape, HashOps
  <2>2. CheckShape(T) # {}
    BY <1>23, <1>5, <2>1 DEF Holds, HashOps
  <2>3. ins.n[1] < FR_BITS /\ a[1].val < 2^ins.n[1]
    <3>1. 1 \in DOMAIN a
      BY <1>23, <1>7, <1>9 DEF UnaryOps, BinaryOps
    <3> QED
      BY <1>23, <3>1 DEF Strict, HashOps
  <2>4. Typed(a[1]) /\ T[1] = a[1].ty /\ ins.n[1] \in Nat
    BY <1>23, <1>2, <1>3, <1>4 DEF UnaryOps, BinaryOps, OneParameter
  <2>5. ConstrainBitsOff(ins, a) # {}
    BY <2>2, <2>3, <2>4, CheckBack
  <2> QED
    BY <2>1, <2>5
<1>24. CASE ins.op = "TestEq"
  <2>1. OffGate(ins, a) = TestEqOff(a) /\ Shape(ins, T) = TestEqShape(T)
    BY <1>24 DEF OffGate, Shape, HashOps
  <2>2. TestEqShape(T) # {}
    BY <1>24, <1>5, <2>1 DEF Holds, HashOps
  <2>4. Typed(a[1]) /\ Typed(a[2]) /\ T[1] = a[1].ty /\ T[2] = a[2].ty /\ DOMAIN T = 1..2
    BY <1>24, <1>2, <1>3, <1>4 DEF UnaryOps, BinaryOps, OneParameter
  <2>5. TestEqOff(a) # {}
    BY <2>2, <2>4, CheckBack
  <2> QED
    BY <2>1, <2>5
<1>25. CASE ins.op = "LessThan"
  <2>1. OffGate(ins, a) = LessThanOff(ins, a) /\ Shape(ins, T) = LessThanShape(T)
    BY <1>25 DEF OffGate, Shape, HashOps
  <2>2. LessThanShape(T) # {}
    BY <1>25, <1>5, <2>1 DEF Holds, HashOps
  <2>3. ins.n[1] < FR_BITS /\ a[1].val < 2^ins.n[1] /\ a[2].val < 2^ins.n[1]
    <3>1. 1 \in DOMAIN a /\ 2 \in DOMAIN a
      BY <1>25, <1>7, <1>9 DEF UnaryOps, BinaryOps
    <3> QED
      BY <1>25, <3>1 DEF Strict, HashOps
  <2>4. Typed(a[1]) /\ Typed(a[2]) /\ T[1] = a[1].ty /\ T[2] = a[2].ty /\ DOMAIN T = 1..2 /\ ins.n[1] \in Nat
    BY <1>25, <1>2, <1>3, <1>4 DEF UnaryOps, BinaryOps, OneParameter
  <2>5. LessThanOff(ins, a) # {}
    BY <2>2, <2>3, <2>4, SplitBack
  <2> QED
    BY <2>1, <2>5
<1>26. CASE ins.op = "CondSelect"
  <2>1. OffGate(ins, a) = CondSelectOff(a) /\ Shape(ins, T) = CondSelectShape(T)
    BY <1>26 DEF OffGate, Shape, HashOps
  <2>2. CondSelectShape(T) # {} /\ BitHolds(a[1])
    BY <1>26, <1>5, <2>1 DEF Holds, HashOps
  <2>4. Typed(a[2]) /\ T[1] = a[1].ty /\ T[2] = a[2].ty /\ T[3] = a[3].ty
    BY <1>26, <1>2, <1>3, <1>4 DEF UnaryOps, BinaryOps, OneParameter
  <2>5. CondSelectOff(a) # {}
    BY <2>2, <2>4, CheckBack
  <2> QED
    BY <2>1, <2>5
<1>27. CASE ins.op = "DivModPowerOfTwo"
  <2>1. OffGate(ins, a) = DivModPowerOfTwoOff(ins, a) /\ Shape(ins, T) = DivModShape(ins, T)
    BY <1>27 DEF OffGate, Shape, HashOps
  <2>2. DivModShape(ins, T) # {}
    BY <1>27, <1>5, <2>1 DEF Holds, HashOps
  <2>3. ins.n[1] <= SplitBits
    BY <1>27, <1>0 DEF Strict, HashOps
  <2>4. Typed(a[1]) /\ T[1] = a[1].ty /\ ins.n[1] \in Nat
    BY <1>27, <1>2, <1>3, <1>4 DEF UnaryOps, BinaryOps, OneParameter
  <2>5. DivModPowerOfTwoOff(ins, a) # {}
    BY <2>2, <2>3, <2>4, SplitBack
  <2> QED
    BY <2>1, <2>5
<1>28. CASE ins.op = "ReconstituteField"
  <2>1. OffGate(ins, a) = ReconstituteFieldOff(ins, a) /\ Shape(ins, T) = ReconstituteShape(ins, T)
    BY <1>28 DEF OffGate, Shape, HashOps
  <2>2. ReconstituteShape(ins, T) # {} /\ ReconstituteHolds(ins, a)
    BY <1>28, <1>5, <2>1 DEF Holds, HashOps
  <2>3. ins.n[1] # 0 /\ ins.n[1] <= SplitBits
    BY <1>28, <1>0 DEF Strict, HashOps
  <2>4. Typed(a[1]) /\ Typed(a[2]) /\ T[1] = a[1].ty /\ T[2] = a[2].ty /\ DOMAIN T = 1..2 /\ ins.n[1] \in Nat
    BY <1>28, <1>2, <1>3, <1>4 DEF UnaryOps, BinaryOps, OneParameter
  <2>5. ReconstituteFieldOff(ins, a) # {}
    BY <2>2, <2>3, <2>4, JoinBack
  <2> QED
    BY <2>1, <2>5
<1>29. CASE ins.op = "TransientHash"
  <2>1. OffGate(ins, a) = TransientHashOff(a) /\ Shape(ins, T) = TransientHashShape(T)
    BY <1>29 DEF OffGate, Shape, HashOps
  <2>2. TransientHashShape(T) # {}
    BY <1>29, <1>5, <2>1 DEF Holds, HashOps
  <2>5. TransientHashOff(a) # {}
    BY <2>2, <1>5, FromNativesBack
  <2> QED
    BY <2>1, <2>5
<1>30. CASE ins.op = "HashToCurve"
  <2>1. OffGate(ins, a) = HashToCurveOff(a) /\ Shape(ins, T) = HashToCurveShape(T)
    BY <1>30 DEF OffGate, Shape, HashOps
  <2>2. HashToCurveShape(T) # {}
    BY <1>30, <1>5, <2>1 DEF Holds, HashOps
  <2>5. HashToCurveOff(a) # {}
    BY <2>2, <1>5, FromNativesBack
  <2> QED
    BY <2>1, <2>5
<1>31. CASE ins.op = "EcMul"
  <2>1. OffGate(ins, a) = EcMulOff(a) /\ Shape(ins, T) = EcMulShape(T)
    BY <1>31 DEF OffGate, Shape, HashOps
  <2>2. EcMulShape(T) # {}
    BY <1>31, <1>5, <2>1 DEF Holds, HashOps
  <2>4. Typed(a[1]) /\ Typed(a[2]) /\ T[1] = a[1].ty /\ T[2] = a[2].ty /\ DOMAIN T = 1..2
        /\ T = <<a[1].ty, a[2].ty>>
    BY <1>31, <1>2, <1>3, <1>4, <1>10 DEF UnaryOps, BinaryOps, OneParameter
  <2>5. EcMulOff(a) # {}
    BY <2>2, <2>4, GroupBack
  <2> QED
    BY <2>1, <2>5
<1>32. CASE ins.op = "EcMulGenerator"
  <2>1. OffGate(ins, a) = EcMulGeneratorOff(a) /\ Shape(ins, T) = EcMulGeneratorShape(T)
    BY <1>32 DEF OffGate, Shape, HashOps
  <2>2. EcMulGeneratorShape(T) # {}
    BY <1>32, <1>5, <2>1 DEF Holds, HashOps
  <2>4. Typed(a[1]) /\ T[1] = a[1].ty
    BY <1>32, <1>2, <1>3, <1>4 DEF UnaryOps, BinaryOps, OneParameter
  <2>5. EcMulGeneratorOff(a) # {}
    BY <2>2, <2>4, GroupBack
  <2> QED
    BY <2>1, <2>5
<1>33. CASE ins.op = "IntoCoordinates"
  <2>1. OffGate(ins, a) = IntoCoordinatesOff(a) /\ Shape(ins, T) = IntoCoordinatesShape(T)
    BY <1>33 DEF OffGate, Shape, HashOps
  <2>2. IntoCoordinatesShape(T) # {} /\ IntoCoordinatesHolds(a)
    BY <1>33, <1>5, <2>1 DEF Holds, HashOps
  <2>4. Typed(a[1]) /\ T[1] = a[1].ty
    BY <1>33, <1>2, <1>3, <1>4 DEF UnaryOps, BinaryOps, OneParameter
  <2>5. IntoCoordinatesOff(a) # {}
    BY <2>2, <2>4, GroupBack
  <2> QED
    BY <2>1, <2>5
<1>34. CASE ins.op = "FromCoordinates"
  <2>1. OffGate(ins, a) = FromCoordinatesOff(a) /\ Shape(ins, T) = FromCoordinatesShape(T)
    BY <1>34 DEF OffGate, Shape, HashOps
  <2>2. FromCoordinatesShape(T) # {} /\ FromCoordinatesHolds(a)
    BY <1>34, <1>5, <2>1 DEF Holds, HashOps
  <2>4. Typed(a[1]) /\ Typed(a[2]) /\ T[1] = a[1].ty /\ T[2] = a[2].ty /\ DOMAIN T = 1..2
        /\ T = <<a[1].ty, a[2].ty>>
    BY <1>34, <1>2, <1>3, <1>4, <1>10 DEF UnaryOps, BinaryOps, OneParameter
  <2>5. FromCoordinatesOff(a) # {}
    BY <2>2, <2>4, FromCoordinatesBack
  <2> QED
    BY <2>1, <2>5
<1>35. CASE ins.op = "ToBytes"
  <2>1. OffGate(ins, a) = ToBytesOff(a) /\ Shape(ins, T) = ToBytesShape(T)
    BY <1>35 DEF OffGate, Shape, HashOps
  <2>2. ToBytesShape(T) # {}
    BY <1>35, <1>5, <2>1 DEF Holds, HashOps
  <2>4. Typed(a[1]) /\ T[1] = a[1].ty
    BY <1>35, <1>2, <1>3, <1>4 DEF UnaryOps, BinaryOps, OneParameter
  <2>5. ToBytesOff(a) # {}
    BY <2>2, <2>4, ToBytesBack
  <2> QED
    BY <2>1, <2>5
<1>36. CASE ins.op = "IntoBytes32"
  <2>1. OffGate(ins, a) = IntoBytes32Off(a) /\ Shape(ins, T) = IntoBytes32Shape(T)
    BY <1>36 DEF OffGate, Shape, HashOps
  <2>2. IntoBytes32Shape(T) # {}
    BY <1>36, <1>5, <2>1 DEF Holds, HashOps
  <2>4. Typed(a[1]) /\ T[1] = a[1].ty
    BY <1>36, <1>2, <1>3, <1>4 DEF UnaryOps, BinaryOps, OneParameter
  <2>5. IntoBytes32Off(a) # {}
    BY <2>2, <2>4, ToBytesBack
  <2> QED
    BY <2>1, <2>5
<1>37. CASE ins.op = "FromBytes"
  <2>1. OffGate(ins, a) = FromBytesOff(ins, a) /\ Shape(ins, T) = FromBytesShape(ins, T)
    BY <1>37 DEF OffGate, Shape, HashOps
  <2>2. FromBytesShape(ins, T) # {} /\ FromBytesHolds(ins, a)
    BY <1>37, <1>5, <2>1 DEF Holds, HashOps
  <2>4. Typed(a[1]) /\ T[1] = a[1].ty
    BY <1>37, <1>2, <1>3, <1>4 DEF UnaryOps, BinaryOps, OneParameter
  <2>5. FromBytesOff(ins, a) # {}
    BY <2>2, <2>4, <1>1, FromBytesBack
  <2> QED
    BY <2>1, <2>5
<1>38. CASE ins.op = "FromBytes32"
  <2>1. OffGate(ins, a) = FromBytes32Off(ins, a) /\ Shape(ins, T) = FromBytes32Shape(ins, T)
    BY <1>38 DEF OffGate, Shape, HashOps
  <2>2. FromBytes32Shape(ins, T) # {} /\ FromBytesHolds(ins, a)
    BY <1>38, <1>5, <2>1 DEF Holds, HashOps
  <2>4. Typed(a[1]) /\ T[1] = a[1].ty
    BY <1>38, <1>2, <1>3, <1>4 DEF UnaryOps, BinaryOps, OneParameter
  <2>5. FromBytes32Off(ins, a) # {}
    BY <2>2, <2>4, <1>1, FromBytesBack
  <2> QED
    BY <2>1, <2>5
<1>39. CASE ins.op \in {"Reverse", "ReverseBytes"}
  <2>1. OffGate(ins, a) = ReverseOff(a) /\ Shape(ins, T) = ReverseShape(T)
    BY <1>39 DEF OffGate, Shape, HashOps
  <2>2. ReverseShape(T) # {}
    BY <1>39, <1>5, <2>1 DEF Holds, HashOps
  <2>4. Typed(a[1]) /\ T[1] = a[1].ty
    BY <1>39, <1>2, <1>3, <1>4 DEF UnaryOps, BinaryOps, OneParameter
  <2>5. ReverseOff(a) # {}
    BY <2>2, <2>4, ByteOpsBack
  <2> QED
    BY <2>1, <2>5
<1>40. CASE ins.op = "Slice"
  <2>1. OffGate(ins, a) = SliceOff(ins, a) /\ Shape(ins, T) = SliceShape(ins, T)
    BY <1>40 DEF OffGate, Shape, HashOps
  <2>2. SliceShape(ins, T) # {}
    BY <1>40, <1>5, <2>1 DEF Holds, HashOps
  <2>4. Typed(a[1]) /\ T[1] = a[1].ty
    BY <1>40, <1>2, <1>3, <1>4 DEF UnaryOps, BinaryOps, OneParameter
  <2>5. SliceOff(ins, a) # {}
    BY <2>2, <2>4, ByteOpsBack
  <2> QED
    BY <2>1, <2>5
<1>41. CASE ins.op = "Nth"
  <2>1. OffGate(ins, a) = NthOff(ins, a) /\ Shape(ins, T) = NthShape(ins, T)
    BY <1>41 DEF OffGate, Shape, HashOps
  <2>2. NthShape(ins, T) # {}
    BY <1>41, <1>5, <2>1 DEF Holds, HashOps
  <2>4. Typed(a[1]) /\ T[1] = a[1].ty /\ ins.n[1] \in Nat
    BY <1>41, <1>2, <1>3, <1>4 DEF UnaryOps, BinaryOps, OneParameter
  <2>5. NthOff(ins, a) # {}
    BY <2>2, <2>4, ByteOpsBack
  <2> QED
    BY <2>1, <2>5
<1>42. CASE ins.op = "Concat"
  <2>1. OffGate(ins, a) = ConcatOff(a) /\ Shape(ins, T) = ConcatShape(T)
    BY <1>42 DEF OffGate, Shape, HashOps
  <2>2. ConcatShape(T) # {}
    BY <1>42, <1>5, <2>1 DEF Holds, HashOps
  <2>5. ConcatOff(a) # {}
    BY <2>2, <1>5, <1>7, ConcatBack
  <2> QED
    BY <2>1, <2>5
<1>43. CASE ins.op = "Encode"
  <2>1. OffGate(ins, a) = EncodeOff(ins, a) /\ Shape(ins, T) = EncodeShape(ins, T)
    BY <1>43 DEF OffGate, Shape, HashOps
  <2>2. EncodeShape(ins, T) # {}
    BY <1>43, <1>5, <2>1 DEF Holds, HashOps
  <2>4. Typed(a[1]) /\ T[1] = a[1].ty
    BY <1>43, <1>2, <1>3, <1>4 DEF UnaryOps, BinaryOps, OneParameter
  <2>5. EncodeOff(ins, a) # {}
    BY <2>2, <2>4, EncodeBack
  <2> QED
    BY <2>1, <2>5
<1>44. CASE ins.op = "BytesIntoNatives"
  <2>1. OffGate(ins, a) = BytesIntoNativesOff(ins, a) /\ Shape(ins, T) = BytesIntoNativesShape(ins, T)
    BY <1>44 DEF OffGate, Shape, HashOps
  <2>2. BytesIntoNativesShape(ins, T) # {}
    BY <1>44, <1>5, <2>1 DEF Holds, HashOps
  <2>4. Typed(a[1]) /\ T[1] = a[1].ty
    BY <1>44, <1>2, <1>3, <1>4 DEF UnaryOps, BinaryOps, OneParameter
  <2>5. BytesIntoNativesOff(ins, a) # {}
    BY <2>2, <2>4, EncodeBack
  <2> QED
    BY <2>1, <2>5
<1>45. CASE ins.op = "BytesFromNatives"
  <2>1. OffGate(ins, a) = BytesFromNativesOff(ins, a) /\ Shape(ins, T) = BytesFromNativesShape(ins, T)
    BY <1>45 DEF OffGate, Shape, HashOps
  <2>2. BytesFromNativesShape(ins, T) # {} /\ BytesFromNativesHolds(ins, a)
    BY <1>45, <1>5, <2>1 DEF Holds, HashOps
  <2>5. BytesFromNativesOff(ins, a) # {}
    BY <2>2, <1>1, <1>6, <1>7, <1>8, NativesToBytesBack
  <2> QED
    BY <2>1, <2>5
<1>46. CASE ins.op = "Bytes32IntoLowHigh"
  <2>1. OffGate(ins, a) = Bytes32IntoLowHighOff(a) /\ Shape(ins, T) = LowHighShape(T)
    BY <1>46 DEF OffGate, Shape, HashOps
  <2>2. LowHighShape(T) # {}
    BY <1>46, <1>5, <2>1 DEF Holds, HashOps
  <2>4. T[1] = a[1].ty
    BY <1>46, <1>4 DEF UnaryOps
  <2>5. Bytes32IntoLowHighOff(a) # {}
    BY <2>2, <2>4 DEF LowHighShape, Bytes32IntoLowHighOff, IsBytes32, Some
  <2> QED
    BY <2>1, <2>5
<1>47. CASE ins.op = "Bytes32FromLowHigh"
  <2>1. OffGate(ins, a) = Bytes32FromLowHighOff(a) /\ Shape(ins, T) = FromLowHighShape(T)
    BY <1>47 DEF OffGate, Shape, HashOps
  <2>2. FromLowHighShape(T) # {} /\ FromLowHighHolds(a)
    BY <1>47, <1>5, <2>1 DEF Holds, HashOps
  <2>4. Typed(a[1]) /\ Typed(a[2]) /\ T[1] = a[1].ty /\ T[2] = a[2].ty /\ DOMAIN T = 1..2
    BY <1>47, <1>2, <1>3, <1>4 DEF UnaryOps, BinaryOps, OneParameter
  <2>5. Bytes32FromLowHighOff(a) # {}
    BY <2>2, <2>4, LowHighBack
  <2> QED
    BY <2>1, <2>5
<1>48. CASE ins.op = "LoadConstant"
  <2>1. OffGate(ins, a) = LoadConstantOff(ins) /\ Shape(ins, T) = LoadConstantShape(ins)
    BY <1>48 DEF OffGate, Shape, HashOps
  <2>2. LoadConstantShape(ins) # {}
    BY <1>48, <1>5, <2>1 DEF Holds, HashOps
  <2>5. LoadConstantOff(ins) # {}
    BY <2>2, ConstantBack
  <2> QED
    BY <2>1, <2>5
<1>49. CASE ins.op \in HashOps
  <2>1. OffGate(ins, a) = ByteHashOff(ins, a) /\ Shape(ins, T) = ByteHashShape(ins, T)
    BY <1>49 DEF OffGate, Shape, HashOps
  <2>2. ByteHashShape(ins, T) # {} /\ ByteHashHolds(ins, a)
    BY <1>49, <1>5, <2>1 DEF Holds, HashOps
  <2>3. AlignedWidth(ins.align) = n
    BY <1>49, <1>0 DEF Strict, HashOps
  <2>5. ByteHashOff(ins, a) # {}
    BY <2>2, <2>3, <1>1, <1>6, <1>7, <1>8, ByteHashBack
  <2> QED
    BY <2>1, <2>5
<1>50. CASE ins.op = "Copy"
  BY <1>50 DEF OffGate, CopyOff, HashOps
<1> QED
  BY <1>11, <1>12, <1>13, <1>14, <1>15, <1>16, <1>17, <1>18, <1>19, <1>20, <1>21, <1>22, <1>23,
     <1>24, <1>25, <1>26, <1>27, <1>28, <1>29, <1>30, <1>31, <1>32, <1>33, <1>34, <1>35, <1>36,
     <1>37, <1>38, <1>39, <1>40, <1>41, <1>42, <1>43, <1>44, <1>45, <1>46, <1>47, <1>48, <1>49,
     <1>50 DEF ValueOps
==============================================================================
