----------------------------- MODULE Codec_proofs -----------------------------
(***************************************************************************)
(* The forms of a source say the same.  Part by part it is proved that     *)
(* what is written is read as what it was: the decimals of a length, types *)
(* (Layout), the hex of an immediate, operands and constants.  A codec of  *)
(* documents is then a function on each kind of entry (Ported), and two    *)
(* that undo one another on the entries undo one another on documents.     *)
(* The invariant says which document a source has become.                  *)
(***************************************************************************)
EXTENDS Codec, Twin_proofs

------------------------------------------------------------------------------
(* Decimals.                                                                 *)

\* The recursion of FromDecimal.
Reading(f, ds, n) == f = [i \in 0..n |-> IF i = 0 THEN 0 ELSE 10 * f[i - 1] + ds[i]]

\* There is a function with this recursion.
LEMMA ReadingExists ==
  ASSUME NEW ds, NEW n \in Nat
  PROVE  \E f : Reading(f, ds, n)
<1> DEFINE S == {k \in Nat : \E f : Reading(f, ds, k)}
<1>1. 0 \in S
  <2>1. Reading([i \in 0..0 |-> 0], ds, 0)
    BY DEF Reading
  <2> QED
    BY <2>1
<1>2. ASSUME NEW k \in S
      PROVE  k + 1 \in S
  <2>1. PICK f : Reading(f, ds, k)
    OBVIOUS
  <2> DEFINE g == [i \in 0..(k + 1) |->
                     IF i \in 0..k THEN f[i] ELSE IF i = 0 THEN 0 ELSE 10 * f[i - 1] + ds[i]]
  <2>2. \A i \in 0..k : f[i] = IF i = 0 THEN 0 ELSE 10 * f[i - 1] + ds[i]
    BY <2>1 DEF Reading
  <2>3. ASSUME NEW i \in 0..(k + 1)
        PROVE  g[i] = IF i = 0 THEN 0 ELSE 10 * g[i - 1] + ds[i]
    <3>1. CASE i = 0
      BY <2>2, <3>1
    <3>2. CASE i # 0
      <4>1. i - 1 \in 0..k /\ i - 1 \in 0..(k + 1)
        BY <3>2
      <4>2. g[i - 1] = f[i - 1]
        BY <4>1
      <4>3. g[i] = 10 * f[i - 1] + ds[i]
        BY <2>2, <3>2
      <4> QED
        BY <3>2, <4>2, <4>3
    <3> QED
      BY <3>1, <3>2
  <2>4. DOMAIN g = 0..(k + 1) /\ g = [i \in 0..(k + 1) |-> g[i]]
    OBVIOUS
  <2> HIDE DEF g
  <2>5. Reading(g, ds, k + 1)
    BY <2>3, <2>4 DEF Reading
  <2> QED
    BY <2>5
<1> HIDE DEF S
<1>3. S = Nat
  <2>1. S \in SUBSET Nat
    BY DEF S
  <2> QED
    BY <1>1, <1>2, <2>1, InductionOnSet
<1> QED
  BY <1>3 DEF S

LEMMA FromDecimalIs ==
  ASSUME NEW ds, NEW n \in Nat, Len(ds) = n
  PROVE  \E f : /\ FromDecimal(ds) = f[n] /\ f[0] = 0
                /\ \A k \in Nat : k + 1 \in 1..n => f[k + 1] = 10 * f[k] + ds[k + 1]
<1>1. \E f : Reading(f, ds, n)
  BY ReadingExists
<1> DEFINE upTo == CHOOSE f : f = [i \in 0..Len(ds) |-> IF i = 0 THEN 0 ELSE 10 * f[i - 1] + ds[i]]
<1>2. Reading(upTo, ds, n)
  BY <1>1 DEF Reading
<1>3. FromDecimal(ds) = upTo[n]
  BY DEF FromDecimal
<1> HIDE DEF upTo
<1>4. PICK f : f = upTo
  OBVIOUS
<1>5. Reading(f, ds, n) /\ FromDecimal(ds) = f[n]
  BY <1>2, <1>3, <1>4
<1>6. f[0] = 0
  BY <1>5 DEF Reading
<1>7. ASSUME NEW k \in Nat, k + 1 \in 1..n
      PROVE  f[k + 1] = 10 * f[k] + ds[k + 1]
  <2>1. k + 1 \in 0..n /\ k + 1 # 0 /\ (k + 1) - 1 = k
    BY <1>7
  <2> QED
    BY <1>5, <2>1 DEF Reading
<1> QED
  BY <1>5, <1>6, <1>7

\* Digits of which the first is not zero stand for a positive number.
LEMMA DecimalRange ==
  ASSUME NEW ds, NEW n \in Nat, Len(ds) = n, n > 0, \A i \in 1..n : ds[i] \in Digits, ds[1] # 0
  PROVE  FromDecimal(ds) \in Nat \ {0}
<1>1. PICK f : /\ FromDecimal(ds) = f[n] /\ f[0] = 0
               /\ \A k \in Nat : k + 1 \in 1..n => f[k + 1] = 10 * f[k] + ds[k + 1]
  BY FromDecimalIs
<1> DEFINE S == {k \in Nat : k + 1 \in 1..n => f[k + 1] \in Nat \ {0}}
<1>2. 0 \in S
  <2>1. f[1] = 10 * f[0] + ds[1] /\ ds[1] \in 0..9
    BY <1>1 DEF Digits, NonDigit
  <2> QED
    BY <1>1, <2>1
<1>3. ASSUME NEW k \in S
      PROVE  k + 1 \in S
  <2> SUFFICES ASSUME (k + 1) + 1 \in 1..n
               PROVE  f[(k + 1) + 1] \in Nat \ {0}
    OBVIOUS
  <2>1. f[(k + 1) + 1] = 10 * f[k + 1] + ds[(k + 1) + 1]
    BY <1>1
  <2>2. PICK c \in 0..9 : c = ds[(k + 1) + 1]
    BY DEF Digits, NonDigit
  <2>3. PICK x \in Nat \ {0} : x = f[k + 1]
    BY DEF S
  <2>4. 10 * x + c \in Nat \ {0}
    OBVIOUS
  <2> QED
    BY <2>1, <2>2, <2>3, <2>4
<1> HIDE DEF S
<1>4. S = Nat
  <2>1. S \in SUBSET Nat
    BY DEF S
  <2> QED
    BY <1>2, <1>3, <2>1, InductionOnSet
<1>5. PICK k \in Nat : n = k + 1
  <2>1. n - 1 \in Nat /\ n = (n - 1) + 1
    OBVIOUS
  <2> QED
    BY <2>1
<1>6. k + 1 \in 1..n => f[k + 1] \in Nat \ {0}
  <2>1. k \in S
    BY <1>4
  <2> QED
    BY <2>1 DEF S
<1>7. k + 1 \in 1..n
  BY <1>5
<1> QED
  BY <1>1, <1>5, <1>6, <1>7

\* What DecimalAssumption says of the powers of ten, up to 10^8.
LEMMA TenPowers ==
  /\ 10^0 = 1
  /\ \A k \in 0..8 : 10^k \in Nat \ {0}
  /\ \A k \in 0..7 : 10^(k + 1) = 10 * 10^k
<1>1. \A k \in 0..7 : 10^k \in Nat \ {0} /\ 10^(k + 1) = 10 * 10^k
  BY DecimalAssumption
<1>2. 10^8 \in Nat \ {0}
  <2>1. 7 \in 0..7 /\ 7 + 1 = 8
    OBVIOUS
  <2> QED
    BY <1>1, <2>1
<1>3. ASSUME NEW k \in 0..8
      PROVE  10^k \in Nat \ {0}
  <2>1. k = 8 \/ k \in 0..7
    OBVIOUS
  <2> QED
    BY <1>1, <1>2, <2>1
<1> QED
  BY <1>1, <1>3, DecimalAssumption

\* A number below 10^8 has a number of digits.
LEMMA DecimalLenIs ==
  ASSUME NEW n \in Nat \ {0}, n < 10^8
  PROVE  DecimalLen(n) \in 1..8 /\ 10^(DecimalLen(n) - 1) <= n /\ n < 10^DecimalLen(n)
<1> DEFINE S == {k \in Nat : k \in 0..8 /\ n < 10^k => \E j \in 1..8 : 10^(j - 1) <= n /\ n < 10^j}
<1>1. 0 \in S
  BY TenPowers
<1>2. ASSUME NEW k \in S
      PROVE  k + 1 \in S
  <2> SUFFICES ASSUME k + 1 \in 0..8, n < 10^(k + 1)
               PROVE  \E j \in 1..8 : 10^(j - 1) <= n /\ n < 10^j
    OBVIOUS
  <2>1. k \in 0..8 /\ k + 1 \in 1..8 /\ (k + 1) - 1 = k
    OBVIOUS
  <2>2. CASE n < 10^k
    BY <2>1, <2>2
  <2>3. CASE ~(n < 10^k)
    <3>1. 10^k <= n
      BY <2>1, <2>3, TenPowers
    <3> QED
      BY <2>1, <3>1
  <2> QED
    BY <2>2, <2>3
<1> HIDE DEF S
<1>3. S = Nat
  <2>1. S \in SUBSET Nat
    BY DEF S
  <2> QED
    BY <1>1, <1>2, <2>1, InductionOnSet
<1>4. 8 \in S
  BY <1>3
<1>5. \E j \in 1..8 : 10^(j - 1) <= n /\ n < 10^j
  BY <1>4 DEF S
<1> QED
  BY <1>5 DEF DecimalLen

LEMMA DivTwice ==
  ASSUME NEW n \in Nat, NEW p \in Nat, NEW b \in Nat, p > 0, b > 0
  PROVE  n \div (b * p) = (n \div p) \div b
<1>1. PICK q \in Nat : q = n \div p
  BY DivNat
<1>2. PICK d \in Nat : d = q \div b
  BY <1>1, DivNat
<1>3. PICK r \in Nat : r = n - p * q /\ r < p
  BY <1>1, ModIs, ModRange
<1>4. PICK s \in Nat : s = q - b * d /\ s < b
  BY <1>2, ModIs, ModRange
<1>5. PICK g \in Nat : g = r + s * p /\ g < b * p
  BY <1>3, <1>4, NextPower
<1>6. n = (b * p) * d + g
  <2>1. q = b * d + s /\ n = p * q + r
    <3>1. b * d \in Nat /\ p * q \in Nat
      OBVIOUS
    <3> QED
      BY <1>3, <1>4, <3>1
  <2>2. p * (b * d + s) = (b * p) * d + s * p
    BY DigitsRegroup
  <2>3. (b * p) * d \in Nat /\ s * p \in Nat
    OBVIOUS
  <2>4. PICK u \in Nat, v \in Nat : u = (b * p) * d /\ v = s * p
    BY <2>3
  <2>5. n = (u + v) + r /\ g = r + v
    BY <1>5, <2>1, <2>2, <2>4
  <2> QED
    BY <2>4, <2>5
<1>7. PICK m \in Nat : m = b * p
  OBVIOUS
<1>8. n \div m = d
  BY <1>5, <1>6, <1>7, TwoDigits
<1> QED
  BY <1>1, <1>2, <1>7, <1>8

\* A decimal has digits, the first of which is not zero, and is read as its number.
LEMMA DecimalBack ==
  ASSUME NEW n \in Nat \ {0}, n < 10^8
  PROVE  /\ Decimal(n) \in Seq(Digits) /\ Decimal(n) # <<>> /\ Decimal(n)[1] # 0
         /\ FromDecimal(Decimal(n)) = n
<1>1. PICK l \in 1..8 : l = DecimalLen(n) /\ 10^(l - 1) <= n /\ n < 10^l
  BY DecimalLenIs
<1>2. PICK ds : ds = Decimal(n)
  OBVIOUS
<1>3. ds = [i \in 1..l |-> (n \div 10^(l - i)) % 10]
  BY <1>1, <1>2 DEF Decimal
<1>4. l \in Nat /\ DOMAIN ds = 1..l
  BY <1>3
<1>5. ASSUME NEW i \in 1..l
      PROVE  ds[i] \in Digits
  <2>1. l - i \in 0..8
    BY <1>4
  <2>2. PICK p \in Nat : p = 10^(l - i) /\ p > 0
    <3>1. 10^(l - i) \in Nat \ {0}
      BY <2>1, TenPowers
    <3> QED
      BY <3>1
  <2>4. PICK q \in Nat : q = n \div p
    BY <2>2, DivNat
  <2>3. q % 10 \in 0..9
    OBVIOUS
  <2> QED
    BY <1>3, <2>2, <2>3, <2>4 DEF Digits, NonDigit
<1>6. ds \in Seq(Digits) /\ Len(ds) = l
  <2>1. ds = [i \in 1..l |-> ds[i]]
    BY <1>3
  <2>2. ds \in [1..l -> Digits]
    BY <1>5, <2>1
  <2> QED
    BY <1>4, <2>2
<1>7. ds[1] # 0
  <2>1. PICK j \in 0..7 : l - 1 = j /\ j + 1 = l /\ j \in 0..8
    BY <1>4
  <2>6. 10^j \in Nat \ {0} /\ 10^(j + 1) = 10 * 10^j
    BY <2>1, TenPowers
  <2>2. PICK p \in Nat : p = 10^(l - 1) /\ p > 0 /\ p <= n /\ n < 10 * p
    BY <1>1, <2>1, <2>6
  <2>3. PICK q \in Nat : q = n \div p
    BY <2>2, DivNat
  <2>4. q > 0 /\ q < 10
    <3>1. q < 10
      BY <2>2, <2>3, DivBelow
    <3>2. n % p \in 0..p - 1 /\ n % p = n - p * q
      BY <2>2, <2>3, ModIs, ModRange
    <3>3. q # 0
      BY <2>2, <3>2
    <3> QED
      BY <3>1, <3>3
  <2>5. ds[1] = q % 10
    BY <1>3, <1>4, <2>2, <2>3
  <2> QED
    BY <2>4, <2>5
<1>8. PICK f : /\ FromDecimal(ds) = f[l] /\ f[0] = 0
               /\ \A k \in Nat : k + 1 \in 1..l => f[k + 1] = 10 * f[k] + ds[k + 1]
  BY <1>4, <1>6, FromDecimalIs
<1> DEFINE S == {k \in Nat : k \in 0..l => f[k] = n \div 10^(l - k)}
<1>9. 0 \in S
  <2>1. PICK p \in Nat : p = 10^l /\ p > 0 /\ n < p * 1
    BY <1>1, <1>4, TenPowers
  <2>2. n \div p < 1 /\ n \div p \in Nat
    BY <2>1, DivBelow, DivNat
  <2>3. l - 0 = l
    BY <1>4
  <2> QED
    BY <1>8, <2>1, <2>2, <2>3
<1>10. ASSUME NEW k \in S
       PROVE  k + 1 \in S
  <2> SUFFICES ASSUME k + 1 \in 0..l PROVE f[k + 1] = n \div 10^(l - (k + 1))
    OBVIOUS
  <2>1. k + 1 \in 1..l /\ k \in 0..l /\ l - (k + 1) \in 0..7 /\ (l - (k + 1)) + 1 = l - k
    BY <1>4
  <2>9. PICK j \in 0..7 : l - (k + 1) = j /\ l - k = j + 1 /\ j \in 0..8
    BY <2>1
  <2>10. 10^j \in Nat \ {0} /\ 10^(j + 1) = 10 * 10^j
    BY <2>9, TenPowers
  <2>2. PICK p \in Nat : p = 10^(l - (k + 1)) /\ p > 0 /\ 10^(l - k) = 10 * p
    BY <2>9, <2>10
  <2>3. PICK q \in Nat : q = n \div p
    BY <2>2, DivNat
  <2>4. n \div (10 * p) = q \div 10
    BY <2>2, <2>3, DivTwice
  <2>5. f[k] = q \div 10
    BY <2>1, <2>2, <2>4
  <2>6. ds[k + 1] = q % 10
    BY <1>3, <2>1, <2>2, <2>3
  <2>7. f[k + 1] = 10 * f[k] + ds[k + 1]
    BY <1>8, <2>1
  <2>8. 10 * (q \div 10) + (q % 10) = q
    OBVIOUS
  <2> QED
    BY <2>2, <2>3, <2>5, <2>6, <2>7, <2>8
<1> HIDE DEF S
<1>11. S = Nat
  <2>1. S \in SUBSET Nat
    BY DEF S
  <2> QED
    BY <1>9, <1>10, <2>1, InductionOnSet
<1>12. f[l] = n
  <2>1. f[l] = n \div 10^(l - l)
    <3>1. l \in S /\ l \in 0..l
      BY <1>4, <1>11
    <3> QED
      BY <3>1 DEF S
  <2>2. l - l = 0
    BY <1>4
  <2>3. n \div 1 = n
    OBVIOUS
  <2> QED
    BY <2>1, <2>2, <2>3, TenPowers
<1>13. ds # <<>>
  BY <1>4, <1>6
<1> QED
  BY <1>2, <1>6, <1>7, <1>8, <1>12, <1>13

------------------------------------------------------------------------------
(* Types.                                                                    *)

\* The discriminants from 0 are those of Layout, entry by entry.
LEMMA LayoutIs ==
  /\ DOMAIN Layout = 1..15
  /\ Layout[1] = <<"Native">> /\ Layout[2] = Bytes(FrBytes)
  /\ Layout[3] = <<"Point", "Jubjub">> /\ Layout[4] = <<"Scalar", "Jubjub">>
  /\ Layout[5] = <<"Point", "Secp256k1">> /\ Layout[6] = <<"Base", "Secp256k1">>
  /\ Layout[7] = <<"Scalar", "Secp256k1">>
  /\ Layout[8] = <<"Point", "Secp256r1">> /\ Layout[9] = <<"Base", "Secp256r1">>
  /\ Layout[10] = <<"Scalar", "Secp256r1">>
  /\ Layout[11] = <<"Point", "Curve25519">> /\ Layout[12] = <<"Base", "Curve25519">>
  /\ Layout[13] = <<"Scalar", "Curve25519">>
  /\ Layout[14] = <<"Bool">> /\ Layout[15] = <<"Byte">>
<1>1. /\ Base("Secp256k1") = <<"Base", "Secp256k1">> /\ Base("Secp256r1") = <<"Base", "Secp256r1">>
      /\ Base("Curve25519") = <<"Base", "Curve25519">>
  BY DEF Base
<1>2. Layout =
  <<<<"Native">>, Bytes(FrBytes), <<"Point", "Jubjub">>, <<"Scalar", "Jubjub">>,
    <<"Point", "Secp256k1">>, <<"Base", "Secp256k1">>, <<"Scalar", "Secp256k1">>,
    <<"Point", "Secp256r1">>, <<"Base", "Secp256r1">>, <<"Scalar", "Secp256r1">>,
    <<"Point", "Curve25519">>, <<"Base", "Curve25519">>, <<"Scalar", "Curve25519">>,
    <<"Bool">>, <<"Byte">>>>
  BY <1>1 DEF Layout, Native, Bool, Byte, Point, Scalar
<1> QED
  BY <1>2

\* No type has two places in the layout, and one of them is a byte string.
Place(t) ==
  CASE t[1] = "Native" -> 1 [] t[1] = "Bytes" -> 2 [] t[1] = "Bool" -> 14 [] t[1] = "Byte" -> 15
    [] OTHER ->
      LET group == CASE t[2] = "Jubjub" -> 2 [] t[2] = "Secp256k1" -> 4
                     [] t[2] = "Secp256r1" -> 7 [] OTHER -> 10
      IN CASE t[1] = "Point" -> group + 1 [] t[1] = "Base" -> group + 2
           [] OTHER -> IF t[2] = "Jubjub" THEN 4 ELSE group + 3

\* No two entries of Layout are the same type.
LEMMA Placed ==
  ASSUME NEW d \in 1..15
  PROVE  Place(Layout[d]) = d /\ (Layout[d] \in BytesTypes <=> d = 2)
<1>1. \/ d = 1 \/ d = 2 \/ d = 3 \/ d = 4 \/ d = 5 \/ d = 6 \/ d = 7 \/ d = 8
      \/ d = 9 \/ d = 10 \/ d = 11 \/ d = 12 \/ d = 13 \/ d = 14 \/ d = 15
  OBVIOUS
<1>2. Bytes(FrBytes)[1] = "Bytes"
  BY Tags
<1>3. d \in {1, 2, 14, 15} => Place(Layout[d]) = d
  BY <1>2, LayoutIs DEF Place
<1>4. d \in {3, 5, 8, 11} => Place(Layout[d]) = d
  BY LayoutIs DEF Place
<1>5. d \in {6, 9, 12} => Place(Layout[d]) = d
  BY LayoutIs DEF Place
<1>6. d \in {4, 7, 10, 13} => Place(Layout[d]) = d
  BY LayoutIs DEF Place
<1>7. Layout[2] \in BytesTypes
  <2>1. FrBytes \in 1..MAX_BYTES_LEN
    BY FrBytesIs
  <2> QED
    BY <2>1, LayoutIs DEF BytesTypes
<1>8. ASSUME Layout[d] \in BytesTypes PROVE d = 2
  <2>1. Layout[d][1] = "Bytes"
    BY <1>8, Tags DEF BytesTypes
  <2>2. Place(Layout[d]) = 2
    BY <2>1 DEF Place
  <2> QED
    BY <1>1, <1>3, <1>4, <1>5, <1>6, <2>2
<1> QED
  BY <1>1, <1>3, <1>4, <1>5, <1>6, <1>7, <1>8

\* The layout and the byte strings meet in one type only.
LEMMA TypesAreCodecs ==
  ASSUME NEW t \in CodecTypes
  PROVE  \/ t \in BytesTypes /\ t # Bytes(FrBytes) /\ \A d \in 1..15 : Layout[d] # t
         \/ \E d \in 1..15 : t = Layout[d]
<1>1. CASE \E d \in 1..15 : t = Layout[d]
  BY <1>1
<1>2. CASE \A d \in 1..15 : Layout[d] # t
  <2>1. t \notin ToSet(Layout)
    BY <1>2, LayoutIs DEF ToSet
  <2>2. t # Bytes(FrBytes)
    BY <1>2, LayoutIs
  <2> QED
    BY <1>2, <2>1, <2>2 DEF CodecTypes
<1> QED
  BY <1>1, <1>2

\* A type of Layout has its place there, any other type BytesTag.
LEMMA DiscriminantIs ==
  /\ \A d \in 1..15 : discriminant(Layout[d]) = d - 1
  /\ \A t : (\A d \in 1..15 : Layout[d] # t) => discriminant(t) = BytesTag
<1>1. ASSUME NEW d \in 1..15
      PROVE  discriminant(Layout[d]) = d - 1
  <2>1. \E e \in 1..15 : Layout[e] = Layout[d]
    OBVIOUS
  <2>2. \A e \in 1..15 : Layout[e] = Layout[d] => e = d
    BY Placed
  <2>3. (CHOOSE e \in 1..15 : Layout[e] = Layout[d]) = d
    BY <2>1, <2>2
  <2> QED
    BY <2>1, <2>3, LayoutIs DEF discriminant
<1>2. ASSUME NEW t, \A d \in 1..15 : Layout[d] # t
      PROVE  discriminant(t) = BytesTag
  BY <1>2, LayoutIs DEF discriminant
<1> QED
  BY <1>1, <1>2

\* What the binary form writes of a type is read as that type.
LEMMA TypeBack ==
  ASSUME NEW t \in CodecTypes
  PROVE  WriteType(t) \in TypeToken /\ ReadType(WriteType(t)) = {t}
<1>1. CASE t \in BytesTypes /\ t # Bytes(FrBytes) /\ \A d \in 1..15 : Layout[d] # t
  <2>1. PICK n \in 1..MAX_BYTES_LEN : t = Bytes(n) /\ t[2] = n
    BY <1>1, Tags DEF BytesTypes
  <2>2. n \in Nat /\ n # FrBytes
    BY <1>1, <2>1, Constants
  <2>3. WriteType(t) = [tag |-> BytesTag, len |-> <<n>>]
    BY <1>1, <2>1, DiscriminantIs DEF WriteType
  <2>4. WriteType(t) \in TypeToken
    BY <2>2, <2>3 DEF TypeToken, BytesTag
  <2>5. ReadType([tag |-> BytesTag, len |-> <<n>>]) = {Bytes(n)}
    BY <2>1, <2>2 DEF ReadType, Some
  <2> QED
    BY <2>1, <2>3, <2>4, <2>5
<1>2. ASSUME NEW d \in 1..15, t = Layout[d]
      PROVE  WriteType(t) \in TypeToken /\ ReadType(WriteType(t)) = {t}
  <2>1. discriminant(t) = d - 1 /\ d - 1 # BytesTag
    BY <1>2, DiscriminantIs DEF BytesTag
  <2>2. WriteType(t) = [tag |-> d - 1, len |-> <<>>]
    BY <2>1 DEF WriteType
  <2>3. [tag |-> d - 1, len |-> <<>>] \in TypeToken
    BY <2>1 DEF TypeToken
  <2>4. (d - 1) + 1 = d
    OBVIOUS
  <2>5. ReadType([tag |-> d - 1, len |-> <<>>]) = {Layout[e] : e \in {d}}
    BY <2>1, <2>4, LayoutIs DEF ReadType
  <2> QED
    BY <1>2, <2>2, <2>3, <2>5
<1> QED
  BY <1>1, <1>2, TypesAreCodecs

\* A type the binary reader accepts is written as it was read.
LEMMA TokenBack ==
  ASSUME NEW k \in TypeToken
  PROVE  ReadType(k) = {} \/ \E t \in CodecTypes : ReadType(k) = {t} /\ WriteType(t) = k
<1>1. k = [tag |-> k.tag, len |-> k.len] /\ k.tag \in 0..255 /\ k.len \in Seq(Nat)
      /\ Len(k.len) = IF k.tag = BytesTag THEN 1 ELSE 0
  BY DEF TypeToken
<1>2. CASE k.tag = BytesTag
  <2>1. PICK n : n = k.len[1] /\ k.len = <<n>>
    BY <1>1, <1>2
  <2>2. ASSUME n \in (1..MAX_BYTES_LEN) \ {FrBytes}
        PROVE  Bytes(n) \in CodecTypes /\ WriteType(Bytes(n)) = k
    <3>1. Bytes(n) \in BytesTypes /\ Bytes(n)[2] = n
      BY <2>2, Tags DEF BytesTypes
    <3>2. ASSUME NEW d \in 1..15 PROVE Layout[d] # Bytes(n)
      <4>1. Bytes(n) # Bytes(FrBytes)
        BY <2>2, Tags
      <4> QED
        BY <3>1, <4>1, Placed, LayoutIs
    <3>3. WriteType(Bytes(n)) = [tag |-> BytesTag, len |-> <<n>>]
      BY <3>1, <3>2, DiscriminantIs DEF WriteType
    <3> QED
      BY <1>1, <1>2, <2>1, <3>1, <3>3 DEF CodecTypes
  <2>3. ReadType(k) = IF n \in (1..MAX_BYTES_LEN) \ {FrBytes} THEN {Bytes(n)} ELSE {}
    BY <1>2, <2>1 DEF ReadType, Some
  <2> QED
    BY <2>2, <2>3
<1>3. CASE k.tag # BytesTag
  <2>1. k.len = <<>>
    BY <1>1, <1>3, EmptySeq
  <2>2. ReadType(k) = {Layout[d] : d \in {k.tag + 1} \cap 1..15}
    BY <1>3, LayoutIs DEF ReadType
  <2>3. CASE k.tag + 1 \notin 1..15
    BY <2>2, <2>3
  <2>4. CASE k.tag + 1 \in 1..15
    <3>5. PICK g \in Nat : g = k.tag
      <4>1. PICK g \in 0..255 : g = k.tag
        BY DEF TypeToken
      <4> QED
        BY <4>1
    <3>1. PICK d \in 1..15 : d = k.tag + 1 /\ k.tag = d - 1
      BY <2>4, <3>5
    <3>2. ReadType(k) = {Layout[d]}
      BY <2>2, <3>1
    <3>3. WriteType(Layout[d]) = [tag |-> d - 1, len |-> <<>>]
      BY <1>3, <3>1, DiscriminantIs DEF WriteType
    <3>4. Layout[d] \in CodecTypes
      BY LayoutIs DEF CodecTypes, ToSet
    <3> QED
      BY <1>1, <2>1, <3>1, <3>2, <3>3, <3>4
  <2> QED
    BY <2>3, <2>4
<1> QED
  BY <1>2, <1>3

\* A type has a name of its own unless it is a byte string.
LEMMA FixedTypesAre == FixedTypes = CodecTypes \ BytesTypes /\ \A t \in FixedTypes : t # <<"Bytes">>
<1>1. ASSUME NEW t \in FixedTypes
      PROVE  t \in CodecTypes \ BytesTypes /\ t # <<"Bytes">>
  <2>1. t \in ToSet(Layout) /\ t # Bytes(FrBytes)
    BY <1>1 DEF FixedTypes
  <2>2. PICK d \in 1..15 : t = Layout[d]
    BY <2>1, LayoutIs DEF ToSet
  <2>3. d # 2
    BY <2>1, <2>2, LayoutIs
  <2>4. t # <<"Bytes">>
    <3>1. Place(<<"Bytes">>) = 2
      BY DEF Place
    <3> QED
      BY <2>2, <2>3, <3>1, Placed
  <2> QED
    BY <2>1, <2>2, <2>3, <2>4, Placed DEF CodecTypes
<1>2. ASSUME NEW t \in CodecTypes \ BytesTypes
      PROVE  t \in FixedTypes
  <2>1. t \in ToSet(Layout)
    BY <1>2 DEF CodecTypes
  <2>2. Bytes(FrBytes) \in BytesTypes
    BY FrBytesIs DEF BytesTypes
  <2> QED
    BY <1>2, <2>1, <2>2 DEF FixedTypes
<1> QED
  BY <1>1, <1>2

\* The name of a type is read as that type.
LEMMA NameBack ==
  ASSUME NEW t \in CodecTypes
  PROVE  PrintType(t) \in TypeText /\ ParseType(PrintType(t)) = {t}
<1>1. CASE t \in BytesTypes
  <2>1. PICK n \in 1..MAX_BYTES_LEN : t = Bytes(n) /\ t[2] = n
    BY <1>1, Tags DEF BytesTypes
  <2>2. n \in Nat \ {0} /\ n < 10^8
    <3>1. MAX_BYTES_LEN \in Nat /\ MAX_BYTES_LEN < 10^8
      BY Constants, DecimalAssumption
    <3>2. PICK m \in Nat : m = 10^8
      BY TenPowers
    <3> QED
      BY <3>1, <3>2
  <2>3. /\ Decimal(n) \in Seq(Digits) /\ Decimal(n) # <<>> /\ Decimal(n)[1] # 0
        /\ FromDecimal(Decimal(n)) = n
    BY <2>2, DecimalBack
  <2>4. PICK ds \in Seq(Digits) : ds = Decimal(n)
    BY <2>3
  <2>5. PrintType(t) = [name |-> <<"Bytes">>, digits |-> ds]
    BY <1>1, <2>1, <2>4 DEF PrintType
  <2>6. [name |-> <<"Bytes">>, digits |-> ds] \in TypeText
    <3>1. ds \in Seq(0..NonDigit)
      <4>1. Digits \subseteq 0..NonDigit
        BY DEF Digits, NonDigit
      <4> QED
        BY <4>1, SeqWider
    <3>2. <<"Bytes">> \in TypeName
      BY DEF TypeName
    <3> QED
      BY <3>1, <3>2 DEF TypeText
  <2>7. ToSet(ds) \subseteq Digits
    BY DEF ToSet
  <2>8. n <= MAX_BYTES_LEN
    OBVIOUS
  <2>9. ParseType([name |-> <<"Bytes">>, digits |-> ds]) = {Bytes(n)}
    BY <2>3, <2>4, <2>7, <2>8 DEF ParseType, Some
  <2> QED
    BY <2>1, <2>5, <2>6, <2>9
<1>2. CASE t \notin BytesTypes
  <2>1. t \in FixedTypes /\ t # <<"Bytes">>
    BY <1>2, FixedTypesAre
  <2>2. PrintType(t) = [name |-> t, digits |-> <<>>]
    BY <1>2 DEF PrintType
  <2>3. t \in TypeName
    BY <2>1 DEF TypeName
  <2>4. [name |-> t, digits |-> <<>>] \in TypeText
    BY <2>3 DEF TypeText
  <2>5. ParseType([name |-> t, digits |-> <<>>]) = {t}
    BY <2>1 DEF ParseType
  <2> QED
    BY <2>2, <2>4, <2>5
<1> QED
  BY <1>1, <1>2

\* What is parsed as a type is one type of the codec.
LEMMA NameTyped ==
  ASSUME NEW x \in TypeText
  PROVE  ParseType(x) = {} \/ \E t \in CodecTypes : ParseType(x) = {t}
<1>1. CASE x.name # <<"Bytes">>
  <2>1. ParseType(x) = {t \in FixedTypes : t = x.name}
    BY <1>1 DEF ParseType
  <2>2. ParseType(x) = {} \/ (x.name \in FixedTypes /\ ParseType(x) = {x.name})
    BY <2>1
  <2> QED
    BY <2>2, FixedTypesAre
<1>2. CASE x.name = <<"Bytes">>
  <2>1. PICK ds \in Seq(0..NonDigit) : ds = x.digits
    BY DEF TypeText
  <2>2. PICK m : m = FromDecimal(ds)
    OBVIOUS
  <2>3. ParseType(x) = IF /\ ds # <<>> /\ ToSet(ds) \subseteq Digits /\ ds[1] # 0
                          /\ m <= MAX_BYTES_LEN
                       THEN {Bytes(m)} ELSE {}
    BY <1>2, <2>1, <2>2 DEF ParseType, Some
  <2>4. ASSUME ds # <<>> /\ ToSet(ds) \subseteq Digits /\ ds[1] # 0 /\ m <= MAX_BYTES_LEN
        PROVE  Bytes(m) \in CodecTypes
    <3>1. PICK n \in Nat : n = Len(ds) /\ DOMAIN ds = 1..n
      BY LenProperties
    <3>2. n > 0
      BY <2>4, <3>1, EmptySeq
    <3>3. \A i \in 1..n : ds[i] \in Digits
      BY <2>4, <3>1 DEF ToSet
    <3>4. m \in Nat \ {0}
      BY <2>2, <2>4, <3>1, <3>2, <3>3, DecimalRange
    <3>5. m \in 1..MAX_BYTES_LEN
      BY <2>4, <3>4, Constants
    <3> QED
      BY <3>5 DEF CodecTypes, BytesTypes
  <2> QED
    BY <2>3, <2>4
<1> QED
  BY <1>1, <1>2

------------------------------------------------------------------------------
(* Hex.                                                                      *)

\* The greatest member of a nonempty set of positions.
LEMMA MaxIs ==
  ASSUME NEW n \in Nat, NEW M \in SUBSET (1..n), M # {}
  PROVE  Max(M) \in M /\ \A i \in M : i <= Max(M)
<1> DEFINE S == {k \in Nat : (\E i \in M : i <= k) => \E m \in M : \A i \in M : i <= k => i <= m}
<1>1. 0 \in S
  OBVIOUS
<1>2. ASSUME NEW k \in S
      PROVE  k + 1 \in S
  <2> SUFFICES ASSUME \E i \in M : i <= k + 1
               PROVE  \E m \in M : \A i \in M : i <= k + 1 => i <= m
    OBVIOUS
  <2>1. CASE k + 1 \in M
    BY <2>1
  <2>2. CASE k + 1 \notin M
    <3>1. ASSUME NEW i \in M, i <= k + 1
          PROVE  i <= k
      <4>1. i # k + 1 /\ i \in Nat /\ k \in Nat
        BY <2>2
      <4> QED
        BY <3>1, <4>1
    <3>2. PICK m \in M : \A i \in M : i <= k => i <= m
      BY <3>1
    <3> QED
      BY <3>1, <3>2
  <2> QED
    BY <2>1, <2>2
<1> HIDE DEF S
<1>3. S = Nat
  <2>1. S \in SUBSET Nat
    BY DEF S
  <2> QED
    BY <1>1, <1>2, <2>1, InductionOnSet
<1>4. n \in S
  BY <1>3
<1>5. \E m \in M : \A i \in M : i <= m
  <2>1. \A i \in M : i <= n
    OBVIOUS
  <2>2. (\E i \in M : i <= n) => \E m \in M : \A i \in M : i <= n => i <= m
    BY <1>4 DEF S
  <2> QED
    BY <2>1, <2>2
<1>6. \E m \in M : \A i \in M : m >= i
  BY <1>5
<1>7. Max(M) \in M /\ \A i \in M : Max(M) >= i
  BY <1>6 DEF Max
<1> QED
  BY <1>7

\* Only zeros are trimmed, and one byte stays.
LEMMA TrimmedIs ==
  ASSUME NEW n \in Nat \ {0}, NEW bs \in [1..n -> Octets]
  PROVE  \E m \in 1..n : /\ Trimmed(bs) = [i \in 1..m |-> bs[i]]
                         /\ \A i \in 1..n : i > m => bs[i] = 0
<1> DEFINE M == {1} \cup {i \in DOMAIN bs : bs[i] # 0}
<1>1. M \in SUBSET (1..n) /\ M # {}
  OBVIOUS
<1>2. \A i \in 1..n : bs[i] # 0 => i \in M
  OBVIOUS
<1>3. Trimmed(bs) = SubSeq(bs, 1, Max(M))
  BY DEF Trimmed
<1> HIDE DEF M
<1>4. PICK m \in 1..n : m = Max(M) /\ \A i \in M : i <= m
  BY <1>1, MaxIs
<1>5. bs \in Seq(Octets) /\ Len(bs) = n
  OBVIOUS
<1>6. SubSeq(bs, 1, m) = [i \in 1..m |-> bs[i]]
  <2>1. SubSeq(bs, 1, m) = [i \in 1..((m - 1) + 1) |-> bs[(i + 1) - 1]]
    BY <1>5
  <2>2. (m - 1) + 1 = m /\ \A i \in 1..m : (i + 1) - 1 = i
    OBVIOUS
  <2> QED
    BY <2>1, <2>2
<1>7. \A i \in 1..n : i > m => bs[i] = 0
  BY <1>2, <1>4
<1> QED
  BY <1>3, <1>4, <1>6, <1>7

\* Without its trailing zeros a string of bytes stands for the same number.
LEMMA TrimmedSame ==
  ASSUME NEW n \in 1..MAX_BYTES_LEN, NEW bs \in [1..n -> Octets]
  PROVE  /\ Trimmed(bs) \in Seq(Octets) /\ Trimmed(bs) # <<>>
         /\ Len(Trimmed(bs)) <= MAX_BYTES_LEN
         /\ LeInt(Trimmed(bs)) = LeInt(bs)
<1>1. n \in Nat \ {0} /\ n \in 0..MAX_BYTES_LEN
  BY Constants
<1>2. PICK m \in 1..n : /\ Trimmed(bs) = [i \in 1..m |-> bs[i]]
                        /\ \A i \in 1..n : i > m => bs[i] = 0
  BY <1>1, TrimmedIs
<1>3. m \in Nat \ {0} /\ m \in 0..MAX_BYTES_LEN
  BY <1>1, Constants
<1>4. PICK ts \in [1..m -> Octets] : ts = Trimmed(bs) /\ \A i \in 1..m : ts[i] = bs[i]
  BY <1>1, <1>2
<1>5. PICK f : /\ LeInt(bs) = f[n] /\ f[0] = 0
               /\ \A k \in Nat : k + 1 \in 1..n => f[k + 1] = f[k] + bs[k + 1] * ByteBase^k
               /\ \A k \in 0..n : f[k] \in Nat /\ f[k] < ByteBase^k
  BY <1>1, ByteSums, ZenonT(30)
<1>6. PICK g : /\ LeInt(ts) = g[m] /\ g[0] = 0
               /\ \A k \in Nat : k + 1 \in 1..m => g[k + 1] = g[k] + ts[k + 1] * ByteBase^k
               /\ \A k \in 0..m : g[k] \in Nat /\ g[k] < ByteBase^k
  BY <1>3, ByteSums, ZenonT(30)
<1> DEFINE S == {k \in Nat : /\ k <= m => f[k] = g[k]
                             /\ k \in m..n => f[k] = g[m]}
<1>7. 0 \in S
  BY <1>3, <1>5, <1>6
<1>8. ASSUME NEW k \in S
      PROVE  k + 1 \in S
  <2>1. CASE k + 1 <= m
    <3>1. k + 1 \in 1..m /\ k + 1 \in 1..n
      BY <1>1, <1>3, <2>1
    <3>2. f[k] = g[k]
      BY <1>3, <2>1
    <3>3. f[k + 1] = g[k + 1]
      BY <1>4, <1>5, <1>6, <3>1, <3>2
    <3> QED
      BY <1>3, <2>1, <3>3
  <2>2. CASE k + 1 > m /\ k + 1 <= n
    <3>1. k + 1 \in 1..n /\ k \in m..n /\ k \in 0..n /\ k \in 0..MAX_BYTES_LEN
      BY <1>1, <1>3, <2>2, Constants
    <3>2. f[k] = g[m] /\ f[k] \in Nat
      BY <1>5, <3>1
    <3>3. bs[k + 1] = 0
      BY <1>2, <2>2, <3>1
    <3>4. f[k + 1] = f[k] + 0 * ByteBase^k
      BY <1>5, <3>1, <3>3
    <3>5. PICK p \in Nat : p = ByteBase^k
      BY <3>1, PowerAssumption
    <3>6. f[k + 1] = g[m]
      BY <3>2, <3>4, <3>5
    <3> QED
      BY <1>3, <2>2, <3>6
  <2>3. CASE k + 1 > n
    BY <1>1, <1>3, <2>3
  <2> QED
    BY <1>1, <1>3, <2>1, <2>2, <2>3
<1> HIDE DEF S
<1>9. S = Nat
  <2>1. S \in SUBSET Nat
    BY DEF S
  <2> QED
    BY <1>7, <1>8, <2>1, InductionOnSet
<1>10. f[n] = g[m]
  <2>1. n \in S /\ n \in m..n
    BY <1>1, <1>9
  <2> QED
    BY <2>1 DEF S
<1>11. ts \in Seq(Octets) /\ ts # <<>> /\ Len(ts) <= MAX_BYTES_LEN
  <2>3. Len(ts) = m /\ m <= MAX_BYTES_LEN
    BY <1>3, Constants
  <2>1. DOMAIN ts = 1..m /\ 1 \in 1..m
    BY <1>3
  <2>2. DOMAIN <<>> = {}
    OBVIOUS
  <2> QED
    BY <1>3, <2>1, <2>2, <2>3
<1> QED
  BY <1>4, <1>5, <1>6, <1>10, <1>11

\* An immediate printed as hex is read as itself.
LEMMA HexBack ==
  ASSUME NEW x \in Immediates
  PROVE  HexText(x) \in Text /\ IsHex(HexText(x)) /\ HexValue(HexText(x)) = {<<"imm", x>>}
<1>1. x \in Nat /\ x < P /\ FrBytes \in 1..MAX_BYTES_LEN /\ FrBytes \in 0..MAX_BYTES_LEN
  BY Constants, FrBytesIs DEF Immediates
<1>2. PICK bs \in [1..FrBytes -> Octets] : bs = LeBytes(x, FrBytes)
  BY <1>1, LeBytesTyped
<1>3. x < ByteBase^FrBytes
  <2>1. P <= ByteBase^FrBytes /\ ByteBase^FrBytes \in Nat
    BY <1>1, PowerAssumption
  <2>2. PICK p \in Nat : p = ByteBase^FrBytes
    BY <2>1
  <2> QED
    BY <1>1, <2>1, <2>2, Constants
<1>4. LeInt(bs) = x
  BY <1>1, <1>2, <1>3, IntOfBytes
<1>5. PICK ts \in Seq(Octets) : ts = Trimmed(bs) /\ ts # <<>> /\ LeInt(ts) = x
                              /\ Len(ts) <= MAX_BYTES_LEN
  BY <1>1, <1>4, TrimmedSame
<1>6. HexText(x) = [neg |-> FALSE, mark |-> "0x", rest |-> ts, half |-> FALSE]
  BY <1>2, <1>5 DEF HexText
<1>7. HexText(x) \in Text /\ IsHex(HexText(x))
  BY <1>5, <1>6 DEF Text, Octets, IsHex
<1>8. HexValue([neg |-> FALSE, mark |-> "0x", rest |-> ts, half |-> FALSE]) = {<<"imm", x>>}
  BY <1>1, <1>5 DEF HexValue, Some
<1> QED
  BY <1>6, <1>7, <1>8

\* Hex is read as at most one immediate, whatever its sign and length.
LEMMA HexTyped ==
  ASSUME NEW t \in Text
  PROVE  HexValue(t) = {} \/ \E x \in Immediates : HexValue(t) = {<<"imm", x>>}
<1>1. PICK n \in Nat : n = LeInt(t.rest)
  <2>1. t.rest \in Seq(Octets) /\ Len(t.rest) <= MAX_BYTES_LEN
    BY DEF Text, Octets
  <2>2. PICK l \in 0..MAX_BYTES_LEN : t.rest \in [1..l -> Octets]
    <3>1. Len(t.rest) \in 0..MAX_BYTES_LEN
      BY <2>1, LenProperties, Constants
    <3>2. t.rest \in [1..Len(t.rest) -> Octets]
      BY <2>1, LenProperties, ElementOfSeq
    <3> QED
      BY <3>1, <3>2
  <2> QED
    BY <2>2, LeIntRange
<1>2. PICK x : x = IF t.neg THEN (P - n) % P ELSE n
  OBVIOUS
<1>3. HexValue(t) = IF ~t.half /\ t.rest # <<>> /\ n < P THEN {<<"imm", x>>} ELSE {}
  BY <1>1, <1>2 DEF HexValue, Some
<1>4. n < P => x \in Immediates
  <2>1. (P - n) % P \in 0..P - 1
    BY Constants, ModRange
  <2> QED
    BY <1>2, <2>1, Constants DEF Immediates
<1> QED
  BY <1>3, <1>4

------------------------------------------------------------------------------
(* Operands and constants.                                                   *)

LEMMA OperandKinds ==
  ASSUME NEW o \in CodecOperand
  PROVE  \/ \E t \in Text : o = <<"var", t>> /\ o[1] = "var" /\ o[1] # "imm" /\ o[2] = t
         \/ \E x \in Immediates : o = <<"imm", x>> /\ o[1] = "imm" /\ o[2] = x
BY DEF CodecOperand

\* An operand in binary is read as what it was.
LEMMA OperandBack ==
  ASSUME NEW o \in CodecOperand
  PROVE  WriteOperand(o) \in OperandToken /\ ReadOperand(WriteOperand(o)) = {o}
<1>1. ASSUME NEW t \in Text, o = <<"var", t>>, o[1] # "imm", o[2] = t
      PROVE  WriteOperand(o) \in OperandToken /\ ReadOperand(WriteOperand(o)) = {o}
  <2>1. WriteOperand(o) = [tag |-> 0, text |-> t]
    BY <1>1 DEF WriteOperand
  <2>2. [tag |-> 0, text |-> t] \in OperandToken
    BY DEF OperandToken
  <2>3. ReadOperand([tag |-> 0, text |-> t]) = {<<"var", t>>}
    BY DEF ReadOperand
  <2> QED
    BY <1>1, <2>1, <2>2, <2>3
<1>2. ASSUME NEW x \in Immediates, o = <<"imm", x>>, o[1] = "imm", o[2] = x
      PROVE  WriteOperand(o) \in OperandToken /\ ReadOperand(WriteOperand(o)) = {o}
  <2>1. PICK t \in Text : t = HexText(x) /\ IsHex(t) /\ HexValue(t) = {<<"imm", x>>}
    BY HexBack
  <2>2. WriteOperand(o) = [tag |-> 1, text |-> t]
    BY <1>2, <2>1 DEF WriteOperand
  <2>3. [tag |-> 1, text |-> t] \in OperandToken
    BY DEF OperandToken
  <2>4. ReadOperand([tag |-> 1, text |-> t]) = {<<"imm", x>>}
    BY <2>1 DEF ReadOperand
  <2> QED
    BY <1>2, <2>2, <2>3, <2>4
<1> QED
  BY <1>1, <1>2, OperandKinds

\* What is read in binary is one operand.
LEMMA OperandTyped ==
  ASSUME NEW k \in OperandToken
  PROVE  ReadOperand(k) = {} \/ \E o \in CodecOperand : ReadOperand(k) = {o}
<1>1. k.text \in Text
  BY DEF OperandToken
<1>2. CASE k.tag = 0
  <2>1. ReadOperand(k) = {<<"var", k.text>>}
    BY <1>2 DEF ReadOperand
  <2> QED
    BY <1>1, <2>1 DEF CodecOperand
<1>3. CASE k.tag = 1 /\ IsHex(k.text)
  <2>1. ReadOperand(k) = HexValue(k.text)
    BY <1>3 DEF ReadOperand
  <2> QED
    BY <1>1, <2>1, HexTyped DEF CodecOperand
<1>4. CASE k.tag # 0 /\ ~(k.tag = 1 /\ IsHex(k.text))
  BY <1>4 DEF ReadOperand
<1> QED
  BY <1>2, <1>3, <1>4

\* The variables a document in JSON can name.
Named(o) == o[1] = "var" => ~o[2].neg /\ o[2].mark = "%"

\* An operand in JSON is read as what it was, if JSON can tell its name from hex.
LEMMA TextBack ==
  ASSUME NEW o \in CodecOperand
  PROVE  PrintOperand(o) \in Text /\ (Named(o) => ParseOperand(PrintOperand(o)) = {o})
<1>1. ASSUME NEW t \in Text, o = <<"var", t>>, o[1] = "var", o[1] # "imm", o[2] = t
      PROVE  PrintOperand(o) \in Text /\ (Named(o) => ParseOperand(PrintOperand(o)) = {o})
  <2>1. PrintOperand(o) = t
    BY <1>1 DEF PrintOperand
  <2>2. ASSUME ~t.neg, t.mark = "%"
        PROVE  ParseOperand(t) = {<<"var", t>>}
    BY <2>2 DEF ParseOperand, IsHex, Some
  <2> QED
    BY <1>1, <2>1, <2>2 DEF Named
<1>2. ASSUME NEW x \in Immediates, o = <<"imm", x>>, o[1] = "imm", o[2] = x
      PROVE  PrintOperand(o) \in Text /\ ParseOperand(PrintOperand(o)) = {o}
  BY <1>2, HexBack DEF PrintOperand, ParseOperand
<1> QED
  BY <1>1, <1>2, OperandKinds

\* What is parsed as an operand is one operand.
LEMMA TextTyped ==
  ASSUME NEW t \in Text
  PROVE  ParseOperand(t) = {} \/ \E o \in CodecOperand : ParseOperand(t) = {o}
<1>1. CASE IsHex(t)
  BY <1>1, HexTyped DEF ParseOperand, CodecOperand
<1>2. CASE ~IsHex(t)
  <2>1. ParseOperand(t) = IF ~t.neg /\ t.mark = "%" THEN {<<"var", t>>} ELSE {}
    BY <1>2 DEF ParseOperand, Some
  <2> QED
    BY <2>1 DEF CodecOperand
<1> QED
  BY <1>1, <1>2

\* A constant in JSON is read as what it was.
LEMMA ImmediateBack ==
  ASSUME NEW x \in Immediates
  PROVE  PrintConstant(x) \in Text /\ ParseConstant(PrintConstant(x)) = {x}
<1>6. PICK o : o = <<"imm", x>>
  OBVIOUS
<1>1. o = <<"imm", x>> /\ o[1] = "imm" /\ o[2] = x
  BY <1>6
<1>2. o \in CodecOperand /\ Named(o)
  BY <1>1 DEF CodecOperand, Named
<1>3. PrintConstant(x) = PrintOperand(o)
  BY <1>1 DEF PrintConstant
<1>4. PICK t \in Text : t = PrintConstant(x) /\ ParseOperand(t) = {o}
  BY <1>2, <1>3, TextBack
<1>5. ParseConstant(t) = {x}
  BY <1>1, <1>4 DEF ParseConstant
<1> QED
  BY <1>4, <1>5

\* What is parsed as a constant is one immediate.
LEMMA ImmediateTyped ==
  ASSUME NEW t \in Text
  PROVE  ParseConstant(t) = {} \/ \E x \in Immediates : ParseConstant(t) = {x}
<1>1. CASE ParseOperand(t) = {}
  BY <1>1 DEF ParseConstant
<1>2. ASSUME NEW o \in CodecOperand, ParseOperand(t) = {o}
      PROVE  ParseConstant(t) = {} \/ \E x \in Immediates : ParseConstant(t) = {x}
  <2>1. ParseConstant(t) = IF o[1] = "imm" THEN {o[2]} ELSE {}
    BY <1>2 DEF ParseConstant
  <2> QED
    BY <2>1, OperandKinds
<1> QED
  BY <1>1, <1>2, TextTyped

------------------------------------------------------------------------------
(* Documents.                                                                *)

PortedInput(i, f) == [name |-> i.name, ty |-> f[i.ty]]
PortedCode(i, f, g, h) ==
  [op |-> i.op, args |-> [j \in DOMAIN i.args |-> g[i.args[j]]], outs |-> i.outs, ty |-> f[i.ty],
   n |-> i.n, enc |-> [j \in DOMAIN i.enc |-> h[i.enc[j]]], align |-> i.align]

\* A document with its types, operands and constants taken to another notation by
\* functions: Derived with functions for operators.
Ported(d, v, f, g, h) ==
  [version |-> v, inputs |-> [i \in DOMAIN d.inputs |-> PortedInput(d.inputs[i], f)],
   outputs |-> [i \in DOMAIN d.outputs |-> f[d.outputs[i]]], comm |-> d.comm,
   code |-> [i \in DOMAIN d.code |-> PortedCode(d.code[i], f, g, h)]]

InputOf(T) == [name : Text, ty : T]
CodeOf(T, A, C) ==
  [op : ValueOps \cup ControlOps, args : Seq(A), outs : Seq(Text), ty : T,
   n : Seq(Nat), enc : Seq(C), align : Seq(Segment)]

\* The fields and entries of a document.
LEMMA DocumentIs ==
  ASSUME NEW Ver, NEW T, NEW A, NEW C, NEW d \in Documents(Ver, T, A, C)
  PROVE  /\ d = [version |-> d.version, inputs |-> d.inputs, outputs |-> d.outputs,
                 comm |-> d.comm, code |-> d.code]
         /\ d.version \in Ver /\ d.comm \in BOOLEAN
         /\ d.inputs \in Seq(InputOf(T)) /\ d.outputs \in Seq(T) /\ d.code \in Seq(CodeOf(T, A, C))
         /\ \A i \in DOMAIN d.inputs : d.inputs[i] \in InputOf(T)
         /\ \A i \in DOMAIN d.outputs : d.outputs[i] \in T
         /\ \A i \in DOMAIN d.code : d.code[i] \in CodeOf(T, A, C)
<1>1. /\ d = [version |-> d.version, inputs |-> d.inputs, outputs |-> d.outputs,
              comm |-> d.comm, code |-> d.code]
      /\ d.version \in Ver /\ d.comm \in BOOLEAN
      /\ d.inputs \in Seq(InputOf(T)) /\ d.outputs \in Seq(T) /\ d.code \in Seq(CodeOf(T, A, C))
  BY DEF Documents, InputOf, CodeOf
<1>2. /\ DOMAIN d.inputs = 1..Len(d.inputs) /\ DOMAIN d.outputs = 1..Len(d.outputs)
      /\ DOMAIN d.code = 1..Len(d.code)
  BY <1>1, LenProperties
<1>3. \A i \in DOMAIN d.inputs : d.inputs[i] \in InputOf(T)
  BY <1>1, <1>2, ElementOfSeq
<1>4. \A i \in DOMAIN d.outputs : d.outputs[i] \in T
  BY <1>1, <1>2, ElementOfSeq
<1>5. \A i \in DOMAIN d.code : d.code[i] \in CodeOf(T, A, C)
  BY <1>1, <1>2, ElementOfSeq
<1> QED
  BY <1>1, <1>3, <1>4, <1>5

\* The fields and entries of an instruction.
LEMMA CodeIs ==
  ASSUME NEW T, NEW A, NEW C, NEW i \in CodeOf(T, A, C)
  PROVE  /\ i = [op |-> i.op, args |-> i.args, outs |-> i.outs, ty |-> i.ty,
                 n |-> i.n, enc |-> i.enc, align |-> i.align]
         /\ i.op \in ValueOps \cup ControlOps /\ i.args \in Seq(A) /\ i.outs \in Seq(Text)
         /\ i.ty \in T /\ i.n \in Seq(Nat) /\ i.enc \in Seq(C) /\ i.align \in Seq(Segment)
         /\ \A j \in DOMAIN i.args : i.args[j] \in A
         /\ \A j \in DOMAIN i.enc : i.enc[j] \in C
<1>1. /\ i = [op |-> i.op, args |-> i.args, outs |-> i.outs, ty |-> i.ty,
              n |-> i.n, enc |-> i.enc, align |-> i.align]
      /\ i.op \in ValueOps \cup ControlOps /\ i.args \in Seq(A) /\ i.outs \in Seq(Text)
      /\ i.ty \in T /\ i.n \in Seq(Nat) /\ i.enc \in Seq(C) /\ i.align \in Seq(Segment)
  BY DEF CodeOf
<1>2. DOMAIN i.args = 1..Len(i.args) /\ DOMAIN i.enc = 1..Len(i.enc)
  BY <1>1, LenProperties
<1>3. \A j \in DOMAIN i.args : i.args[j] \in A
  BY <1>1, <1>2, ElementOfSeq
<1>4. \A j \in DOMAIN i.enc : i.enc[j] \in C
  BY <1>1, <1>2, ElementOfSeq
<1> QED
  BY <1>1, <1>3, <1>4

\* An element-wise image of a sequence is a sequence.
LEMMA ImageSeq ==
  ASSUME NEW S, NEW xs \in Seq(S), NEW U, NEW ys, ys = [i \in DOMAIN xs |-> ys[i]],
         \A i \in DOMAIN xs : ys[i] \in U
  PROVE  ys \in Seq(U)
<1>1. PICK n \in Nat : n = Len(xs) /\ DOMAIN xs = 1..n
  BY LenProperties
<1>2. ys \in [1..n -> U]
  BY <1>1
<1> QED
  BY <1>1, <1>2

\* What has to hold of the entries of a document for Ported to be a document.
EntriesIn(d, f, g, h, T, A, C) ==
  /\ \A i \in DOMAIN d.inputs : f[d.inputs[i].ty] \in T
  /\ \A i \in DOMAIN d.outputs : f[d.outputs[i]] \in T
  /\ \A i \in DOMAIN d.code :
       /\ f[d.code[i].ty] \in T
       /\ \A j \in DOMAIN d.code[i].args : g[d.code[i].args[j]] \in A
       /\ \A j \in DOMAIN d.code[i].enc : h[d.code[i].enc[j]] \in C

\* A document whose entries are taken to another notation is a document of it.
LEMMA PortedTyped ==
  ASSUME NEW Ver, NEW T, NEW A, NEW C, NEW d \in Documents(Ver, T, A, C),
         NEW W, NEW U, NEW B, NEW D, NEW v \in W, NEW f, NEW g, NEW h,
         EntriesIn(d, f, g, h, U, B, D)
  PROVE  Ported(d, v, f, g, h) \in Documents(W, U, B, D)
<1>1. /\ d.comm \in BOOLEAN
      /\ d.inputs \in Seq(InputOf(T)) /\ d.outputs \in Seq(T) /\ d.code \in Seq(CodeOf(T, A, C))
      /\ \A i \in DOMAIN d.inputs : d.inputs[i] \in InputOf(T)
      /\ \A i \in DOMAIN d.code : d.code[i] \in CodeOf(T, A, C)
  BY DocumentIs
<1>2. PICK ins : ins = [i \in DOMAIN d.inputs |-> PortedInput(d.inputs[i], f)]
  OBVIOUS
<1>3. ins \in Seq(InputOf(U))
  <2>1. ASSUME NEW i \in DOMAIN d.inputs
        PROVE  ins[i] \in InputOf(U)
    <3>1. ins[i] = [name |-> d.inputs[i].name, ty |-> f[d.inputs[i].ty]]
      BY <1>2 DEF PortedInput
    <3>2. d.inputs[i].name \in Text
      BY <1>1 DEF InputOf
    <3>3. f[d.inputs[i].ty] \in U
      BY DEF EntriesIn
    <3> QED
      BY <3>1, <3>2, <3>3 DEF InputOf
  <2>2. /\ d.inputs \in Seq(InputOf(T))
        /\ ins = [i \in DOMAIN d.inputs |-> ins[i]]
    BY <1>1, <1>2
  <2> QED
    BY <2>1, <2>2, ImageSeq
<1>4. PICK outs : outs = [i \in DOMAIN d.outputs |-> f[d.outputs[i]]]
  OBVIOUS
<1>5. outs \in Seq(U)
  <2>1. \A i \in DOMAIN d.outputs : outs[i] \in U
    BY <1>4 DEF EntriesIn
  <2> QED
    BY <1>1, <1>4, <2>1, ImageSeq
<1>6. PICK code : code = [i \in DOMAIN d.code |-> PortedCode(d.code[i], f, g, h)]
  OBVIOUS
<1>7. code \in Seq(CodeOf(U, B, D))
  <2>1. ASSUME NEW i \in DOMAIN d.code
        PROVE  code[i] \in CodeOf(U, B, D)
    <3>1. PICK c \in CodeOf(T, A, C) : c = d.code[i]
      BY <1>1
    <3>2. PICK args : args = [j \in DOMAIN c.args |-> g[c.args[j]]]
      OBVIOUS
    <3>3. PICK enc : enc = [j \in DOMAIN c.enc |-> h[c.enc[j]]]
      OBVIOUS
    <3>4. /\ f[c.ty] \in U
          /\ \A j \in DOMAIN c.args : g[c.args[j]] \in B
          /\ \A j \in DOMAIN c.enc : h[c.enc[j]] \in D
      BY <3>1 DEF EntriesIn
    <3>5. c.args \in Seq(A) /\ c.enc \in Seq(C)
      BY CodeIs
    <3>6. args \in Seq(B)
      BY <3>2, <3>4, <3>5, ImageSeq
    <3>7. enc \in Seq(D)
      BY <3>3, <3>4, <3>5, ImageSeq
    <3>8. code[i] = [op |-> c.op, args |-> args, outs |-> c.outs, ty |-> f[c.ty],
                     n |-> c.n, enc |-> enc, align |-> c.align]
      BY <1>6, <3>1, <3>2, <3>3 DEF PortedCode
    <3>9. /\ c.op \in ValueOps \cup ControlOps /\ c.outs \in Seq(Text)
          /\ c.n \in Seq(Nat) /\ c.align \in Seq(Segment)
      BY CodeIs
    <3> QED
      BY <3>4, <3>6, <3>7, <3>8, <3>9 DEF CodeOf
  <2>2. /\ d.code \in Seq(CodeOf(T, A, C))
        /\ code = [i \in DOMAIN d.code |-> code[i]]
    BY <1>1, <1>6
  <2> QED
    BY <2>1, <2>2, ImageSeq
<1>8. Ported(d, v, f, g, h) = [version |-> v, inputs |-> ins, outputs |-> outs, comm |-> d.comm,
                               code |-> code]
  BY <1>2, <1>4, <1>6 DEF Ported
<1> QED
  BY <1>1, <1>3, <1>5, <1>7, <1>8 DEF Documents, InputOf, CodeOf

\* The functions undo one another on the entries of d.
Undoes(d, f, g, h, f2, g2, h2) ==
  /\ \A i \in DOMAIN d.inputs : f2[f[d.inputs[i].ty]] = d.inputs[i].ty
  /\ \A i \in DOMAIN d.outputs : f2[f[d.outputs[i]]] = d.outputs[i]
  /\ \A i \in DOMAIN d.code :
       /\ f2[f[d.code[i].ty]] = d.code[i].ty
       /\ \A j \in DOMAIN d.code[i].args : g2[g[d.code[i].args[j]]] = d.code[i].args[j]
       /\ \A j \in DOMAIN d.code[i].enc : h2[h[d.code[i].enc[j]]] = d.code[i].enc[j]

\* Two sequences with the same entries are the same.
LEMMA SeqSame ==
  ASSUME NEW S, NEW xs \in Seq(S), NEW ys, ys = [i \in DOMAIN xs |-> ys[i]],
         \A i \in DOMAIN xs : ys[i] = xs[i]
  PROVE  ys = xs
<1>1. xs = [i \in DOMAIN xs |-> xs[i]]
  BY LenProperties
<1> QED
  BY <1>1

\* Functions that undo one another on the entries do so on the document.
LEMMA PortedBack ==
  ASSUME NEW Ver, NEW T, NEW A, NEW C, NEW d \in Documents(Ver, T, A, C), NEW v,
         NEW f, NEW g, NEW h, NEW f2, NEW g2, NEW h2, Undoes(d, f, g, h, f2, g2, h2)
  PROVE  Ported(Ported(d, v, f, g, h), d.version, f2, g2, h2) = d
<1>1. /\ d = [version |-> d.version, inputs |-> d.inputs, outputs |-> d.outputs,
              comm |-> d.comm, code |-> d.code]
      /\ d.inputs \in Seq(InputOf(T)) /\ d.outputs \in Seq(T) /\ d.code \in Seq(CodeOf(T, A, C))
      /\ \A i \in DOMAIN d.inputs : d.inputs[i] \in InputOf(T)
      /\ \A i \in DOMAIN d.code : d.code[i] \in CodeOf(T, A, C)
  BY DocumentIs
<1>2. PICK e : e = Ported(d, v, f, g, h)
  OBVIOUS
<1>3. /\ e.inputs = [i \in DOMAIN d.inputs |-> PortedInput(d.inputs[i], f)]
      /\ e.outputs = [i \in DOMAIN d.outputs |-> f[d.outputs[i]]] /\ e.comm = d.comm
      /\ e.code = [i \in DOMAIN d.code |-> PortedCode(d.code[i], f, g, h)]
  BY <1>2 DEF Ported
<1>4. PICK ins : ins = [i \in DOMAIN e.inputs |-> PortedInput(e.inputs[i], f2)]
  OBVIOUS
<1>5. ins = d.inputs
  <2>1. ASSUME NEW i \in DOMAIN d.inputs
        PROVE  ins[i] = d.inputs[i]
    <3>7. PICK x : x = e.inputs[i]
      OBVIOUS
    <3>8. x = PortedInput(d.inputs[i], f)
      BY <1>3, <3>7
    <3>1. x = e.inputs[i] /\ x.name = d.inputs[i].name /\ x.ty = f[d.inputs[i].ty]
      BY <3>7, <3>8 DEF PortedInput
    <3>5. i \in DOMAIN e.inputs
      BY <1>3
    <3>6. ins[i] = PortedInput(x, f2)
      BY <1>4, <3>1, <3>5
    <3>2. ins[i] = [name |-> d.inputs[i].name, ty |-> f2[f[d.inputs[i].ty]]]
      BY <3>1, <3>6 DEF PortedInput
    <3>3. f2[f[d.inputs[i].ty]] = d.inputs[i].ty
      BY DEF Undoes
    <3>4. d.inputs[i] = [name |-> d.inputs[i].name, ty |-> d.inputs[i].ty]
      BY <1>1 DEF InputOf
    <3> QED
      BY <3>2, <3>3, <3>4
  <2>2. ins = [i \in DOMAIN d.inputs |-> ins[i]]
    BY <1>3, <1>4
  <2> QED
    BY <1>1, <2>1, <2>2, SeqSame
<1>6. PICK outs : outs = [i \in DOMAIN e.outputs |-> f2[e.outputs[i]]]
  OBVIOUS
<1>7. outs = d.outputs
  <2>1. \A i \in DOMAIN d.outputs : outs[i] = d.outputs[i]
    BY <1>3, <1>6 DEF Undoes
  <2>2. outs = [i \in DOMAIN d.outputs |-> outs[i]]
    BY <1>3, <1>6
  <2> QED
    BY <1>1, <2>1, <2>2, SeqSame
<1>8. PICK code : code = [i \in DOMAIN e.code |-> PortedCode(e.code[i], f2, g2, h2)]
  OBVIOUS
<1>9. code = d.code
  <2>1. ASSUME NEW i \in DOMAIN d.code
        PROVE  code[i] = d.code[i]
    <3>1. PICK c \in CodeOf(T, A, C) : c = d.code[i]
      BY <1>1
    <3>2. PICK x : x = e.code[i]
      OBVIOUS
    <3>3. /\ x.args = [j \in DOMAIN c.args |-> g[c.args[j]]]
          /\ x.enc = [j \in DOMAIN c.enc |-> h[c.enc[j]]]
          /\ x.ty = f[c.ty] /\ x.op = c.op /\ x.outs = c.outs /\ x.n = c.n /\ x.align = c.align
      <4>1. x = PortedCode(c, f, g, h)
        BY <1>3, <3>1, <3>2
      <4> QED
        BY <4>1 DEF PortedCode
    <3>4. /\ f2[f[c.ty]] = c.ty
          /\ \A j \in DOMAIN c.args : g2[g[c.args[j]]] = c.args[j]
          /\ \A j \in DOMAIN c.enc : h2[h[c.enc[j]]] = c.enc[j]
      BY <3>1 DEF Undoes
    <3>5. PICK args : args = [j \in DOMAIN x.args |-> g2[x.args[j]]]
      OBVIOUS
    <3>6. PICK enc : enc = [j \in DOMAIN x.enc |-> h2[x.enc[j]]]
      OBVIOUS
    <3>7. c.args \in Seq(A) /\ c.enc \in Seq(C)
      BY CodeIs
    <3>8. args = c.args
      <4>1. \A j \in DOMAIN c.args : args[j] = c.args[j]
        BY <3>3, <3>4, <3>5
      <4>2. args = [j \in DOMAIN c.args |-> args[j]]
        BY <3>3, <3>5
      <4> QED
        BY <3>7, <4>1, <4>2, SeqSame
    <3>9. enc = c.enc
      <4>1. \A j \in DOMAIN c.enc : enc[j] = c.enc[j]
        BY <3>3, <3>4, <3>6
      <4>2. enc = [j \in DOMAIN c.enc |-> enc[j]]
        BY <3>3, <3>6
      <4> QED
        BY <3>7, <4>1, <4>2, SeqSame
    <3>10. code[i] = [op |-> x.op, args |-> args, outs |-> x.outs, ty |-> f2[x.ty],
                      n |-> x.n, enc |-> enc, align |-> x.align]
      BY <1>3, <1>8, <3>2, <3>5, <3>6 DEF PortedCode
    <3>11. c = [op |-> c.op, args |-> c.args, outs |-> c.outs, ty |-> c.ty,
                n |-> c.n, enc |-> c.enc, align |-> c.align]
      BY CodeIs
    <3> QED
      BY <3>1, <3>3, <3>4, <3>8, <3>9, <3>10, <3>11
  <2>2. code = [i \in DOMAIN d.code |-> code[i]]
    BY <1>3, <1>8
  <2> QED
    BY <1>1, <2>1, <2>2, SeqSame
<1>10. Ported(e, d.version, f2, g2, h2) =
         [version |-> d.version, inputs |-> ins, outputs |-> outs, comm |-> e.comm, code |-> code]
  BY <1>4, <1>6, <1>8 DEF Ported
<1> QED
  BY <1>1, <1>2, <1>3, <1>5, <1>7, <1>9, <1>10

------------------------------------------------------------------------------
(* The four codecs as functions on entries.                                  *)

Written == [ty |-> [t \in CodecTypes |-> WriteType(t)],
            arg |-> [o \in CodecOperand |-> WriteOperand(o)], const |-> [x \in Immediates |-> x]]
Printed == [ty |-> [t \in CodecTypes |-> PrintType(t)],
            arg |-> [o \in CodecOperand |-> PrintOperand(o)],
            const |-> [x \in Immediates |-> PrintConstant(x)]]

\* Each of the four codecs takes every entry to the other notation, and reading
\* succeeds exactly if every entry can be read.
LEMMA WriteSourceIs ==
  ASSUME NEW s \in CodecSource
  PROVE  WriteSource(s) = Ported(s, s.version, Written.ty, Written.arg, Written.const)
<1>1. PICK f, g, h : f = Written.ty /\ g = Written.arg /\ h = Written.const
  OBVIOUS
<1>2. /\ \A t \in CodecTypes : f[t] = WriteType(t)
      /\ \A o \in CodecOperand : g[o] = WriteOperand(o)
      /\ \A x \in Immediates : h[x] = x
  BY <1>1 DEF Written
<1>3. /\ \A i \in DOMAIN s.inputs : s.inputs[i] \in InputOf(CodecTypes)
      /\ \A i \in DOMAIN s.outputs : s.outputs[i] \in CodecTypes
      /\ \A i \in DOMAIN s.code : s.code[i] \in CodeOf(CodecTypes, CodecOperand, Immediates)
  BY DocumentIs DEF CodecSource
<1>4. WriteSource(s) =
        [version |-> s.version,
         inputs |-> [i \in DOMAIN s.inputs |->
                      [name |-> s.inputs[i].name, ty |-> WriteType(s.inputs[i].ty)]],
         outputs |-> [i \in DOMAIN s.outputs |-> WriteType(s.outputs[i])], comm |-> s.comm,
         code |-> [i \in DOMAIN s.code |->
                    [op |-> s.code[i].op,
                     args |-> [j \in DOMAIN s.code[i].args |-> WriteOperand(s.code[i].args[j])],
                     outs |-> s.code[i].outs, ty |-> WriteType(s.code[i].ty), n |-> s.code[i].n,
                     enc |-> [j \in DOMAIN s.code[i].enc |-> s.code[i].enc[j]],
                     align |-> s.code[i].align]]]
  BY DEF WriteSource, Derived, Each
<1>5. ASSUME NEW i \in DOMAIN s.inputs
      PROVE  [name |-> s.inputs[i].name, ty |-> WriteType(s.inputs[i].ty)]
               = PortedInput(s.inputs[i], f)
  BY <1>2, <1>3 DEF PortedInput, InputOf
<1>6. ASSUME NEW i \in DOMAIN s.code
      PROVE  [op |-> s.code[i].op,
              args |-> [j \in DOMAIN s.code[i].args |-> WriteOperand(s.code[i].args[j])],
              outs |-> s.code[i].outs, ty |-> WriteType(s.code[i].ty), n |-> s.code[i].n,
              enc |-> [j \in DOMAIN s.code[i].enc |-> s.code[i].enc[j]],
              align |-> s.code[i].align] = PortedCode(s.code[i], f, g, h)
  <2>1. PICK c \in CodeOf(CodecTypes, CodecOperand, Immediates) : c = s.code[i]
    BY <1>3
  <2>2. [j \in DOMAIN c.args |-> WriteOperand(c.args[j])] = [j \in DOMAIN c.args |-> g[c.args[j]]]
    BY <1>2, CodeIs
  <2>3. [j \in DOMAIN c.enc |-> c.enc[j]] = [j \in DOMAIN c.enc |-> h[c.enc[j]]]
    BY <1>2, CodeIs
  <2>4. WriteType(c.ty) = f[c.ty]
    BY <1>2, CodeIs
  <2> QED
    BY <2>1, <2>2, <2>3, <2>4 DEF PortedCode
<1>7. [i \in DOMAIN s.outputs |-> WriteType(s.outputs[i])]
        = [i \in DOMAIN s.outputs |-> f[s.outputs[i]]]
  BY <1>2, <1>3
<1>8. [i \in DOMAIN s.inputs |-> [name |-> s.inputs[i].name, ty |-> WriteType(s.inputs[i].ty)]]
        = [i \in DOMAIN s.inputs |-> PortedInput(s.inputs[i], f)]
  BY <1>5
<1>9. [i \in DOMAIN s.code |->
         [op |-> s.code[i].op,
          args |-> [j \in DOMAIN s.code[i].args |-> WriteOperand(s.code[i].args[j])],
          outs |-> s.code[i].outs, ty |-> WriteType(s.code[i].ty), n |-> s.code[i].n,
          enc |-> [j \in DOMAIN s.code[i].enc |-> s.code[i].enc[j]],
          align |-> s.code[i].align]] = [i \in DOMAIN s.code |-> PortedCode(s.code[i], f, g, h)]
  BY <1>6
<1> QED
  BY <1>1, <1>4, <1>7, <1>8, <1>9 DEF Ported

LEMMA PrintSourceIs ==
  ASSUME NEW s \in CodecSource
  PROVE  PrintSource(s) = Ported(s, <<s.version>>, Printed.ty, Printed.arg, Printed.const)
<1>1. PICK f, g, h : f = Printed.ty /\ g = Printed.arg /\ h = Printed.const
  OBVIOUS
<1>2. /\ \A t \in CodecTypes : f[t] = PrintType(t)
      /\ \A o \in CodecOperand : g[o] = PrintOperand(o)
      /\ \A x \in Immediates : h[x] = PrintConstant(x)
  BY <1>1 DEF Printed
<1>3. /\ \A i \in DOMAIN s.inputs : s.inputs[i] \in InputOf(CodecTypes)
      /\ \A i \in DOMAIN s.outputs : s.outputs[i] \in CodecTypes
      /\ \A i \in DOMAIN s.code : s.code[i] \in CodeOf(CodecTypes, CodecOperand, Immediates)
  BY DocumentIs DEF CodecSource
<1>4. PrintSource(s) =
        [version |-> <<s.version>>,
         inputs |-> [i \in DOMAIN s.inputs |->
                      [name |-> s.inputs[i].name, ty |-> PrintType(s.inputs[i].ty)]],
         outputs |-> [i \in DOMAIN s.outputs |-> PrintType(s.outputs[i])], comm |-> s.comm,
         code |-> [i \in DOMAIN s.code |->
                    [op |-> s.code[i].op,
                     args |-> [j \in DOMAIN s.code[i].args |-> PrintOperand(s.code[i].args[j])],
                     outs |-> s.code[i].outs, ty |-> PrintType(s.code[i].ty), n |-> s.code[i].n,
                     enc |-> [j \in DOMAIN s.code[i].enc |-> PrintConstant(s.code[i].enc[j])],
                     align |-> s.code[i].align]]]
  BY DEF PrintSource, Derived, Each
<1>5. ASSUME NEW i \in DOMAIN s.inputs
      PROVE  [name |-> s.inputs[i].name, ty |-> PrintType(s.inputs[i].ty)]
               = PortedInput(s.inputs[i], f)
  BY <1>2, <1>3 DEF PortedInput, InputOf
<1>6. ASSUME NEW i \in DOMAIN s.code
      PROVE  [op |-> s.code[i].op,
              args |-> [j \in DOMAIN s.code[i].args |-> PrintOperand(s.code[i].args[j])],
              outs |-> s.code[i].outs, ty |-> PrintType(s.code[i].ty), n |-> s.code[i].n,
              enc |-> [j \in DOMAIN s.code[i].enc |-> PrintConstant(s.code[i].enc[j])],
              align |-> s.code[i].align] = PortedCode(s.code[i], f, g, h)
  <2>1. PICK c \in CodeOf(CodecTypes, CodecOperand, Immediates) : c = s.code[i]
    BY <1>3
  <2>2. [j \in DOMAIN c.args |-> PrintOperand(c.args[j])] = [j \in DOMAIN c.args |-> g[c.args[j]]]
    BY <1>2, CodeIs
  <2>3. [j \in DOMAIN c.enc |-> PrintConstant(c.enc[j])] = [j \in DOMAIN c.enc |-> h[c.enc[j]]]
    BY <1>2, CodeIs
  <2>4. PrintType(c.ty) = f[c.ty]
    BY <1>2, CodeIs
  <2> QED
    BY <2>1, <2>2, <2>3, <2>4 DEF PortedCode
<1>7. [i \in DOMAIN s.outputs |-> PrintType(s.outputs[i])]
        = [i \in DOMAIN s.outputs |-> f[s.outputs[i]]]
  BY <1>2, <1>3
<1>8. [i \in DOMAIN s.inputs |-> [name |-> s.inputs[i].name, ty |-> PrintType(s.inputs[i].ty)]]
        = [i \in DOMAIN s.inputs |-> PortedInput(s.inputs[i], f)]
  BY <1>5
<1>9. [i \in DOMAIN s.code |->
         [op |-> s.code[i].op,
          args |-> [j \in DOMAIN s.code[i].args |-> PrintOperand(s.code[i].args[j])],
          outs |-> s.code[i].outs, ty |-> PrintType(s.code[i].ty), n |-> s.code[i].n,
          enc |-> [j \in DOMAIN s.code[i].enc |-> PrintConstant(s.code[i].enc[j])],
          align |-> s.code[i].align]] = [i \in DOMAIN s.code |-> PortedCode(s.code[i], f, g, h)]
  BY <1>6
<1> QED
  BY <1>1, <1>4, <1>7, <1>8, <1>9 DEF Ported

\* What has been read of the entries, where they can be read.
ReadAs == [ty |-> [k \in TypeToken |-> The(ReadType(k))],
           arg |-> [k \in OperandToken |-> The(ReadOperand(k))],
           const |-> [x \in Immediates |-> The(ReadImmediate(x))]]
ParsedAs == [ty |-> [x \in TypeText |-> The(ParseType(x))],
             arg |-> [x \in Text |-> The(ParseOperand(x))],
             const |-> [x \in Text |-> The(ParseConstant(x))]]

\* All entries can be read.
Readable(s) ==
  /\ \A i \in DOMAIN s.inputs : ReadType(s.inputs[i].ty) # {}
  /\ \A i \in DOMAIN s.outputs : ReadType(s.outputs[i]) # {}
  /\ \A i \in DOMAIN s.code :
       /\ ReadType(s.code[i].ty) # {}
       /\ \A j \in DOMAIN s.code[i].args : ReadOperand(s.code[i].args[j]) # {}
       /\ \A j \in DOMAIN s.code[i].enc : ReadImmediate(s.code[i].enc[j]) # {}
Legible(s) ==
  /\ \A i \in DOMAIN s.inputs : ParseType(s.inputs[i].ty) # {}
  /\ \A i \in DOMAIN s.outputs : ParseType(s.outputs[i]) # {}
  /\ \A i \in DOMAIN s.code :
       /\ ParseType(s.code[i].ty) # {}
       /\ \A j \in DOMAIN s.code[i].args : ParseOperand(s.code[i].args[j]) # {}
       /\ \A j \in DOMAIN s.code[i].enc : ParseConstant(s.code[i].enc[j]) # {}

LEMMA ReadSourceIs ==
  ASSUME NEW s \in BinaryDocument
  PROVE  ReadSource(s) = IF s.version \in Minors /\ Readable(s)
                 THEN {Ported(s, s.version, ReadAs.ty, ReadAs.arg, ReadAs.const)} ELSE {}
<1>1. PICK f, g, h : f = ReadAs.ty /\ g = ReadAs.arg /\ h = ReadAs.const
  OBVIOUS
<1>2. /\ \A t \in TypeToken : f[t] = The(ReadType(t))
      /\ \A o \in OperandToken : g[o] = The(ReadOperand(o))
      /\ \A x \in Immediates : h[x] = The(ReadImmediate(x))
  BY <1>1 DEF ReadAs
<1>3. /\ \A i \in DOMAIN s.inputs : s.inputs[i] \in InputOf(TypeToken)
      /\ \A i \in DOMAIN s.outputs : s.outputs[i] \in TypeToken
      /\ \A i \in DOMAIN s.code : s.code[i] \in CodeOf(TypeToken, OperandToken, Immediates)
  BY DocumentIs DEF BinaryDocument
<1>4. ReadSource(s) = IF s.version \in Minors /\ Readable(s) THEN
        {[version |-> s.version,
          inputs |-> [i \in DOMAIN s.inputs |->
                       [name |-> s.inputs[i].name, ty |-> The(ReadType(s.inputs[i].ty))]],
          outputs |-> [i \in DOMAIN s.outputs |-> The(ReadType(s.outputs[i]))], comm |-> s.comm,
          code |-> [i \in DOMAIN s.code |->
                     [op |-> s.code[i].op,
                      args |-> [j \in DOMAIN s.code[i].args |-> The(ReadOperand(s.code[i].args[j]))],
                      outs |-> s.code[i].outs, ty |-> The(ReadType(s.code[i].ty)), n |-> s.code[i].n,
                      enc |-> [j \in DOMAIN s.code[i].enc |-> The(ReadImmediate(s.code[i].enc[j]))],
                      align |-> s.code[i].align]]]} ELSE {}
  BY DEF ReadSource, DerivedRead, Derived, Each, Some, Readable
<1>5. ASSUME NEW i \in DOMAIN s.inputs
      PROVE  [name |-> s.inputs[i].name, ty |-> The(ReadType(s.inputs[i].ty))]
               = PortedInput(s.inputs[i], f)
  BY <1>2, <1>3 DEF PortedInput, InputOf
<1>6. ASSUME NEW i \in DOMAIN s.code
      PROVE  [op |-> s.code[i].op,
              args |-> [j \in DOMAIN s.code[i].args |-> The(ReadOperand(s.code[i].args[j]))],
              outs |-> s.code[i].outs, ty |-> The(ReadType(s.code[i].ty)), n |-> s.code[i].n,
              enc |-> [j \in DOMAIN s.code[i].enc |-> The(ReadImmediate(s.code[i].enc[j]))],
              align |-> s.code[i].align] = PortedCode(s.code[i], f, g, h)
  <2>1. PICK c \in CodeOf(TypeToken, OperandToken, Immediates) : c = s.code[i]
    BY <1>3
  <2>2. [j \in DOMAIN c.args |-> The(ReadOperand(c.args[j]))]
          = [j \in DOMAIN c.args |-> g[c.args[j]]]
    BY <1>2, CodeIs
  <2>3. [j \in DOMAIN c.enc |-> The(ReadImmediate(c.enc[j]))] = [j \in DOMAIN c.enc |-> h[c.enc[j]]]
    BY <1>2, CodeIs
  <2>4. The(ReadType(c.ty)) = f[c.ty]
    BY <1>2, CodeIs
  <2> QED
    BY <2>1, <2>2, <2>3, <2>4 DEF PortedCode
<1>7. [i \in DOMAIN s.outputs |-> The(ReadType(s.outputs[i]))]
        = [i \in DOMAIN s.outputs |-> f[s.outputs[i]]]
  BY <1>2, <1>3
<1>8. [i \in DOMAIN s.inputs |-> [name |-> s.inputs[i].name, ty |-> The(ReadType(s.inputs[i].ty))]]
        = [i \in DOMAIN s.inputs |-> PortedInput(s.inputs[i], f)]
  BY <1>5
<1>9. [i \in DOMAIN s.code |->
         [op |-> s.code[i].op,
          args |-> [j \in DOMAIN s.code[i].args |-> The(ReadOperand(s.code[i].args[j]))],
          outs |-> s.code[i].outs, ty |-> The(ReadType(s.code[i].ty)), n |-> s.code[i].n,
          enc |-> [j \in DOMAIN s.code[i].enc |-> The(ReadImmediate(s.code[i].enc[j]))],
          align |-> s.code[i].align]] = [i \in DOMAIN s.code |-> PortedCode(s.code[i], f, g, h)]
  BY <1>6
<1>10. Ported(s, s.version, f, g, h) =
         [version |-> s.version, inputs |-> [i \in DOMAIN s.inputs |-> PortedInput(s.inputs[i], f)],
          outputs |-> [i \in DOMAIN s.outputs |-> f[s.outputs[i]]], comm |-> s.comm,
          code |-> [i \in DOMAIN s.code |-> PortedCode(s.code[i], f, g, h)]]
  BY DEF Ported
<1> QED
  BY <1>1, <1>4, <1>7, <1>8, <1>9, <1>10

LEMMA ParseSourceIs ==
  ASSUME NEW s \in JsonDocument, NEW v, v = s.version[1]
  PROVE  Parse(s) = IF s.version \in MinorNumbers /\ Legible(s)
                 THEN {Ported(s, v, ParsedAs.ty, ParsedAs.arg, ParsedAs.const)} ELSE {}
<1>1. PICK f, g, h : f = ParsedAs.ty /\ g = ParsedAs.arg /\ h = ParsedAs.const
  OBVIOUS
<1>2. /\ \A t \in TypeText : f[t] = The(ParseType(t))
      /\ \A o \in Text : g[o] = The(ParseOperand(o))
      /\ \A x \in Text : h[x] = The(ParseConstant(x))
  BY <1>1 DEF ParsedAs
<1>3. /\ \A i \in DOMAIN s.inputs : s.inputs[i] \in InputOf(TypeText)
      /\ \A i \in DOMAIN s.outputs : s.outputs[i] \in TypeText
      /\ \A i \in DOMAIN s.code : s.code[i] \in CodeOf(TypeText, Text, Text)
  BY DocumentIs DEF JsonDocument
<1>4. Parse(s) = IF s.version \in MinorNumbers /\ Legible(s) THEN
        {[version |-> v,
          inputs |-> [i \in DOMAIN s.inputs |->
                       [name |-> s.inputs[i].name, ty |-> The(ParseType(s.inputs[i].ty))]],
          outputs |-> [i \in DOMAIN s.outputs |-> The(ParseType(s.outputs[i]))], comm |-> s.comm,
          code |-> [i \in DOMAIN s.code |->
                     [op |-> s.code[i].op,
                      args |-> [j \in DOMAIN s.code[i].args |-> The(ParseOperand(s.code[i].args[j]))],
                      outs |-> s.code[i].outs, ty |-> The(ParseType(s.code[i].ty)), n |-> s.code[i].n,
                      enc |-> [j \in DOMAIN s.code[i].enc |-> The(ParseConstant(s.code[i].enc[j]))],
                      align |-> s.code[i].align]]]} ELSE {}
  BY DEF Parse, DerivedRead, Derived, Each, Some, Legible
<1>5. ASSUME NEW i \in DOMAIN s.inputs
      PROVE  [name |-> s.inputs[i].name, ty |-> The(ParseType(s.inputs[i].ty))]
               = PortedInput(s.inputs[i], f)
  BY <1>2, <1>3 DEF PortedInput, InputOf
<1>6. ASSUME NEW i \in DOMAIN s.code
      PROVE  [op |-> s.code[i].op,
              args |-> [j \in DOMAIN s.code[i].args |-> The(ParseOperand(s.code[i].args[j]))],
              outs |-> s.code[i].outs, ty |-> The(ParseType(s.code[i].ty)), n |-> s.code[i].n,
              enc |-> [j \in DOMAIN s.code[i].enc |-> The(ParseConstant(s.code[i].enc[j]))],
              align |-> s.code[i].align] = PortedCode(s.code[i], f, g, h)
  <2>1. PICK c \in CodeOf(TypeText, Text, Text) : c = s.code[i]
    BY <1>3
  <2>2. [j \in DOMAIN c.args |-> The(ParseOperand(c.args[j]))]
          = [j \in DOMAIN c.args |-> g[c.args[j]]]
    BY <1>2, CodeIs
  <2>3. [j \in DOMAIN c.enc |-> The(ParseConstant(c.enc[j]))] = [j \in DOMAIN c.enc |-> h[c.enc[j]]]
    BY <1>2, CodeIs
  <2>4. The(ParseType(c.ty)) = f[c.ty]
    BY <1>2, CodeIs
  <2> QED
    BY <2>1, <2>2, <2>3, <2>4 DEF PortedCode
<1>7. [i \in DOMAIN s.outputs |-> The(ParseType(s.outputs[i]))]
        = [i \in DOMAIN s.outputs |-> f[s.outputs[i]]]
  BY <1>2, <1>3
<1>8. [i \in DOMAIN s.inputs |-> [name |-> s.inputs[i].name, ty |-> The(ParseType(s.inputs[i].ty))]]
        = [i \in DOMAIN s.inputs |-> PortedInput(s.inputs[i], f)]
  BY <1>5
<1>9. [i \in DOMAIN s.code |->
         [op |-> s.code[i].op,
          args |-> [j \in DOMAIN s.code[i].args |-> The(ParseOperand(s.code[i].args[j]))],
          outs |-> s.code[i].outs, ty |-> The(ParseType(s.code[i].ty)), n |-> s.code[i].n,
          enc |-> [j \in DOMAIN s.code[i].enc |-> The(ParseConstant(s.code[i].enc[j]))],
          align |-> s.code[i].align]] = [i \in DOMAIN s.code |-> PortedCode(s.code[i], f, g, h)]
  BY <1>6
<1>10. Ported(s, v, f, g, h) =
         [version |-> v, inputs |-> [i \in DOMAIN s.inputs |-> PortedInput(s.inputs[i], f)],
          outputs |-> [i \in DOMAIN s.outputs |-> f[s.outputs[i]]], comm |-> s.comm,
          code |-> [i \in DOMAIN s.code |-> PortedCode(s.code[i], f, g, h)]]
  BY DEF Ported
<1>11. PICK r : r = Ported(s, v, f, g, h)
  OBVIOUS
<1>12. Parse(s) = IF s.version \in MinorNumbers /\ Legible(s) THEN {r} ELSE {}
  BY <1>4, <1>7, <1>8, <1>9, <1>10, <1>11
<1>13. r = Ported(s, v, ParsedAs.ty, ParsedAs.arg, ParsedAs.const)
  BY <1>1, <1>11
<1>14. CASE s.version \in MinorNumbers /\ Legible(s)
  BY <1>12, <1>13, <1>14
<1>15. CASE ~(s.version \in MinorNumbers /\ Legible(s))
  BY <1>12, <1>15
<1> QED
  BY <1>14, <1>15

LEMMA TheOnly ==
  ASSUME NEW x
  PROVE  The({x}) = x
BY DEF The

\* The fields of a document in another notation.
LEMMA PortedFields ==
  ASSUME NEW d, NEW v, NEW f, NEW g, NEW h, NEW e, e = Ported(d, v, f, g, h)
  PROVE  /\ e.version = v
         /\ DOMAIN e.inputs = DOMAIN d.inputs /\ DOMAIN e.outputs = DOMAIN d.outputs
         /\ DOMAIN e.code = DOMAIN d.code
         /\ \A i \in DOMAIN d.inputs : e.inputs[i].ty = f[d.inputs[i].ty]
         /\ \A i \in DOMAIN d.outputs : e.outputs[i] = f[d.outputs[i]]
         /\ \A i \in DOMAIN d.code :
              /\ e.code[i].ty = f[d.code[i].ty]
              /\ DOMAIN e.code[i].args = DOMAIN d.code[i].args
              /\ \A j \in DOMAIN d.code[i].args : e.code[i].args[j] = g[d.code[i].args[j]]
              /\ DOMAIN e.code[i].enc = DOMAIN d.code[i].enc
              /\ \A j \in DOMAIN d.code[i].enc : e.code[i].enc[j] = h[d.code[i].enc[j]]
<1>1. /\ e.version = v
      /\ e.inputs = [i \in DOMAIN d.inputs |-> PortedInput(d.inputs[i], f)]
      /\ e.outputs = [i \in DOMAIN d.outputs |-> f[d.outputs[i]]]
      /\ e.code = [i \in DOMAIN d.code |-> PortedCode(d.code[i], f, g, h)]
  BY DEF Ported
<1>2. ASSUME NEW i \in DOMAIN d.inputs
      PROVE  e.inputs[i].ty = f[d.inputs[i].ty]
  <2>1. e.inputs[i] = PortedInput(d.inputs[i], f)
    BY <1>1
  <2> QED
    BY <2>1 DEF PortedInput
<1>3. ASSUME NEW i \in DOMAIN d.code
      PROVE  /\ e.code[i].ty = f[d.code[i].ty]
             /\ e.code[i].args = [j \in DOMAIN d.code[i].args |-> g[d.code[i].args[j]]]
             /\ e.code[i].enc = [j \in DOMAIN d.code[i].enc |-> h[d.code[i].enc[j]]]
  <2>1. e.code[i] = PortedCode(d.code[i], f, g, h)
    BY <1>1
  <2> QED
    BY <2>1 DEF PortedCode
<1>4. ASSUME NEW i \in DOMAIN d.code
      PROVE  /\ DOMAIN e.code[i].args = DOMAIN d.code[i].args
             /\ \A j \in DOMAIN d.code[i].args : e.code[i].args[j] = g[d.code[i].args[j]]
             /\ DOMAIN e.code[i].enc = DOMAIN d.code[i].enc
             /\ \A j \in DOMAIN d.code[i].enc : e.code[i].enc[j] = h[d.code[i].enc[j]]
  <2>1. PICK args : args = e.code[i].args
    OBVIOUS
  <2>2. PICK enc : enc = e.code[i].enc
    OBVIOUS
  <2>3. /\ args = [j \in DOMAIN d.code[i].args |-> g[d.code[i].args[j]]]
        /\ enc = [j \in DOMAIN d.code[i].enc |-> h[d.code[i].enc[j]]]
    BY <1>3, <2>1, <2>2
  <2>4. /\ DOMAIN args = DOMAIN d.code[i].args
        /\ \A j \in DOMAIN d.code[i].args : args[j] = g[d.code[i].args[j]]
    BY <2>3
  <2>5. /\ DOMAIN enc = DOMAIN d.code[i].enc
        /\ \A j \in DOMAIN d.code[i].enc : enc[j] = h[d.code[i].enc[j]]
    BY <2>3
  <2> QED
    BY <2>1, <2>2, <2>4, <2>5
<1>5. /\ DOMAIN e.inputs = DOMAIN d.inputs /\ DOMAIN e.outputs = DOMAIN d.outputs
      /\ DOMAIN e.code = DOMAIN d.code
      /\ \A i \in DOMAIN d.outputs : e.outputs[i] = f[d.outputs[i]]
  BY <1>1
<1> QED
  BY <1>1, <1>2, <1>3, <1>4, <1>5

\* The entries of a document are in the sets of its notation.
LEMMA EntriesOf ==
  ASSUME NEW Ver, NEW T, NEW A, NEW C, NEW d \in Documents(Ver, T, A, C)
  PROVE  /\ \A i \in DOMAIN d.inputs : d.inputs[i].ty \in T
         /\ \A i \in DOMAIN d.outputs : d.outputs[i] \in T
         /\ \A i \in DOMAIN d.code :
              /\ d.code[i].ty \in T
              /\ \A j \in DOMAIN d.code[i].args : d.code[i].args[j] \in A
              /\ \A j \in DOMAIN d.code[i].enc : d.code[i].enc[j] \in C
<1>1. ASSUME NEW i \in DOMAIN d.inputs
      PROVE  d.inputs[i].ty \in T
  BY DocumentIs DEF InputOf
<1>2. ASSUME NEW i \in DOMAIN d.code
      PROVE  /\ d.code[i].ty \in T
             /\ \A j \in DOMAIN d.code[i].args : d.code[i].args[j] \in A
             /\ \A j \in DOMAIN d.code[i].enc : d.code[i].enc[j] \in C
  <2>1. PICK c \in CodeOf(T, A, C) : c = d.code[i]
    BY DocumentIs
  <2> QED
    BY <2>1, CodeIs
<1>3. \A i \in DOMAIN d.outputs : d.outputs[i] \in T
  BY DocumentIs
<1> QED
  BY <1>1, <1>2, <1>3

\* Entry by entry, what is written in binary is read as what it was.
LEMMA WrittenEntries ==
  /\ \A t \in CodecTypes : /\ Written.ty[t] \in TypeToken /\ ReadType(Written.ty[t]) = {t}
                           /\ ReadAs.ty[Written.ty[t]] = t /\ Written.ty[t] = WriteType(t)
  /\ \A o \in CodecOperand : /\ Written.arg[o] \in OperandToken
                             /\ ReadOperand(Written.arg[o]) = {o}
                             /\ ReadAs.arg[Written.arg[o]] = o
  /\ \A x \in Immediates : /\ Written.const[x] \in Immediates
                           /\ ReadImmediate(Written.const[x]) = {x}
                           /\ ReadAs.const[Written.const[x]] = x
<1>1. ASSUME NEW t \in CodecTypes
      PROVE  /\ Written.ty[t] \in TypeToken /\ ReadType(Written.ty[t]) = {t}
             /\ ReadAs.ty[Written.ty[t]] = t /\ Written.ty[t] = WriteType(t)
  <2>1. Written.ty[t] = WriteType(t)
    BY DEF Written
  <2>2. WriteType(t) \in TypeToken /\ ReadType(WriteType(t)) = {t}
    BY TypeBack
  <2>3. ReadAs.ty[WriteType(t)] = The(ReadType(WriteType(t)))
    BY <2>2 DEF ReadAs
  <2> QED
    BY <2>1, <2>2, <2>3, TheOnly
<1>2. ASSUME NEW o \in CodecOperand
      PROVE  /\ Written.arg[o] \in OperandToken /\ ReadOperand(Written.arg[o]) = {o}
             /\ ReadAs.arg[Written.arg[o]] = o
  <2>1. Written.arg[o] = WriteOperand(o)
    BY DEF Written
  <2>2. WriteOperand(o) \in OperandToken /\ ReadOperand(WriteOperand(o)) = {o}
    BY OperandBack
  <2>3. ReadAs.arg[WriteOperand(o)] = The(ReadOperand(WriteOperand(o)))
    BY <2>2 DEF ReadAs
  <2> QED
    BY <2>1, <2>2, <2>3, TheOnly
<1>3. ASSUME NEW x \in Immediates
      PROVE  /\ Written.const[x] \in Immediates /\ ReadImmediate(Written.const[x]) = {x}
             /\ ReadAs.const[Written.const[x]] = x
  <2>1. Written.const[x] = x /\ ReadImmediate(x) = {x}
    BY DEF Written, ReadImmediate
  <2>2. ReadAs.const[x] = The(ReadImmediate(x))
    BY DEF ReadAs
  <2> QED
    BY <2>1, <2>2, TheOnly
<1> QED
  BY <1>1, <1>2, <1>3

\* A source written in binary is read as the same source.
LEMMA WriteReads ==
  ASSUME NEW s \in CodecSource
  PROVE  WriteSource(s) \in BinaryDocument /\ ReadSource(WriteSource(s)) = {s}
<1>1. PICK b : b = WriteSource(s)
  OBVIOUS
<1>2. PICK f, g, h : f = Written.ty /\ g = Written.arg /\ h = Written.const
  OBVIOUS
<1>3. PICK f2, g2, h2 : f2 = ReadAs.ty /\ g2 = ReadAs.arg /\ h2 = ReadAs.const
  OBVIOUS
<1>4. b = Ported(s, s.version, f, g, h)
  BY <1>1, <1>2, WriteSourceIs
<1>5. s.version \in Minors /\ s \in Documents(Minors, CodecTypes, CodecOperand, Immediates)
  BY DocumentIs DEF CodecSource
<1>6. /\ \A i \in DOMAIN s.inputs : s.inputs[i].ty \in CodecTypes
      /\ \A i \in DOMAIN s.outputs : s.outputs[i] \in CodecTypes
      /\ \A i \in DOMAIN s.code :
           /\ s.code[i].ty \in CodecTypes
           /\ \A j \in DOMAIN s.code[i].args : s.code[i].args[j] \in CodecOperand
           /\ \A j \in DOMAIN s.code[i].enc : s.code[i].enc[j] \in Immediates
  BY <1>5, EntriesOf
<1>7. /\ \A t \in CodecTypes : f[t] \in TypeToken /\ ReadType(f[t]) = {t} /\ f2[f[t]] = t
      /\ \A o \in CodecOperand : g[o] \in OperandToken /\ ReadOperand(g[o]) = {o} /\ g2[g[o]] = o
      /\ \A x \in Immediates : h[x] \in Immediates /\ ReadImmediate(h[x]) = {x} /\ h2[h[x]] = x
  BY <1>2, <1>3, WrittenEntries
<1>8. b \in BinaryDocument
  <2>1. EntriesIn(s, f, g, h, TypeToken, OperandToken, Immediates)
    BY <1>6, <1>7 DEF EntriesIn
  <2>2. s.version \in Nat
    BY <1>5 DEF Minors
  <2> QED
    BY <1>4, <1>5, <2>1, <2>2, PortedTyped DEF BinaryDocument
<1>9. Ported(b, s.version, f2, g2, h2) = s
  <2>1. Undoes(s, f, g, h, f2, g2, h2)
    BY <1>6, <1>7 DEF Undoes
  <2> QED
    BY <1>4, <1>5, <2>1, PortedBack
<1>10. b.version = s.version /\ Readable(b)
  <2>1. /\ b.version = s.version
        /\ DOMAIN b.inputs = DOMAIN s.inputs /\ DOMAIN b.outputs = DOMAIN s.outputs
        /\ DOMAIN b.code = DOMAIN s.code
        /\ \A i \in DOMAIN s.inputs : b.inputs[i].ty = f[s.inputs[i].ty]
        /\ \A i \in DOMAIN s.outputs : b.outputs[i] = f[s.outputs[i]]
        /\ \A i \in DOMAIN s.code :
             /\ b.code[i].ty = f[s.code[i].ty]
             /\ DOMAIN b.code[i].args = DOMAIN s.code[i].args
             /\ \A j \in DOMAIN s.code[i].args : b.code[i].args[j] = g[s.code[i].args[j]]
             /\ DOMAIN b.code[i].enc = DOMAIN s.code[i].enc
             /\ \A j \in DOMAIN s.code[i].enc : b.code[i].enc[j] = h[s.code[i].enc[j]]
    BY <1>4, PortedFields
  <2>2. ASSUME NEW i \in DOMAIN b.inputs
        PROVE  ReadType(b.inputs[i].ty) # {}
    <3>1. PICK t \in CodecTypes : t = s.inputs[i].ty /\ b.inputs[i].ty = f[t]
      BY <1>6, <2>1
    <3> QED
      BY <1>7, <3>1
  <2>3. ASSUME NEW i \in DOMAIN b.outputs
        PROVE  ReadType(b.outputs[i]) # {}
    <3>1. PICK t \in CodecTypes : t = s.outputs[i] /\ b.outputs[i] = f[t]
      BY <1>6, <2>1
    <3> QED
      BY <1>7, <3>1
  <2>4. ASSUME NEW i \in DOMAIN b.code
        PROVE  /\ ReadType(b.code[i].ty) # {}
               /\ \A j \in DOMAIN b.code[i].args : ReadOperand(b.code[i].args[j]) # {}
               /\ \A j \in DOMAIN b.code[i].enc : ReadImmediate(b.code[i].enc[j]) # {}
    <3>1. i \in DOMAIN s.code
      BY <2>1
    <3>2. PICK t \in CodecTypes : t = s.code[i].ty /\ b.code[i].ty = f[t]
      BY <1>6, <2>1, <3>1
    <3>3. ASSUME NEW j \in DOMAIN b.code[i].args
          PROVE  ReadOperand(b.code[i].args[j]) # {}
      <4>1. PICK o \in CodecOperand : o = s.code[i].args[j] /\ b.code[i].args[j] = g[o]
        BY <1>6, <2>1, <3>1
      <4> QED
        BY <1>7, <4>1
    <3>4. ASSUME NEW j \in DOMAIN b.code[i].enc
          PROVE  ReadImmediate(b.code[i].enc[j]) # {}
      <4>1. PICK x \in Immediates : x = s.code[i].enc[j] /\ b.code[i].enc[j] = h[x]
        BY <1>6, <2>1, <3>1
      <4> QED
        BY <1>7, <4>1
    <3> QED
      BY <1>7, <3>2, <3>3, <3>4
  <2> QED
    BY <2>1, <2>2, <2>3, <2>4 DEF Readable
<1>11. ReadSource(b) = IF b.version \in Minors /\ Readable(b)
                       THEN {Ported(b, b.version, f2, g2, h2)} ELSE {}
  BY <1>3, <1>8, ReadSourceIs
<1>12. ReadSource(b) = {s}
  BY <1>5, <1>9, <1>10, <1>11
<1> QED
  BY <1>1, <1>8, <1>12

\* Entry by entry, what is printed is parsed as what it was.
LEMMA PrintedEntries ==
  /\ \A t \in CodecTypes : /\ Printed.ty[t] \in TypeText /\ ParseType(Printed.ty[t]) = {t}
                           /\ ParsedAs.ty[Printed.ty[t]] = t
  /\ \A o \in CodecOperand : /\ Printed.arg[o] \in Text
                             /\ Named(o) => /\ ParseOperand(Printed.arg[o]) = {o}
                                            /\ ParsedAs.arg[Printed.arg[o]] = o
  /\ \A x \in Immediates : /\ Printed.const[x] \in Text
                           /\ ParseConstant(Printed.const[x]) = {x}
                           /\ ParsedAs.const[Printed.const[x]] = x
<1>1. ASSUME NEW t \in CodecTypes
      PROVE  /\ Printed.ty[t] \in TypeText /\ ParseType(Printed.ty[t]) = {t}
             /\ ParsedAs.ty[Printed.ty[t]] = t
  <2>1. Printed.ty[t] = PrintType(t)
    BY DEF Printed
  <2>2. PrintType(t) \in TypeText /\ ParseType(PrintType(t)) = {t}
    BY NameBack
  <2>3. ParsedAs.ty[PrintType(t)] = The(ParseType(PrintType(t)))
    BY <2>2 DEF ParsedAs
  <2> QED
    BY <2>1, <2>2, <2>3, TheOnly
<1>2. ASSUME NEW o \in CodecOperand
      PROVE  /\ Printed.arg[o] \in Text
             /\ Named(o) => /\ ParseOperand(Printed.arg[o]) = {o}
                            /\ ParsedAs.arg[Printed.arg[o]] = o
  <2>1. Printed.arg[o] = PrintOperand(o)
    BY DEF Printed
  <2>2. PrintOperand(o) \in Text /\ (Named(o) => ParseOperand(PrintOperand(o)) = {o})
    BY TextBack
  <2>3. ParsedAs.arg[PrintOperand(o)] = The(ParseOperand(PrintOperand(o)))
    BY <2>2 DEF ParsedAs
  <2> QED
    BY <2>1, <2>2, <2>3, TheOnly
<1>3. ASSUME NEW x \in Immediates
      PROVE  /\ Printed.const[x] \in Text /\ ParseConstant(Printed.const[x]) = {x}
             /\ ParsedAs.const[Printed.const[x]] = x
  <2>1. Printed.const[x] = PrintConstant(x)
    BY DEF Printed
  <2>2. PrintConstant(x) \in Text /\ ParseConstant(PrintConstant(x)) = {x}
    BY ImmediateBack
  <2>3. ParsedAs.const[PrintConstant(x)] = The(ParseConstant(PrintConstant(x)))
    BY <2>2 DEF ParsedAs
  <2> QED
    BY <2>1, <2>2, <2>3, TheOnly
<1> QED
  BY <1>1, <1>2, <1>3

\* What is printed is a JSON document.
LEMMA PrintTyped ==
  ASSUME NEW s \in CodecSource
  PROVE  PrintSource(s) \in JsonDocument
<1>1. PICK b : b = PrintSource(s)
  OBVIOUS
<1>2. PICK f, g, h : f = Printed.ty /\ g = Printed.arg /\ h = Printed.const
  OBVIOUS
<1>4. b = Ported(s, <<s.version>>, f, g, h)
  BY <1>1, <1>2, PrintSourceIs
<1>5. s.version \in Minors /\ s \in Documents(Minors, CodecTypes, CodecOperand, Immediates)
  BY DocumentIs DEF CodecSource
<1>6. /\ \A i \in DOMAIN s.inputs : s.inputs[i].ty \in CodecTypes
      /\ \A i \in DOMAIN s.outputs : s.outputs[i] \in CodecTypes
      /\ \A i \in DOMAIN s.code :
           /\ s.code[i].ty \in CodecTypes
           /\ \A j \in DOMAIN s.code[i].args : s.code[i].args[j] \in CodecOperand
           /\ \A j \in DOMAIN s.code[i].enc : s.code[i].enc[j] \in Immediates
  BY <1>5, EntriesOf
<1>7. /\ \A t \in CodecTypes : f[t] \in TypeText
      /\ \A o \in CodecOperand : g[o] \in Text
      /\ \A x \in Immediates : h[x] \in Text
  BY <1>2, PrintedEntries
<1>8. b \in JsonDocument
  <2>1. EntriesIn(s, f, g, h, TypeText, Text, Text)
    BY <1>6, <1>7 DEF EntriesIn
  <2>2. <<s.version>> \in Seq(Nat)
    BY <1>5 DEF Minors
  <2> QED
    BY <1>4, <1>5, <2>1, <2>2, PortedTyped DEF JsonDocument
<1> QED
  BY <1>1, <1>8

\* A source that JSON can name is parsed as the same source after printing.
LEMMA PrintParses ==
  ASSUME NEW s \in CodecSource, Nameable(s)
  PROVE  Parse(PrintSource(s)) = {s}
<1>1. PICK b : b = PrintSource(s)
  OBVIOUS
<1>2. PICK f, g, h : f = Printed.ty /\ g = Printed.arg /\ h = Printed.const
  OBVIOUS
<1>3. PICK f2, g2, h2 : f2 = ParsedAs.ty /\ g2 = ParsedAs.arg /\ h2 = ParsedAs.const
  OBVIOUS
<1>4. b = Ported(s, <<s.version>>, f, g, h)
  BY <1>1, <1>2, PrintSourceIs
<1>5. s.version \in Minors /\ s \in Documents(Minors, CodecTypes, CodecOperand, Immediates)
  BY DocumentIs DEF CodecSource
<1>6. /\ \A i \in DOMAIN s.inputs : s.inputs[i].ty \in CodecTypes
      /\ \A i \in DOMAIN s.outputs : s.outputs[i] \in CodecTypes
      /\ \A i \in DOMAIN s.code :
           /\ s.code[i].ty \in CodecTypes
           /\ \A j \in DOMAIN s.code[i].args : s.code[i].args[j] \in CodecOperand
           /\ \A j \in DOMAIN s.code[i].enc : s.code[i].enc[j] \in Immediates
  BY <1>5, EntriesOf
<1>7. /\ \A t \in CodecTypes : f[t] \in TypeText /\ ParseType(f[t]) = {t} /\ f2[f[t]] = t
      /\ \A o \in CodecOperand : g[o] \in Text /\ (Named(o) => ParseOperand(g[o]) = {o} /\ g2[g[o]] = o)
      /\ \A x \in Immediates : h[x] \in Text /\ ParseConstant(h[x]) = {x} /\ h2[h[x]] = x
  BY <1>2, <1>3, PrintedEntries
<1>8. b \in JsonDocument
  BY <1>1, PrintTyped
<1>8a. \A i \in DOMAIN s.code : \A j \in DOMAIN s.code[i].args : Named(s.code[i].args[j])
  BY DEF Nameable, Named
<1>9. Ported(b, s.version, f2, g2, h2) = s
  <2>1. Undoes(s, f, g, h, f2, g2, h2)
    BY <1>6, <1>7, <1>8a DEF Undoes
  <2> QED
    BY <1>4, <1>5, <2>1, PortedBack
<1>10. b.version = <<s.version>> /\ Legible(b)
  <2>1. /\ b.version = <<s.version>>
        /\ DOMAIN b.inputs = DOMAIN s.inputs /\ DOMAIN b.outputs = DOMAIN s.outputs
        /\ DOMAIN b.code = DOMAIN s.code
        /\ \A i \in DOMAIN s.inputs : b.inputs[i].ty = f[s.inputs[i].ty]
        /\ \A i \in DOMAIN s.outputs : b.outputs[i] = f[s.outputs[i]]
        /\ \A i \in DOMAIN s.code :
             /\ b.code[i].ty = f[s.code[i].ty]
             /\ DOMAIN b.code[i].args = DOMAIN s.code[i].args
             /\ \A j \in DOMAIN s.code[i].args : b.code[i].args[j] = g[s.code[i].args[j]]
             /\ DOMAIN b.code[i].enc = DOMAIN s.code[i].enc
             /\ \A j \in DOMAIN s.code[i].enc : b.code[i].enc[j] = h[s.code[i].enc[j]]
    BY <1>4, PortedFields
  <2>2. ASSUME NEW i \in DOMAIN b.inputs
        PROVE  ParseType(b.inputs[i].ty) # {}
    <3>1. PICK t \in CodecTypes : t = s.inputs[i].ty /\ b.inputs[i].ty = f[t]
      BY <1>6, <2>1
    <3> QED
      BY <1>7, <3>1
  <2>3. ASSUME NEW i \in DOMAIN b.outputs
        PROVE  ParseType(b.outputs[i]) # {}
    <3>1. PICK t \in CodecTypes : t = s.outputs[i] /\ b.outputs[i] = f[t]
      BY <1>6, <2>1
    <3> QED
      BY <1>7, <3>1
  <2>4. ASSUME NEW i \in DOMAIN b.code
        PROVE  /\ ParseType(b.code[i].ty) # {}
               /\ \A j \in DOMAIN b.code[i].args : ParseOperand(b.code[i].args[j]) # {}
               /\ \A j \in DOMAIN b.code[i].enc : ParseConstant(b.code[i].enc[j]) # {}
    <3>1. i \in DOMAIN s.code
      BY <2>1
    <3>2. PICK t \in CodecTypes : t = s.code[i].ty /\ b.code[i].ty = f[t]
      BY <1>6, <2>1, <3>1
    <3>3. ASSUME NEW j \in DOMAIN b.code[i].args
          PROVE  ParseOperand(b.code[i].args[j]) # {}
      <4>1. PICK o \in CodecOperand : o = s.code[i].args[j] /\ b.code[i].args[j] = g[o] /\ Named(o)
        BY <1>6, <1>8a, <2>1, <3>1
      <4> QED
        BY <1>7, <4>1
    <3>4. ASSUME NEW j \in DOMAIN b.code[i].enc
          PROVE  ParseConstant(b.code[i].enc[j]) # {}
      <4>1. PICK x \in Immediates : x = s.code[i].enc[j] /\ b.code[i].enc[j] = h[x]
        BY <1>6, <2>1, <3>1
      <4> QED
        BY <1>7, <4>1
    <3> QED
      BY <1>7, <3>2, <3>3, <3>4
  <2> QED
    BY <2>1, <2>2, <2>3, <2>4 DEF Legible
<1>11. Parse(b) = IF b.version \in MinorNumbers /\ Legible(b)
                  THEN {Ported(b, b.version[1], f2, g2, h2)} ELSE {}
  BY <1>3, <1>8, ParseSourceIs
<1>12. b.version \in MinorNumbers /\ b.version[1] = s.version
  BY <1>5, <1>10 DEF MinorNumbers
<1>13. Parse(b) = {s}
  BY <1>9, <1>10, <1>11, <1>12
<1> QED
  BY <1>1, <1>13

\* What is read of a binary document is one source, and its types have the form
\* that was read.
LEMMA ReadTyped ==
  ASSUME NEW b \in BinaryDocument, ReadSource(b) # {}
  PROVE  \E r \in CodecSource :
           /\ ReadSource(b) = {r}
           /\ \A i \in DOMAIN b.outputs : WriteType(r.outputs[i]) = b.outputs[i]
<1>1. PICK f, g, h : f = ReadAs.ty /\ g = ReadAs.arg /\ h = ReadAs.const
  OBVIOUS
<1>2. PICK r : r = Ported(b, b.version, f, g, h)
  OBVIOUS
<1>3. b.version \in Minors /\ Readable(b) /\ ReadSource(b) = {r}
  BY <1>1, <1>2, ReadSourceIs
<1>4. b \in Documents(Nat, TypeToken, OperandToken, Immediates)
  BY DEF BinaryDocument
<1>5. /\ \A i \in DOMAIN b.inputs : b.inputs[i].ty \in TypeToken
      /\ \A i \in DOMAIN b.outputs : b.outputs[i] \in TypeToken
      /\ \A i \in DOMAIN b.code :
           /\ b.code[i].ty \in TypeToken
           /\ \A j \in DOMAIN b.code[i].args : b.code[i].args[j] \in OperandToken
           /\ \A j \in DOMAIN b.code[i].enc : b.code[i].enc[j] \in Immediates
  BY <1>4, EntriesOf
<1>6. ASSUME NEW k \in TypeToken, ReadType(k) # {}
      PROVE  f[k] \in CodecTypes /\ WriteType(f[k]) = k
  <2>1. PICK t \in CodecTypes : ReadType(k) = {t} /\ WriteType(t) = k
    BY <1>6, TokenBack
  <2>2. f[k] = The(ReadType(k))
    BY <1>1 DEF ReadAs
  <2> QED
    BY <2>1, <2>2, TheOnly
<1>7. ASSUME NEW k \in OperandToken, ReadOperand(k) # {}
      PROVE  g[k] \in CodecOperand
  <2>1. PICK o \in CodecOperand : ReadOperand(k) = {o}
    BY <1>7, OperandTyped
  <2>2. g[k] = The(ReadOperand(k))
    BY <1>1 DEF ReadAs
  <2> QED
    BY <2>1, <2>2, TheOnly
<1>8. ASSUME NEW x \in Immediates
      PROVE  h[x] \in Immediates
  <2>1. h[x] = The(ReadImmediate(x)) /\ ReadImmediate(x) = {x}
    BY <1>1 DEF ReadAs, ReadImmediate
  <2> QED
    BY <2>1, TheOnly
<1>9. /\ \A i \in DOMAIN b.inputs : ReadType(b.inputs[i].ty) # {}
      /\ \A i \in DOMAIN b.outputs : ReadType(b.outputs[i]) # {}
      /\ \A i \in DOMAIN b.code :
           /\ ReadType(b.code[i].ty) # {}
           /\ \A j \in DOMAIN b.code[i].args : ReadOperand(b.code[i].args[j]) # {}
  BY <1>3 DEF Readable
<1>10. EntriesIn(b, f, g, h, CodecTypes, CodecOperand, Immediates)
  BY <1>5, <1>6, <1>7, <1>8, <1>9 DEF EntriesIn
<1>11. r \in CodecSource
  BY <1>2, <1>3, <1>4, <1>10, PortedTyped DEF CodecSource
<1>12. \A i \in DOMAIN b.outputs : r.outputs[i] = f[b.outputs[i]]
  BY <1>2, PortedFields
<1>13. \A i \in DOMAIN b.outputs : WriteType(r.outputs[i]) = b.outputs[i]
  BY <1>5, <1>6, <1>9, <1>12
<1> QED
  BY <1>3, <1>11, <1>13

\* What is read of a JSON document with a number for its version is one source.
LEMMA ParsedTyped ==
  ASSUME NEW d \in JsonDocument, Parse(d) # {}
  PROVE  \E r \in CodecSource : Parse(d) = {r}
<1>1. PICK f, g, h : f = ParsedAs.ty /\ g = ParsedAs.arg /\ h = ParsedAs.const
  OBVIOUS
<1>2. PICK v : v = d.version[1]
  OBVIOUS
<1>3. PICK r : r = Ported(d, v, f, g, h)
  OBVIOUS
<1>4. d.version \in MinorNumbers /\ Legible(d) /\ Parse(d) = {r}
  BY <1>1, <1>2, <1>3, ParseSourceIs
<1>5. v \in Minors
  BY <1>2, <1>4 DEF MinorNumbers
<1>6. d \in Documents(Seq(Nat), TypeText, Text, Text)
  BY DEF JsonDocument
<1>7. /\ \A i \in DOMAIN d.inputs : d.inputs[i].ty \in TypeText
      /\ \A i \in DOMAIN d.outputs : d.outputs[i] \in TypeText
      /\ \A i \in DOMAIN d.code :
           /\ d.code[i].ty \in TypeText
           /\ \A j \in DOMAIN d.code[i].args : d.code[i].args[j] \in Text
           /\ \A j \in DOMAIN d.code[i].enc : d.code[i].enc[j] \in Text
  BY <1>6, EntriesOf
<1>8. ASSUME NEW k \in TypeText, ParseType(k) # {}
      PROVE  f[k] \in CodecTypes
  <2>1. PICK t \in CodecTypes : ParseType(k) = {t}
    BY <1>8, NameTyped
  <2>2. f[k] = The(ParseType(k))
    BY <1>1 DEF ParsedAs
  <2> QED
    BY <2>1, <2>2, TheOnly
<1>9. ASSUME NEW k \in Text, ParseOperand(k) # {}
      PROVE  g[k] \in CodecOperand
  <2>1. PICK o \in CodecOperand : ParseOperand(k) = {o}
    BY <1>9, TextTyped
  <2>2. g[k] = The(ParseOperand(k))
    BY <1>1 DEF ParsedAs
  <2> QED
    BY <2>1, <2>2, TheOnly
<1>10. ASSUME NEW k \in Text, ParseConstant(k) # {}
       PROVE  h[k] \in Immediates
  <2>1. PICK x \in Immediates : ParseConstant(k) = {x}
    BY <1>10, ImmediateTyped
  <2>2. h[k] = The(ParseConstant(k))
    BY <1>1 DEF ParsedAs
  <2> QED
    BY <2>1, <2>2, TheOnly
<1>11. EntriesIn(d, f, g, h, CodecTypes, CodecOperand, Immediates)
  <2>1. /\ \A i \in DOMAIN d.inputs : ParseType(d.inputs[i].ty) # {}
        /\ \A i \in DOMAIN d.outputs : ParseType(d.outputs[i]) # {}
        /\ \A i \in DOMAIN d.code :
             /\ ParseType(d.code[i].ty) # {}
             /\ \A j \in DOMAIN d.code[i].args : ParseOperand(d.code[i].args[j]) # {}
             /\ \A j \in DOMAIN d.code[i].enc : ParseConstant(d.code[i].enc[j]) # {}
    BY <1>4 DEF Legible
  <2> QED
    BY <1>7, <1>8, <1>9, <1>10, <2>1 DEF EntriesIn
<1>12. r \in CodecSource
  BY <1>3, <1>5, <1>6, <1>11, PortedTyped DEF CodecSource
<1> QED
  BY <1>4, <1>12

\* So is what is loaded of a file.
LEMMA LoadTyped ==
  ASSUME NEW d \in JsonDocument, load(d) # {}
  PROVE  \E r \in CodecSource : load(d) = {r}
<1>1. PICK m \in Minors : d.version = <<3, m>>
  BY DEF load
<1>2. PICK e : e = [d EXCEPT !.version = Tail(@)]
  OBVIOUS
<1>3. load(d) = Parse(e)
  BY <1>1, <1>2 DEF load
<1>4. e = [d EXCEPT !.version = <<m>>]
  <2>1. Tail(d.version) = <<m>>
    BY <1>1
  <2> QED
    BY <1>2, <2>1
<1>5. <<m>> \in Seq(Nat)
  BY DEF Minors
<1>6. e \in JsonDocument
  BY <1>4, <1>5 DEF JsonDocument, Documents
<1> QED
  BY <1>3, <1>6, ParsedTyped

------------------------------------------------------------------------------
(* The specification.                                                        *)

\* What holds of every step: at most one source has been read, and if JSON can
\* name its variables, the document is that source in the present form.
CodecInv ==
  /\ CodecTypeOK
  /\ \A s, t \in origin : s = t
  /\ form = "json" => origin = {}
  /\ \A s \in origin : Nameable(s) =>
       /\ form # "refused"
       /\ form = "source" => doc = s
       /\ form = "binary" => doc = WriteSource(s)
       /\ form = "printed" => doc = PrintSource(s)

LEMMA CodecStarts == CodecInit => CodecInv
<1> SUFFICES ASSUME CodecInit
             PROVE  CodecInv
  OBVIOUS
<1>1. origin = {} /\ form \in Forms /\ form # "source"
  BY DEF CodecInit, Forms
<1>2. form = "binary" => doc \in BinaryDocument
  BY DocumentsAssumption DEF CodecInit
<1>3. form \in {"json", "printed"} => doc \in JsonDocument
  BY DocumentsAssumption DEF CodecInit
<1>4. CodecTypeOK
  BY <1>1, <1>2, <1>3 DEF CodecTypeOK
<1> QED
  BY <1>1, <1>4 DEF CodecInv

\* Reading keeps the invariant if the result is one source, the one that was first
\* read if JSON can name its variables.
LEMMA ReadingKeeps ==
  ASSUME CodecInv, NEW result, Reads(result), result = {} \/ \E r \in CodecSource : result = {r},
         \A s \in origin : Nameable(s) => result = {s}
  PROVE  CodecInv'
<1>1. CASE result = {} /\ form' = "refused" /\ UNCHANGED <<doc, origin>>
  <2>1. \A s \in origin : ~Nameable(s)
    BY <1>1
  <2>2. CodecTypeOK'
    BY <1>1 DEF CodecTypeOK, CodecInv, Forms
  <2>3. \A s \in origin' : ~Nameable(s)
    BY <1>1, <2>1
  <2>4. form' # "json" /\ \A s, t \in origin' : s = t
    BY <1>1 DEF CodecInv
  <2> QED
    BY <2>2, <2>3, <2>4 DEF CodecInv
<1>2. CASE /\ result # {} /\ form' = "source" /\ doc' = The(result)
           /\ origin' = IF origin = {} THEN result ELSE origin
  <2>1. PICK r \in CodecSource : result = {r}
    BY <1>2
  <2>2. doc' = r
    BY <1>2, <2>1, TheOnly
  <2>3. origin' = {r} \/ (origin # {} /\ origin' = origin)
    BY <1>2, <2>1
  <2>4. CodecTypeOK'
    BY <1>2, <2>1, <2>2, <2>3 DEF CodecTypeOK, CodecInv, Forms
  <2>5. \A s, t \in origin' : s = t
    BY <2>3 DEF CodecInv
  <2>6. \A s \in origin' : Nameable(s) => s = r
    BY <2>1, <2>3
  <2> QED
    BY <1>2, <2>2, <2>4, <2>5, <2>6 DEF CodecInv
<1> QED
  BY <1>1, <1>2 DEF Reads

LEMMA CodecKeeps == CodecInv /\ [CodecNext]_codecVars => CodecInv'
<1> SUFFICES ASSUME CodecInv, [CodecNext]_codecVars
             PROVE  CodecInv'
  OBVIOUS
<1>1. CASE Load
  <2>1. form = "json" /\ doc \in JsonDocument /\ origin = {}
    BY <1>1 DEF Load, CodecInv, CodecTypeOK
  <2>2. load(doc) = {} \/ \E r \in CodecSource : load(doc) = {r}
    BY <2>1, LoadTyped
  <2> QED
    BY <1>1, <2>1, <2>2, ReadingKeeps DEF Load
<1>2. CASE Read
  <2>1. form = "binary" /\ doc \in BinaryDocument /\ origin \subseteq CodecSource
    BY <1>2 DEF Read, CodecInv, CodecTypeOK
  <2>2. ReadSource(doc) = {} \/ \E r \in CodecSource : ReadSource(doc) = {r}
    BY <2>1, ReadTyped
  <2>3. ASSUME NEW s \in origin, Nameable(s)
        PROVE  ReadSource(doc) = {s}
    <3>1. doc = WriteSource(s) /\ s \in CodecSource
      BY <2>1, <2>3 DEF CodecInv
    <3> QED
      BY <3>1, WriteReads
  <2> QED
    BY <1>2, <2>2, <2>3, ReadingKeeps DEF Read
<1>3. CASE Reparse
  <2>1. form = "printed" /\ doc \in JsonDocument /\ origin \subseteq CodecSource
    BY <1>3 DEF Reparse, CodecInv, CodecTypeOK
  <2>2. Parse(doc) = {} \/ \E r \in CodecSource : Parse(doc) = {r}
    BY <2>1, ParsedTyped
  <2>3. ASSUME NEW s \in origin, Nameable(s)
        PROVE  Parse(doc) = {s}
    <3>1. doc = PrintSource(s) /\ s \in CodecSource
      BY <2>1, <2>3 DEF CodecInv
    <3> QED
      BY <2>3, <3>1, PrintParses
  <2> QED
    BY <1>3, <2>2, <2>3, ReadingKeeps DEF Reparse
<1>4. CASE Write
  <2>1. /\ form = "source" /\ doc \in CodecSource /\ form' = "binary"
        /\ doc' = WriteSource(doc) /\ origin' = origin
    BY <1>4 DEF Write, Becomes, CodecInv, CodecTypeOK
  <2>2. doc' \in BinaryDocument
    BY <2>1, WriteReads
  <2>3. CodecTypeOK'
    BY <2>1, <2>2 DEF CodecTypeOK, CodecInv, Forms
  <2>4. ASSUME NEW s \in origin', Nameable(s)
        PROVE  doc' = WriteSource(s)
    <3>1. s \in origin /\ doc = s
      BY <2>1, <2>4 DEF CodecInv
    <3> QED
      BY <2>1, <3>1
  <2>5. \A s, t \in origin' : s = t
    BY <2>1 DEF CodecInv
  <2> QED
    BY <2>1, <2>3, <2>4, <2>5 DEF CodecInv
<1>5. CASE Serialize
  <2>1. /\ form = "source" /\ doc \in CodecSource /\ form' = "printed"
        /\ doc' = PrintSource(doc) /\ origin' = origin
    BY <1>5 DEF Serialize, Becomes, CodecInv, CodecTypeOK
  <2>2. doc' \in JsonDocument
    BY <2>1, PrintTyped
  <2>3. CodecTypeOK'
    BY <2>1, <2>2 DEF CodecTypeOK, CodecInv, Forms
  <2>4. ASSUME NEW s \in origin', Nameable(s)
        PROVE  doc' = PrintSource(s)
    <3>1. s \in origin /\ doc = s
      BY <2>1, <2>4 DEF CodecInv
    <3> QED
      BY <2>1, <3>1
  <2>5. \A s, t \in origin' : s = t
    BY <2>1 DEF CodecInv
  <2> QED
    BY <2>1, <2>3, <2>4, <2>5 DEF CodecInv
<1>6. CASE UNCHANGED codecVars
  <2>1. form' = form /\ doc' = doc /\ origin' = origin
    BY <1>6 DEF codecVars
  <2>2. CodecTypeOK'
    BY <2>1 DEF CodecTypeOK, CodecInv
  <2> QED
    BY <2>1, <2>2 DEF CodecInv
<1>7. CASE Refused
  BY <1>6, <1>7 DEF Refused
<1> QED
  BY <1>1, <1>2, <1>3, <1>4, <1>5, <1>6, <1>7 DEF CodecNext

LEMMA CodecInvHolds == CodecSpec => []CodecInv
BY CodecStarts, CodecKeeps, PTL DEF CodecSpec

\* Whatever file is read, and into whatever form the source is then taken, a source
\* has types that exist, byte strings within the bound and immediates of the
\* field, and what is written is a document of its form.
THEOREM CodecTypeCorrect == CodecSpec => []CodecTypeOK
<1>1. CodecInv => CodecTypeOK
  BY DEF CodecInv
<1> QED
  BY <1>1, CodecInvHolds, PTL

\* A source whose variables JSON can name is the same source after any number of
\* changes between .zkir text, .bzkir bytes and memory, and no step refuses it.
THEOREM Survives == CodecSpec => []SurvivesForms
<1>1. CodecInv => SurvivesForms
  BY DEF CodecInv, SurvivesForms
<1> QED
  BY <1>1, CodecInvHolds, PTL

\* A binary file that is read has each type in the one form in which that type is
\* written: no two files differ in the form of a type alone.
THEOREM Canonical == CodecSpec => []TypesCanonical
<1>1. CodecInv => TypesCanonical
  <2> SUFFICES ASSUME CodecInv, form = "binary", NEW s \in ReadSource(doc), NEW i \in DOMAIN doc.outputs
               PROVE  WriteType(s.outputs[i]) = doc.outputs[i]
    BY DEF TypesCanonical
  <2>1. doc \in BinaryDocument
    BY DEF CodecInv, CodecTypeOK
  <2> QED
    BY <2>1, ReadTyped
<1> QED
  BY <1>1, CodecInvHolds, PTL

\* A binary file that is read and written again is read as the same source, however
\* its immediates were spelt.
THEOREM Rewrites == CodecSpec => []RewritesFaithfully
<1>1. CodecInv => RewritesFaithfully
  <2> SUFFICES ASSUME CodecInv, form = "binary", NEW s \in ReadSource(doc)
               PROVE  ReadSource(WriteSource(s)) = {s}
    BY DEF RewritesFaithfully
  <2>1. doc \in BinaryDocument
    BY DEF CodecInv, CodecTypeOK
  <2>2. s \in CodecSource
    BY <2>1, ReadTyped
  <2> QED
    BY <2>2, WriteReads
<1> QED
  BY <1>1, CodecInvHolds, PTL
==============================================================================
