-------------------------------- MODULE Scaled --------------------------------
(***************************************************************************)
(* A scaled-down instance of the constants of IrTypes and OffCircuit, with *)
(* the inequalities of the real ones: bytes of two bits, a native field of *)
(* order 17 (one chunk of two bytes, 4 bits, always fits; three bytes do   *)
(* not), and real curves over small fields in the shapes of Jubjub (over   *)
(* the native field), Curve25519 (Edwards over a foreign field) and        *)
(* Secp256k1 (Weierstrass over a foreign field), of prime order 5, 7 and   *)
(* 13.  The coordinate tables list the multiples of a generator.           *)
(***************************************************************************)
EXTENDS Integers, Sequences, SequencesExt

SmallCurves == {"Jubjub", "Curve25519", "Secp256k1"}
SmallWeierstrass == {"Secp256k1"}
SmallBaseMod == [c \in SmallCurves |->
  CASE c = "Jubjub" -> 17 [] c = "Curve25519" -> 29 [] c = "Secp256k1" -> 19]
SmallScalarMod == [c \in SmallCurves |->
  CASE c = "Jubjub" -> 5 [] c = "Curve25519" -> 7 [] c = "Secp256k1" -> 13]

\* -x^2 + y^2 = 1 + 6 x^2 y^2 over the field of 17 elements
JubjubPoints == <<<<0, 1>>, <<5, 7>>, <<10, 9>>, <<7, 9>>, <<12, 7>>>>
\* -x^2 + y^2 = 1 + 2 x^2 y^2 over the field of 29 elements
EdwardsPoints ==
  <<<<0, 1>>, <<2, 22>>, <<20, 19>>, <<18, 3>>, <<11, 3>>, <<9, 19>>, <<27, 22>>>>
\* y^2 = x^3 + 2 over the field of 19 elements
WeierstrassPoints ==
  <<<<4, 3>>, <<18, 18>>, <<6, 3>>, <<9, 16>>, <<12, 18>>, <<8, 18>>,
    <<8, 1>>, <<12, 1>>, <<9, 3>>, <<6, 16>>, <<18, 1>>, <<4, 16>>>>

SmallCoord == [c \in SmallCurves |->
  CASE c = "Jubjub" -> [k \in 0..4 |-> JubjubPoints[k + 1]]
    [] c = "Curve25519" -> [k \in 0..6 |-> EdwardsPoints[k + 1]]
    [] c = "Secp256k1" -> WeierstrassPoints]

\* Stand-ins for the hashes: functions of the whole sequence.
SmallPoseidon(xs) == FoldLeft(LAMBDA acc, x : (3 * acc + x + 1) % 17, 5, xs)
SmallDigest(op, bs) ==
  [i \in 1..(IF op = "Sha512" THEN 4 ELSE 3) |->
     FoldLeft(LAMBDA acc, b : (i * acc + b + 1) % 4, IF op = "Keccak256" THEN 2 ELSE 1, bs)]
SmallHashToPoint(xs) == FoldLeft(LAMBDA acc, x : (2 * acc + x + 1) % 5, 2, xs)
==============================================================================
