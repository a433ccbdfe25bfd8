------------------------------- MODULE GateCases -------------------------------
(***************************************************************************)
(* One value instruction at a time, each operand a typed input.  Unary     *)
(* instructions meet every value of every type, the others every value of  *)
(* the types they take and one value of each pair of types they do not;    *)
(* the bounds and lengths are those at the edges.                          *)
(***************************************************************************)
EXTENDS Ir, Scaled

In == <<"a", "b", "c">>
Out == <<"o1", "o2", "o3", "o4", "o5">>
GateNames == ToSet(In) \cup ToSet(Out)

\* An instruction on the first k inputs with r outputs.
On(op, k, r, ty, n) ==
  [op |-> op, args |-> [i \in 1..k |-> <<"var", In[i]>>], outs |-> SubSeq(Out, 1, r),
   ty |-> ty, n |-> n, enc |-> <<>>, align |-> <<>>]
G(op, k, r) == On(op, k, r, Native, <<>>)
Sized(op, k, r, ns) == {On(op, k, r, Native, n) : n \in ns}

------------------------------------------------------------------------------
(* A case: some instructions, the types of their operands and the values     *)
(* these take.                                                               *)

Batch(inss, tys, valuess) == [inss |-> inss, tys |-> tys, valuess |-> valuess]
SourcesOf(b) ==
  {[inputs |-> [i \in DOMAIN b.tys |-> [name |-> In[i], ty |-> b.tys[i]]],
    outputs |-> <<>>, comm |-> FALSE, code |-> <<ins>>] : ins \in b.inss}

One(inss, t) == Batch(inss, <<t>>, {<<x>> : x \in IrValue(t)})
Two(inss, s, t) == Batch(inss, <<s, t>>, IrValue(s) \X IrValue(t))
AnyOf(inss, tys) == Batch(inss, tys, {[i \in DOMAIN tys |-> Default(tys[i])]})

------------------------------------------------------------------------------
(* Unary instructions, on every value.                                       *)

Unary ==
  { G("Neg", 1, 1), G("Inv", 1, 1), G("Not", 1, 1), G("And", 1, 1), G("Assert", 1, 0),
    G("ConstrainToBoolean", 1, 0), G("Copy", 1, 1), G("JubjubScalarFromNative", 1, 1),
    G("TransientHash", 1, 1), G("HashToCurve", 1, 1), G("EcMulGenerator", 1, 1),
    G("IntoCoordinates", 1, 2), G("ToBytes", 1, 1), G("IntoBytes32", 1, 1),
    G("Reverse", 1, 1), G("ReverseBytes", 1, 1), G("Bytes32IntoLowHigh", 1, 2), G("Concat", 1, 1) }
  \cup Sized("ConstrainBits", 1, 0, {<<0>>, <<4>>, <<5>>})
  \cup Sized("DivModPowerOfTwo", 1, 2, {<<0>>, <<3>>, <<4>>, <<5>>})
  \cup Sized("Slice", 1, 1, {<<0, 0>>, <<0, 1>>, <<1, 2>>, <<2, 2>>})
  \cup Sized("Nth", 1, 1, {<<0>>, <<2>>})
  \cup Sized("BytesFromNatives", 1, 1, {<<k>> : k \in 0..3})
  \cup {G("Encode", 1, r) : r \in {0, 1, 2, 4, 5}}
  \cup {G("BytesIntoNatives", 1, r) : r \in 0..2}
  \cup {On(op, 1, 1, t, <<>>) : op \in {"FromBytes", "FromBytes32"},
                                t \in PrimeFields \cup Points \cup {Bool}}

------------------------------------------------------------------------------
(* Two operands: every pair of values of the types the instruction takes.    *)

Alike ==
  {G(op, 2, 1) : op \in {"Add", "Mul", "TestEq", "And", "Or", "Xor", "Concat"}}
    \cup {G("ConstrainEq", 2, 0)}
OnNatives ==
  Sized("LessThan", 2, 1, {<<k>> : k \in {0, 1, 3, 4, 5}})
    \cup Sized("ReconstituteField", 2, 1, {<<k>> : k \in 0..5})
    \cup Sized("BytesFromNatives", 2, 1, {<<k>> : k \in 2..5})
    \cup {G(op, 2, 1) : op \in {"TransientHash", "HashToCurve"}}

Pairs ==
  {Two(Alike, t, t) : t \in IrType \ {Bytes(3), Bytes(4)}}
    \cup {Two(OnNatives, Native, Native)}
    \cup {Two({G("EcMul", 2, 1)}, Point(c), Scalar(c)) : c \in Curves}
    \cup {Two({G("FromCoordinates", 2, 1)}, Base(c), Base(c)) : c \in Curves}
    \cup {Two({G("Bytes32FromLowHigh", 2, 1)}, s, t) :
            s \in {Native, Base("Curve25519")}, t \in {Native, Scalar("Secp256k1")}}
    \cup {Two({G("Concat", 2, 1)}, p[1], p[2]) :
            p \in {<<Bytes(1), Byte>>, <<Byte, Bytes(2)>>}}

\* Instructions that reach Jubjub from natives, beside an input of the curve.
ByJubjub ==
  { Two({G("JubjubScalarFromNative", 1, 1)}, Native, Scalar("Jubjub")),
    Batch({G("FromCoordinates", 2, 1)}, <<Native, Native, Scalar("Jubjub")>>,
          IrValue(Native) \X IrValue(Native) \X {Default(Scalar("Jubjub"))}) }

Select == {G("CondSelect", 3, 1)}
Selections ==
  {Batch(Select, <<Native, t, t>>, {Fr(0), Fr(1), Fr(2)} \X IrValue(t) \X IrValue(t)) :
     t \in {Bool, Byte, Scalar("Jubjub"), Point("Curve25519"), Bytes(1)}}

\* Operands of every two types, one value of each.
Binary ==
  Alike \cup {G(op, 2, 1) : op \in {"EcMul", "FromCoordinates", "Bytes32FromLowHigh", "TransientHash"}}
    \cup {On("LessThan", 2, 1, Native, <<4>>), On("ReconstituteField", 2, 1, Native, <<4>>),
          On("BytesFromNatives", 2, 1, Native, <<3>>)}
Mixed ==
  {AnyOf(Binary, <<s, t>>) : s \in IrType, t \in IrType}
    \cup {AnyOf(Select, <<Native, s, t>>) : s \in IrType, t \in IrType}
    \cup {AnyOf(Select, <<Bool, t, t>>) : t \in IrType}

------------------------------------------------------------------------------
(* Constants: every encoding of at most two elements, and the encodings of   *)
(* the points perturbed in each place.                                       *)

LoadConstant(t, e) ==
  [op |-> "LoadConstant", args |-> <<>>, outs |-> <<"o1">>, ty |-> t, n |-> <<>>, enc |-> e, align |-> <<>>]
ShortEncodings == {<<>>} \cup {<<x>> : x \in 0..16} \cup ((0..16) \X (0..16))
PointEncodings(t) == {Encode(v) : v \in IrValue(t)}
Perturbed(es) ==
  UNION {{[e EXCEPT ![i] = (@ + d) % P] : i \in DOMAIN e, d \in {0, 1, 8}} : e \in es}
\* With an input of a curve, which may or may not be the one of the constant.
Constants(t, c) ==
  AnyOf({LoadConstant(t, e) :
           e \in ShortEncodings \cup IF t \in Points THEN Perturbed(PointEncodings(t)) ELSE {}},
        <<Scalar(c)>>)

------------------------------------------------------------------------------
(* Byte hashes: every alignment of at most two segments on up to three       *)
(* elements, each inside, at and beyond the edges of one and two bytes.      *)

HashOf(op, align, k) ==
  [op |-> op, args |-> [i \in 1..k |-> <<"var", In[i]>>], outs |-> <<"o1">>, ty |-> Native,
   n |-> <<>>, enc |-> <<>>, align |-> align]
Segments == {<<"Field">>, <<"Compress">>, <<"Option", 2>>} \cup {<<"Bytes", k>> : k \in 0..5}
Hashes(k) ==
  {HashOf("PersistentHash", align, k) : align \in SeqOf(Segments, 2)}
    \cup {HashOf(op, <<<<"Bytes", 3>>>>, k) : op \in {"Keccak256", "Sha512"}}
HashBatches ==
  {Batch(Hashes(k), [i \in 1..k |-> Native], [1..k -> {Fr(x) : x \in {0, 3, 4, 7, 15, 16}}])
     : k \in 0..3}
    \cup {AnyOf(Hashes(2), <<Native, t>>) : t \in {Byte, Bytes(1)}}

Cases ==
  {One(Unary, t) : t \in IrType} \cup Pairs \cup ByJubjub \cup Selections \cup Mixed
    \cup {Constants(t, c) : t \in IrType, c \in Curves} \cup HashBatches
==============================================================================
