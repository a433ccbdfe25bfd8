------------------------------- MODULE MCCodec -------------------------------
(***************************************************************************)
(* Documents for Codec: every type in every spelling near the bounds,      *)
(* every kind of string as an operand and as a constant, every version     *)
(* near the ones that exist, in both forms.                                *)
(***************************************************************************)
EXTENDS Codec, Scaled

\* The four curves; the codec looks at no coordinates.
CodecCurves == SmallCurves \cup {"Secp256r1"}
OnK1(f) == [c \in CodecCurves |-> IF c = "Secp256r1" THEN f["Secp256k1"] ELSE f[c]]
CodecWeierstrass == SmallWeierstrass \cup {"Secp256r1"}
CodecBaseMod == OnK1(SmallBaseMod)
CodecScalarMod == OnK1(SmallScalarMod)
CodecCoord == OnK1(SmallCoord)

CodecTexts ==
  {t \in [neg : BOOLEAN, mark : {"%", "0x", "0X", "other"}, half : BOOLEAN,
          rest : {<<>>, <<0>>, <<1>>, <<0, 0, 1>>, <<1, 0, 1>>, <<3, 1, 0>>, <<1, 0>>}] :
     t.mark \notin {"0x", "0X"} => ~t.half /\ t.rest = <<1>>}
Name == [neg |-> FALSE, mark |-> "%", rest |-> <<1>>, half |-> FALSE]
Seven == [neg |-> FALSE, mark |-> "0x", rest |-> <<3, 1>>, half |-> FALSE]

TypeTexts ==
  {PrintType(t) : t \in FixedTypes} \cup {[name |-> <<"unknown">>, digits |-> <<>>]} \cup
  {[name |-> <<"Bytes">>, digits |-> d] :
     d \in UNION {[1..n -> {0, 1, 2, 3, NonDigit}] : n \in 0..2} \cup {<<1, 2, 3>>, <<0, 0, 3>>}}
TypeTokens ==
  {[tag |-> d, len |-> <<>>] : d \in (0..17) \ {BytesTag}} \cup
  {[tag |-> BytesTag, len |-> <<n>>] : n \in 0..MAX_BYTES_LEN + 1}

\* A source of one input, one output and one instruction with two operands and
\* one entry of a constant.
Document(v, t, args, enc) ==
  [version |-> v, inputs |-> <<[name |-> Name, ty |-> t]>>, outputs |-> <<t>>, comm |-> FALSE,
   code |-> <<[op |-> "LoadConstant", args |-> args, outs |-> <<Name>>, ty |-> t,
               n |-> <<>>, enc |-> enc, align |-> <<>>]>>]

NativeText == PrintType(Native)
SmallJson ==
  {Document(v, t, <<Name, Seven>>, <<Seven>>) :
     v \in {<<3, 0>>, <<3, 2>>}, t \in TypeTexts} \cup
  {Document(v, NativeText, <<Seven>>, <<>>) :
     v \in {<<>>, <<2>>} \cup ({2, 3} \X {0, 1, 2, 3})} \cup
  {Document(<<3, 1>>, NativeText, <<Name, x>>, <<y>>) : x, y \in CodecTexts}
SmallBinary ==
  {Document(2, t, <<[tag |-> 0, text |-> Name]>>, <<16>>) : t \in TypeTokens} \cup
  {Document(v, WriteType(Bytes(FrBytes)), <<[tag |-> g, text |-> x]>>, <<>>) :
     v \in 0..3, g \in 0..2, x \in CodecTexts}
==============================================================================
