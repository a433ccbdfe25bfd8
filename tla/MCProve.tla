-------------------------------- MODULE MCProve --------------------------------
(***************************************************************************)
(* Prove on the programs of MCPreprocess and on programs aimed at what the *)
(* two halves share: names bound twice, arms that bypass mem_insert,       *)
(* guards that hide an Impact, instructions that reach a curve unannounced.*)
(***************************************************************************)
EXTENDS Prove, MCPreprocess

\* Sources on a byte string x of three bytes and a native z.
Pair == <<[name |-> "x", ty |-> Bytes(3)], [name |-> "z", ty |-> Native]>>
BytesPrograms ==
  { <<Ins("Reverse", <<var("x")>>, <<"x">>)>>,
    <<Ins("Reverse", <<var("x")>>, <<"y">>)>>,
    <<Ins("Reverse", <<var("x")>>, <<"x">>), Ins("Copy", <<var("x")>>, <<"y">>)>>,
    <<Ins("Reverse", <<var("x")>>, <<"y">>), Ins("Reverse", <<var("y")>>, <<"y">>)>>,
    <<Ins("Bytes32IntoLowHigh", <<var("x")>>, <<"z", "y">>),
      Ins("Impact", <<imm(1), var("z")>>, <<>>)>>,
    <<Ins("Bytes32IntoLowHigh", <<var("x")>>, <<"y", "w">>),
      Ins("Bytes32FromLowHigh", <<var("y"), var("w")>>, <<"v">>),
      Ins("ConstrainEq", <<var("x"), var("v")>>, <<>>)>>,
    <<Ins("Impact", <<var("z"), var("x")>>, <<>>)>>,
    <<Ins("Impact", <<var("z"), var("y")>>, <<>>)>>,
    <<Ins("TestEq", <<var("x"), var("x")>>, <<"y">>),
      Ins("Impact", <<var("y"), var("z")>>, <<>>)>>,
    <<Ins("Copy", <<var("z")>>, <<"x">>)>>,
    <<Ins("CondSelect", <<var("z"), var("x"), var("x")>>, <<"y">>)>>,
    <<Gate("FromBytes32", <<var("x")>>, <<"y">>, Scalar("Jubjub"), <<>>, <<>>),
      Ins("EcMulGenerator", <<var("y")>>, <<"w">>)>>,
    <<Gate("LoadConstant", <<>>, <<"y">>, Point("Jubjub"), <<>>, <<0, 1>>)>>,
    <<Gate("LoadConstant", <<>>, <<"y">>, Native, <<>>, <<2>>)>>,
    <<Ins("JubjubScalarFromNative", <<var("z")>>, <<"y">>)>>,
    <<Ins("FromCoordinates", <<var("z"), imm(1)>>, <<"y">>)>>,
    <<Ins("HashToCurve", <<var("z")>>, <<"y">>), Ins("Neg", <<var("y")>>, <<"w">>)>> }
BytesSources ==
  [inputs : {Pair}, outputs : {<<>>}, comm : BOOLEAN, code : BytesPrograms]
BytesStreams ==
  [inputs : {<<a, b, c>> : a \in {0, 6}, b \in {0, 3}, c \in {0, 1, 2}}, binding : {4},
   comm : {<<c, 3>> : c \in 0..16},
   public_in : {<<>>, <<0>>, <<1>>, <<2>>, <<6>>}, public_out : {<<>>}, private : {<<>>}]

ProveNames == Names \cup {"v"}
ProveJobs == SmallJobs \cup {[srcs |-> BytesSources, pres |-> BytesStreams]}

\* An Impact of a byte string, under a guard that is on or off.
HiddenJobs ==
  { [srcs |-> [inputs : {Pair}, outputs : {<<>>}, comm : {FALSE},
               code : {<<Ins("Impact", <<var("z"), var("x")>>, <<>>)>>}],
     pres |-> BytesStreams] }

\* A constant point, and a scalar made from a native, on sources with no other
\* contact with the curve.
UnannouncedJobs ==
  { [srcs |-> [inputs : {Pair}, outputs : {<<>>}, comm : {FALSE},
               code : {<<Gate("LoadConstant", <<>>, <<"y">>, Point("Jubjub"), <<>>, <<0, 1>>)>>,
                       <<Ins("JubjubScalarFromNative", <<var("z")>>, <<"y">>),
                         Ins("EcMulGenerator", <<var("y")>>, <<"w">>)>>}],
     pres |-> BytesStreams] }
==============================================================================
