----------------------------- MODULE MCPreprocess -----------------------------
(***************************************************************************)
(* Small programs for Preprocess: every program of at most MaxRandom        *)
(* instructions from a menu that mixes transcript reads, impacts, guards,  *)
(* rebinding and outputs, and a list of longer programs, each on every     *)
(* preimage made of the small streams below.                               *)
(***************************************************************************)
EXTENDS Preprocess, Scaled

CONSTANT MaxRandom   \* length of the exhaustively enumerated programs

Names == {"x", "y", "z", "w"}
var(id) == <<"var", id>>
imm(k) == <<"imm", k>>
Gate(op, args, outs, ty, n, enc) ==
  [op |-> op, args |-> args, outs |-> outs, ty |-> ty, n |-> n, enc |-> enc, align |-> <<>>]
Ins(op, args, outs) == Gate(op, args, outs, Native, <<>>, <<>>)
Get(op, guard, ty, id) == Gate(op, guard, <<id>>, ty, <<>>, <<>>)

Menu ==
  { Get("PublicInput", <<>>, Native, "y"),
    Get("PublicInput", <<var("x")>>, Bytes(3), "y"),
    Get("PrivateInput", <<var("x")>>, Scalar("Jubjub"), "z"),
    Get("PrivateInput", <<>>, Bool, "z"),
    Ins("Impact", <<imm(1), var("x"), var("y")>>, <<>>),
    Ins("Impact", <<var("x"), var("y")>>, <<>>),
    Ins("Impact", <<var("y")>>, <<>>),
    Ins("Add", <<var("x"), imm(1)>>, <<"y">>),
    Ins("Add", <<var("x"), var("x")>>, <<"x">>),
    Ins("Copy", <<var("y")>>, <<"z">>),
    Ins("Output", <<var("y")>>, <<>>) }

\* Programs with two reads and two impacts around a rebinding or a guard.
Longer ==
  { <<Get("PublicInput", <<>>, Native, "y"), Ins("Impact", <<var("x"), var("y")>>, <<>>),
      Ins("Impact", <<var("y"), imm(2)>>, <<>>), Ins("Output", <<var("y")>>, <<>>)>>,
    <<Ins("Impact", <<var("x"), imm(1)>>, <<>>), Ins("Add", <<var("x"), imm(1)>>, <<"y">>),
      Ins("Impact", <<imm(1), var("y")>>, <<>>), Ins("Output", <<var("y")>>, <<>>)>>,
    <<Get("PublicInput", <<var("x")>>, Native, "y"), Get("PublicInput", <<>>, Native, "z"),
      Ins("Impact", <<var("z"), var("y")>>, <<>>), Ins("Output", <<var("z")>>, <<>>)>>,
    <<Get("PrivateInput", <<var("x")>>, Native, "y"), Get("PublicInput", <<var("y")>>, Native, "z"),
      Ins("Output", <<var("z")>>, <<>>), Ins("Output", <<var("y")>>, <<>>)>>,
    <<Ins("Add", <<var("x"), var("x")>>, <<"x">>), Get("PublicInput", <<var("x")>>, Native, "y"),
      Ins("Impact", <<imm(1), var("x"), var("y")>>, <<>>), Ins("Output", <<var("x")>>, <<>>)>>,
    <<Get("PublicInput", <<>>, Bytes(3), "y"), Ins("BytesIntoNatives", <<var("y")>>, <<"z", "w">>),
      Ins("Impact", <<imm(1), var("z"), var("w")>>, <<>>), Ins("Output", <<var("w")>>, <<>>)>> }

Programs == SeqOf(Menu, MaxRandom) \cup Longer
X(ty) == [name |-> "x", ty |-> ty]

SmallSources ==
  [inputs : {<<X(Native)>>}, outputs : {<<Native>>}, comm : {FALSE}, code : Programs]

Streams(inputs, comms) ==
  [inputs : inputs, binding : {4}, comm : comms,
   public_in : {<<>>, <<0>>, <<2>>, <<1, 2>>, <<2, 2>>},
   public_out : {<<>>, <<1>>, <<1, 0>>, <<1, 2>>, <<13, 3>>, <<3, 5>>},
   private : {<<>>, <<1>>, <<7>>}]

\* The commitment: every claimed value, on typed inputs that rebinding may change.
CommPrograms ==
  { <<Ins("Output", <<var("x")>>, <<>>)>>,
    <<Ins("Add", <<var("x"), imm(1)>>, <<"x">>), Ins("Output", <<var("x")>>, <<>>)>>,
    <<Get("PublicInput", <<>>, Native, "y"), Ins("Output", <<var("y")>>, <<>>)>>,
    <<Get("PrivateInput", <<var("x")>>, Native, "y"), Ins("Output", <<var("y")>>, <<>>),
      Ins("Output", <<var("y")>>, <<>>)>>,
    <<>> }
CommSources ==
  [inputs : {<<>>, <<X(Native)>>, <<X(Bool)>>, <<X(Native), [name |-> "z", ty |-> Bytes(3)]>>},
   outputs : {<<Native>>}, comm : {TRUE}, code : CommPrograms]
Commitments == {<<>>} \cup {<<c, 3>> : c \in 0..16}
CommStreams ==
  [inputs : {<<>>, <<0>>, <<1>>, <<1, 13, 2>>, <<0, 5, 7>>}, binding : {4}, comm : Commitments,
   public_in : {<<>>}, public_out : {<<>>, <<6>>}, private : {<<>>, <<9>>}]

SmallJobs ==
  { [srcs |-> SmallSources, pres |-> Streams({<<>>, <<0>>, <<1>>, <<2>>, <<1, 1>>}, {<<>>})],
    [srcs |-> CommSources, pres |-> CommStreams] }

\* One read, on a transcript that is long enough and on an empty one.
TruncatedJobs ==
  { [srcs |-> [inputs : {<<>>}, outputs : {<<>>}, comm : {FALSE},
               code : {<<Get("PublicInput", <<>>, Native, "y")>>,
                       <<Get("PrivateInput", <<>>, Native, "y")>>}],
     pres |-> Streams({<<>>}, {<<>>})] }
\* One Output, and a second one after it.
OutputJobs ==
  { [srcs |-> [inputs : {<<X(Native)>>}, outputs : {<<Native>>}, comm : {FALSE},
               code : {<<Ins("Output", <<var("x")>>, <<>>)>>,
                       <<Ins("Output", <<var("x")>>, <<>>), Ins("Output", <<var("x")>>, <<>>)>>}],
     pres |-> Streams({<<1>>}, {<<>>})] }
\* A divisor and a modulus put together again at every number of bits.
ReconstituteJobs ==
  { [srcs |-> [inputs : {<<X(Native), [name |-> "z", ty |-> Native]>>}, outputs : {<<>>},
               comm : {FALSE},
               code : {<<Gate("ReconstituteField", <<var("x"), var("z")>>, <<"y">>, Native, <<n>>, <<>>)>>
                         : n \in 0..4}],
     pres |-> {p \in Streams({<<d, m>> : d \in {0, 1, 5}, m \in {0, 1, 3}}, {<<>>}) :
                 p.public_in = <<>> /\ p.public_out = <<>> /\ p.private = <<>>}] }
==============================================================================
