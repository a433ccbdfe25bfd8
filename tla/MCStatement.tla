----------------------------- MODULE MCStatement -----------------------------
(***************************************************************************)
(* Statement on short single-assignment sources, one or two for each place *)
(* where the circuit is laxer than preprocess, with witnesses that lack    *)
(* names, have names of other types and values, and more or fewer public   *)
(* inputs than the circuit exposes; and on the sources of one value        *)
(* instruction, with the operands of GateCases and nothing else, so that   *)
(* what the instruction makes of them is bound without a comparison.       *)
(***************************************************************************)
EXTENDS Statement, GateCases

ClaimNames == {"x", "y", "z", "w"} \cup GateNames
var(id) == <<"var", id>>
imm(k) == <<"imm", k>>
WithBits(op, args, outs, n) ==
  [op |-> op, args |-> args, outs |-> outs, ty |-> Native, n |-> n, enc |-> <<>>, align |-> <<>>]
Ins(op, args, outs) == WithBits(op, args, outs, <<>>)
Get(op, guard, ty, id) == [Ins(op, guard, <<id>>) EXCEPT !.ty = ty]
Show(args) == Ins("Impact", args, <<>>)

\* Sources on one native input x and at most one read, of y.
Computing ==
  { <<Ins("Assert", <<var("x")>>, <<>>), Show(<<imm(1), var("x")>>)>>,
    <<Ins("ConstrainToBoolean", <<var("x")>>, <<>>), Show(<<var("x"), imm(2)>>)>>,
    <<WithBits("ReconstituteField", <<imm(1), var("x")>>, <<"z">>, <<4>>)>>,
    <<Ins("Not", <<var("x")>>, <<"z">>), Show(<<imm(1), var("z")>>)>>,
    <<Ins("CondSelect", <<var("x"), imm(1), imm(2)>>, <<"z">>), Show(<<imm(1), var("z")>>)>>,
    <<Ins("JubjubScalarFromNative", <<var("x")>>, <<"z">>)>>,
    <<Ins("Copy", <<var("w")>>, <<"z">>)>> }
  \cup {<<WithBits("LessThan", <<var("x"), imm(2)>>, <<"z">>, <<n>>),
          Show(<<imm(1), var("z")>>)>> : n \in {1, 2, 4, 5}}
  \cup {<<WithBits("ConstrainBits", <<var("x")>>, <<>>, <<n>>)>> : n \in {1, 4, 5, 6}}
  \cup {<<WithBits("DivModPowerOfTwo", <<var("x")>>, <<"z", "w">>, <<n>>),
          WithBits("ReconstituteField", <<var("z"), var("w")>>, <<"y">>, <<n>>)>> : n \in {1, 4, 5, 6}}
  \cup {<<[Ins("PersistentHash", [i \in 1..k |-> var("x")], <<"z">>)
             EXCEPT !.align = <<<<"Bytes", 2>>>>]>> : k \in 0..2}
Reading ==
  { <<Get("PublicInput", <<var("x")>>, Native, "y"), Show(<<imm(1), var("y")>>)>>,
    <<Get("PublicInput", <<var("x")>>, Bool, "y"), Ins("Encode", <<var("y")>>, <<"z">>),
      Show(<<var("x"), var("z")>>)>>,
    <<Get("PrivateInput", <<var("x")>>, Bytes(3), "y")>>,
    <<Get("PrivateInput", <<>>, Bytes(3), "y"),
      Ins("BytesIntoNatives", <<var("y")>>, <<"z", "w">>), Show(<<var("x"), var("z"), var("w")>>)>>,
    <<Get("PrivateInput", <<>>, Native, "y"), Show(<<var("y"), var("x")>>),
      Get("PublicInput", <<var("y")>>, Native, "z"), Ins("Add", <<var("x"), var("z")>>, <<"w">>)>>,
    <<Get("PublicInput", <<var("x")>>, Native, "y"), Ins("Not", <<var("y")>>, <<"w">>),
      Get("PublicInput", <<var("w")>>, Native, "z")>>,
    <<Get("PublicInput", <<var("z")>>, Native, "y"), Ins("Copy", <<var("x")>>, <<"z">>)>>,
    <<Get("PrivateInput", <<>>, Native, "y"), Show(<<var("y")>>), Show(<<var("x"), var("y")>>)>> }

Source1(programs) ==
  [inputs : {<<[name |-> "x", ty |-> Native]>>}, outputs : {<<>>}, comm : {FALSE}, code : programs]
Committing ==
  [inputs : {<<[name |-> "x", ty |-> Native]>>}, outputs : {<<Native>>}, comm : {TRUE},
   code : {<<Get("PrivateInput", <<var("x")>>, Native, "y"), Ins("Output", <<var("y")>>, <<>>)>>,
           <<Ins("Output", <<var("x")>>, <<>>), Ins("Output", <<imm(2)>>, <<>>)>>,
           <<Ins("Output", <<var("y")>>, <<>>)>>}]

\* Memories on some of the names.
Memories(xs, ys, zs) ==
  {[id \in DOMAIN m \ {i \in DOMAIN m : m[i] = <<>>} |-> m[id]] :
     m \in [{"x", "y", "z"} -> xs \cup ys \cup zs \cup {<<>>}]}
Holding(xs, ys, zs) ==
  {m \in Memories(xs, ys, zs) :
     /\ "x" \in DOMAIN m => m["x"] \in xs
     /\ "y" \in DOMAIN m => m["y"] \in ys
     /\ "z" \in DOMAIN m => m["z"] \in zs}
Instances == {<<4>> \o s : s \in SeqOf({0, 1, 2}, 2)} \cup {<<>>, <<3>>, <<4, 6, 1>>, <<4, 1, 0, 0>>}
Witnesses(memories, comms) ==
  [memory : memories, pis : Instances, binding : {4}, comm : comms]

XValues == {Fr(k) : k \in {0, 1, 2, 5, 16}} \cup {V(Bool, 1)}
YValues == {Fr(k) : k \in {0, 1, 2}} \cup {V(Bool, k) : k \in {0, 1}}
             \cup {BytesV(bs) : bs \in {<<0, 0, 0>>, <<2, 1, 1>>}}

SmallClaims ==
  { [srcs |-> Source1(Computing), wits |-> Witnesses(Holding(XValues, {Fr(2)}, {Fr(1), Fr(3)}), {<<>>})],
    [srcs |-> Source1(Reading), wits |-> Witnesses(Holding(XValues, YValues, {Fr(0), Fr(1)}), {<<>>})],
    [srcs |-> Committing,
     wits |-> [memory : Holding(XValues, {Fr(0), Fr(3)}, {}), pis : {<<4, c>> : c \in 0..16},
               binding : {4}, comm : {<<>>} \cup {<<c, 3>> : c \in 0..16}]] }

\* A witness of the operands alone.
Operating(vs) ==
  [id \in {In[i] : i \in DOMAIN vs} |-> vs[CHOOSE i \in DOMAIN vs : In[i] = id]]
GateClaims ==
  {[srcs |-> SourcesOf(b),
    wits |-> [memory : {Operating(vs) : vs \in b.valuess}, pis : {<<4>>},
              binding : {4}, comm : {<<>>}]] : b \in Cases}
AllClaims == SmallClaims \cup GateClaims
==============================================================================
