---------------------------------- MODULE Ir ----------------------------------
(***************************************************************************)
(* The instruction set and the sources of ZKIR v3 (ir.rs), and the memory  *)
(* of named values that both readings of a source, `preprocess` and        *)
(* `circuit`, execute it over.                                             *)
(***************************************************************************)
EXTENDS OffCircuit

CONSTANT Identifier   \* names of variables

ControlOps == {"PublicInput", "PrivateInput", "Impact", "Output"}
Immediates == 0..P - 1
Operand == ({"var"} \X Identifier) \cup ({"imm"} \X Immediates)
Instruction ==
  [op : ValueOps \cup ControlOps, args : Seq(Operand), outs : Seq(Identifier),
   ty : IrType, n : Seq(Nat), enc : Seq(Immediates), align : Seq(Segment)]

\* IrSource; `comm` is do_communications_commitment.
Source ==
  [inputs : Seq([name : Identifier, ty : IrType]), outputs : Seq(IrType),
   comm : BOOLEAN, code : Seq(Instruction)]

\* The operands of an Impact are its guard and then its inputs, those of a
\* transcript read its guard, if it has one.
Guard(ins) == ins.args[1]
ImpactInputs(ins) == Tail(ins.args)

UnaryOps ==
  {"Encode", "Neg", "Inv", "Not", "Assert", "Copy", "ConstrainToBoolean", "ConstrainBits",
   "DivModPowerOfTwo", "JubjubScalarFromNative", "EcMulGenerator", "IntoCoordinates", "ToBytes",
   "IntoBytes32", "FromBytes", "FromBytes32", "Reverse", "ReverseBytes", "Slice", "Nth",
   "BytesIntoNatives", "Bytes32IntoLowHigh"}
BinaryOps ==
  {"Add", "Mul", "ConstrainEq", "TestEq", "LessThan", "ReconstituteField", "EcMul",
   "FromCoordinates", "Bytes32FromLowHigh"}
NoOutput ==
  {"Impact", "Output", "ConstrainEq", "Assert", "ConstrainToBoolean", "ConstrainBits"}
TwoOutputs == {"IntoCoordinates", "Bytes32IntoLowHigh"}
ManyOutputs == {"Encode", "BytesIntoNatives", "DivModPowerOfTwo"}
OneParameter ==
  {"ConstrainBits", "LessThan", "DivModPowerOfTwo", "ReconstituteField", "Nth", "BytesFromNatives"}

\* The shape the fields of each variant of Instruction impose.
WellShaped(ins) ==
  /\ ins.op \in {"PublicInput", "PrivateInput"} => Len(ins.args) \in {0, 1}
  /\ ins.op = "Impact" => ins.args # <<>>
  /\ ins.op \in UnaryOps => Len(ins.args) = 1
  /\ ins.op \in BinaryOps => Len(ins.args) = 2
  /\ ins.op = "CondSelect" => Len(ins.args) = 3
  /\ ins.op \in NoOutput => ins.outs = <<>>
  /\ ins.op \in TwoOutputs => Len(ins.outs) = 2
  /\ ins.op \notin NoOutput \cup TwoOutputs \cup ManyOutputs => Len(ins.outs) = 1
  /\ ins.op \in OneParameter => Len(ins.n) = 1
  /\ ins.op = "Slice" => Len(ins.n) = 2

\* Producer obligation O1: no name is bound twice.
SingleAssignment(s) ==
  /\ \A i, j \in DOMAIN s.inputs : s.inputs[i].name = s.inputs[j].name => i = j
  /\ \A i \in DOMAIN s.code : IsInjective(s.code[i].outs)
  /\ \A i \in DOMAIN s.code, j \in DOMAIN s.inputs :
       s.inputs[j].name \notin ToSet(s.code[i].outs)
  /\ \A i, j \in DOMAIN s.code :
       i # j => ToSet(s.code[i].outs) \cap ToSet(s.code[j].outs) = {}

------------------------------------------------------------------------------
(* Memory: a function from names to values.                                  *)

EmptyMemory == [id \in {} |-> Fr(0)]

Resolvable(m, o) == o[1] = "var" => o[2] \in DOMAIN m
Resolve(m, o) == IF o[1] = "imm" THEN Fr(o[2]) ELSE m[o[2]]
AllResolvable(m, os) == \A i \in DOMAIN os : Resolvable(m, os[i])
ResolveAll(m, os) == [i \in DOMAIN os |-> Resolve(m, os[i])]

\* Mutants of Bind: one that binds the first name only, one that forgets m.
BindFirst(m, ids, vals) ==
  [id \in DOMAIN m \cup ToSet(SubSeq(ids, 1, 1)) |->
     IF id \in ToSet(SubSeq(ids, 1, 1)) THEN vals[1] ELSE m[id]]
BindAfresh(m, ids, vals) ==
  [id \in ToSet(ids) |-> vals[CHOOSE i \in DOMAIN ids : ids[i] = id]]

\* Inserts in order: of two equal names the later value stays.
Bind(m, ids, vals) ==
  [id \in DOMAIN m \cup ToSet(ids) |->
     IF id \in ToSet(ids) THEN vals[CHOOSE i \in DOMAIN ids :
                                      /\ ids[i] = id
                                      /\ \A j \in DOMAIN ids : ids[j] = id => j <= i]
                          ELSE m[id]]
==============================================================================
