--------------------------------- MODULE Chips ---------------------------------
(***************************************************************************)
(* What both readings of `circuit` (ir_vm.rs), with a witness and without, *)
(* take from the source alone: the curves `used_chips` provides for, and   *)
(* the arms that bind their result without looking at the witness.         *)
(***************************************************************************)
EXTENDS Ir, InCircuit

InspectedTypes(s) ==
  {s.inputs[i].ty : i \in DOMAIN s.inputs} \cup
  {s.code[i].ty : i \in {k \in DOMAIN s.code :
     s.code[k].op \in {"PublicInput", "PrivateInput", "FromBytes", "FromBytes32"}}}

\* Mutant of UsedCurves: HashToCurve is not looked for.
InspectedCurves(s) == UNION {CurveOf(t) : t \in InspectedTypes(s)}
\* used_chips
UsedCurves(s) ==
  (UNION {CurveOf(t) : t \in InspectedTypes(s)}) \cup
  (IF \E i \in DOMAIN s.code : s.code[i].op = "HashToCurve" THEN {"Jubjub"} ELSE {})

\* A cell of a type of a curve is made by the chip of that curve.
ChipsFor(s, tys) == UNION {CurveOf(tys[i]) : i \in DOMAIN tys} \subseteq UsedCurves(s)

\* These arms put their result in the memory without calling mem_insert.
RawInsertOps ==
  {"FromBytes", "FromBytes32", "Reverse", "ReverseBytes",
   "Bytes32IntoLowHigh", "Bytes32FromLowHigh"}
==============================================================================
