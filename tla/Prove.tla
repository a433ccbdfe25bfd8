--------------------------------- MODULE Prove ---------------------------------
(***************************************************************************)
(* `Zkir::prove` for IrSource (ir.rs): `preprocess` runs the source on the *)
(* preimage, and what it returns is the witness and the instance that the  *)
(* circuit of the same source is synthesised with.  `Zkir::check` is the   *)
(* first half alone.                                                       *)
(***************************************************************************)
EXTENDS Preprocess, Chips

VARIABLES cstatus, cpc, cells, cpis, couts

\* Preprocessed, without the pi_skips that synthesis does not read.
wit == [memory |-> memory, pis |-> pis, binding |-> pre.binding, comm |-> pre.comm]

C == INSTANCE Circuit

\* What synthesis lays out, without the values: where the witness stops it, key
\* generation is still under way.
K == INSTANCE Keygen WITH
       kstatus <- IF cstatus \in C!WitnessStops
                  THEN IF cpis = <<>> THEN "assigning" ELSE "synthesizing"
                  ELSE IF cstatus = "satisfied" THEN "keyed" ELSE cstatus,
       kpc <- cpc,
       ktypes <- [id \in DOMAIN cells |-> cells[id].ty],
       kinst <- Len(cpis),
       kouts <- C!TypesOf(couts)

synthVars == <<cstatus, cpc, cells, cpis, couts>>
proveVars == <<src, pre, status, pc, memory, pis, pi_skips, cur, outputs,
               cstatus, cpc, cells, cpis, couts>>

ProveInit == Init /\ C!CInit

Prepare == Step /\ UNCHANGED synthVars
\* An error of preprocess ends prove; otherwise the circuit follows.
Synthesize == status = "accepted" /\ C!CStep /\ UNCHANGED pvars

Done == status \in {"rejected", "panicked"} \/ cstatus \in C!CStopped
Returned == Done /\ UNCHANGED proveVars

ProveNext == Prepare \/ Synthesize \/ Returned

ProveSpec == ProveInit /\ [][ProveNext]_proveVars
FairProveSpec == ProveSpec /\ WF_proveVars(Prepare) /\ WF_proveVars(Synthesize)
------------------------------------------------------------------------------
(* Properties.                                                               *)

\* The type of the variables of synthesis, with the cells typed by value.
ProveTypeOK ==
  /\ cstatus \in C!CStatuses /\ cpc \in Nat \ {0}
  /\ DOMAIN cells \subseteq Identifier
  /\ \A id \in DOMAIN cells : cells[id] \in IrValue(cells[id].ty)
  /\ cpis \in Seq(Immediates)

\* P5(a) where the circuit has a denotation: when preprocess accepts a
\* single-assignment source, no cell or public input of the circuit differs from
\* those of preprocess and no constraint fails.  The "this is a bug" error of
\* mem_insert and pi_push is dead code, and every gate of the circuit admits and
\* computes what its twin in preprocess admits and computes.
NeverMisaligned ==
  SingleAssignment(src) => cstatus \notin {"misaligned", "unsatisfied"}

\* The types of the operands synthesis has found for instruction i.
CellTypes(i) ==
  [k \in DOMAIN i.args |->
     IF Resolvable(cells, i.args[k]) THEN Resolve(cells, i.args[k]).ty ELSE <<"unbound">>]

\* What preprocess runs and synthesis has no arm for.
SelectsBytes(i) == i.op = "CondSelect" /\ CellTypes(i)[2] \in BytesTypes
TestsLengths(i) ==
  /\ i.op = "TestEq" /\ CellTypes(i)[1] # CellTypes(i)[2]
  /\ {CellTypes(i)[1], CellTypes(i)[2]} \subseteq BytesTypes
HighNotNative(i) == i.op = "Bytes32FromLowHigh" /\ CellTypes(i)[2] # Native
HiddenImpact(i) ==
  i.op = "Impact" /\ ~GuardOpen(i) /\ \E k \in DOMAIN i.args : CellTypes(i)[k] # Native
HashesOption(i) == i.op \in HashOps /\ \E k \in DOMAIN i.align : i.align[k][1] = "Option"
NoArm(i) ==
  SelectsBytes(i) \/ TestsLengths(i) \/ HighNotNative(i) \/ HiddenImpact(i) \/ HashesOption(i)

\* Synthesis of an accepted single-assignment source errs nowhere but at an
\* instruction of that list, and never for want of a value in the witness.
FailuresExplained ==
  SingleAssignment(src) /\ cstatus \in {"failed", "bad_witness"} =>
    cstatus = "failed" /\ NoArm(src.code[cpc])

\* The chip gating misses a curve at three instructions only: everything else
\* that makes a value of a curve has an operand of it, or is inspected.
MissingChipsExplained ==
  cstatus = "no_chip" =>
    \/ src.code[cpc].op \in {"LoadConstant", "JubjubScalarFromNative"}
    \/ /\ src.code[cpc].op = "FromCoordinates"
       /\ \A k \in DOMAIN src.code[cpc].args :
            Resolve(cells, src.code[cpc].args[k]).ty = Native

\* Whatever a source rebinds, a cell holds the value its name has at the end of
\* preprocess: synthesis goes on only over the witness's memory.  It takes every
\* arm to insert its result with mem_insert.
RawFree(s) == \A i \in DOMAIN s.code : s.code[i].op \notin C!RawInsertOps
CellsAligned ==
  RawFree(src) => \A id \in DOMAIN cells : id \in DOMAIN memory /\ cells[id] = memory[id]

\* When a proof of a single-assignment source verifies, the circuit has bound
\* every name that preprocess bound, and its outputs are preprocess's.
SatisfiedComplete ==
  cstatus = "satisfied" /\ SingleAssignment(src) => cells = memory /\ couts = outputs

\* Non-vacuity of O4: what preprocess accepts of a single-assignment source and
\* the circuit proves passes no check of preprocess by the circuit's laxity, so
\* that statement soundness (Statement.tla) covers every honest proof.
HonestNotLax == cstatus = "satisfied" /\ SingleAssignment(src) => ~C!Lax

\* Synthesis is a function of the source (7.5 of the specification document): step
\* by step, what prove lays out with the witness of an accepted run is what key
\* generation lays out without one, cell types, instance and failures included.
\* A gate whose cells have another type than its shape says, or an instance that
\* grows with a guard, would make the keys fit some witnesses only.
LaysOutTheKeyed == K!KSpec

\* Every call of prove returns: preprocess and synthesis both end.
ProveReturns == <>Done
------------------------------------------------------------------------------
(* What the documents say beyond that.                                       *)

\* The three classes of 7.5 of the specification document are the sources said to
\* have no circuit denotation: a CondSelect over bytes (those over JubjubScalar
\* have since got their arm), a DivModPowerOfTwo without two outputs, which
\* preprocess rejects as well, and a curve that used_chips does not see.
DocumentedGap ==
  cstatus = "no_chip" \/ (cstatus = "failed" /\ SelectsBytes(src.code[cpc]))

\* P5(a) as the document states it: outside those classes, whatever preprocess
\* accepts of a single-assignment source, the prover can prove.
AcceptedIsProvable ==
  SingleAssignment(src) /\ cstatus \in C!CStopped => cstatus = "satisfied" \/ DocumentedGap

\* The comment of used_chips: the types of the inputs, the transcript reads and
\* FromBytes tell which types are used in the circuit.
EntryPointsSuffice == cstatus # "no_chip"
==============================================================================
