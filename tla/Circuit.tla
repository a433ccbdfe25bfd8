-------------------------------- MODULE Circuit --------------------------------
(***************************************************************************)
(* `Relation::circuit` for IrSource (ir_vm.rs): synthesis of the circuit   *)
(* of a source with a known witness.  It assigns the inputs from the       *)
(* witness, walks the instructions again over a memory of cells, compares  *)
(* every cell and public input it makes with those of the witness, and     *)
(* exposes the public inputs.                                              *)
(*                                                                         *)
(* A run stops at the first thing that keeps a proof from verifying:       *)
(*   failed       synthesis returns an error or panics, whatever the       *)
(*                witness,                                                 *)
(*   bad_witness  the same, for what the witness lacks or mistypes,        *)
(*   no_chip      it needs a curve that `used_chips` left out,             *)
(*   misaligned   a cell differs from the witness, "this is a bug",        *)
(*   unsatisfied  a constraint cannot be satisfied; synthesis would go on, *)
(*                but no proof made from it verifies.                      *)
(***************************************************************************)
EXTENDS Chips

VARIABLES
  src,      \* the source
  wit,      \* Preprocessed: the final memory, the public inputs, the binding
            \* input and the commitment, <<>> or <<commitment, randomness>>
  cstatus,  \* where synthesis stands
  cpc,      \* next input to assign, then next instruction
  cells,    \* name -> value of the cell
  cpis,     \* public inputs so far
  couts     \* cells of the Output instructions

cvars == <<cstatus, cpc, cells, cpis, couts>>

\* Where synthesis without the witness goes on.
WitnessStops == {"bad_witness", "misaligned", "unsatisfied"}
CStopped == {"satisfied", "failed", "no_chip"} \cup WitnessStops
CStatuses == {"assigning", "synthesizing"} \cup CStopped

CInit ==
  /\ cstatus = "assigning" /\ cpc = 1
  /\ cells = EmptyMemory /\ cpis = <<>> /\ couts = <<>>

CStop(s) == cstatus' = s /\ UNCHANGED <<cpc, cells, cpis, couts>>

------------------------------------------------------------------------------
(* The two comparisons with the witness.                                     *)

\* Mutant of Aligned: an insert without comparison.
AnyCell(ins, vals) == TRUE

\* mem_insert: a name the witness knows must get the witness's value.
Aligned(ins, vals) ==
  ins.op \notin RawInsertOps =>
    \A i \in DOMAIN ins.outs :
      ins.outs[i] \in DOMAIN wit.memory => wit.memory[ins.outs[i]] = vals[i]

\* pi_push, for each of xs in turn: only the positions the witness has.
PisAligned(xs) ==
  \A i \in DOMAIN xs :
    Len(cpis) + i <= Len(wit.pis) => wit.pis[Len(cpis) + i] = xs[i]

------------------------------------------------------------------------------
(* A missing input is assigned the native zero, and the final value of a     *)
(* rebound one must still have the declared type.                            *)
AssignInput ==
  /\ cstatus = "assigning" /\ cpc <= Len(src.inputs)
  /\ LET id == src.inputs[cpc]
         v == IF id.name \in DOMAIN wit.memory THEN wit.memory[id.name] ELSE Fr(0)
     IN \/ v.ty # id.ty /\ CStop("bad_witness")
        \/ /\ v.ty = id.ty
           /\ cells' = Bind(cells, <<id.name>>, <<v>>)
           /\ cpc' = cpc + 1
           /\ UNCHANGED <<cstatus, cpis, couts>>

\* The binding input and the commitment open the public inputs.
SeedInstance ==
  /\ cstatus = "assigning" /\ cpc > Len(src.inputs)
  /\ LET header == <<wit.binding>> \o (IF src.comm THEN <<wit.comm[1]>> ELSE <<>>)
         present == src.comm => wit.comm # <<>>
     IN \/ ~present /\ CStop("bad_witness")
        \/ present /\ ~PisAligned(header) /\ CStop("misaligned")
        \/ /\ present /\ PisAligned(header)
           /\ cpis' = header
           /\ cstatus' = "synthesizing" /\ cpc' = 1
           /\ UNCHANGED <<cells, couts>>

CFetch(ops) ==
  cstatus = "synthesizing" /\ cpc <= Len(src.code) /\ src.code[cpc].op \in ops
CInstr == src.code[cpc]
Operands == ResolveAll(cells, CInstr.args)
OperandTypes == TypesOf(Operands)

\* Every instruction that only reads and binds cells.
Gate ==
  /\ CFetch(ValueOps)
  /\ LET shapes == IF AllResolvable(cells, CInstr.args)
                   THEN Shape(CInstr, OperandTypes) ELSE {}
     IN \/ shapes = {} /\ CStop("failed")
        \/ \E tys \in shapes :
             \/ ~ChipsFor(src, tys) /\ CStop("no_chip")
             \/ ChipsFor(src, tys) /\ ~Holds(CInstr, Operands) /\ CStop("unsatisfied")
             \/ /\ ChipsFor(src, tys) /\ Holds(CInstr, Operands)
                /\ LET vals == Cells(CInstr, Operands) IN
                   \/ ~Aligned(CInstr, vals) /\ CStop("misaligned")
                   \/ /\ Aligned(CInstr, vals)
                      /\ cells' = Bind(cells, CInstr.outs, vals)
                      /\ cpc' = cpc + 1
                      /\ UNCHANGED <<cstatus, cpis, couts>>

\* Mutant of WitnessRead: it does not go on to the next instruction.
WitnessReadStays ==
  /\ CFetch({"PublicInput", "PrivateInput"})
  /\ LET id == CInstr.outs[1]
         known == id \in DOMAIN wit.memory /\ wit.memory[id].ty = CInstr.ty
     IN \/ ~known /\ CStop("bad_witness")
        \/ /\ known
           /\ cells' = Bind(cells, CInstr.outs, <<wit.memory[id]>>)
           /\ UNCHANGED <<cstatus, cpc, cpis, couts>>

\* A transcript read is a fresh cell with the witness's value: the guard is
\* not looked at and nothing is constrained.
WitnessRead ==
  /\ CFetch({"PublicInput", "PrivateInput"})
  /\ LET id == CInstr.outs[1]
         known == id \in DOMAIN wit.memory /\ wit.memory[id].ty = CInstr.ty
     IN \/ ~known /\ CStop("bad_witness")
        \/ /\ known
           /\ cells' = Bind(cells, CInstr.outs, <<wit.memory[id]>>)
           /\ cpc' = cpc + 1
           /\ UNCHANGED <<cstatus, cpis, couts>>

\* Mutants of PushImpact: no public inputs where the guard is off, and the inputs
\* themselves under either guard.
PushImpactOpen ==
  /\ CFetch({"Impact"})
  /\ LET native == AllResolvable(cells, CInstr.args) /\ AllFr(Operands)
         guard == Head(Operands)
         pushed == IF guard.val = 1 THEN Payloads(Tail(Operands)) ELSE <<>>
     IN \/ ~native /\ CStop("failed")
        \/ native /\ ~BitHolds(guard) /\ CStop("unsatisfied")
        \/ /\ native /\ BitHolds(guard)
           /\ \/ ~PisAligned(pushed) /\ CStop("misaligned")
              \/ /\ PisAligned(pushed)
                 /\ cpis' = cpis \o pushed
                 /\ cpc' = cpc + 1
                 /\ UNCHANGED <<cstatus, cells, couts>>
PushImpactUnselected ==
  /\ CFetch({"Impact"})
  /\ LET native == AllResolvable(cells, CInstr.args) /\ AllFr(Operands)
         pushed == Payloads(Tail(Operands))
     IN \/ ~native /\ CStop("failed")
        \/ native /\ ~BitHolds(Head(Operands)) /\ CStop("unsatisfied")
        \/ /\ native /\ BitHolds(Head(Operands))
           /\ \/ ~PisAligned(pushed) /\ CStop("misaligned")
              \/ /\ PisAligned(pushed)
                 /\ cpis' = cpis \o pushed
                 /\ cpc' = cpc + 1
                 /\ UNCHANGED <<cstatus, cells, couts>>

\* Each input, or zero where the guard is off, becomes a public input.  Unlike
\* in preprocess, the inputs are looked at under either guard.
PushImpact ==
  /\ CFetch({"Impact"})
  /\ LET native == AllResolvable(cells, CInstr.args) /\ AllFr(Operands)
         guard == Head(Operands)
         pushed == [i \in DOMAIN Tail(Operands) |->
                      IF guard.val = 1 THEN Tail(Operands)[i].val ELSE 0]
     IN \/ ~native /\ CStop("failed")
        \/ native /\ ~BitHolds(guard) /\ CStop("unsatisfied")
        \/ /\ native /\ BitHolds(guard)
           /\ \/ ~PisAligned(pushed) /\ CStop("misaligned")
              \/ /\ PisAligned(pushed)
                 /\ cpis' = cpis \o pushed
                 /\ cpc' = cpc + 1
                 /\ UNCHANGED <<cstatus, cells, couts>>

\* Mutant of OutputCells: a second Output replaces the values of the first.
LastOutputCells ==
  /\ CFetch({"Output"})
  /\ LET typed == /\ Len(CInstr.args) = Len(src.outputs)
                  /\ AllResolvable(cells, CInstr.args)
                  /\ OperandTypes = src.outputs
     IN \/ ~typed /\ CStop("failed")
        \/ /\ typed
           /\ couts' = Operands
           /\ cpc' = cpc + 1
           /\ UNCHANGED <<cstatus, cells, cpis>>

OutputCells ==
  /\ CFetch({"Output"})
  /\ LET typed == /\ Len(CInstr.args) = Len(src.outputs)
                  /\ AllResolvable(cells, CInstr.args)
                  /\ OperandTypes = src.outputs
     IN \/ ~typed /\ CStop("failed")
        \/ /\ typed
           /\ couts' = couts \o Operands
           /\ cpc' = cpc + 1
           /\ UNCHANGED <<cstatus, cells, cpis>>

\* The in-circuit commitment: randomness, the present cells of the inputs (an
\* unbound one is passed over) and the outputs.
CommittedInputs ==
  FlattenSeq([i \in DOMAIN src.inputs |->
    IF src.inputs[i].name \in DOMAIN cells THEN <<cells[src.inputs[i].name]>> ELSE <<>>])
CircuitCommitment ==
  Poseidon(<<wit.comm[2]>> \o EncodeAll(CommittedInputs) \o EncodeAll(couts))

\* The public inputs must be those of the instance, the witness's pis.
ConstrainInstance ==
  /\ cstatus = "synthesizing" /\ cpc > Len(src.code)
  /\ LET ok == (src.comm => CircuitCommitment = cpis[2]) /\ cpis = wit.pis
     IN CStop(IF ok THEN "satisfied" ELSE "unsatisfied")

------------------------------------------------------------------------------
(* Where the constraints are weaker than the checks of preprocess.           *)

\* The names bound when synthesis comes to instruction k.
NamesBefore(k) ==
  {src.inputs[i].name : i \in DOMAIN src.inputs}
    \cup UNION {ToSet(src.code[i].outs) : i \in 1..k - 1}

\* The guard of a read at k as preprocess would find it: unbound or not a bit,
\* or off while the cell is not the default.
LaxRead(k) ==
  LET i == src.code[k]
      g == Guard(i)
      early == g[1] = "var" => g[2] \in NamesBefore(k)
  IN /\ i.op \in {"PublicInput", "PrivateInput"} /\ i.args # <<>>
     /\ \/ ~early
        \/ ~IsBit(Resolve(cells, g))
        \/ Resolve(cells, g) = Fr(0) /\ cells[i.outs[1]] # Default(i.ty)

\* A check of preprocess that nothing in the circuit of instruction k implies.
LaxAt(k) ==
  LET i == src.code[k]
      a == ResolveAll(cells, i.args)
  IN \/ i.op = "Assert" /\ a[1].val # 1
     \/ /\ i.op \in {"ConstrainBits", "LessThan"}
        /\ i.n[1] >= FR_BITS \/ \E j \in DOMAIN a : a[j].val >= 2^i.n[1]
     \/ i.op \in {"DivModPowerOfTwo", "ReconstituteField"} /\ i.n[1] > SplitBits
     \/ i.op = "ReconstituteField" /\ i.n[1] = 0   \* the divisor would have FR_BITS bits
     \/ i.op \in HashOps /\ AlignedWidth(i.align) < Len(i.args)
     \/ LaxRead(k)
Lax == \E k \in DOMAIN src.code : LaxAt(k)

CStep ==
  \/ AssignInput \/ SeedInstance
  \/ Gate \/ WitnessRead \/ PushImpact \/ OutputCells
  \/ ConstrainInstance
==============================================================================
