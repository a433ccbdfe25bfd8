-------------------------------- MODULE Keygen --------------------------------
(***************************************************************************)
(* `Relation::circuit` for IrSource without a witness, as `k`, `model`,    *)
(* `keygen_vk` and `keygen` (ir.rs) run it: every value is unknown, cells  *)
(* have a type only, and the comparisons with the witness are skipped.     *)
(* What it lays out is the circuit the keys are for: the cells with their  *)
(* types, the public inputs by number, the outputs the commitment hashes.  *)
(* It reads nothing but the source.                                        *)
(***************************************************************************)
EXTENDS Chips

VARIABLES
  src,      \* the source
  kstatus,  \* where synthesis stands
  kpc,      \* next input to assign, then next instruction
  ktypes,   \* name -> type of the cell
  kinst,    \* number of public inputs
  kouts     \* types of the Output instructions

kvars == <<kstatus, kpc, ktypes, kinst, kouts>>

KStatuses == {"assigning", "synthesizing", "failed", "no_chip", "keyed"}

KInit ==
  /\ kstatus = "assigning" /\ kpc = 1
  /\ ktypes = [id \in {} |-> Native] /\ kinst = 0 /\ kouts = <<>>

KStop(s) == kstatus' = s /\ UNCHANGED <<src, kpc, ktypes, kinst, kouts>>

\* An unknown input is assigned at its declared type.
KAssignInput ==
  /\ kstatus = "assigning" /\ kpc <= Len(src.inputs)
  /\ ktypes' = Bind(ktypes, <<src.inputs[kpc].name>>, <<src.inputs[kpc].ty>>)
  /\ kpc' = kpc + 1
  /\ UNCHANGED <<src, kstatus, kinst, kouts>>

KSeedInstance ==
  /\ kstatus = "assigning" /\ kpc > Len(src.inputs)
  /\ kinst' = IF src.comm THEN 2 ELSE 1
  /\ kstatus' = "synthesizing" /\ kpc' = 1
  /\ UNCHANGED <<src, ktypes, kouts>>

KFetch(ops) ==
  kstatus = "synthesizing" /\ kpc <= Len(src.code) /\ src.code[kpc].op \in ops
KInstr == src.code[kpc]
Bound == \A i \in DOMAIN KInstr.args : Resolvable(ktypes, KInstr.args[i])
KTypeOf(o) == IF o[1] = "imm" THEN Native ELSE ktypes[o[2]]
KTypes == [i \in DOMAIN KInstr.args |-> KTypeOf(KInstr.args[i])]

KGate ==
  /\ KFetch(ValueOps)
  /\ LET shapes == IF Bound THEN Shape(KInstr, KTypes) ELSE {}
     IN \/ shapes = {} /\ KStop("failed")
        \/ \E tys \in shapes :
             \/ ~ChipsFor(src, tys) /\ KStop("no_chip")
             \/ /\ ChipsFor(src, tys)
                /\ ktypes' = Bind(ktypes, KInstr.outs, tys)
                /\ kpc' = kpc + 1
                /\ UNCHANGED <<src, kstatus, kinst, kouts>>

\* A transcript read is a cell of the declared type, whatever its guard.
KRead ==
  /\ KFetch({"PublicInput", "PrivateInput"})
  /\ ktypes' = Bind(ktypes, KInstr.outs, <<KInstr.ty>>)
  /\ kpc' = kpc + 1
  /\ UNCHANGED <<src, kstatus, kinst, kouts>>

\* One public input for each input of the Impact, under either guard.
KImpact ==
  /\ KFetch({"Impact"})
  /\ LET native == Bound /\ AllOf(KTypes, Native)
     IN \/ ~native /\ KStop("failed")
        \/ /\ native
           /\ kinst' = kinst + Len(ImpactInputs(KInstr))
           /\ kpc' = kpc + 1
           /\ UNCHANGED <<src, kstatus, ktypes, kouts>>

KOutput ==
  /\ KFetch({"Output"})
  /\ LET typed == Len(KInstr.args) = Len(src.outputs) /\ Bound /\ KTypes = src.outputs
     IN \/ ~typed /\ KStop("failed")
        \/ /\ typed
           /\ kouts' = kouts \o KTypes
           /\ kpc' = kpc + 1
           /\ UNCHANGED <<src, kstatus, ktypes, kinst>>

\* The commitment gadget and the instance column take what is there.
KConstrain ==
  /\ kstatus = "synthesizing" /\ kpc > Len(src.code)
  /\ KStop("keyed")

KStep ==
  \/ KAssignInput \/ KSeedInstance
  \/ KGate \/ KRead \/ KImpact \/ KOutput
  \/ KConstrain

KSpec == KInit /\ [][KStep]_<<src, kvars>>
==============================================================================
