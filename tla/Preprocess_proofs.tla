--------------------------- MODULE Preprocess_proofs ---------------------------
(***************************************************************************)
(* Theorems about Preprocess for every source, preimage, field and curve:  *)
(* type correctness, the exact domain of the memory, the types of its      *)
(* values, the layout of the public inputs, the monotonicity of a run, and *)
(* what a run has consumed.  The first two and the monotonicity follow     *)
(* from one inductive invariant, IInv, which adds where the run stands:    *)
(* nothing is a public input before the seeding, the header is one after   *)
(* it, and pc stays within the inputs or the code.  ValueInv adds the      *)
(* types of values to it, by the lemmas of Gates_proofs, and LayoutInv     *)
(* what the public inputs are made of so far.                              *)
(*                                                                         *)
(* The memory of a single-assignment run determines all it has consumed.   *)
(* ReplayInv adds to IInv where the cursors stand, that the pieces taken   *)
(* are field elements, and that the operands of the reads and impacts      *)
(* executed so far are bound, so that no later binding changes what the    *)
(* replay makes of them; AcceptInv says the same at the end of a run.      *)
(* TraceInv is what synthesis starts from: the memory satisfies all that   *)
(* the instructions executed have checked, and holds what they have bound. *)
(***************************************************************************)
EXTENDS Preprocess, Gates_proofs

\* Where the run stands, as pc and pis tell it.
Stage ==
  /\ status = "decoding" => pis = <<>> /\ pc <= Len(src.inputs) + 1
  /\ status = "executing" => pis # <<>> /\ pc <= Len(src.code) + 1
IInv == TypeOK /\ Stage /\ DomainExact

------------------------------------------------------------------------------
(* The jobs.                                                                 *)

\* What the assumption on Jobs says of the source and the preimage of a state.
LEMMA JobTypes ==
  ASSUME TypeOK
  PROVE  /\ src \in Source /\ pre \in Preimage /\ Len(pre.comm) \in {0, 2}
         /\ \A i \in DOMAIN src.code : WellShaped(src.code[i])
  BY JobsAssumption DEF TypeOK

------------------------------------------------------------------------------
(* Sequences and memories.                                                   *)

LEMMA TakenIsSeq ==
  ASSUME NEW S, NEW s \in Seq(S), NEW at \in Nat, NEW w \in Nat, Available(s, at, w)
  PROVE  Taken(s, at, w) \in Seq(S)
<1>1. \A i \in at + 1 .. at + w : s[i] \in S
  BY ElementOfSeq, LenProperties DEF Available
<1> QED
  BY <1>1, SubSeqProperties DEF Taken

LEMMA ZerosIsSeq ==
  ASSUME NEW n \in Nat
  PROVE  Zeros(n) \in Seq(Immediates)
<1>1. 0 \in Immediates
  BY FieldAssumption DEF Immediates
<1> QED
  BY <1>1, IsASeq DEF Zeros

------------------------------------------------------------------------------
(* Type correctness.                                                         *)

\* The parts of an instruction under the program counter.
LEMMA InstrTypes ==
  ASSUME TypeOK, pc <= Len(src.code)
  PROVE  /\ Instr.outs \in Seq(Identifier) /\ Instr.args \in Seq(Operand)
         /\ Instr.ty \in IrType /\ pc \in DOMAIN src.code
         /\ WellShaped(Instr)
<1>1. src.code \in Seq(Instruction) /\ pc \in Nat \ {0}
  BY JobTypes DEF Source, TypeOK
<1>2. pc \in DOMAIN src.code /\ src.code[pc] \in Instruction
  BY <1>1, ElementOfSeq, LenProperties
<1> QED
  BY <1>2, JobTypes DEF Instr, Instruction

LEMMA TypeInit == Init => TypeOK
<1> SUFFICES ASSUME Init PROVE TypeOK
  OBVIOUS
<1>1. memory = [id \in DOMAIN memory |-> memory[id]] /\ DOMAIN memory \subseteq Identifier
  BY DEF Init, EmptyMemory
<1>2. pis \in Seq(Immediates) /\ pi_skips \in Seq(Seq(Nat))
  BY EmptySeq DEF Init
<1> QED
  BY <1>1, <1>2 DEF Init, TypeOK, Statuses

LEMMA TypeStop ==
  ASSUME TypeOK, NEW s \in Statuses, Stop(s)
  PROVE  TypeOK'
  BY DEF TypeOK, Stop

LEMMA TypeReject ==
  ASSUME TypeOK, Reject
  PROVE  TypeOK'
  BY TypeStop DEF Reject, Statuses, Final

\* Binding names in the memory leaves it a memory.
LEMMA TypeBind ==
  ASSUME TypeOK, NEW ids \in Seq(Identifier), NEW vals, memory' = Bind(memory, ids, vals)
  PROVE  memory' = [id \in DOMAIN memory' |-> memory'[id]] /\ DOMAIN memory' \subseteq Identifier
<1>1. DOMAIN memory' = DOMAIN memory \cup ToSet(ids)
  BY BindProperties
<1>2. memory' = [id \in DOMAIN memory' |-> memory'[id]]
  BY DEF Bind
<1> QED
  BY <1>1, <1>2, ToSetSubset DEF TypeOK

LEMMA TypeDecodeInput ==
  ASSUME TypeOK, DecodeInput
  PROVE  TypeOK'
<1> DEFINE id == src.inputs[pc]
           w == encoded_len(id.ty)
<1>1. id.name \in Identifier /\ id.ty \in IrType
  <2>1. src.inputs \in Seq([name : Identifier, ty : IrType]) /\ pc \in Nat \ {0}
    BY JobTypes DEF Source, TypeOK
  <2>2. pc \in 1..Len(src.inputs)
    BY <2>1, LenProperties DEF DecodeInput
  <2>3. id \in [name : Identifier, ty : IrType]
    BY <2>1, <2>2, ElementOfSeq
  <2> QED
    BY <2>3
<1>2. w \in Nat
  BY <1>1, EncodedLenNat
<1>3. CASE Reject
  BY <1>3, TypeReject
<1>4. ASSUME NEW v, memory' = Bind(memory, <<id.name>>, <<v>>),
             cur' = [cur EXCEPT !["raw"] = @ + w], pc' = pc + 1,
             UNCHANGED <<src, pre, status, pis, pi_skips, outputs>>
      PROVE  TypeOK'
  <2>1. <<id.name>> \in Seq(Identifier)
    BY <1>1
  <2>2. memory' = [i \in DOMAIN memory' |-> memory'[i]] /\ DOMAIN memory' \subseteq Identifier
    BY <2>1, <1>4, TypeBind
  <2>3. cur' \in [StreamNames -> Nat]
    BY <1>2, <1>4 DEF TypeOK, StreamNames
  <2>4. src' = src /\ pre' = pre /\ status' = status /\ pc' = pc + 1
          /\ pis' = pis /\ pi_skips' = pi_skips
    BY <1>4
  <2> QED
    BY <2>2, <2>3, <2>4 DEF TypeOK
<1> QED
  BY <1>3, <1>4 DEF DecodeInput

LEMMA TypeSeed ==
  ASSUME TypeOK, SeedPublicInputs
  PROVE  TypeOK'
<1>1. CASE Reject
  BY <1>1, TypeReject
<1>2. CASE /\ src.comm => pre.comm # <<>>
           /\ pis' = <<pre.binding>> \o (IF src.comm THEN <<pre.comm[1]>> ELSE <<>>)
           /\ status' = "executing" /\ pc' = 1
           /\ UNCHANGED <<src, pre, memory, pi_skips, cur, outputs>>
  <2>1. pre.binding \in Immediates /\ pre.comm \in Seq(Immediates)
    BY JobTypes DEF Preimage
  <2>2. src.comm => pre.comm[1] \in Immediates
    BY <1>2, <2>1, EmptySeq, ElementOfSeq, JobTypes
  <2>3. pis' \in Seq(Immediates)
    BY <1>2, <2>1, <2>2, ConcatProperties
  <2> QED
    BY <1>2, <2>3 DEF TypeOK, Statuses
<1> QED
  BY <1>1, <1>2 DEF SeedPublicInputs

LEMMA TypeCompute ==
  ASSUME TypeOK, Compute
  PROVE  TypeOK'
<1>1. CASE Reject
  BY <1>1, TypeReject
<1>2. ASSUME NEW vals, memory' = Bind(memory, Instr.outs, vals), pc' = pc + 1,
             UNCHANGED <<src, pre, status, pis, pi_skips, cur, outputs>>
      PROVE  TypeOK'
  <2>1. Instr.outs \in Seq(Identifier)
    BY InstrTypes DEF Compute
  <2>2. memory' = [i \in DOMAIN memory' |-> memory'[i]] /\ DOMAIN memory' \subseteq Identifier
    BY <2>1, <1>2, TypeBind
  <2> QED
    BY <1>2, <2>2 DEF TypeOK
<1> QED
  BY <1>1, <1>2 DEF Compute

LEMMA TypeRead ==
  ASSUME TypeOK, NEW op, NEW stream \in {"public_out", "private"}, Read(op, stream)
  PROVE  TypeOK'
<1>0. Instr.outs \in Seq(Identifier) /\ encoded_len(Instr.ty) \in Nat
  BY InstrTypes, EncodedLenNat DEF Read, Fetch
<1>1. CASE Reject
  BY <1>1, TypeReject
<1>2. CASE Stop("panicked")
  BY <1>2, TypeStop DEF Statuses, Final
<1>3. ASSUME NEW v, memory' = Bind(memory, Instr.outs, <<v>>), pc' = pc + 1,
             \/ cur' = cur
             \/ cur' = [cur EXCEPT ![stream] = @ + encoded_len(Instr.ty)],
             UNCHANGED <<src, pre, status, pis, pi_skips, outputs>>
      PROVE  TypeOK'
  <2>1. memory' = [i \in DOMAIN memory' |-> memory'[i]] /\ DOMAIN memory' \subseteq Identifier
    BY <1>0, <1>3, TypeBind
  <2>2. cur' \in [StreamNames -> Nat]
    BY <1>0, <1>3 DEF TypeOK, StreamNames
  <2> QED
    BY <1>3, <2>1, <2>2 DEF TypeOK
<1> QED
  BY <1>1, <1>2, <1>3 DEF Read

\* The number of inputs of an Impact.
LEMMA ImpactCount ==
  ASSUME TypeOK, Fetch("Impact")
  PROVE  Len(ImpactInputs(Instr)) \in Nat
<1>1. Instr.args \in Seq(Operand) /\ Instr.args # <<>>
  BY InstrTypes DEF Fetch, Instr, WellShaped
<1> QED
  BY <1>1, HeadTailProperties, LenProperties DEF ImpactInputs

LEMMA TypeImpactSkipped ==
  ASSUME TypeOK, ImpactSkipped
  PROVE  TypeOK'
<1> DEFINE n == Len(ImpactInputs(Instr))
<1>1. n \in Nat
  BY ImpactCount DEF ImpactSkipped
<1>2. pis' = pis \o Zeros(n) /\ pi_skips' = Append(pi_skips, <<n>>) /\ pc' = pc + 1
      /\ UNCHANGED <<src, pre, status, memory, cur, outputs>>
  BY DEF ImpactSkipped
<1>3. pis' \in Seq(Immediates)
  BY <1>1, <1>2, ZerosIsSeq, ConcatProperties DEF TypeOK
<1>4. pi_skips' \in Seq(Seq(Nat))
  BY <1>1, <1>2 DEF TypeOK
<1> QED
  BY <1>2, <1>3, <1>4 DEF TypeOK

\* What an active Impact publishes is a slice of the public transcript.
LEMMA TypeImpactActive ==
  ASSUME TypeOK, ImpactActive
  PROVE  TypeOK'
<1> DEFINE n == Len(ImpactInputs(Instr))
           computed == Payloads(ResolveAll(memory, ImpactInputs(Instr)))
<1>1. n \in Nat
  BY ImpactCount DEF ImpactActive
<1>2. CASE Reject
  BY <1>2, TypeReject
<1>3. CASE /\ Available(pre.public_in, cur.public_in, n)
           /\ Taken(pre.public_in, cur.public_in, n) = computed
           /\ pis' = pis \o computed
           /\ pi_skips' = Append(pi_skips, <<>>)
           /\ cur' = [cur EXCEPT !["public_in"] = @ + n]
           /\ pc' = pc + 1
           /\ UNCHANGED <<src, pre, status, memory, outputs>>
  <2>1. pre.public_in \in Seq(Immediates) /\ cur.public_in \in Nat
    BY JobTypes DEF Preimage, TypeOK, StreamNames
  <2>2. computed \in Seq(Immediates)
    BY <1>1, <1>3, <2>1, TakenIsSeq
  <2>3. pis' \in Seq(Immediates)
    BY <1>3, <2>2, ConcatProperties DEF TypeOK
  <2>4. pi_skips' \in Seq(Seq(Nat))
    BY <1>3, EmptySeq DEF TypeOK
  <2>5. cur' \in [StreamNames -> Nat]
    BY <1>1, <1>3 DEF TypeOK, StreamNames
  <2>6. src' = src /\ pre' = pre /\ status' = status /\ memory' = memory /\ pc' = pc + 1
    BY <1>3
  <2> QED
    BY <2>3, <2>4, <2>5, <2>6 DEF TypeOK
<1> QED
  BY <1>2, <1>3 DEF ImpactActive

LEMMA TypeOutput ==
  ASSUME TypeOK, OutputValues
  PROVE  TypeOK'
<1>1. CASE Reject
  BY <1>1, TypeReject
<1>2. CASE pc' = pc + 1 /\ UNCHANGED <<src, pre, status, memory, pis, pi_skips, cur>>
  BY <1>2 DEF TypeOK
<1> QED
  BY <1>1, <1>2 DEF OutputValues

LEMMA TypeFinish ==
  ASSUME TypeOK, Finish
  PROVE  TypeOK'
  BY TypeReject, TypeStop DEF Finish, Statuses, Final

LEMMA TypeNext ==
  ASSUME TypeOK, [Next]_pvars
  PROVE  TypeOK'
<1>1. CASE UNCHANGED pvars
  BY <1>1 DEF pvars, TypeOK
<1>2. CASE Step
  BY <1>2, TypeDecodeInput, TypeSeed, TypeCompute, TypeRead, TypeImpactSkipped,
     TypeImpactActive, TypeOutput, TypeFinish DEF Step, ReadPublic, ReadPrivate
<1> QED
  BY <1>1, <1>2 DEF Next, Terminated

\* Every variable of preprocess keeps its type, whatever the source and the
\* preimage: the public inputs are field elements although the operands of an
\* Impact are untyped, because an active one matches a slice of its transcript.
THEOREM TypeCorrect == Spec => []TypeOK
  BY TypeInit, TypeNext, PTL DEF Spec

------------------------------------------------------------------------------
(* The domain of the memory.                                                 *)

LEMMA DomainInit == Init => IInv
<1> SUFFICES ASSUME Init PROVE IInv
  OBVIOUS
<1>1. TypeOK
  BY TypeInit
<1>2. Executed = 0 /\ Decoded = 0 /\ DOMAIN memory = {}
  BY DEF Init, Executed, Decoded, Seeded, EmptyMemory
<1>3. DomainExact
  BY <1>2 DEF DomainExact
<1>4. Stage
  BY JobTypes, <1>1, LenProperties DEF Init, Stage, Source
<1> QED
  BY <1>1, <1>3, <1>4 DEF IInv

LEMMA DomainHalt ==
  ASSUME IInv, NEW s \in Final, Stop(s)
  PROVE  Stage' /\ DomainExact'
  BY DEF IInv, Final, Stop, Stage, DomainExact, Executed, Decoded, Seeded

LEMMA DomainReject ==
  ASSUME IInv, Reject
  PROVE  Stage' /\ DomainExact'
  BY DomainHalt DEF Reject, Final

\* An instruction that is executed binds its outputs and nothing else.
LEMMA DomainAdvance ==
  ASSUME IInv, status = "executing", pc <= Len(src.code),
         src' = src, status' = status, pc' = pc + 1, pis' # <<>>,
         DOMAIN memory' = DOMAIN memory \cup ToSet(Instr.outs)
  PROVE  Stage' /\ DomainExact'
<1>1. pc \in Nat \ {0} /\ pis # <<>>
  BY DEF IInv, TypeOK, Stage
<1>2. Executed = pc - 1 /\ Decoded = Len(src.inputs)
  BY <1>1 DEF Executed, Decoded, Seeded
<1>3. Executed' = pc /\ Decoded' = Len(src.inputs)
  BY <1>1 DEF Executed, Decoded, Seeded
<1>4. ASSUME NEW x
      PROVE  (\E i \in 1..pc : x \in ToSet(src.code[i].outs))
               <=> (\E i \in 1..pc - 1 : x \in ToSet(src.code[i].outs)) \/ x \in ToSet(Instr.outs)
  <2>1. 1..pc = (1..pc - 1) \cup {pc}
    BY <1>1
  <2> QED
    BY <2>1, Zenon DEF Instr
<1>5. DomainExact'
  <2> DEFINE names == {src.inputs[i].name : i \in 1..Len(src.inputs)}
  <2>1. ASSUME NEW x
        PROVE  x \in DOMAIN memory'
                 <=> x \in names \/ \E i \in 1..pc : x \in ToSet(src.code[i].outs)
    BY <1>2, <1>4, Zenon DEF IInv, DomainExact
  <2>2. DOMAIN memory' = names \cup UNION {ToSet(src.code[i].outs) : i \in 1..pc}
    BY <2>1, Zenon
  <2> QED
    BY <1>3, <2>2 DEF DomainExact
<1>6. Stage'
  <2>1. Len(src.code) \in Nat
    BY JobTypes, LenProperties DEF IInv, Source
  <2> QED
    BY <1>1, <2>1 DEF Stage
<1> QED
  BY <1>5, <1>6

LEMMA DomainDecodeInput ==
  ASSUME IInv, DecodeInput
  PROVE  Stage' /\ DomainExact'
<1> DEFINE id == src.inputs[pc]
<1>1. CASE Reject
  BY <1>1, DomainReject
<1>2. ASSUME NEW v, memory' = Bind(memory, <<id.name>>, <<v>>), pc' = pc + 1,
             src' = src, status' = status, pis' = pis
      PROVE  Stage' /\ DomainExact'
  <2>1. status = "decoding" /\ pis = <<>> /\ pc \in Nat \ {0} /\ pc <= Len(src.inputs)
    BY DEF DecodeInput, IInv, Stage, TypeOK
  <2>2. Executed = 0 /\ Decoded = pc - 1 /\ Executed' = 0 /\ Decoded' = pc
    BY <1>2, <2>1 DEF Executed, Decoded, Seeded
  <2>3. ToSet(<<id.name>>) = {id.name}
    BY DEF ToSet
  <2>4. DOMAIN memory' = DOMAIN memory \cup {id.name}
    <3>1. DOMAIN Bind(memory, <<id.name>>, <<v>>) = DOMAIN memory \cup ToSet(<<id.name>>)
      BY BindProperties
    <3> QED
      BY <1>2, <2>3, <3>1
  <2>5. {src.inputs[i].name : i \in 1..pc} = {src.inputs[i].name : i \in 1..pc - 1} \cup {id.name}
    BY <2>1
  <2>6. DomainExact'
    BY <1>2, <2>2, <2>4, <2>5 DEF IInv, DomainExact
  <2>7. Len(src.inputs) \in Nat
    BY JobTypes, LenProperties DEF IInv, Source
  <2>8. Stage'
    BY <1>2, <2>1, <2>7 DEF Stage
  <2> QED
    BY <2>6, <2>8
<1> QED
  BY <1>1, <1>2 DEF DecodeInput

LEMMA DomainSeed ==
  ASSUME IInv, SeedPublicInputs
  PROVE  Stage' /\ DomainExact'
<1>1. CASE Reject
  BY <1>1, DomainReject
<1>2. CASE /\ pis' = <<pre.binding>> \o (IF src.comm THEN <<pre.comm[1]>> ELSE <<>>)
           /\ status' = "executing" /\ pc' = 1
           /\ UNCHANGED <<src, pre, memory, pi_skips, cur, outputs>>
  <2>1. /\ status = "decoding" /\ pis = <<>> /\ pc \in Nat \ {0}
        /\ pc > Len(src.inputs) /\ pc <= Len(src.inputs) + 1
    BY DEF SeedPublicInputs, IInv, Stage, TypeOK
  <2>2. Len(src.inputs) \in Nat /\ Len(src.code) \in Nat
    BY JobTypes, LenProperties DEF IInv, Source
  <2>3. pis' # <<>>
    BY <1>2
  <2>4. Executed = 0 /\ Decoded = Len(src.inputs) /\ Executed' = 0 /\ Decoded' = Len(src.inputs)
    BY <1>2, <2>1, <2>2, <2>3 DEF Executed, Decoded, Seeded
  <2>5. DomainExact'
    BY <1>2, <2>4 DEF IInv, DomainExact
  <2>6. Stage'
    BY <1>2, <2>2, <2>3 DEF Stage
  <2> QED
    BY <2>5, <2>6
<1> QED
  BY <1>1, <1>2 DEF SeedPublicInputs

LEMMA DomainCompute ==
  ASSUME IInv, Compute
  PROVE  Stage' /\ DomainExact'
<1>1. CASE Reject
  BY <1>1, DomainReject
<1>2. ASSUME NEW vals, memory' = Bind(memory, Instr.outs, vals), pc' = pc + 1,
             src' = src, status' = status, pis' = pis
      PROVE  Stage' /\ DomainExact'
  <2>1. DOMAIN memory' = DOMAIN memory \cup ToSet(Instr.outs)
    BY <1>2, BindProperties
  <2>2. status = "executing" /\ pc <= Len(src.code) /\ pis # <<>>
    BY DEF Compute, IInv, Stage
  <2> QED
    BY <1>2, <2>1, <2>2, DomainAdvance
<1> QED
  BY <1>1, <1>2 DEF Compute

LEMMA DomainRead ==
  ASSUME IInv, NEW op, NEW stream, Read(op, stream)
  PROVE  Stage' /\ DomainExact'
<1>1. CASE Reject
  BY <1>1, DomainReject
<1>2. CASE Stop("panicked")
  BY <1>2, DomainHalt DEF Final
<1>3. ASSUME NEW v, memory' = Bind(memory, Instr.outs, <<v>>), pc' = pc + 1,
             src' = src, status' = status, pis' = pis
      PROVE  Stage' /\ DomainExact'
  <2>1. DOMAIN memory' = DOMAIN memory \cup ToSet(Instr.outs)
    BY <1>3, BindProperties
  <2>2. status = "executing" /\ pc <= Len(src.code) /\ pis # <<>>
    BY DEF Read, Fetch, IInv, Stage
  <2> QED
    BY <1>3, <2>1, <2>2, DomainAdvance
<1> QED
  BY <1>1, <1>2, <1>3 DEF Read

\* Impact and Output bind nothing.
LEMMA DomainNoOutputs ==
  ASSUME IInv, NEW op \in {"Impact", "Output"}, Fetch(op), NEW xs, pis' = pis \o xs,
         xs \in Seq(Immediates),
         pc' = pc + 1, src' = src, status' = status, memory' = memory
  PROVE  Stage' /\ DomainExact'
<1>1. status = "executing" /\ pc <= Len(src.code)
  BY DEF Fetch
<1>2. ToSet(Instr.outs) = {}
  <2>1. Instr.outs = <<>>
    BY <1>1, InstrTypes, NoOutputShape DEF IInv, Fetch, Instr
  <2> QED
    BY <2>1 DEF ToSet
<1>3. pis' # <<>>
  BY ConcatSimplifications DEF IInv, TypeOK, Stage, Fetch
<1> QED
  BY <1>1, <1>2, <1>3, DomainAdvance

\* An Impact that is executed appends field elements and touches no name.
LEMMA ImpactExtends ==
  ASSUME TypeOK, ImpactSkipped \/ ImpactActive, ~Reject
  PROVE  /\ \E xs \in Seq(Immediates) : pis' = pis \o xs
         /\ pc' = pc + 1 /\ src' = src /\ status' = status /\ memory' = memory
<1> DEFINE n == Len(ImpactInputs(Instr))
           computed == Payloads(ResolveAll(memory, ImpactInputs(Instr)))
<1>1. n \in Nat
  BY ImpactCount DEF ImpactSkipped, ImpactActive
<1>2. CASE ImpactSkipped
  BY <1>1, <1>2, ZerosIsSeq DEF ImpactSkipped
<1>3. CASE ImpactActive
  <2>1. /\ Available(pre.public_in, cur.public_in, n)
        /\ Taken(pre.public_in, cur.public_in, n) = computed
        /\ pis' = pis \o computed
        /\ pc' = pc + 1 /\ src' = src /\ status' = status /\ memory' = memory
    BY <1>3 DEF ImpactActive
  <2>2. pre.public_in \in Seq(Immediates) /\ cur.public_in \in Nat
    BY JobTypes DEF Preimage, TypeOK, StreamNames
  <2>3. computed \in Seq(Immediates)
    BY <1>1, <2>1, <2>2, TakenIsSeq
  <2> QED
    BY <2>1, <2>3
<1> QED
  BY <1>2, <1>3

LEMMA DomainImpact ==
  ASSUME IInv, ImpactSkipped \/ ImpactActive
  PROVE  Stage' /\ DomainExact'
<1>1. CASE Reject
  BY <1>1, DomainReject
<1>2. CASE ~Reject
  <2>1. Fetch("Impact")
    BY DEF ImpactSkipped, ImpactActive
  <2> QED
    BY <1>2, <2>1, ImpactExtends, DomainNoOutputs DEF IInv
<1> QED
  BY <1>1, <1>2

LEMMA DomainOutput ==
  ASSUME IInv, OutputValues
  PROVE  Stage' /\ DomainExact'
<1>1. CASE Reject
  BY <1>1, DomainReject
<1>2. CASE pc' = pc + 1 /\ UNCHANGED <<src, pre, status, memory, pis, pi_skips, cur>>
  <2>1. Fetch("Output")
    BY DEF OutputValues
  <2>2. <<>> \in Seq(Immediates) /\ pis' = pis \o <<>>
    BY <1>2, EmptySeq, ConcatEmptySeq DEF IInv, TypeOK
  <2> QED
    BY <1>2, <2>1, <2>2, DomainNoOutputs
<1> QED
  BY <1>1, <1>2 DEF OutputValues

LEMMA DomainFinish ==
  ASSUME IInv, Finish
  PROVE  Stage' /\ DomainExact'
  BY DomainReject, DomainHalt DEF Finish, Final

LEMMA DomainNext ==
  ASSUME IInv, [Next]_pvars
  PROVE  IInv'
<1>1. TypeOK'
  BY TypeNext DEF IInv
<1>2. CASE UNCHANGED pvars
  <2>1. Stage' /\ DomainExact'
    BY <1>2 DEF pvars, IInv, Stage, DomainExact, Executed, Decoded, Seeded
  <2> QED
    BY <1>1, <2>1 DEF IInv
<1>3. CASE Step
  BY <1>1, <1>3, DomainDecodeInput, DomainSeed, DomainCompute, DomainRead, DomainImpact,
     DomainOutput, DomainFinish DEF IInv, Step, ReadPublic, ReadPrivate
<1> QED
  BY <1>2, <1>3 DEF Next, Terminated

\* The memory of a run binds the inputs decoded and the outputs of the
\* instructions executed, and nothing else (P4 of the specification document):
\* define-before-use is an invariant of preprocess, not a check of the source.
THEOREM DomainIsExact == Spec => []DomainExact
<1>1. IInv => DomainExact
  BY DEF IInv
<1> QED
  BY <1>1, DomainInit, DomainNext, PTL DEF Spec

------------------------------------------------------------------------------
(* The values preprocess computes.                                           *)

\* ValuesTyped with the outputs as a sequence and the state they are read in.
ValuesIn == MemoryTyped(memory) /\ outputs \in Seq(TypedValue)
ValueInv == TypeOK /\ ValuesIn

LEMMA ValuesKept ==
  ASSUME ValueInv, memory' = memory, outputs' = outputs
  PROVE  ValuesIn'
BY DEF ValueInv, ValuesIn, MemoryTyped

LEMMA ValueBound ==
  ASSUME ValueInv, NEW ids \in Seq(Identifier), Len(ids) = 1, NEW v, Typed(v),
         memory' = Bind(memory, ids, <<v>>), outputs' = outputs
  PROVE  ValuesIn'
<1>1. Yields(<<v>>, Len(ids))
  BY YieldsOne DEF Is
<1> QED
  BY <1>1, BindTyped DEF ValueInv, ValuesIn, MemoryTyped

LEMMA ValueDecodeInput ==
  ASSUME ValueInv, DecodeInput
  PROVE  ValuesIn'
<1> DEFINE id == src.inputs[pc]
           w == encoded_len(id.ty)
<1>1. id.name \in Identifier /\ id.ty \in IrType
  <2>1. src.inputs \in Seq([name : Identifier, ty : IrType]) /\ pc \in Nat \ {0}
    BY JobTypes DEF Source, TypeOK, ValueInv
  <2>2. pc \in 1..Len(src.inputs)
    BY <2>1, LenProperties DEF DecodeInput
  <2>3. id \in [name : Identifier, ty : IrType]
    BY <2>1, <2>2, ElementOfSeq
  <2> QED
    BY <2>3
<1>2. w \in Nat /\ pre.inputs \in Seq(Immediates) /\ cur.raw \in Nat
  BY <1>1, EncodedLenNat, JobTypes DEF Preimage, ValueInv, TypeOK, StreamNames
<1>3. <<id.name>> \in Seq(Identifier) /\ Len(<<id.name>>) = 1
  BY <1>1
<1>4. ASSUME ~Reject
      PROVE  \E v \in Decode(Taken(pre.inputs, cur.raw, w), id.ty) :
               /\ Available(pre.inputs, cur.raw, w)
               /\ memory' = Bind(memory, <<id.name>>, <<v>>) /\ outputs' = outputs
  BY <1>4 DEF DecodeInput
<1> HIDE DEF id, w
<1>5. ASSUME ~Reject
      PROVE  ValuesIn'
  <2>1. PICK v \in Decode(Taken(pre.inputs, cur.raw, w), id.ty) :
               /\ Available(pre.inputs, cur.raw, w)
               /\ memory' = Bind(memory, <<id.name>>, <<v>>) /\ outputs' = outputs
    BY <1>4, <1>5
  <2>2. Taken(pre.inputs, cur.raw, w) \in Seq(Immediates)
    BY <1>2, <2>1, TakenIsSeq
  <2>3. Typed(v)
    BY <1>1, <2>2, DecodeTyped
  <2> QED
    BY <1>3, <2>1, <2>3, ValueBound
<1> QED
  BY <1>5, ValuesKept DEF Reject, Stop

LEMMA ValueCompute ==
  ASSUME GadgetsTyped, ValueInv, Compute
  PROVE  ValuesIn'
<1>1. Instr \in Instruction /\ WellShaped(Instr) /\ Instr.op \in ValueOps
  <2>1. src.code \in Seq(Instruction) /\ pc \in DOMAIN src.code
    BY JobTypes, InstrTypes DEF Source, ValueInv, Compute
  <2> QED
    BY <2>1, ElementOfSeq, LenProperties, InstrTypes DEF Instr, Compute, ValueInv
<1>2. ASSUME NEW vals \in OffGate(Instr, ResolveAll(memory, Instr.args)),
             AllResolvable(memory, Instr.args), memory' = Bind(memory, Instr.outs, vals),
             outputs' = outputs
      PROVE  ValuesIn'
  BY <1>1, <1>2, ComputeTyped DEF ValueInv, ValuesIn, MemoryTyped
<1>3. CASE Reject
  BY <1>3, ValuesKept DEF Reject, Stop
<1> QED
  BY <1>2, <1>3 DEF Compute

LEMMA ValueRead ==
  ASSUME ValueInv, NEW op \in {"PublicInput", "PrivateInput"},
         NEW stream \in {"public_out", "private"}, Read(op, stream)
  PROVE  ValuesIn'
<1>1. /\ Instr.outs \in Seq(Identifier) /\ Len(Instr.outs) = 1 /\ Instr.ty \in IrType
      /\ encoded_len(Instr.ty) \in Nat
  BY InstrTypes, ReadShape, EncodedLenNat DEF Read, Fetch, ValueInv, Instr
<1>2. pre[stream] \in Seq(Immediates) /\ cur[stream] \in Nat
  BY JobTypes DEF Preimage, ValueInv, TypeOK, StreamNames
<1>3. ASSUME NEW v \in Decode(Taken(pre[stream], cur[stream], encoded_len(Instr.ty)), Instr.ty),
             Available(pre[stream], cur[stream], encoded_len(Instr.ty)),
             memory' = Bind(memory, Instr.outs, <<v>>), outputs' = outputs
      PROVE  ValuesIn'
  <2>1. Taken(pre[stream], cur[stream], encoded_len(Instr.ty)) \in Seq(Immediates)
    BY <1>1, <1>2, <1>3, TakenIsSeq
  <2>2. Typed(v)
    BY <1>1, <2>1, DecodeTyped
  <2> QED
    BY <1>1, <1>3, <2>2, ValueBound
<1>4. CASE memory' = Bind(memory, Instr.outs, <<Default(Instr.ty)>>) /\ outputs' = outputs
  BY <1>1, <1>4, DefaultTyped, ValueBound DEF Is
<1>5. CASE memory' = memory /\ outputs' = outputs
  BY <1>5, ValuesKept
<1> QED
  BY <1>3, <1>4, <1>5 DEF Read, Reject, Stop

LEMMA ValueOutput ==
  ASSUME ValueInv, OutputValues
  PROVE  ValuesIn'
<1>1. CASE Reject
  BY <1>1, ValuesKept DEF Reject, Stop
<1>2. CASE /\ AllResolvable(memory, Instr.args)
           /\ outputs' = outputs \o ResolveAll(memory, Instr.args)
           /\ memory' = memory
  <2>1. Instr.args \in Seq(Operand)
    BY InstrTypes DEF OutputValues, Fetch, ValueInv
  <2>2. PICK vals : vals = ResolveAll(memory, Instr.args)
    OBVIOUS
  <2>3. vals \in Seq(TypedValue)
    BY <1>2, <2>1, <2>2, OperandsAreSeq DEF ValueInv, ValuesIn
  <2> QED
    BY <1>2, <2>2, <2>3, ConcatProperties DEF ValueInv, ValuesIn, MemoryTyped
<1> QED
  BY <1>1, <1>2 DEF OutputValues

LEMMA ValueNext ==
  ASSUME GadgetsTyped, ValueInv, [Next]_pvars
  PROVE  ValueInv'
<1>1. TypeOK'
  BY TypeNext DEF ValueInv
<1> SUFFICES ValuesIn'
  BY <1>1 DEF ValueInv
<1>2. ASSUME memory' = memory, outputs' = outputs
      PROVE  ValuesIn'
  BY <1>2, ValuesKept
<1>3. CASE SeedPublicInputs \/ ImpactSkipped \/ ImpactActive \/ Finish \/ Terminated \/ UNCHANGED pvars
  <2>1. memory' = memory /\ outputs' = outputs
    BY <1>3 DEF SeedPublicInputs, ImpactSkipped, ImpactActive, Finish, Terminated, Reject, Stop, pvars
  <2> QED
    BY <1>2, <2>1
<1>4. CASE ReadPublic \/ ReadPrivate
  BY <1>4, ValueRead DEF ReadPublic, ReadPrivate
<1> QED
  BY <1>3, <1>4, ValueDecodeInput, ValueCompute, ValueOutput DEF Next, Step

LEMMA ValueInit == Init => ValueInv
<1> SUFFICES ASSUME Init PROVE ValueInv
  OBVIOUS
<1>1. TypeOK
  BY TypeInit
<1>2. DOMAIN memory = {} /\ outputs = <<>>
  BY DEF Init, EmptyMemory
<1> QED
  BY <1>1, <1>2, EmptySeq DEF ValueInv, ValuesIn, MemoryTyped

\* If the hash gadgets return what they promise, then for every source, preimage,
\* field and curve no gate, decoder or default of preprocess leaves the range of
\* the type its result is tagged with.
THEOREM RunsAreTyped == GadgetsTyped => (Spec => []ValuesTyped)
<1> SUFFICES ASSUME GadgetsTyped PROVE Spec => []ValuesTyped
  OBVIOUS
<1>1. ValueInv /\ [Next]_pvars => ValueInv'
  BY ValueNext
<1>2. ValueInv => ValuesTyped
  <2> SUFFICES ASSUME ValueInv PROVE ValuesTyped
    OBVIOUS
  <2>1. \A i \in DOMAIN outputs : Typed(outputs[i])
    BY TypedIsValue, LenProperties, ElementOfSeq DEF ValueInv, ValuesIn
  <2> QED
    BY <2>1 DEF ValuesTyped, ValueInv, ValuesIn, MemoryTyped, Typed
<1> QED
  BY ValueInit, <1>1, <1>2, PTL DEF Spec

------------------------------------------------------------------------------
(* Monotonicity.                                                             *)

LEMMA PrefixOfConcat ==
  ASSUME NEW S, NEW s \in Seq(S), NEW t \in Seq(S)
  PROVE  IsPrefix(s, s \o t)
BY PrefixOfCat DEF Cat

\* No name a single-assignment source is about to bind is bound already.
LEMMA FreshInput ==
  ASSUME IInv, SingleAssignment(src), status = "decoding", pc <= Len(src.inputs)
  PROVE  src.inputs[pc].name \notin DOMAIN memory
<1>1. pc \in Nat \ {0} /\ pis = <<>> /\ DOMAIN src.inputs = 1..Len(src.inputs)
      /\ Len(src.inputs) \in Nat
  BY JobTypes, LenProperties DEF IInv, TypeOK, Stage, Source
<1>2. DOMAIN memory = {src.inputs[i].name : i \in 1..pc - 1}
  <2>1. Executed = 0 /\ Decoded = pc - 1
    BY <1>1 DEF Executed, Decoded, Seeded
  <2> QED
    BY <2>1 DEF IInv, DomainExact
<1>3. \A i \in 1..pc - 1 : src.inputs[i].name # src.inputs[pc].name
  BY <1>1 DEF SingleAssignment
<1> QED
  BY <1>2, <1>3

LEMMA FreshOutputs ==
  ASSUME IInv, SingleAssignment(src), status = "executing", pc <= Len(src.code)
  PROVE  DOMAIN memory \cap ToSet(Instr.outs) = {}
<1>1. pc \in Nat \ {0} /\ pis # <<>> /\ pc \in DOMAIN src.code
  BY InstrTypes DEF IInv, TypeOK, Stage
<1>2. DOMAIN src.inputs = 1..Len(src.inputs) /\ DOMAIN src.code = 1..Len(src.code)
      /\ Len(src.code) \in Nat
  BY JobTypes, LenProperties DEF IInv, Source
<1>3. Executed = pc - 1 /\ Decoded = Len(src.inputs)
  BY <1>1 DEF Executed, Decoded, Seeded
<1>4. ASSUME NEW x \in DOMAIN memory
      PROVE  x \notin ToSet(Instr.outs)
  <2>1. \/ \E i \in 1..Len(src.inputs) : x = src.inputs[i].name
        \/ \E i \in 1..pc - 1 : x \in ToSet(src.code[i].outs)
    BY <1>3, <1>4 DEF IInv, DomainExact
  <2>2. CASE \E i \in 1..Len(src.inputs) : x = src.inputs[i].name
    BY <1>1, <1>2, <2>2 DEF SingleAssignment, Instr
  <2>3. ASSUME NEW i \in 1..pc - 1, x \in ToSet(src.code[i].outs)
        PROVE  x \notin ToSet(Instr.outs)
    <3>1. i \in DOMAIN src.code /\ i # pc
      BY <1>1, <1>2
    <3> QED
      BY <1>1, <2>3, <3>1 DEF SingleAssignment, Instr
  <2> QED
    BY <2>1, <2>2, <2>3
<1> QED
  BY <1>4

LEMMA SamePrefix ==
  ASSUME TypeOK, pis' = pis
  PROVE  IsPrefix(pis, pis')
<1>1. pis \in Seq(Immediates) /\ <<>> \in Seq(Immediates) /\ pis \o <<>> = pis
  BY EmptySeq, ConcatEmptySeq DEF TypeOK
<1>2. IsPrefix(pis, pis \o <<>>)
  BY <1>1, PrefixOfConcat
<1> QED
  BY <1>1, <1>2

LEMMA MonotoneStill ==
  ASSUME TypeOK, memory' = memory, pis' = pis
  PROVE  Monotone
  BY SamePrefix DEF Monotone

\* Binding fresh names keeps every binding.
LEMMA MonotoneBind ==
  ASSUME TypeOK, NEW ids, NEW vals, memory' = Bind(memory, ids, vals), pis' = pis,
         SingleAssignment(src) => DOMAIN memory \cap ToSet(ids) = {}
  PROVE  Monotone
<1>1. DOMAIN memory' = DOMAIN memory \cup ToSet(ids)
  BY BindProperties
<1>2. \A id \in DOMAIN memory \ ToSet(ids) : memory'[id] = memory[id]
  BY DEF Bind
<1>3. SingleAssignment(src) =>
        \A id \in DOMAIN memory : id \in DOMAIN memory' /\ memory'[id] = memory[id]
  BY <1>1, <1>2
<1> QED
  BY <1>3, SamePrefix DEF Monotone

LEMMA MonotoneDecodeInput ==
  ASSUME IInv, DecodeInput
  PROVE  Monotone
<1> DEFINE id == src.inputs[pc]
<1>1. CASE Reject
  BY <1>1, MonotoneStill DEF IInv, Reject, Stop
<1>2. ASSUME NEW v, memory' = Bind(memory, <<id.name>>, <<v>>), pis' = pis
      PROVE  Monotone
  <2>1. SingleAssignment(src) => id.name \notin DOMAIN memory
    BY FreshInput DEF DecodeInput
  <2>2. ToSet(<<id.name>>) = {id.name}
    BY DEF ToSet
  <2>3. SingleAssignment(src) => DOMAIN memory \cap ToSet(<<id.name>>) = {}
    BY <2>1, <2>2
  <2> QED
    BY <1>2, <2>3, MonotoneBind DEF IInv
<1> QED
  BY <1>1, <1>2 DEF DecodeInput

LEMMA MonotoneSeed ==
  ASSUME IInv, SeedPublicInputs
  PROVE  Monotone
<1>1. CASE Reject
  BY <1>1, MonotoneStill DEF IInv, Reject, Stop
<1>2. CASE ~Reject
  <2>1. memory' = memory /\ pis = <<>>
    BY <1>2 DEF SeedPublicInputs, IInv, Stage
  <2>2. pis' \in Seq(Immediates)
    BY TypeSeed DEF IInv, TypeOK
  <2>3. <<>> \in Seq(Immediates) /\ <<>> \o pis' = pis'
    BY <2>2, EmptySeq, ConcatEmptySeq
  <2>4. IsPrefix(pis, pis')
    BY <2>1, <2>2, <2>3, PrefixOfConcat
  <2> QED
    BY <2>1, <2>4 DEF Monotone
<1> QED
  BY <1>1, <1>2

LEMMA MonotoneCompute ==
  ASSUME IInv, Compute
  PROVE  Monotone
<1>1. CASE Reject
  BY <1>1, MonotoneStill DEF IInv, Reject, Stop
<1>2. ASSUME NEW vals, memory' = Bind(memory, Instr.outs, vals), pis' = pis
      PROVE  Monotone
  BY <1>2, FreshOutputs, MonotoneBind DEF IInv, Compute
<1> QED
  BY <1>1, <1>2 DEF Compute

LEMMA MonotoneRead ==
  ASSUME IInv, NEW op, NEW stream, Read(op, stream)
  PROVE  Monotone
<1>1. CASE Reject \/ Stop("panicked")
  BY <1>1, MonotoneStill DEF IInv, Reject, Stop
<1>2. ASSUME NEW v, memory' = Bind(memory, Instr.outs, <<v>>), pis' = pis
      PROVE  Monotone
  BY <1>2, FreshOutputs, MonotoneBind DEF IInv, Read, Fetch
<1> QED
  BY <1>1, <1>2 DEF Read

LEMMA MonotoneImpact ==
  ASSUME IInv, ImpactSkipped \/ ImpactActive
  PROVE  Monotone
<1>1. CASE Reject
  BY <1>1, MonotoneStill DEF IInv, Reject, Stop
<1>2. CASE ~Reject
  <2>1. PICK xs \in Seq(Immediates) : pis' = pis \o xs /\ memory' = memory
    BY <1>2, ImpactExtends DEF IInv
  <2> QED
    BY <2>1, PrefixOfConcat DEF IInv, TypeOK, Monotone
<1> QED
  BY <1>1, <1>2

LEMMA MonotoneNext ==
  ASSUME IInv, [Next]_pvars
  PROVE  [Monotone]_pvars
<1>1. CASE Step
  <2>1. CASE OutputValues \/ Finish
    BY <2>1, MonotoneStill DEF IInv, OutputValues, Finish, Reject, Stop
  <2> QED
    BY <1>1, <2>1, MonotoneDecodeInput, MonotoneSeed, MonotoneCompute, MonotoneRead,
       MonotoneImpact DEF Step, ReadPublic, ReadPrivate
<1> QED
  BY <1>1 DEF Next, Terminated

\* No step of a single-assignment source drops or changes a binding, and no step
\* takes back a public input (P2): what an instruction has read stays what the
\* final memory, the circuit's witness, says.
THEOREM RunsAreMonotone == Spec => StoreMonotone
<1>1. IInv /\ [Next]_pvars => [Monotone]_pvars
  BY MonotoneNext
<1> QED
  BY <1>1, DomainInit, DomainNext, PTL DEF Spec, StoreMonotone

------------------------------------------------------------------------------
(* The layout of the public inputs.                                          *)

\* What an Impact of a source looks like.
Impacts == {ins \in Instruction : ins.op = "Impact" /\ ins.args # <<>>}
ImpactAt(k) == IF src.code[k].op = "Impact" THEN <<src.code[k]>> ELSE <<>>

\* PublicInputLayout is inductive once it says what is there before the seeding,
\* that the header has its commitment and that every group is made of elements.
LayoutInv ==
  /\ PublicInputLayout
  /\ ~Seeded => pi_skips = <<>> /\ cur.public_in = 0
  /\ Seeded => (src.comm => pre.comm # <<>>)
  /\ \A k \in 1..Len(pi_skips) : Group(k) \in Seq(Immediates)

LEMMA ImpactAtTyped ==
  ASSUME TypeOK, NEW k \in 1..Len(src.code)
  PROVE  ImpactAt(k) \in Seq(Impacts)
<1>1. src.code \in Seq(Instruction)
  BY JobTypes DEF Source
<1>2. src.code[k] \in Instruction /\ k \in DOMAIN src.code
  BY <1>1, ElementOfSeq, LenProperties
<1>3. CASE src.code[k].op = "Impact"
  <2>1. src.code[k] \in Impacts
    BY <1>2, <1>3, JobTypes DEF Impacts, WellShaped
  <2> QED
    BY <1>3, <2>1 DEF ImpactAt
<1>4. CASE src.code[k].op # "Impact"
  BY <1>4, EmptySeq DEF ImpactAt
<1> QED
  BY <1>3, <1>4

LEMMA ImpactsDoneTyped ==
  ASSUME TypeOK, Executed \in 0..Len(src.code)
  PROVE  ImpactsDone \in Seq(Impacts)
<1> DEFINE t == [k \in 1..Executed |-> ImpactAt(k)]
<1>1. Len(src.code) \in Nat
  BY JobTypes, LenProperties DEF Source
<1>2. \A k \in 1..Executed : ImpactAt(k) \in Seq(Impacts)
  BY <1>1, ImpactAtTyped
<1>3. t \in Seq(Seq(Impacts))
  BY <1>1, <1>2, IsASeq
<1> QED
  BY <1>3, FlattenTyped DEF ImpactsDone, ImpactAt

LEMMA ImpactsDoneNext ==
  ASSUME TypeOK, NEW n \in Nat, n < Len(src.code), Executed = n, Executed' = n + 1, src' = src
  PROVE  ImpactsDone' = ImpactsDone \o ImpactAt(n + 1)
<1> DEFINE s == [k \in 1..n |-> ImpactAt(k)]
           t == [k \in 1..(n + 1) |-> ImpactAt(k)]
<1>1. Len(src.code) \in Nat
  BY JobTypes, LenProperties DEF Source
<1>2. \A k \in 1..(n + 1) : ImpactAt(k) \in Seq(Impacts)
  BY <1>1, ImpactAtTyped
<1>3. t \in Seq(Seq(Impacts)) /\ Len(t) = n + 1
  BY <1>1, <1>2, IsASeq
<1>4. s = [k \in 1..n |-> t[k]] /\ t[n + 1] = ImpactAt(n + 1)
  OBVIOUS
<1>5. ImpactsDone = FlattenSeq(s)
  BY DEF ImpactsDone, ImpactAt
<1>6. ImpactsDone' = FlattenSeq(t)
  BY DEF ImpactsDone, ImpactAt
<1> HIDE DEF s, t
<1>7. FlattenSeq(t) = FlattenSeq(s) \o t[n + 1]
  BY <1>3, <1>4, FlattenMore
<1> QED
  BY <1>4, <1>5, <1>6, <1>7

LEMMA CountNat ==
  ASSUME NEW s \in Seq(Impacts), NEW k \in 1..Len(s)
  PROVE  Len(ImpactInputs(s[k])) \in Nat
<1>1. s[k] \in Instruction /\ s[k].args # <<>>
  BY ElementOfSeq DEF Impacts
<1>2. s[k].args \in Seq(Operand)
  BY <1>1 DEF Instruction
<1> QED
  BY <1>1, <1>2, HeadTailProperties, LenProperties DEF ImpactInputs

\* What the first n Impacts take depends on their entries and counts alone.
LEMMA TakenByNext ==
  ASSUME NEW n \in Nat, NEW e, NEW c \in Nat,
         \A k \in 1..n : Count(k) \in Nat /\ Count(k)' = Count(k) /\ pi_skips'[k] = pi_skips[k],
         Count(n + 1)' = c, pi_skips'[n + 1] = e
  PROVE  /\ \A m \in 0..n : TakenBy(m)' = TakenBy(m)
         /\ TakenBy(n + 1)' = TakenBy(n) + (IF e = <<>> THEN c ELSE 0)
<1> DEFINE piece(k) == IF pi_skips[k] = <<>> THEN Zeros(Count(k)) ELSE <<>>
           last == IF e = <<>> THEN Zeros(c) ELSE <<>>
           s == [k \in 1..n |-> piece(k)]
           t == [k \in 1..(n + 1) |-> IF k \in 1..n THEN piece(k) ELSE last]
<1>1. \A m \in 0..n : TakenBy(m)' = TakenBy(m)
  <2> SUFFICES ASSUME NEW m \in 0..n
               PROVE  TakenBy(m)' = TakenBy(m)
    OBVIOUS
  <2>1. \A k \in 1..m : (IF pi_skips'[k] = <<>> THEN Zeros(Count(k)') ELSE <<>>) = piece(k)
    OBVIOUS
  <2>2. [k \in 1..m |-> IF pi_skips'[k] = <<>> THEN Zeros(Count(k)') ELSE <<>>]
          = [k \in 1..m |-> piece(k)]
    BY <2>1
  <2>3. TakenBy(m) = Len(FlattenSeq([k \in 1..m |-> piece(k)]))
    BY DEF TakenBy
  <2>4. TakenBy(m)' = Len(FlattenSeq([k \in 1..m |->
                            IF pi_skips'[k] = <<>> THEN Zeros(Count(k)') ELSE <<>>]))
    BY DEF TakenBy, Zeros
  <2> QED
    BY <2>2, <2>3, <2>4
<1>2. \A k \in 1..n : piece(k) \in Seq(Immediates)
  BY ZerosIsSeq, EmptySeq
<1>3. last \in Seq(Immediates) /\ Len(last) = IF e = <<>> THEN c ELSE 0
  BY ZerosIsSeq, EmptySeq, LenProperties DEF Zeros
<1>4. t \in Seq(Seq(Immediates)) /\ Len(t) = n + 1
  BY <1>2, <1>3, IsASeq
<1>5. s = [k \in 1..n |-> t[k]] /\ t[n + 1] = last
  OBVIOUS
<1>6. s \in Seq(Seq(Immediates))
  BY <1>2, IsASeq
<1>7. TakenBy(n) = Len(FlattenSeq(s))
  BY DEF TakenBy
<1>8. TakenBy(n + 1)' = Len(FlattenSeq(t))
  <2>1. \A k \in 1..(n + 1) : (IF pi_skips'[k] = <<>> THEN Zeros(Count(k)') ELSE <<>>) = t[k]
    OBVIOUS
  <2>2. [k \in 1..(n + 1) |-> IF pi_skips'[k] = <<>> THEN Zeros(Count(k)') ELSE <<>>] = t
    BY <2>1
  <2>3. TakenBy(n + 1)' = Len(FlattenSeq([k \in 1..(n + 1) |->
                                IF pi_skips'[k] = <<>> THEN Zeros(Count(k)') ELSE <<>>]))
    BY DEF TakenBy, Zeros
  <2> QED
    BY <2>2, <2>3
<1> HIDE DEF s, t, last, piece
<1>9. FlattenSeq(t) = FlattenSeq(s) \o last
  BY <1>4, <1>5, FlattenMore
<1>10. FlattenSeq(s) \in Seq(Immediates)
  BY <1>6, FlattenTyped
<1>11. Len(FlattenSeq(t)) = Len(FlattenSeq(s)) + Len(last)
  <2> DEFINE a == FlattenSeq(s)
  <2>1. a \in Seq(Immediates) /\ last \in Seq(Immediates)
    BY <1>3, <1>10
  <2> HIDE DEF a
  <2>2. Len(a \o last) = Len(a) + Len(last)
    BY <2>1, ConcatProperties
  <2> QED
    BY <1>9, <2>2 DEF a
<1> QED
  BY <1>1, <1>3, <1>7, <1>8, <1>11

LEMMA HeaderTyped ==
  ASSUME TypeOK, src.comm => pre.comm # <<>>
  PROVE  Header \in Seq(Immediates)
<1>1. pre.binding \in Immediates /\ pre.comm \in Seq(Immediates) /\ Len(pre.comm) \in {0, 2}
  BY JobTypes DEF Preimage
<1>2. src.comm => pre.comm[1] \in Immediates
  BY <1>1, ElementOfSeq, EmptySeq
<1> QED
  BY <1>1, <1>2 DEF Header

\* Where the instructions executed stand: they are those of the code before pc.
LEMMA ExecutedRange ==
  ASSUME IInv, status = "executing"
  PROVE  Seeded /\ Executed = pc - 1 /\ Executed \in 0..Len(src.code) /\ Len(src.code) \in Nat
<1>1. Len(src.code) \in Nat
  BY JobTypes, LenProperties DEF IInv, Source
<1> QED
  BY <1>1 DEF IInv, TypeOK, Stage, Seeded, Executed

\* An instruction was executed.
LEMMA ExecutedNext ==
  ASSUME IInv, IInv', status = "executing", pc <= Len(src.code), status' = status, pc' = pc + 1
  PROVE  /\ Seeded /\ Seeded' /\ Executed = pc - 1 /\ Executed' = Executed + 1
         /\ Executed \in Nat /\ Executed < Len(src.code) /\ pc \in Nat /\ Executed + 1 = pc
<1>1. Seeded /\ Executed = pc - 1 /\ Len(src.code) \in Nat
  BY ExecutedRange
<1>2. pc \in Nat \ {0}
  BY DEF IInv, TypeOK
<1>3. Seeded' /\ Executed' = pc' - 1
  BY DEF IInv, Stage, Seeded, Executed
<1> QED
  BY <1>1, <1>2, <1>3

LEMMA LayoutKeeps ==
  ASSUME LayoutInv, UNCHANGED <<src, pre, pis, pi_skips>>, cur'.public_in = cur.public_in,
         Seeded => ImpactsDone' = ImpactsDone
  PROVE  LayoutInv'
<1>1. Seeded' = Seeded /\ Header' = Header
  BY DEF Seeded, Header
<1>2. CASE ~Seeded
  <2>1. pi_skips' = <<>> /\ cur'.public_in = 0 /\ ~(1 <= Len(pi_skips'))
    BY <1>2 DEF LayoutInv
  <2>2. PublicInputLayout'
    BY <1>1, <1>2 DEF PublicInputLayout
  <2>3. 1..Len(pi_skips') = {}
    BY <2>1
  <2> QED
    BY <1>1, <1>2, <2>1, <2>2, <2>3 DEF LayoutInv
<1>3. CASE Seeded
  <2>1. \A k : Count(k)' = Count(k)
    BY <1>3 DEF Count
  <2>2. \A n : TakenBy(n)' = TakenBy(n)
    BY <2>1 DEF TakenBy, Zeros
  <2>3. \A k : Group(k)' = Group(k)
    BY <2>1, <2>2 DEF Group
  <2>4. PublicInputLayout'
    BY <1>1, <1>3, <2>2, <2>3 DEF PublicInputLayout, LayoutInv
  <2> QED
    BY <1>1, <1>3, <2>3, <2>4 DEF LayoutInv
<1> QED
  BY <1>2, <1>3

LEMMA LayoutImpact ==
  ASSUME IInv, IInv', LayoutInv, Fetch("Impact"), NEW c, NEW e, NEW x,
         c = Len(ImpactInputs(Instr)), e \in {<<>>, <<c>>}, UNCHANGED <<src, pre, status>>,
         pc' = pc + 1, pi_skips' = Append(pi_skips, e), pis' = pis \o x, x \in Seq(Immediates),
         x = IF e # <<>> THEN Zeros(c) ELSE Taken(pre.public_in, cur.public_in, c),
         cur'.public_in = cur.public_in + (IF e # <<>> THEN 0 ELSE c)
  PROVE  LayoutInv'
<1>n. PICK n \in Nat : n = Len(pi_skips)
  BY LenProperties DEF IInv, TypeOK
<1>1. /\ Seeded /\ Seeded' /\ Executed' = Executed + 1 /\ Executed = pc - 1
      /\ Executed \in Nat /\ Executed < Len(src.code) /\ pc \in Nat /\ Executed + 1 = pc
  BY ExecutedNext DEF Fetch
<1>2. /\ n \in Nat /\ Len(pi_skips') = n + 1 /\ pi_skips'[n + 1] = e
      /\ \A k \in 1..n : pi_skips'[k] = pi_skips[k]
  <2>1. pi_skips \in Seq(Seq(Nat)) /\ pi_skips' \in Seq(Seq(Nat))
    BY DEF IInv, TypeOK
  <2> QED
    BY <1>n, <2>1, LenProperties
<1>3. ImpactsDone \in Seq(Impacts) /\ Len(ImpactsDone) = n
  BY <1>1, <1>n, ExecutedRange, ImpactsDoneTyped DEF IInv, LayoutInv, PublicInputLayout, Fetch
<1>4. ImpactsDone' = ImpactsDone \o <<Instr>>
  <2>1. ImpactAt(Executed + 1) = <<Instr>>
    BY <1>1 DEF ImpactAt, Instr, Fetch
  <2> QED
    BY <1>1, <2>1, ImpactsDoneNext DEF IInv
<1>5. Instr \in Impacts
  <2>1. Executed + 1 \in 1..Len(src.code) /\ Instr = src.code[Executed + 1]
    BY <1>1 DEF Instr
  <2>2. ImpactAt(Executed + 1) \in Seq(Impacts)
    BY <2>1, ImpactAtTyped DEF IInv
  <2>3. ImpactAt(Executed + 1) = <<Instr>>
    BY <1>1 DEF ImpactAt, Instr, Fetch
  <2>4. <<Instr>> \in Seq(Impacts)
    BY <2>2, <2>3
  <2> QED
    BY <2>4, OneElement
<1>6. /\ <<Instr>> \in Seq(Impacts) /\ Len(<<Instr>>) = 1
      /\ Len(ImpactsDone') = n + 1 /\ ImpactsDone'[n + 1] = Instr
      /\ \A k \in 1..n : ImpactsDone'[k] = ImpactsDone[k]
  <2>1. <<Instr>> \in Seq(Impacts) /\ Len(<<Instr>>) = 1 /\ <<Instr>>[1] = Instr
    BY <1>5
  <2>2. \A k \in 1..(n + 1) : ImpactsDone'[k] = IF k <= n THEN ImpactsDone[k] ELSE <<Instr>>[k - n]
    BY <1>2, <1>3, <1>4, <2>1, ConcatProperties
  <2>3. Len(ImpactsDone') = n + 1
    BY <1>2, <1>3, <1>4, <2>1, ConcatProperties
  <2> QED
    BY <1>2, <2>1, <2>2, <2>3
<1>7. /\ \A k \in 1..n : Count(k) \in Nat /\ Count(k)' = Count(k)
      /\ Count(n + 1)' = c /\ c \in Nat
  <2>1. \A k \in 1..n : Count(k) \in Nat /\ Count(k)' = Count(k)
    BY <1>3, <1>6, CountNat DEF Count
  <2>2. Count(n + 1)' = c
    BY <1>6 DEF Count, ImpactInputs
  <2>3. c \in Nat
    BY <1>6, CountNat
  <2> QED
    BY <2>1, <2>2, <2>3
<1>8. /\ \A m \in 0..n : TakenBy(m)' = TakenBy(m)
      /\ TakenBy(n + 1)' = TakenBy(n) + (IF e = <<>> THEN c ELSE 0)
  BY <1>2, <1>7, TakenByNext
<1>9. cur.public_in = TakenBy(n)
  BY <1>1, <1>n DEF LayoutInv, PublicInputLayout
<1>10. \A k \in 1..n : Group(k)' = Group(k)
  <2> SUFFICES ASSUME NEW k \in 1..n
               PROVE  Group(k)' = Group(k)
    OBVIOUS
  <2>1. k - 1 \in 0..n
    BY <1>2
  <2>2. TakenBy(k - 1)' = TakenBy(k - 1) /\ Count(k)' = Count(k)
    BY <1>7, <1>8, <2>1
  <2> QED
    BY <1>2, <2>2 DEF Group, Zeros, Taken
<1>11. Group(n + 1)' = x
  <2>1. (n + 1) - 1 = n /\ n \in 0..n
    BY <1>2
  <2>2. TakenBy(n)' = cur.public_in
    BY <1>8, <1>9, <2>1
  <2>3. e # <<>> => e[1] = c
    OBVIOUS
  <2> QED
    BY <1>2, <1>7, <2>1, <2>2, <2>3 DEF Group, Zeros, Taken
<1>s. PICK s : s = [k \in 1..n |-> Group(k)]
  OBVIOUS
<1>t. PICK t : t = [k \in 1..(n + 1) |-> Group(k)']
  OBVIOUS
<1>12. s \in Seq(Seq(Immediates)) /\ t = Append(s, x)
  <2>1. \A k \in 1..n : Group(k) \in Seq(Immediates)
    BY <1>n DEF LayoutInv
  <2>2. s \in Seq(Seq(Immediates)) /\ Len(s) = n
    BY <1>s, <2>1, IsASeq
  <2>3. \A k \in 1..(n + 1) : t[k] = IF k \in 1..n THEN s[k] ELSE x
    BY <1>s, <1>t, <1>10, <1>11
  <2>4. t = [k \in 1..(n + 1) |-> IF k \in 1..n THEN s[k] ELSE x]
    BY <1>t, <2>3
  <2> QED
    BY <2>2, <2>4, AppendIs
<1>13. pis = Header \o FlattenSeq(s)
  BY <1>1, <1>n, <1>s DEF LayoutInv, PublicInputLayout
<1>14. Header' = Header /\ Header \in Seq(Immediates)
  BY <1>1, HeaderTyped DEF IInv, Header, LayoutInv
<1>15. /\ cur'.public_in = TakenBy(n + 1)'
       /\ Len(ImpactsDone') = Len(pi_skips')
       /\ \A k \in 1..Len(pi_skips') : Group(k)' \in Seq(Immediates)
       /\ t = [k \in 1..Len(pi_skips') |-> Group(k)']
  <2>1. cur'.public_in = TakenBy(n + 1)'
    BY <1>8, <1>9
  <2>2. \A k \in 1..n : Group(k) \in Seq(Immediates)
    BY <1>n DEF LayoutInv
  <2>3. \A k \in 1..(n + 1) : Group(k)' \in Seq(Immediates)
    BY <1>2, <1>10, <1>11, <2>2
  <2> QED
    BY <1>2, <1>6, <1>t, <2>1, <2>3
<1>16. pis' = Header' \o FlattenSeq(t)
  <2>1. FlatAfter(Header, t) = Cat(FlatAfter(Header, s), x)
    BY <1>12, <1>14, FlattenAppend
  <2> QED
    BY <1>12, <1>13, <1>14, <2>1 DEF FlatAfter, Cat
<1>17. PublicInputLayout'
  BY <1>2, <1>15, <1>16 DEF PublicInputLayout
<1> QED
  BY <1>1, <1>15, <1>17 DEF LayoutInv

LEMMA LayoutInit == Init => LayoutInv
<1> SUFFICES ASSUME Init PROVE LayoutInv
  OBVIOUS
<1>1. ~Seeded /\ pi_skips = <<>> /\ cur.public_in = 0 /\ Len(pi_skips) = 0
  BY DEF Init, Seeded, StreamNames
<1>2. 1..Len(pi_skips) = {}
  BY <1>1
<1> QED
  BY <1>1, <1>2 DEF LayoutInv, PublicInputLayout

LEMMA LayoutStop ==
  ASSUME LayoutInv, UNCHANGED <<src, pre, pc, pi_skips, pis, cur>>
  PROVE  LayoutInv'
<1>1. ImpactsDone' = ImpactsDone
  BY DEF ImpactsDone, Executed, Seeded
<1> QED
  BY <1>1, LayoutKeeps

LEMMA LayoutReject ==
  ASSUME LayoutInv, NEW s, Stop(s)
  PROVE  LayoutInv'
  BY LayoutStop DEF Stop

\* An instruction that is no Impact.
LEMMA LayoutOther ==
  ASSUME IInv, IInv', LayoutInv, status = "executing", pc <= Len(src.code), Instr.op # "Impact",
         UNCHANGED <<src, pre, status, pis, pi_skips>>, pc' = pc + 1,
         cur'.public_in = cur.public_in
  PROVE  LayoutInv'
<1>1. /\ Executed \in Nat /\ Executed < Len(src.code) /\ Executed + 1 = pc
      /\ Executed' = Executed + 1 /\ Executed \in 0..Len(src.code)
  BY ExecutedNext, ExecutedRange
<1>2. ImpactsDone' = ImpactsDone \o ImpactAt(Executed + 1)
  BY <1>1, ImpactsDoneNext DEF IInv
<1>3. ImpactAt(Executed + 1) = <<>>
  BY <1>1 DEF ImpactAt, Instr
<1>4. ImpactsDone \in Seq(Impacts)
  BY <1>1, ImpactsDoneTyped DEF IInv
<1>5. ImpactsDone' = ImpactsDone
  BY <1>2, <1>3, <1>4, ConcatEmptySeq
<1> QED
  BY <1>5, LayoutKeeps

LEMMA LayoutSeed ==
  ASSUME IInv, IInv', LayoutInv, SeedPublicInputs
  PROVE  LayoutInv'
<1>1. CASE Reject
  BY <1>1, LayoutReject DEF Reject
<1>2. CASE ~Reject
  <2>1. /\ pis' = Header /\ pc' = 1 /\ status' = "executing" /\ UNCHANGED <<src, pre, pi_skips, cur>>
        /\ src.comm => pre.comm # <<>>
    BY <1>2 DEF SeedPublicInputs, Header
  <2>2. ~Seeded /\ pi_skips' = <<>> /\ cur'.public_in = 0
    BY <2>1 DEF LayoutInv, SeedPublicInputs, IInv, Stage, Seeded
  <2>3. Seeded' /\ Executed' = 0
    BY <2>1 DEF IInv, Stage, Seeded, Executed
  <2>4. Len(pi_skips') = 0 /\ 1..0 = {}
    BY <2>2
  <2>5. ImpactsDone' = <<>>
    <3>1. [k \in 1..0 |-> IF src'.code[k].op = "Impact" THEN <<src'.code[k]>> ELSE <<>>] = <<>>
      OBVIOUS
    <3> QED
      BY <2>3, <3>1, FlattenEmpty DEF ImpactsDone
  <2>6. TakenBy(0)' = 0
    <3>1. [k \in 1..0 |-> IF pi_skips'[k] = <<>> THEN Zeros(Count(k)') ELSE <<>>] = <<>>
      OBVIOUS
    <3> QED
      BY <3>1, FlattenEmpty DEF TakenBy, Zeros
  <2>7. [k \in 1..0 |-> Group(k)'] = <<>>
    OBVIOUS
  <2>8. Header' = Header /\ Header \in Seq(Immediates)
    BY <2>1, HeaderTyped DEF IInv, Header
  <2>9. Header \o <<>> = Header
    BY <2>8, ConcatEmptySeq
  <2>10. pis' = Header' \o FlattenSeq([k \in 1..Len(pi_skips') |-> Group(k)'])
    BY <2>1, <2>4, <2>7, <2>8, <2>9, FlattenEmpty
  <2>11. PublicInputLayout'
    BY <2>2, <2>4, <2>5, <2>6, <2>10 DEF PublicInputLayout
  <2> QED
    BY <2>1, <2>3, <2>4, <2>11 DEF LayoutInv
<1> QED
  BY <1>1, <1>2

LEMMA LayoutDecodeInput ==
  ASSUME IInv, LayoutInv, DecodeInput
  PROVE  LayoutInv'
<1>1. CASE Reject
  BY <1>1, LayoutReject DEF Reject
<1>2. CASE ~Reject
  <2>1. ~Seeded
    BY DEF IInv, Stage, Seeded, DecodeInput
  <2>2. UNCHANGED <<src, pre, pis, pi_skips>> /\ cur'.public_in = cur.public_in
    BY <1>2 DEF DecodeInput, IInv, TypeOK, StreamNames
  <2> QED
    BY <2>1, <2>2, LayoutKeeps
<1> QED
  BY <1>1, <1>2

LEMMA LayoutRead ==
  ASSUME IInv, IInv', LayoutInv, NEW op, op # "Impact", NEW stream \in StreamNames \ {"public_in"},
         Read(op, stream)
  PROVE  LayoutInv'
<1>1. CASE Reject \/ Stop("panicked")
  BY <1>1, LayoutReject DEF Reject
<1>2. CASE ~Reject /\ ~Stop("panicked")
  <2>1. UNCHANGED <<src, pre, status, pis, pi_skips>> /\ pc' = pc + 1
    BY <1>2 DEF Read
  <2>2. cur' = cur \/ \E w : cur' = [cur EXCEPT ![stream] = w]
    BY <1>2 DEF Read
  <2>3. cur'.public_in = cur.public_in
    <3>1. cur \in [StreamNames -> Nat]
      BY DEF IInv, TypeOK
    <3>2. stream # "public_in" /\ "public_in" \in DOMAIN cur
      BY <3>1 DEF StreamNames
    <3>3. \A w : [cur EXCEPT ![stream] = w].public_in = cur.public_in
      BY <3>1, <3>2
    <3> QED
      BY <2>2, <3>3
  <2>4. status = "executing" /\ pc <= Len(src.code) /\ Instr.op # "Impact"
    BY DEF Read, Fetch, Instr
  <2> QED
    BY <2>1, <2>3, <2>4, LayoutOther
<1> QED
  BY <1>1, <1>2

LEMMA LayoutCompute ==
  ASSUME IInv, IInv', LayoutInv, Compute \/ OutputValues
  PROVE  LayoutInv'
<1>1. CASE Reject
  BY <1>1, LayoutReject DEF Reject
<1>2. CASE ~Reject
  <2>1. UNCHANGED <<src, pre, status, pis, pi_skips, cur>> /\ pc' = pc + 1
    BY <1>2 DEF Compute, OutputValues
  <2>2. status = "executing" /\ pc <= Len(src.code) /\ Instr.op \in ValueOps \cup {"Output"}
    BY DEF Compute, OutputValues, Fetch, Instr
  <2>3. Instr.op # "Impact"
    BY <2>2 DEF ValueOps, HashOps
  <2> QED
    BY <2>1, <2>2, <2>3, LayoutOther
<1> QED
  BY <1>1, <1>2

LEMMA LayoutSkipped ==
  ASSUME IInv, IInv', LayoutInv, ImpactSkipped
  PROVE  LayoutInv'
<1>1. PICK c : c = Len(ImpactInputs(Instr))
  OBVIOUS
<1>2. c \in Nat
  BY <1>1, ImpactCount DEF IInv, ImpactSkipped, Fetch
<1>3. Zeros(c) \in Seq(Immediates)
  BY <1>2, ZerosIsSeq
<1>4. /\ Fetch("Impact") /\ pis' = pis \o Zeros(c) /\ pi_skips' = Append(pi_skips, <<c>>)
      /\ pc' = pc + 1 /\ UNCHANGED <<src, pre, status, memory, cur, outputs>>
  BY <1>1 DEF ImpactSkipped
<1>5. cur'.public_in = cur.public_in + 0 /\ <<c>> # <<>>
  BY <1>4 DEF IInv, TypeOK, StreamNames
<1> QED
  BY <1>1, <1>3, <1>4, <1>5, LayoutImpact

LEMMA LayoutActive ==
  ASSUME IInv, IInv', LayoutInv, ImpactActive
  PROVE  LayoutInv'
<1>1. CASE Reject
  BY <1>1, LayoutReject DEF Reject
<1>2. CASE ~Reject
  <2>1. PICK c : c = Len(ImpactInputs(Instr))
    OBVIOUS
  <2>2. c \in Nat /\ cur.public_in \in Nat /\ pre.public_in \in Seq(Immediates)
    BY <2>1, ImpactCount, JobTypes DEF IInv, ImpactActive, Fetch, Preimage, TypeOK, StreamNames
  <2>3. PICK x : x = Taken(pre.public_in, cur.public_in, c)
    OBVIOUS
  <2>4. /\ Fetch("Impact") /\ pis' = pis \o x /\ pi_skips' = Append(pi_skips, <<>>)
        /\ pc' = pc + 1 /\ UNCHANGED <<src, pre, status, memory, outputs>>
        /\ cur' = [cur EXCEPT !["public_in"] = @ + c]
        /\ Available(pre.public_in, cur.public_in, c)
    BY <1>2, <2>1, <2>3 DEF ImpactActive
  <2>5. x \in Seq(Immediates)
    BY <2>2, <2>3, <2>4, TakenIsSeq
  <2>6. cur'.public_in = cur.public_in + c
    BY <2>4 DEF IInv, TypeOK, StreamNames
  <2> QED
    BY <2>1, <2>3, <2>4, <2>5, <2>6, LayoutImpact
<1> QED
  BY <1>1, <1>2

LEMMA LayoutNext ==
  ASSUME IInv, IInv', LayoutInv, [Next]_pvars
  PROVE  LayoutInv'
<1>1. CASE Step
  <2>1. CASE Finish
    BY <2>1, LayoutReject DEF Finish, Reject
  <2>2. CASE ReadPublic
    BY <2>2, LayoutRead DEF ReadPublic, StreamNames
  <2>3. CASE ReadPrivate
    BY <2>3, LayoutRead DEF ReadPrivate, StreamNames
  <2> QED
    BY <1>1, <2>1, <2>2, <2>3, LayoutDecodeInput, LayoutSeed, LayoutCompute, LayoutSkipped,
       LayoutActive DEF Step
<1>2. CASE UNCHANGED pvars
  BY <1>2, LayoutStop DEF pvars
<1> QED
  BY <1>1, <1>2 DEF Next, Terminated

\* The public inputs, the skip entries and the transcript cursor of a run fit
\* together after every instruction: what a verifier rebuilds from pi_skips and
\* the transcript is what preprocess has put in its public inputs.
THEOREM PublicInputsLaidOut == Spec => []PublicInputLayout
<1>1. Init => IInv /\ LayoutInv
  BY DomainInit, LayoutInit
<1>2. IInv /\ LayoutInv /\ [Next]_pvars => (IInv /\ LayoutInv)'
  BY DomainNext, LayoutNext
<1>3. LayoutInv => PublicInputLayout
  BY DEF LayoutInv
<1> QED
  BY <1>1, <1>2, <1>3, PTL DEF Spec

------------------------------------------------------------------------------
(* What a run has consumed.                                                  *)

\* The transcript an instruction takes its elements from.
Transcript == [op \in {"PublicInput", "PrivateInput", "Impact"} |->
                 IF op = "PublicInput" THEN "public_out"
                 ELSE IF op = "PrivateInput" THEN "private" ELSE "public_in"]
Takers == {"PublicInput", "PrivateInput", "Impact"}

RawAt(k) == Encode(memory[src.inputs[k].name])

\* The names that tell what an executed instruction has taken are bound.
Settled(i) ==
  i.op \in Takers =>
    /\ i.args # <<>> => Resolvable(memory, Guard(i))
    /\ i.op = "Impact" /\ GuardOpen(i) => AllResolvable(memory, ImpactInputs(i))
    /\ i.op # "Impact" => i.outs[1] \in DOMAIN memory

RawReplayed ==
  /\ cur.raw <= Len(pre.inputs)
  /\ Taken(pre.inputs, 0, cur.raw) = FlattenSeq([k \in 1..Decoded |-> RawAt(k)])
  /\ \A k \in 1..Decoded : RawAt(k) \in Seq(Immediates)
StreamReplayed(op, stream) ==
  /\ cur[stream] <= Len(pre[stream])
  /\ Taken(pre[stream], 0, cur[stream]) = Replayed(op)
AllSettled ==
  \A k \in 1..Executed : /\ Settled(src.code[k])
                         /\ \A op \in Takers : TookAt(op, k) \in Seq(Immediates)
ReplayInv ==
  SingleAssignment(src) =>
    RawReplayed /\ AllSettled /\ \A op \in Takers : StreamReplayed(op, Transcript[op])

\* The seeding finds the raw inputs used up, and Finish everything else.
AcceptInv ==
  /\ Seeded => cur.raw = Len(pre.inputs)
  /\ status = "accepted" =>
       Seeded /\ Consumed /\ (src.comm => pre.comm # <<>> /\ pre.comm[1] = Commitment)

------------------------------------------------------------------------------
(* Pieces of a stream.                                                       *)

LEMMA TakenNone ==
  ASSUME NEW s, NEW at \in Nat
  PROVE  Taken(s, at, 0) = <<>>
  BY SubSeqEmpty DEF Taken

LEMMA TakenMore ==
  ASSUME NEW S, NEW s \in Seq(S), NEW at \in Nat, NEW w \in Nat, Available(s, at, w)
  PROVE  Taken(s, 0, at + w) = Cat(Taken(s, 0, at), Taken(s, at, w))
<1>1. Len(s) \in Nat
  BY LenProperties
<1>2. 1 \in 1..Len(s) + 1 /\ at \in 0..Len(s) /\ at + w \in at..Len(s)
  BY <1>1 DEF Available
<1>3. SubSeq(s, 1, at) \o SubSeq(s, at + 1, at + w) = SubSeq(s, 1, at + w)
  BY <1>2, ConcatAdjacentSubSeq
<1> QED
  BY <1>3 DEF Taken, Cat

\* A stream that has been replayed up to its cursor stays so when an item is
\* taken that is the next piece of it.
LEMMA StreamGrows ==
  ASSUME NEW stream \in Seq(Immediates), NEW at \in Nat, NEW w \in Nat,
         Available(stream, at, w), NEW n \in Nat, NEW s, NEW t,
         Grows(s, t, n, Taken(stream, at, w)),
         s \in Seq(Seq(Immediates)), Taken(stream, 0, at) = FlattenSeq(s)
  PROVE  Taken(stream, 0, at + w) = FlattenSeq(t)
<1>1. Taken(stream, at, w) \in Seq(Immediates)
  BY TakenIsSeq
<1>2. FlattenSeq(t) = Cat(FlattenSeq(s), Taken(stream, at, w))
  BY <1>1, FlattenGrows
<1> QED
  BY <1>2, TakenMore

------------------------------------------------------------------------------
(* What an executed instruction took stays what the memory says.             *)

Keeps(m, mm) == \A id \in DOMAIN m : id \in DOMAIN mm /\ mm[id] = m[id]

LEMMA ResolveSame ==
  ASSUME NEW m, NEW mm, Keeps(m, mm), NEW o \in Operand, Resolvable(m, o)
  PROVE  Resolvable(mm, o) /\ Resolve(mm, o) = Resolve(m, o)
<1>1. o[1] \in {"var", "imm"}
  BY DEF Operand
<1> QED
  BY <1>1 DEF Keeps, Resolvable, Resolve

LEMMA ResolveAllSame ==
  ASSUME NEW m, NEW mm, Keeps(m, mm), NEW os \in Seq(Operand), AllResolvable(m, os)
  PROVE  AllResolvable(mm, os) /\ ResolveAll(mm, os) = ResolveAll(m, os)
<1>1. \A i \in DOMAIN os : os[i] \in Operand /\ Resolvable(m, os[i])
  BY ElementOfSeq, LenProperties DEF AllResolvable
<1>2. \A i \in DOMAIN os : Resolvable(mm, os[i]) /\ Resolve(mm, os[i]) = Resolve(m, os[i])
  BY <1>1, ResolveSame
<1> QED
  BY <1>2 DEF AllResolvable, ResolveAll

LEMMA CodeTypes ==
  ASSUME TypeOK, NEW k \in 1..Len(src.code)
  PROVE  src.code[k] \in Instruction /\ WellShaped(src.code[k]) /\ k \in DOMAIN src.code
<1>1. src.code \in Seq(Instruction)
  BY JobTypes DEF Source
<1> QED
  BY <1>1, JobTypes, ElementOfSeq, LenProperties

LEMMA SettledStays ==
  ASSUME NEW i \in Instruction, WellShaped(i), Settled(i), Keeps(memory, memory')
  PROVE  /\ Settled(i)'
         /\ i.op \in Takers => /\ GuardOpen(i)' = GuardOpen(i)
                               /\ GuardOpen(i) => Took(i)' = Took(i)
<1> SUFFICES ASSUME i.op \in Takers
             PROVE  /\ Settled(i)' /\ GuardOpen(i)' = GuardOpen(i)
                    /\ GuardOpen(i) => Took(i)' = Took(i)
  BY DEF Settled
<1>1. i.args \in Seq(Operand)
  BY DEF Instruction
<1>2. i.args # <<>> =>
        /\ Resolvable(memory', Guard(i)) /\ Resolve(memory', Guard(i)) = Resolve(memory, Guard(i))
  <2> SUFFICES ASSUME i.args # <<>>
               PROVE  /\ Resolvable(memory', Guard(i))
                      /\ Resolve(memory', Guard(i)) = Resolve(memory, Guard(i))
    OBVIOUS
  <2>1. Guard(i) \in Operand
    BY <1>1, HeadTailProperties DEF Guard
  <2>2. Resolvable(memory, Guard(i))
    BY DEF Settled
  <2> QED
    BY <2>1, <2>2, ResolveSame
<1>3. GuardOpen(i)' = GuardOpen(i)
  BY <1>2 DEF GuardOpen, Guard
<1>4. CASE i.op = "Impact"
  <2>1. ImpactInputs(i) \in Seq(Operand)
    BY <1>1, <1>4, HeadTailProperties DEF ImpactInputs, WellShaped
  <2>2. GuardOpen(i) => /\ AllResolvable(memory', ImpactInputs(i))
                        /\ ResolveAll(memory', ImpactInputs(i)) = ResolveAll(memory, ImpactInputs(i))
    BY <1>4, <2>1, ResolveAllSame DEF Settled
  <2>3. GuardOpen(i) => Took(i)' = Took(i)
    BY <1>4, <2>2 DEF Took, ImpactInputs
  <2>4. Settled(i)'
    BY <1>2, <1>3, <1>4, <2>2 DEF Settled, Guard, ImpactInputs
  <2> QED
    BY <1>3, <2>3, <2>4
<1>5. CASE i.op # "Impact"
  <2>1. i.outs[1] \in DOMAIN memory' /\ memory'[i.outs[1]] = memory[i.outs[1]]
    BY <1>5 DEF Settled, Keeps
  <2>2. Took(i)' = Took(i)
    BY <1>5, <2>1 DEF Took
  <2>3. Settled(i)'
    BY <1>2, <1>5, <2>1 DEF Settled, Guard
  <2> QED
    BY <1>3, <2>2, <2>3
<1> QED
  BY <1>4, <1>5

LEMMA TookAtStays ==
  ASSUME TypeOK, NEW k \in 1..Len(src.code), Settled(src.code[k]), src' = src,
         Keeps(memory, memory'), NEW op \in Takers
  PROVE  Settled(src.code[k])' /\ TookAt(op, k)' = TookAt(op, k)
<1>1. PICK i : i = src.code[k] /\ i = src'.code[k]
  OBVIOUS
<1>2. i \in Instruction /\ WellShaped(i) /\ Settled(i)
  BY <1>1, CodeTypes
<1>3. /\ Settled(i)'
      /\ i.op \in Takers => GuardOpen(i)' = GuardOpen(i) /\ (GuardOpen(i) => Took(i)' = Took(i))
  BY <1>2, SettledStays
<1>4. TookAt(op, k)' = IF i.op = op /\ GuardOpen(i)' THEN Took(i)' ELSE <<>>
  BY <1>1 DEF TookAt
<1>5. TookAt(op, k) = IF i.op = op /\ GuardOpen(i) THEN Took(i) ELSE <<>>
  BY <1>1 DEF TookAt
<1>6. Settled(src.code[k])'
  BY <1>1, <1>3
<1> QED
  BY <1>3, <1>4, <1>5, <1>6

------------------------------------------------------------------------------
(* An instruction was executed.                                              *)

LEMMA StreamTypes ==
  ASSUME TypeOK, NEW stream \in {"public_in", "public_out", "private"}
  PROVE  pre[stream] \in Seq(Immediates) /\ cur[stream] \in Nat /\ Len(pre[stream]) \in Nat
<1>1. pre[stream] \in Seq(Immediates)
  BY JobTypes DEF Preimage
<1> QED
  BY <1>1, LenProperties DEF TypeOK, StreamNames

LEMMA StreamAdvance ==
  ASSUME IInv, AllSettled, NEW n \in Nat, n = Executed, Executed' = n + 1, n < Len(src.code),
         NEW op \in Takers, NEW stream \in {"public_in", "public_out", "private"},
         StreamReplayed(op, stream), src' = src, pre' = pre, Keeps(memory, memory'),
         NEW w \in Nat, Available(pre[stream], cur[stream], w), cur'[stream] = cur[stream] + w,
         TookAt(op, n + 1)' = Taken(pre[stream], cur[stream], w)
  PROVE  StreamReplayed(op, stream)' /\ TookAt(op, n + 1)' \in Seq(Immediates)
<1>1. PICK s : s = [k \in 1..n |-> TookAt(op, k)]
  OBVIOUS
<1>2. PICK t : t = [k \in 1..(n + 1) |-> TookAt(op, k)']
  OBVIOUS
<1>3. PICK x : x = Taken(pre[stream], cur[stream], w)
  OBVIOUS
<1>4. /\ pre[stream] \in Seq(Immediates) /\ cur[stream] \in Nat /\ Len(pre[stream]) \in Nat
      /\ Len(src.code) \in Nat
  BY StreamTypes, JobTypes, LenProperties DEF IInv, Source
<1>5. x \in Seq(Immediates)
  BY <1>3, <1>4, TakenIsSeq
<1>6. \A k \in 1..n : /\ TookAt(op, k)' = TookAt(op, k) /\ TookAt(op, k) \in Seq(Immediates)
  <2>1. \A k \in 1..n : k \in 1..Len(src.code) /\ Settled(src.code[k])
    BY <1>4 DEF AllSettled
  <2>2. \A k \in 1..n : TookAt(op, k)' = TookAt(op, k)
    BY <2>1, TookAtStays DEF IInv
  <2> QED
    BY <2>2 DEF AllSettled
<1>7. s \in Seq(Seq(Immediates))
  BY <1>1, <1>6, IsASeq
<1>8. Grows(s, t, n, x)
  BY <1>1, <1>2, <1>3, <1>6 DEF Grows
<1>9. Taken(pre[stream], 0, cur[stream]) = FlattenSeq(s)
  BY <1>1 DEF StreamReplayed, Replayed
<1>10. Taken(pre[stream], 0, cur[stream] + w) = FlattenSeq(t)
  BY <1>3, <1>4, <1>7, <1>8, <1>9, StreamGrows
<1>11. Replayed(op)' = FlattenSeq(t)
  BY <1>2 DEF Replayed
<1>12. cur'[stream] <= Len(pre'[stream])
  BY DEF Available
<1> QED
  BY <1>3, <1>5, <1>10, <1>11, <1>12 DEF StreamReplayed, Taken

LEMMA RawKeeps ==
  ASSUME RawReplayed, UNCHANGED <<src, pre>>, cur'.raw = cur.raw, Decoded' = Decoded,
         \A k \in 1..Decoded : memory'[src.inputs[k].name] = memory[src.inputs[k].name]
  PROVE  RawReplayed'
<1>1. \A k \in 1..Decoded : RawAt(k)' = RawAt(k)
  BY DEF RawAt
<1>2. [k \in 1..Decoded |-> RawAt(k)] = [k \in 1..Decoded' |-> RawAt(k)']
  BY <1>1
<1> QED
  BY <1>1, <1>2 DEF RawReplayed, Taken

\* What the instruction n + 1 took is the next piece of every transcript, empty
\* for the transcripts it does not take from.
TakesNext(op, n) ==
  \E w \in Nat :
    /\ Available(pre[Transcript[op]], cur[Transcript[op]], w)
    /\ cur'[Transcript[op]] = cur[Transcript[op]] + w
    /\ TookAt(op, n + 1)' = Taken(pre[Transcript[op]], cur[Transcript[op]], w)

LEMMA ReplayAdvance ==
  ASSUME IInv, IInv', ReplayInv, SingleAssignment(src), status = "executing",
         pc <= Len(src.code), UNCHANGED <<src, pre, status>>, pc' = pc + 1, cur'.raw = cur.raw,
         Keeps(memory, memory'), NEW n \in Nat, n + 1 = pc, Settled(src.code[n + 1])',
         \A op \in Takers : TakesNext(op, n)
  PROVE  ReplayInv'
<1>1. n = Executed /\ Executed' = n + 1 /\ n < Len(src.code) /\ Seeded /\ Seeded'
  BY ExecutedNext
<1>2. RawReplayed /\ AllSettled /\ \A op \in Takers : StreamReplayed(op, Transcript[op])
  BY DEF ReplayInv
<1>3. RawReplayed'
  <2>1. Decoded = Len(src.inputs) /\ Decoded' = Decoded
    BY <1>1 DEF Decoded
  <2>2. \A k \in 1..Decoded : src.inputs[k].name \in DOMAIN memory
    BY DEF IInv, DomainExact
  <2>3. \A k \in 1..Decoded : memory'[src.inputs[k].name] = memory[src.inputs[k].name]
    BY <2>2 DEF Keeps
  <2> QED
    BY <1>2, <2>1, <2>3, RawKeeps
<1>4. \A op \in Takers : Transcript[op] \in {"public_in", "public_out", "private"}
  BY DEF Takers, Transcript
<1>5. ASSUME NEW op \in Takers
      PROVE  StreamReplayed(op, Transcript[op])' /\ TookAt(op, n + 1)' \in Seq(Immediates)
  <2>1. PICK stream \in {"public_in", "public_out", "private"} : stream = Transcript[op]
    BY <1>4
  <2>2. PICK w \in Nat : /\ Available(pre[stream], cur[stream], w)
                         /\ cur'[stream] = cur[stream] + w
                         /\ TookAt(op, n + 1)' = Taken(pre[stream], cur[stream], w)
    BY <2>1 DEF TakesNext
  <2>3. StreamReplayed(op, stream)
    BY <1>2, <2>1
  <2>4. StreamReplayed(op, stream)' /\ TookAt(op, n + 1)' \in Seq(Immediates)
    BY <1>1, <1>2, <2>2, <2>3, StreamAdvance
  <2> QED
    BY <2>1, <2>4
<1>6. AllSettled'
  <2> SUFFICES ASSUME NEW k \in 1..(n + 1)
               PROVE  /\ Settled(src.code[k])'
                      /\ \A op \in Takers : TookAt(op, k)' \in Seq(Immediates)
    BY <1>1 DEF AllSettled
  <2>1. CASE k = n + 1
    BY <1>5, <2>1
  <2>2. CASE k # n + 1
    <3>1. k \in 1..n
      BY <2>2
    <3>2. k \in 1..Len(src.code)
      BY <1>1, <3>1, ExecutedRange
    <3>3. Settled(src.code[k]) /\ \A op \in Takers : TookAt(op, k) \in Seq(Immediates)
      BY <1>1, <1>2, <3>1 DEF AllSettled
    <3>4. Settled(src.code[k])' /\ \A op \in Takers : TookAt(op, k)' = TookAt(op, k)
      BY <3>2, <3>3, TookAtStays DEF IInv, Takers
    <3> QED
      BY <3>3, <3>4
  <2> QED
    BY <2>1, <2>2
<1> QED
  BY <1>3, <1>5, <1>6 DEF ReplayInv

------------------------------------------------------------------------------
(* The steps.                                                                *)

LEMMA ReplayInit == Init => ReplayInv /\ AcceptInv
<1> SUFFICES ASSUME Init PROVE ReplayInv /\ AcceptInv
  OBVIOUS
<1>1. /\ TypeOK /\ Executed = 0 /\ Decoded = 0 /\ ~Seeded /\ status = "decoding"
      /\ cur = [s \in StreamNames |-> 0]
  BY TypeInit DEF Init, Executed, Decoded, Seeded
<1>2. \A f, g : [k \in 1..0 |-> f] = <<>> /\ 1..0 = {}
  OBVIOUS
<1>3. AllSettled
  BY <1>1, <1>2 DEF AllSettled
<1>4. RawReplayed
  <2>1. pre.inputs \in Seq(Immediates) /\ Len(pre.inputs) \in Nat
    BY <1>1, JobTypes, LenProperties DEF Preimage
  <2>2. cur.raw = 0
    BY <1>1 DEF StreamNames
  <2>3. [k \in 1..Decoded |-> RawAt(k)] = <<>>
    BY <1>1
  <2> QED
    BY <1>1, <2>1, <2>2, <2>3, TakenNone, FlattenEmpty DEF RawReplayed
<1>5. ASSUME NEW op \in Takers
      PROVE  StreamReplayed(op, Transcript[op])
  <2>1. PICK stream \in {"public_in", "public_out", "private"} : stream = Transcript[op]
    BY DEF Takers, Transcript
  <2>2. cur[stream] = 0 /\ Len(pre[stream]) \in Nat
    BY <1>1, StreamTypes DEF StreamNames
  <2>3. [k \in 1..Executed |-> TookAt(op, k)] = <<>>
    BY <1>1
  <2>4. Replayed(op) = <<>>
    BY <2>3, FlattenEmpty DEF Replayed
  <2>5. Taken(pre[stream], 0, cur[stream]) = <<>>
    BY <2>2, TakenNone
  <2>6. cur[stream] <= Len(pre[stream])
    BY <2>2
  <2>7. StreamReplayed(op, stream)
    BY <2>4, <2>5, <2>6 DEF StreamReplayed
  <2> QED
    BY <2>1, <2>7
<1> QED
  BY <1>1, <1>3, <1>4, <1>5 DEF ReplayInv, AcceptInv

LEMMA ReplayStop ==
  ASSUME ReplayInv, UNCHANGED <<src, pre, pc, memory, pis, cur>>
  PROVE  ReplayInv'
<1>1. Executed' = Executed /\ Decoded' = Decoded /\ Seeded' = Seeded
  BY DEF Executed, Decoded, Seeded
<1>2. \A k : RawAt(k)' = RawAt(k) /\ \A op : TookAt(op, k)' = TookAt(op, k)
  BY DEF RawAt, TookAt, GuardOpen, Took, Guard, ImpactInputs
<1>3. \A i : Settled(i)' = Settled(i)
  BY DEF Settled, GuardOpen, Guard, ImpactInputs
<1>4. RawReplayed' = RawReplayed
  <2>1. [k \in 1..Decoded |-> RawAt(k)] = [k \in 1..Decoded' |-> RawAt(k)']
    BY <1>1, <1>2
  <2> QED
    BY <1>1, <1>2, <2>1 DEF RawReplayed, Taken
<1>5. \A op, stream : StreamReplayed(op, stream)' = StreamReplayed(op, stream)
  <2>1. \A op : Replayed(op)' = Replayed(op)
    BY <1>1, <1>2 DEF Replayed
  <2> QED
    BY <2>1 DEF StreamReplayed, Taken
<1>6. AllSettled' = AllSettled
  BY <1>1, <1>2, <1>3 DEF AllSettled
<1> QED
  BY <1>4, <1>5, <1>6 DEF ReplayInv

LEMMA ReplayReject ==
  ASSUME ReplayInv, NEW s, Stop(s)
  PROVE  ReplayInv'
  BY ReplayStop DEF Stop

\* No action of a source that is not single-assignment needs an argument.
LEMMA ReplayOther ==
  ASSUME ~SingleAssignment(src), src' = src
  PROVE  ReplayInv'
  BY DEF ReplayInv

LEMMA KeepsBinding ==
  ASSUME IInv, SingleAssignment(src), [Next]_pvars
  PROVE  Keeps(memory, memory')
<1>1. [Monotone]_pvars
  BY MonotoneNext
<1> QED
  BY <1>1 DEF Monotone, Keeps, pvars

LEMMA TakesNothing ==
  ASSUME TypeOK, NEW n \in Nat, NEW op \in Takers, cur'[Transcript[op]] = cur[Transcript[op]],
         TookAt(op, n + 1)' = <<>>, cur[Transcript[op]] <= Len(pre[Transcript[op]])
  PROVE  TakesNext(op, n)
<1>1. PICK stream \in {"public_in", "public_out", "private"} : stream = Transcript[op]
  BY DEF Takers, Transcript
<1>2. cur[stream] \in Nat /\ cur[stream] + 0 = cur[stream]
  BY StreamTypes
<1>3. Taken(pre[stream], cur[stream], 0) = <<>> /\ Available(pre[stream], cur[stream], 0)
  BY <1>1, <1>2, TakenNone DEF Available
<1> QED
  BY <1>1, <1>2, <1>3 DEF TakesNext

\* Instructions that take nothing: they are no Takers or are guarded off.
LEMMA ReplayIdle ==
  ASSUME IInv, IInv', ReplayInv, Next, status = "executing", pc <= Len(src.code),
         UNCHANGED <<src, pre, status, cur>>, pc' = pc + 1,
         Instr.op \in Takers =>
           /\ Instr.args # <<>> /\ Resolvable(memory', Guard(Instr))
           /\ Resolve(memory', Guard(Instr)).val = 0
           /\ Instr.op # "Impact" => Instr.outs[1] \in DOMAIN memory'
  PROVE  ReplayInv'
<1>1. CASE ~SingleAssignment(src)
  BY <1>1, ReplayOther
<1>2. CASE SingleAssignment(src)
  <2>1. Keeps(memory, memory')
    BY <1>2, KeepsBinding
  <2>2. PICK n \in Nat : n + 1 = pc
    <3>1. pc \in Nat \ {0}
      BY DEF IInv, TypeOK
    <3>2. pc - 1 \in Nat /\ (pc - 1) + 1 = pc
      BY <3>1
    <3> QED
      BY <3>2
  <2>3. PICK i : i = Instr
    OBVIOUS
  <2>4. i = src.code[n + 1] /\ i = src'.code[n + 1]
    BY <2>2, <2>3 DEF Instr
  <2>5. i.op \in Takers => ~GuardOpen(i)'
    BY <2>3 DEF GuardOpen, Guard
  <2>6. Settled(i)'
    BY <2>3, <2>5 DEF Settled, Guard
  <2>7. \A op \in Takers : TookAt(op, n + 1)' = <<>>
    BY <2>4, <2>5 DEF TookAt
  <2>8. \A op \in Takers : cur[Transcript[op]] <= Len(pre[Transcript[op]])
    BY <1>2 DEF ReplayInv, StreamReplayed
  <2>9. \A op \in Takers : TakesNext(op, n)
    BY <2>7, <2>8, TakesNothing DEF IInv
  <2>10. Settled(src.code[n + 1])'
    BY <2>4, <2>6
  <2> QED
    BY <1>2, <2>1, <2>2, <2>9, <2>10, ReplayAdvance
<1> QED
  BY <1>1, <1>2

\* Instructions that take w elements of their transcript.
LEMMA ReplayTakes ==
  ASSUME IInv, IInv', ReplayInv, Next, status = "executing", pc <= Len(src.code),
         UNCHANGED <<src, pre, status>>, pc' = pc + 1,
         NEW taker \in Takers, Instr.op = taker, NEW w \in Nat,
         cur' = [cur EXCEPT ![Transcript[taker]] = @ + w],
         Available(pre[Transcript[taker]], cur[Transcript[taker]], w),
         NEW i, i = Instr, Settled(i)', GuardOpen(i)',
         Took(i)' = Taken(pre[Transcript[taker]], cur[Transcript[taker]], w)
  PROVE  ReplayInv'
<1>1. CASE ~SingleAssignment(src)
  BY <1>1, ReplayOther
<1>2. CASE SingleAssignment(src)
  <2>1. Keeps(memory, memory')
    BY <1>2, KeepsBinding
  <2>2. PICK n \in Nat : n + 1 = pc
    <3>1. pc \in Nat \ {0}
      BY DEF IInv, TypeOK
    <3>2. pc - 1 \in Nat /\ (pc - 1) + 1 = pc
      BY <3>1
    <3> QED
      BY <3>2
  <2>3. i = src.code[n + 1] /\ i = src'.code[n + 1]
    BY <2>2 DEF Instr
  <2>4. /\ \A op \in Takers : Transcript[op] \in DOMAIN cur
        /\ \A op \in Takers : op # taker => Transcript[op] # Transcript[taker]
        /\ Transcript[taker] # "raw"
    <3>1. cur \in [StreamNames -> Nat]
      BY DEF IInv, TypeOK
    <3> QED
      BY <3>1 DEF Takers, Transcript, StreamNames
  <2>5. /\ cur'[Transcript[taker]] = cur[Transcript[taker]] + w
        /\ \A op \in Takers : op # taker => cur'[Transcript[op]] = cur[Transcript[op]]
        /\ cur'.raw = cur.raw
    BY <2>4 DEF IInv, TypeOK, StreamNames
  <2>6. TookAt(taker, n + 1)' = Took(i)'
    BY <2>3 DEF TookAt
  <2>7. TakesNext(taker, n)
    BY <2>5, <2>6 DEF TakesNext
  <2>8. ASSUME NEW op \in Takers, op # taker
        PROVE  TakesNext(op, n)
    <3>1. TookAt(op, n + 1)' = <<>>
      BY <2>3, <2>8 DEF TookAt
    <3>2. cur[Transcript[op]] <= Len(pre[Transcript[op]])
      BY <1>2 DEF ReplayInv, StreamReplayed
    <3>3. cur'[Transcript[op]] = cur[Transcript[op]]
      BY <2>5, <2>8
    <3> QED
      BY <3>1, <3>2, <3>3, TakesNothing DEF IInv
  <2>9. \A op \in Takers : TakesNext(op, n)
    BY <2>7, <2>8
  <2>10. Settled(src.code[n + 1])'
    BY <2>3
  <2> QED
    BY <1>2, <2>1, <2>2, <2>5, <2>9, <2>10, ReplayAdvance
<1> QED
  BY <1>1, <1>2

LEMMA ReplayDecodeInput ==
  ASSUME IInv, IInv', ReplayInv, DecodeInput
  PROVE  ReplayInv'
<1>1. CASE Reject
  BY <1>1, ReplayReject DEF Reject
<1>2. CASE ~Reject /\ ~SingleAssignment(src)
  BY <1>2, ReplayOther DEF DecodeInput
<1>3. CASE ~Reject /\ SingleAssignment(src)
  <2>1. PICK n \in Nat : n + 1 = pc
    <3>1. pc \in Nat \ {0}
      BY DEF IInv, TypeOK
    <3>2. pc - 1 \in Nat /\ (pc - 1) + 1 = pc
      BY <3>1
    <3> QED
      BY <3>2
  <2>2. PICK id : id = src.inputs[n + 1]
    OBVIOUS
  <2>3. /\ n + 1 <= Len(src.inputs) /\ Len(src.inputs) \in Nat /\ id.ty \in IrType
        /\ src.inputs[n + 1].name \notin DOMAIN memory
    <3>1. src.inputs \in Seq([name : Identifier, ty : IrType])
      BY JobTypes DEF IInv, Source
    <3>2. n + 1 \in 1..Len(src.inputs) /\ Len(src.inputs) \in Nat
      BY <2>1, <3>1, LenProperties DEF DecodeInput
    <3>3. id \in [name : Identifier, ty : IrType]
      BY <2>2, <3>1, <3>2, ElementOfSeq
    <3> QED
      BY <1>3, <2>1, <3>2, <3>3, FreshInput DEF DecodeInput
  <2>4. PICK w : w = encoded_len(id.ty)
    OBVIOUS
  <2>5. w \in Nat
    BY <2>3, <2>4, EncodedLenNat
  <2>6. PICK v : /\ Encode(v) = Taken(pre.inputs, cur.raw, w)
                 /\ Available(pre.inputs, cur.raw, w)
                 /\ memory' = Bind(memory, <<id.name>>, <<v>>)
                 /\ cur' = [cur EXCEPT !["raw"] = @ + w]
                 /\ pc' = pc + 1
                 /\ UNCHANGED <<src, pre, status, pis, pi_skips, outputs>>
    <3>1. \E v \in (IF Available(pre.inputs, cur.raw, w)
                    THEN Decode(Taken(pre.inputs, cur.raw, w), id.ty) ELSE {}) :
            /\ memory' = Bind(memory, <<id.name>>, <<v>>)
            /\ cur' = [cur EXCEPT !["raw"] = @ + w]
            /\ pc' = pc + 1
            /\ UNCHANGED <<src, pre, status, pis, pi_skips, outputs>>
      BY <1>3, <2>1, <2>2, <2>4 DEF DecodeInput
    <3> QED
      BY <3>1 DEF Decode
  <2>7. ~Seeded /\ ~Seeded' /\ Executed = 0 /\ Executed' = 0 /\ Decoded = n /\ Decoded' = n + 1
    BY <2>1, <2>6 DEF IInv, Stage, Seeded, Executed, Decoded, DecodeInput
  <2>8. memory'[id.name] = v
    <3>1. DOMAIN <<id.name>> = {1} /\ <<id.name>>[1] = id.name /\ ToSet(<<id.name>>) = {id.name}
      BY DEF ToSet
    <3> QED
      BY <2>6, <3>1 DEF Bind
  <2>9. \A k \in 1..n : RawAt(k)' = RawAt(k)
    <3>1. \A k \in 1..n : src.inputs[k].name \in DOMAIN memory
      BY <2>7 DEF IInv, DomainExact
    <3>2. Keeps(memory, memory')
      BY <1>3, KeepsBinding DEF Next, Step
    <3>3. src' = src
      BY <2>6
    <3> QED
      BY <3>1, <3>2, <3>3 DEF Keeps, RawAt
  <2>10. RawAt(n + 1)' = Taken(pre.inputs, cur.raw, w)
    BY <2>2, <2>6, <2>8 DEF RawAt
  <2>11. /\ pre.inputs \in Seq(Immediates) /\ Len(pre.inputs) \in Nat
         /\ cur.raw \in Nat /\ cur'.raw = cur.raw + w
    <3>1. pre.inputs \in Seq(Immediates)
      BY JobTypes DEF IInv, Preimage
    <3> QED
      BY <2>6, <3>1, LenProperties DEF IInv, TypeOK, StreamNames
  <2>12. RawReplayed'
    <3>1. PICK s : s = [k \in 1..n |-> RawAt(k)]
      OBVIOUS
    <3>2. PICK t : t = [k \in 1..(n + 1) |-> RawAt(k)']
      OBVIOUS
    <3>3. PICK x : x = Taken(pre.inputs, cur.raw, w)
      OBVIOUS
    <3>4. RawReplayed
      BY <1>3 DEF ReplayInv
    <3>5. s \in Seq(Seq(Immediates))
      BY <2>7, <3>1, <3>4, IsASeq DEF RawReplayed
    <3>6. Grows(s, t, n, x)
      BY <2>9, <2>10, <3>1, <3>2, <3>3 DEF Grows
    <3>7. Taken(pre.inputs, 0, cur.raw) = FlattenSeq(s)
      BY <2>7, <3>1, <3>4 DEF RawReplayed
    <3>8. Taken(pre.inputs, 0, cur.raw + w) = FlattenSeq(t)
      BY <2>5, <2>6, <2>11, <3>3, <3>5, <3>6, <3>7, StreamGrows
    <3>9. x \in Seq(Immediates)
      BY <2>5, <2>6, <2>11, <3>3, TakenIsSeq
    <3>10. \A k \in 1..(n + 1) : RawAt(k)' \in Seq(Immediates)
      BY <2>7, <2>9, <2>10, <3>3, <3>4, <3>9 DEF RawReplayed
    <3>11. cur.raw + w <= Len(pre.inputs)
      BY <2>6 DEF Available
    <3>12. pre' = pre
      BY <2>6
    <3> QED
      BY <2>7, <2>11, <3>2, <3>8, <3>10, <3>11, <3>12 DEF RawReplayed, Taken
  <2>13. AllSettled'
    BY <2>7 DEF AllSettled
  <2>14. ASSUME NEW op \in Takers
         PROVE  StreamReplayed(op, Transcript[op])'
    <3>1. PICK stream \in {"public_in", "public_out", "private"} : stream = Transcript[op]
      BY DEF Takers, Transcript
    <3>2. cur'[stream] = cur[stream] /\ pre' = pre
      BY <2>6 DEF IInv, TypeOK, StreamNames
    <3>3. Replayed(op)' = Replayed(op)
      <4>1. [k \in 1..Executed |-> TookAt(op, k)] = <<>>
        BY <2>7
      <4>2. [k \in 1..Executed' |-> TookAt(op, k)'] = <<>>
        BY <2>7
      <4> QED
        BY <4>1, <4>2 DEF Replayed
    <3>4. StreamReplayed(op, stream)
      BY <1>3, <3>1 DEF ReplayInv
    <3>5. StreamReplayed(op, stream)'
      BY <3>2, <3>3, <3>4 DEF StreamReplayed, Taken
    <3> QED
      BY <3>1, <3>5
  <2> QED
    BY <2>12, <2>13, <2>14 DEF ReplayInv
<1> QED
  BY <1>1, <1>2, <1>3

LEMMA ReplaySeed ==
  ASSUME IInv, IInv', ReplayInv, SeedPublicInputs
  PROVE  ReplayInv'
<1>1. CASE Reject
  BY <1>1, ReplayReject DEF Reject
<1>2. CASE ~Reject /\ ~SingleAssignment(src)
  BY <1>2, ReplayOther DEF SeedPublicInputs
<1>3. CASE ~Reject /\ SingleAssignment(src)
  <2>1. /\ UNCHANGED <<src, pre, memory, pi_skips, cur, outputs>>
        /\ status' = "executing" /\ pc' = 1
    BY <1>3 DEF SeedPublicInputs
  <2>2. Executed = 0 /\ Executed' = 0 /\ Decoded' = Decoded
    <3>1. ~Seeded /\ Seeded'
      BY <2>1 DEF IInv, Stage, Seeded, SeedPublicInputs
    <3>2. pc = Len(src.inputs) + 1 /\ Len(src.inputs) \in Nat
      BY JobTypes, LenProperties DEF IInv, TypeOK, Stage, SeedPublicInputs, Source
    <3> QED
      BY <2>1, <3>1, <3>2 DEF Executed, Decoded
  <2>3. RawReplayed'
    BY <1>3, <2>1, <2>2, RawKeeps DEF ReplayInv
  <2>4. AllSettled'
    BY <2>2 DEF AllSettled
  <2>5. \A op : Replayed(op)' = Replayed(op)
    <3>1. \A op : [k \in 1..Executed |-> TookAt(op, k)] = <<>>
      BY <2>2
    <3>2. \A op : [k \in 1..Executed' |-> TookAt(op, k)'] = <<>>
      BY <2>2
    <3> QED
      BY <3>1, <3>2 DEF Replayed
  <2>6. \A op \in Takers : StreamReplayed(op, Transcript[op])'
    BY <1>3, <2>1, <2>5 DEF ReplayInv, StreamReplayed, Taken, Transcript
  <2> QED
    BY <2>3, <2>4, <2>6 DEF ReplayInv
<1> QED
  BY <1>1, <1>2, <1>3

LEMMA ReplayCompute ==
  ASSUME IInv, IInv', ReplayInv, Compute \/ OutputValues
  PROVE  ReplayInv'
<1>1. CASE Reject
  BY <1>1, ReplayReject DEF Reject
<1>2. CASE ~Reject
  <2>1. UNCHANGED <<src, pre, status, cur>> /\ pc' = pc + 1
    BY <1>2 DEF Compute, OutputValues
  <2>2. status = "executing" /\ pc <= Len(src.code) /\ Instr.op \in ValueOps \cup {"Output"}
    BY DEF Compute, OutputValues, Fetch, Instr
  <2>3. Instr.op \notin Takers
    BY <2>2 DEF ValueOps, HashOps, Takers
  <2>4. Next
    BY DEF Next, Step
  <2> QED
    BY <2>1, <2>2, <2>3, <2>4, ReplayIdle
<1> QED
  BY <1>1, <1>2

\* A read binds its single output.
LEMMA BindOne ==
  ASSUME NEW m, NEW outs \in Seq(Identifier), Len(outs) = 1, NEW v
  PROVE  /\ outs[1] \in DOMAIN Bind(m, outs, <<v>>)
         /\ Bind(m, outs, <<v>>)[outs[1]] = v
<1>1. DOMAIN outs = {1}
  BY LenProperties
<1>2. ToSet(outs) = {outs[1]}
  BY <1>1 DEF ToSet
<1>3. (CHOOSE i \in DOMAIN outs : outs[i] = outs[1] /\ \A j \in DOMAIN outs : outs[j] = outs[1] => j <= i) = 1
  BY <1>1
<1>4. Bind(m, outs, <<v>>)[outs[1]] = <<v>>[1]
  BY <1>2, <1>3 DEF Bind
<1> QED
  BY <1>2, <1>4 DEF Bind

LEMMA ReplayRead ==
  ASSUME IInv, IInv', ReplayInv, NEW op \in Takers \ {"Impact"}, NEW stream,
         stream = Transcript[op], Read(op, stream), Next
  PROVE  ReplayInv'
<1> DEFINE guarded == Instr.args # <<>>
           closed == guarded /\ BoolOperand(memory, Instr.args[1])
                             /\ Resolve(memory, Instr.args[1]).val = 0
<1>1. CASE Reject \/ Stop("panicked")
  BY <1>1, ReplayReject DEF Reject
<1>2. /\ status = "executing" /\ pc <= Len(src.code) /\ Instr.op = op
      /\ Instr.outs \in Seq(Identifier) /\ Len(Instr.outs) = 1 /\ Instr.ty \in IrType
      /\ Instr.args \in Seq(Operand)
  BY InstrTypes, ReadShape DEF Read, Fetch, Instr, IInv, Takers
<1>3. guarded => Instr.args[1] \in Operand
  BY <1>2, ElementOfSeq, EmptySeq, LenProperties
<1>4. CASE /\ closed
           /\ memory' = Bind(memory, Instr.outs, <<Default(Instr.ty)>>)
           /\ pc' = pc + 1
           /\ UNCHANGED <<src, pre, status, pis, pi_skips, cur, outputs>>
  <2>1. Instr.outs[1] \in DOMAIN memory'
    BY <1>2, <1>4, BindOne
  <2>2. /\ Resolvable(memory', Guard(Instr)) /\ Resolve(memory', Guard(Instr)).val = 0
        \/ ~SingleAssignment(src)
    <3> SUFFICES ASSUME SingleAssignment(src)
                 PROVE  /\ Resolvable(memory', Guard(Instr))
                        /\ Resolve(memory', Guard(Instr)).val = 0
      OBVIOUS
    <3>1. Keeps(memory, memory')
      BY KeepsBinding
    <3>2. Guard(Instr) \in Operand /\ Resolvable(memory, Guard(Instr))
          /\ Resolve(memory, Guard(Instr)).val = 0
      BY <1>3, <1>4 DEF Guard, BoolOperand
    <3> QED
      BY <3>1, <3>2, ResolveSame
  <2>3. CASE ~SingleAssignment(src)
    BY <1>4, <2>3, ReplayOther
  <2>4. CASE SingleAssignment(src)
    BY <1>2, <1>4, <2>1, <2>2, <2>4, ReplayIdle
  <2> QED
    BY <2>3, <2>4
<1>5. ASSUME ~Reject, ~Stop("panicked"), ~(memory' = Bind(memory, Instr.outs, <<Default(Instr.ty)>>)
                                          /\ closed /\ cur' = cur)
      PROVE  ReplayInv'
  <2>1. CASE ~SingleAssignment(src)
    BY <1>5, <2>1, ReplayOther DEF Read
  <2>2. CASE SingleAssignment(src)
    <3>1. PICK i : i = Instr
      OBVIOUS
    <3>2. PICK w : w = encoded_len(i.ty)
      OBVIOUS
    <3>3. w \in Nat
      BY <1>2, <3>1, <3>2, EncodedLenNat
    <3>4. /\ guarded => BoolOperand(memory, Instr.args[1]) /\ ~closed
          /\ Available(pre[stream], cur[stream], w)
          /\ cur' = [cur EXCEPT ![stream] = @ + w]
          /\ pc' = pc + 1
          /\ UNCHANGED <<src, pre, status, pis, pi_skips, outputs>>
          /\ \E v \in Decode(Taken(pre[stream], cur[stream], w), i.ty) :
               memory' = Bind(memory, Instr.outs, <<v>>)
      BY <1>5, <3>1, <3>2 DEF Read
    <3>5. PICK v \in Decode(Taken(pre[stream], cur[stream], w), i.ty) :
                memory' = Bind(memory, Instr.outs, <<v>>)
      BY <3>4
    <3>6. i.outs[1] \in DOMAIN memory' /\ memory'[i.outs[1]] = v
      BY <1>2, <3>1, <3>5, BindOne
    <3>7. Took(i)' = Taken(pre[stream], cur[stream], w)
      BY <1>2, <3>1, <3>5, <3>6 DEF Took, Decode
    <3>8. i.args # <<>> =>
            Resolvable(memory', Guard(i)) /\ Resolve(memory', Guard(i)).val = 1
      <4> SUFFICES ASSUME i.args # <<>>
                   PROVE  Resolvable(memory', Guard(i)) /\ Resolve(memory', Guard(i)).val = 1
        OBVIOUS
      <4>1. Keeps(memory, memory')
        BY <2>2, KeepsBinding
      <4>2. /\ Guard(i) \in Operand /\ Resolvable(memory, Guard(i))
            /\ Resolve(memory, Guard(i)).val = 1
        BY <1>3, <3>1, <3>4 DEF Guard, BoolOperand, IsBit
      <4> QED
        BY <4>1, <4>2, ResolveSame
    <3>9. GuardOpen(i)' /\ Settled(i)'
      BY <1>2, <3>1, <3>6, <3>8 DEF GuardOpen, Settled, Guard
    <3> QED
      BY <1>2, <3>1, <3>3, <3>4, <3>7, <3>9, ReplayTakes
  <2> QED
    BY <2>1, <2>2
<1> QED
  BY <1>1, <1>4, <1>5 DEF Read

LEMMA ReplaySkipped ==
  ASSUME IInv, IInv', ReplayInv, ImpactSkipped
  PROVE  ReplayInv'
<1>1. /\ UNCHANGED <<src, pre, status, memory, cur>> /\ pc' = pc + 1
      /\ status = "executing" /\ pc <= Len(src.code) /\ Instr.op = "Impact"
      /\ Resolvable(memory, Guard(Instr)) /\ Resolve(memory, Guard(Instr)).val = 0
  BY DEF ImpactSkipped, Fetch, Instr, BoolOperand
<1>2. Instr.args # <<>>
  BY <1>1, InstrTypes DEF IInv, WellShaped
<1>3. Resolvable(memory', Guard(Instr)) /\ Resolve(memory', Guard(Instr)).val = 0
  BY <1>1
<1>4. Next
  BY DEF Next, Step
<1> QED
  BY <1>1, <1>2, <1>3, <1>4, ReplayIdle

LEMMA ReplayActive ==
  ASSUME IInv, IInv', ReplayInv, ImpactActive
  PROVE  ReplayInv'
<1>1. CASE Reject
  BY <1>1, ReplayReject DEF Reject
<1>2. CASE ~Reject
  <2>1. PICK i : i = Instr
    OBVIOUS
  <2>2. PICK w : w = Len(ImpactInputs(i))
    OBVIOUS
  <2>3. w \in Nat
    BY <2>1, <2>2, ImpactCount DEF IInv, ImpactActive
  <2>4. /\ UNCHANGED <<src, pre, status, memory>> /\ pc' = pc + 1
        /\ status = "executing" /\ pc <= Len(src.code) /\ Instr.op = "Impact"
        /\ cur' = [cur EXCEPT !["public_in"] = @ + w]
        /\ Available(pre.public_in, cur.public_in, w)
        /\ Taken(pre.public_in, cur.public_in, w) = Payloads(ResolveAll(memory, ImpactInputs(i)))
        /\ AllResolvable(memory, ImpactInputs(i))
        /\ Resolvable(memory, Guard(i)) /\ Resolve(memory, Guard(i)).val = 1
    BY <1>2, <2>1, <2>2 DEF ImpactActive, Fetch, Instr, BoolOperand, IsBit
  <2>5. memory' = memory
    BY <2>4
  <2>6. GuardOpen(i)' /\ Settled(i)' /\ Took(i)' = Taken(pre.public_in, cur.public_in, w)
    BY <2>1, <2>4, <2>5 DEF GuardOpen, Settled, Took, Guard, ImpactInputs
  <2>7. "Impact" \in Takers /\ Transcript["Impact"] = "public_in"
    BY DEF Takers, Transcript
  <2>8. Next
    BY DEF Next, Step
  <2> QED
    BY <2>1, <2>3, <2>4, <2>6, <2>7, <2>8, ReplayTakes
<1> QED
  BY <1>1, <1>2

LEMMA ReplayNext ==
  ASSUME IInv, IInv', ReplayInv, [Next]_pvars
  PROVE  ReplayInv'
<1>1. CASE Step
  <2>1. Next
    BY <1>1 DEF Next
  <2>2. CASE Finish
    BY <2>2, ReplayReject DEF Finish, Reject
  <2>3. CASE ReadPublic
    BY <2>1, <2>3, ReplayRead DEF ReadPublic, Takers, Transcript
  <2>4. CASE ReadPrivate
    BY <2>1, <2>4, ReplayRead DEF ReadPrivate, Takers, Transcript
  <2> QED
    BY <1>1, <2>2, <2>3, <2>4, ReplayDecodeInput, ReplaySeed, ReplayCompute, ReplaySkipped,
       ReplayActive DEF Step
<1>2. CASE UNCHANGED pvars
  BY <1>2, ReplayStop DEF pvars
<1> QED
  BY <1>1, <1>2 DEF Next, Terminated

\* Only Finish accepts, and what it has compared stays.
LEMMA AcceptStop ==
  ASSUME AcceptInv, NEW s, s # "accepted", Stop(s)
  PROVE  AcceptInv'
  BY DEF Stop, AcceptInv, Seeded

LEMMA AcceptNext ==
  ASSUME IInv, IInv', AcceptInv, [Next]_pvars
  PROVE  AcceptInv'
<1>1. CASE UNCHANGED pvars
  BY <1>1 DEF pvars, AcceptInv, Seeded, Consumed, Commitment
<1>2. CASE Reject \/ Stop("panicked")
  BY <1>2, AcceptStop DEF Reject
<1>3. CASE DecodeInput /\ ~Reject
  <2>1. ~Seeded' /\ status' # "accepted"
    BY <1>3 DEF DecodeInput, IInv, Stage, Seeded
  <2> QED
    BY <2>1 DEF AcceptInv
<1>4. CASE SeedPublicInputs /\ ~Reject
  <2>1. cur'.raw = Len(pre'.inputs) /\ status' # "accepted"
    BY <1>4 DEF SeedPublicInputs
  <2> QED
    BY <2>1 DEF AcceptInv
<1>5. CASE Finish /\ ~Reject
  <2>1. Consumed /\ (src.comm => pre.comm # <<>> /\ pre.comm[1] = Commitment) /\ Stop("accepted")
    BY <1>5 DEF Finish
  <2>2. Seeded
    BY <1>5 DEF Finish, IInv, Stage, Seeded
  <2> QED
    BY <2>1, <2>2 DEF AcceptInv, Stop, Seeded, Consumed, Commitment
<1>6. ASSUME status = "executing", status' = status, pre' = pre, cur'.raw = cur.raw
      PROVE  AcceptInv'
  BY <1>6 DEF AcceptInv, IInv, Stage, Seeded
<1>7. CASE (Compute \/ OutputValues \/ ImpactSkipped) /\ ~Reject
  <2>1. status = "executing" /\ status' = status /\ pre' = pre /\ cur' = cur
    BY <1>7 DEF Compute, OutputValues, ImpactSkipped, Fetch
  <2> QED
    BY <1>6, <2>1
<1>8. ASSUME NEW stream \in StreamNames \ {"raw"}, NEW w, cur' = [cur EXCEPT ![stream] = w]
      PROVE  cur'.raw = cur.raw
  BY <1>8 DEF IInv, TypeOK, StreamNames
<1>9. CASE ImpactActive /\ ~Reject
  <2>1. status = "executing" /\ status' = status /\ pre' = pre
        /\ \E w : cur' = [cur EXCEPT !["public_in"] = w]
    BY <1>9 DEF ImpactActive, Fetch
  <2> QED
    BY <1>6, <1>8, <2>1 DEF StreamNames
<1>10. ASSUME NEW op, NEW stream \in StreamNames \ {"raw"}, Read(op, stream), ~Reject,
              ~Stop("panicked")
       PROVE  AcceptInv'
  <2>1. status = "executing" /\ status' = status /\ pre' = pre
        /\ (cur' = cur \/ \E w : cur' = [cur EXCEPT ![stream] = w])
    BY <1>10 DEF Read, Fetch
  <2> QED
    BY <1>6, <1>8, <2>1
<1>11. CASE (ReadPublic \/ ReadPrivate) /\ ~Reject /\ ~Stop("panicked")
  BY <1>10, <1>11 DEF ReadPublic, ReadPrivate, StreamNames
<1> QED
  BY <1>1, <1>2, <1>3, <1>4, <1>5, <1>7, <1>9, <1>11 DEF Next, Step, Terminated

------------------------------------------------------------------------------
(* The theorems.                                                             *)

FullInv == IInv /\ ReplayInv /\ AcceptInv

LEMMA FullInvariant == Spec => []FullInv
<1>1. Init => FullInv
  BY DomainInit, ReplayInit DEF FullInv
<1>2. FullInv /\ [Next]_pvars => FullInv'
  BY DomainNext, ReplayNext, AcceptNext DEF FullInv
<1> QED
  BY <1>1, <1>2, PTL DEF Spec

LEMMA InputsReplayed ==
  ASSUME FullInv, Seeded, SingleAssignment(src)
  PROVE  pre.inputs = EncodeAll(InputValues)
<1>1. pre.inputs \in Seq(Immediates) /\ DOMAIN src.inputs = 1..Len(src.inputs)
  BY JobTypes, LenProperties DEF FullInv, IInv, Preimage, Source
<1>2. Taken(pre.inputs, 0, Len(pre.inputs)) = pre.inputs
  BY <1>1, SubSeqFull DEF Taken
<1>3. [k \in 1..Decoded |-> RawAt(k)]
        = [i \in DOMAIN InputValues |-> Encode(InputValues[i])]
  BY <1>1 DEF Decoded, RawAt, InputValues
<1>4. Taken(pre.inputs, 0, cur.raw) = FlattenSeq([k \in 1..Decoded |-> RawAt(k)])
  BY DEF FullInv, ReplayInv, RawReplayed
<1> QED
  BY <1>2, <1>3, <1>4 DEF FullInv, AcceptInv, EncodeAll

LEMMA StreamsReplayed ==
  ASSUME FullInv, SingleAssignment(src)
  PROVE  /\ StreamReplayed("PublicInput", "public_out")
         /\ StreamReplayed("PrivateInput", "private")
         /\ StreamReplayed("Impact", "public_in")
<1>1. /\ Transcript["PublicInput"] = "public_out" /\ Transcript["PrivateInput"] = "private"
      /\ Transcript["Impact"] = "public_in"
      /\ {"PublicInput", "PrivateInput", "Impact"} = Takers
  BY DEF Transcript, Takers
<1> QED
  BY <1>1 DEF FullInv, ReplayInv

\* Whatever a single-assignment run has consumed can be recomputed from its
\* memory, at every point of the run: no codec is lenient, no cursor is off and
\* no guard or value changes after it has been used.
THEOREM RunsReplay == Spec => []TranscriptReplay
<1>1. FullInv => TranscriptReplay
  BY InputsReplayed, StreamsReplayed DEF TranscriptReplay, StreamReplayed
<1> QED
  BY <1>1, FullInvariant, PTL

\* An accepted run used its preimage to the last element, and its commitment
\* opens to the encoding of the final inputs and outputs, which is what the
\* circuit hashes.
THEOREM AcceptedRunsBound == Spec => []AcceptedBound
<1>1. FullInv => AcceptedBound
  <2> SUFFICES ASSUME FullInv, status = "accepted", SingleAssignment(src)
               PROVE  /\ pre.public_out = Replayed("PublicInput")
                      /\ pre.private = Replayed("PrivateInput")
                      /\ pre.public_in = Replayed("Impact")
                      /\ src.comm => pre.comm[1] = Poseidon(<<pre.comm[2]>>
                                        \o EncodeAll(InputValues) \o EncodeAll(outputs))
    BY DEF AcceptedBound
  <2>1. Seeded /\ Consumed /\ (src.comm => pre.comm[1] = Commitment)
    BY DEF FullInv, AcceptInv
  <2>2. \A stream \in {"public_in", "public_out", "private"} :
          Taken(pre[stream], 0, Len(pre[stream])) = pre[stream]
    BY StreamTypes, SubSeqFull DEF FullInv, IInv, Taken
  <2>3. pre.public_out = Replayed("PublicInput")
    BY <2>1, <2>2, StreamsReplayed DEF Consumed, StreamReplayed
  <2>4. pre.private = Replayed("PrivateInput")
    BY <2>1, <2>2, StreamsReplayed DEF Consumed, StreamReplayed
  <2>5. pre.public_in = Replayed("Impact")
    BY <2>1, <2>2, StreamsReplayed DEF Consumed, StreamReplayed
  <2>6. pre.inputs = EncodeAll(InputValues)
    BY <2>1, InputsReplayed
  <2>7. src.comm => pre.comm[1] = Poseidon(<<pre.comm[2]>> \o EncodeAll(InputValues)
                                                           \o EncodeAll(outputs))
    BY <2>1, <2>6 DEF Commitment
  <2> QED
    BY <2>3, <2>4, <2>5, <2>7
<1> QED
  BY <1>1, FullInvariant, PTL

------------------------------------------------------------------------------
(* What the memory says of the instructions executed.                        *)

\* The names bound when the run comes to instruction k, and the operands of it
\* that are among them.
NamesAt(k) ==
  {src.inputs[i].name : i \in DOMAIN src.inputs} \cup UNION {ToSet(src.code[i].outs) : i \in 1..k - 1}
Early(k, o) == o[1] = "var" => o[2] \in NamesAt(k)
AllEarly(k, os) == \A j \in DOMAIN os : Early(k, os[j])

\* The operands preprocess looks at.
LookedAt(i) == IF i.op = "Impact" /\ ~GuardOpen(i) THEN <<Guard(i)>> ELSE i.args

\* What each kind of instruction i has checked and bound, in the present memory.
HasComputed(i) ==
  \E vals \in OffGate(i, ResolveAll(memory, i.args)) :
    \A j \in DOMAIN i.outs : memory[i.outs[j]] = vals[j]
HasRead(i) ==
  /\ memory[i.outs[1]].ty = i.ty
  /\ i.args # <<>> =>
       /\ IsBit(Resolve(memory, Guard(i)))
       /\ Resolve(memory, Guard(i)).val = 0 => memory[i.outs[1]] = Default(i.ty)
HasPushed(i) ==
  /\ IsBit(Resolve(memory, Guard(i)))
  /\ GuardOpen(i) => AllFr(ResolveAll(memory, ImpactInputs(i)))
HasPut(i) ==
  /\ Len(i.args) = Len(src.outputs)
  /\ \A j \in DOMAIN i.args : Resolve(memory, i.args[j]).ty = src.outputs[j]
Passed(i) ==
  /\ i.op \in ValueOps => HasComputed(i)
  /\ i.op \in {"PublicInput", "PrivateInput"} => HasRead(i)
  /\ i.op = "Impact" => HasPushed(i)
  /\ i.op = "Output" => HasPut(i)

\* The public inputs and the outputs it has added.
Pushed(i) ==
  IF i.op # "Impact" THEN <<>>
  ELSE IF GuardOpen(i) THEN Payloads(ResolveAll(memory, ImpactInputs(i)))
                       ELSE Zeros(Len(ImpactInputs(i)))
Put(i) == IF i.op = "Output" THEN ResolveAll(memory, i.args) ELSE <<>>
PushedTo(n) == FlattenSeq([k \in 1..n |-> Pushed(src.code[k])])
PutTo(n) == FlattenSeq([k \in 1..n |-> Put(src.code[k])])

\* Instruction k was executed, as the memory has it.
Traced(k) ==
  /\ AllEarly(k, LookedAt(src.code[k])) /\ Passed(src.code[k])
  /\ Pushed(src.code[k]) \in Seq(Immediates) /\ Put(src.code[k]) \in Seq(TypedValue)

\* The memory of a single-assignment run accounts for every instruction executed.
TraceInv ==
  SingleAssignment(src) =>
    /\ \A i \in 1..Decoded : memory[src.inputs[i].name].ty = src.inputs[i].ty
    /\ \A k \in 1..Executed : Traced(k)
    /\ Seeded => Header \in Seq(Immediates) /\ pis = Cat(Header, PushedTo(Executed))
    /\ outputs = PutTo(Executed)

\* What was looked at, checked and added does not change when names are added.
LEMMA PassedStays ==
  ASSUME NEW i \in Instruction, WellShaped(i), AllResolvable(memory, LookedAt(i)),
         ToSet(i.outs) \subseteq DOMAIN memory, Passed(i), Keeps(memory, memory'), src' = src
  PROVE  /\ Passed(i)' /\ LookedAt(i)' = LookedAt(i)
         /\ Pushed(i)' = Pushed(i) /\ Put(i)' = Put(i)
<1>1. i.args \in Seq(Operand) /\ i.outs \in Seq(Identifier)
  BY DEF Instruction
<1>2. \A j \in DOMAIN i.outs : i.outs[j] \in DOMAIN memory /\ memory'[i.outs[j]] = memory[i.outs[j]]
  BY DEF ToSet, Keeps
<1>3. CASE i.op \in ValueOps \cup {"Output"}
  <2>1. LookedAt(i) = i.args /\ LookedAt(i)' = i.args
    BY <1>3 DEF LookedAt, ValueOps, HashOps
  <2>2. ResolveAll(memory', i.args) = ResolveAll(memory, i.args)
    BY <1>1, <2>1, ResolveAllSame
  <2>3. Pushed(i) = <<>> /\ Pushed(i)' = <<>>
    BY <1>3 DEF Pushed, ValueOps, HashOps
  <2>4. Put(i)' = Put(i)
    BY <2>2 DEF Put
  <2>5. HasComputed(i) => HasComputed(i)'
    BY <1>2, <2>2 DEF HasComputed
  <2>6. HasPut(i) => HasPut(i)'
    <3>1. \A j \in DOMAIN i.args : Resolve(memory', i.args[j]) = Resolve(memory, i.args[j])
      BY <2>2 DEF ResolveAll
    <3> QED
      BY <3>1 DEF HasPut
  <2> QED
    BY <1>3, <2>1, <2>3, <2>4, <2>5, <2>6 DEF Passed, ValueOps, HashOps
<1>4. CASE i.op \in {"PublicInput", "PrivateInput"}
  <2>1. LookedAt(i) = i.args /\ LookedAt(i)' = i.args
    BY <1>4 DEF LookedAt
  <2>2. i.args # <<>> => Resolve(memory', Guard(i)) = Resolve(memory, Guard(i))
    <3> SUFFICES ASSUME i.args # <<>> PROVE Resolve(memory', Guard(i)) = Resolve(memory, Guard(i))
      OBVIOUS
    <3>1. Guard(i) \in Operand /\ 1 \in DOMAIN i.args
      BY <1>1, HeadTailProperties, LenProperties, EmptySeq DEF Guard
    <3>2. Resolvable(memory, Guard(i))
      BY <2>1, <3>1 DEF AllResolvable, Guard
    <3> QED
      BY <3>1, <3>2, ResolveSame
  <2>3. 1 \in DOMAIN i.outs
    <3>1. Len(i.outs) = 1
      BY <1>4, ReadShape
    <3> QED
      BY <1>1, <3>1, LenProperties
  <2>4. HasRead(i) => HasRead(i)'
    BY <1>2, <2>2, <2>3 DEF HasRead, Guard
  <2> QED
    BY <1>4, <2>1, <2>4 DEF Passed, ValueOps, HashOps, Pushed, Put
<1>5. CASE i.op = "Impact"
  <2>1. i.args # <<>>
    BY <1>5 DEF WellShaped
  <2>2. /\ Guard(i) \in Operand /\ ImpactInputs(i) \in Seq(Operand) /\ 1 \in DOMAIN i.args
        /\ \A j \in DOMAIN ImpactInputs(i) : j + 1 \in DOMAIN i.args /\ ImpactInputs(i)[j] = i.args[j + 1]
    BY <1>1, <2>1, HeadTailProperties, LenProperties, EmptySeq DEF Guard, ImpactInputs
  <2>3. Resolvable(memory, Guard(i))
    <3>1. LookedAt(i)[1] = Guard(i) /\ 1 \in DOMAIN LookedAt(i)
      BY <2>2 DEF LookedAt, Guard
    <3> QED
      BY <3>1 DEF AllResolvable
  <2>4. Resolve(memory', Guard(i)) = Resolve(memory, Guard(i))
    BY <2>2, <2>3, ResolveSame
  <2>5. GuardOpen(i)' = GuardOpen(i)
    BY <2>4 DEF GuardOpen, Guard
  <2>6. GuardOpen(i) => ResolveAll(memory', ImpactInputs(i)) = ResolveAll(memory, ImpactInputs(i))
    <3> SUFFICES ASSUME GuardOpen(i)
                 PROVE  ResolveAll(memory', ImpactInputs(i)) = ResolveAll(memory, ImpactInputs(i))
      OBVIOUS
    <3>1. LookedAt(i) = i.args
      BY DEF LookedAt
    <3>2. AllResolvable(memory, ImpactInputs(i))
      BY <2>2, <3>1 DEF AllResolvable
    <3> QED
      BY <2>2, <3>2, ResolveAllSame
  <2>7. LookedAt(i)' = LookedAt(i)
    BY <2>5 DEF LookedAt, Guard
  <2>8. Pushed(i)' = Pushed(i) /\ Put(i)' = Put(i)
    BY <1>5, <2>5, <2>6 DEF Pushed, Put, ImpactInputs
  <2>9. HasPushed(i) => HasPushed(i)'
    BY <2>4, <2>5, <2>6 DEF HasPushed, Guard, ImpactInputs
  <2> QED
    BY <1>5, <2>7, <2>8, <2>9 DEF Passed, ValueOps, HashOps
<1> QED
  BY <1>3, <1>4, <1>5 DEF Instruction, ControlOps

\* The names bound by now are those of the present instruction and of all before.
LEMMA NamesBound ==
  ASSUME IInv, Seeded
  PROVE  /\ NamesAt(Executed + 1) = DOMAIN memory
         /\ \A k \in 1..Executed : /\ NamesAt(k) \subseteq DOMAIN memory
                                   /\ ToSet(src.code[k].outs) \subseteq DOMAIN memory
<1>1. DOMAIN src.inputs = 1..Len(src.inputs)
  BY JobTypes, LenProperties DEF IInv, Source
<1>2. PICK n \in Int : n = Executed
  BY DEF IInv, TypeOK, Executed
<1>3. DOMAIN memory = {src.inputs[i].name : i \in 1..Decoded}
                        \cup UNION {ToSet(src.code[i].outs) : i \in 1..n}
  BY <1>2 DEF IInv, DomainExact
<1>4. {src.inputs[i].name : i \in DOMAIN src.inputs} = {src.inputs[i].name : i \in 1..Decoded}
  BY <1>1 DEF Decoded
<1>5. NamesAt(n + 1) = DOMAIN memory
  <2>1. (n + 1) - 1 = n
    OBVIOUS
  <2> QED
    BY <1>3, <1>4, <2>1 DEF NamesAt
<1>6. ASSUME NEW k \in 1..n
      PROVE  /\ NamesAt(k) \subseteq DOMAIN memory
             /\ ToSet(src.code[k].outs) \subseteq DOMAIN memory
  <2>1. 1..k - 1 \subseteq 1..n
    OBVIOUS
  <2>2. UNION {ToSet(src.code[i].outs) : i \in 1..k - 1} \subseteq DOMAIN memory
    BY <1>3, <2>1
  <2> QED
    BY <1>3, <1>4, <2>2 DEF NamesAt
<1> QED
  BY <1>2, <1>5, <1>6

LEMMA EarlyIs ==
  ASSUME NEW k, NEW os
  PROVE  /\ NamesAt(k) \subseteq DOMAIN memory /\ AllEarly(k, os) => AllResolvable(memory, os)
         /\ NamesAt(k) = DOMAIN memory /\ AllResolvable(memory, os) => AllEarly(k, os)
BY DEF AllEarly, Early, AllResolvable, Resolvable

LEMMA TracedStays ==
  ASSUME IInv, Seeded, NEW k \in 1..Executed, k \in 1..Len(src.code), Traced(k),
         Keeps(memory, memory'), src' = src
  PROVE  /\ Traced(k)'
         /\ Pushed(src.code[k])' = Pushed(src.code[k]) /\ Put(src.code[k])' = Put(src.code[k])
<1>1. PICK i : i = src.code[k] /\ i = src'.code[k]
  OBVIOUS
<1>2. i \in Instruction /\ WellShaped(i)
  BY <1>1, CodeTypes DEF IInv
<1>3. AllEarly(k, LookedAt(i)) /\ Passed(i)
      /\ Pushed(i) \in Seq(Immediates) /\ Put(i) \in Seq(TypedValue)
  BY <1>1 DEF Traced
<1>4. AllResolvable(memory, LookedAt(i)) /\ ToSet(i.outs) \subseteq DOMAIN memory
  BY <1>1, <1>3, NamesBound, EarlyIs
<1>5. /\ Passed(i)' /\ LookedAt(i)' = LookedAt(i)
      /\ Pushed(i)' = Pushed(i) /\ Put(i)' = Put(i)
  BY <1>2, <1>3, <1>4, PassedStays
<1>6. AllEarly(k, LookedAt(i))'
  BY <1>3, <1>5 DEF AllEarly, Early, NamesAt
<1> QED
  BY <1>1, <1>3, <1>5, <1>6 DEF Traced

\* An instruction was executed.
LEMMA TraceAdvance ==
  ASSUME IInv, IInv', TraceInv, SingleAssignment(src), status = "executing",
         pc <= Len(src.code), UNCHANGED <<src, pre, status>>, pc' = pc + 1,
         Keeps(memory, memory'), NEW i, i = Instr, AllResolvable(memory, LookedAt(i)'),
         Passed(i)', Pushed(i)' \in Seq(Immediates), Put(i)' \in Seq(TypedValue),
         pis' = Cat(pis, Pushed(i)'), outputs' = Cat(outputs, Put(i)')
  PROVE  TraceInv'
<1>1. PICK n \in Nat : n = Executed /\ Executed' = n + 1 /\ n < Len(src.code) /\ n + 1 = pc
  BY ExecutedNext
<1>2. Seeded /\ Seeded'
  BY ExecutedNext
<1>3. i = src.code[n + 1] /\ i = src'.code[n + 1]
  BY <1>1 DEF Instr
<1>4. /\ \A j \in 1..Decoded : memory[src.inputs[j].name].ty = src.inputs[j].ty
      /\ \A k \in 1..n : Traced(k)
      /\ Header \in Seq(Immediates) /\ pis = Cat(Header, PushedTo(n)) /\ outputs = PutTo(n)
  BY <1>1, <1>2 DEF TraceInv
<1>5. Decoded' = Decoded
  BY <1>2 DEF Decoded
<1>6. \A j \in 1..Decoded : memory'[src.inputs[j].name].ty = src.inputs[j].ty
  <2>1. \A j \in 1..Decoded : src.inputs[j].name \in DOMAIN memory
    BY DEF IInv, DomainExact
  <2> QED
    BY <1>4, <2>1 DEF Keeps
<1>7. Len(src.code) \in Nat
  BY ExecutedRange
<1>8. \A k \in 1..n : Traced(k)' /\ Pushed(src.code[k])' = Pushed(src.code[k])
                                 /\ Put(src.code[k])' = Put(src.code[k])
  <2>1. \A k \in 1..n : k \in 1..Len(src.code) /\ k \in 1..Executed
    BY <1>1, <1>7
  <2> QED
    BY <1>2, <1>4, <2>1, TracedStays
<1>9. Traced(n + 1)'
  <2>1. NamesAt(n + 1) = DOMAIN memory
    BY <1>1, <1>2, NamesBound
  <2>2. AllEarly(n + 1, LookedAt(i)')
    BY <2>1, EarlyIs
  <2>3. AllEarly(n + 1, LookedAt(i))'
    BY <2>2 DEF AllEarly, Early, NamesAt
  <2> QED
    BY <1>3, <2>3 DEF Traced
<1>10. \A k \in 1..n + 1 : Traced(k)'
  <2>1. \A k \in 1..n + 1 : k \in 1..n \/ k = n + 1
    OBVIOUS
  <2> QED
    BY <1>8, <1>9, <2>1
<1>11. Header' = Header
  BY DEF Header
<1>12. PushedTo(n + 1)' = Cat(PushedTo(n), Pushed(i)') /\ PushedTo(n) \in Seq(Immediates)
  <2>1. PICK s : s = [k \in 1..n |-> Pushed(src.code[k])]
    OBVIOUS
  <2>2. PICK t : t = [k \in 1..n + 1 |-> Pushed(src.code[k])']
    OBVIOUS
  <2>3. s \in Seq(Seq(Immediates))
    BY <1>4, <2>1, IsASeq DEF Traced
  <2>4. PICK x : x = Pushed(i)'
    OBVIOUS
  <2>5. t[n + 1] = x /\ \A k \in 1..n : t[k] = s[k]
    BY <1>3, <1>8, <2>1, <2>2, <2>4
  <2>6. Grows(s, t, n, x)
    BY <2>1, <2>2, <2>5 DEF Grows
  <2>7. FlattenSeq(s) \in Seq(Immediates) /\ FlattenSeq(t) = Cat(FlattenSeq(s), x)
    BY <2>3, <2>4, <2>6, FlattenGrows
  <2> QED
    BY <2>1, <2>2, <2>4, <2>7 DEF PushedTo
<1>13. PutTo(n + 1)' = Cat(PutTo(n), Put(i)')
  <2>1. PICK s : s = [k \in 1..n |-> Put(src.code[k])]
    OBVIOUS
  <2>2. PICK t : t = [k \in 1..n + 1 |-> Put(src.code[k])']
    OBVIOUS
  <2>3. s \in Seq(Seq(TypedValue))
    BY <1>4, <2>1, IsASeq DEF Traced
  <2>4. PICK x : x = Put(i)'
    OBVIOUS
  <2>5. t[n + 1] = x /\ \A k \in 1..n : t[k] = s[k]
    BY <1>3, <1>8, <2>1, <2>2, <2>4
  <2>6. Grows(s, t, n, x)
    BY <2>1, <2>2, <2>5 DEF Grows
  <2>7. FlattenSeq(t) = Cat(FlattenSeq(s), x)
    BY <2>3, <2>4, <2>6, FlattenGrows
  <2> QED
    BY <2>1, <2>2, <2>4, <2>7 DEF PutTo
<1>14. pis' = Cat(Header, Cat(PushedTo(n), Pushed(i)'))
  BY <1>4, <1>12, CatAssociative
<1>15. PICK m : m = n + 1 /\ m = Executed'
  BY <1>1
<1>16. pis' = Cat(Header, PushedTo(m))' /\ outputs' = PutTo(m)'
  BY <1>4, <1>11, <1>12, <1>13, <1>14, <1>15
<1> QED
  BY <1>4, <1>5, <1>6, <1>10, <1>11, <1>15, <1>16 DEF TraceInv

LEMMA TraceInit == Init => TraceInv
<1> SUFFICES ASSUME Init PROVE TraceInv
  OBVIOUS
<1>1. ~Seeded /\ Executed = 0 /\ Decoded = 0 /\ outputs = <<>>
  BY DEF Init, Seeded, Executed, Decoded
<1>2. PutTo(0) = <<>>
  <2>1. [k \in 1..0 |-> Put(src.code[k])] = <<>>
    OBVIOUS
  <2> QED
    BY <2>1, FlattenEmpty DEF PutTo
<1> QED
  BY <1>1, <1>2 DEF TraceInv

LEMMA TraceSame ==
  ASSUME TraceInv, UNCHANGED <<src, pre, pc, memory, pis, outputs>>
  PROVE  TraceInv'
<1>1. Executed' = Executed /\ Decoded' = Decoded /\ Seeded' = Seeded /\ Header' = Header
  BY DEF Executed, Decoded, Seeded, Header
<1>2. \A i : /\ LookedAt(i)' = LookedAt(i) /\ Passed(i)' = Passed(i)
             /\ Pushed(i)' = Pushed(i) /\ Put(i)' = Put(i)
  BY DEF LookedAt, Passed, HasComputed, HasRead, HasPushed, HasPut, Pushed, Put, GuardOpen, Guard,
         ImpactInputs
<1>3. \A k : Traced(k)' = Traced(k)
  BY <1>2 DEF Traced, AllEarly, Early, NamesAt
<1>4. \A n : PushedTo(n)' = PushedTo(n) /\ PutTo(n)' = PutTo(n)
  BY <1>2 DEF PushedTo, PutTo
<1>5. PICK n : n = Executed /\ n = Executed'
  BY <1>1
<1>6. PushedTo(Executed)' = PushedTo(Executed) /\ PutTo(Executed)' = PutTo(Executed)
  BY <1>4, <1>5
<1> QED
  BY <1>1, <1>3, <1>6 DEF TraceInv

LEMMA TraceStop ==
  ASSUME TraceInv, NEW s, Stop(s)
  PROVE  TraceInv'
BY TraceSame DEF Stop

LEMMA TraceOther ==
  ASSUME ~SingleAssignment(src), src' = src
  PROVE  TraceInv'
BY DEF TraceInv

LEMMA TraceDecodeInput ==
  ASSUME IInv, IInv', TraceInv, DecodeInput
  PROVE  TraceInv'
<1>1. CASE Reject
  BY <1>1, TraceStop DEF Reject
<1>2. CASE ~Reject /\ ~SingleAssignment(src)
  BY <1>2, TraceOther DEF DecodeInput
<1>3. CASE ~Reject /\ SingleAssignment(src)
  <2>1. PICK n \in Nat : n + 1 = pc
    <3>1. pc \in Nat \ {0}
      BY DEF IInv, TypeOK
    <3>2. pc - 1 \in Nat /\ (pc - 1) + 1 = pc
      BY <3>1
    <3> QED
      BY <3>2
  <2>2. PICK id : id = src.inputs[n + 1]
    OBVIOUS
  <2>3. n + 1 <= Len(src.inputs) /\ id.ty \in IrType /\ id.name \in Identifier
    <3>1. src.inputs \in Seq([name : Identifier, ty : IrType])
      BY JobTypes DEF IInv, Source
    <3>2. n + 1 \in 1..Len(src.inputs)
      BY <2>1, <3>1, LenProperties DEF DecodeInput
    <3>3. id \in [name : Identifier, ty : IrType]
      BY <2>2, <3>1, <3>2, ElementOfSeq
    <3> QED
      BY <3>2, <3>3
  <2>4. PICK w : w = encoded_len(id.ty)
    OBVIOUS
  <2>5. PICK v : /\ v \in Decode(Taken(pre.inputs, cur.raw, w), id.ty)
                 /\ Available(pre.inputs, cur.raw, w)
                 /\ memory' = Bind(memory, <<id.name>>, <<v>>)
                 /\ pc' = pc + 1
                 /\ UNCHANGED <<src, pre, status, pis, pi_skips, outputs>>
    <3>1. \E v \in (IF Available(pre.inputs, cur.raw, w)
                    THEN Decode(Taken(pre.inputs, cur.raw, w), id.ty) ELSE {}) :
            /\ memory' = Bind(memory, <<id.name>>, <<v>>)
            /\ pc' = pc + 1
            /\ UNCHANGED <<src, pre, status, pis, pi_skips, outputs>>
      BY <1>3, <2>1, <2>2, <2>4 DEF DecodeInput
    <3> QED
      BY <3>1
  <2>6. v.ty = id.ty
    <3>1. w \in Nat /\ pre.inputs \in Seq(Immediates) /\ cur.raw \in Nat
      BY <2>3, <2>4, EncodedLenNat, JobTypes DEF Preimage, IInv, TypeOK, StreamNames
    <3>2. Taken(pre.inputs, cur.raw, w) \in Seq(Immediates)
      BY <2>5, <3>1, TakenIsSeq
    <3> QED
      BY <2>3, <2>5, <3>2, DecodeTyped
  <2>7. ~Seeded /\ ~Seeded' /\ Executed = 0 /\ Executed' = 0 /\ Decoded = n /\ Decoded' = n + 1
    BY <2>1, <2>5 DEF IInv, Stage, Seeded, Executed, Decoded, DecodeInput
  <2>8. memory'[id.name] = v
    <3>1. PICK ids : ids = <<id.name>>
      OBVIOUS
    <3>2. ids \in Seq(Identifier) /\ Len(ids) = 1 /\ ids[1] = id.name
      BY <2>3, <3>1
    <3>3. memory' = Bind(memory, ids, <<v>>)
      BY <2>5, <3>1
    <3> QED
      BY <3>2, <3>3, BindOne
  <2>9. \A k \in 1..n : memory'[src.inputs[k].name].ty = src.inputs[k].ty
    <3>1. \A k \in 1..n : src.inputs[k].name \in DOMAIN memory
      BY <2>7 DEF IInv, DomainExact
    <3>2. Keeps(memory, memory')
      BY <1>3, KeepsBinding DEF Next, Step
    <3> QED
      BY <1>3, <2>7, <3>1, <3>2 DEF Keeps, TraceInv
  <2>10. \A k \in 1..n + 1 : memory'[src.inputs[k].name].ty = src.inputs[k].ty
    <3>1. \A k \in 1..n + 1 : k \in 1..n \/ k = n + 1
      OBVIOUS
    <3> QED
      BY <2>2, <2>6, <2>8, <2>9, <3>1
  <2>11. outputs' = PutTo(0)'
    <3>1. [k \in 1..0 |-> Put(src.code[k])] = <<>> /\ [k \in 1..0 |-> Put(src.code[k])'] = <<>>
      OBVIOUS
    <3>2. PutTo(0) = <<>> /\ PutTo(0)' = <<>>
      BY <3>1, FlattenEmpty DEF PutTo
    <3> QED
      BY <1>3, <2>5, <2>7, <3>2 DEF TraceInv
  <2>12. src' = src
    BY <2>5
  <2> QED
    BY <2>7, <2>10, <2>11, <2>12 DEF TraceInv
<1> QED
  BY <1>1, <1>2, <1>3

LEMMA TraceSeed ==
  ASSUME IInv, IInv', TraceInv, SeedPublicInputs
  PROVE  TraceInv'
<1>1. CASE Reject
  BY <1>1, TraceStop DEF Reject
<1>2. CASE ~Reject /\ ~SingleAssignment(src)
  BY <1>2, TraceOther DEF SeedPublicInputs
<1>3. CASE ~Reject /\ SingleAssignment(src)
  <2>1. /\ UNCHANGED <<src, pre, memory, pi_skips, cur, outputs>>
        /\ status' = "executing" /\ pc' = 1 /\ pis' = Header
        /\ src.comm => pre.comm # <<>>
    BY <1>3 DEF SeedPublicInputs, Header
  <2>2. Executed = 0 /\ Executed' = 0 /\ Decoded' = Decoded
    <3>1. ~Seeded /\ Seeded'
      BY <2>1 DEF IInv, Stage, Seeded, SeedPublicInputs
    <3>2. pc = Len(src.inputs) + 1 /\ Len(src.inputs) \in Nat
      BY JobTypes, LenProperties DEF IInv, TypeOK, Stage, SeedPublicInputs, Source
    <3> QED
      BY <2>1, <3>1, <3>2 DEF Executed, Decoded
  <2>3. Header \in Seq(Immediates) /\ Header' = Header
    BY <2>1, HeaderTyped DEF IInv, Header
  <2>4. PutTo(0) = <<>> /\ PutTo(0)' = <<>> /\ PushedTo(0)' = <<>>
    <3>1. /\ [k \in 1..0 |-> Put(src.code[k])] = <<>> /\ [k \in 1..0 |-> Put(src.code[k])'] = <<>>
          /\ [k \in 1..0 |-> Pushed(src.code[k])'] = <<>>
      OBVIOUS
    <3> QED
      BY <3>1, FlattenEmpty DEF PutTo, PushedTo
  <2>5. Cat(Header, <<>>) = Header
    BY <2>3, CatEmpty
  <2>6. pis' = Cat(Header, PushedTo(0))' /\ outputs' = PutTo(0)'
    BY <1>3, <2>1, <2>2, <2>3, <2>4, <2>5 DEF TraceInv
  <2>7. \A i \in 1..Decoded' : memory'[src'.inputs[i].name].ty = src'.inputs[i].ty
    BY <1>3, <2>1, <2>2 DEF TraceInv
  <2> QED
    BY <2>2, <2>3, <2>6, <2>7 DEF TraceInv
<1> QED
  BY <1>1, <1>2, <1>3

\* Bind gives distinct names their values.
LEMMA BindEach ==
  ASSUME NEW m, NEW ids \in Seq(Identifier), IsInjective(ids), NEW vals
  PROVE  \A j \in DOMAIN ids : Bind(m, ids, vals)[ids[j]] = vals[j]
<1> SUFFICES ASSUME NEW j \in DOMAIN ids
             PROVE  Bind(m, ids, vals)[ids[j]] = vals[j]
  OBVIOUS
<1>1. ids[j] \in ToSet(ids)
  BY DEF ToSet
<1>2. PICK k : k = LastPlace(ids, ids[j])
  OBVIOUS
<1>3. k \in DOMAIN ids /\ ids[k] = ids[j] /\ Bind(m, ids, vals)[ids[j]] = vals[k]
  BY <1>1, <1>2, BindAt
<1>4. k = j
  BY <1>3 DEF IsInjective
<1> QED
  BY <1>3, <1>4

\* An instruction that is neither an Impact nor an Output was executed.
LEMMA TraceSilent ==
  ASSUME IInv, IInv', ValueInv, TraceInv, SingleAssignment(src), status = "executing",
         pc <= Len(src.code), UNCHANGED <<src, pre, status, pis, outputs>>, pc' = pc + 1,
         Keeps(memory, memory'), NEW i, i = Instr, i.op \notin {"Impact", "Output"},
         AllResolvable(memory, i.args), Passed(i)'
  PROVE  TraceInv'
<1>1. LookedAt(i)' = i.args /\ Pushed(i)' = <<>> /\ Put(i)' = <<>>
  BY DEF LookedAt, Pushed, Put
<1>2. <<>> \in Seq(Immediates) /\ <<>> \in Seq(TypedValue)
  BY EmptySeq
<1>3. pis \in Seq(Immediates) /\ outputs \in Seq(TypedValue)
  BY DEF IInv, TypeOK, ValueInv, ValuesIn
<1>4. pis = Cat(pis, <<>>) /\ outputs = Cat(outputs, <<>>)
  BY <1>3, CatEmpty
<1> QED
  BY <1>1, <1>2, <1>4, TraceAdvance

LEMMA TraceCompute ==
  ASSUME IInv, IInv', ValueInv, TraceInv, Compute
  PROVE  TraceInv'
<1>1. CASE Reject
  BY <1>1, TraceStop DEF Reject
<1>2. CASE ~Reject /\ ~SingleAssignment(src)
  BY <1>2, TraceOther DEF Compute
<1>3. CASE ~Reject /\ SingleAssignment(src)
  <2>1. PICK i : i = Instr
    OBVIOUS
  <2>2. status = "executing" /\ pc <= Len(src.code) /\ i.op \in ValueOps
    BY <2>1 DEF Compute
  <2>3. AllResolvable(memory, i.args)
    BY <1>3, <2>1 DEF Compute
  <2>4. PICK vals \in OffGate(i, ResolveAll(memory, i.args)) :
          /\ memory' = Bind(memory, i.outs, vals) /\ pc' = pc + 1
          /\ UNCHANGED <<src, pre, status, pis, pi_skips, cur, outputs>>
    BY <1>3, <2>1, <2>3 DEF Compute
  <2>5. Keeps(memory, memory')
    BY <1>3, KeepsBinding DEF Next, Step
  <2>6. i.outs \in Seq(Identifier) /\ i.args \in Seq(Operand) /\ IsInjective(i.outs)
    BY <1>3, <2>1, <2>2, InstrTypes DEF IInv, SingleAssignment, Instr
  <2>7. \A j \in DOMAIN i.outs : memory'[i.outs[j]] = vals[j]
    BY <2>4, <2>6, BindEach
  <2>8. ResolveAll(memory', i.args) = ResolveAll(memory, i.args)
    BY <2>3, <2>5, <2>6, ResolveAllSame
  <2>9. HasComputed(i)'
    BY <2>4, <2>7, <2>8 DEF HasComputed
  <2>10. i.op \notin ControlOps
    BY <2>2 DEF ValueOps, HashOps, ControlOps
  <2>11. Passed(i)'
    BY <2>9, <2>10 DEF Passed, ControlOps
  <2>12. i.op \notin {"Impact", "Output"}
    BY <2>10 DEF ControlOps
  <2> QED
    BY <1>3, <2>1, <2>2, <2>3, <2>4, <2>5, <2>11, <2>12, TraceSilent
<1> QED
  BY <1>1, <1>2, <1>3

LEMMA TraceRead ==
  ASSUME IInv, IInv', ValueInv, TraceInv, NEW op \in {"PublicInput", "PrivateInput"},
         NEW stream \in {"public_out", "private"}, Read(op, stream), Next
  PROVE  TraceInv'
<1>1. CASE Reject \/ Stop("panicked")
  BY <1>1, TraceStop DEF Reject
<1>2. CASE ~Reject /\ ~Stop("panicked") /\ ~SingleAssignment(src)
  BY <1>2, TraceOther DEF Read
<1>3. CASE ~Reject /\ ~Stop("panicked") /\ SingleAssignment(src)
  <2>1. PICK i : i = Instr
    OBVIOUS
  <2>2. /\ status = "executing" /\ pc <= Len(src.code) /\ i.op = op
        /\ i.outs \in Seq(Identifier) /\ Len(i.outs) = 1 /\ i.ty \in IrType
        /\ i.args \in Seq(Operand) /\ Len(i.args) \in {0, 1}
    BY <2>1, InstrTypes, ReadShape DEF Read, Fetch, Instr, IInv, WellShaped
  <2>3. UNCHANGED <<src, pre, status, pis, outputs>> /\ pc' = pc + 1
    BY <1>3 DEF Read
  <2>4. /\ i.args # <<>> => BoolOperand(memory, Guard(i))
        /\ \E v : /\ memory' = Bind(memory, i.outs, <<v>>) /\ v.ty = i.ty
                  /\ i.args # <<>> /\ Resolve(memory, Guard(i)).val = 0 => v = Default(i.ty)
    <3>1. CASE /\ i.args # <<>> /\ BoolOperand(memory, Guard(i))
               /\ memory' = Bind(memory, i.outs, <<Default(i.ty)>>)
      BY <2>2, <3>1, DefaultTyped DEF Is
    <3>2. ASSUME NEW w, w = encoded_len(i.ty), Available(pre[stream], cur[stream], w),
                 NEW v \in Decode(Taken(pre[stream], cur[stream], w), i.ty),
                 memory' = Bind(memory, i.outs, <<v>>),
                 i.args # <<>> => BoolOperand(memory, Guard(i)) /\ Resolve(memory, Guard(i)).val # 0
          PROVE  /\ i.args # <<>> => BoolOperand(memory, Guard(i))
                 /\ \E u : /\ memory' = Bind(memory, i.outs, <<u>>) /\ u.ty = i.ty
                           /\ i.args # <<>> /\ Resolve(memory, Guard(i)).val = 0 => u = Default(i.ty)
      <4>1. w \in Nat /\ pre[stream] \in Seq(Immediates) /\ cur[stream] \in Nat
        BY <2>2, <3>2, EncodedLenNat, StreamTypes DEF IInv
      <4>2. Taken(pre[stream], cur[stream], w) \in Seq(Immediates)
        BY <3>2, <4>1, TakenIsSeq
      <4>3. v.ty = i.ty
        BY <2>2, <3>2, <4>2, DecodeTyped
      <4> QED
        BY <3>2, <4>3
    <3>3. \/ /\ i.args # <<>> /\ BoolOperand(memory, Guard(i))
             /\ memory' = Bind(memory, i.outs, <<Default(i.ty)>>)
          \/ /\ i.args # <<>> => BoolOperand(memory, Guard(i)) /\ Resolve(memory, Guard(i)).val # 0
             /\ Available(pre[stream], cur[stream], encoded_len(i.ty))
             /\ \E v \in Decode(Taken(pre[stream], cur[stream], encoded_len(i.ty)), i.ty) :
                  memory' = Bind(memory, i.outs, <<v>>)
      BY <1>3, <2>1 DEF Read, Guard
    <3> QED
      BY <3>1, <3>2, <3>3
  <2>5. PICK v : /\ memory' = Bind(memory, i.outs, <<v>>) /\ v.ty = i.ty
                 /\ i.args # <<>> /\ Resolve(memory, Guard(i)).val = 0 => v = Default(i.ty)
    BY <2>4
  <2>6. memory'[i.outs[1]] = v
    BY <2>2, <2>5, BindOne
  <2>7. Keeps(memory, memory')
    BY <1>3, KeepsBinding
  <2>8. i.args # <<>> => Guard(i) \in Operand /\ DOMAIN i.args = {1}
    BY <2>2, ElementOfSeq, LenProperties, EmptySeq DEF Guard
  <2>9. AllResolvable(memory, i.args)
    <3>1. CASE i.args = <<>>
      BY <3>1 DEF AllResolvable
    <3>2. CASE i.args # <<>>
      BY <2>4, <2>8, <3>2 DEF AllResolvable, BoolOperand, Guard
    <3> QED
      BY <3>1, <3>2
  <2>10. i.args # <<>> => Resolve(memory', Guard(i)) = Resolve(memory, Guard(i))
    BY <2>4, <2>7, <2>8, ResolveSame DEF BoolOperand
  <2>11. HasRead(i)'
    <3>1. i.args # <<>> => IsBit(Resolve(memory', Guard(i)))
      BY <2>4, <2>10 DEF BoolOperand
    <3> QED
      BY <2>5, <2>6, <2>10, <3>1 DEF HasRead, Guard
  <2>12. Passed(i)' /\ i.op \notin {"Impact", "Output"}
    BY <2>2, <2>11 DEF Passed, ValueOps, HashOps
  <2> QED
    BY <1>3, <2>1, <2>2, <2>3, <2>7, <2>9, <2>12, TraceSilent
<1> QED
  BY <1>1, <1>2, <1>3

LEMMA TraceImpact ==
  ASSUME IInv, IInv', ValueInv, TraceInv, ImpactSkipped \/ ImpactActive
  PROVE  TraceInv'
<1>1. CASE Reject
  BY <1>1, TraceStop DEF Reject
<1>2. CASE ~Reject /\ ~SingleAssignment(src)
  BY <1>2, TraceOther DEF ImpactSkipped, ImpactActive
<1>3. CASE ~Reject /\ SingleAssignment(src)
  <2>1. PICK i : i = Instr
    OBVIOUS
  <2>2. PICK n : n = Len(ImpactInputs(i))
    OBVIOUS
  <2>3. /\ status = "executing" /\ pc <= Len(src.code) /\ i.op = "Impact" /\ n \in Nat
        /\ i.args \in Seq(Operand) /\ i.args # <<>>
    BY <2>1, <2>2, ImpactCount, InstrTypes
       DEF ImpactSkipped, ImpactActive, Fetch, Instr, IInv, WellShaped
  <2>4. UNCHANGED <<src, pre, status, memory, outputs>> /\ pc' = pc + 1
        /\ BoolOperand(memory, Guard(i))
    BY <1>3, <2>1 DEF ImpactSkipped, ImpactActive
  <2>5. Keeps(memory, memory')
    BY <2>4 DEF Keeps
  <2>6. /\ LookedAt(i)' = LookedAt(i) /\ Passed(i)' = Passed(i) /\ Pushed(i)' = Pushed(i)
        /\ Put(i)' = <<>>
    BY <2>3, <2>4 DEF LookedAt, Passed, HasPushed, Pushed, Put, GuardOpen, Guard, ImpactInputs,
                      ValueOps, HashOps
  <2>7. UNCHANGED <<src, pre, status>> /\ pc' = pc + 1
    BY <2>4
  <2>8. outputs' = Cat(outputs, Put(i)') /\ Put(i)' \in Seq(TypedValue)
    <3>1. outputs \in Seq(TypedValue) /\ <<>> \in Seq(TypedValue)
      BY EmptySeq DEF ValueInv, ValuesIn
    <3> QED
      BY <2>4, <2>6, <3>1, CatEmpty
  <2>9. CASE ImpactSkipped
    <3>1. Resolve(memory, Guard(i)).val = 0 /\ pis' = pis \o Zeros(n)
      BY <2>1, <2>2, <2>9 DEF ImpactSkipped
    <3>2. ~GuardOpen(i)
      BY <2>3, <3>1 DEF GuardOpen
    <3>3. AllResolvable(memory, LookedAt(i))
      <4>1. LookedAt(i) = <<Guard(i)>>
        BY <2>3, <3>2 DEF LookedAt
      <4>2. DOMAIN <<Guard(i)>> = {1} /\ <<Guard(i)>>[1] = Guard(i)
        OBVIOUS
      <4> QED
        BY <2>4, <4>1, <4>2 DEF AllResolvable, BoolOperand
    <3>4. Passed(i)
      BY <2>3, <2>4, <3>2 DEF Passed, HasPushed, BoolOperand, ValueOps, HashOps
    <3>5. Pushed(i) = Zeros(n) /\ Zeros(n) \in Seq(Immediates)
      BY <2>2, <2>3, <3>2, ZerosIsSeq DEF Pushed
    <3>6. pis' = Cat(pis, Pushed(i)')
      BY <2>6, <3>1, <3>5 DEF Cat
    <3>7. AllResolvable(memory, LookedAt(i)') /\ Passed(i)' /\ Pushed(i)' \in Seq(Immediates)
      BY <2>6, <3>3, <3>4, <3>5
    <3> QED
      BY <1>3, <2>1, <2>3, <2>5, <2>7, <2>8, <3>6, <3>7, TraceAdvance
  <2>10. CASE ImpactActive
    <3>1. PICK xs : xs = Payloads(ResolveAll(memory, ImpactInputs(i)))
      OBVIOUS
    <3>2. /\ Resolve(memory, Guard(i)).val # 0 /\ pis' = pis \o xs
          /\ AllResolvable(memory, ImpactInputs(i)) /\ AllFr(ResolveAll(memory, ImpactInputs(i)))
          /\ Available(pre.public_in, cur.public_in, n)
          /\ Taken(pre.public_in, cur.public_in, n) = xs
      BY <1>3, <2>1, <2>2, <2>4, <2>10, <3>1 DEF ImpactActive
    <3>3. GuardOpen(i)
      BY <2>4, <3>2 DEF GuardOpen, BoolOperand, IsBit
    <3>4. AllResolvable(memory, LookedAt(i))
      <4>1. LookedAt(i) = i.args
        BY <3>3 DEF LookedAt
      <4>2. \A j \in DOMAIN i.args : j = 1 \/ (j - 1 \in DOMAIN ImpactInputs(i)
                                               /\ i.args[j] = ImpactInputs(i)[j - 1])
        <5>1. DOMAIN i.args = 1..Len(i.args) /\ Len(i.args) \in Nat
          BY <2>3, LenProperties
        <5> QED
          BY <2>3, <5>1, HeadTailProperties, LenProperties DEF ImpactInputs
      <4>3. Resolvable(memory, i.args[1])
        BY <2>4 DEF BoolOperand, Guard
      <4> QED
        BY <3>2, <4>1, <4>2, <4>3 DEF AllResolvable
    <3>5. Passed(i)
      BY <2>3, <2>4, <3>2, <3>3 DEF Passed, HasPushed, BoolOperand, ValueOps, HashOps
    <3>6. Pushed(i) = xs /\ xs \in Seq(Immediates)
      <4>1. pre.public_in \in Seq(Immediates) /\ cur.public_in \in Nat
        BY StreamTypes DEF IInv
      <4>2. Taken(pre.public_in, cur.public_in, n) \in Seq(Immediates)
        BY <2>3, <3>2, <4>1, TakenIsSeq
      <4> QED
        BY <2>3, <3>1, <3>2, <3>3, <4>2 DEF Pushed
    <3>7. pis' = Cat(pis, Pushed(i)')
      BY <2>6, <3>2, <3>6 DEF Cat
    <3>8. AllResolvable(memory, LookedAt(i)') /\ Passed(i)' /\ Pushed(i)' \in Seq(Immediates)
      BY <2>6, <3>4, <3>5, <3>6
    <3> QED
      BY <1>3, <2>1, <2>3, <2>5, <2>7, <2>8, <3>7, <3>8, TraceAdvance
  <2> QED
    BY <2>9, <2>10
<1> QED
  BY <1>1, <1>2, <1>3

LEMMA TraceOutput ==
  ASSUME IInv, IInv', ValueInv, TraceInv, OutputValues
  PROVE  TraceInv'
<1>1. CASE Reject
  BY <1>1, TraceStop DEF Reject
<1>2. CASE ~Reject /\ ~SingleAssignment(src)
  BY <1>2, TraceOther DEF OutputValues
<1>3. CASE ~Reject /\ SingleAssignment(src)
  <2>1. PICK i : i = Instr
    OBVIOUS
  <2>2. /\ status = "executing" /\ pc <= Len(src.code) /\ i.op = "Output" /\ i.args \in Seq(Operand)
    BY <2>1, InstrTypes DEF OutputValues, Fetch, Instr, IInv
  <2>3. PICK vals : vals = ResolveAll(memory, i.args)
    OBVIOUS
  <2>4. /\ UNCHANGED <<src, pre, status, memory, pis>> /\ pc' = pc + 1
        /\ outputs' = outputs \o vals /\ AllResolvable(memory, i.args)
        /\ Len(i.args) = Len(src.outputs)
        /\ \A j \in DOMAIN i.args : vals[j].ty = src.outputs[j]
    BY <1>3, <2>1, <2>3 DEF OutputValues
  <2>5. Keeps(memory, memory')
    BY <2>4 DEF Keeps
  <2>6. LookedAt(i)' = i.args /\ Pushed(i)' = <<>> /\ Put(i)' = vals
    BY <2>2, <2>3, <2>4 DEF LookedAt, Pushed, Put
  <2>7. vals \in Seq(TypedValue)
    BY <2>2, <2>3, <2>4, OperandsAreSeq DEF ValueInv, ValuesIn
  <2>8. Passed(i)'
    <3>1. \A j \in DOMAIN i.args : Resolve(memory', i.args[j]).ty = src'.outputs[j]
      BY <2>3, <2>4 DEF ResolveAll
    <3>2. Len(i.args) = Len(src'.outputs)
      BY <2>4
    <3>3. HasPut(i)'
      BY <3>1, <3>2 DEF HasPut
    <3> QED
      BY <2>2, <3>3 DEF Passed, ValueOps, HashOps
  <2>9. pis' = Cat(pis, Pushed(i)') /\ Pushed(i)' \in Seq(Immediates)
    <3>1. pis \in Seq(Immediates) /\ <<>> \in Seq(Immediates)
      BY EmptySeq DEF IInv, TypeOK
    <3> QED
      BY <2>4, <2>6, <3>1, CatEmpty
  <2>10. outputs' = Cat(outputs, Put(i)') /\ Put(i)' \in Seq(TypedValue)
    BY <2>4, <2>6, <2>7 DEF Cat
  <2>11. AllResolvable(memory, LookedAt(i)')
    BY <2>4, <2>6
  <2>12. UNCHANGED <<src, pre, status>> /\ pc' = pc + 1
    BY <2>4
  <2> QED
    BY <1>3, <2>1, <2>2, <2>5, <2>8, <2>9, <2>10, <2>11, <2>12, TraceAdvance
<1> QED
  BY <1>1, <1>2, <1>3

LEMMA TraceNext ==
  ASSUME IInv, IInv', ValueInv, TraceInv, [Next]_pvars
  PROVE  TraceInv'
<1>1. CASE Step
  <2>1. Next
    BY <1>1 DEF Next
  <2>2. CASE Finish
    BY <2>2, TraceStop DEF Finish, Reject
  <2>3. CASE ReadPublic
    BY <2>1, <2>3, TraceRead DEF ReadPublic
  <2>4. CASE ReadPrivate
    BY <2>1, <2>4, TraceRead DEF ReadPrivate
  <2> QED
    BY <1>1, <2>2, <2>3, <2>4, TraceDecodeInput, TraceSeed, TraceCompute, TraceImpact,
       TraceOutput DEF Step
<1>2. CASE UNCHANGED pvars
  BY <1>2, TraceSame DEF pvars
<1> QED
  BY <1>1, <1>2 DEF Next, Terminated
==============================================================================
