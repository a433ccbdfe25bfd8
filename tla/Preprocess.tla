------------------------------ MODULE Preprocess ------------------------------
(***************************************************************************)
(* `IrSource::preprocess` (ir_vm.rs): the run of a source on a proof       *)
(* preimage, outside the circuit.  It decodes the typed inputs, executes   *)
(* the instructions over a memory of named values while it consumes three  *)
(* transcripts, and accepts when the transcripts are used up and the       *)
(* communications commitment opens.                                        *)
(***************************************************************************)
EXTENDS Ir

CONSTANT Jobs   \* batches [srcs, pres]: the program may be called with any
                \* source of a batch and any preimage of the same batch

\* ProofPreimage; `comm` is <<>> or <<commitment, randomness>>.
Preimage ==
  [inputs : Seq(Immediates), binding : Immediates, comm : Seq(Immediates),
   public_in : Seq(Immediates), public_out : Seq(Immediates), private : Seq(Immediates)]

ASSUME JobsAssumption ==
  \A b \in Jobs :
    /\ \A s \in b.srcs : s \in Source /\ \A i \in DOMAIN s.code : WellShaped(s.code[i])
    /\ \A p \in b.pres : p \in Preimage /\ Len(p.comm) \in {0, 2}

VARIABLES
  src,       \* the source
  pre,       \* the preimage
  status,    \* where the run stands
  pc,        \* next input to decode, then next instruction
  memory,    \* name -> value
  pis,       \* public inputs so far
  pi_skips,  \* one entry for each Impact: <<count>> if skipped, <<>> if not
  cur,       \* cursors into the inputs and the three transcripts
  outputs    \* values of the Output instructions

pvars == <<src, pre, status, pc, memory, pis, pi_skips, cur, outputs>>

\* The raw inputs and the three transcripts.
StreamNames == {"raw", "public_in", "public_out", "private"}

Final == {"accepted", "rejected", "panicked"}
Statuses == {"decoding", "executing"} \cup Final

------------------------------------------------------------------------------
\* resolve_operand_bool
BoolOperand(m, o) == Resolvable(m, o) /\ IsBit(Resolve(m, o))

------------------------------------------------------------------------------
\* Mutant of Init: the first input is input 0.
InitZeroBased ==
  /\ \E b \in Jobs : src \in b.srcs /\ pre \in b.pres
  /\ status = "decoding" /\ pc = 0
  /\ memory = EmptyMemory
  /\ pis = <<>> /\ pi_skips = <<>> /\ outputs = <<>>
  /\ cur = [s \in StreamNames |-> 0]

Init ==
  /\ \E b \in Jobs : src \in b.srcs /\ pre \in b.pres
  /\ status = "decoding" /\ pc = 1
  /\ memory = EmptyMemory
  /\ pis = <<>> /\ pi_skips = <<>> /\ outputs = <<>>
  /\ cur = [s \in StreamNames |-> 0]

Stop(s) ==
  /\ status' = s
  /\ UNCHANGED <<src, pre, pc, memory, pis, pi_skips, cur, outputs>>
Reject == Stop("rejected")

\* The elements a stream holds from the cursor on, if there are w of them.
Available(stream, at, w) == at + w <= Len(stream)
Taken(stream, at, w) == SubSeq(stream, at + 1, at + w)

DecodeInput ==
  /\ status = "decoding" /\ pc <= Len(src.inputs)
  /\ LET id == src.inputs[pc]
         w == encoded_len(id.ty)
         decoded == IF Available(pre.inputs, cur.raw, w)
                    THEN Decode(Taken(pre.inputs, cur.raw, w), id.ty) ELSE {}
     IN \/ decoded = {} /\ Reject
        \/ \E v \in decoded :
             /\ memory' = Bind(memory, <<id.name>>, <<v>>)
             /\ cur' = [cur EXCEPT !["raw"] = @ + w]
             /\ pc' = pc + 1
             /\ UNCHANGED <<src, pre, status, pis, pi_skips, outputs>>

\* All raw inputs must be used; then the binding input, and the commitment,
\* open the public inputs.
SeedPublicInputs ==
  /\ status = "decoding" /\ pc > Len(src.inputs)
  /\ LET seeded == cur.raw = Len(pre.inputs) /\ (src.comm => pre.comm # <<>>) IN
     \/ ~seeded /\ Reject
     \/ /\ seeded
        /\ pis' = <<pre.binding>> \o (IF src.comm THEN <<pre.comm[1]>> ELSE <<>>)
        /\ status' = "executing" /\ pc' = 1
        /\ UNCHANGED <<src, pre, memory, pi_skips, cur, outputs>>

------------------------------------------------------------------------------
Fetch(op) == status = "executing" /\ pc <= Len(src.code) /\ src.code[pc].op = op
Instr == src.code[pc]

\* Every instruction that only reads and binds memory.
Compute ==
  /\ status = "executing" /\ pc <= Len(src.code) /\ Instr.op \in ValueOps
  /\ LET result == IF AllResolvable(memory, Instr.args)
                   THEN OffGate(Instr, ResolveAll(memory, Instr.args)) ELSE {}
     IN \/ result = {} /\ Reject
        \/ \E vals \in result :
             /\ memory' = Bind(memory, Instr.outs, vals)
             /\ pc' = pc + 1
             /\ UNCHANGED <<src, pre, status, pis, pi_skips, cur, outputs>>

\* A transcript read.  The slice of the transcript is taken without a length
\* check: a transcript that is too short panics.
Read(op, stream) ==
  /\ Fetch(op)
  /\ LET w == encoded_len(Instr.ty)
         guarded == Instr.args # <<>>
         skip == guarded /\ BoolOperand(memory, Instr.args[1]) /\ Resolve(memory, Instr.args[1]).val = 0
         read == guarded => BoolOperand(memory, Instr.args[1]) /\ ~skip
         decoded == Decode(Taken(pre[stream], cur[stream], w), Instr.ty)
     IN \/ /\ guarded /\ ~BoolOperand(memory, Instr.args[1])
           /\ Reject
        \/ /\ skip
           /\ memory' = Bind(memory, Instr.outs, <<Default(Instr.ty)>>)
           /\ pc' = pc + 1
           /\ UNCHANGED <<src, pre, status, pis, pi_skips, cur, outputs>>
        \/ /\ read /\ ~Available(pre[stream], cur[stream], w)
           /\ Stop("panicked")
        \/ /\ read /\ Available(pre[stream], cur[stream], w) /\ decoded = {}
           /\ Reject
        \/ /\ read /\ Available(pre[stream], cur[stream], w)
           /\ \E v \in decoded : memory' = Bind(memory, Instr.outs, <<v>>)
           /\ cur' = [cur EXCEPT ![stream] = @ + w]
           /\ pc' = pc + 1
           /\ UNCHANGED <<src, pre, status, pis, pi_skips, outputs>>

ReadPublic == Read("PublicInput", "public_out")
ReadPrivate == Read("PrivateInput", "private")

Zeros(n) == [i \in 1..n |-> 0]

\* Mutant of ImpactSkipped: the zeros are left out.
ImpactSilent ==
  /\ Fetch("Impact")
  /\ BoolOperand(memory, Guard(Instr)) /\ Resolve(memory, Guard(Instr)).val = 0
  /\ pi_skips' = Append(pi_skips, <<Len(ImpactInputs(Instr))>>)
  /\ pc' = pc + 1
  /\ UNCHANGED <<src, pre, status, memory, pis, cur, outputs>>

\* A guarded-off Impact does not look at its inputs.
ImpactSkipped ==
  /\ Fetch("Impact")
  /\ BoolOperand(memory, Guard(Instr)) /\ Resolve(memory, Guard(Instr)).val = 0
  /\ pis' = pis \o Zeros(Len(ImpactInputs(Instr)))
  /\ pi_skips' = Append(pi_skips, <<Len(ImpactInputs(Instr))>>)
  /\ pc' = pc + 1
  /\ UNCHANGED <<src, pre, status, memory, cur, outputs>>

ImpactActive ==
  /\ Fetch("Impact")
  /\ ~(BoolOperand(memory, Guard(Instr)) /\ Resolve(memory, Guard(Instr)).val = 0)
  /\ LET n == Len(ImpactInputs(Instr))
         vals == ResolveAll(memory, ImpactInputs(Instr))
         computed == Payloads(vals)
         matches ==
           /\ BoolOperand(memory, Guard(Instr))
           /\ AllResolvable(memory, ImpactInputs(Instr)) /\ AllFr(vals)
           /\ Available(pre.public_in, cur.public_in, n)
           /\ Taken(pre.public_in, cur.public_in, n) = computed
     IN \/ ~matches /\ Reject
        \/ /\ matches
           /\ pis' = pis \o computed
           /\ pi_skips' = Append(pi_skips, <<>>)
           /\ cur' = [cur EXCEPT !["public_in"] = @ + n]
           /\ pc' = pc + 1
           /\ UNCHANGED <<src, pre, status, memory, outputs>>

\* A source may have several Output instructions: each appends its values.
OutputValues ==
  /\ Fetch("Output")
  /\ LET vals == ResolveAll(memory, Instr.args)
         typed == /\ Len(Instr.args) = Len(src.outputs)
                  /\ AllResolvable(memory, Instr.args)
                  /\ \A i \in DOMAIN Instr.args : vals[i].ty = src.outputs[i]
     IN \/ ~typed /\ Reject
        \/ /\ typed
           /\ outputs' = outputs \o vals
           /\ pc' = pc + 1
           /\ UNCHANGED <<src, pre, status, memory, pis, pi_skips, cur>>

------------------------------------------------------------------------------
\* Mutant of Consumed: the private transcript may have a rest.
ConsumedPublic ==
  cur.public_in = Len(pre.public_in) /\ cur.public_out = Len(pre.public_out)
Consumed ==
  /\ cur.public_in = Len(pre.public_in)
  /\ cur.public_out = Len(pre.public_out)
  /\ cur.private = Len(pre.private)

\* transient_commit on the raw inputs and the encoded outputs.
Commitment == Poseidon(<<pre.comm[2]>> \o pre.inputs \o EncodeAll(outputs))

Finish ==
  /\ status = "executing" /\ pc > Len(src.code)
  /\ LET ok == Consumed /\ (src.comm => pre.comm # <<>> /\ pre.comm[1] = Commitment) IN
     \/ ~ok /\ Reject
     \/ ok /\ Stop("accepted")

Terminated == status \in Final /\ UNCHANGED pvars

Step ==
  \/ DecodeInput \/ SeedPublicInputs
  \/ Compute \/ ReadPublic \/ ReadPrivate \/ ImpactSkipped \/ ImpactActive \/ OutputValues
  \/ Finish
Next == Step \/ Terminated

Spec == Init /\ [][Next]_pvars
------------------------------------------------------------------------------
(* Properties.                                                               *)

\* The type of every variable, up to the values in memory (see ValuesTyped):
\* the run never leaves its job, its states and the shape of its cursors.
TypeOK ==
  /\ \E b \in Jobs : src \in b.srcs /\ pre \in b.pres
  /\ status \in Statuses /\ pc \in Nat \ {0}
  /\ memory = [id \in DOMAIN memory |-> memory[id]] /\ DOMAIN memory \subseteq Identifier
  /\ pis \in Seq(Immediates)
  /\ pi_skips \in Seq(Seq(Nat))
  /\ cur \in [StreamNames -> Nat]

\* Every value a run binds or outputs inhabits the type it is tagged with: no
\* gate, decoder or default leaves the range of its field, byte or group.
ValuesTyped ==
  /\ \A id \in DOMAIN memory : memory[id] \in IrValue(memory[id].ty)
  /\ \A i \in DOMAIN outputs : outputs[i] \in IrValue(outputs[i].ty)

Seeded == pis # <<>>
Executed == IF Seeded THEN pc - 1 ELSE 0
Decoded == IF Seeded THEN Len(src.inputs) ELSE pc - 1

\* The domain of memory is exactly the inputs decoded and the outputs of the
\* instructions executed so far, guarded-off reads included: an operand is
\* bound or the run stops (P4 of the specification document).
DomainExact ==
  DOMAIN memory = {src.inputs[i].name : i \in 1..Decoded}
                    \cup UNION {ToSet(src.code[i].outs) : i \in 1..Executed}

\* A step of a single-assignment source never drops or changes a binding, and
\* no step of any source takes back a public input (P2).
Monotone ==
  /\ SingleAssignment(src) =>
       \A id \in DOMAIN memory : id \in DOMAIN memory' /\ memory'[id] = memory[id]
  /\ IsPrefix(pis, pis')
StoreMonotone == [][Monotone]_pvars

\* The public inputs can be rebuilt from pi_skips and the public transcript
\* alone: after the header, every Impact contributes its count of zeros if it
\* was skipped and the next elements of the transcript if it was not.
Header == <<pre.binding>> \o (IF src.comm THEN <<pre.comm[1]>> ELSE <<>>)
ImpactsDone ==
  FlattenSeq([k \in 1..Executed |-> IF src.code[k].op = "Impact" THEN <<src.code[k]>> ELSE <<>>])
Count(k) == Len(ImpactInputs(ImpactsDone[k]))
\* The elements the first n Impacts have taken from the transcript.
TakenBy(n) ==
  Len(FlattenSeq([k \in 1..n |-> IF pi_skips[k] = <<>> THEN Zeros(Count(k)) ELSE <<>>]))
Group(k) ==
  IF pi_skips[k] # <<>> THEN Zeros(pi_skips[k][1])
                        ELSE Taken(pre.public_in, TakenBy(k - 1), Count(k))
PublicInputLayout ==
  Seeded =>
    /\ Len(pi_skips) = Len(ImpactsDone)
    /\ cur.public_in = TakenBy(Len(pi_skips))
    /\ pis = Header \o FlattenSeq([k \in 1..Len(pi_skips) |-> Group(k)])

\* What a read or an Impact of instruction i took from its transcript, computed
\* from the present memory.
GuardOpen(i) == i.args = <<>> \/ Resolve(memory, Guard(i)).val = 1
Took(i) == IF i.op = "Impact" THEN Payloads(ResolveAll(memory, ImpactInputs(i)))
                              ELSE Encode(memory[i.outs[1]])
TookAt(op, k) ==
  IF src.code[k].op = op /\ GuardOpen(src.code[k]) THEN Took(src.code[k]) ELSE <<>>
Replayed(op) == FlattenSeq([k \in 1..Executed |-> TookAt(op, k)])
InputValues == [i \in DOMAIN src.inputs |-> memory[src.inputs[i].name]]

\* The memory of a single-assignment run determines all it has consumed: the
\* raw inputs and the three transcripts are the encodings of what is in memory,
\* in program order.  Non-canonical encodings, misplaced cursors and rebound
\* guards would break it.
TranscriptReplay ==
  Seeded /\ SingleAssignment(src) =>
    /\ pre.inputs = EncodeAll(InputValues)
    /\ Taken(pre.public_out, 0, cur.public_out) = Replayed("PublicInput")
    /\ Taken(pre.private, 0, cur.private) = Replayed("PrivateInput")
    /\ Taken(pre.public_in, 0, cur.public_in) = Replayed("Impact")

\* An accepted single-assignment run leaves nothing of its preimage unread, and
\* its commitment opens to the encoding of the final values of the inputs, which
\* is what the circuit hashes, although preprocess hashed the raw inputs.
AcceptedBound ==
  status = "accepted" /\ SingleAssignment(src) =>
    /\ pre.public_out = Replayed("PublicInput")
    /\ pre.private = Replayed("PrivateInput")
    /\ pre.public_in = Replayed("Impact")
    /\ src.comm => pre.comm[1] = Poseidon(<<pre.comm[2]>> \o EncodeAll(InputValues)
                                                        \o EncodeAll(outputs))

\* The failure modes of the specification document (6.6(b)) list a transcript
\* shorter than what the reads take among the errors preprocess returns.
NeverPanics == status # "panicked"

\* The table of section 7.2 of the specification document: ReconstituteField puts
\* a divisor and a modulus of at most `bits` bits together if `bits` is at most 248
\* and the sum is an element of the field.  A rejection there is for one of these.
ReconstitutesByTable ==
  status = "rejected" /\ Seeded /\ pc <= Len(src.code) /\ Instr.op = "ReconstituteField"
    /\ AllResolvable(memory, Instr.args) =>
      LET a == ResolveAll(memory, Instr.args)
          n == Instr.n[1]
      IN ~ (/\ AllFr(a) /\ n <= SplitBits
            /\ a[2].val < 2^n /\ a[1].val < 2^(FR_BITS - n)
            /\ 2^n * a[1].val + a[2].val < P)

\* The doc comment of Output calls it a terminator, which ends execution and
\* produces the values of the signature: an accepted run has those outputs, or
\* none if it has no Output.
OutputsMatchSignature ==
  status = "accepted" => [i \in DOMAIN outputs |-> outputs[i].ty] \in {src.outputs, <<>>}
==============================================================================
