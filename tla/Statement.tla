------------------------------ MODULE Statement ------------------------------
(***************************************************************************)
(* `prove_unchecked` (ir.rs): the circuit of a source on a witness of the  *)
(* caller's making, and what a proof that verifies then says.  When        *)
(* synthesis is satisfied, a preimage is read off the cells and            *)
(* `preprocess` is run on it: a statement is sound if that run accepts and *)
(* publishes the same public inputs.                                       *)
(***************************************************************************)
EXTENDS Circuit

CONSTANT Claims   \* batches [srcs, wits]: any source of a batch may be proved
                  \* with any witness of the same batch

ASSUME ClaimsAssumption ==
  \A b \in Claims :
    /\ \A s \in b.srcs : s \in Source /\ \A i \in DOMAIN s.code : WellShaped(s.code[i])
    /\ \A w \in b.wits :
         /\ DOMAIN w.memory \subseteq Identifier
         /\ \A id \in DOMAIN w.memory : w.memory[id] \in IrValue(w.memory[id].ty)
         /\ w.binding \in Immediates /\ w.pis \in Seq(Immediates)
         /\ w.comm \in Seq(Immediates) /\ Len(w.comm) \in {0, 2}

VARIABLES rstatus, rpc, rmemory, rpis, rskips, rcur, routputs   \* the run on the extract

rvars == <<rstatus, rpc, rmemory, rpis, rskips, rcur, routputs>>
stVars == <<src, wit, cstatus, cpc, cells, cpis, couts,
            rstatus, rpc, rmemory, rpis, rskips, rcur, routputs>>

------------------------------------------------------------------------------
(* The preimage a satisfied circuit contains: the encodings of its inputs,   *)
(* of its reads and the inputs of its Impacts, where the guard is on.        *)

Open(i) == i.args = <<>> \/ (Resolvable(cells, Guard(i)) /\ Resolve(cells, Guard(i)) = Fr(1))
Collected(op, took(_)) ==
  FlattenSeq([k \in DOMAIN src.code |->
    IF src.code[k].op = op /\ Open(src.code[k]) THEN took(src.code[k]) ELSE <<>>])
ReadCell(i) == Encode(cells[i.outs[1]])
Published(i) == Payloads(ResolveAll(cells, ImpactInputs(i)))

Extract ==
  [inputs |-> EncodeAll([i \in DOMAIN src.inputs |-> cells[src.inputs[i].name]]),
   binding |-> cpis[1], comm |-> IF src.comm THEN wit.comm ELSE <<>>,
   public_in |-> Collected("Impact", Published),
   public_out |-> Collected("PublicInput", ReadCell),
   private |-> Collected("PrivateInput", ReadCell)]

R == INSTANCE Preprocess WITH
       Jobs <- {}, pre <- Extract, status <- rstatus, pc <- rpc, memory <- rmemory,
       pis <- rpis, pi_skips <- rskips, cur <- rcur, outputs <- routputs

K == INSTANCE Keygen WITH
       kstatus <- IF cstatus \in WitnessStops
                  THEN IF cpis = <<>> THEN "assigning" ELSE "synthesizing"
                  ELSE IF cstatus = "satisfied" THEN "keyed" ELSE cstatus,
       kpc <- cpc,
       ktypes <- [id \in DOMAIN cells |-> cells[id].ty],
       kinst <- Len(cpis),
       kouts <- TypesOf(couts)

------------------------------------------------------------------------------
StInit ==
  /\ \E b \in Claims : src \in b.srcs /\ wit \in b.wits
  /\ CInit
  /\ rstatus = "decoding" /\ rpc = 1
  /\ rmemory = EmptyMemory /\ rpis = <<>> /\ rskips = <<>> /\ routputs = <<>>
  /\ rcur = [s \in R!StreamNames |-> 0]

Unchecked == CStep /\ UNCHANGED <<src, wit>> /\ UNCHANGED rvars

Replayable == cstatus = "satisfied" /\ SingleAssignment(src)
Replay == Replayable /\ UNCHANGED <<src, wit, cvars>> /\ R!Step

Answered == cstatus \in CStopped /\ (Replayable => rstatus \in R!Final)
Rest == Answered /\ UNCHANGED stVars

StNext == Unchecked \/ Replay \/ Rest
StSpec == StInit /\ [][StNext]_stVars
------------------------------------------------------------------------------
(* Properties.                                                               *)

\* The cells and the public inputs stay typed whatever the caller put in the
\* witness, and so does all that the run on the extract binds.
StTypeOK ==
  /\ cstatus \in CStatuses /\ cpis \in Seq(Immediates)
  /\ \A id \in DOMAIN cells : cells[id] \in IrValue(cells[id].ty)
  /\ rstatus \in R!Statuses
  /\ \A id \in DOMAIN rmemory : rmemory[id] \in IrValue(rmemory[id].ty)

\* Statement soundness (8.4 and P7 of the specification document), with its
\* converse: a proof of a single-assignment source made from any witness, honest
\* or not, is the proof of a run of preprocess with the same public inputs,
\* values and outputs, if and only if no check of preprocess that the circuit
\* leaves out (O3 and O4) fails on its cells.
StatementSound ==
  Replayable /\ rstatus \in R!Final =>
    ( /\ rstatus = "accepted"
      /\ rpis = cpis /\ rmemory = cells /\ routputs = couts )  <=>  ~Lax

\* The run on the extract leaves the cells only at a check that the circuit
\* omits.  As long as it has passed none, it has bound what the circuit bound and
\* published what the circuit published, and it cannot fail: a rejection is one of
\* the first such check itself.  After a lax read anything may follow: a later
\* guard can open in the run that is off in the cells, for which the extract has
\* nothing, and preprocess panics.
Following == Replayable /\ \A k \in 1..(IF rpis = <<>> THEN 0 ELSE rpc - 1) : ~LaxAt(k)
FollowsCells ==
  Following =>
    /\ \A id \in DOMAIN rmemory : id \in DOMAIN cells /\ rmemory[id] = cells[id]
    /\ IsPrefix(rpis, cpis) /\ IsPrefix(routputs, couts)
    /\ rstatus # "panicked"
    /\ rstatus = "rejected" => rpis # <<>> /\ rpc \in DOMAIN src.code /\ LaxAt(rpc)

\* With the cells of any witness, synthesis lays out the circuit that key
\* generation lays out, and fails where it fails: what a caller leaves out of the
\* witness or adds to it changes no cell type, no public input count, no output.
AnyWitnessFitsKeys == K!KSpec
==============================================================================
