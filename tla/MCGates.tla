-------------------------------- MODULE MCGates --------------------------------
(***************************************************************************)
(* Prove on the sources of one value instruction, with the encodings of    *)
(* the operands of GateCases as raw inputs.                                *)
(***************************************************************************)
EXTENDS Prove, GateCases

GateJobs ==
  {[srcs |-> SourcesOf(b),
    pres |-> [inputs : {EncodeAll(vs) : vs \in b.valuess}, binding : {4}, comm : {<<>>},
              public_in : {<<>>}, public_out : {<<>>}, private : {<<>>}]] : b \in Cases}
==============================================================================
