-------------------------------- MODULE MCWasm -------------------------------
(***************************************************************************)
(* Wasm with two calls and a third that the provider never answers.         *)
(***************************************************************************)
EXTENDS Wasm

CONSTANTS c1, c2, mute   \* calls

SmallCalls == {c1, c2, mute}
SmallSilent == {mute}

SmallBigInts == {-1, 3}
SmallPreimages ==
  {[loc |-> "here", binding |-> 1, body |-> "good"], [loc |-> "here", binding |-> 2, body |-> "cut"]}
SmallMaterials == {[ir |-> "old", pk |-> "old", k |-> 5], [ir |-> "new", pk |-> "new", k |-> 6]}

\* A body that is too short makes the old source panic; the new one refuses it.
SmallVerdict(ir, body) ==
  IF body = "good" THEN "ok" ELSE IF ir = "old" THEN "panic" ELSE "error"
==============================================================================
