-------------------------------- MODULE Wasm ---------------------------------
(***************************************************************************)
(* The WebAssembly bindings (zkir-wasm/src/lib.rs): calls of `check` and   *)
(* `prove` in flight on one event loop, over a key material provider whose *)
(* promises settle when and how they like, while its table of keys changes *)
(* and the caller reuses the buffer it passed.                             *)
(*                                                                         *)
(* What is outside src/: an exported async function starts on a later turn *)
(* of the loop than the call; a panic traps, and the promise of the call   *)
(* never settles; `ProofPreimage::prove` looks the key up, decodes what it *)
(* finds and calls Zkir::prove (ir.rs).                                    *)
(***************************************************************************)
EXTENDS Integers, FiniteSets

CONSTANTS
  Calls,        \* identities of calls
  P,            \* order of the native field
  BigInts,      \* binding inputs a caller may ask for
  Preimages,    \* [loc, binding, body]
  Materials,    \* [ir, pk, k]: decodable key material, k the size of its circuit
  Verdict(_, _),  \* what preprocess says of a source and a body: "ok", "error", "panic"
  Junk,         \* bytes that do not decode
  Unknown,      \* undefined or null
  Silent,       \* calls some promise of which never settles
  MaxChanges    \* bound on the changes of the buffer and of the table

Locations == {p.loc : p \in Preimages}
Buffers == Preimages \cup {Junk}
Entries == Materials \cup {Junk, Unknown}

Bodies == {p.body : p \in Preimages}

ASSUME WasmAssumption ==
  /\ P \in Nat /\ BigInts \subseteq Int /\ MaxChanges \in Nat /\ Silent \subseteq Calls
  /\ Preimages \subseteq [loc : Locations, binding : 0..P - 1, body : Bodies]
  /\ Junk \notin Preimages /\ {Junk, Unknown} \cap Materials = {}

VARIABLES
  buffer,    \* the bytes of the one buffer every call is given
  table,     \* what lookupKey finds at a location, now
  call,      \* the calls
  changes

wasmVars == <<buffer, table, call, changes>>

None == <<>>
Overwrite == {None} \cup {<<b>> : b \in BigInts}
NoCall == [st |-> "none", kind |-> "check", over |-> None, pre |-> None, key |-> None,
           size |-> None, ans |-> None]
Kinds == {"check", "prove"}
Settled == {"answered", "rejected"}
States == {"none", "called", "looking", "fetching", "trapped"} \cup Settled

\* Mutant of fr_from_bigint: reduced instead of refused.
fr_reduced(b) == <<b % P>>

\* fr_from_bigint: hex digits, padded to pairs; a sign is no digit.
fr_from_bigint(b) == IF b \in 0..P - 1 THEN <<b>> ELSE None

------------------------------------------------------------------------------
Set(c, r) == call' = [call EXCEPT ![c] = r] /\ UNCHANGED <<buffer, table, changes>>
Reject(c) == Set(c, [call[c] EXCEPT !.st = "rejected"])

\* The caller calls, and passes the key location its wrapper ignores.
Invoke(c, kind, over) ==
  /\ call[c].st = "none" /\ (kind = "check" => over = None)
  /\ Set(c, [NoCall EXCEPT !.st = "called", !.kind = kind, !.over = over])

\* The preimage a call works on, once it has read the buffer.
Overwritten(p, over) == IF over = None THEN p ELSE [p EXCEPT !.binding = fr_from_bigint(over[1])[1]]
Usable(c) == buffer # Junk /\ (call[c].over # None => fr_from_bigint(call[c].over[1]) # None)

\* Mutants of Begin: the binding input is not checked; one call at a time.
BeginUnchecked(c) ==
  /\ call[c].st = "called" /\ buffer # Junk
  /\ Set(c, [call[c] EXCEPT !.st = "looking",
             !.pre = <<IF call[c].over = None THEN buffer
                       ELSE [buffer EXCEPT !.binding = call[c].over[1]]>>])
BeginAlone(c) ==
  /\ call[c].st = "called"
  /\ \A d \in Calls : call[d].st \notin {"looking", "fetching"}
  /\ IF Usable(c) THEN Set(c, [call[c] EXCEPT !.st = "looking",
                                !.pre = <<Overwritten(buffer, call[c].over)>>])
                  ELSE Reject(c)

\* From the first turn to the first await: the buffer is copied and decoded, and
\* lookupKey is called; it may throw, or not be a function, or return no promise.
Begin(c) ==
  /\ call[c].st = "called"
  /\ IF Usable(c)
     THEN \/ Set(c, [call[c] EXCEPT !.st = "looking",
                     !.pre = <<Overwritten(buffer, call[c].over)>>])
          \/ Reject(c)
     ELSE Reject(c)

\* What a call does with a verdict of preprocess.
Conclude(c, r, m) ==
  CASE Verdict(m.ir, r.pre[1].body) = "panic" -> Set(c, [r EXCEPT !.st = "trapped"])
    [] Verdict(m.ir, r.pre[1].body) = "error" -> Set(c, [r EXCEPT !.st = "rejected"])
    [] OTHER -> Set(c, [r EXCEPT !.st = "answered",
                        !.ans = <<[pre |-> r.pre[1], ir |-> m.ir, pk |-> m.pk, k |-> r.size]>>])

\* Mutant of KeyFound: the preimage is read again from the buffer of the caller.
KeyFoundLive(c) ==
  LET m == table[call[c].pre[1].loc] IN
  /\ call[c].st = "looking" /\ c \notin Silent
  /\ IF m \in {Junk, Unknown} \/ buffer = Junk THEN Reject(c)
     ELSE Conclude(c, [call[c] EXCEPT !.pre = <<buffer>>, !.key = <<m>>, !.size = <<m.k>>], m)

\* The promise of lookupKey resolves with what the table holds now. check goes on
\* to its answer; prove decodes the key and asks for the parameters of its size,
\* a call that may fail as that of lookupKey may.
KeyFound(c) ==
  LET m == table[call[c].pre[1].loc] IN
  /\ call[c].st = "looking" /\ c \notin Silent
  /\ IF m \in {Junk, Unknown} THEN Reject(c)
     ELSE IF call[c].kind = "check" THEN Conclude(c, [call[c] EXCEPT !.key = <<m>>], m)
     ELSE \/ Set(c, [call[c] EXCEPT !.st = "fetching", !.key = <<m>>, !.size = <<m.k>>])
          \/ Reject(c)

\* Mutant of ParamsFound: the key is looked up again after the parameters came.
ParamsFoundAgain(c) ==
  LET m == table[call[c].pre[1].loc] IN
  /\ call[c].st = "fetching" /\ c \notin Silent
  /\ IF m \in {Junk, Unknown} THEN Reject(c) ELSE Conclude(c, call[c], m)

\* The promise of getParams resolves: Zkir::prove runs preprocess and the prover
\* on what the call was given before.
ParamsFound(c) ==
  /\ call[c].st = "fetching" /\ c \notin Silent
  /\ Conclude(c, call[c], call[c].key[1])

\* A promise is rejected, or resolves with something of another shape.
Broken(c) == call[c].st \in {"looking", "fetching"} /\ c \notin Silent /\ Reject(c)

\* The caller reuses its buffer, the provider changes its table.
Reuse(b) ==
  /\ changes < MaxChanges /\ buffer' = b /\ changes' = changes + 1 /\ UNCHANGED <<table, call>>
Rotate(l, e) ==
  /\ changes < MaxChanges /\ table' = [table EXCEPT ![l] = e] /\ changes' = changes + 1
  /\ UNCHANGED <<buffer, call>>

------------------------------------------------------------------------------
WasmInit ==
  /\ buffer \in Buffers /\ table \in [Locations -> Entries]
  /\ call = [c \in Calls |-> NoCall] /\ changes = 0

Turn(c) == Begin(c) \/ KeyFound(c) \/ ParamsFound(c) \/ Broken(c)
WasmNext ==
  \/ \E c \in Calls, kind \in Kinds, over \in Overwrite : Invoke(c, kind, over)
  \/ \E c \in Calls : Turn(c)
  \/ \E b \in Buffers : Reuse(b)
  \/ \E l \in Locations, e \in Entries : Rotate(l, e)
WasmSpec == WasmInit /\ [][WasmNext]_wasmVars
\* The event loop runs every turn that is due: the first one of a call, and the
\* one after a promise settles, for the calls whose promises settle.
FairWasmSpec == WasmSpec /\ \A c \in Calls : WF_wasmVars(Turn(c))
------------------------------------------------------------------------------
(* Properties.                                                               *)

\* The calls stay typed; what a call works on has a binding input of the field,
\* whatever BigInt its caller passed.
WasmTypeOK ==
  /\ buffer \in Buffers /\ table \in [Locations -> Entries]
  /\ \A c \in Calls :
       /\ call[c].st \in States /\ call[c].kind \in Kinds /\ call[c].over \in Overwrite
       /\ call[c].pre # None => call[c].pre[1].binding \in 0..P - 1
       /\ call[c].st \in {"looking", "fetching", "answered"} => call[c].pre # None

\* A proof is of the key, the source and the parameter size of one entry of the
\* table, even if the table changes while its call waits.
ProofOfOneMaterial ==
  \A c \in Calls : call[c].st = "answered" /\ call[c].kind = "prove" =>
    \E m \in Materials :
      call[c].ans[1].ir = m.ir /\ call[c].ans[1].pk = m.pk /\ call[c].ans[1].k = <<m.k>>

\* The binding input a caller asked for is that of its proof, never a number that
\* is only congruent to it; one it did not ask for is that of its preimage, although
\* other calls on the same buffer asked for theirs (fr_from_bigint, prove).
BindingIsAsked ==
  \A c \in Calls : call[c].st = "answered" =>
    IF call[c].over = None
    THEN call[c].ans[1].pre \in Preimages
    ELSE call[c].ans[1].pre.binding = call[c].over[1]

\* Whoever keeps the loop waiting keeps only itself waiting: a call whose promises
\* settle ends, in an answer, an error, or the trap of a preprocess that panics.
CallsEnd ==
  \A c \in Calls \ Silent : call[c].st = "called" ~> call[c].st \in Settled \cup {"trapped"}

\* From its first turn to its end a call works on one copy of the buffer, and what
\* has settled stays settled, whatever the caller does with the buffer meanwhile.
WorksOnOneCopy ==
  [][\A c \in Calls :
       /\ call[c].pre # None => call'[c].pre = call[c].pre
       /\ call[c].st \in Settled => call'[c] = call[c]]_wasmVars
==============================================================================
