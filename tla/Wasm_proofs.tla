------------------------------ MODULE Wasm_proofs ------------------------------
(***************************************************************************)
(* The safety of Wasm for any calls, preimages, keys and verdicts, and any *)
(* number of changes of the buffer and of the table.  A call is the only   *)
(* thing a turn changes, so the invariant is one of single calls (Sound):  *)
(* what a call has read before an await determines what it answers after.  *)
(***************************************************************************)
EXTENDS Wasm, TLAPS

Asked == [loc : Locations, binding : 0..P - 1, body : Bodies]
Sizes == {None} \cup {<<m.k>> : m \in Materials}
Answers == [pre : Asked, ir : {m.ir : m \in Materials}, pk : {m.pk : m \in Materials}, k : Sizes]
Call == [st : States, kind : Kinds, over : Overwrite,
         pre : {None} \cup {<<p>> : p \in Asked},
         key : {None} \cup {<<m>> : m \in Materials},
         size : Sizes, ans : {None} \cup {<<a>> : a \in Answers}]

\* The preimage of a call is the one its caller asked for.
Fits(p, over) == IF over = None THEN p \in Preimages ELSE p.binding = over[1]

Sound(r) ==
  /\ r.st \in {"none", "called"} => r.pre = None
  /\ r.st \in {"looking", "fetching", "answered"} => r.pre # None
  /\ r.pre # None => Fits(r.pre[1], r.over)
  /\ r.st = "fetching" => r.kind = "prove" /\ r.key # None /\ r.size = <<r.key[1].k>>
  /\ r.st = "answered" =>
       /\ r.ans # None /\ r.ans[1].pre = r.pre[1]
       /\ r.kind = "prove" =>
            \E m \in Materials : r.ans[1].ir = m.ir /\ r.ans[1].pk = m.pk /\ r.ans[1].k = <<m.k>>

WInv ==
  /\ buffer \in Buffers /\ table \in [Locations -> Entries]
  /\ call \in [Calls -> Call]
  /\ \A c \in Calls : Sound(call[c])

\* A call keeps its copy of the buffer, and what has settled stays.
Keeps(r, s) == (r.pre # None => s.pre = r.pre) /\ (r.st \in Settled => s = r)

------------------------------------------------------------------------------
(* A turn of a call is sound if the call it makes is.                        *)

LEMMA SetSound ==
  ASSUME WInv, NEW c \in Calls, NEW r \in Call, Sound(r), Set(c, r)
  PROVE  WInv'
<1>1. call' = [call EXCEPT ![c] = r] /\ UNCHANGED <<buffer, table>>
  BY DEF Set
<1>2. call' \in [Calls -> Call]
  BY <1>1 DEF WInv
<1>3. \A d \in Calls : call'[d] = IF d = c THEN r ELSE call[d]
  BY <1>1 DEF WInv
<1>4. \A d \in Calls : Sound(call'[d])
  BY <1>3 DEF WInv
<1> QED
  BY <1>1, <1>2, <1>4 DEF WInv

LEMMA SetKeeps ==
  ASSUME WInv, NEW c \in Calls, NEW r, Keeps(call[c], r), Set(c, r)
  PROVE  \A d \in Calls : Keeps(call[d], call'[d])
<1>1. \A d \in Calls : call'[d] = IF d = c THEN r ELSE call[d]
  BY DEF Set, WInv
<1> QED
  BY <1>1 DEF Keeps

\* A turn that is allowed to make r of a call.
Turned(c, r) == r \in Call /\ Sound(r) /\ Keeps(call[c], r) /\ Set(c, r)

LEMMA TurnedSound ==
  ASSUME WInv, NEW c \in Calls, NEW r, Turned(c, r)
  PROVE  WInv' /\ \A d \in Calls : Keeps(call[d], call'[d])
BY SetSound, SetKeeps DEF Turned

LEMMA NoneIsNot == \A x : <<x>> # None /\ <<x>>[1] = x
BY DEF None

LEMMA CallTyped ==
  ASSUME WInv, NEW c \in Calls
  PROVE  call[c] \in Call /\ Sound(call[c])
BY DEF WInv

\* The preimage Begin makes has a binding input of the field.
LEMMA OverwrittenFits ==
  ASSUME NEW p \in Preimages, NEW over \in Overwrite,
         over # None => fr_from_bigint(over[1]) # None
  PROVE  Overwritten(p, over) \in Asked /\ Fits(Overwritten(p, over), over)
<1>1. p \in Asked
  BY WasmAssumption DEF Asked
<1>2. CASE over = None
  BY <1>1, <1>2 DEF Overwritten, Fits
<1>3. CASE over # None
  <2>1. over[1] \in 0..P - 1 /\ fr_from_bigint(over[1]) = <<over[1]>>
    BY <1>3 DEF fr_from_bigint
  <2>2. Overwritten(p, over) = [p EXCEPT !.binding = over[1]]
    BY <1>3, <2>1 DEF Overwritten
  <2> QED
    BY <1>1, <1>3, <2>1, <2>2 DEF Asked, Fits
<1> QED
  BY <1>2, <1>3

------------------------------------------------------------------------------
(* The turns.                                                                *)

LEMMA NoCallTyped == NoCall \in Call /\ NoCall.pre = None /\ Sound(NoCall)
<1>1. NoCall \in Call
  BY DEF NoCall, Call, States, Kinds, Overwrite, Sizes
<1>2. NoCall.pre = None /\ NoCall.st = "none"
  BY DEF NoCall
<1> QED
  BY <1>1, <1>2 DEF Sound

LEMMA RejectTurned ==
  ASSUME WInv, NEW c \in Calls, call[c].st \notin Settled, Reject(c)
  PROVE  \E r : Turned(c, r)
<1> DEFINE r == [call[c] EXCEPT !.st = "rejected"]
<1>1. call[c] \in Call /\ Sound(call[c])
  BY CallTyped
<1>2. r \in Call
  BY <1>1 DEF Call, States, Settled
<1>3. r.st = "rejected" /\ r.pre = call[c].pre /\ r.over = call[c].over
  BY <1>1 DEF Call
<1>4. Sound(r)
  BY <1>1, <1>3 DEF Sound
<1>5. Keeps(call[c], r)
  BY <1>3 DEF Keeps
<1> QED
  BY <1>2, <1>4, <1>5 DEF Reject, Turned

LEMMA InvokeTurned ==
  ASSUME WInv, NEW c \in Calls, NEW kind \in Kinds, NEW over \in Overwrite,
         Invoke(c, kind, over)
  PROVE  \E r : Turned(c, r)
<1> DEFINE r == [NoCall EXCEPT !.st = "called", !.kind = kind, !.over = over]
<1>1. call[c] \in Call /\ Sound(call[c]) /\ call[c].st = "none"
  BY CallTyped DEF Invoke
<1>2. NoCall \in Call /\ NoCall.pre = None
  BY NoCallTyped
<1>3. r \in Call /\ r.st = "called" /\ r.pre = None
  BY <1>2 DEF Call, States
<1>4. Sound(r)
  BY <1>3 DEF Sound
<1>5. Keeps(call[c], r)
  BY <1>1 DEF Keeps, Sound, Settled
<1> QED
  BY <1>3, <1>4, <1>5 DEF Invoke, Turned

LEMMA BeginTurned ==
  ASSUME WInv, NEW c \in Calls, Begin(c)
  PROVE  \E r : Turned(c, r)
<1> DEFINE p == Overwritten(buffer, call[c].over)
           r == [call[c] EXCEPT !.st = "looking", !.pre = <<p>>]
<1>1. call[c] \in Call /\ Sound(call[c]) /\ call[c].st = "called"
  BY CallTyped DEF Begin
<1>2. CASE Reject(c)
  BY <1>1, <1>2, RejectTurned DEF Settled
<1>3. CASE Usable(c) /\ Set(c, r)
  <2>1. buffer \in Preimages /\ call[c].over \in Overwrite
    BY <1>1, <1>3 DEF WInv, Buffers, Usable, Call
  <2>2. p \in Asked /\ Fits(p, call[c].over)
    BY <1>3, <2>1, OverwrittenFits DEF Usable
  <2> HIDE DEF p
  <2>3. r \in Call
    BY <1>1, <2>2 DEF Call, States
  <2>4. r.st = "looking" /\ r.pre = <<p>> /\ r.over = call[c].over
    BY <1>1 DEF Call
  <2> HIDE DEF r
  <2>5. Sound(r)
    BY <2>2, <2>4, NoneIsNot DEF Sound
  <2>6. Keeps(call[c], r)
    BY <1>1 DEF Keeps, Sound, Settled
  <2> QED
    BY <1>3, <2>3, <2>5, <2>6 DEF Turned
<1> QED
  BY <1>2, <1>3 DEF Begin

\* Conclude, of a call that has got its key, and for prove its parameters.
LEMMA ConcludeTurned ==
  ASSUME WInv, NEW c \in Calls, NEW s \in Call, NEW m \in Materials,
         Sound(call[c]), call[c].st \in {"looking", "fetching"},
         s.pre = call[c].pre, s.over = call[c].over, s.kind = call[c].kind,
         s.kind = "prove" => s.size = <<m.k>>,
         Conclude(c, s, m)
  PROVE  \E r : Turned(c, r)
<1> DEFINE a == [pre |-> s.pre[1], ir |-> m.ir, pk |-> m.pk, k |-> s.size]
           Ended(st) == [s EXCEPT !.st = st]
           yes == [s EXCEPT !.st = "answered", !.ans = <<a>>]
<1>1. s.pre # None /\ Fits(s.pre[1], s.over) /\ call[c].pre = s.pre /\ call[c].st \notin Settled
  BY DEF Sound, Settled
<1>2. s.pre[1] \in Asked /\ s.size \in Sizes
  BY <1>1 DEF Call
<1>3. a \in Answers
  BY <1>2 DEF Answers
<1>4. CASE \E st \in {"trapped", "rejected"} : Set(c, Ended(st))
  <2>1. PICK st \in {"trapped", "rejected"} : Set(c, Ended(st))
    BY <1>4
  <2>2. Ended(st) \in Call
    BY DEF Call, States, Settled
  <2>3. Ended(st).st = st /\ Ended(st).pre = s.pre /\ Ended(st).over = s.over
    BY DEF Call
  <2>4. Sound(Ended(st)) /\ Keeps(call[c], Ended(st))
    BY <1>1, <2>3 DEF Sound, Keeps
  <2> QED
    BY <2>1, <2>2, <2>4 DEF Turned
<1>5. CASE Set(c, yes)
  <2> HIDE DEF a
  <2>1. yes \in Call
    BY <1>3 DEF Call, States, Settled
  <2>2. yes.st = "answered" /\ yes.pre = s.pre /\ yes.over = s.over /\ yes.kind = s.kind
        /\ yes.ans = <<a>>
    BY DEF Call
  <2>3. a.pre = s.pre[1] /\ a.ir = m.ir /\ a.pk = m.pk /\ a.k = s.size
    BY DEF a
  <2> HIDE DEF yes
  <2>4. Sound(yes)
    BY <1>1, <2>2, <2>3, NoneIsNot DEF Sound
  <2>5. Keeps(call[c], yes)
    BY <1>1, <2>2 DEF Keeps
  <2> QED
    BY <1>5, <2>1, <2>4, <2>5 DEF Turned
<1> QED
  BY <1>4, <1>5 DEF Conclude

LEMMA KeyFoundTurned ==
  ASSUME WInv, NEW c \in Calls, KeyFound(c)
  PROVE  \E r : Turned(c, r)
<1> DEFINE m == table[call[c].pre[1].loc]
           s == [call[c] EXCEPT !.key = <<m>>]
           r == [call[c] EXCEPT !.st = "fetching", !.key = <<m>>, !.size = <<m.k>>]
<1>1. call[c] \in Call /\ Sound(call[c]) /\ call[c].st = "looking"
  BY CallTyped DEF KeyFound
<1>2. CASE Reject(c)
  BY <1>1, <1>2, RejectTurned DEF Settled
<1>3. ASSUME m \notin {Junk, Unknown} PROVE m \in Materials
  <2>1. call[c].pre # None
    BY <1>1 DEF Sound
  <2>2. call[c].pre[1].loc \in Locations
    BY <1>1, <2>1 DEF Call, Asked
  <2> QED
    BY <1>3, <2>2 DEF WInv, Entries
<1>4. CASE m \notin {Junk, Unknown} /\ call[c].kind = "check" /\ Conclude(c, s, m)
  <2>1. m \in Materials
    BY <1>3, <1>4
  <2> HIDE DEF m
  <2>2. s \in Call
    BY <1>1, <2>1 DEF Call
  <2>3. s.pre = call[c].pre /\ s.over = call[c].over /\ s.kind = call[c].kind
    BY <1>1 DEF Call
  <2> HIDE DEF s
  <2> QED
    BY <1>1, <1>4, <2>1, <2>2, <2>3, ConcludeTurned
<1>5. CASE m \notin {Junk, Unknown} /\ call[c].kind # "check" /\ Set(c, r)
  <2>1. m \in Materials /\ call[c].kind = "prove"
    BY <1>1, <1>3, <1>5 DEF Call, Kinds
  <2> HIDE DEF m
  <2>2. r \in Call
    BY <1>1, <2>1 DEF Call, States, Sizes
  <2>3. r.st = "fetching" /\ r.pre = call[c].pre /\ r.over = call[c].over
        /\ r.kind = "prove" /\ r.key = <<m>> /\ r.size = <<m.k>>
    BY <1>1, <2>1 DEF Call
  <2> HIDE DEF r
  <2>4. Sound(r) /\ Keeps(call[c], r)
    BY <1>1, <2>3, NoneIsNot DEF Sound, Keeps, Settled
  <2> QED
    BY <1>5, <2>2, <2>4 DEF Turned
<1>6. CASE m \in {Junk, Unknown}
  <2>1. Reject(c)
    BY <1>6 DEF KeyFound
  <2> QED
    BY <1>2, <2>1
<1>7. CASE m \notin {Junk, Unknown} /\ call[c].kind = "check"
  BY <1>4, <1>7 DEF KeyFound
<1>8. CASE m \notin {Junk, Unknown} /\ call[c].kind # "check"
  <2>1. Set(c, r) \/ Reject(c)
    BY <1>8 DEF KeyFound
  <2> QED
    BY <1>2, <1>5, <1>8, <2>1
<1> QED
  BY <1>6, <1>7, <1>8

LEMMA ParamsFoundTurned ==
  ASSUME WInv, NEW c \in Calls, ParamsFound(c)
  PROVE  \E r : Turned(c, r)
<1>1. call[c] \in Call /\ Sound(call[c]) /\ call[c].st = "fetching"
  BY CallTyped DEF ParamsFound
<1>2. call[c].key # None /\ call[c].size = <<call[c].key[1].k>>
  BY <1>1 DEF Sound
<1>3. call[c].key[1] \in Materials
  BY <1>1, <1>2 DEF Call
<1>4. Conclude(c, call[c], call[c].key[1])
  BY DEF ParamsFound
<1> QED
  BY <1>1, <1>2, <1>3, <1>4, ConcludeTurned

------------------------------------------------------------------------------
(* The theorems.                                                             *)

LEMMA InitSound == WasmInit => WInv
<1> SUFFICES ASSUME WasmInit PROVE WInv
  OBVIOUS
<1> QED
  BY NoCallTyped DEF WasmInit, WInv

LEMMA StepSound ==
  ASSUME WInv, [WasmNext]_wasmVars
  PROVE  WInv' /\ \A c \in Calls : Keeps(call[c], call'[c])
<1>1. CASE \E c \in Calls : \E r : Turned(c, r)
  BY <1>1, TurnedSound
<1>2. CASE call' = call /\ buffer' \in Buffers /\ table' \in [Locations -> Entries]
  BY <1>2 DEF WInv, Keeps
<1>3. CASE \E c \in Calls, kind \in Kinds, over \in Overwrite : Invoke(c, kind, over)
  BY <1>1, <1>3, InvokeTurned
<1>4. ASSUME NEW c \in Calls, Turn(c) PROVE \E r : Turned(c, r)
  <2>1. CASE Begin(c)
    BY <2>1, BeginTurned
  <2>2. CASE KeyFound(c)
    BY <2>2, KeyFoundTurned
  <2>3. CASE ParamsFound(c)
    BY <2>3, ParamsFoundTurned
  <2>4. CASE Broken(c)
    BY <2>4, RejectTurned DEF Broken, Settled
  <2> QED
    BY <1>4, <2>1, <2>2, <2>3, <2>4 DEF Turn
<1>5. CASE \E b \in Buffers : Reuse(b)
  BY <1>2, <1>5 DEF Reuse, WInv
<1>6. CASE \E l \in Locations, e \in Entries : Rotate(l, e)
  BY <1>2, <1>6 DEF Rotate, WInv
<1>7. CASE UNCHANGED wasmVars
  BY <1>2, <1>7 DEF wasmVars, WInv
<1> QED
  BY <1>1, <1>3, <1>4, <1>5, <1>6, <1>7 DEF WasmNext

LEMMA AlwaysSound == WasmSpec => []WInv
<1>1. WInv /\ [WasmNext]_wasmVars => WInv'
  BY StepSound
<1> QED
  BY InitSound, <1>1, PTL DEF WasmSpec

\* Whatever BigInt a caller passes, no call works with a binding input outside the
\* field (fr_from_bigint, prove).
THEOREM WasmTypeCorrect == WasmSpec => []WasmTypeOK
<1>1. WInv => WasmTypeOK
  <2> SUFFICES ASSUME WInv, NEW c \in Calls
               PROVE  /\ call[c].st \in States /\ call[c].kind \in Kinds
                      /\ call[c].over \in Overwrite
                      /\ call[c].pre # None => call[c].pre[1].binding \in 0..P - 1
                      /\ call[c].st \in {"looking", "fetching", "answered"} =>
                           call[c].pre # None
    BY DEF WasmTypeOK, WInv
  <2>1. call[c] \in Call /\ Sound(call[c])
    BY CallTyped
  <2> QED
    BY <2>1 DEF Call, Sound, Asked
<1> QED
  BY AlwaysSound, <1>1, PTL

\* The source, the key and the size a proof is made from come from one entry of the
\* provider's table, however the table changes during the awaits (resolve_key,
\* get_params).
THEOREM ProofsAreOfOneMaterial == WasmSpec => []ProofOfOneMaterial
<1>1. WInv => ProofOfOneMaterial
  BY DEF WInv, Sound, ProofOfOneMaterial
<1> QED
  BY AlwaysSound, <1>1, PTL

\* The binding input of a proof is the one asked for, or that of a preimage
\* (prove, fr_from_bigint).
THEOREM BindingsAreAsked == WasmSpec => []BindingIsAsked
<1>1. WInv => BindingIsAsked
  BY DEF WInv, Sound, Fits, BindingIsAsked
<1> QED
  BY AlwaysSound, <1>1, PTL

\* No call is affected by what happens to the buffer after its first turn, and no
\* settled call changes (prove and check copy the buffer before they await).
THEOREM CallsWorkOnOneCopy == WasmSpec => WorksOnOneCopy
<1>1. WInv /\ [WasmNext]_wasmVars =>
        [\A c \in Calls :
           /\ call[c].pre # None => call'[c].pre = call[c].pre
           /\ call[c].st \in Settled => call'[c] = call[c]]_wasmVars
  BY StepSound DEF Keeps
<1> QED
  BY AlwaysSound, <1>1, PTL DEF WasmSpec, WorksOnOneCopy
==============================================================================
