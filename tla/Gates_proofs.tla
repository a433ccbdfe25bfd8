----------------------------- MODULE Gates_proofs -----------------------------
(***************************************************************************)
(* What the value instructions do to types.  The two readings of an        *)
(* instruction are operators on the values of its operands: OffGate, the   *)
(* arm of `preprocess`, and Shape, Holds and Cells, the arm of `circuit`.  *)
(* Of both it is proved, instruction by instruction, that typed operands   *)
(* give typed results, and of the circuit that the values of the new cells *)
(* have the types synthesis knows at key generation.                       *)
(*                                                                         *)
(* First what all proofs about the model need to know of natural numbers   *)
(* and of FlattenSeq.  Induction is stated for a set instead of a          *)
(* predicate: the set of the numbers for which a claim holds.              *)
(***************************************************************************)
EXTENDS Chips, Integers, Sequences, SequencesExt, SequenceTheorems, WellFoundedInduction,
        FiniteSetTheorems, TLAPS

LEMMA InductionOnSet ==
  ASSUME NEW S \in SUBSET Nat, 0 \in S, \A n \in S : n + 1 \in S
  PROVE  S = Nat
<1> SUFFICES ASSUME Nat \ S # {}
             PROVE  FALSE
  OBVIOUS
<1>1. \E m \in Nat \ S : \A k \in Nat \ S : ~(k < m)
  <2>1. PICK m \in Nat \ S : \A k \in Nat \ S : ~(<<k, m>> \in OpToRel(<, Nat))
    BY NatLessThanWellFounded, WFMin
  <2>2. \A k \in Nat : k < m => <<k, m>> \in OpToRel(<, Nat)
    BY DEF OpToRel
  <2> QED
    BY <2>1, <2>2
<1>2. PICK m \in Nat \ S : \A k \in Nat \ S : ~(k < m)
  BY <1>1
<1>3. m # 0 /\ m - 1 \in Nat
  OBVIOUS
<1>4. m - 1 \in S
  BY <1>2, <1>3
<1> QED
  BY <1>3, <1>4

------------------------------------------------------------------------------
(* FlattenSeq is defined with a recursive function; it exists, is unique, and *)
(* depends on each prefix alone.                                             *)

Flattens(f, seqs, n) ==
  f = [i \in 1..n |-> IF i = 1 THEN seqs[i] ELSE f[i - 1] \o seqs[i]]

LEMMA FlattensExists ==
  ASSUME NEW seqs, NEW n \in Nat
  PROVE  \E f : Flattens(f, seqs, n)
<1> DEFINE S == {k \in Nat : \E f : Flattens(f, seqs, k)}
<1>1. 0 \in S
  <2>1. Flattens([i \in 1..0 |-> <<>>], seqs, 0)
    BY DEF Flattens
  <2> QED
    BY <2>1
<1>2. ASSUME NEW k \in S
      PROVE  k + 1 \in S
  <2>1. PICK f : Flattens(f, seqs, k)
    OBVIOUS
  <2> DEFINE g == [i \in 1..(k + 1) |->
                     IF i \in 1..k THEN f[i]
                     ELSE IF i = 1 THEN seqs[i] ELSE f[i - 1] \o seqs[i]]
  <2>2. \A i \in 1..k : f[i] = IF i = 1 THEN seqs[i] ELSE f[i - 1] \o seqs[i]
    BY <2>1 DEF Flattens
  <2>3. ASSUME NEW i \in 1..(k + 1)
        PROVE  g[i] = IF i = 1 THEN seqs[i] ELSE g[i - 1] \o seqs[i]
    <3>1. CASE i = 1
      BY <2>2, <3>1
    <3>2. CASE i # 1
      <4>1. i - 1 \in 1..k /\ i - 1 \in 1..(k + 1)
        BY <3>2
      <4>2. g[i - 1] = f[i - 1]
        BY <4>1
      <4>3. g[i] = f[i - 1] \o seqs[i]
        BY <2>2, <3>2
      <4> QED
        BY <3>2, <4>2, <4>3
    <3> QED
      BY <3>1, <3>2
  <2>4. DOMAIN g = 1..(k + 1) /\ g = [i \in 1..(k + 1) |-> g[i]]
    OBVIOUS
  <2> HIDE DEF g
  <2>5. Flattens(g, seqs, k + 1)
    BY <2>3, <2>4 DEF Flattens
  <2> QED
    BY <2>5
<1> HIDE DEF S
<1>3. S = Nat
  <2>1. S \in SUBSET Nat
    BY DEF S
  <2> QED
    BY <1>1, <1>2, <2>1, InductionOnSet
<1> QED
  BY <1>3 DEF S

LEMMA FlattensSame ==
  ASSUME NEW m \in Nat, NEW n \in Nat, m <= n, NEW s, NEW t, NEW f, NEW g,
         Flattens(f, s, m), Flattens(g, t, n), \A i \in 1..m : s[i] = t[i]
  PROVE  \A i \in 1..m : f[i] = g[i]
<1> DEFINE S == {k \in Nat : k \in 1..m => f[k] = g[k]}
<1>1. 0 \in S
  OBVIOUS
<1>2. ASSUME NEW k \in S
      PROVE  k + 1 \in S
  <2> SUFFICES ASSUME k + 1 \in 1..m
               PROVE  f[k + 1] = g[k + 1]
    OBVIOUS
  <2>1. k + 1 \in 1..n /\ s[k + 1] = t[k + 1]
    OBVIOUS
  <2>2. CASE k = 0
    BY <2>1, <2>2 DEF Flattens
  <2>3. CASE k # 0
    <3>1. f[k] = g[k]
      BY <2>3
    <3>2. k + 1 # 1 /\ (k + 1) - 1 = k
      BY <2>3
    <3>3. f[k + 1] = f[k] \o s[k + 1]
      BY <3>2 DEF Flattens
    <3>4. g[k + 1] = g[k] \o t[k + 1]
      BY <2>1, <3>2 DEF Flattens
    <3> QED
      BY <2>1, <3>1, <3>3, <3>4
  <2> QED
    BY <2>2, <2>3
<1> HIDE DEF S
<1>3. S = Nat
  <2>1. S \in SUBSET Nat
    BY DEF S
  <2> QED
    BY <1>1, <1>2, <2>1, InductionOnSet
<1> QED
  BY <1>3 DEF S

LEMMA FlattenIs ==
  ASSUME NEW seqs, Len(seqs) \in Nat \ {0}
  PROVE  \E f : Flattens(f, seqs, Len(seqs)) /\ FlattenSeq(seqs) = f[Len(seqs)]
<1>1. \E f : Flattens(f, seqs, Len(seqs))
  BY FlattensExists
<1> DEFINE flatten == CHOOSE f : f = [i \in 1..Len(seqs) |->
                                        IF i = 1 THEN seqs[i] ELSE f[i - 1] \o seqs[i]]
<1>2. Flattens(flatten, seqs, Len(seqs))
  BY <1>1 DEF Flattens
<1>3. FlattenSeq(seqs) = flatten[Len(seqs)]
  BY DEF FlattenSeq
<1> QED
  BY <1>2, <1>3

LEMMA FlattenEmpty == FlattenSeq(<<>>) = <<>>
BY EmptySeq DEF FlattenSeq

\* One sequence more: its elements come after the others.
LEMMA FlattenMore ==
  ASSUME NEW S, NEW n \in Nat, NEW s, NEW t \in Seq(Seq(S)),
         s = [i \in 1..n |-> t[i]], Len(t) = n + 1
  PROVE  FlattenSeq(t) = FlattenSeq(s) \o t[n + 1]
<1>1. s \in Seq(Seq(S)) /\ Len(s) = n
  <2>1. \A i \in 1..n : t[i] \in Seq(S)
    BY ElementOfSeq
  <2> QED
    BY <2>1, IsASeq
<1>2. PICK g : Flattens(g, t, n + 1) /\ FlattenSeq(t) = g[n + 1]
  BY FlattenIs
<1>3. CASE n = 0
  <2>1. g[1] = t[1] /\ t[1] \in Seq(S)
    BY <1>2, <1>3, ElementOfSeq DEF Flattens
  <2>2. s = <<>>
    BY <1>1, <1>3, EmptySeq
  <2> QED
    BY <1>2, <1>3, <2>1, <2>2, FlattenEmpty, ConcatEmptySeq
<1>4. CASE n # 0
  <2>1. PICK f : Flattens(f, s, n) /\ FlattenSeq(s) = f[n]
    BY <1>1, <1>4, FlattenIs
  <2>2. f[n] = g[n]
    BY <1>2, <1>4, <2>1, FlattensSame
  <2>3. g[n + 1] = g[n] \o t[n + 1]
    <3>1. n + 1 \in 1..(n + 1) /\ n + 1 # 1 /\ (n + 1) - 1 = n
      BY <1>4
    <3> QED
      BY <1>2, <3>1 DEF Flattens
  <2> QED
    BY <1>2, <2>1, <2>2, <2>3
<1> QED
  BY <1>3, <1>4

LEMMA FlattenTyped ==
  ASSUME NEW S, NEW t \in Seq(Seq(S))
  PROVE  FlattenSeq(t) \in Seq(S)
<1> DEFINE N == {n \in Nat : \A s \in Seq(Seq(S)) : Len(s) = n => FlattenSeq(s) \in Seq(S)}
<1>1. 0 \in N
  BY EmptySeq, FlattenEmpty
<1>2. ASSUME NEW n \in N
      PROVE  n + 1 \in N
  <2> SUFFICES ASSUME NEW s \in Seq(Seq(S)), Len(s) = n + 1
               PROVE  FlattenSeq(s) \in Seq(S)
    OBVIOUS
  <2> DEFINE r == [i \in 1..n |-> s[i]]
  <2>1. r \in Seq(Seq(S)) /\ Len(r) = n
    <3>1. \A i \in 1..n : s[i] \in Seq(S)
      BY ElementOfSeq
    <3> QED
      BY <3>1, IsASeq
  <2>2. FlattenSeq(r) \in Seq(S)
    BY <2>1
  <2>3. s[n + 1] \in Seq(S)
    BY ElementOfSeq
  <2>4. FlattenSeq(s) = FlattenSeq(r) \o s[n + 1]
    BY FlattenMore
  <2> QED
    BY <2>2, <2>3, <2>4, ConcatProperties
<1> HIDE DEF N
<1>3. N = Nat
  <2>1. N \in SUBSET Nat
    BY DEF N
  <2> QED
    BY <1>1, <1>2, <2>1, InductionOnSet
<1>4. Len(t) \in Nat
  BY LenProperties
<1> QED
  BY <1>3, <1>4 DEF N

LEMMA OneElement ==
  ASSUME NEW S, NEW x, <<x>> \in Seq(S)
  PROVE  x \in S
<1>1. Len(<<x>>) = 1 /\ <<x>>[1] = x
  OBVIOUS
<1> QED
  BY <1>1, ElementOfSeq

\* The same for a sequence that is appended, after a header.  Cat keeps the
\* provers from unfolding the concatenation.
FlatAfter(h, s) == h \o FlattenSeq(s)
Cat(s, t) == s \o t

LEMMA AppendIs ==
  ASSUME NEW S, NEW s \in Seq(S), NEW x \in S
  PROVE  Append(s, x) = [i \in 1..(Len(s) + 1) |-> IF i \in 1..Len(s) THEN s[i] ELSE x]
<1>1. Append(s, x) \in Seq(S) /\ Len(Append(s, x)) = Len(s) + 1 /\ Len(s) \in Nat
  BY AppendProperties, LenProperties
<1>2. \A i \in 1..(Len(s) + 1) : Append(s, x)[i] = IF i \in 1..Len(s) THEN s[i] ELSE x
  BY AppendProperties, LenProperties
<1> QED
  BY <1>1, <1>2, LenProperties

LEMMA FlattenAppend ==
  ASSUME NEW S, NEW h \in Seq(S), NEW s \in Seq(Seq(S)), NEW x \in Seq(S)
  PROVE  /\ FlattenSeq(Append(s, x)) = Cat(FlattenSeq(s), x)
         /\ FlatAfter(h, Append(s, x)) = Cat(FlatAfter(h, s), x)
<1> DEFINE flat == FlattenSeq(s)
           t == Append(s, x)
           n == Len(s)
<1>1. n \in Nat /\ t \in Seq(Seq(S)) /\ Len(t) = n + 1 /\ t[n + 1] = x
  BY AppendProperties, LenProperties
<1>2. s = [i \in 1..n |-> t[i]]
  BY AppendProperties, LenProperties
<1>3. flat \in Seq(S)
  BY FlattenTyped
<1>4. FlattenSeq(t) = FlattenSeq(s) \o t[n + 1]
  <2> HIDE DEF t, n
  <2> QED
    BY <1>1, <1>2, FlattenMore
<1> HIDE DEF flat, t, n
<1>5. FlattenSeq(t) = flat \o x
  BY <1>1, <1>4 DEF flat
<1>6. (h \o flat) \o x = h \o (flat \o x)
  BY <1>3, ConcatAssociative
<1> QED
  BY <1>5, <1>6 DEF flat, t, FlatAfter, Cat

\* t is s and one element more, x.
Grows(s, t, n, x) ==
  /\ DOMAIN s = 1..n /\ s = [k \in DOMAIN s |-> s[k]]
  /\ DOMAIN t = 1..(n + 1) /\ t = [k \in DOMAIN t |-> t[k]]
  /\ \A k \in 1..n : t[k] = s[k]
  /\ t[n + 1] = x

LEMMA FlattenGrows ==
  ASSUME NEW S, NEW s \in Seq(Seq(S)), NEW t, NEW n \in Nat, NEW x \in Seq(S),
         Grows(s, t, n, x)
  PROVE  FlattenSeq(s) \in Seq(S) /\ FlattenSeq(t) = Cat(FlattenSeq(s), x)
<1>1. Len(s) = n
  BY DEF Grows
<1>2. t = [k \in 1..(n + 1) |-> IF k \in 1..n THEN s[k] ELSE x]
  BY DEF Grows
<1>3. t = Append(s, x)
  BY <1>1, <1>2, AppendIs
<1>4. <<>> \in Seq(S)
  BY EmptySeq
<1> QED
  BY <1>1, <1>3, <1>4, FlattenAppend, FlattenTyped

\* An element of a sequence has a last occurrence.
LEMMA LastOccurrence ==
  ASSUME NEW S, NEW ids \in Seq(S), NEW id \in ToSet(ids)
  PROVE  \E i \in DOMAIN ids : ids[i] = id /\ \A j \in DOMAIN ids : ids[j] = id => j <= i
<1> DEFINE places == {i \in DOMAIN ids : ids[i] = id}
           fromEnd == {Len(ids) - i : i \in places}
<1>1. DOMAIN ids = 1..Len(ids) /\ Len(ids) \in Nat
  BY LenProperties
<1>2. places # {}
  BY DEF ToSet
<1>3. fromEnd # {} /\ fromEnd \subseteq Nat
  BY <1>1, <1>2
<1>4. PICK d \in fromEnd : \A e \in fromEnd : <<e, d>> \notin OpToRel(<, Nat)
  BY <1>3, NatLessThanWellFounded, WFMin
<1>5. \A e \in fromEnd : ~(e < d)
  BY <1>3, <1>4 DEF OpToRel
<1>6. PICK i \in places : d = Len(ids) - i
  OBVIOUS
<1>7. ASSUME NEW j \in places
      PROVE  j <= i
  <2>1. Len(ids) - j \in fromEnd
    OBVIOUS
  <2>2. ~(Len(ids) - j < Len(ids) - i)
    BY <1>5, <1>6, <2>1
  <2>3. i \in 1..Len(ids) /\ j \in 1..Len(ids)
    BY <1>1
  <2> HIDE DEF places, fromEnd
  <2> QED
    BY <1>1, <2>2, <2>3
<1> QED
  BY <1>6, <1>7

LEMMA FlattenOne ==
  ASSUME NEW x
  PROVE  FlattenSeq(<<x>>) = x
<1> DEFINE s == <<x>>
<1>1. Len(s) = 1 /\ s[1] = x
  OBVIOUS
<1> HIDE DEF s
<1>2. PICK f : Flattens(f, s, 1) /\ FlattenSeq(s) = f[1]
  <2>1. Len(s) \in Nat \ {0}
    BY <1>1
  <2>2. \E f : Flattens(f, s, Len(s)) /\ FlattenSeq(s) = f[Len(s)]
    BY <2>1, FlattenIs
  <2> QED
    BY <1>1, <2>2
<1>3. f[1] = s[1]
  BY <1>2 DEF Flattens
<1> QED
  BY <1>1, <1>2, <1>3 DEF s

\* w is u, of length m, with v, of length n, after it.
Begins(w, u, m) == \A i \in 1..m : w[i] = u[i]
Ends(w, v, m, n) == \A i \in 1..n : w[m + i] = v[i]
Joins(w, u, v, m, n) ==
  /\ Len(w) = m + n /\ DOMAIN w = 1..m + n /\ w = [i \in DOMAIN w |-> w[i]]
  /\ Begins(w, u, m) /\ Ends(w, v, m, n)

LEMMA CatIs ==
  ASSUME NEW S, NEW u \in Seq(S), NEW v \in Seq(S), NEW m \in Nat, NEW n \in Nat,
         m = Len(u), n = Len(v)
  PROVE  \E w \in Seq(S) : w = Cat(u, v) /\ Joins(w, u, v, m, n)
<1>1. u \o v \in Seq(S) /\ Len(u \o v) = m + n
  BY ConcatProperties
<1>2. \A i \in 1..m : (u \o v)[i] = u[i]
  BY ConcatProperties
<1>3. \A i \in 1..n : (u \o v)[m + i] = v[i]
  BY ConcatProperties
<1>4. PICK w \in Seq(S) : w = u \o v
  BY <1>1
<1>5. DOMAIN w = 1..Len(w) /\ w = [i \in 1..Len(w) |-> w[i]]
  BY LenProperties
<1>6. Begins(w, u, m) /\ Ends(w, v, m, n)
  BY <1>2, <1>3, <1>4 DEF Begins, Ends
<1>7. Joins(w, u, v, m, n)
  BY <1>1, <1>4, <1>5, <1>6 DEF Joins
<1> QED
  BY <1>4, <1>7 DEF Cat

\* Two sequences joined from parts that agree are the same.
LEMMA JoinsSame ==
  ASSUME NEW m \in Nat, NEW n \in Nat, NEW w, NEW z, NEW u, NEW v,
         Joins(w, u, v, m, n), Joins(z, u, v, m, n)
  PROVE  z = w
<1>1. ASSUME NEW i \in 1..m + n
      PROVE  z[i] = w[i]
  <2>1. CASE i <= m
    <3>1. i \in 1..m
      BY <2>1
    <3>2. w[i] = u[i]
      BY <3>1 DEF Joins, Begins
    <3>3. z[i] = u[i]
      BY <3>1 DEF Joins, Begins
    <3> QED
      BY <3>2, <3>3
  <2>2. CASE ~(i <= m)
    <3>1. PICK j \in 1..n : i = m + j
      <4>1. i - m \in 1..n /\ i = m + (i - m)
        BY <2>2
      <4> QED
        BY <4>1
    <3>2. w[m + j] = v[j]
      BY DEF Joins, Ends
    <3>3. z[m + j] = v[j]
      BY DEF Joins, Ends
    <3> QED
      BY <3>1, <3>2, <3>3
  <2> QED
    BY <2>1, <2>2
<1>2. DOMAIN w = 1..m + n /\ w = [i \in DOMAIN w |-> w[i]]
  BY DEF Joins
<1>3. DOMAIN z = 1..m + n /\ z = [i \in DOMAIN z |-> z[i]]
  BY DEF Joins
<1> QED
  BY <1>1, <1>2, <1>3

LEMMA CatAssociative ==
  ASSUME NEW S, NEW u \in Seq(S), NEW v \in Seq(S), NEW w \in Seq(S)
  PROVE  Cat(Cat(u, v), w) = Cat(u, Cat(v, w))
BY ConcatAssociative DEF Cat

LEMMA CatEmpty ==
  ASSUME NEW S, NEW u \in Seq(S)
  PROVE  Cat(u, <<>>) = u
BY ConcatEmptySeq DEF Cat

FirstOf(t, n) == [i \in 1..n |-> t[i]]

LEMMA FlattenNext ==
  ASSUME NEW S, NEW n \in Nat, NEW t \in Seq(Seq(S)), Len(t) = n + 1
  PROVE  FlattenSeq(t) = Cat(FlattenSeq(FirstOf(t, n)), t[n + 1])
BY FlattenMore DEF Cat, FirstOf

LEMMA FlattenConcat ==
  ASSUME NEW S, NEW u \in Seq(Seq(S)), NEW v \in Seq(Seq(S))
  PROVE  FlattenSeq(Cat(u, v)) = Cat(FlattenSeq(u), FlattenSeq(v))
<1> DEFINE N == {n \in Nat : \A t \in Seq(Seq(S)) : Len(t) = n =>
                               FlattenSeq(Cat(u, t)) = Cat(FlattenSeq(u), FlattenSeq(t))}
<1>0. FlattenSeq(u) \in Seq(S)
  BY FlattenTyped
<1>1. 0 \in N
  <2> SUFFICES ASSUME NEW t \in Seq(Seq(S)), Len(t) = 0
               PROVE  FlattenSeq(Cat(u, t)) = Cat(FlattenSeq(u), FlattenSeq(t))
    OBVIOUS
  <2>1. t = <<>>
    BY EmptySeq
  <2> QED
    BY <1>0, <2>1, CatEmpty, FlattenEmpty
<1>2. ASSUME NEW n \in Nat, n \in N
      PROVE  n + 1 \in N
  <2>0. \A q \in Seq(Seq(S)) : Len(q) = n =>
                               FlattenSeq(Cat(u, q)) = Cat(FlattenSeq(u), FlattenSeq(q))
    BY <1>2
  <2> SUFFICES ASSUME NEW t \in Seq(Seq(S)), Len(t) = n + 1
               PROVE  FlattenSeq(Cat(u, t)) = Cat(FlattenSeq(u), FlattenSeq(t))
    OBVIOUS
  <2> DEFINE r == [i \in 1..n |-> t[i]]
  <2>1. r \in Seq(Seq(S)) /\ Len(r) = n
    <3>1. \A i \in 1..n : t[i] \in Seq(S)
      BY ElementOfSeq
    <3> QED
      BY <3>1, IsASeq
  <2>2. FlattenSeq(Cat(u, r)) = Cat(FlattenSeq(u), FlattenSeq(r))
    <3> HIDE DEF r
    <3> QED
      BY <2>0, <2>1
  <2> HIDE DEF N
  <2>3. FlattenSeq(t) = Cat(FlattenSeq(r), t[n + 1])
    BY FlattenNext DEF FirstOf
  <2>a. t[n + 1] \in Seq(S)
    <3>1. n + 1 \in 1..Len(t)
      OBVIOUS
    <3> QED
      BY <3>1, ElementOfSeq
  <2>4. \A i \in 1..n : r[i] = t[i]
    OBVIOUS
  <2> HIDE DEF r
  <2>5. PICK m \in Nat : m = Len(u)
    BY LenProperties
  <2>6. PICK long \in Seq(Seq(S)) : long = Cat(u, t) /\ Joins(long, u, t, m, n + 1)
    <3>1. n + 1 \in Nat
      OBVIOUS
    <3> QED
      BY <2>5, <3>1, CatIs
  <2>7. PICK short \in Seq(Seq(S)) : short = Cat(u, r) /\ Joins(short, u, r, m, n)
    BY <2>1, <2>5, CatIs
  <2> DEFINE z == [i \in 1..m + n |-> long[i]]
  <2>8. Joins(z, u, r, m, n)
    <3>1. Begins(z, u, m)
      BY <2>6 DEF Joins, Begins
    <3>2. ASSUME NEW i \in 1..n
          PROVE  z[m + i] = r[i]
      <4>1. m + i \in 1..m + n /\ i \in 1..n + 1
        OBVIOUS
      <4>2. long[m + i] = t[i]
        BY <2>6, <4>1 DEF Joins, Ends
      <4> QED
        BY <2>4, <4>1, <4>2
    <3>3. DOMAIN z = 1..m + n /\ z = [i \in DOMAIN z |-> z[i]] /\ Len(z) = m + n
      OBVIOUS
    <3> HIDE DEF z
    <3> QED
      BY <3>1, <3>2, <3>3 DEF Joins, Ends
  <2>9. short = [i \in 1..m + n |-> long[i]]
    <3>1. z = short
      <4> HIDE DEF z
      <4> QED
        BY <2>7, <2>8, JoinsSame
    <3> QED
      BY <3>1
  <2> HIDE DEF z
  <2>10. m + n \in Nat /\ m + (n + 1) = (m + n) + 1 /\ n + 1 \in 1..n + 1
    OBVIOUS
  <2>11. FlattenSeq(long) = Cat(FlattenSeq(short), long[(m + n) + 1])
    <3>1. Len(long) = (m + n) + 1
      BY <2>6, <2>10 DEF Joins
    <3> QED
      <4>1. PICK k \in Nat : k = m + n
        BY <2>10
      <4>2. Len(long) = k + 1 /\ short = [i \in 1..k |-> long[i]]
        BY <2>9, <2>10, <3>1, <4>1
      <4>3. FlattenSeq(long) = Cat(FlattenSeq(short), long[k + 1])
        <5>1. FlattenSeq(long) = Cat(FlattenSeq(FirstOf(long, k)), long[k + 1])
          BY <4>2, FlattenNext
        <5>2. FirstOf(long, k) = short
          BY <4>2 DEF FirstOf
        <5> QED
          BY <5>1, <5>2
      <4> QED
        BY <4>1, <4>3
  <2>12. long[(m + n) + 1] = t[n + 1]
    <3>1. long[m + (n + 1)] = t[n + 1]
      BY <2>6, <2>10 DEF Joins, Ends
    <3> QED
      BY <2>10, <3>1
  <2>13. FlattenSeq(r) \in Seq(S)
    BY <2>1, FlattenTyped
  <2> QED
    BY <1>0, <2>2, <2>3, <2>a, <2>6, <2>7, <2>11, <2>12, <2>13, CatAssociative
<1> HIDE DEF N
<1>3. N \in SUBSET Nat
  BY DEF N
<1>a. \A n \in N : n + 1 \in N
  BY <1>2, <1>3
<1>4. N = Nat
  BY <1>1, <1>a, <1>2, <1>3, InductionOnSet
<1>5. Len(v) \in Nat
  BY LenProperties
<1> QED
  BY <1>4, <1>5 DEF N

\* The elements of s under f, and those of two sequences one after the other.
Mapped(f, s) == [i \in DOMAIN s |-> f[s[i]]]

Maps(f, S, U) == f \in [S -> U]

LEMMA MappedConcat ==
  ASSUME NEW S, NEW U, NEW f, Maps(f, S, U), NEW u \in Seq(S), NEW v \in Seq(S)
  PROVE  \E x \in Seq(U), y \in Seq(U) :
           x = Mapped(f, u) /\ y = Mapped(f, v) /\ Mapped(f, Cat(u, v)) = Cat(x, y)
<1>1. PICK m \in Nat, n \in Nat : m = Len(u) /\ n = Len(v) /\ DOMAIN u = 1..m /\ DOMAIN v = 1..n
  BY LenProperties
<1>2. /\ \A i \in 1..m : u[i] \in S
      /\ \A i \in 1..n : v[i] \in S
  BY <1>1, ElementOfSeq
<1>0. f \in [S -> U]
  BY DEF Maps
<1> DEFINE x == [i \in 1..m |-> f[u[i]]]
           y == [i \in 1..n |-> f[v[i]]]
<1>3. x = Mapped(f, u) /\ y = Mapped(f, v)
  BY <1>1 DEF Mapped
<1>4. x \in Seq(U) /\ Len(x) = m /\ y \in Seq(U) /\ Len(y) = n
  <2>1. \A i \in 1..m : f[u[i]] \in U
    BY <1>0, <1>2
  <2>2. \A i \in 1..n : f[v[i]] \in U
    BY <1>0, <1>2
  <2>3. x \in Seq(U)
    BY <2>1, IsASeq
  <2>4. y \in Seq(U)
    BY <2>2, IsASeq
  <2> QED
    BY <2>3, <2>4
<1>5. /\ \A i \in 1..m : x[i] = f[u[i]]
      /\ \A i \in 1..n : y[i] = f[v[i]]
  OBVIOUS
<1> HIDE DEF x, y
<1>6. PICK w \in Seq(S) : w = Cat(u, v) /\ Joins(w, u, v, m, n)
  BY <1>1, CatIs
<1>7. PICK xy \in Seq(U) : xy = Cat(x, y) /\ Joins(xy, x, y, m, n)
  BY <1>4, CatIs
<1> DEFINE z == Mapped(f, w)
<1>8. DOMAIN w = 1..m + n
  BY <1>6 DEF Joins
<1>9. z = [i \in 1..m + n |-> f[w[i]]]
  BY <1>8 DEF Mapped
<1>10. DOMAIN z = 1..m + n /\ z = [i \in DOMAIN z |-> z[i]]
  BY <1>9
<1>11. ASSUME NEW i \in 1..m
       PROVE  z[i] = x[i]
  <2>1. i \in 1..m + n /\ w[i] = u[i]
    BY <1>6 DEF Joins, Begins
  <2> QED
    BY <1>5, <1>9, <2>1
<1>12. ASSUME NEW i \in 1..n
       PROVE  z[m + i] = y[i]
  <2>1. m + i \in 1..m + n /\ w[m + i] = v[i]
    BY <1>6 DEF Joins, Ends
  <2> QED
    BY <1>5, <1>9, <2>1
<1>a. Len(z) = m + n
  BY <1>9
<1> HIDE DEF z
<1>b. Joins(z, x, y, m, n)
  BY <1>10, <1>11, <1>12, <1>a DEF Joins, Begins, Ends
<1>13. z = xy
  BY <1>7, <1>b, JoinsSame
<1> QED
  BY <1>3, <1>4, <1>6, <1>7, <1>13 DEF z

LEMMA MappedFlatten ==
  ASSUME NEW S, NEW T, NEW f, Maps(f, S, Seq(T)), NEW u \in Seq(S), NEW v \in Seq(S)
  PROVE  FlattenSeq(Mapped(f, Cat(u, v))) = Cat(FlattenSeq(Mapped(f, u)), FlattenSeq(Mapped(f, v)))
<1>1. PICK x \in Seq(Seq(T)), y \in Seq(Seq(T)) :
        x = Mapped(f, u) /\ y = Mapped(f, v) /\ Mapped(f, Cat(u, v)) = Cat(x, y)
  BY MappedConcat
<1>2. FlattenSeq(Cat(x, y)) = Cat(FlattenSeq(x), FlattenSeq(y))
  BY FlattenConcat
<1> QED
  BY <1>1, <1>2

\* A flattened sequence is its first k pieces, the next one and a rest.
LEMMA FlattenSplits ==
  ASSUME NEW S, NEW t \in Seq(Seq(S)), NEW k \in Nat, k < Len(t)
  PROVE  \E rest \in Seq(S) :
           FlattenSeq(t) = Cat(Cat(FlattenSeq(FirstOf(t, k)), t[k + 1]), rest)
<1>1. PICK n \in Nat : n = Len(t) /\ DOMAIN t = 1..n /\ t = [i \in 1..n |-> t[i]]
  BY LenProperties
<1>2. PICK m \in Nat : n = (k + 1) + m
  <2>1. n - (k + 1) \in Nat /\ n = (k + 1) + (n - (k + 1))
    BY <1>1
  <2> QED
    BY <2>1
<1>3. PICK u : u = FirstOf(t, k + 1)
  OBVIOUS
<1>4. PICK v : v = [i \in 1..m |-> t[(k + 1) + i]]
  OBVIOUS
<1>5. \A i \in 1..n : t[i] \in Seq(S)
  BY <1>1, ElementOfSeq
<1>6. u \in Seq(Seq(S)) /\ Len(u) = k + 1 /\ \A i \in 1..k + 1 : u[i] = t[i]
  <2>0. k + 1 <= n
    BY <1>1
  <2>1. k + 1 \in Nat /\ \A i \in 1..k + 1 : i \in 1..n
    BY <2>0
  <2>2. u = [i \in 1..k + 1 |-> t[i]]
    BY <1>3 DEF FirstOf
  <2> QED
    BY <1>5, <2>1, <2>2, IsASeq
<1>7. v \in Seq(Seq(S)) /\ Len(v) = m /\ \A i \in 1..m : v[i] = t[(k + 1) + i]
  <2>1. \A i \in 1..m : (k + 1) + i \in 1..n
    BY <1>2
  <2>2. \A i \in 1..m : t[(k + 1) + i] \in Seq(S)
    BY <1>5, <2>1
  <2>3. v \in Seq(Seq(S)) /\ Len(v) = m
    BY <1>4, <2>2, IsASeq
  <2> QED
    BY <1>4, <2>3
<1>8. PICK p \in Nat : p = k + 1
  OBVIOUS
<1>9. PICK w \in Seq(Seq(S)) : w = Cat(u, v) /\ Joins(w, u, v, p, m)
  BY <1>6, <1>7, <1>8, CatIs
<1>10. Joins(t, u, v, p, m)
  BY <1>1, <1>2, <1>6, <1>7, <1>8 DEF Joins, Begins, Ends
<1>11. t = Cat(u, v)
  BY <1>8, <1>9, <1>10, JoinsSame
<1>12. FlattenSeq(t) = Cat(FlattenSeq(u), FlattenSeq(v))
  BY <1>6, <1>7, <1>11, FlattenConcat
<1>13. FirstOf(u, k) = FirstOf(t, k)
  <2>1. \A i \in 1..k : i \in 1..k + 1
    OBVIOUS
  <2>2. \A i \in 1..k : u[i] = t[i]
    BY <1>6, <2>1
  <2> QED
    BY <2>2 DEF FirstOf
<1>14. FlattenSeq(u) = Cat(FlattenSeq(FirstOf(u, k)), u[k + 1])
  BY <1>6, FlattenNext
<1>15. u[k + 1] = t[k + 1]
  <2>1. k + 1 \in 1..k + 1
    OBVIOUS
  <2> QED
    BY <1>6, <2>1
<1>16. FlattenSeq(v) \in Seq(S)
  BY <1>7, FlattenTyped
<1> QED
  BY <1>12, <1>13, <1>14, <1>15, <1>16

\* What stands after u and before r.
LEMMA CatMiddle ==
  ASSUME NEW S, NEW u \in Seq(S), NEW x \in Seq(S), NEW r \in Seq(S), NEW i \in DOMAIN x
  PROVE  Cat(Cat(u, x), r)[Len(u) + i] = x[i]
<1>1. PICK m \in Nat, n \in Nat, l \in Nat :
        m = Len(u) /\ n = Len(x) /\ l = Len(r) /\ DOMAIN x = 1..n
  BY LenProperties
<1>2. PICK w \in Seq(S) : w = Cat(u, x) /\ Joins(w, u, x, m, n)
  BY <1>1, CatIs
<1>3. PICK p \in Nat : p = m + n /\ p = Len(w)
  BY <1>1, <1>2 DEF Joins
<1>4. PICK z \in Seq(S) : z = Cat(w, r) /\ Joins(z, w, r, p, l)
  BY <1>1, <1>3, CatIs
<1>0. i \in 1..n
  BY <1>1
<1>5. i \in 1..n /\ m + i \in 1..p
  BY <1>0, <1>3
<1>6. z[m + i] = w[m + i]
  BY <1>4, <1>5 DEF Joins, Begins
<1>7. w[m + i] = x[i]
  BY <1>2, <1>5 DEF Joins, Ends
<1> QED
  BY <1>1, <1>2, <1>4, <1>6, <1>7

\* Pieces of one element each.
Ones(x) == [i \in DOMAIN x |-> <<x[i]>>]
LEMMA FlattenOnes ==
  ASSUME NEW S, NEW x \in Seq(S)
  PROVE  FlattenSeq(Ones(x)) = x
<1> DEFINE N == {n \in Nat : \A y \in Seq(S) : Len(y) = n => FlattenSeq(Ones(y)) = y}
<1>1. 0 \in N
  <2> SUFFICES ASSUME NEW y \in Seq(S), Len(y) = 0
               PROVE  FlattenSeq(Ones(y)) = y
    OBVIOUS
  <2>1. y = <<>>
    BY EmptySeq
  <2>2. Ones(y) = <<>>
    BY <2>1 DEF Ones
  <2> QED
    BY <2>1, <2>2, FlattenEmpty
<1>2. ASSUME NEW n \in Nat, n \in N
      PROVE  n + 1 \in N
  <2>0. \A q \in Seq(S) : Len(q) = n => FlattenSeq(Ones(q)) = q
    BY <1>2
  <2> SUFFICES ASSUME NEW y \in Seq(S), Len(y) = n + 1
               PROVE  FlattenSeq(Ones(y)) = y
    OBVIOUS
  <2> HIDE DEF N
  <2>1. DOMAIN y = 1..n + 1 /\ \A i \in 1..n + 1 : y[i] \in S
    BY LenProperties, ElementOfSeq
  <2>2. PICK q : q = FirstOf(y, n)
    OBVIOUS
  <2>3. q \in Seq(S) /\ Len(q) = n /\ DOMAIN q = 1..n /\ \A i \in 1..n : q[i] = y[i]
    <3>1. \A i \in 1..n : i \in 1..n + 1
      OBVIOUS
    <3> QED
      BY <2>1, <2>2, <3>1, IsASeq DEF FirstOf
  <2>4. FlattenSeq(Ones(q)) = q
    BY <2>0, <2>3
  <2>5. PICK t : t = Ones(y)
    OBVIOUS
  <2>6. \A i \in 1..n + 1 : <<y[i]>> \in Seq(S)
    BY <2>1
  <2>7. t \in Seq(Seq(S)) /\ Len(t) = n + 1 /\ t[n + 1] = <<y[n + 1]>>
    <3>1. t = [i \in 1..n + 1 |-> <<y[i]>>]
      BY <2>1, <2>5 DEF Ones
    <3>2. n + 1 \in Nat /\ n + 1 \in 1..n + 1
      OBVIOUS
    <3> QED
      BY <2>6, <3>1, <3>2, IsASeq
  <2>8. FirstOf(t, n) = Ones(q)
    BY <2>1, <2>3, <2>5 DEF FirstOf, Ones
  <2>9. FlattenSeq(t) = Cat(q, <<y[n + 1]>>)
    BY <2>4, <2>7, <2>8, FlattenNext
  <2>10. <<y[n + 1]>> \in Seq(S) /\ Len(<<y[n + 1]>>) = 1 /\ <<y[n + 1]>>[1] = y[n + 1]
    <3>1. n + 1 \in 1..n + 1
      OBVIOUS
    <3> QED
      BY <2>6, <3>1
  <2>11. PICK w \in Seq(S) : w = Cat(q, <<y[n + 1]>>) /\ Joins(w, q, <<y[n + 1]>>, n, 1)
    BY <2>3, <2>10, CatIs
  <2>12. Joins(y, q, <<y[n + 1]>>, n, 1)
    <3>1. Begins(y, q, n)
      BY <2>3 DEF Begins
    <3>2. Ends(y, <<y[n + 1]>>, n, 1)
      BY <2>10 DEF Ends
    <3>3. y = [i \in DOMAIN y |-> y[i]]
      BY LenProperties
    <3> QED
      BY <2>1, <3>1, <3>2, <3>3 DEF Joins
  <2>13. w = y
    BY <2>11, <2>12, JoinsSame
  <2> QED
    BY <2>5, <2>9, <2>11, <2>13
<1> HIDE DEF N
<1>3. N \in SUBSET Nat
  BY DEF N
<1>4. \A n \in N : n + 1 \in N
  BY <1>2, <1>3
<1>5. N = Nat
  BY <1>1, <1>3, <1>4, InductionOnSet
<1>6. Len(x) \in Nat
  BY LenProperties
<1> QED
  BY <1>5, <1>6 DEF N

\* A sequence is a prefix of what begins with it.
LEMMA PrefixOfCat ==
  ASSUME NEW S, NEW s \in Seq(S), NEW t \in Seq(S)
  PROVE  IsPrefix(s, Cat(s, t))
<1>1. Len(s \o t) = Len(s) + Len(t) /\ Len(s) \in Nat /\ Len(t) \in Nat
  BY ConcatProperties, LenProperties
<1>2. \A i \in 1..Len(s) : (s \o t)[i] = s[i]
  BY <1>1, ConcatProperties
<1>3. /\ SubSeq(s, 1, Len(s)) \in Seq(S)
      /\ Len(SubSeq(s, 1, Len(s))) = Len(s)
      /\ \A i \in 1..Len(s) : SubSeq(s, 1, Len(s))[i] = s[i]
  <2>1. \A i \in 1..Len(s) : s[i] \in S
    BY <1>1, ElementOfSeq
  <2> QED
    BY <1>1, <2>1, SubSeqProperties
<1>4. /\ SubSeq(s \o t, 1, Len(s)) \in Seq(S)
      /\ Len(SubSeq(s \o t, 1, Len(s))) = Len(s)
      /\ \A i \in 1..Len(s) : SubSeq(s \o t, 1, Len(s))[i] = s[i]
  <2>1. \A i \in 1..Len(s) : (s \o t)[i] \in S
    BY <1>2, ElementOfSeq
  <2> QED
    BY <1>1, <1>2, <2>1, SubSeqProperties
<1>5. SubSeq(s \o t, 1, Len(s)) = SubSeq(s, 1, Len(s))
  BY <1>3, <1>4, SeqEqual
<1> QED
  BY <1>1, <1>5 DEF IsPrefix, Cat

\* What the first k pieces hold, the whole begins with.
OpensWith(S, u, w) == u \in Seq(S) /\ \E r \in Seq(S) : w = Cat(u, r)

LEMMA FlattenBegins ==
  ASSUME NEW S, NEW n \in Nat, NEW t \in Seq(Seq(S)), Len(t) = n,
         NEW k \in Nat, k <= n, NEW u, u = FlattenSeq(FirstOf(t, k))
  PROVE  OpensWith(S, u, FlattenSeq(t))
<1>2. CASE k = n
  <2>1. u = FlattenSeq(t)
    <3>1. DOMAIN t = 1..n /\ t = [j \in DOMAIN t |-> t[j]]
      BY LenProperties
    <3> QED
      BY <1>2, <3>1 DEF FirstOf
  <2>2. u \in Seq(S)
    BY <2>1, FlattenTyped
  <2>3. Cat(u, <<>>) = u /\ <<>> \in Seq(S)
    BY <2>2, CatEmpty, EmptySeq
  <2> QED
    BY <2>1, <2>2, <2>3 DEF OpensWith
<1>3. CASE k < n
  <2>1. PICK w : w = FirstOf(t, k)
    OBVIOUS
  <2>2. \A j \in 1..k : t[j] \in Seq(S)
    <3>1. \A j \in 1..k : j \in 1..n
      BY <1>3
    <3> QED
      BY <3>1, ElementOfSeq
  <2>3. w \in Seq(Seq(S))
    BY <2>1, <2>2, IsASeq DEF FirstOf
  <2>4. u = FlattenSeq(w)
    BY <2>1
  <2>5. u \in Seq(S)
    BY <2>3, <2>4, FlattenTyped
  <2>6. PICK r \in Seq(S) : FlattenSeq(t) = Cat(Cat(FlattenSeq(FirstOf(t, k)), t[k + 1]), r)
    BY <1>3, FlattenSplits
  <2>7. PICK x \in Seq(S) : x = t[k + 1]
    <3>1. k + 1 \in 1..n
      BY <1>3
    <3> QED
      BY <3>1, ElementOfSeq
  <2>8. FlattenSeq(t) = Cat(u, Cat(x, r))
    <3>1. Cat(Cat(u, x), r) = Cat(u, Cat(x, r))
      BY <2>5, <2>7, CatAssociative
    <3> QED
      BY <2>1, <2>4, <2>6, <2>7, <3>1
  <2>9. Cat(x, r) \in Seq(S)
    BY <2>6, <2>7, ConcatProperties DEF Cat
  <2> QED
    BY <2>5, <2>8, <2>9 DEF OpensWith
<1> QED
  BY <1>2, <1>3

------------------------------------------------------------------------------
(* Types and values.                                                         *)

Octets == 0..ByteBase - 1
Typed(v) == v.ty \in IrType /\ v \in IrValue(v.ty)
AllTyped(vs) == \A i \in DOMAIN vs : Typed(vs[i])

\* What the hash gadgets return, which no assumption can say: the model checker
\* evaluates assumptions, and these range over every input.
GadgetsTyped ==
  /\ \A xs \in Seq(Immediates) : /\ Poseidon(xs) \in Immediates
                                 /\ HashToPoint(xs) \in 0..ScalarMod["Jubjub"] - 1
  /\ \A op \in HashOps, bs \in Seq(Nat) : Digest(op, bs) \in [1..DigestLen(op) -> Octets]

------------------------------------------------------------------------------
(* Types.                                                                    *)

LEMMA Constants ==
  /\ P \in Nat \ {0} /\ P > 1 /\ ByteBase \in Nat /\ ByteBase > 3 /\ LimbBase \in Nat \ {0}
  /\ ChunkLen \in Nat \ {0} /\ FrBytes \in Nat \ {0} /\ MAX_BYTES_LEN \in Nat \ {0}
  /\ ChunkLen < FrBytes /\ FrBytes < MAX_BYTES_LEN /\ FR_BITS \in Nat \ {0}
  /\ "Jubjub" \in Curves /\ ByteBase <= P
  /\ \A c \in Curves : BaseMod[c] \in Nat \ {0} /\ ScalarMod[c] \in Nat /\ ScalarMod[c] > 1
<1>1. ByteBase^ChunkLen < P
  BY FieldAssumption
<1>2. ChunkLen - 1 \in 0..MAX_BYTES_LEN /\ (ChunkLen - 1) + 1 = ChunkLen
  BY FieldAssumption
<1>3. ByteBase^ChunkLen = ByteBase * ByteBase^(ChunkLen - 1) /\ ByteBase^(ChunkLen - 1) \in Nat \ {0}
  BY <1>2, PowerAssumption
<1>4. ByteBase \in Nat /\ ByteBase > 3
  BY PowerAssumption
<1>5. ByteBase <= ByteBase^ChunkLen
  BY <1>3, <1>4
<1>6. /\ P \in Nat \ {0} /\ LimbBase \in Nat \ {0} /\ ChunkLen \in Nat \ {0}
      /\ FrBytes \in Nat \ {0} /\ MAX_BYTES_LEN \in Nat \ {0} /\ FR_BITS \in Nat \ {0}
      /\ ChunkLen < FrBytes /\ FrBytes < MAX_BYTES_LEN
  BY FieldAssumption
<1>7. "Jubjub" \in Curves
  BY CurveAssumption
<1>8. \A c \in Curves : BaseMod[c] \in Nat \ {0} /\ ScalarMod[c] \in Nat /\ ScalarMod[c] > 1
  BY CurveAssumption
<1>9. ByteBase <= P /\ P > 1
  BY <1>1, <1>3, <1>4, <1>5, <1>6
<1> QED
  BY <1>4, <1>6, <1>7, <1>8, <1>9

\* The eight kinds of type, told apart by their first component.
Foreign == Curves \ {"Jubjub"}
LEMMA TypeKinds ==
  ASSUME NEW t \in IrType
  PROVE  \/ t \in {Native, Bool, Byte}
         \/ \E c \in Curves : t = Scalar(c) \/ t = Point(c)
         \/ \E c \in Foreign : t = <<"Base", c>>
         \/ \E n \in 1..MAX_BYTES_LEN : t = Bytes(n)
BY DEF IrType, PrimeFields, Points, BytesTypes, Base, Foreign

LEMMA Tags ==
  /\ Native[1] = "Native" /\ Bool[1] = "Bool" /\ Byte[1] = "Byte"
  /\ \A c : Scalar(c)[1] = "Scalar" /\ Scalar(c)[2] = c
  /\ \A c : Point(c)[1] = "Point" /\ Point(c)[2] = c
  /\ \A c : <<"Base", c>>[1] = "Base" /\ <<"Base", c>>[2] = c
  /\ \A n : Bytes(n)[1] = "Bytes" /\ Bytes(n)[2] = n
BY DEF Native, Bool, Byte, Scalar, Point, Bytes

LEMMA BytesTagged ==
  ASSUME NEW t \in IrType
  PROVE  /\ t \in BytesTypes <=> t[1] = "Bytes"
         /\ t \in BytesTypes => t[2] \in 1..MAX_BYTES_LEN /\ t = Bytes(t[2])
<1>1. ASSUME NEW u \in BytesTypes
      PROVE  u[1] = "Bytes" /\ u[2] \in 1..MAX_BYTES_LEN /\ u = Bytes(u[2])
  BY <1>1, Tags DEF BytesTypes
<1>2. t[1] = "Bytes" => t \in BytesTypes
  BY TypeKinds, Tags DEF BytesTypes
<1> QED
  BY <1>1, <1>2

LEMMA Members ==
  /\ {Native, Bool, Byte} \subseteq IrType \ BytesTypes
  /\ \A c \in Curves : /\ {Scalar(c), Point(c), Base(c)} \subseteq IrType \ BytesTypes
                       /\ Scalar(c) \in PrimeFields /\ Base(c) \in PrimeFields /\ Point(c) \in Points
  /\ Native \in PrimeFields
  /\ PrimeFields \cup Points \subseteq IrType \ BytesTypes
  /\ \A n \in 1..MAX_BYTES_LEN : Bytes(n) \in IrType /\ Bytes(n) \in BytesTypes
<1>1. PrimeFields \cup Points \cup {Native, Bool, Byte} \subseteq IrType
  BY DEF IrType, PrimeFields
<1>2. \A t \in PrimeFields \cup Points \cup {Native, Bool, Byte} : t[1] # "Bytes"
  BY Tags DEF PrimeFields, Points, Base
<1>3. PrimeFields \cup Points \cup {Native, Bool, Byte} \subseteq IrType \ BytesTypes
  BY <1>1, <1>2, BytesTagged
<1>4. \A c \in Curves : Scalar(c) \in PrimeFields /\ Base(c) \in PrimeFields /\ Point(c) \in Points
  BY DEF PrimeFields, Points
<1>5. \A n \in 1..MAX_BYTES_LEN : Bytes(n) \in IrType /\ Bytes(n) \in BytesTypes
  BY DEF IrType, BytesTypes
<1>6. Native \in PrimeFields
  BY DEF PrimeFields
<1> QED
  BY <1>3, <1>4, <1>5, <1>6

LEMMA Orders ==
  /\ Order(Native) = P /\ Order(Bool) = 2 /\ Order(Byte) = ByteBase
  /\ \A c : Order(Scalar(c)) = ScalarMod[c] /\ Order(Point(c)) = ScalarMod[c]
  /\ \A c : Order(<<"Base", c>>) = BaseMod[c]
  /\ Order(Base("Jubjub")) = P
  /\ \A c \in Curves : Order(Base(c)) = BaseMod[c]
<1>1. Order(Native) = P /\ Order(Bool) = 2 /\ Order(Byte) = ByteBase
  BY Tags DEF Order
<1>2. \A c : Order(Scalar(c)) = ScalarMod[c] /\ Order(Point(c)) = ScalarMod[c]
  BY Tags DEF Order
<1>3. \A c : Order(<<"Base", c>>) = BaseMod[c]
  BY Tags DEF Order
<1> QED
  BY <1>1, <1>2, <1>3, CurveAssumption DEF Base

LEMMA OrderIsNat ==
  ASSUME NEW t \in IrType \ BytesTypes
  PROVE  Order(t) \in Nat \ {0}
BY TypeKinds, Orders, Constants, Members DEF Foreign

------------------------------------------------------------------------------
(* Values.                                                                   *)

LEMMA TypedV ==
  ASSUME NEW t \in IrType \ BytesTypes, NEW x \in 0..Order(t) - 1
  PROVE  Typed(V(t, x)) /\ V(t, x).ty = t /\ V(t, x).val = x
BY DEF Typed, V, IrValue

LEMMA TypedFr ==
  ASSUME NEW x \in 0..P - 1
  PROVE  Typed(Fr(x)) /\ Fr(x).ty = Native /\ Fr(x).val = x
BY TypedV, Orders, Members DEF Fr

LEMMA TypedBytes ==
  ASSUME NEW n \in 1..MAX_BYTES_LEN, NEW bs \in [1..n -> Octets]
  PROVE  Typed(BytesV(bs)) /\ BytesV(bs).ty = Bytes(n) /\ BytesV(bs).val = bs
<1>1. Len(bs) = n
  OBVIOUS
<1>2. Bytes(n) \in IrType /\ Bytes(n) \in BytesTypes /\ Bytes(n)[2] = n
  BY Members, Tags
<1> QED
  BY <1>1, <1>2 DEF Typed, BytesV, V, IrValue, Octets

LEMMA ValueRange ==
  ASSUME NEW v, Typed(v), v.ty \notin BytesTypes
  PROVE  v.val \in 0..Order(v.ty) - 1 /\ v.val \in Nat /\ v.ty \in IrType \ BytesTypes
         /\ v = V(v.ty, v.val) /\ Order(v.ty) \in Nat \ {0}
<1>1. v \in [ty : {v.ty}, val : 0..Order(v.ty) - 1]
  BY DEF Typed, IrValue
<1>2. v.ty \in IrType \ BytesTypes /\ Order(v.ty) \in Nat \ {0}
  BY OrderIsNat DEF Typed
<1> QED
  BY <1>1, <1>2 DEF V

LEMMA BytesRange ==
  ASSUME NEW v, Typed(v), v.ty \in BytesTypes
  PROVE  /\ v.ty[2] \in 1..MAX_BYTES_LEN /\ v.ty = Bytes(v.ty[2])
         /\ v.val \in [1..v.ty[2] -> Octets] /\ Len(v.val) = v.ty[2]
         /\ v.val \in Seq(Octets) /\ v = V(v.ty, v.val)
<1>1. v.ty[2] \in 1..MAX_BYTES_LEN /\ v.ty = Bytes(v.ty[2])
  BY BytesTagged DEF Typed
<1>2. v \in [ty : {v.ty}, val : [1..v.ty[2] -> Octets]]
  BY DEF Typed, IrValue, Octets
<1>3. v.val \in [1..v.ty[2] -> Octets] /\ v = V(v.ty, v.val)
  BY <1>2 DEF V
<1>4. v.ty[2] \in Nat
  BY <1>1, Constants
<1> QED
  BY <1>1, <1>3, <1>4

LEMMA IsBytesTyped ==
  ASSUME NEW v, Typed(v)
  PROVE  IsBytes(v) <=> v.ty \in BytesTypes
BY BytesTagged DEF Typed, IsBytes

LEMMA FrRange ==
  ASSUME NEW v, Typed(v), v.ty = Native
  PROVE  v.val \in 0..P - 1 /\ v.val \in Nat /\ v.val \in Immediates /\ v = Fr(v.val)
BY ValueRange, Orders, Members DEF Fr, Immediates

LEMMA BoolRange ==
  ASSUME NEW v, Typed(v), v.ty = Bool
  PROVE  v.val \in {0, 1}
BY ValueRange, Orders, Members

------------------------------------------------------------------------------
(* Arithmetic.                                                               *)

LEMMA ModRange ==
  ASSUME NEW x \in Int, NEW m \in Nat, m > 0
  PROVE  x % m \in 0..m - 1
OBVIOUS

LEMMA DivNat ==
  ASSUME NEW x \in Nat, NEW m \in Nat, m > 0
  PROVE  x \div m \in Nat
OBVIOUS

LEMMA DivLess ==
  ASSUME NEW x \in Nat, NEW m \in Nat, m > 0
  PROVE  x \div m <= x
OBVIOUS

LEMMA ModIs ==
  ASSUME NEW x \in Nat, NEW m \in Nat, m > 0
  PROVE  x % m = x - m * (x \div m)
OBVIOUS

LEMMA DivBelow ==
  ASSUME NEW x \in Nat, NEW m \in Nat, NEW q \in Nat, m > 0, x < m * q
  PROVE  x \div m < q
OBVIOUS

LEMMA NextPower ==
  ASSUME NEW b \in Nat, NEW m \in Nat, NEW p \in Nat, NEW x \in Nat, b < m, x < p
  PROVE  x + b * p \in Nat /\ x + b * p < m * p
<1>1. (b + 1) * p <= m * p
  OBVIOUS
<1> QED
  BY <1>1

LEMMA TimesGrows ==
  ASSUME NEW p \in Nat, NEW b \in Nat, b > 0
  PROVE  b * p \in Nat /\ p <= b * p
OBVIOUS

LEMMA ByteRange ==
  ASSUME NEW x \in Int
  PROVE  x % ByteBase \in Octets
BY ModRange, Constants DEF Octets

LEMMA LeBytesTyped ==
  ASSUME NEW x \in Nat, NEW n \in 0..MAX_BYTES_LEN
  PROVE  LeBytes(x, n) \in [1..n -> Octets] /\ Len(LeBytes(x, n)) = n
         /\ LeBytes(x, n) \in Seq(Octets)
<1>1. n \in Nat
  BY Constants
<1>2. ASSUME NEW i \in 1..n
      PROVE  (x \div ByteBase^(i - 1)) % ByteBase \in Octets
  <2>1. i - 1 \in 0..MAX_BYTES_LEN
    BY <1>1, Constants
  <2>2. ByteBase^(i - 1) \in Nat \ {0}
    BY <2>1, PowerAssumption
  <2> QED
    BY <2>2, DivNat, ByteRange
<1>3. LeBytes(x, n) \in [1..n -> Octets]
  BY <1>2 DEF LeBytes
<1> QED
  BY <1>1, <1>3

------------------------------------------------------------------------------
(* Sums, and with them the integer a byte string stands for.                 *)

Sums(f, ns, n) == f = [i \in 0..n |-> IF i = 0 THEN 0 ELSE f[i - 1] + ns[i]]

LEMMA SumsExists ==
  ASSUME NEW ns, NEW n \in Nat
  PROVE  \E f : Sums(f, ns, n)
<1> DEFINE S == {k \in Nat : \E f : Sums(f, ns, k)}
<1>1. 0 \in S
  <2>1. Sums([i \in 0..0 |-> 0], ns, 0)
    BY DEF Sums
  <2> QED
    BY <2>1
<1>2. ASSUME NEW k \in S
      PROVE  k + 1 \in S
  <2>1. PICK f : Sums(f, ns, k)
    OBVIOUS
  <2> DEFINE g == [i \in 0..(k + 1) |->
                     IF i \in 0..k THEN f[i] ELSE IF i = 0 THEN 0 ELSE f[i - 1] + ns[i]]
  <2>2. \A i \in 0..k : f[i] = IF i = 0 THEN 0 ELSE f[i - 1] + ns[i]
    BY <2>1 DEF Sums
  <2>3. ASSUME NEW i \in 0..(k + 1)
        PROVE  g[i] = IF i = 0 THEN 0 ELSE g[i - 1] + ns[i]
    <3>1. CASE i = 0
      BY <2>2, <3>1
    <3>2. CASE i # 0
      <4>1. i - 1 \in 0..k /\ i - 1 \in 0..(k + 1)
        BY <3>2
      <4>2. g[i - 1] = f[i - 1]
        BY <4>1
      <4>3. g[i] = f[i - 1] + ns[i]
        BY <2>2, <3>2
      <4> QED
        BY <3>2, <4>2, <4>3
    <3> QED
      BY <3>1, <3>2
  <2>4. DOMAIN g = 0..(k + 1) /\ g = [i \in 0..(k + 1) |-> g[i]]
    OBVIOUS
  <2> HIDE DEF g
  <2>5. Sums(g, ns, k + 1)
    BY <2>3, <2>4 DEF Sums
  <2> QED
    BY <2>5
<1> HIDE DEF S
<1>3. S = Nat
  <2>1. S \in SUBSET Nat
    BY DEF S
  <2> QED
    BY <1>1, <1>2, <2>1, InductionOnSet
<1> QED
  BY <1>3 DEF S

LEMMA SumsStep ==
  ASSUME NEW f, NEW ns, NEW n \in Nat, Sums(f, ns, n)
  PROVE  f[0] = 0 /\ \A k \in Nat : k + 1 \in 1..n => f[k + 1] = f[k] + ns[k + 1]
<1>1. f[0] = 0
  BY DEF Sums
<1>2. ASSUME NEW k \in Nat, k + 1 \in 1..n
      PROVE  f[k + 1] = f[k] + ns[k + 1]
  <2>1. k + 1 \in 0..n /\ k + 1 # 0 /\ (k + 1) - 1 = k
    BY <1>2
  <2> QED
    BY <2>1 DEF Sums
<1> QED
  BY <1>1, <1>2

LEMMA TotalIs ==
  ASSUME NEW ns, Len(ns) \in Nat
  PROVE  \E f : Sums(f, ns, Len(ns)) /\ Total(ns) = f[Len(ns)]
<1>1. \E f : Sums(f, ns, Len(ns))
  BY SumsExists
<1> DEFINE upTo == CHOOSE f : f = [i \in 0..Len(ns) |-> IF i = 0 THEN 0 ELSE f[i - 1] + ns[i]]
<1>2. Sums(upTo, ns, Len(ns))
  BY <1>1 DEF Sums
<1>3. Total(ns) = upTo[Len(ns)]
  BY DEF Total
<1> QED
  BY <1>2, <1>3

\* The partial sums of natural numbers are natural numbers and never fall.
LEMMA SumsNat ==
  ASSUME NEW f, NEW n \in Nat, NEW ns, Sums(f, ns, n), \A i \in 1..n : ns[i] \in Nat
  PROVE  \A k \in 0..n : f[k] \in Nat
<1> DEFINE S == {k \in Nat : k \in 0..n => f[k] \in Nat}
<1>1. 0 \in S
  BY SumsStep
<1>2. ASSUME NEW k \in S
      PROVE  k + 1 \in S
  <2> SUFFICES ASSUME k + 1 \in 0..n PROVE f[k + 1] \in Nat
    OBVIOUS
  <2>1. k + 1 \in 1..n /\ k \in 0..n
    OBVIOUS
  <2>2. f[k + 1] = f[k] + ns[k + 1]
    BY <2>1, SumsStep
  <2> QED
    BY <2>1, <2>2
<1> HIDE DEF S
<1>3. S \in SUBSET Nat
  BY DEF S
<1>4. S = Nat
  BY <1>1, <1>2, <1>3, InductionOnSet
<1> QED
  BY <1>4 DEF S

LEMMA PowersGrow ==
  ASSUME NEW m \in 0..ChunkLen
  PROVE  ByteBase^m \in Nat /\ ByteBase^m <= ByteBase^ChunkLen
<1>1. ChunkLen \in Nat /\ ChunkLen < MAX_BYTES_LEN /\ MAX_BYTES_LEN \in Nat /\ m \in Nat
  BY Constants
<1> DEFINE S == {k \in Nat : m + k \in 0..MAX_BYTES_LEN =>
                              ByteBase^(m + k) \in Nat /\ ByteBase^m <= ByteBase^(m + k)}
<1>2. 0 \in S
  BY <1>1, PowerAssumption
<1>3. ASSUME NEW k \in S
      PROVE  k + 1 \in S
  <2> SUFFICES ASSUME m + (k + 1) \in 0..MAX_BYTES_LEN
               PROVE  /\ ByteBase^(m + (k + 1)) \in Nat
                      /\ ByteBase^m <= ByteBase^(m + (k + 1))
    OBVIOUS
  <2>1. PICK j \in Nat : j = m + k /\ j \in 0..MAX_BYTES_LEN /\ m + (k + 1) = j + 1
    BY <1>1
  <2>2. ByteBase^(j + 1) = ByteBase * ByteBase^j /\ ByteBase^j \in Nat /\ ByteBase > 3
    BY <2>1, PowerAssumption
  <2>3. ByteBase^m \in Nat /\ ByteBase^m <= ByteBase^j
    BY <1>1, <2>1, PowerAssumption
  <2>4. PICK b \in Nat : b = ByteBase /\ b > 0
    BY Constants
  <2>5. PICK p \in Nat : p = ByteBase^j
    BY <2>2
  <2>6. b * p \in Nat /\ p <= b * p
    BY <2>4, <2>5, TimesGrows
  <2> QED
    BY <2>1, <2>2, <2>3, <2>4, <2>5, <2>6
<1> HIDE DEF S
<1>4. S \in SUBSET Nat
  BY DEF S
<1>5. S = Nat
  BY <1>2, <1>3, <1>4, InductionOnSet
<1>6. PICK k \in Nat : m + k = ChunkLen /\ m + k \in 0..MAX_BYTES_LEN
  BY <1>1
<1>7. ByteBase^m \in Nat
  BY <1>1, PowerAssumption
<1> QED
  BY <1>5, <1>6, <1>7 DEF S

LEMMA LeIntRange ==
  ASSUME NEW n \in 0..MAX_BYTES_LEN, NEW bs \in [1..n -> Octets]
  PROVE  LeInt(bs) \in Nat /\ LeInt(bs) < ByteBase^n
<1> DEFINE ns == [i \in DOMAIN bs |-> bs[i] * ByteBase^(i - 1)]
<1>0. n \in Nat /\ Len(ns) = n /\ ByteBase \in Nat /\ ByteBase > 3 /\ ByteBase^0 = 1
  BY Constants, PowerAssumption
<1>1. LeInt(bs) = Total(ns)
  BY DEF LeInt
<1>2. \A k \in Nat : k + 1 \in 1..n => ns[k + 1] = bs[k + 1] * ByteBase^k
  OBVIOUS
<1> HIDE DEF ns
<1>3. PICK f : Sums(f, ns, n) /\ Total(ns) = f[n]
  BY <1>0, TotalIs
<1> DEFINE S == {k \in Nat : k \in 0..n => f[k] \in Nat /\ f[k] < ByteBase^k}
<1>4. 0 \in S
  BY <1>0, <1>3, SumsStep
<1>5. ASSUME NEW k \in S
      PROVE  k + 1 \in S
  <2> SUFFICES ASSUME k + 1 \in 0..n
               PROVE  f[k + 1] \in Nat /\ f[k + 1] < ByteBase^(k + 1)
    OBVIOUS
  <2>1. k + 1 \in 1..n /\ k \in 0..n /\ k \in 0..MAX_BYTES_LEN
    BY <1>0, Constants
  <2>2. f[k + 1] = f[k] + bs[k + 1] * ByteBase^k
    BY <1>0, <1>2, <1>3, <2>1, SumsStep
  <2>3. bs[k + 1] \in Nat /\ bs[k + 1] <= ByteBase - 1
    BY <1>0, <2>1 DEF Octets
  <2>4. ByteBase^k \in Nat \ {0} /\ ByteBase^(k + 1) = ByteBase * ByteBase^k
    BY <2>1, PowerAssumption
  <2>5. PICK p \in Nat : p = ByteBase^k
    BY <2>4
  <2>6. PICK b \in Nat : b = bs[k + 1]
    BY <2>3
  <2>7. f[k] \in Nat /\ f[k] < p
    BY <2>1, <2>5
  <2>8. b < ByteBase
    BY <1>0, <2>3, <2>6
  <2>9. f[k] + b * p \in Nat /\ f[k] + b * p < ByteBase * p
    BY <1>0, <2>7, <2>8, NextPower
  <2> QED
    BY <2>2, <2>4, <2>5, <2>6, <2>9
<1> HIDE DEF S
<1>6. S \in SUBSET Nat
  BY DEF S
<1>7. S = Nat
  BY <1>4, <1>5, <1>6, InductionOnSet
<1> QED
  BY <1>0, <1>1, <1>3, <1>7 DEF S

\* The length of a concatenation is the sum of the lengths.
LEMMA FlattenTotal ==
  ASSUME NEW S, NEW s \in Seq(Seq(S)), NEW ns,
         Len(ns) = Len(s), \A i \in 1..Len(s) : ns[i] = Len(s[i])
  PROVE  FlattenSeq(s) \in Seq(S) /\ Len(FlattenSeq(s)) = Total(ns)
<1>1. PICK n \in Nat : n = Len(s)
  BY LenProperties
<1>2. PICK f : Sums(f, ns, n) /\ Total(ns) = f[n]
  BY <1>1, TotalIs
<1>3. FlattenSeq(s) \in Seq(S)
  BY FlattenTyped
<1>4. CASE n = 0
  <2>1. Total(ns) = 0
    BY <1>2, <1>4, SumsStep
  <2>2. FlattenSeq(s) = <<>>
    BY <1>1, <1>4, EmptySeq, FlattenEmpty
  <2> QED
    BY <1>3, <2>1, <2>2, EmptySeq
<1>5. CASE n # 0
  <2>1. PICK g : Flattens(g, s, n) /\ FlattenSeq(s) = g[n]
    BY <1>1, <1>5, FlattenIs
  <2> DEFINE K == {k \in Nat : k \in 1..n => g[k] \in Seq(S) /\ Len(g[k]) = f[k]}
  <2>2. 0 \in K
    OBVIOUS
  <2>3. ASSUME NEW k \in K
        PROVE  k + 1 \in K
    <3> SUFFICES ASSUME k + 1 \in 1..n
                 PROVE  g[k + 1] \in Seq(S) /\ Len(g[k + 1]) = f[k + 1]
      OBVIOUS
    <3>1. s[k + 1] \in Seq(S) /\ ns[k + 1] = Len(s[k + 1])
      BY <1>1, ElementOfSeq
    <3>2. f[k + 1] = f[k] + ns[k + 1] /\ f[0] = 0
      BY <1>2, SumsStep
    <3>3. CASE k = 0
      <4>1. g[k + 1] = s[k + 1]
        BY <2>1, <3>3 DEF Flattens
      <4> QED
        BY <3>1, <3>2, <3>3, <4>1, LenProperties
    <3>4. CASE k # 0
      <4>1. k + 1 # 1 /\ (k + 1) - 1 = k /\ k \in 1..n
        BY <3>4
      <4>2. g[k + 1] = g[k] \o s[k + 1]
        BY <2>1, <4>1 DEF Flattens
      <4>3. g[k] \in Seq(S) /\ Len(g[k]) = f[k]
        BY <4>1
      <4>4. g[k] \o s[k + 1] \in Seq(S) /\ Len(g[k] \o s[k + 1]) = Len(g[k]) + Len(s[k + 1])
        BY <3>1, <4>3, ConcatProperties
      <4> QED
        BY <3>1, <3>2, <4>2, <4>3, <4>4
    <3> QED
      BY <3>3, <3>4
  <2> HIDE DEF K
  <2>4. K \in SUBSET Nat
    BY DEF K
  <2>5. K = Nat
    BY <2>2, <2>3, <2>4, InductionOnSet
  <2> QED
    BY <1>2, <1>3, <1>5, <2>1, <2>5 DEF K
<1> QED
  BY <1>4, <1>5

------------------------------------------------------------------------------
(* Chunks.                                                                   *)

\* DivCeil(n, ChunkLen) chunks are enough for n bytes, and none is empty.
LEMMA ChunkCount ==
  ASSUME NEW n \in Nat
  PROVE  /\ DivCeil(n, ChunkLen) \in Nat /\ n <= ChunkLen * DivCeil(n, ChunkLen)
         /\ \A i \in 1..DivCeil(n, ChunkLen) : ChunkLen * (i - 1) < n /\ ChunkLen * (i - 1) \in Nat
<1>1. PICK d \in Nat : d = ChunkLen /\ d > 0
  BY Constants
<1>2. PICK q : q = DivCeil(n, ChunkLen)
  OBVIOUS
<1>3. q = (n + d - 1) \div d /\ n + d - 1 \in Nat
  BY <1>1, <1>2 DEF DivCeil
<1>4. q \in Nat
  BY <1>1, <1>3, DivNat
<1>5. d * q <= n + d - 1
  BY <1>1, <1>3
<1>6. n + d - 1 < d * (q + 1)
  <2>1. (n + d - 1) % d = (n + d - 1) - d * q
    BY <1>1, <1>3, ModIs
  <2>2. (n + d - 1) % d \in 0..d - 1
    BY <1>1, <1>3, ModRange
  <2>3. d * (q + 1) = d * q + d
    BY <1>1, <1>4
  <2>4. d * q \in Nat
    BY <1>1, <1>4
  <2> QED
    BY <1>1, <1>3, <2>1, <2>2, <2>3, <2>4
<1>7. n <= d * q
  <2>1. d * (q + 1) = d * q + d /\ d * q \in Nat
    BY <1>1, <1>4
  <2> QED
    BY <1>1, <1>6, <2>1
<1>8. ASSUME NEW i \in 1..q
      PROVE  d * (i - 1) < n /\ d * (i - 1) \in Nat
  <2>1. i - 1 \in Nat /\ (i - 1) + 1 <= q
    BY <1>4
  <2>2. d * ((i - 1) + 1) <= d * q
    BY <1>1, <1>4, <2>1
  <2>3. d * ((i - 1) + 1) = d * (i - 1) + d /\ d * (i - 1) \in Nat
    BY <1>1, <2>1
  <2>4. d * q \in Nat
    BY <1>1, <1>4
  <2> QED
    BY <1>1, <1>5, <2>2, <2>3, <2>4
<1> QED
  BY <1>1, <1>2, <1>4, <1>7, <1>8

LEMMA ChunkSizes ==
  ASSUME NEW n \in Nat, NEW i \in 1..DivCeil(n, ChunkLen)
  PROVE  /\ ChunkBytes(n, i) \in 1..ChunkLen /\ ChunkBytes(n, i) \in 0..MAX_BYTES_LEN
         /\ ChunkLen * (i - 1) + ChunkBytes(n, i) = IF ChunkLen * i <= n THEN ChunkLen * i ELSE n
<1>1. PICK d \in Nat : d = ChunkLen /\ d > 0 /\ d < MAX_BYTES_LEN /\ MAX_BYTES_LEN \in Nat
  BY Constants
<1>2. PICK e \in Nat : e = d * (i - 1) /\ e < n
  BY <1>1, ChunkCount
<1>3. d * i = e + d
  <2>1. i \in Nat
    BY ChunkCount
  <2> QED
    BY <1>1, <1>2, <2>1
<1>4. ChunkBytes(n, i) = IF e + d <= n THEN d ELSE n - e
  BY <1>1, <1>2, <1>3 DEF ChunkBytes
<1> QED
  BY <1>1, <1>2, <1>3, <1>4

LEMMA ChunkTotal ==
  ASSUME NEW n \in Nat \ {0}, NEW ns, DOMAIN ns = 1..DivCeil(n, ChunkLen),
         \A i \in 1..DivCeil(n, ChunkLen) : ns[i] = ChunkBytes(n, i)
  PROVE  Total(ns) = n
<1>1. PICK q \in Nat : q = DivCeil(n, ChunkLen)
  BY ChunkCount
<1>2. n <= ChunkLen * q /\ Len(ns) = q
  BY <1>1, ChunkCount
<1>3. PICK f : Sums(f, ns, q) /\ Total(ns) = f[q]
  BY <1>2, TotalIs
<1> DEFINE K == {k \in Nat : k \in 0..q => f[k] = IF ChunkLen * k <= n THEN ChunkLen * k ELSE n}
<1>4. 0 \in K
  BY <1>3, SumsStep, Constants
<1>5. ASSUME NEW k \in K
      PROVE  k + 1 \in K
  <2> SUFFICES ASSUME k + 1 \in 0..q
               PROVE  f[k + 1] = IF ChunkLen * (k + 1) <= n THEN ChunkLen * (k + 1) ELSE n
    OBVIOUS
  <2>1. k + 1 \in 1..q /\ k \in 0..q /\ (k + 1) - 1 = k
    OBVIOUS
  <2>2. f[k + 1] = f[k] + ChunkBytes(n, k + 1)
    BY <1>1, <1>3, <2>1, SumsStep
  <2>3. ChunkLen * k < n
    BY <1>1, <2>1, ChunkCount
  <2>4. f[k] = ChunkLen * k
    BY <2>1, <2>3, Constants
  <2>5. ChunkLen * k + ChunkBytes(n, k + 1)
          = IF ChunkLen * (k + 1) <= n THEN ChunkLen * (k + 1) ELSE n
    BY <1>1, <2>1, ChunkSizes
  <2> QED
    BY <2>2, <2>4, <2>5
<1> HIDE DEF K
<1>6. K \in SUBSET Nat
  BY DEF K
<1>7. K = Nat
  BY <1>4, <1>5, <1>6, InductionOnSet
<1>8. f[q] = IF ChunkLen * q <= n THEN ChunkLen * q ELSE n
  BY <1>7 DEF K
<1>9. PICK c \in Nat : c = ChunkLen * q
  BY Constants
<1> QED
  BY <1>2, <1>3, <1>8, <1>9

\* The bytes of the limbs of a string of n bytes are n bytes.
LEMMA LimbBytes ==
  ASSUME NEW n \in 1..MAX_BYTES_LEN, NEW xs, DOMAIN xs = 1..DivCeil(n, ChunkLen),
         \A i \in DOMAIN xs : xs[i] \in Nat
  PROVE  FlattenSeq([i \in DOMAIN xs |-> LeBytes(xs[i], ChunkBytes(n, i))]) \in [1..n -> Octets]
<1>1. PICK q \in Nat : q = DivCeil(n, ChunkLen)
  BY ChunkCount, Constants
<1>2. n \in Nat \ {0}
  BY Constants
<1> DEFINE s == [i \in DOMAIN xs |-> LeBytes(xs[i], ChunkBytes(n, i))]
           ns == [i \in 1..q |-> ChunkBytes(n, i)]
<1>3. \A i \in 1..q : LeBytes(xs[i], ChunkBytes(n, i)) \in Seq(Octets)
                      /\ Len(LeBytes(xs[i], ChunkBytes(n, i))) = ChunkBytes(n, i)
  BY <1>1, <1>2, ChunkSizes, LeBytesTyped
<1>4. s \in Seq(Seq(Octets)) /\ Len(s) = q
  BY <1>1, <1>3, IsASeq
<1>5. Len(ns) = q /\ \A i \in 1..q : ns[i] = Len(s[i])
  BY <1>1, <1>3
<1>6. DOMAIN ns = 1..DivCeil(n, ChunkLen) /\ \A i \in 1..DivCeil(n, ChunkLen) : ns[i] = ChunkBytes(n, i)
  BY <1>1
<1> HIDE DEF s, ns
<1>7. FlattenSeq(s) \in Seq(Octets) /\ Len(FlattenSeq(s)) = Total(ns)
  BY <1>4, <1>5, FlattenTotal
<1>8. Total(ns) = n
  BY <1>2, <1>6, ChunkTotal
<1>9. FlattenSeq(s) \in [1..n -> Octets]
  BY <1>2, <1>7, <1>8, LenProperties, ElementOfSeq
<1> QED
  BY <1>9 DEF s

------------------------------------------------------------------------------
(* Packing.                                                                  *)

LEMMA EncodedLen ==
  /\ \A t \in {Native, Bool, Byte, Scalar("Jubjub")} : encoded_len(t) = 1
  /\ \A n : encoded_len(Bytes(n)) = DivCeil(n, ChunkLen)
  /\ encoded_len(Point("Jubjub")) = 2
  /\ \A c \in Weierstrass : encoded_len(Point(c)) = 5
  /\ \A c \in Foreign \ Weierstrass : encoded_len(Point(c)) = 4
  /\ \A c \in Foreign : encoded_len(Scalar(c)) = 2 /\ encoded_len(<<"Base", c>>) = 2
<1>0. "Jubjub" \notin Weierstrass
  BY CurveAssumption
<1>1. \A t \in {Native, Bool, Byte, Scalar("Jubjub")} : encoded_len(t) = 1
  BY Tags DEF encoded_len
<1>2. \A n : encoded_len(Bytes(n)) = DivCeil(n, ChunkLen)
  BY Tags DEF encoded_len
<1>3. encoded_len(Point("Jubjub")) = 2
  BY Tags DEF encoded_len
<1>4. \A c \in Foreign : encoded_len(Point(c)) = IF c \in Weierstrass THEN 5 ELSE 4
  BY Tags DEF encoded_len, Foreign
<1>5. \A c \in Foreign : encoded_len(Scalar(c)) = 2 /\ encoded_len(<<"Base", c>>) = 2
  BY Tags DEF encoded_len, Foreign
<1>6. Weierstrass \subseteq Foreign
  BY <1>0, CurveAssumption DEF Foreign
<1> QED
  BY <1>1, <1>2, <1>3, <1>4, <1>5, <1>6

\* The encoding of every type has a length.
LEMMA EncodedLenNat ==
  ASSUME NEW t \in IrType
  PROVE  encoded_len(t) \in Nat
<1>1. CASE t[1] = "Bytes"
  <2>1. PICK n \in 1..MAX_BYTES_LEN : t = <<"Bytes", n>>
    BY <1>1 DEF IrType, PrimeFields, Points, BytesTypes, Native, Bool, Byte, Bytes, Point, Scalar, Base
  <2>2. ChunkLen \in Nat \ {0} /\ MAX_BYTES_LEN \in Nat
    BY FieldAssumption
  <2>3. (t[2] + ChunkLen - 1) \div ChunkLen \in Nat
    BY <2>1, <2>2
  <2> QED
    BY <1>1, <2>3 DEF encoded_len, DivCeil
<1>2. CASE t[1] # "Bytes"
  BY <1>2 DEF encoded_len
<1> QED
  BY <1>1, <1>2

LEMMA EncodeIs ==
  ASSUME NEW v
  PROVE  /\ v.ty \in {Native, Bool, Byte, Scalar("Jubjub")} => Encode(v) = <<v.val>>
         /\ \A n : v.ty = Bytes(n) =>
              Encode(v) = [i \in DOMAIN Chunks(v.val) |-> LeInt(Chunks(v.val)[i])]
         /\ \A c : v.ty = Point(c) => Encode(v) = EncodePoint(c, v.val)
         /\ \A c \in Foreign : v.ty \in {Scalar(c), <<"Base", c>>} => Encode(v) = Limbs(v.val)
<1>1. v.ty \in {Native, Bool, Byte, Scalar("Jubjub")} => Encode(v) = <<v.val>>
  BY Tags DEF Encode
<1>2. \A n : v.ty = Bytes(n) => Encode(v) = [i \in DOMAIN Chunks(v.val) |-> LeInt(Chunks(v.val)[i])]
  BY Tags DEF Encode
<1>3. \A c : v.ty = Point(c) => Encode(v) = EncodePoint(c, v.val)
  BY Tags DEF Encode
<1>4. \A c \in Foreign : v.ty \in {Scalar(c), <<"Base", c>>} => Encode(v) = Limbs(v.val)
  BY Tags DEF Encode, Foreign
<1> QED
  BY <1>1, <1>2, <1>3, <1>4

LEMMA LimbsTyped ==
  ASSUME NEW x \in Nat, x < LimbBase * P
  PROVE  (Limbs(x))[1] \in Immediates /\ (Limbs(x))[2] \in Immediates
         /\ Limbs(x) = <<(Limbs(x))[1], (Limbs(x))[2]>>
<1>1. LimbBase \in Nat /\ LimbBase > 0 /\ P \in Nat /\ LimbBase <= P
  BY Constants, CurveAssumption
<1>2. x % LimbBase \in 0..LimbBase - 1 /\ x \div LimbBase \in Nat /\ x \div LimbBase < P
  BY <1>1, ModRange, DivNat, DivBelow
<1> QED
  BY <1>1, <1>2 DEF Limbs, Immediates

LEMMA CoordTyped ==
  ASSUME NEW c \in Curves, NEW k \in DOMAIN Coord[c]
  PROVE  /\ Coord[c][k][1] \in 0..BaseMod[c] - 1 /\ Coord[c][k][2] \in 0..BaseMod[c] - 1
         /\ Coord[c][k] = <<Coord[c][k][1], Coord[c][k][2]>>
         /\ k \in 0..ScalarMod[c] - 1
<1>1. Coord[c][k] \in (0..BaseMod[c] - 1) \X (0..BaseMod[c] - 1)
  BY CurveAssumption
<1>2. DOMAIN Coord[c] = (IF c \in Weierstrass THEN 1 ELSE 0)..ScalarMod[c] - 1
  BY CurveAssumption
<1>3. k \in 0..ScalarMod[c] - 1
  BY <1>2, Constants
<1>4. ASSUME NEW S, NEW x \in S \X S
      PROVE  x[1] \in S /\ x[2] \in S /\ x = <<x[1], x[2]>>
  OBVIOUS
<1> QED
  BY <1>1, <1>3, <1>4

LEMMA CoordDomain ==
  ASSUME NEW c \in Curves, NEW k \in 0..ScalarMod[c] - 1, ~(c \in Weierstrass /\ k = 0)
  PROVE  k \in DOMAIN Coord[c]
<1>1. DOMAIN Coord[c] = (IF c \in Weierstrass THEN 1 ELSE 0)..ScalarMod[c] - 1
  BY CurveAssumption
<1> QED
  BY <1>1, Constants

FourLimbs(a, b, d, e) == <<a, b>> \o <<d, e>>
FiveLimbs(a, b, d, e, z) == <<a, b>> \o <<d, e>> \o <<z>>
LEMMA JoinPairs ==
  ASSUME NEW S, NEW a \in S, NEW b \in S, NEW d \in S, NEW e \in S, NEW z \in S
  PROVE  /\ FourLimbs(a, b, d, e) \in Seq(S) /\ Len(FourLimbs(a, b, d, e)) = 4
         /\ FiveLimbs(a, b, d, e, z) \in Seq(S) /\ Len(FiveLimbs(a, b, d, e, z)) = 5
<1>1. ASSUME NEW p \in Seq(S), NEW q \in Seq(S), NEW r \in Seq(S), Len(p) = 2, Len(q) = 2, Len(r) = 1
      PROVE  p \o q \in Seq(S) /\ Len(p \o q) = 4 /\ p \o q \o r \in Seq(S) /\ Len(p \o q \o r) = 5
  <2>1. p \o q \in Seq(S) /\ Len(p \o q) = 4
    <3>1. p \o q \in Seq(S) /\ Len(p \o q) = Len(p) + Len(q)
      BY ConcatProperties
    <3> QED
      BY <1>1, <3>1
  <2>2. PICK s \in Seq(S) : s = p \o q /\ Len(s) = 4
    BY <2>1
  <2>3. s \o r \in Seq(S) /\ Len(s \o r) = Len(s) + Len(r)
    BY ConcatProperties
  <2>4. Len(s \o r) = 5
    BY <1>1, <2>2, <2>3
  <2> QED
    BY <2>1, <2>2, <2>3, <2>4
<1>2. <<a, b>> \in Seq(S) /\ <<d, e>> \in Seq(S) /\ <<z>> \in Seq(S)
  OBVIOUS
<1>3. Len(<<a, b>>) = 2 /\ Len(<<d, e>>) = 2 /\ Len(<<z>>) = 1
  OBVIOUS
<1> QED
  BY <1>1, <1>2, <1>3, Zenon DEF FourLimbs, FiveLimbs

LEMMA EncodePointTyped ==
  ASSUME NEW c \in Curves, NEW k \in 0..ScalarMod[c] - 1
  PROVE  EncodePoint(c, k) \in Seq(Immediates) /\ Len(EncodePoint(c, k)) = encoded_len(Point(c))
<1>0. /\ "Jubjub" \notin Weierstrass /\ BaseMod["Jubjub"] = P /\ 0 \in Immediates /\ 1 \in Immediates
      /\ LimbBase * P \in Nat /\ BaseMod[c] <= LimbBase * P
  BY Constants, CurveAssumption DEF Immediates
<1>1. CASE c = "Jubjub"
  <2>1. k \in DOMAIN Coord[c]
    BY <1>0, <1>1, CoordDomain
  <2>2. EncodePoint(c, k) = <<Coord[c][k][1], Coord[c][k][2]>>
    BY <1>1, <2>1, CoordTyped DEF EncodePoint
  <2>3. PICK a \in Immediates, b \in Immediates : EncodePoint(c, k) = <<a, b>>
    BY <1>0, <1>1, <2>1, <2>2, CoordTyped DEF Immediates
  <2>4. <<a, b>> \in Seq(Immediates) /\ Len(<<a, b>>) = 2
    OBVIOUS
  <2>5. encoded_len(Point(c)) = 2
    BY <1>1, EncodedLen
  <2> QED
    BY <2>3, <2>4, <2>5
<1>2. CASE c \in Weierstrass /\ k = 0
  <2>1. EncodePoint(c, k) = <<0, 0, 0, 0, 1>>
    BY <1>0, <1>2 DEF EncodePoint
  <2>2. <<0, 0, 0, 0, 1>> \in Seq(Immediates) /\ Len(<<0, 0, 0, 0, 1>>) = 5
    BY <1>0
  <2>3. encoded_len(Point(c)) = 5
    BY <1>2, EncodedLen
  <2> QED
    BY <2>1, <2>2, <2>3
<1>3. CASE c # "Jubjub" /\ ~(c \in Weierstrass /\ k = 0)
  <2>1. k \in DOMAIN Coord[c]
    BY <1>3, CoordDomain
  <2>2. PICK x \in Nat, y \in Nat : /\ x = Coord[c][k][1] /\ y = Coord[c][k][2]
                                    /\ x < LimbBase * P /\ y < LimbBase * P
    BY <1>0, <2>1, CoordTyped, Constants
  <2>3. PICK a \in Immediates, b \in Immediates : Limbs(x) = <<a, b>>
    BY <2>2, LimbsTyped
  <2>4. PICK d \in Immediates, e \in Immediates : Limbs(y) = <<d, e>>
    BY <2>2, LimbsTyped
  <2>5. FourLimbs(a, b, d, e) \in Seq(Immediates) /\ Len(FourLimbs(a, b, d, e)) = 4
    BY <1>0, JoinPairs
  <2>6. FiveLimbs(a, b, d, e, 0) \in Seq(Immediates) /\ Len(FiveLimbs(a, b, d, e, 0)) = 5
    BY <1>0, JoinPairs
  <2>7. EncodePoint(c, k) = IF c \in Weierstrass THEN FiveLimbs(a, b, d, e, 0)
                                                 ELSE FourLimbs(a, b, d, e)
    BY <1>3, <2>2, <2>3, <2>4 DEF EncodePoint, FourLimbs, FiveLimbs
  <2>8. encoded_len(Point(c)) = IF c \in Weierstrass THEN 5 ELSE 4
    BY <1>3, EncodedLen DEF Foreign
  <2> QED
    BY <2>5, <2>6, <2>7, <2>8
<1> QED
  BY <1>1, <1>2, <1>3

LEMMA ChunkTyped ==
  ASSUME NEW n \in 1..MAX_BYTES_LEN, NEW bs \in [1..n -> Octets], NEW i \in 1..DivCeil(n, ChunkLen)
  PROVE  \E m \in 0..ChunkLen : ChunkAt(bs, i) \in [1..m -> Octets]
<1>1. PICK d \in Nat : d = ChunkLen /\ d > 0
  BY Constants
<1>2. n \in Nat /\ Len(bs) = n /\ DivCeil(n, ChunkLen) \in Nat
  BY Constants, ChunkCount
<1>3. PICK e \in Nat : e = d * (i - 1) /\ e < n
  BY <1>1, <1>2, ChunkCount
<1>4. d * i = e + d
  BY <1>1, <1>2, <1>3
<1>5. PICK u \in Nat : u = (IF e + d < n THEN e + d ELSE n) /\ e < u /\ u <= n /\ u <= e + d
  BY <1>1, <1>2, <1>3
<1>6. ChunkAt(bs, i) = SubSeq(bs, e + 1, u)
  BY <1>1, <1>2, <1>3, <1>4, <1>5 DEF ChunkAt
<1>7. SubSeq(bs, e + 1, u) = [k \in 1..(u - e) |-> bs[k + e]]
  BY <1>2, <1>3, <1>5
<1>8. u - e \in 0..d
  BY <1>1, <1>3, <1>5
<1>9. \A k \in 1..(u - e) : bs[k + e] \in Octets
  BY <1>2, <1>3, <1>5
<1>10. ChunkAt(bs, i) \in [1..(u - e) -> Octets]
  BY <1>6, <1>7, <1>9
<1> QED
  BY <1>1, <1>8, <1>10

LEMMA EncodeBytesTyped ==
  ASSUME NEW n \in 1..MAX_BYTES_LEN, NEW v, v.ty = Bytes(n), v.val \in [1..n -> Octets]
  PROVE  Encode(v) \in Seq(Immediates) /\ Len(Encode(v)) = encoded_len(Bytes(n))
<1>1. Encode(v) = [i \in DOMAIN Chunks(v.val) |-> LeInt(Chunks(v.val)[i])]
  BY EncodeIs
<1>2. PICK q \in Nat : q = DivCeil(n, ChunkLen)
  BY ChunkCount, Constants
<1>3. Len(v.val) = n
  BY Constants
<1>4. Chunks(v.val) = [i \in 1..q |-> ChunkAt(v.val, i)]
  BY <1>2, <1>3 DEF Chunks
<1>5. Encode(v) = [i \in 1..q |-> LeInt(ChunkAt(v.val, i))]
  BY <1>1, <1>4
<1>6. ASSUME NEW i \in 1..q
      PROVE  LeInt(ChunkAt(v.val, i)) \in Immediates
  <2>1. PICK m \in 0..ChunkLen : ChunkAt(v.val, i) \in [1..m -> Octets]
    BY <1>2, ChunkTyped
  <2>2. m \in 0..MAX_BYTES_LEN /\ m \in Nat
    BY Constants
  <2>3. LeInt(ChunkAt(v.val, i)) \in Nat /\ LeInt(ChunkAt(v.val, i)) < ByteBase^m
    BY <2>1, <2>2, LeIntRange
  <2>4. ByteBase^m <= ByteBase^ChunkLen
    BY PowersGrow
  <2> QED
    BY <2>3, <2>4, Constants, FieldAssumption DEF Immediates
<1> QED
  BY <1>2, <1>5, <1>6, IsASeq, EncodedLen

LEMMA EncodeTyped ==
  ASSUME NEW v, Typed(v)
  PROVE  Encode(v) \in Seq(Immediates) /\ Len(Encode(v)) = encoded_len(v.ty)
<1>1. CASE v.ty \in {Native, Bool, Byte, Scalar("Jubjub")}
  <2>1. v.val \in 0..Order(v.ty) - 1 /\ Order(v.ty) \in Nat \ {0} /\ Order(v.ty) <= P
    BY <1>1, ValueRange, Members, Orders, Constants, CurveAssumption
  <2>2. v.val \in Immediates
    BY <2>1, Constants DEF Immediates
  <2>3. Encode(v) = <<v.val>> /\ encoded_len(v.ty) = 1
    BY <1>1, EncodeIs, EncodedLen
  <2>4. <<v.val>> \in Seq(Immediates) /\ Len(<<v.val>>) = 1
    BY <2>2
  <2> QED
    BY <2>3, <2>4
<1>2. CASE v.ty \in BytesTypes
  BY <1>2, BytesRange, EncodeBytesTyped
<1>3. ASSUME NEW c \in Curves, v.ty = Point(c)
      PROVE  Encode(v) \in Seq(Immediates) /\ Len(Encode(v)) = encoded_len(v.ty)
  <2>1. v.val \in 0..ScalarMod[c] - 1
    BY <1>3, ValueRange, Members, Orders
  <2> QED
    BY <1>3, <2>1, EncodeIs, EncodePointTyped
<1>4. ASSUME NEW c \in Foreign, v.ty \in {Scalar(c), <<"Base", c>>}
      PROVE  Encode(v) \in Seq(Immediates) /\ Len(Encode(v)) = encoded_len(v.ty)
  <2>1. v.ty \notin BytesTypes /\ Order(v.ty) \in {ScalarMod[c], BaseMod[c]} /\ c \in Curves
    BY <1>4, Members, Orders DEF Foreign, Base
  <2>2. v.val \in Nat /\ v.val < LimbBase * P
    <3>1. v.val \in 0..Order(v.ty) - 1 /\ v.val \in Nat
      BY <2>1, ValueRange
    <3>2. BaseMod[c] <= LimbBase * P /\ ScalarMod[c] <= LimbBase * P /\ LimbBase * P \in Nat
      BY <2>1, CurveAssumption, Constants
    <3> QED
      BY <2>1, <3>1, <3>2, Constants
  <2>3. PICK a \in Immediates, b \in Immediates : Limbs(v.val) = <<a, b>>
    BY <2>2, LimbsTyped
  <2>4. Encode(v) = <<a, b>>
    BY <1>4, <2>3, EncodeIs
  <2>5. <<a, b>> \in Seq(Immediates) /\ Len(<<a, b>>) = 2
    OBVIOUS
  <2>6. encoded_len(v.ty) = 2
    BY <1>4, EncodedLen
  <2> QED
    BY <2>4, <2>5, <2>6
<1> QED
  BY <1>1, <1>2, <1>3, <1>4, TypeKinds, Members DEF Foreign, Typed

LEMMA SeqWider ==
  ASSUME NEW S, NEW T, S \subseteq T, NEW s \in Seq(S)
  PROVE  s \in Seq(T)
<1>1. \A i \in 1..Len(s) : s[i] \in T
  BY ElementOfSeq
<1>2. s = [i \in 1..Len(s) |-> s[i]] /\ Len(s) \in Nat
  BY LenProperties
<1> QED
  BY <1>1, <1>2, IsASeq

LEMMA SomeIs ==
  ASSUME NEW cond \in BOOLEAN, NEW x, NEW v \in Some(cond, x)
  PROVE  cond /\ v = x
BY DEF Some

LEMMA DecodeBytesTyped ==
  ASSUME NEW n \in 1..MAX_BYTES_LEN, NEW xs \in Seq(Nat), NEW v \in decode_bytes(xs, n)
  PROVE  Typed(v) /\ v.ty = Bytes(n) /\ v.val \in [1..n -> Octets]
         /\ Len(xs) = DivCeil(n, ChunkLen)
         /\ v = BytesV(FlattenSeq([i \in DOMAIN xs |-> LeBytes(xs[i], ChunkBytes(n, i))]))
<1> DEFINE bs == FlattenSeq([i \in DOMAIN xs |-> LeBytes(xs[i], ChunkBytes(n, i))])
<1>1. Len(xs) = DivCeil(n, ChunkLen) /\ v = V(Bytes(n), bs)
  BY DEF decode_bytes, Some
<1>2. DOMAIN xs = 1..DivCeil(n, ChunkLen) /\ \A i \in DOMAIN xs : xs[i] \in Nat
  BY <1>1, LenProperties, ElementOfSeq
<1>3. bs \in [1..n -> Octets]
  BY <1>2, LimbBytes
<1> HIDE DEF bs
<1>4. n \in Nat
  BY Constants
<1>5. Len(bs) = n
  BY <1>3, <1>4
<1>6. v = BytesV(bs)
  BY <1>1, <1>5 DEF BytesV
<1> QED
  BY <1>1, <1>3, <1>6, TypedBytes DEF bs

LEMMA RawPointTyped ==
  ASSUME NEW c \in Curves, NEW enc, NEW k \in PointFromRaw(c, enc)
  PROVE  k \in 0..ScalarMod[c] - 1
<1>1. \A x, y : \A j \in {i \in DOMAIN Coord[c] : Coord[c][i] = <<x, y>>} : j \in 0..ScalarMod[c] - 1
  BY CoordTyped
<1>2. 0 \in 0..ScalarMod[c] - 1
  BY Constants
<1> QED
  BY <1>1, <1>2 DEF PointFromRaw

\* What the native elements of a value say of it.
LEMMA FromPublicInputIs ==
  ASSUME NEW enc, NEW t, NEW v \in FromPublicInput(enc, t)
  PROVE  /\ Len(enc) = encoded_len(t)
         /\ t = Native => v = Fr(enc[1])
         /\ t \in {Bool, Byte, Scalar("Jubjub")} => v = V(t, enc[1] % Order(t))
         /\ \A n : t = Bytes(n) => v \in decode_bytes(enc, n)
         /\ \A c : t = Point(c) => \E k \in PointFromRaw(c, enc) : v = V(t, k)
         /\ \A c \in Foreign : t \in {Scalar(c), <<"Base", c>>} =>
              v = V(t, FromLimbs(enc[1], enc[2]) % Order(t))
<1>1. Len(enc) = encoded_len(t)
  <2>1. Len(enc) # encoded_len(t) => FromPublicInput(enc, t) = {}
    BY DEF FromPublicInput
  <2> QED
    BY <2>1
<1>2. t = Native => v = Fr(enc[1])
  BY <1>1, Tags DEF FromPublicInput
<1>3. t \in {Bool, Byte, Scalar("Jubjub")} => v = V(t, enc[1] % Order(t))
  BY <1>1, Tags DEF FromPublicInput
<1>4. \A n : t = Bytes(n) => v \in decode_bytes(enc, n)
  BY <1>1, Tags DEF FromPublicInput
<1>5. \A c : t = Point(c) => \E k \in PointFromRaw(c, enc) : v = V(t, k)
  BY <1>1, Tags DEF FromPublicInput
<1>6. \A c \in Foreign : t \in {Scalar(c), <<"Base", c>>} =>
        v = V(t, FromLimbs(enc[1], enc[2]) % Order(t))
  BY <1>1, Tags DEF FromPublicInput, Foreign
<1> QED
  BY <1>1, <1>2, <1>3, <1>4, <1>5, <1>6

\* decode_offcircuit returns values of the type it was asked for.
LEMMA DecodeTyped ==
  ASSUME NEW t \in IrType, NEW enc \in Seq(Immediates), NEW v \in Decode(enc, t)
  PROVE  Typed(v) /\ v.ty = t /\ Len(enc) = encoded_len(t) /\ Encode(v) = enc
<1>1. v \in FromPublicInput(enc, t) /\ Encode(v) = enc
  BY DEF Decode
<1>2. Len(enc) = encoded_len(t) /\ enc \in Seq(Nat)
  <2>1. Len(enc) = encoded_len(t)
    BY <1>1, FromPublicInputIs
  <2>2. Immediates \subseteq Nat
    BY Constants DEF Immediates
  <2> QED
    BY <2>1, <2>2, SeqWider
<1>3. ASSUME NEW x \in Int, t \notin BytesTypes, v = V(t, x % Order(t))
      PROVE  Typed(v) /\ v.ty = t
  <2>1. Order(t) \in Nat /\ Order(t) > 0
    BY <1>3, OrderIsNat
  <2>2. x % Order(t) \in 0..Order(t) - 1
    BY <2>1, ModRange
  <2> QED
    BY <1>3, <2>2, TypedV
<1>4. CASE t \in {Native, Bool, Byte, Scalar("Jubjub")}
  <2>1. Len(enc) = 1
    BY <1>2, <1>4, EncodedLen
  <2>2. enc[1] \in Immediates /\ enc[1] \in Int
    <3>1. enc[1] \in Immediates
      BY <2>1, ElementOfSeq
    <3> QED
      BY <3>1, Constants DEF Immediates
  <2>3. CASE t = Native
    BY <1>1, <2>2, <2>3, FromPublicInputIs, TypedFr DEF Immediates
  <2>4. CASE t # Native
    BY <1>1, <1>3, <1>4, <2>2, <2>4, FromPublicInputIs, Members, Constants
  <2> QED
    BY <2>3, <2>4
<1>5. ASSUME NEW n \in 1..MAX_BYTES_LEN, t = Bytes(n)
      PROVE  Typed(v) /\ v.ty = t
  BY <1>1, <1>2, <1>5, FromPublicInputIs, DecodeBytesTyped
<1>6. ASSUME NEW c \in Curves, t = Point(c)
      PROVE  Typed(v) /\ v.ty = t
  <2>1. PICK k \in PointFromRaw(c, enc) : v = V(t, k)
    BY <1>1, <1>6, FromPublicInputIs
  <2>2. k \in 0..Order(t) - 1 /\ t \notin BytesTypes
    BY <1>6, RawPointTyped, Orders, Members
  <2> QED
    BY <2>1, <2>2, TypedV
<1>7. ASSUME NEW c \in Foreign, t \in {Scalar(c), <<"Base", c>>}
      PROVE  Typed(v) /\ v.ty = t
  <2>1. Len(enc) = 2
    BY <1>2, <1>7, EncodedLen
  <2>2. enc[1] \in Nat /\ enc[2] \in Nat
    <3>1. \A i \in 1..Len(enc) : enc[i] \in Nat
      BY <1>2, ElementOfSeq
    <3> QED
      BY <2>1, <3>1
  <2>3. FromLimbs(enc[1], enc[2]) \in Int
    BY <2>2, Constants DEF FromLimbs
  <2>4. t \notin BytesTypes
    BY <1>7, Members DEF Foreign, Base
  <2>5. v = V(t, FromLimbs(enc[1], enc[2]) % Order(t))
    BY <1>1, <1>7, FromPublicInputIs
  <2> QED
    BY <1>3, <2>3, <2>4, <2>5
<1> QED
  BY <1>1, <1>2, <1>4, <1>5, <1>6, <1>7, TypeKinds, Members DEF Foreign

------------------------------------------------------------------------------
(* Byte representations.                                                     *)

LEMMA FrontTyped ==
  ASSUME NEW S, NEW n \in Nat \ {0}, NEW s \in [1..n -> S]
  PROVE  /\ Len(s) = n /\ s \in Seq(S)
         /\ Front(s) \in [1..(n - 1) -> S] /\ \A i \in 1..(n - 1) : Front(s)[i] = s[i]
         /\ Last(s) = s[n] /\ Last(s) \in S
<1>1. Len(s) = n /\ s \in Seq(S)
  OBVIOUS
<1>2. Front(s) = [i \in 1..(n - 1) |-> s[i]]
  BY <1>1 DEF Front
<1>3. \A i \in 1..(n - 1) : s[i] \in S
  OBVIOUS
<1> QED
  BY <1>1, <1>2, <1>3 DEF Last

LEMMA AppendTyped ==
  ASSUME NEW S, NEW n \in Nat \ {0}, NEW s \in [1..(n - 1) -> S], NEW x \in S
  PROVE  Append(s, x) \in [1..n -> S] /\ Last(Append(s, x)) = x
         /\ Front(Append(s, x)) = s
<1>1. Len(s) = n - 1 /\ s \in Seq(S)
  OBVIOUS
<1>2. Append(s, x) = [i \in 1..n |-> IF i \in 1..(n - 1) THEN s[i] ELSE x]
  BY <1>1, AppendIs
<1>3. Append(s, x) \in [1..n -> S]
  BY <1>2
<1>4. Append(s, x)[n] = x /\ \A i \in 1..(n - 1) : Append(s, x)[i] = s[i]
  BY <1>2
<1>5. PICK t \in [1..n -> S] : t = Append(s, x)
  BY <1>3
<1>6. Len(t) = n
  OBVIOUS
<1>7. Last(t) = t[n]
  BY <1>6 DEF Last
<1>8. Front(t) = [i \in 1..(n - 1) |-> t[i]]
  BY <1>6 DEF Front
<1>9. Front(t) = s
  BY <1>4, <1>5, <1>8
<1> QED
  BY <1>3, <1>4, <1>5, <1>7, <1>9

LEMMA ReverseTyped ==
  ASSUME NEW S, NEW n \in Nat, NEW s \in [1..n -> S]
  PROVE  Reverse(s) \in [1..n -> S] /\ \A i \in 1..n : Reverse(s)[i] = s[(n - i) + 1]
<1>1. Len(s) = n
  OBVIOUS
<1>2. Reverse(s) = [i \in 1..n |-> s[(n - i) + 1]]
  BY <1>1 DEF Reverse
<1>3. \A i \in 1..n : (n - i) + 1 \in 1..n
  OBVIOUS
<1>4. \A i \in 1..n : s[(n - i) + 1] \in S
  BY <1>3
<1> QED
  BY <1>2, <1>4

LEMMA SeqIsTuple ==
  ASSUME NEW S, NEW s \in Seq(S), NEW n, Len(s) = n
  PROVE  s \in [1..n -> S] /\ n \in Nat
BY LenProperties, ElementOfSeq

LEMMA ConcatTyped ==
  ASSUME NEW S, NEW h \in Seq(S), NEW t \in Seq(S), NEW m, NEW n, Len(h) = m, Len(t) = n
  PROVE  h \o t \in [1..(m + n) -> S]
<1>1. h \o t \in Seq(S) /\ Len(h \o t) = m + n
  BY ConcatProperties
<1> QED
  BY <1>1, SeqIsTuple

LEMMA PrependTyped ==
  ASSUME NEW S, NEW n \in Nat, NEW s \in [1..n -> S], NEW x \in S
  PROVE  <<x>> \o s \in [1..(n + 1) -> S]
<1>1. s \in Seq(S) /\ Len(s) = n
  OBVIOUS
<1>2. <<x>> \in Seq(S) /\ Len(<<x>>) = 1 /\ 1 + n = n + 1
  OBVIOUS
<1>3. ASSUME NEW h \in Seq(S), Len(h) = 1
      PROVE  h \o s \in [1..(1 + n) -> S]
  BY <1>1, <1>3, ConcatTyped
<1> QED
  BY <1>2, <1>3, Zenon

LEMMA FrBytesIs == FrBytes \in Nat \ {0} /\ FrBytes \in 0..MAX_BYTES_LEN /\ FrBytes \in 1..MAX_BYTES_LEN
                   /\ FrBytes + 1 \in 1..MAX_BYTES_LEN
BY Constants

LEMMA ModBelow ==
  ASSUME NEW x \in Nat, NEW m \in Nat, NEW q \in Nat, m > 0, x < q
  PROVE  x % m \in Nat /\ x % m < q
OBVIOUS

\* The top bit of the y coordinate is free for the sign.
LEMMA CompressEdwardsTyped ==
  ASSUME NEW c \in Curves \ Weierstrass, NEW k \in DOMAIN Coord[c]
  PROVE  CompressEdwards(Coord[c][k]) \in [1..FrBytes -> Octets]
<1>1. PICK x \in Nat, y \in Nat : x = Coord[c][k][1] /\ y = Coord[c][k][2] /\ y < BaseMod[c]
  BY CoordTyped, Constants
<1>2. PICK p \in Nat : p = ByteBase^(FrBytes - 1) /\ p > 0
  <2>1. FrBytes - 1 \in 0..MAX_BYTES_LEN
    BY Constants
  <2> QED
    BY <2>1, PowerAssumption
<1>3. TopBit \in Nat /\ 2 * TopBit = ByteBase /\ ByteBase \in Nat /\ ByteBase > 3
  BY PowerAssumption
<1>4. y < p * TopBit
  <2>1. BaseMod[c] <= TopBit * p
    BY <1>2, CurveAssumption
  <2>2. TopBit * p = p * TopBit /\ TopBit * p \in Nat
    BY <1>2, <1>3
  <2> QED
    BY <1>1, <2>1, <2>2, Constants
<1>5. PICK z \in Nat : z = y \div p /\ z < TopBit
  BY <1>1, <1>2, <1>3, <1>4, DivNat, DivBelow
<1>6. z % ByteBase \in Nat /\ z % ByteBase < TopBit
  BY <1>3, <1>5, ModBelow
<1>7. x % 2 \in {0, 1}
  BY <1>1
<1> DEFINE bs == LeBytes(y, FrBytes)
<1>8. bs \in [1..FrBytes -> Octets]
  BY <1>1, FrBytesIs, LeBytesTyped
<1>9. bs[FrBytes] = z % ByteBase
  BY <1>2, <1>5, FrBytesIs DEF LeBytes
<1>10. CompressEdwards(Coord[c][k]) = Append(Front(bs), Last(bs) + TopBit * (x % 2))
  BY <1>1 DEF CompressEdwards
<1> HIDE DEF bs
<1>11. Front(bs) \in [1..(FrBytes - 1) -> Octets] /\ Last(bs) = z % ByteBase
  BY <1>8, <1>9, FrBytesIs, FrontTyped
<1>12. Last(bs) + TopBit * (x % 2) \in Octets
  BY <1>3, <1>6, <1>7, <1>11 DEF Octets
<1> QED
  BY <1>10, <1>11, <1>12, FrBytesIs, AppendTyped

LEMMA CompressSec1Typed ==
  ASSUME NEW c \in Weierstrass, NEW k \in DOMAIN Coord[c]
  PROVE  CompressSec1(Coord[c][k]) \in [1..(FrBytes + 1) -> Octets]
<1>1. PICK x \in Nat, y \in Nat : x = Coord[c][k][1] /\ y = Coord[c][k][2]
  BY CoordTyped, Constants, CurveAssumption
<1>2. LeBytes(x, FrBytes) \in [1..FrBytes -> Octets]
  BY <1>1, FrBytesIs, LeBytesTyped
<1>3. Reverse(LeBytes(x, FrBytes)) \in [1..FrBytes -> Octets]
  BY <1>2, FrBytesIs, ReverseTyped
<1>4. 2 + (y % 2) \in Octets
  BY <1>1, Constants DEF Octets
<1> QED
  BY <1>1, <1>3, <1>4, FrBytesIs, PrependTyped DEF CompressSec1

LEMMA PointBytesLenIs ==
  ASSUME NEW c
  PROVE  PointBytesLen(c) \in 1..MAX_BYTES_LEN /\ PointBytesLen(c) \in Nat \ {0}
BY FrBytesIs DEF PointBytesLen

LEMMA PointToBytesTyped ==
  ASSUME NEW c \in Curves, NEW k \in 0..ScalarMod[c] - 1
  PROVE  PointToBytes(c, k) \in [1..PointBytesLen(c) -> Octets]
<1>1. CASE c \notin Weierstrass
  BY <1>1, CoordDomain, CompressEdwardsTyped DEF PointToBytes, PointBytesLen
<1>2. CASE c \in Weierstrass /\ k = 0
  <2>1. 0 \in Octets
    BY Constants DEF Octets
  <2> QED
    BY <1>2, <2>1 DEF PointToBytes, PointBytesLen, ZeroBytes
<1>3. CASE c \in Weierstrass /\ k # 0
  BY <1>3, CoordDomain, CompressSec1Typed DEF PointToBytes, PointBytesLen
<1> QED
  BY <1>1, <1>2, <1>3

LEMMA BytesOfIs ==
  ASSUME NEW t, HasBytes(t)
  PROVE  /\ BytesOf(t)[2] \in 1..MAX_BYTES_LEN /\ BytesOf(t) = Bytes(BytesOf(t)[2])
         /\ t \in IrType \ BytesTypes
         /\ IsPoint(t) => t[2] \in Curves /\ t = Point(t[2]) /\ BytesOf(t) = Bytes(PointBytesLen(t[2]))
         /\ ~IsPoint(t) => t \in PrimeFields /\ BytesOf(t) = Bytes(FrBytes)
<1>1. t \in IrType \ BytesTypes
  BY Members DEF HasBytes
<1>2. IsPoint(t) => t[2] \in Curves /\ t = Point(t[2])
  BY Tags DEF HasBytes, IsPoint, PrimeFields, Points, Base
<1>3. ~IsPoint(t) => t \in PrimeFields
  BY Tags DEF HasBytes, IsPoint, Points
<1>4. BytesOf(t) = Bytes(IF IsPoint(t) THEN PointBytesLen(t[2]) ELSE FrBytes)
  BY DEF BytesOf
<1> QED
  BY <1>1, <1>2, <1>3, <1>4, Tags, PointBytesLenIs, FrBytesIs

\* to_bytes: a value has the bytes its type says.
LEMMA ToBytesTyped ==
  ASSUME NEW v, Typed(v), HasBytes(v.ty)
  PROVE  /\ Typed(ToBytes(v)) /\ ToBytes(v).ty = BytesOf(v.ty)
         /\ ToBytes(v).val \in [1..BytesOf(v.ty)[2] -> Octets]
<1> DEFINE bs == IF IsPoint(v.ty) THEN PointToBytes(v.ty[2], v.val) ELSE LeBytes(v.val, FrBytes)
           n == BytesOf(v.ty)[2]
<1>1. n \in 1..MAX_BYTES_LEN /\ BytesOf(v.ty) = Bytes(n) /\ v.ty \in IrType \ BytesTypes
  BY BytesOfIs
<1>2. v.val \in 0..Order(v.ty) - 1 /\ v.val \in Nat
  BY <1>1, ValueRange
<1>3. CASE IsPoint(v.ty)
  <2>1. v.ty[2] \in Curves /\ v.ty = Point(v.ty[2]) /\ n = PointBytesLen(v.ty[2])
    BY <1>3, BytesOfIs, Tags
  <2>2. v.val \in 0..ScalarMod[v.ty[2]] - 1
    BY <1>2, <2>1, Orders
  <2> QED
    BY <1>1, <1>3, <2>1, <2>2, PointToBytesTyped, TypedBytes DEF ToBytes
<1>4. CASE ~IsPoint(v.ty)
  <2>1. n = FrBytes
    BY <1>4, BytesOfIs, Tags
  <2> QED
    BY <1>1, <1>2, <1>4, <2>1, FrBytesIs, LeBytesTyped, TypedBytes DEF ToBytes
<1> QED
  BY <1>3, <1>4

------------------------------------------------------------------------------
(* The values an instruction makes, one lemma for each.                      *)

Is(v, t) == Typed(v) /\ v.ty = t
\* Values of the types tys.
Fits(vals, tys) == TypesOf(vals) = tys /\ AllTyped(vals)

LEMMA FitsOne ==
  ASSUME NEW v, NEW t, Is(v, t)
  PROVE  Fits(<<v>>, <<t>>)
BY DEF Fits, Is, TypesOf, AllTyped

LEMMA FitsTwo ==
  ASSUME NEW v, NEW t, Is(v, t), NEW w, NEW u, Is(w, u)
  PROVE  Fits(<<v, w>>, <<t, u>>)
BY DEF Fits, Is, TypesOf, AllTyped

LEMMA FitsNone == Fits(<<>>, <<>>)
BY DEF Fits, TypesOf, AllTyped

LEMMA IsMod ==
  ASSUME NEW t \in IrType \ BytesTypes, NEW x \in Int
  PROVE  Is(V(t, x % Order(t)), t)
<1>1. Order(t) \in Nat /\ Order(t) > 0
  BY OrderIsNat
<1>2. x % Order(t) \in 0..Order(t) - 1
  BY <1>1, ModRange
<1> QED
  BY <1>2, TypedV DEF Is

LEMMA IsFrOf ==
  ASSUME NEW x \in 0..P - 1
  PROVE  Is(Fr(x), Native)
BY TypedFr DEF Is

LEMMA IsBoolOf ==
  ASSUME NEW x \in {0, 1}
  PROVE  Is(V(Bool, x), Bool)
<1>1. x \in 0..Order(Bool) - 1
  BY Orders
<1> QED
  BY <1>1, TypedV, Members DEF Is

LEMMA IsBytesOf ==
  ASSUME NEW n \in 1..MAX_BYTES_LEN, NEW bs \in [1..n -> Octets]
  PROVE  Is(BytesV(bs), Bytes(n))
BY TypedBytes DEF Is

LEMMA AddIs ==
  ASSUME NEW a, Typed(a[1]), Typed(a[2]), a[1].ty = a[2].ty, a[1].ty \in PrimeFields \cup Points
  PROVE  Is(AddCell(a), a[1].ty)
<1>1. a[1].ty \in IrType \ BytesTypes
  BY Members
<1>2. a[1].val \in Nat /\ a[2].val \in Nat
  BY <1>1, ValueRange
<1>3. a[1].val + a[2].val \in Int
  BY <1>2
<1> QED
  BY <1>1, <1>3, IsMod DEF AddCell

LEMMA MulIs ==
  ASSUME NEW a, Typed(a[1]), Typed(a[2]), a[1].ty = a[2].ty, a[1].ty \in PrimeFields
  PROVE  Is(MulCell(a), a[1].ty)
<1>1. a[1].ty \in IrType \ BytesTypes
  BY Members
<1>2. a[1].val \in Nat /\ a[2].val \in Nat
  BY <1>1, ValueRange
<1>3. a[1].val * a[2].val \in Int
  BY <1>2
<1> QED
  BY <1>1, <1>3, IsMod DEF MulCell

LEMMA NegIs ==
  ASSUME NEW a, Typed(a[1]), a[1].ty \in PrimeFields \cup Points \cup {Bool}
  PROVE  Is(NegCell(a), a[1].ty)
<1>1. CASE a[1].ty = Bool
  <2>1. a[1].val \in {0, 1}
    BY <1>1, BoolRange
  <2>2. 1 - a[1].val \in {0, 1}
    BY <2>1
  <2> QED
    BY <1>1, <2>2, IsBoolOf DEF NegCell
<1>2. CASE a[1].ty # Bool
  <2>1. a[1].ty \in IrType \ BytesTypes
    BY <1>2, Members
  <2>2. -a[1].val \in Int
    BY <2>1, ValueRange
  <2> QED
    BY <1>2, <2>1, <2>2, IsMod DEF NegCell
<1> QED
  BY <1>1, <1>2

LEMMA InverseIs ==
  ASSUME NEW v, Typed(v), v.ty \in PrimeFields, NEW x \in Inverses(v)
  PROVE  Is(V(v.ty, x), v.ty)
<1>1. v.ty \in IrType \ BytesTypes /\ x \in 0..Order(v.ty) - 1
  BY Members DEF Inverses
<1> QED
  BY <1>1, TypedV DEF Is

\* Every element of a prime field but zero has an inverse.
LEMMA PrimeOrder ==
  ASSUME NEW t \in PrimeFields
  PROVE  Order(t) \in {BaseMod[c] : c \in Curves} \cup {ScalarMod[c] : c \in Curves}
<1>1. CASE t = Native
  BY <1>1, Orders, Constants, CurveAssumption
<1>2. ASSUME NEW c \in Curves, t = Scalar(c)
      PROVE  Order(t) \in {BaseMod[d] : d \in Curves} \cup {ScalarMod[d] : d \in Curves}
  BY <1>2, Orders
<1>3. ASSUME NEW c \in Curves, t = Base(c)
      PROVE  Order(t) \in {BaseMod[d] : d \in Curves} \cup {ScalarMod[d] : d \in Curves}
  BY <1>3, Orders
<1> QED
  BY <1>1, <1>2, <1>3 DEF PrimeFields

LEMMA InverseExists ==
  ASSUME NEW v, Typed(v), v.ty \in PrimeFields, v.val # 0
  PROVE  Inverses(v) # {}
<1> DEFINE m == Order(v.ty)
<1>1. m \in {BaseMod[c] : c \in Curves} \cup {ScalarMod[c] : c \in Curves}
  BY PrimeOrder
<1>2. v.val \in 1..m - 1
  <2>1. v.val \in 0..m - 1 /\ v.val \in Nat /\ m \in Nat
    BY ValueRange, Members
  <2> HIDE DEF m
  <2> QED
    BY <2>1
<1> HIDE DEF m
<1>3. \E y \in 0..m - 1 : (y * v.val) % m = 1
  BY <1>1, <1>2, InverseAssumption
<1> QED
  BY <1>3 DEF Inverses, m

LEMMA NotIs ==
  ASSUME NEW v, v.val \in {0, 1}
  PROVE  Is(Fr(1 - v.val), Native)
<1>1. 1 - v.val \in 0..P - 1
  BY Constants
<1> QED
  BY <1>1, IsFrOf

LEMMA ParityIs ==
  ASSUME NEW n \in Nat, NEW a, DOMAIN a = 1..n
  PROVE  Parity(a) \in {0, 1}
<1>1. IsFiniteSet(1..n)
  BY FS_Interval
<1>2. IsFiniteSet({i \in 1..n : a[i].val = 1})
  BY <1>1, FS_Subset
<1>3. PICK k \in Nat : k = Cardinality({i \in 1..n : a[i].val = 1})
  BY <1>2, FS_CardinalityType
<1>4. Parity(a) = k % 2
  BY <1>3 DEF Parity
<1> QED
  BY <1>4

LEMMA BitListIs ==
  ASSUME NEW ins, ins.op \in {"And", "Or", "Xor"}, NEW n \in Nat, NEW a, DOMAIN a = 1..n
  PROVE  Is(BitListCell(ins, a), Bool)
<1>1. ToBit(AllSet(a)) \in {0, 1} /\ ToBit(\E i \in DOMAIN a : a[i].val = 1) \in {0, 1}
  BY DEF ToBit
<1>2. Parity(a) \in {0, 1}
  BY ParityIs
<1> DEFINE x == CASE ins.op = "And" -> ToBit(AllSet(a))
                  [] ins.op = "Or" -> ToBit(\E i \in DOMAIN a : a[i].val = 1)
                  [] ins.op = "Xor" -> Parity(a)
<1>3. x \in {0, 1}
  BY <1>1, <1>2
<1> HIDE DEF x
<1> QED
  BY <1>3, IsBoolOf DEF BitListCell, x

\* The exponents of ConstrainBits, LessThan, DivModPowerOfTwo, ReconstituteField.
LEMMA SplitPower ==
  ASSUME NEW k \in Nat, k <= SplitBits \/ k <= FR_BITS
  PROVE  2^k \in Nat /\ 2^k > 0
<1>1. PICK d \in Nat, b \in Nat : d = ChunkLen /\ b = ByteBits /\ b * d <= FR_BITS
  BY FieldAssumption
<1>2. SplitBits <= FR_BITS
  BY <1>1 DEF SplitBits
<1>3. k \in 0..FR_BITS
  BY <1>1, <1>2, FieldAssumption DEF SplitBits
<1> QED
  BY <1>3, PowerAssumption

LEMMA DivModIs ==
  ASSUME NEW x \in 0..P - 1, NEW m \in Nat, m > 0
  PROVE  Is(Fr(x \div m), Native) /\ Is(Fr(x % m), Native)
<1>1. x \in Nat /\ P \in Nat /\ x < P
  BY Constants
<1>2. x \div m \in Nat /\ x \div m <= x /\ x % m \in Nat /\ x % m < P
  BY <1>1, DivNat, DivLess, ModBelow
<1>3. x \div m \in 0..P - 1 /\ x % m \in 0..P - 1
  BY <1>1, <1>2
<1> QED
  BY <1>3, IsFrOf

LEMMA ReducedIs ==
  ASSUME NEW x \in Int
  PROVE  Is(Fr(x % P), Native)
BY IsMod, Orders, Members DEF Fr

LEMMA JubjubScalarIs ==
  ASSUME NEW a, Typed(a[1]), a[1].ty = Native
  PROVE  Is(JubjubScalarCell(a), Scalar("Jubjub"))
<1>1. a[1].val \in Int
  BY FrRange, Constants
<1>2. Scalar("Jubjub") \in IrType \ BytesTypes /\ Order(Scalar("Jubjub")) = ScalarMod["Jubjub"]
  BY Members, Orders, Constants
<1> QED
  BY <1>1, <1>2, IsMod DEF JubjubScalarCell

LEMMA PayloadsTyped ==
  ASSUME NEW n \in Nat, NEW a, DOMAIN a = 1..n, AllTyped(a), \A i \in 1..n : a[i].ty = Native
  PROVE  Payloads(a) \in Seq(Immediates) /\ Len(Payloads(a)) = n
<1>1. \A i \in 1..n : a[i].val \in Immediates
  BY FrRange DEF AllTyped
<1> QED
  BY <1>1, IsASeq DEF Payloads

LEMMA HashesAre ==
  ASSUME GadgetsTyped, NEW xs \in Seq(Immediates)
  PROVE  Is(Fr(Poseidon(xs)), Native) /\ Is(V(Point("Jubjub"), HashToPoint(xs)), Point("Jubjub"))
<1>1. Poseidon(xs) \in 0..P - 1 /\ HashToPoint(xs) \in 0..ScalarMod["Jubjub"] - 1
  BY DEF GadgetsTyped, Immediates
<1>2. Point("Jubjub") \in IrType \ BytesTypes /\ Order(Point("Jubjub")) = ScalarMod["Jubjub"]
  BY Members, Orders, Constants
<1> QED
  BY <1>1, <1>2, IsFrOf, TypedV DEF Is

LEMMA EcMulIs ==
  ASSUME NEW c \in Curves, NEW a, Typed(a[1]), Typed(a[2]), a[1].ty = Point(c), a[2].ty = Scalar(c)
  PROVE  Is(V(Point(c), (a[1].val * a[2].val) % ScalarMod[c]), Point(c))
<1>1. {Point(c), Scalar(c)} \subseteq IrType \ BytesTypes
  BY Members
<1>2. a[1].val \in Nat /\ a[2].val \in Nat
  BY <1>1, ValueRange
<1>3. a[1].val * a[2].val \in Int
  BY <1>2
<1> QED
  BY <1>1, <1>3, IsMod, Orders

LEMMA EcMulGeneratorIs ==
  ASSUME NEW c \in Curves, NEW v, Typed(v), v.ty = Scalar(c)
  PROVE  Is(V(Point(c), v.val), Point(c))
<1>1. {Point(c), Scalar(c)} \subseteq IrType \ BytesTypes
  BY Members
<1>2. v.val \in 0..Order(Point(c)) - 1
  BY <1>1, ValueRange, Orders
<1> QED
  BY <1>1, <1>2, TypedV DEF Is

LEMMA CoordinatesAre ==
  ASSUME NEW c \in Curves, NEW v, Typed(v), v.ty = Point(c), ~(c \in Weierstrass /\ v.val = 0)
  PROVE  Fits(Coordinates(c, v.val), <<Base(c), Base(c)>>)
<1>1. v.val \in DOMAIN Coord[c]
  <2>1. v.val \in 0..ScalarMod[c] - 1
    BY ValueRange, Members, Orders
  <2> QED
    BY <2>1, CoordDomain
<1>2. Base(c) \in IrType \ BytesTypes /\ Order(Base(c)) = BaseMod[c]
  BY Members, Orders
<1>3. Is(V(Base(c), Coord[c][v.val][1]), Base(c)) /\ Is(V(Base(c), Coord[c][v.val][2]), Base(c))
  BY <1>1, <1>2, CoordTyped, TypedV DEF Is
<1> QED
  BY <1>3, FitsTwo DEF Coordinates

LEMMA PointAtIs ==
  ASSUME NEW c \in Curves, NEW x, NEW y, NEW k \in PointAt(c, x, y)
  PROVE  Is(V(Point(c), k), Point(c))
<1>1. k \in 0..ScalarMod[c] - 1
  BY CoordTyped DEF PointAt
<1>2. Point(c) \in IrType \ BytesTypes /\ Order(Point(c)) = ScalarMod[c]
  BY Members, Orders
<1> QED
  BY <1>1, <1>2, TypedV DEF Is

\* The base fields of two curves are different types.
LEMMA BaseInjective ==
  ASSUME NEW c \in Curves, NEW d \in Curves, Base(c) = Base(d)
  PROVE  c = d
BY Tags DEF Base

LEMMA CurveWithBaseIs ==
  ASSUME NEW c \in Curves
  PROVE  CurveWithBase(Base(c)) = c
<1>1. \A d \in Curves : Base(d) = Base(c) <=> d = c
  BY BaseInjective
<1> QED
  BY <1>1 DEF CurveWithBase

LEMMA EncodesAre ==
  ASSUME NEW v, Typed(v)
  PROVE  /\ AllTyped(FrSeq(Encode(v))) /\ Len(FrSeq(Encode(v))) = encoded_len(v.ty)
         /\ encoded_len(v.ty) \in Nat
         /\ DOMAIN FrSeq(Encode(v)) = 1..encoded_len(v.ty)
         /\ Fits(FrSeq(Encode(v)), [i \in 1..encoded_len(v.ty) |-> Native])
<1>1. PICK e \in Seq(Immediates) : e = Encode(v) /\ Len(e) = encoded_len(v.ty)
  BY EncodeTyped
<1>2. DOMAIN e = 1..encoded_len(v.ty) /\ encoded_len(v.ty) \in Nat /\ \A i \in DOMAIN e : e[i] \in 0..P - 1
  BY <1>1, LenProperties, ElementOfSeq DEF Immediates
<1> DEFINE s == FrSeq(e)
<1>3. s = [i \in 1..encoded_len(v.ty) |-> Fr(e[i])]
  BY <1>2 DEF FrSeq
<1>4. \A i \in DOMAIN e : Typed(Fr(e[i])) /\ Fr(e[i]).ty = Native
  BY <1>2, TypedFr
<1>5. AllTyped(s) /\ Len(s) = encoded_len(v.ty) /\ DOMAIN s = 1..encoded_len(v.ty)
  BY <1>2, <1>3, <1>4 DEF AllTyped
<1>6. TypesOf(s) = [i \in 1..encoded_len(v.ty) |-> Native]
  BY <1>2, <1>3, <1>4 DEF TypesOf
<1> QED
  BY <1>1, <1>2, <1>5, <1>6 DEF Fits

LEMMA ToBytesIs ==
  ASSUME NEW v, Typed(v), HasBytes(v.ty)
  PROVE  Is(ToBytes(v), BytesOf(v.ty))
BY ToBytesTyped DEF Is

LEMMA PointFromBytesTyped ==
  ASSUME NEW c \in Curves, NEW bs, NEW k \in PointFromBytes(c, bs)
  PROVE  k \in 0..ScalarMod[c] - 1
<1>1. k \in DOMAIN Coord[c] \/ k = 0
  BY DEF PointFromBytes
<1>2. 0 \in 0..ScalarMod[c] - 1
  BY Constants
<1> QED
  BY <1>1, <1>2, CoordTyped

LEMMA PointValue ==
  ASSUME NEW t \in IrType, IsPoint(t), NEW k \in 0..ScalarMod[t[2]] - 1
  PROVE  Is(V(t, k), t) /\ t[2] \in Curves
<1>1. PICK c \in Curves : t = Point(c)
  BY TypeKinds, Tags DEF IsPoint
<1>2. t \in IrType \ BytesTypes /\ Order(t) = ScalarMod[c] /\ t[2] = c
  BY <1>1, Members, Orders, Tags
<1> QED
  BY <1>2, TypedV DEF Is

LEMMA ReducedBytesIs ==
  ASSUME NEW t \in PrimeFields, NEW n \in 1..MAX_BYTES_LEN, NEW bs \in [1..n -> Octets]
  PROVE  Is(V(t, LeInt(bs) % Order(t)), t)
<1>1. n \in 0..MAX_BYTES_LEN
  BY Constants
<1>2. LeInt(bs) \in Int
  BY <1>1, LeIntRange
<1> QED
  BY <1>2, IsMod, Members

LEMMA DecodeBytesIs ==
  ASSUME NEW t \in IrType, NEW n \in 1..MAX_BYTES_LEN, NEW bs \in [1..n -> Octets],
         NEW v \in DecodeBytes(t, bs)
  PROVE  Is(v, t)
<1>1. CASE t \in PrimeFields
  BY <1>1, ReducedBytesIs DEF DecodeBytes
<1>2. CASE t \notin PrimeFields
  <2>1. IsPoint(t) /\ \E k \in PointFromBytes(t[2], bs) : v = V(t, k)
    BY <1>2 DEF DecodeBytes
  <2>2. PICK c \in Curves : t = Point(c)
    BY <2>1, TypeKinds, Tags DEF IsPoint
  <2> QED
    BY <2>1, <2>2, Tags, PointFromBytesTyped, PointValue
<1> QED
  BY <1>1, <1>2

LEMMA WitnessPointTyped ==
  ASSUME NEW c \in Curves, NEW bs
  PROVE  WitnessPoint(c, bs) \in 0..ScalarMod[c] - 1
<1>1. 1 \in 0..ScalarMod[c] - 1
  BY Constants
<1>2. PointFromBytes(c, bs) # {} => (CHOOSE k \in PointFromBytes(c, bs) : TRUE) \in PointFromBytes(c, bs)
  OBVIOUS
<1> QED
  BY <1>1, <1>2, PointFromBytesTyped DEF WitnessPoint

LEMMA FromBytesIs ==
  ASSUME NEW ins, ins.ty \in IrType, NEW a, Typed(a[1]), a[1].ty \in BytesTypes,
         ins.ty \in PrimeFields \/ IsPoint(ins.ty)
  PROVE  Is(FromBytesCell(ins, a), ins.ty)
<1>1. CASE IsPoint(ins.ty)
  <2>1. PICK c \in Curves : ins.ty = Point(c)
    BY <1>1, TypeKinds, Tags DEF IsPoint
  <2>2. WitnessPoint(ins.ty[2], a[1].val) \in 0..ScalarMod[ins.ty[2]] - 1
    BY <2>1, WitnessPointTyped, Tags
  <2> QED
    BY <1>1, <2>2, PointValue DEF FromBytesCell
<1>2. CASE ~IsPoint(ins.ty)
  BY <1>2, BytesRange, ReducedBytesIs DEF FromBytesCell
<1> QED
  BY <1>1, <1>2

LEMMA ReverseIs ==
  ASSUME NEW v, Typed(v), v.ty \in BytesTypes
  PROVE  Is(BytesV(Reverse(v.val)), v.ty)
<1>1. PICK n \in 1..MAX_BYTES_LEN : v.ty = Bytes(n) /\ v.val \in [1..n -> Octets]
  BY BytesRange
<1>2. n \in Nat
  BY Constants
<1>3. Reverse(v.val) \in [1..n -> Octets]
  BY <1>1, <1>2, ReverseTyped
<1> QED
  BY <1>1, <1>3, IsBytesOf

LEMMA SliceIs ==
  ASSUME NEW v, Typed(v), v.ty \in BytesTypes, NEW s \in Nat, NEW l \in Nat \ {0}, s + l <= Len(v.val)
  PROVE  Is(BytesV(SubSeq(v.val, s + 1, s + l)), Bytes(l))
<1>1. PICK n \in 1..MAX_BYTES_LEN : v.ty = Bytes(n) /\ v.val \in [1..n -> Octets] /\ Len(v.val) = n
  BY BytesRange
<1>2. n \in Nat /\ s + l <= n
  BY <1>1, Constants
<1>3. SubSeq(v.val, s + 1, s + l) = [k \in 1..l |-> v.val[k + s]]
  BY <1>1, <1>2
<1>4. \A k \in 1..l : v.val[k + s] \in Octets
  BY <1>1, <1>2
<1>5. SubSeq(v.val, s + 1, s + l) \in [1..l -> Octets]
  BY <1>3, <1>4
<1>6. l \in 1..MAX_BYTES_LEN
  BY <1>2, Constants
<1> QED
  BY <1>5, <1>6, IsBytesOf

LEMMA NthIs ==
  ASSUME NEW v, Typed(v), v.ty \in BytesTypes, NEW i \in Nat, i < Len(v.val)
  PROVE  Is(V(Byte, v.val[i + 1]), Byte)
<1>1. PICK n \in Nat : v.val \in [1..n -> Octets] /\ Len(v.val) = n
  BY BytesRange, Constants
<1>2. v.val[i + 1] \in Octets
  BY <1>1
<1>3. v.val[i + 1] \in 0..Order(Byte) - 1
  BY <1>2, Orders DEF Octets
<1> QED
  BY <1>3, TypedV, Members DEF Is

LEMMA LowHighAre ==
  ASSUME NEW v, Typed(v), v.ty = Bytes(FrBytes)
  PROVE  Is(Fr(LeInt(Front(v.val)) % P), Native) /\ Is(Fr(Last(v.val)), Native)
<1>1. v.val \in [1..FrBytes -> Octets]
  BY BytesRange, FrBytesIs, Members, Tags
<1>2. Front(v.val) \in [1..(FrBytes - 1) -> Octets] /\ Last(v.val) \in Octets
  BY <1>1, FrBytesIs, FrontTyped
<1>3. FrBytes - 1 \in 0..MAX_BYTES_LEN
  BY FrBytesIs, Constants
<1>4. LeInt(Front(v.val)) \in Int
  BY <1>2, <1>3, LeIntRange
<1>5. Last(v.val) \in 0..P - 1
  BY <1>2, Constants DEF Octets
<1> QED
  BY <1>4, <1>5, ReducedIs, IsFrOf

LEMMA FromLowHighIs ==
  ASSUME NEW v, Typed(v), v.ty = Bytes(FrBytes), NEW b \in Octets
  PROVE  Is(BytesV(Append(Front(v.val), b)), Bytes(FrBytes))
<1>1. v.val \in [1..FrBytes -> Octets]
  BY BytesRange, FrBytesIs, Members, Tags
<1>2. Front(v.val) \in [1..(FrBytes - 1) -> Octets]
  BY <1>1, FrBytesIs, FrontTyped
<1>3. Append(Front(v.val), b) \in [1..FrBytes -> Octets]
  BY <1>2, FrBytesIs, AppendTyped
<1> QED
  BY <1>3, FrBytesIs, IsBytesOf

LEMMA ByteStringTyped ==
  ASSUME NEW v, Typed(v), v.ty = Byte \/ v.ty \in BytesTypes
  PROVE  ByteString(v) \in Seq(Octets) /\ Len(ByteString(v)) = ByteCount(v.ty)
<1>1. CASE v.ty = Byte
  <2>1. v.val \in Octets
    BY <1>1, ValueRange, Orders, Members DEF Octets
  <2>2. <<v.val>> \in Seq(Octets) /\ Len(<<v.val>>) = 1
    BY <2>1
  <2> QED
    BY <1>1, <2>2 DEF ByteString, ByteCount
<1>2. CASE v.ty # Byte
  BY <1>2, BytesRange DEF ByteString, ByteCount
<1> QED
  BY <1>1, <1>2

\* Concat: as many bytes as the operands have.
LEMMA ConcatIs ==
  ASSUME NEW n \in Nat, NEW a, DOMAIN a = 1..n, AllTyped(a),
         \A i \in 1..n : a[i].ty = Byte \/ a[i].ty \in BytesTypes
  PROVE  LET bs == FlattenSeq([i \in DOMAIN a |-> ByteString(a[i])])
             tys == TypesOf(a)
             m == Total([i \in DOMAIN tys |-> ByteCount(tys[i])])
         IN Len(bs) = m /\ (m \in 1..MAX_BYTES_LEN => Is(BytesV(bs), Bytes(m)))
<1> DEFINE s == [i \in DOMAIN a |-> ByteString(a[i])]
           tys == TypesOf(a)
           ns == [i \in DOMAIN tys |-> ByteCount(tys[i])]
<1>1. \A i \in 1..n : ByteString(a[i]) \in Seq(Octets) /\ Len(ByteString(a[i])) = ByteCount(a[i].ty)
  BY ByteStringTyped DEF AllTyped
<1>2. s \in Seq(Seq(Octets)) /\ Len(s) = n
  BY <1>1, IsASeq
<1>3. Len(ns) = n /\ \A i \in 1..n : ns[i] = Len(s[i])
  BY <1>1 DEF TypesOf
<1> HIDE DEF s, ns
<1>4. FlattenSeq(s) \in Seq(Octets) /\ Len(FlattenSeq(s)) = Total(ns)
  BY <1>2, <1>3, FlattenTotal
<1>5. ASSUME Total(ns) \in 1..MAX_BYTES_LEN
      PROVE  Is(BytesV(FlattenSeq(s)), Bytes(Total(ns)))
  BY <1>4, <1>5, SeqIsTuple, IsBytesOf
<1> QED
  BY <1>4, <1>5 DEF s, ns

LEMMA BytesFromNativesIs ==
  ASSUME NEW ins, NEW n \in Nat, NEW a, DOMAIN a = 1..n, AllTyped(a),
         \A i \in 1..n : a[i].ty = Native, LimbsMatch(ins.n[1], n)
  PROVE  Is(BytesFromNativesCell(ins, a), Bytes(ins.n[1]))
<1>1. PICK len \in 1..MAX_BYTES_LEN : len = ins.n[1] /\ n = DivCeil(len, ChunkLen)
  BY DEF LimbsMatch
<1> DEFINE xs == Payloads(a)
<1>2. DOMAIN xs = 1..n /\ \A i \in 1..n : xs[i] = a[i].val /\ xs[i] \in Nat
  BY FrRange DEF Payloads, AllTyped
<1>3. [i \in DOMAIN xs |-> LeBytes(xs[i], ChunkBytes(len, i))]
        = [i \in DOMAIN a |-> LeBytes(a[i].val, ChunkBytes(len, i))]
  BY <1>2
<1> HIDE DEF xs
<1>4. FlattenSeq([i \in DOMAIN xs |-> LeBytes(xs[i], ChunkBytes(len, i))]) \in [1..len -> Octets]
  BY <1>1, <1>2, LimbBytes
<1> QED
  BY <1>1, <1>3, <1>4, IsBytesOf DEF BytesFromNativesCell

------------------------------------------------------------------------------
(* The byte hashes.                                                          *)

LEMMA WidthNat ==
  ASSUME NEW seg \in Segment
  PROVE  Width(seg) \in Nat /\ (seg[1] = "Bytes" => seg[2] \in Nat)
         /\ (seg[1] # "Bytes" => Width(seg) = 1)
<1>1. seg[1] = "Bytes" => seg[2] \in Nat
  BY DEF Segment
<1> QED
  BY <1>1, ChunkCount DEF Width

\* The bytes of the limbs of a byte segment, whatever its length.
LEMMA LimbsAreBytes ==
  ASSUME NEW xs \in Seq(Nat), NEW n \in Nat, NEW v \in decode_bytes(xs, n)
  PROVE  v.val \in Seq(Nat)
<1> DEFINE s == [i \in DOMAIN xs |-> LeBytes(xs[i], ChunkBytes(n, i))]
<1>1. Len(xs) = DivCeil(n, ChunkLen) /\ v.val = FlattenSeq(s)
  BY DEF decode_bytes, Some, V
<1>2. DOMAIN xs = 1..Len(xs) /\ Len(xs) \in Nat /\ \A i \in 1..Len(xs) : xs[i] \in Nat
  BY LenProperties, ElementOfSeq
<1>3. \A i \in 1..Len(xs) : LeBytes(xs[i], ChunkBytes(n, i)) \in Seq(Octets)
  BY <1>1, <1>2, ChunkSizes, LeBytesTyped
<1>4. Octets \subseteq Nat
  BY Constants DEF Octets
<1>5. \A i \in 1..Len(xs) : LeBytes(xs[i], ChunkBytes(n, i)) \in Seq(Nat)
  BY <1>3, <1>4, SeqWider
<1>6. s \in Seq(Seq(Nat))
  BY <1>2, <1>5, IsASeq
<1> HIDE DEF s
<1> QED
  BY <1>1, <1>6, FlattenTyped

LEMMA SegmentBytesTyped ==
  ASSUME NEW seg \in Segment, NEW es \in Seq(Nat), Len(es) = Width(seg),
         NEW bs \in SegmentBytes(seg, es)
  PROVE  bs \in Seq(Nat)
<1>1. seg[1] \in {"Field", "Compress", "Bytes", "Option"}
  BY DEF Segment
<1>2. CASE seg[1] = "Field"
  <2>1. es[1] \in Nat /\ bs = LeBytes(es[1], FrBytes)
    BY <1>2, WidthNat, ElementOfSeq DEF SegmentBytes
  <2>2. LeBytes(es[1], FrBytes) \in Seq(Octets)
    BY <2>1, FrBytesIs, LeBytesTyped
  <2>3. Octets \subseteq Nat
    BY Constants DEF Octets
  <2> QED
    BY <2>1, <2>2, <2>3, SeqWider
<1>3. CASE seg[1] = "Compress"
  BY <1>3 DEF SegmentBytes
<1>4. CASE seg[1] = "Bytes"
  <2>1. PICK v \in decode_bytes(Reverse(es), seg[2]) : bs = v.val
    BY <1>4 DEF SegmentBytes
  <2>2. Reverse(es) \in Seq(Nat)
    <3>1. PICK n \in Nat : es \in [1..n -> Nat]
      BY SeqIsTuple
    <3>2. PICK r \in [1..n -> Nat] : r = Reverse(es)
      BY <3>1, ReverseTyped
    <3>3. r \in Seq(Nat)
      OBVIOUS
    <3> QED
      BY <3>2, <3>3
  <2> QED
    BY <1>4, <2>1, <2>2, WidthNat, LimbsAreBytes
<1>5. CASE seg[1] = "Option"
  <2>1. es[1] \in Nat /\ bs = <<es[1]>>
    BY <1>5, WidthNat, ElementOfSeq, SomeIs DEF SegmentBytes, Some
  <2>2. <<es[1]>> \in Seq(Nat)
    BY <2>1
  <2> QED
    BY <2>1, <2>2
<1> QED
  BY <1>1, <1>2, <1>3, <1>4, <1>5

Parsed == [left : Seq(Nat), bytes : Seq(Nat)]
LEMMA TakeSegmentTyped ==
  ASSUME NEW acc, acc \subseteq Parsed, NEW seg \in Segment
  PROVE  TakeSegment(acc, seg) \subseteq Parsed
<1> SUFFICES ASSUME NEW p \in acc, Width(seg) <= Len(p.left),
                    NEW bs \in SegmentBytes(seg, SubSeq(p.left, 1, Width(seg)))
             PROVE  [left |-> SubSeq(p.left, Width(seg) + 1, Len(p.left)), bytes |-> p.bytes \o bs] \in Parsed
  BY DEF TakeSegment
<1>1. PICK l \in Seq(Nat) : l = p.left
  BY DEF Parsed
<1>2. p.bytes \in Seq(Nat)
  BY DEF Parsed
<1>3. PICK w \in Nat : w = Width(seg) /\ w <= Len(l)
  BY <1>1, WidthNat
<1>4. \A i \in 1..Len(l) : l[i] \in Nat
  BY ElementOfSeq
<1>5. SubSeq(l, 1, w) \in Seq(Nat) /\ Len(SubSeq(l, 1, w)) = w
  BY <1>3, <1>4, SubSeqProperties, LenProperties
<1>6. SubSeq(l, w + 1, Len(l)) \in Seq(Nat)
  BY <1>3, <1>4, SubSeqProperties, LenProperties
<1>7. bs \in Seq(Nat)
  BY <1>1, <1>3, <1>5, SegmentBytesTyped
<1>8. p.bytes \o bs \in Seq(Nat)
  BY <1>2, <1>7, ConcatProperties
<1> QED
  BY <1>1, <1>3, <1>6, <1>8 DEF Parsed

ParseRun(f, align, es, n) ==
  f = [k \in 0..n |-> IF k = 0 THEN {[left |-> es, bytes |-> <<>>]} ELSE TakeSegment(f[k - 1], align[k])]

LEMMA ParseExists ==
  ASSUME NEW align, NEW es, NEW n \in Nat
  PROVE  \E f : ParseRun(f, align, es, n)
<1> DEFINE S == {m \in Nat : \E f : ParseRun(f, align, es, m)}
           first == {[left |-> es, bytes |-> <<>>]}
<1>1. 0 \in S
  <2>1. ParseRun([k \in 0..0 |-> first], align, es, 0)
    BY DEF ParseRun
  <2> QED
    BY <2>1
<1>2. ASSUME NEW m \in S
      PROVE  m + 1 \in S
  <2>1. PICK f : ParseRun(f, align, es, m)
    OBVIOUS
  <2> DEFINE g == [k \in 0..(m + 1) |->
                     IF k \in 0..m THEN f[k] ELSE IF k = 0 THEN first ELSE TakeSegment(f[k - 1], align[k])]
  <2> HIDE DEF first
  <2>2. \A k \in 0..m : f[k] = IF k = 0 THEN first ELSE TakeSegment(f[k - 1], align[k])
    BY <2>1 DEF ParseRun, first
  <2>3. ASSUME NEW k \in 0..(m + 1)
        PROVE  g[k] = IF k = 0 THEN first ELSE TakeSegment(g[k - 1], align[k])
    <3>1. CASE k = 0
      BY <2>2, <3>1
    <3>2. CASE k # 0
      <4>1. k - 1 \in 0..m /\ k - 1 \in 0..(m + 1)
        BY <3>2
      <4>2. g[k - 1] = f[k - 1]
        BY <4>1
      <4>3. g[k] = TakeSegment(f[k - 1], align[k])
        BY <2>2, <3>2
      <4> QED
        BY <3>2, <4>2, <4>3
    <3> QED
      BY <3>1, <3>2
  <2>4. DOMAIN g = 0..(m + 1) /\ g = [k \in 0..(m + 1) |-> g[k]]
    OBVIOUS
  <2> HIDE DEF g
  <2>5. ParseRun(g, align, es, m + 1)
    BY <2>3, <2>4 DEF ParseRun, first
  <2> QED
    BY <2>5
<1> HIDE DEF S
<1>3. S \in SUBSET Nat
  BY DEF S
<1>4. S = Nat
  BY <1>1, <1>2, <1>3, InductionOnSet
<1> QED
  BY <1>4 DEF S

LEMMA ParseIs ==
  ASSUME NEW align, NEW es, Len(align) \in Nat
  PROVE  \E f : /\ ParseRun(f, align, es, Len(align))
                /\ parse_field_repr(align, es) = {p.bytes : p \in {q \in f[Len(align)] : q.left = <<>>}}
<1>1. \E f : ParseRun(f, align, es, Len(align))
  BY ParseExists
<1> DEFINE after == CHOOSE f : f = [k \in 0..Len(align) |->
                      IF k = 0 THEN {[left |-> es, bytes |-> <<>>]} ELSE TakeSegment(f[k - 1], align[k])]
<1>2. ParseRun(after, align, es, Len(align))
  BY <1>1 DEF ParseRun
<1>3. parse_field_repr(align, es) = {p.bytes : p \in {q \in after[Len(align)] : q.left = <<>>}}
  BY DEF parse_field_repr
<1> HIDE DEF after
<1> QED
  BY <1>2, <1>3

LEMMA ParseTyped ==
  ASSUME NEW align \in Seq(Segment), NEW es \in Seq(Nat), NEW bs \in parse_field_repr(align, es)
  PROVE  bs \in Seq(Nat)
<1>1. PICK n \in Nat : n = Len(align)
  BY LenProperties
<1>2. PICK f : /\ ParseRun(f, align, es, n)
               /\ parse_field_repr(align, es) = {p.bytes : p \in {q \in f[n] : q.left = <<>>}}
  BY <1>1, ParseIs
<1> DEFINE S == {k \in Nat : k \in 0..n => f[k] \subseteq Parsed}
<1>3. 0 \in S
  <2>1. f[0] = {[left |-> es, bytes |-> <<>>]}
    BY <1>2 DEF ParseRun
  <2>2. PICK e \in Seq(Nat) : e = <<>>
    BY EmptySeq
  <2>3. [left |-> es, bytes |-> e] \in Parsed
    BY DEF Parsed
  <2>4. f[0] \subseteq Parsed
    BY <2>1, <2>2, <2>3
  <2> QED
    BY <2>4
<1>4. ASSUME NEW k \in S
      PROVE  k + 1 \in S
  <2> SUFFICES ASSUME k + 1 \in 0..n PROVE f[k + 1] \subseteq Parsed
    OBVIOUS
  <2>1. f[k] \subseteq Parsed /\ k + 1 \in 1..Len(align) /\ k + 1 # 0 /\ (k + 1) - 1 = k
    BY <1>1
  <2>2. align[k + 1] \in Segment
    BY <2>1, ElementOfSeq
  <2>3. f[k + 1] = TakeSegment(f[k], align[k + 1])
    BY <1>2, <2>1 DEF ParseRun
  <2> QED
    BY <2>1, <2>2, <2>3, TakeSegmentTyped
<1> HIDE DEF S
<1>5. S \in SUBSET Nat
  BY DEF S
<1>6. S = Nat
  BY <1>3, <1>4, <1>5, InductionOnSet
<1>7. f[n] \subseteq Parsed
  BY <1>6 DEF S
<1> QED
  BY <1>2, <1>7 DEF Parsed

LEMMA DigestLenIs ==
  ASSUME NEW op
  PROVE  DigestLen(op) \in 1..MAX_BYTES_LEN
BY DigestAssumption DEF DigestLen

LEMMA DigestIs ==
  ASSUME GadgetsTyped, NEW op \in HashOps, NEW bs \in Seq(Nat)
  PROVE  Is(BytesV(Digest(op, bs)), Bytes(DigestLen(op)))
<1>1. Digest(op, bs) \in [1..DigestLen(op) -> Octets]
  BY DEF GadgetsTyped
<1> QED
  BY <1>1, DigestLenIs, IsBytesOf

LEMMA AlignedWidthNat ==
  ASSUME NEW align \in Seq(Segment)
  PROVE  AlignedWidth(align) \in Nat
<1>1. PICK n \in Nat : n = Len(align) /\ DOMAIN align = 1..n
  BY LenProperties
<1> DEFINE ns == [j \in 1..n |-> Width(align[j])]
<1>2. AlignedWidth(align) = Total(ns) /\ Len(ns) = n
  BY <1>1 DEF AlignedWidth
<1>3. \A j \in 1..n : ns[j] \in Nat
  BY <1>1, ElementOfSeq, WidthNat
<1> HIDE DEF ns
<1>4. PICK f : Sums(f, ns, n) /\ Total(ns) = f[n]
  BY <1>2, TotalIs
<1> QED
  BY <1>1, <1>2, <1>3, <1>4, SumsNat

\* Where an atom starts: the elements the atoms before it take.
LEMMA AtomBounds ==
  ASSUME NEW align \in Seq(Segment), NEW k \in 1..Len(align)
  PROVE  /\ AtomStart(align, k) \in Nat
         /\ AtomStart(align, k) + Width(align[k]) <= AlignedWidth(align)
<1>1. PICK n \in Nat : n = Len(align) /\ DOMAIN align = 1..n
  BY LenProperties
<1> DEFINE ns == [j \in 1..n |-> Width(align[j])]
<1>2. AlignedWidth(align) = Total(ns) /\ Len(ns) = n
  BY <1>1 DEF AlignedWidth
<1>3. \A j \in 1..n : align[j] \in Segment
  BY <1>1, ElementOfSeq
<1>4. \A j \in 1..n : ns[j] \in Nat
  BY <1>3, WidthNat
<1>5. PICK f : Sums(f, ns, n) /\ Total(ns) = f[n]
  BY <1>2, TotalIs
<1>6. \A j \in 0..n : f[j] \in Nat
  BY <1>4, <1>5, SumsNat
<1> DEFINE before == SubSeq(align, 1, k - 1)
           ms == [j \in DOMAIN before |-> Width(before[j])]
<1>7. Len(ms) = k - 1 /\ DOMAIN ms = 1..k - 1 /\ \A j \in 1..k - 1 : ms[j] = ns[j]
  <2>1. before = [j \in 1..k - 1 |-> align[j]]
    BY <1>1
  <2> QED
    BY <1>1, <2>1
<1>8. k \in 1..n /\ k - 1 \in Nat
  BY <1>1
<1>9. PICK g : Sums(g, ms, k - 1) /\ Total(ms) = g[k - 1]
  BY <1>7, <1>8, TotalIs
<1> HIDE DEF ms, ns, before
<1>10. g[k - 1] = f[k - 1]
  <2> DEFINE S == {j \in Nat : j \in 0..k - 1 => g[j] = f[j]}
  <2>1. 0 \in S
    BY <1>5, <1>8, <1>9, SumsStep
  <2>2. ASSUME NEW j \in S
        PROVE  j + 1 \in S
    <3> SUFFICES ASSUME j + 1 \in 0..k - 1 PROVE g[j + 1] = f[j + 1]
      OBVIOUS
    <3>1. j + 1 \in 1..k - 1 /\ j + 1 \in 1..n /\ g[j] = f[j]
      BY <1>8
    <3>2. g[j + 1] = g[j] + ms[j + 1]
      BY <1>8, <1>9, <3>1, SumsStep
    <3>3. f[j + 1] = f[j] + ns[j + 1]
      BY <1>5, <3>1, SumsStep
    <3> QED
      BY <1>7, <3>1, <3>2, <3>3
  <2> HIDE DEF S
  <2>3. S \in SUBSET Nat
    BY DEF S
  <2>4. S = Nat
    BY <2>1, <2>2, <2>3, InductionOnSet
  <2> QED
    BY <1>8, <2>4 DEF S
<1>11. f[k] = f[k - 1] + Width(align[k])
  <2>1. (k - 1) + 1 = k /\ ns[k] = Width(align[k])
    BY <1>8 DEF ns
  <2> QED
    BY <1>5, <1>8, <2>1, SumsStep
<1>12. f[k] <= f[n]
  <2> DEFINE S == {j \in Nat : k + j \in 0..n => f[k] <= f[k + j]}
  <2>1. 0 \in S
    BY <1>6, <1>8
  <2>2. ASSUME NEW j \in S
        PROVE  j + 1 \in S
    <3> SUFFICES ASSUME k + (j + 1) \in 0..n PROVE f[k] <= f[k + (j + 1)]
      OBVIOUS
    <3>1. PICK i \in Nat : i = k + j /\ i + 1 = k + (j + 1) /\ i + 1 \in 1..n /\ i \in 0..n
      BY <1>8
    <3>2. f[i + 1] = f[i] + ns[i + 1]
      BY <1>5, <3>1, SumsStep
    <3>3. f[k] <= f[i]
      BY <3>1
    <3>4. f[i] \in Nat /\ f[k] \in Nat /\ ns[i + 1] \in Nat
      BY <1>4, <1>6, <1>8, <3>1
    <3> QED
      BY <3>1, <3>2, <3>3, <3>4
  <2> HIDE DEF S
  <2>3. S \in SUBSET Nat
    BY DEF S
  <2>4. S = Nat
    BY <2>1, <2>2, <2>3, InductionOnSet
  <2>5. n - k \in S /\ k + (n - k) = n
    BY <1>8, <2>4
  <2> QED
    BY <2>5 DEF S
<1>13. AtomStart(align, k) = f[k - 1]
  BY <1>9, <1>10 DEF AtomStart, AlignedWidth, ms, before
<1> QED
  BY <1>2, <1>5, <1>6, <1>8, <1>11, <1>12, <1>13

LEMMA TimesMonotone ==
  ASSUME NEW d \in Nat, NEW a \in Nat, NEW b \in Nat, a <= b
  PROVE  d * a <= d * b
OBVIOUS

\* The elements an atom takes are its whole chunks and one for the rest.
LEMMA AtomElements ==
  ASSUME NEW n \in Nat
  PROVE  /\ n \div ChunkLen \in Nat /\ n % ChunkLen \in Nat /\ n % ChunkLen < ChunkLen
         /\ n \div ChunkLen <= DivCeil(n, ChunkLen)
         /\ n % ChunkLen > 0 => n \div ChunkLen + 1 <= DivCeil(n, ChunkLen)
<1>0. PICK d \in Nat : d = ChunkLen /\ d > 0
  BY Constants
<1>1. PICK q \in Nat : d = ChunkLen /\ d > 0 /\ q = DivCeil(n, ChunkLen) /\ n <= d * q
  BY <1>0, ChunkCount
<1>2. PICK c \in Nat : c = n \div d
  BY <1>1, DivNat
<1>3. PICK s \in 0..d - 1 : s = n % d
  BY <1>1, ModRange
<1>4. s = n - d * c /\ d * c \in Nat
  BY <1>1, <1>2, <1>3, ModIs
<1>5. d * q \in Nat /\ d * (c - 1) = d * c - d
  BY <1>1, <1>2
<1>6. c <= q
  <2> SUFFICES ASSUME q + 1 <= c PROVE FALSE
    BY <1>1, <1>2
  <2>1. d * (q + 1) <= d * c
    BY <1>1, <1>2, TimesMonotone
  <2>2. d * (q + 1) = d * q + d
    BY <1>1
  <2> QED
    BY <1>1, <1>3, <1>4, <1>5, <2>1, <2>2
<1>7. s > 0 => c + 1 <= q
  <2> SUFFICES ASSUME s > 0, q <= c PROVE FALSE
    BY <1>1, <1>2
  <2>1. d * q <= d * c
    BY <1>1, <1>2, TimesMonotone
  <2> QED
    BY <1>1, <1>3, <1>4, <1>5, <2>1
<1> QED
  BY <1>1, <1>2, <1>3, <1>6, <1>7

Piece(w) == [from : 1..w, len : 0..MAX_BYTES_LEN]
LEMMA OneIsSeq ==
  ASSUME NEW S, NEW x \in S
  PROVE  <<x>> \in Seq(S)
OBVIOUS

LEMMA AtomPiecesTyped ==
  ASSUME NEW align \in Seq(Segment), NEW k \in 1..Len(align), Decodable(align[k])
  PROVE  AtomPieces(align, k) \in Seq(Piece(AlignedWidth(align)))
<1> DEFINE S == Piece(AlignedWidth(align))
<1>1. align[k] \in Segment
  BY ElementOfSeq
<1>2. PICK at \in Nat, w \in Nat : /\ at = AtomStart(align, k) /\ w = Width(align[k])
                                   /\ at + w <= AlignedWidth(align)
  BY <1>1, AtomBounds, WidthNat
<1>3. PICK total \in Nat : total = AlignedWidth(align)
  BY AlignedWidthNat
<1>4. ASSUME NEW j \in Nat, NEW m \in 0..MAX_BYTES_LEN, at < j, j <= at + w
      PROVE  [from |-> j, len |-> m] \in S
  <2>1. at + w <= total
    BY <1>2, <1>3
  <2>2. j \in 1..total
    BY <1>4, <2>1
  <2> QED
    BY <1>3, <2>2 DEF Piece
<1> HIDE DEF S
<1>5. CASE align[k][1] = "Field"
  <2>1. w = 1 /\ FrBytes \in 0..MAX_BYTES_LEN
    BY <1>1, <1>2, <1>5, WidthNat, FrBytesIs
  <2>2. AtomPieces(align, k) = <<[from |-> at + 1, len |-> FrBytes]>>
    BY <1>2, <1>5 DEF AtomPieces
  <2>3. [from |-> at + 1, len |-> FrBytes] \in S
    BY <1>4, <2>1
  <2> QED
    BY <2>2, <2>3, OneIsSeq DEF S
<1>6. CASE align[k][1] = "Bytes"
  <2>1. PICK n \in Nat : n = align[k][2] /\ w = DivCeil(n, ChunkLen)
    BY <1>1, <1>2, <1>6, WidthNat DEF Width
  <2>2. PICK stray \in Nat, chunks \in Nat :
          /\ stray = n % ChunkLen /\ chunks = n \div ChunkLen
          /\ stray < ChunkLen /\ chunks <= w /\ (stray > 0 => chunks + 1 <= w)
    BY <2>1, AtomElements
  <2>3. PICK first \in Nat : first = IF stray > 0 THEN at + 1 ELSE at
    OBVIOUS
  <2> DEFINE piece(i) == [from |-> first + chunks + 1 - i, len |-> ChunkLen]
             h == [i \in 1..chunks |-> piece(i)]
             t == IF stray > 0 THEN <<[from |-> at + 1, len |-> stray]>> ELSE <<>>
  <2>4. AtomPieces(align, k) = h \o t
    BY <1>2, <1>6, <2>1, <2>2, <2>3 DEF AtomPieces
  <2>5. ChunkLen \in 0..MAX_BYTES_LEN /\ stray \in 0..MAX_BYTES_LEN
    BY <2>2, Constants
  <2>6. ASSUME NEW i \in 1..chunks
        PROVE  piece(i) \in S
    <3>1. PICK j \in Nat : j = first + chunks + 1 - i /\ first < j /\ j <= first + chunks
      OBVIOUS
    <3>2. at <= first /\ first + chunks <= at + w
      <4>1. CASE stray > 0
        <5>1. chunks + 1 <= w /\ first = at + 1
          BY <2>2, <2>3, <4>1
        <5> QED
          BY <5>1
      <4>2. CASE ~(stray > 0)
        <5>1. chunks <= w /\ first = at
          BY <2>2, <2>3, <4>2
        <5> QED
          BY <5>1
      <4> QED
        BY <4>1, <4>2
    <3>3. at < j /\ j <= at + w
      BY <3>1, <3>2
    <3>4. [from |-> j, len |-> ChunkLen] \in S
      BY <1>4, <2>5, <3>3
    <3> QED
      BY <3>1, <3>4
  <2> HIDE DEF piece
  <2>7. h \in Seq(S)
    BY <2>6, IsASeq
  <2>8. t \in Seq(S)
    <3>1. CASE stray > 0
      <4>1. at + 1 \in Nat /\ at < at + 1 /\ at + 1 <= at + w
        BY <2>2, <3>1
      <4>2. [from |-> at + 1, len |-> stray] \in S
        BY <1>4, <2>5, <4>1
      <4> QED
        BY <3>1, <4>2, OneIsSeq
    <3>2. CASE ~(stray > 0)
      BY <3>2, EmptySeq
    <3> QED
      BY <3>1, <3>2
  <2> HIDE DEF h, t
  <2> QED
    BY <2>4, <2>7, <2>8, ConcatProperties DEF S
<1> QED
  BY <1>5, <1>6 DEF Decodable

LEMMA PiecesTyped ==
  ASSUME NEW align \in Seq(Segment), \A k \in DOMAIN align : Decodable(align[k])
  PROVE  Pieces(align) \in Seq(Piece(AlignedWidth(align)))
<1>1. PICK n \in Nat : n = Len(align) /\ DOMAIN align = 1..n
  BY LenProperties
<1>2. \A k \in 1..n : AtomPieces(align, k) \in Seq(Piece(AlignedWidth(align)))
  BY <1>1, AtomPiecesTyped
<1>3. [k \in 1..n |-> AtomPieces(align, k)] \in Seq(Seq(Piece(AlignedWidth(align))))
  BY <1>2, IsASeq
<1> QED
  BY <1>1, <1>3, FlattenTyped DEF Pieces

\* fab_decode_to_bytes reads no element beyond the operands.
LEMMA DecodedBytesTyped ==
  ASSUME NEW align \in Seq(Segment), \A k \in DOMAIN align : Decodable(align[k]),
         NEW n \in Nat, NEW a, DOMAIN a = 1..n, \A i \in 1..n : a[i].val \in Nat,
         AlignedWidth(align) <= n, AlignedWidth(align) \in Nat
  PROVE  DecodedBytes(align, a) \in Seq(Nat)
<1>1. PICK ps \in Seq(Piece(AlignedWidth(align))) : ps = Pieces(align)
  BY PiecesTyped
<1>2. PICK m \in Nat : m = Len(ps) /\ DOMAIN ps = 1..m
  BY LenProperties
<1>3. ASSUME NEW i \in 1..m
      PROVE  LeBytes(a[ps[i].from].val, ps[i].len) \in Seq(Nat)
  <2>1. ps[i] \in Piece(AlignedWidth(align))
    BY <1>2, ElementOfSeq
  <2>2. ps[i].from \in 1..n /\ ps[i].len \in 0..MAX_BYTES_LEN
    BY <2>1 DEF Piece
  <2>3. LeBytes(a[ps[i].from].val, ps[i].len) \in Seq(Octets)
    BY <2>2, LeBytesTyped
  <2>4. Octets \subseteq Nat
    BY Constants DEF Octets
  <2> QED
    BY <2>3, <2>4, SeqWider
<1>4. [i \in 1..m |-> LeBytes(a[ps[i].from].val, ps[i].len)] \in Seq(Seq(Nat))
  BY <1>3, IsASeq
<1>5. DecodedBytes(align, a) = FlattenSeq([i \in 1..m |-> LeBytes(a[ps[i].from].val, ps[i].len)])
  BY <1>1, <1>2 DEF DecodedBytes
<1> QED
  BY <1>4, <1>5, FlattenTyped

------------------------------------------------------------------------------
(* The arms of `preprocess`.                                                 *)

\* k values, each of its type.
Yields(vals, k) == AllTyped(vals) /\ DOMAIN vals = 1..k

LEMMA YieldsOne ==
  ASSUME NEW v, NEW t, Is(v, t)
  PROVE  Yields(<<v>>, 1)
BY DEF Yields, AllTyped, Is

LEMMA YieldsFits ==
  ASSUME NEW vals, NEW tys, Fits(vals, tys), NEW k, DOMAIN tys = 1..k
  PROVE  Yields(vals, k)
BY DEF Yields, Fits, TypesOf

LEMMA YieldsNone == Yields(Nothing, 0)
BY DEF Yields, AllTyped, Nothing

LEMMA ArithmeticOff ==
  ASSUME NEW a, Typed(a[1]), Typed(a[2]), NEW vals \in AddOff(a) \cup MulOff(a)
  PROVE  Yields(vals, 1)
<1>1. CASE vals \in AddOff(a)
  <2>1. a[1].ty = a[2].ty /\ a[1].ty \in PrimeFields \cup Points /\ vals = <<AddCell(a)>>
    BY <1>1 DEF AddOff, Some, AddTypes, AddCell
  <2> QED
    BY <2>1, AddIs, YieldsOne
<1>2. CASE vals \in MulOff(a)
  <2>1. a[1].ty = a[2].ty /\ a[1].ty \in PrimeFields /\ vals = <<MulCell(a)>>
    BY <1>2 DEF MulOff, Some, MulCell
  <2> QED
    BY <2>1, MulIs, YieldsOne
<1> QED
  BY <1>1, <1>2

LEMMA NegOffIs ==
  ASSUME NEW a, NEW vals \in NegOff(a)
  PROVE  a[1].ty \in PrimeFields \cup Points \cup {Bool} /\ vals = <<NegCell(a)>>
<1>1. a[1].ty \in PrimeFields \cup Points \cup {Bool}
      /\ vals = <<V(a[1].ty, IF a[1].ty = Bool THEN 1 - a[1].val ELSE (-a[1].val) % Order(a[1].ty))>>
  BY DEF NegOff, Some
<1> QED
  BY <1>1 DEF NegCell

LEMMA OneOperandOff ==
  ASSUME NEW a, Typed(a[1]), NEW vals \in NegOff(a) \cup InvOff(a) \cup NotOff(a)
  PROVE  Yields(vals, 1)
<1>1. CASE vals \in NegOff(a)
  BY <1>1, NegOffIs, NegIs, YieldsOne
<1>2. CASE vals \in InvOff(a)
  <2>1. PICK x \in Inverses(a[1]) : a[1].ty \in PrimeFields /\ vals = <<V(a[1].ty, x)>>
    BY <1>2 DEF InvOff
  <2> QED
    BY <2>1, InverseIs, YieldsOne
<1>3. CASE vals \in NotOff(a)
  <2>1. a[1].val \in {0, 1} /\ vals = <<Fr(1 - a[1].val)>>
    BY <1>3 DEF NotOff, Some, IsBit
  <2> QED
    BY <2>1, NotIs, YieldsOne
<1> QED
  BY <1>1, <1>2, <1>3

LEMMA BitListOff ==
  ASSUME NEW n \in Nat, NEW a, DOMAIN a = 1..n, NEW vals \in AndOff(a) \cup OrOff(a) \cup XorOff(a)
  PROVE  Yields(vals, 1)
<1>1. PICK x \in {0, 1} : vals = <<V(Bool, x)>>
  <2>1. ToBit(\A i \in DOMAIN a : a[i].val = 1) \in {0, 1} /\ ToBit(\E i \in DOMAIN a : a[i].val = 1) \in {0, 1}
        /\ Parity(a) \in {0, 1}
    BY ParityIs DEF ToBit
  <2> QED
    BY <2>1 DEF AndOff, OrOff, XorOff, Some
<1> QED
  BY <1>1, IsBoolOf, YieldsOne

LEMMA CheckOff ==
  ASSUME NEW ins, NEW a,
         NEW vals \in ConstrainEqOff(a) \cup AssertOff(a) \cup ConstrainToBooleanOff(a) \cup ConstrainBitsOff(ins, a)
  PROVE  Yields(vals, 0)
<1>1. vals = Nothing
  BY DEF ConstrainEqOff, AssertOff, ConstrainToBooleanOff, ConstrainBitsOff, Some
<1> QED
  BY <1>1, YieldsNone

LEMMA CompareOff ==
  ASSUME NEW ins, NEW a, NEW vals \in TestEqOff(a) \cup LessThanOff(ins, a)
  PROVE  Yields(vals, 1)
<1>1. ToBit(a[1] = a[2]) \in 0..P - 1 /\ ToBit(a[1].val < a[2].val) \in 0..P - 1
  BY Constants DEF ToBit
<1>2. vals = <<Fr(ToBit(a[1] = a[2]))>> \/ vals = <<Fr(ToBit(a[1].val < a[2].val))>>
  BY DEF TestEqOff, LessThanOff, Some
<1> QED
  BY <1>1, <1>2, IsFrOf, YieldsOne

LEMMA SelectOff ==
  ASSUME NEW a, Typed(a[2]), Typed(a[3]), NEW vals \in CondSelectOff(a)
  PROVE  Yields(vals, 1)
<1>1. vals = <<a[2]>> \/ vals = <<a[3]>>
  BY DEF CondSelectOff, Some
<1>2. Is(a[2], a[2].ty) /\ Is(a[3], a[3].ty)
  BY DEF Is
<1> QED
  BY <1>1, <1>2, YieldsOne

LEMMA SplitOff ==
  ASSUME NEW ins, ins.n[1] \in Nat, NEW a, Typed(a[1]), NEW vals \in DivModPowerOfTwoOff(ins, a)
  PROVE  Yields(vals, 2) /\ Len(ins.outs) = 2
<1>1. /\ Len(ins.outs) = 2 /\ ins.n[1] <= SplitBits /\ a[1].ty = Native
      /\ vals = <<Fr(a[1].val \div 2^ins.n[1]), Fr(a[1].val % 2^ins.n[1])>>
  BY DEF DivModPowerOfTwoOff, Some, IsFr
<1>2. PICK m \in Nat : m = 2^ins.n[1] /\ m > 0
  BY <1>1, SplitPower
<1>3. a[1].val \in 0..P - 1
  BY <1>1, FrRange
<1>4. Is(Fr(a[1].val \div m), Native) /\ Is(Fr(a[1].val % m), Native)
  BY <1>2, <1>3, DivModIs
<1>5. Fits(vals, <<Native, Native>>)
  BY <1>1, <1>2, <1>4, FitsTwo
<1>6. DOMAIN <<Native, Native>> = 1..2
  OBVIOUS
<1> QED
  BY <1>1, <1>5, <1>6, YieldsFits

LEMMA JoinOff ==
  ASSUME NEW ins, ins.n[1] \in Nat, NEW a, Typed(a[1]), Typed(a[2]), NEW vals \in ReconstituteFieldOff(ins, a)
  PROVE  Yields(vals, 1)
<1>1. /\ ins.n[1] <= SplitBits /\ a[1].ty = Native /\ a[2].ty = Native
      /\ vals = <<Fr((2^ins.n[1] * a[1].val + a[2].val) % P)>>
  BY DEF ReconstituteFieldOff, Some, FitsBits, IsFr
<1>2. PICK m \in Nat : m = 2^ins.n[1]
  BY <1>1, SplitPower
<1>3. a[1].val \in Nat /\ a[2].val \in Nat
  BY <1>1, FrRange
<1>4. m * a[1].val + a[2].val \in Int
  BY <1>3
<1> QED
  BY <1>1, <1>2, <1>4, ReducedIs, YieldsOne

LEMMA FromNativesOff ==
  ASSUME GadgetsTyped, NEW n \in Nat, NEW a, DOMAIN a = 1..n, AllTyped(a),
         NEW vals \in TransientHashOff(a) \cup HashToCurveOff(a)
  PROVE  Yields(vals, 1)
<1>1. /\ \A i \in 1..n : a[i].ty = Native
      /\ vals = <<Fr(Poseidon(Payloads(a)))>> \/ vals = <<V(Point("Jubjub"), HashToPoint(Payloads(a)))>>
  BY DEF TransientHashOff, HashToCurveOff, Some, AllFr, IsFr
<1>2. Payloads(a) \in Seq(Immediates)
  BY <1>1, PayloadsTyped
<1> QED
  BY <1>1, <1>2, HashesAre, YieldsOne

LEMMA JubjubScalarOff ==
  ASSUME NEW a, Typed(a[1]), NEW vals \in JubjubScalarFromNativeOff(a)
  PROVE  Yields(vals, 1)
<1>1. a[1].ty = Native /\ vals = <<JubjubScalarCell(a)>>
  BY DEF JubjubScalarFromNativeOff, JubjubScalarCell, Some, IsFr
<1> QED
  BY <1>1, JubjubScalarIs, YieldsOne

LEMMA GroupOff ==
  ASSUME NEW a, Typed(a[1]),
         NEW vals, vals \in EcMulGeneratorOff(a) \/ (Typed(a[2]) /\ vals \in EcMulOff(a))
  PROVE  Yields(vals, 1)
<1>1. CASE vals \in EcMulGeneratorOff(a)
  <2>1. PICK c \in Curves : a[1].ty = Scalar(c) /\ vals = <<V(Point(c), a[1].val)>>
    BY <1>1 DEF EcMulGeneratorOff, Some
  <2> QED
    BY <2>1, EcMulGeneratorIs, YieldsOne
<1>2. CASE Typed(a[2]) /\ vals \in EcMulOff(a)
  <2>1. PICK c \in Curves : /\ a[1].ty = Point(c) /\ a[2].ty = Scalar(c)
                            /\ vals = <<V(Point(c), (a[1].val * a[2].val) % ScalarMod[c])>>
    BY <1>2 DEF EcMulOff, Some
  <2> QED
    BY <1>2, <2>1, EcMulIs, YieldsOne
<1> QED
  BY <1>1, <1>2

LEMMA IntoCoordinatesOffTyped ==
  ASSUME NEW a, Typed(a[1]), NEW vals \in IntoCoordinatesOff(a)
  PROVE  Yields(vals, 2)
<1>1. PICK c \in Curves : /\ a[1].ty = Point(c) /\ ~(c \in Weierstrass /\ a[1].val = 0)
                          /\ vals = Coordinates(c, a[1].val)
  BY DEF IntoCoordinatesOff, Some
<1>2. Fits(vals, <<Base(c), Base(c)>>)
  BY <1>1, CoordinatesAre
<1>3. DOMAIN <<Base(c), Base(c)>> = 1..2
  OBVIOUS
<1> QED
  BY <1>2, <1>3, YieldsFits

LEMMA FromCoordinatesOffTyped ==
  ASSUME NEW a, NEW vals \in FromCoordinatesOff(a)
  PROVE  Yields(vals, 1)
<1>1. PICK c \in Curves : \E k \in PointAt(c, a[1], a[2]) : vals = <<V(Point(c), k)>>
  BY DEF FromCoordinatesOff
<1>2. PICK k \in PointAt(c, a[1], a[2]) : vals = <<V(Point(c), k)>>
  BY <1>1
<1> QED
  BY <1>2, PointAtIs, YieldsOne

LEMMA ToBytesOffIs ==
  ASSUME NEW b, Typed(b[1]), NEW o \in ToBytesOff(b)
  PROVE  HasBytes(b[1].ty) /\ o = <<ToBytes(b[1])>> /\ Typed(ToBytes(b[1]))
         /\ ToBytes(b[1]).ty = BytesOf(b[1].ty)
<1>1. HasBytes(b[1].ty) /\ o = <<ToBytes(b[1])>>
  BY DEF ToBytesOff, Some
<1> QED
  BY <1>1, ToBytesTyped

LEMMA IntoBytes32OffIs ==
  ASSUME NEW b, Typed(b[1]), NEW o \in IntoBytes32Off(b)
  PROVE  /\ HasBytes(b[1].ty) /\ o[1] = ToBytes(b[1]) /\ o = <<ToBytes(b[1])>>
         /\ Typed(ToBytes(b[1])) /\ ToBytes(b[1]).ty = Bytes(FrBytes)
         /\ ToBytes(b[1]).val \in [1..FrBytes -> Octets]
<1>1. o \in ToBytesOff(b) /\ IsBytes32(o[1])
  BY DEF IntoBytes32Off
<1>2. HasBytes(b[1].ty) /\ o = <<ToBytes(b[1])>> /\ Typed(ToBytes(b[1])) /\ o[1] = ToBytes(b[1])
  BY <1>1, ToBytesOffIs
<1>3. ToBytes(b[1]).ty = Bytes(FrBytes)
  BY <1>1, <1>2 DEF IsBytes32
<1>4. Bytes(FrBytes) \in BytesTypes /\ Bytes(FrBytes)[2] = FrBytes
  BY Members, FrBytesIs, Tags
<1> QED
  BY <1>2, <1>3, <1>4, BytesRange

LEMMA ToBytesOffTyped ==
  ASSUME NEW a, Typed(a[1]), NEW vals \in ToBytesOff(a) \cup IntoBytes32Off(a)
  PROVE  Yields(vals, 1)
<1>1. vals = <<ToBytes(a[1])>> /\ Typed(ToBytes(a[1]))
  BY ToBytesOffIs, IntoBytes32OffIs
<1> QED
  BY <1>1, YieldsOne DEF Is

LEMMA FromBytesOffTyped ==
  ASSUME NEW ins, ins.ty \in IrType, NEW a, Typed(a[1]),
         NEW vals \in FromBytesOff(ins, a) \cup FromBytes32Off(ins, a)
  PROVE  Yields(vals, 1)
<1>1. vals \in FromBytesOff(ins, a)
  BY DEF FromBytes32Off
<1>2. PICK v \in DecodeBytes(ins.ty, a[1].val) : IsBytes(a[1]) /\ vals = <<v>>
  BY <1>1 DEF FromBytesOff
<1>3. PICK n \in 1..MAX_BYTES_LEN : a[1].val \in [1..n -> Octets]
  BY <1>2, IsBytesTyped, BytesRange
<1> QED
  BY <1>2, <1>3, DecodeBytesIs, YieldsOne

LEMMA ByteOpsOff ==
  ASSUME NEW ins, NEW a, Typed(a[1]),
         NEW vals, \/ vals \in ReverseOff(a)
                   \/ ins.n[1] \in Nat /\ ins.n[2] \in Nat /\ vals \in SliceOff(ins, a)
                   \/ ins.n[1] \in Nat /\ vals \in NthOff(ins, a)
  PROVE  Yields(vals, 1)
<1>1. CASE vals \in ReverseOff(a)
  <2>1. IsBytes(a[1]) /\ vals = <<BytesV(Reverse(a[1].val))>>
    BY <1>1 DEF ReverseOff, Some
  <2> QED
    BY <2>1, IsBytesTyped, ReverseIs, YieldsOne
<1>2. CASE ins.n[1] \in Nat /\ ins.n[2] \in Nat /\ vals \in SliceOff(ins, a)
  <2>1. PICK s \in Nat, l \in Nat : s = ins.n[1] /\ l = ins.n[2]
    BY <1>2
  <2>2. IsBytes(a[1]) /\ l # 0 /\ s + l <= Len(a[1].val) /\ vals = <<BytesV(SubSeq(a[1].val, s + 1, s + l))>>
    BY <1>2, <2>1 DEF SliceOff, Some
  <2> QED
    BY <2>2, IsBytesTyped, SliceIs, YieldsOne
<1>3. CASE ins.n[1] \in Nat /\ vals \in NthOff(ins, a)
  <2>1. IsBytes(a[1]) /\ ins.n[1] < Len(a[1].val) /\ vals = <<V(Byte, a[1].val[ins.n[1] + 1])>>
    BY <1>3 DEF NthOff, Some
  <2> QED
    BY <1>3, <2>1, IsBytesTyped, NthIs, YieldsOne
<1> QED
  BY <1>1, <1>2, <1>3

LEMMA ConcatOffTyped ==
  ASSUME NEW n \in Nat, NEW a, DOMAIN a = 1..n, AllTyped(a), NEW vals \in ConcatOff(a)
  PROVE  Yields(vals, 1)
<1> DEFINE bs == FlattenSeq([i \in DOMAIN a |-> ByteString(a[i])])
<1>1. /\ \A i \in DOMAIN a : a[i].ty = Byte \/ IsBytes(a[i])
      /\ Len(bs) \in 1..MAX_BYTES_LEN /\ vals = <<BytesV(bs)>>
  BY DEF ConcatOff, Some
<1>2. \A i \in 1..n : a[i].ty = Byte \/ a[i].ty \in BytesTypes
  BY <1>1, IsBytesTyped DEF AllTyped
<1>3. Is(BytesV(bs), Bytes(Len(bs)))
  BY <1>1, <1>2, ConcatIs
<1> HIDE DEF bs
<1> QED
  BY <1>1, <1>3, YieldsOne

LEMMA EncodeOffTyped ==
  ASSUME NEW ins, NEW a, Typed(a[1]), NEW vals \in EncodeOff(ins, a) \cup BytesIntoNativesOff(ins, a)
  PROVE  Yields(vals, Len(ins.outs))
<1>1. vals = FrSeq(Encode(a[1])) /\ Len(vals) = Len(ins.outs)
  BY DEF EncodeOff, BytesIntoNativesOff, Some
<1> QED
  BY <1>1, EncodesAre DEF Yields

LEMMA NativesToBytesOff ==
  ASSUME NEW ins, NEW n \in Nat, NEW a, DOMAIN a = 1..n, AllTyped(a), NEW vals \in BytesFromNativesOff(ins, a)
  PROVE  Yields(vals, 1)
<1>1. PICK v \in Decode(Payloads(a), Bytes(ins.n[1])) :
        /\ ins.n[1] \in 1..MAX_BYTES_LEN /\ \A i \in 1..n : a[i].ty = Native
        /\ vals = <<v>>
  BY DEF BytesFromNativesOff, LimbsMatch, AllFr, IsFr
<1>2. Payloads(a) \in Seq(Immediates)
  BY <1>1, PayloadsTyped
<1>3. Bytes(ins.n[1]) \in IrType
  BY <1>1, Members
<1>4. Typed(v)
  BY <1>2, <1>3, DecodeTyped
<1> QED
  BY <1>1, <1>4, YieldsOne DEF Is

LEMMA LowHighOff ==
  ASSUME NEW a, Typed(a[1]), NEW vals \in Bytes32IntoLowHighOff(a)
  PROVE  Yields(vals, 2)
<1>1. a[1].ty = Bytes(FrBytes) /\ vals = <<Fr(LeInt(Front(a[1].val)) % P), Fr(Last(a[1].val))>>
  BY DEF Bytes32IntoLowHighOff, Some, IsBytes32
<1>2. Fits(vals, <<Native, Native>>)
  BY <1>1, LowHighAre, FitsTwo
<1>3. DOMAIN <<Native, Native>> = 1..2
  OBVIOUS
<1> QED
  BY <1>2, <1>3, YieldsFits

LEMMA FromLowHighOff ==
  ASSUME NEW a, Typed(a[1]), Typed(a[2]), NEW vals \in Bytes32FromLowHighOff(a)
  PROVE  Yields(vals, 1)
<1>1. PICK lo \in IntoBytes32Off(<<a[1]>>), hi \in IntoBytes32Off(<<a[2]>>) :
        vals = <<BytesV(Append(Front(lo[1].val), hi[1].val[1]))>>
  BY DEF Bytes32FromLowHighOff, Some
<1>2. <<a[1]>>[1] = a[1] /\ <<a[2]>>[1] = a[2]
  OBVIOUS
<1>3. lo[1] = ToBytes(a[1]) /\ Typed(lo[1]) /\ lo[1].ty = Bytes(FrBytes)
  BY <1>2, IntoBytes32OffIs
<1>4. hi[1] = ToBytes(a[2]) /\ hi[1].val \in [1..FrBytes -> Octets]
  BY <1>2, IntoBytes32OffIs
<1>5. hi[1].val[1] \in Octets
  BY <1>4, FrBytesIs
<1> QED
  BY <1>1, <1>3, <1>5, FromLowHighIs, YieldsOne

LEMMA ByteHashOffTyped ==
  ASSUME GadgetsTyped, NEW ins, ins.op \in HashOps, ins.align \in Seq(Segment),
         NEW n \in Nat, NEW a, DOMAIN a = 1..n, AllTyped(a), NEW vals \in ByteHashOff(ins, a)
  PROVE  Yields(vals, 1)
<1>1. PICK bs \in parse_field_repr(ins.align, Payloads(a)) :
        (\A i \in 1..n : a[i].ty = Native) /\ vals = <<BytesV(Digest(ins.op, bs))>>
  BY DEF ByteHashOff, AllFr, IsFr
<1>2. Payloads(a) \in Seq(Immediates) /\ Immediates \subseteq Nat
  BY <1>1, PayloadsTyped, Constants DEF Immediates
<1>3. Payloads(a) \in Seq(Nat)
  BY <1>2, SeqWider
<1>4. bs \in Seq(Nat)
  BY <1>3, ParseTyped
<1> QED
  BY <1>1, <1>4, DigestIs, YieldsOne

LEMMA ConstantOff ==
  ASSUME NEW ins, ins.ty \in IrType, ins.enc \in Seq(Immediates), NEW vals \in LoadConstantOff(ins)
  PROVE  Yields(vals, 1)
<1>1. PICK v \in Decode(ins.enc, ins.ty) : vals = <<v>>
  BY DEF LoadConstantOff
<1> QED
  BY <1>1, DecodeTyped, YieldsOne DEF Is

\* The operands and the parameters an instruction of a given shape has.
LEMMA OperandsTyped ==
  ASSUME NEW ins, WellShaped(ins), NEW a, DOMAIN a = 1..Len(ins.args), AllTyped(a)
  PROVE  /\ ins.op \in UnaryOps => Typed(a[1])
         /\ ins.op \in BinaryOps => Typed(a[1]) /\ Typed(a[2])
         /\ ins.op = "CondSelect" => Typed(a[1]) /\ Typed(a[2]) /\ Typed(a[3])
<1>1. /\ ins.op \in UnaryOps => DOMAIN a = 1..1
      /\ ins.op \in BinaryOps => DOMAIN a = 1..2
      /\ ins.op = "CondSelect" => DOMAIN a = 1..3
  BY DEF WellShaped
<1> QED
  BY <1>1 DEF AllTyped

LEMMA ParametersTyped ==
  ASSUME NEW ins \in Instruction, WellShaped(ins)
  PROVE  /\ ins.op \in OneParameter => ins.n[1] \in Nat
         /\ ins.op = "Slice" => ins.n[1] \in Nat /\ ins.n[2] \in Nat
<1>1. ins.n \in Seq(Nat)
  BY DEF Instruction
<1>2. (ins.op \in OneParameter => Len(ins.n) = 1) /\ (ins.op = "Slice" => Len(ins.n) = 2)
  BY DEF WellShaped
<1> QED
  BY <1>1, <1>2

\* Every value that an instruction of `preprocess` computes from operands of
\* their types is of its type, and there are as many as it has names for.
LEMMA OffTyped ==
  ASSUME GadgetsTyped, NEW ins \in Instruction, WellShaped(ins), ins.op \in ValueOps,
         NEW a, DOMAIN a = 1..Len(ins.args), AllTyped(a), NEW vals \in OffGate(ins, a)
  PROVE  Yields(vals, Len(ins.outs))
<1>1. /\ Len(ins.args) \in Nat /\ ins.ty \in IrType /\ ins.enc \in Seq(Immediates)
      /\ ins.align \in Seq(Segment) /\ ins.outs \in Seq(Identifier) /\ ins.n \in Seq(Nat)
  BY DEF Instruction
<1>2. /\ ins.op \in UnaryOps => Typed(a[1])
      /\ ins.op \in BinaryOps => Typed(a[1]) /\ Typed(a[2])
      /\ ins.op = "CondSelect" => Typed(a[1]) /\ Typed(a[2]) /\ Typed(a[3])
  BY OperandsTyped
<1>3. /\ ins.op \in OneParameter => ins.n[1] \in Nat
      /\ ins.op = "Slice" => ins.n[1] \in Nat /\ ins.n[2] \in Nat
  BY ParametersTyped
<1>4. /\ ins.op \in NoOutput => Len(ins.outs) = 0
      /\ ins.op \in TwoOutputs => Len(ins.outs) = 2
      /\ ins.op \notin NoOutput \cup TwoOutputs \cup ManyOutputs => Len(ins.outs) = 1
  BY <1>1 DEF WellShaped
<1>11. CASE ins.op \in {"Add", "Mul"}
  <2>1. vals \in AddOff(a) \cup MulOff(a)
    BY <1>11 DEF OffGate, HashOps
  <2>2. Len(ins.outs) = 1
    BY <1>11, <1>4 DEF NoOutput, TwoOutputs, ManyOutputs
  <2>3. Typed(a[1]) /\ Typed(a[2])
    BY <1>11, <1>2 DEF UnaryOps, BinaryOps
  <2> QED
    BY <2>1, <2>2, <2>3, ArithmeticOff
<1>12. CASE ins.op \in {"Neg", "Inv", "Not"}
  <2>1. vals \in NegOff(a) \cup InvOff(a) \cup NotOff(a)
    BY <1>12 DEF OffGate, HashOps
  <2>2. Len(ins.outs) = 1
    BY <1>12, <1>4 DEF NoOutput, TwoOutputs, ManyOutputs
  <2>3. Typed(a[1])
    BY <1>12, <1>2 DEF UnaryOps, BinaryOps
  <2> QED
    BY <2>1, <2>2, <2>3, OneOperandOff
<1>13. CASE ins.op \in {"And", "Or", "Xor"}
  <2>1. vals \in AndOff(a) \cup OrOff(a) \cup XorOff(a)
    BY <1>13 DEF OffGate, HashOps
  <2>2. Len(ins.outs) = 1
    BY <1>13, <1>4 DEF NoOutput, TwoOutputs, ManyOutputs
  <2> QED
    BY <2>1, <2>2, <1>1, BitListOff
<1>14. CASE ins.op \in {"ConstrainEq", "Assert", "ConstrainToBoolean", "ConstrainBits"}
  <2>1. vals \in ConstrainEqOff(a) \cup AssertOff(a) \cup ConstrainToBooleanOff(a) \cup ConstrainBitsOff(ins, a)
    BY <1>14 DEF OffGate, HashOps
  <2>2. Len(ins.outs) = 0
    BY <1>14, <1>4 DEF NoOutput, TwoOutputs, ManyOutputs
  <2> QED
    BY <2>1, <2>2, CheckOff
<1>15. CASE ins.op \in {"TestEq", "LessThan"}
  <2>1. vals \in TestEqOff(a) \cup LessThanOff(ins, a)
    BY <1>15 DEF OffGate, HashOps
  <2>2. Len(ins.outs) = 1
    BY <1>15, <1>4 DEF NoOutput, TwoOutputs, ManyOutputs
  <2> QED
    BY <2>1, <2>2, CompareOff
<1>16. CASE ins.op \in {"CondSelect"}
  <2>1. vals \in CondSelectOff(a)
    BY <1>16 DEF OffGate, HashOps
  <2>2. Len(ins.outs) = 1
    BY <1>16, <1>4 DEF NoOutput, TwoOutputs, ManyOutputs
  <2>3. Typed(a[1]) /\ Typed(a[2]) /\ Typed(a[3])
    BY <1>16, <1>2 DEF UnaryOps, BinaryOps
  <2> QED
    BY <2>1, <2>2, <2>3, SelectOff
<1>17. CASE ins.op \in {"ReconstituteField"}
  <2>1. vals \in ReconstituteFieldOff(ins, a)
    BY <1>17 DEF OffGate, HashOps
  <2>2. Len(ins.outs) = 1
    BY <1>17, <1>4 DEF NoOutput, TwoOutputs, ManyOutputs
  <2>3. Typed(a[1]) /\ Typed(a[2])
    BY <1>17, <1>2 DEF UnaryOps, BinaryOps
  <2>4. ins.n[1] \in Nat
    BY <1>17, <1>3 DEF OneParameter
  <2> QED
    BY <2>1, <2>2, <2>3, <2>4, JoinOff
<1>18. CASE ins.op \in {"TransientHash", "HashToCurve"}
  <2>1. vals \in TransientHashOff(a) \cup HashToCurveOff(a)
    BY <1>18 DEF OffGate, HashOps
  <2>2. Len(ins.outs) = 1
    BY <1>18, <1>4 DEF NoOutput, TwoOutputs, ManyOutputs
  <2> QED
    BY <2>1, <2>2, <1>1, FromNativesOff
<1>19. CASE ins.op \in {"JubjubScalarFromNative"}
  <2>1. vals \in JubjubScalarFromNativeOff(a)
    BY <1>19 DEF OffGate, HashOps
  <2>2. Len(ins.outs) = 1
    BY <1>19, <1>4 DEF NoOutput, TwoOutputs, ManyOutputs
  <2>3. Typed(a[1])
    BY <1>19, <1>2 DEF UnaryOps, BinaryOps
  <2> QED
    BY <2>1, <2>2, <2>3, JubjubScalarOff
<1>20. CASE ins.op \in {"IntoCoordinates"}
  <2>1. vals \in IntoCoordinatesOff(a)
    BY <1>20 DEF OffGate, HashOps
  <2>2. Len(ins.outs) = 2
    BY <1>20, <1>4 DEF NoOutput, TwoOutputs, ManyOutputs
  <2>3. Typed(a[1])
    BY <1>20, <1>2 DEF UnaryOps, BinaryOps
  <2> QED
    BY <2>1, <2>2, <2>3, IntoCoordinatesOffTyped
<1>21. CASE ins.op \in {"FromCoordinates"}
  <2>1. vals \in FromCoordinatesOff(a)
    BY <1>21 DEF OffGate, HashOps
  <2>2. Len(ins.outs) = 1
    BY <1>21, <1>4 DEF NoOutput, TwoOutputs, ManyOutputs
  <2> QED
    BY <2>1, <2>2, FromCoordinatesOffTyped
<1>22. CASE ins.op \in {"ToBytes", "IntoBytes32"}
  <2>1. vals \in ToBytesOff(a) \cup IntoBytes32Off(a)
    BY <1>22 DEF OffGate, HashOps
  <2>2. Len(ins.outs) = 1
    BY <1>22, <1>4 DEF NoOutput, TwoOutputs, ManyOutputs
  <2>3. Typed(a[1])
    BY <1>22, <1>2 DEF UnaryOps, BinaryOps
  <2> QED
    BY <2>1, <2>2, <2>3, ToBytesOffTyped
<1>23. CASE ins.op \in {"FromBytes", "FromBytes32"}
  <2>1. vals \in FromBytesOff(ins, a) \cup FromBytes32Off(ins, a)
    BY <1>23 DEF OffGate, HashOps
  <2>2. Len(ins.outs) = 1
    BY <1>23, <1>4 DEF NoOutput, TwoOutputs, ManyOutputs
  <2>3. Typed(a[1])
    BY <1>23, <1>2 DEF UnaryOps, BinaryOps
  <2> QED
    BY <2>1, <2>2, <2>3, <1>1, FromBytesOffTyped
<1>24. CASE ins.op \in {"Concat"}
  <2>1. vals \in ConcatOff(a)
    BY <1>24 DEF OffGate, HashOps
  <2>2. Len(ins.outs) = 1
    BY <1>24, <1>4 DEF NoOutput, TwoOutputs, ManyOutputs
  <2> QED
    BY <2>1, <2>2, <1>1, ConcatOffTyped
<1>25. CASE ins.op \in {"BytesFromNatives"}
  <2>1. vals \in BytesFromNativesOff(ins, a)
    BY <1>25 DEF OffGate, HashOps
  <2>2. Len(ins.outs) = 1
    BY <1>25, <1>4 DEF NoOutput, TwoOutputs, ManyOutputs
  <2> QED
    BY <2>1, <2>2, <1>1, NativesToBytesOff
<1>26. CASE ins.op \in {"Bytes32IntoLowHigh"}
  <2>1. vals \in Bytes32IntoLowHighOff(a)
    BY <1>26 DEF OffGate, HashOps
  <2>2. Len(ins.outs) = 2
    BY <1>26, <1>4 DEF NoOutput, TwoOutputs, ManyOutputs
  <2>3. Typed(a[1])
    BY <1>26, <1>2 DEF UnaryOps, BinaryOps
  <2> QED
    BY <2>1, <2>2, <2>3, LowHighOff
<1>27. CASE ins.op \in {"Bytes32FromLowHigh"}
  <2>1. vals \in Bytes32FromLowHighOff(a)
    BY <1>27 DEF OffGate, HashOps
  <2>2. Len(ins.outs) = 1
    BY <1>27, <1>4 DEF NoOutput, TwoOutputs, ManyOutputs
  <2>3. Typed(a[1]) /\ Typed(a[2])
    BY <1>27, <1>2 DEF UnaryOps, BinaryOps
  <2> QED
    BY <2>1, <2>2, <2>3, FromLowHighOff
<1>28. CASE ins.op \in {"LoadConstant"}
  <2>1. vals \in LoadConstantOff(ins)
    BY <1>28 DEF OffGate, HashOps
  <2>2. Len(ins.outs) = 1
    BY <1>28, <1>4 DEF NoOutput, TwoOutputs, ManyOutputs
  <2> QED
    BY <2>1, <2>2, <1>1, ConstantOff
<1>31. CASE ins.op = "DivModPowerOfTwo"
  <2>1. vals \in DivModPowerOfTwoOff(ins, a)
    BY <1>31 DEF OffGate, HashOps
  <2>2. Typed(a[1]) /\ ins.n[1] \in Nat
    BY <1>31, <1>2, <1>3 DEF UnaryOps, OneParameter
  <2>3. Yields(vals, 2) /\ Len(ins.outs) = 2
    BY <2>1, <2>2, SplitOff
  <2> QED
    BY <2>3
<1>32. CASE ins.op \in {"Encode", "BytesIntoNatives"}
  <2>1. vals \in EncodeOff(ins, a) \cup BytesIntoNativesOff(ins, a)
    BY <1>32 DEF OffGate, HashOps
  <2>2. Typed(a[1])
    BY <1>32, <1>2 DEF UnaryOps
  <2> QED
    BY <2>1, <2>2, EncodeOffTyped
<1>33. CASE ins.op \in {"EcMul", "EcMulGenerator"}
  <2>1. vals \in IF ins.op = "EcMul" THEN EcMulOff(a) ELSE EcMulGeneratorOff(a)
    BY <1>33 DEF OffGate, HashOps
  <2>2. Typed(a[1]) /\ (ins.op = "EcMul" => Typed(a[2])) /\ Len(ins.outs) = 1
    BY <1>33, <1>2, <1>4 DEF UnaryOps, BinaryOps, NoOutput, TwoOutputs, ManyOutputs
  <2> QED
    BY <1>33, <2>1, <2>2, GroupOff
<1>34. CASE ins.op \in {"Reverse", "ReverseBytes", "Slice", "Nth"}
  <2>1. vals \in IF ins.op = "Slice" THEN SliceOff(ins, a)
                 ELSE IF ins.op = "Nth" THEN NthOff(ins, a) ELSE ReverseOff(a)
    BY <1>34 DEF OffGate, HashOps
  <2>2. Typed(a[1]) /\ Len(ins.outs) = 1
    BY <1>34, <1>2, <1>4 DEF UnaryOps, NoOutput, TwoOutputs, ManyOutputs
  <2> QED
    BY <1>34, <2>1, <2>2, <1>3, ByteOpsOff DEF OneParameter
<1>35. CASE ins.op = "Copy"
  <2>1. vals = a
    BY <1>35 DEF OffGate, HashOps, CopyOff
  <2>2. Len(ins.args) = 1 /\ Len(ins.outs) = 1
    BY <1>35, <1>4 DEF WellShaped, UnaryOps, NoOutput, TwoOutputs, ManyOutputs
  <2> QED
    BY <2>1, <2>2 DEF Yields
<1>36. CASE ins.op \in HashOps
  <2>1. vals \in ByteHashOff(ins, a)
    BY <1>36 DEF OffGate, HashOps
  <2>2. Len(ins.outs) = 1
    BY <1>36, <1>4 DEF HashOps, NoOutput, TwoOutputs, ManyOutputs
  <2> QED
    BY <1>1, <1>36, <2>1, <2>2, ByteHashOffTyped
<1> QED
  BY <1>11, <1>12, <1>13, <1>14, <1>15, <1>16, <1>17, <1>18, <1>19, <1>20, <1>21, <1>22, <1>23, <1>24, <1>25, <1>26, <1>27, <1>28, <1>31, <1>32, <1>33, <1>34, <1>35, <1>36 DEF ValueOps

------------------------------------------------------------------------------
(* The arms of `circuit`.                                                    *)

LEMMA TypesAre ==
  ASSUME NEW n \in Nat, NEW a, DOMAIN a = 1..n
  PROVE  /\ DOMAIN TypesOf(a) = 1..n /\ Len(TypesOf(a)) = n
         /\ \A i \in 1..n : TypesOf(a)[i] = a[i].ty
<1>1. TypesOf(a) = [i \in 1..n |-> a[i].ty]
  BY DEF TypesOf
<1> QED
  BY <1>1

\* T are the types of the operands, from which synthesis finds tys.
LEMMA ArithmeticOn ==
  ASSUME NEW a, NEW T, Typed(a[1]), Typed(a[2]), T[1] = a[1].ty, T[2] = a[2].ty, NEW tys
  PROVE  /\ tys \in AddShape(T) => Fits(<<AddCell(a)>>, tys)
         /\ tys \in MulShape(T) => Fits(<<MulCell(a)>>, tys)
<1>1. ASSUME tys \in AddShape(T) PROVE Fits(<<AddCell(a)>>, tys)
  <2>1. a[1].ty = a[2].ty /\ a[1].ty \in PrimeFields \cup Points /\ tys = <<a[1].ty>>
    BY <1>1 DEF AddShape, Some
  <2> QED
    BY <2>1, AddIs, FitsOne
<1>2. ASSUME tys \in MulShape(T) PROVE Fits(<<MulCell(a)>>, tys)
  <2>1. a[1].ty = a[2].ty /\ a[1].ty \in PrimeFields /\ tys = <<a[1].ty>>
    BY <1>2 DEF MulShape, Some
  <2> QED
    BY <2>1, MulIs, FitsOne
<1> QED
  BY <1>1, <1>2

LEMMA InvCellIs ==
  ASSUME NEW a, Typed(a[1]), a[1].ty \in PrimeFields, a[1].val # 0
  PROVE  Is(InvCell(a), a[1].ty)
<1>1. (CHOOSE x \in Inverses(a[1]) : TRUE) \in Inverses(a[1])
  BY InverseExists
<1> QED
  BY <1>1, InverseIs DEF InvCell

LEMMA OneOperandOn ==
  ASSUME NEW a, NEW T, Typed(a[1]), T[1] = a[1].ty, NEW tys
  PROVE  /\ tys \in NegShape(T) => Fits(<<NegCell(a)>>, tys)
         /\ tys \in InvShape(T) /\ a[1].val # 0 => Fits(<<InvCell(a)>>, tys)
         /\ tys \in NotShape(T) /\ BitHolds(a[1]) => Fits(<<Fr(1 - a[1].val)>>, tys)
         /\ tys \in JubjubScalarShape(T) => Fits(<<JubjubScalarCell(a)>>, tys)
<1>1. ASSUME tys \in NegShape(T) PROVE Fits(<<NegCell(a)>>, tys)
  BY <1>1, NegIs, FitsOne DEF NegShape, Some
<1>2. ASSUME tys \in InvShape(T), a[1].val # 0 PROVE Fits(<<InvCell(a)>>, tys)
  BY <1>2, InvCellIs, FitsOne DEF InvShape, Some
<1>3. ASSUME tys \in NotShape(T), BitHolds(a[1]) PROVE Fits(<<Fr(1 - a[1].val)>>, tys)
  BY <1>3, NotIs, FitsOne DEF NotShape, Some, BitHolds
<1>4. ASSUME tys \in JubjubScalarShape(T) PROVE Fits(<<JubjubScalarCell(a)>>, tys)
  BY <1>4, JubjubScalarIs, FitsOne DEF JubjubScalarShape, Some
<1> QED
  BY <1>1, <1>2, <1>3, <1>4

LEMMA BitListOn ==
  ASSUME NEW ins, ins.op \in {"And", "Or", "Xor"}, NEW n \in Nat, NEW a, DOMAIN a = 1..n,
         NEW T, NEW tys \in BitListShape(T)
  PROVE  Fits(<<BitListCell(ins, a)>>, tys)
<1>1. tys = <<Bool>>
  BY DEF BitListShape, Some
<1> QED
  BY <1>1, BitListIs, FitsOne

LEMMA CheckOn ==
  ASSUME NEW T, NEW tys \in ConstrainEqShape(T) \cup CheckShape(T)
  PROVE  Fits(<<>>, tys)
<1>1. tys = <<>>
  BY DEF ConstrainEqShape, CheckShape, Some, Nothing
<1> QED
  BY <1>1, FitsNone

LEMMA CompareOn ==
  ASSUME NEW a, NEW T, NEW tys
  PROVE  /\ tys \in TestEqShape(T) => Fits(<<EqualCell(a)>>, tys)
         /\ tys \in LessThanShape(T) => Fits(<<LessThanCell(a)>>, tys)
<1>1. \A b \in BOOLEAN : ToBit(b) \in 0..P - 1
  BY Constants DEF ToBit
<1>2. Is(EqualCell(a), Native)
  <2>1. PICK b \in BOOLEAN : EqualCell(a) = Fr(ToBit(b))
    BY DEF EqualCell
  <2> QED
    BY <1>1, <2>1, IsFrOf
<1>3. Is(LessThanCell(a), Native)
  <2>1. LessThanCell(a) = Fr(0) \/ LessThanCell(a) = Fr(1)
    BY DEF LessThanCell, ToBit
  <2>2. {0, 1} \subseteq 0..P - 1
    BY Constants
  <2> QED
    BY <2>1, <2>2, IsFrOf
<1> QED
  BY <1>2, <1>3, FitsOne DEF TestEqShape, LessThanShape, Some

LEMMA SelectOn ==
  ASSUME NEW a, NEW T, Typed(a[2]), Typed(a[3]), T[2] = a[2].ty, T[3] = a[3].ty,
         NEW tys \in CondSelectShape(T)
  PROVE  Fits(<<SelectCell(a)>>, tys)
<1>1. T[2] = T[3] /\ tys = <<T[2]>>
  BY DEF CondSelectShape, Some
<1>2. Is(SelectCell(a), T[2])
  BY <1>1 DEF SelectCell, Is
<1> QED
  BY <1>1, <1>2, FitsOne

LEMMA SplitOn ==
  ASSUME NEW ins, ins.n[1] \in Nat, NEW a, NEW T, Typed(a[1]), T[1] = a[1].ty,
         NEW tys \in DivModShape(ins, T)
  PROVE  Fits(DivModCells(ins, a), tys)
<1>1. ins.n[1] <= FR_BITS /\ a[1].ty = Native /\ tys = <<Native, Native>>
  BY DEF DivModShape, Some
<1>2. PICK m \in Nat : m = 2^ins.n[1] /\ m > 0
  BY <1>1, SplitPower
<1>3. a[1].val \in 0..P - 1
  BY <1>1, FrRange
<1>4. Is(Fr(a[1].val \div m), Native) /\ Is(Fr(a[1].val % m), Native)
  BY <1>2, <1>3, DivModIs
<1>5. DivModCells(ins, a) = <<Fr(a[1].val \div m), Fr(a[1].val % m)>>
  BY <1>2 DEF DivModCells
<1> QED
  BY <1>1, <1>4, <1>5, FitsTwo

LEMMA JoinOn ==
  ASSUME NEW ins, ins.n[1] \in Nat, NEW a, Typed(a[1]), Typed(a[2]), NEW T,
         T[1] = a[1].ty, T[2] = a[2].ty, DOMAIN T = 1..2, NEW tys \in ReconstituteShape(ins, T)
  PROVE  Fits(<<Fr(ReconstituteResult(ins, a))>>, tys)
<1>1. ins.n[1] <= FR_BITS /\ a[1].ty = Native /\ a[2].ty = Native /\ tys = <<Native>>
  BY DEF ReconstituteShape, Some, AllOf
<1>2. PICK m \in Nat : m = 2^ins.n[1]
  BY <1>1, SplitPower
<1>3. a[1].val \in Nat /\ a[2].val \in Nat
  BY <1>1, FrRange
<1>4. m * a[1].val + a[2].val \in Int
  BY <1>3
<1>5. ReconstituteResult(ins, a) = (m * a[1].val + a[2].val) % P
  BY <1>2 DEF ReconstituteResult
<1> QED
  BY <1>1, <1>4, <1>5, ReducedIs, FitsOne

LEMMA FromNativesOn ==
  ASSUME GadgetsTyped, NEW n \in Nat, NEW a, DOMAIN a = 1..n, AllTyped(a),
         NEW T, DOMAIN T = 1..n, \A i \in 1..n : T[i] = a[i].ty, NEW tys
  PROVE  /\ tys \in TransientHashShape(T) => Fits(<<Fr(Poseidon(Payloads(a)))>>, tys)
         /\ tys \in HashToCurveShape(T) =>
              Fits(<<V(Point("Jubjub"), HashToPoint(Payloads(a)))>>, tys)
<1> SUFFICES ASSUME tys \in TransientHashShape(T) \cup HashToCurveShape(T)
             PROVE  /\ tys \in TransientHashShape(T) => Fits(<<Fr(Poseidon(Payloads(a)))>>, tys)
                    /\ tys \in HashToCurveShape(T) =>
                         Fits(<<V(Point("Jubjub"), HashToPoint(Payloads(a)))>>, tys)
  OBVIOUS
<1>1. \A i \in 1..n : a[i].ty = Native
  BY DEF TransientHashShape, HashToCurveShape, Some, AllOf
<1>2. Payloads(a) \in Seq(Immediates)
  BY <1>1, PayloadsTyped
<1>3. Is(Fr(Poseidon(Payloads(a))), Native)
      /\ Is(V(Point("Jubjub"), HashToPoint(Payloads(a))), Point("Jubjub"))
  BY <1>2, HashesAre
<1> QED
  BY <1>3, FitsOne DEF TransientHashShape, HashToCurveShape, Some

LEMMA GroupOn ==
  ASSUME NEW a, NEW T, Typed(a[1]), T[1] = a[1].ty, NEW tys
  PROVE  /\ tys \in EcMulGeneratorShape(T) => Fits(<<V(Point(a[1].ty[2]), a[1].val)>>, tys)
         /\ Typed(a[2]) /\ T[2] = a[2].ty /\ tys \in EcMulShape(T) =>
              Fits(<<V(a[1].ty, (a[1].val * a[2].val) % Order(a[1].ty))>>, tys)
<1>1. ASSUME tys \in EcMulGeneratorShape(T)
      PROVE  Fits(<<V(Point(a[1].ty[2]), a[1].val)>>, tys)
  <2>1. PICK c \in Curves : a[1].ty = Scalar(c) /\ tys = <<Point(c)>>
    BY <1>1 DEF EcMulGeneratorShape, Some
  <2>2. a[1].ty[2] = c
    BY <2>1, Tags
  <2> QED
    BY <2>1, <2>2, EcMulGeneratorIs, FitsOne
<1>2. ASSUME Typed(a[2]), T[2] = a[2].ty, tys \in EcMulShape(T)
      PROVE  Fits(<<V(a[1].ty, (a[1].val * a[2].val) % Order(a[1].ty))>>, tys)
  <2>1. PICK c \in Curves : T = <<Point(c), Scalar(c)>> /\ tys = <<Point(c)>>
    BY <1>2 DEF EcMulShape, Some
  <2>2. a[1].ty = Point(c) /\ a[2].ty = Scalar(c) /\ Order(a[1].ty) = ScalarMod[c]
    BY <1>2, <2>1, Orders
  <2> QED
    BY <1>2, <2>1, <2>2, EcMulIs, FitsOne
<1> QED
  BY <1>1, <1>2

LEMMA IntoCoordinatesOn ==
  ASSUME NEW a, NEW T, Typed(a[1]), T[1] = a[1].ty, IntoCoordinatesHolds(a),
         NEW tys \in IntoCoordinatesShape(T)
  PROVE  Fits(Coordinates(a[1].ty[2], a[1].val), tys)
<1>1. PICK c \in Curves : a[1].ty = Point(c) /\ tys = <<Base(c), Base(c)>>
  BY DEF IntoCoordinatesShape, Some
<1>2. a[1].ty[2] = c
  BY <1>1, Tags
<1> QED
  BY <1>1, <1>2, CoordinatesAre DEF IntoCoordinatesHolds

LEMMA FromCoordinatesOn ==
  ASSUME NEW a, NEW T, T[1] = a[1].ty, T[2] = a[2].ty, FromCoordinatesHolds(a),
         NEW tys \in FromCoordinatesShape(T)
  PROVE  Fits(<<FromCoordinatesCell(a)>>, tys)
<1>1. PICK c \in Curves : T = <<Base(c), Base(c)>> /\ tys = <<Point(c)>>
  BY DEF FromCoordinatesShape, Some
<1>2. CurveWithBase(a[1].ty) = c
  BY <1>1, CurveWithBaseIs
<1>3. PointAt(c, a[1], a[2]) # {}
  BY <1>2 DEF FromCoordinatesHolds
<1>4. PICK k \in PointAt(c, a[1], a[2]) : FromCoordinatesCell(a) = V(Point(c), k)
  BY <1>2, <1>3 DEF FromCoordinatesCell
<1> QED
  BY <1>1, <1>4, PointAtIs, FitsOne

LEMMA ToBytesOn ==
  ASSUME NEW a, NEW T, Typed(a[1]), T[1] = a[1].ty, NEW tys \in ToBytesShape(T) \cup IntoBytes32Shape(T)
  PROVE  Fits(<<ToBytes(a[1])>>, tys)
<1>1. HasBytes(a[1].ty) /\ tys = <<BytesOf(a[1].ty)>>
  BY DEF ToBytesShape, IntoBytes32Shape, Some
<1> QED
  BY <1>1, ToBytesIs, FitsOne

LEMMA BytesTypeIs ==
  ASSUME NEW t \in IrType
  PROVE  IsBytesType(t) <=> t \in BytesTypes
BY BytesTagged DEF IsBytesType

LEMMA FromBytesOn ==
  ASSUME NEW ins, ins.ty \in IrType, NEW a, NEW T, Typed(a[1]), T[1] = a[1].ty,
         NEW tys \in FromBytesShape(ins, T) \cup FromBytes32Shape(ins, T)
  PROVE  Fits(<<FromBytesCell(ins, a)>>, tys)
<1>1. tys \in FromBytesShape(ins, T)
  BY DEF FromBytes32Shape
<1>2. /\ IsBytesType(a[1].ty) /\ (ins.ty \in PrimeFields \/ IsPoint(ins.ty))
      /\ tys = <<ins.ty>>
  BY <1>1 DEF FromBytesShape, Some
<1>3. a[1].ty \in BytesTypes
  BY <1>2, BytesTypeIs DEF Typed
<1> QED
  BY <1>2, <1>3, FromBytesIs, FitsOne

LEMMA ByteOpsOn ==
  ASSUME NEW ins, NEW a, NEW T, Typed(a[1]), T[1] = a[1].ty, NEW tys
  PROVE  /\ tys \in ReverseShape(T) => Fits(<<BytesV(Reverse(a[1].val))>>, tys)
         /\ ins.n[1] \in Nat /\ ins.n[2] \in Nat /\ tys \in SliceShape(ins, T) =>
              Fits(<<BytesV(SubSeq(a[1].val, ins.n[1] + 1, ins.n[1] + ins.n[2]))>>, tys)
         /\ ins.n[1] \in Nat /\ tys \in NthShape(ins, T) =>
              Fits(<<V(Byte, a[1].val[ins.n[1] + 1])>>, tys)
<1>1. IsBytesType(a[1].ty) <=> a[1].ty \in BytesTypes
  BY BytesTypeIs DEF Typed
<1>2. a[1].ty \in BytesTypes => Len(a[1].val) = a[1].ty[2]
  BY BytesRange
<1>3. ASSUME tys \in ReverseShape(T)
      PROVE  Fits(<<BytesV(Reverse(a[1].val))>>, tys)
  <2>1. a[1].ty \in BytesTypes /\ tys = <<a[1].ty>>
    BY <1>1, <1>3 DEF ReverseShape, Some
  <2> QED
    BY <2>1, ReverseIs, FitsOne
<1>4. ASSUME NEW s \in Nat, NEW l \in Nat, s = ins.n[1], l = ins.n[2], tys \in SliceShape(ins, T)
      PROVE  Fits(<<BytesV(SubSeq(a[1].val, s + 1, s + l))>>, tys)
  <2>1. /\ a[1].ty \in BytesTypes /\ l \in Nat \ {0} /\ s + l <= Len(a[1].val)
        /\ tys = <<Bytes(l)>>
    BY <1>1, <1>2, <1>4 DEF SliceShape, Some
  <2> QED
    BY <2>1, SliceIs, FitsOne
<1>5. ASSUME NEW s \in Nat, s = ins.n[1], tys \in NthShape(ins, T)
      PROVE  Fits(<<V(Byte, a[1].val[s + 1])>>, tys)
  <2>1. a[1].ty \in BytesTypes /\ s < Len(a[1].val) /\ tys = <<Byte>>
    BY <1>1, <1>2, <1>5 DEF NthShape, Some
  <2> QED
    BY <2>1, NthIs, FitsOne
<1> QED
  BY <1>3, <1>4, <1>5

LEMMA ConcatOn ==
  ASSUME NEW n \in Nat, NEW a, DOMAIN a = 1..n, AllTyped(a), NEW tys \in ConcatShape(TypesOf(a))
  PROVE  Fits(<<BytesV(FlattenSeq([i \in DOMAIN a |-> ByteString(a[i])]))>>, tys)
<1> DEFINE T == TypesOf(a)
           bs == FlattenSeq([i \in DOMAIN a |-> ByteString(a[i])])
           m == Total([i \in DOMAIN T |-> ByteCount(T[i])])
<1>1. /\ \A i \in DOMAIN T : T[i] = Byte \/ IsBytesType(T[i])
      /\ m \in 1..MAX_BYTES_LEN /\ tys = <<Bytes(m)>>
  BY DEF ConcatShape, Some
<1>2. \A i \in 1..n : a[i].ty = Byte \/ a[i].ty \in BytesTypes
  BY <1>1, TypesAre, BytesTypeIs DEF AllTyped, Typed
<1>3. Len(bs) = m /\ (m \in 1..MAX_BYTES_LEN => Is(BytesV(bs), Bytes(m)))
  BY <1>2, ConcatIs
<1> HIDE DEF bs, m
<1>4. Fits(<<BytesV(bs)>>, tys)
  BY <1>1, <1>3, FitsOne
<1> QED
  BY <1>4 DEF bs

LEMMA EncodeOn ==
  ASSUME NEW ins, NEW a, NEW T, Typed(a[1]), T[1] = a[1].ty,
         NEW tys \in EncodeShape(ins, T) \cup BytesIntoNativesShape(ins, T)
  PROVE  Fits(FrSeq(Encode(a[1])), tys)
<1>1. tys = [i \in 1..encoded_len(a[1].ty) |-> Native]
  BY DEF EncodeShape, BytesIntoNativesShape, Some
<1> QED
  BY <1>1, EncodesAre

LEMMA NativesToBytesOn ==
  ASSUME NEW ins, NEW n \in Nat, NEW a, DOMAIN a = 1..n, AllTyped(a),
         NEW tys \in BytesFromNativesShape(ins, TypesOf(a))
  PROVE  Fits(<<BytesFromNativesCell(ins, a)>>, tys)
<1>1. /\ LimbsMatch(ins.n[1], n) /\ \A i \in 1..n : a[i].ty = Native
      /\ tys = <<Bytes(ins.n[1])>>
  BY TypesAre DEF BytesFromNativesShape, Some, AllOf
<1> QED
  BY <1>1, BytesFromNativesIs, FitsOne

LEMMA LowHighOn ==
  ASSUME NEW a, NEW T, Typed(a[1]), T[1] = a[1].ty, NEW tys
  PROVE  /\ tys \in LowHighShape(T) => Fits(LowHighCells(a), tys)
         /\ Typed(a[2]) /\ T[2] = a[2].ty /\ FromLowHighHolds(a) /\ tys \in FromLowHighShape(T) =>
              Fits(<<FromLowHighCell(a)>>, tys)
<1>1. ASSUME tys \in LowHighShape(T) PROVE Fits(LowHighCells(a), tys)
  <2>1. a[1].ty = Bytes(FrBytes) /\ tys = <<Native, Native>>
    BY <1>1 DEF LowHighShape, Some
  <2> QED
    BY <2>1, LowHighAre, FitsTwo DEF LowHighCells
<1>2. ASSUME Typed(a[2]), T[2] = a[2].ty, FromLowHighHolds(a), tys \in FromLowHighShape(T)
      PROVE  Fits(<<FromLowHighCell(a)>>, tys)
  <2>1. a[2].ty = Native /\ IntoBytes32Shape(T) # {} /\ tys = <<Bytes(FrBytes)>>
    BY <1>2 DEF FromLowHighShape, Some
  <2>2. HasBytes(a[1].ty) /\ BytesOf(a[1].ty) = Bytes(FrBytes)
    BY <2>1 DEF IntoBytes32Shape, ToBytesShape, Some
  <2>3. Typed(ToBytes(a[1])) /\ ToBytes(a[1]).ty = Bytes(FrBytes)
    BY <2>2, ToBytesIs DEF Is
  <2>4. a[2].val \in Nat /\ a[2].val < ByteBase
    BY <1>2, <2>1, FrRange DEF FromLowHighHolds
  <2>5. a[2].val \in Octets
    BY <2>4, Constants DEF Octets
  <2>6. Is(BytesV(Append(Front(ToBytes(a[1]).val), a[2].val)), Bytes(FrBytes))
    BY <2>3, <2>5, FromLowHighIs
  <2> QED
    BY <2>1, <2>6, FitsOne DEF FromLowHighCell
<1> QED
  BY <1>1, <1>2

LEMMA ByteHashOn ==
  ASSUME GadgetsTyped, NEW ins, ins.op \in HashOps, ins.align \in Seq(Segment),
         NEW n \in Nat, NEW a, DOMAIN a = 1..n, AllTyped(a), NEW tys \in ByteHashShape(ins, TypesOf(a))
  PROVE  Fits(<<BytesV(Digest(ins.op, DecodedBytes(ins.align, a)))>>, tys)
<1>1. /\ \A i \in 1..n : a[i].ty = Native
      /\ \A k \in DOMAIN ins.align : Decodable(ins.align[k])
      /\ AlignedWidth(ins.align) <= n
      /\ tys = <<Bytes(DigestLen(ins.op))>>
  BY TypesAre DEF ByteHashShape, Some, AllOf
<1>2. \A i \in 1..n : a[i].val \in Nat
  BY <1>1, FrRange DEF AllTyped
<1>3. AlignedWidth(ins.align) \in Nat
  BY AlignedWidthNat
<1>4. DecodedBytes(ins.align, a) \in Seq(Nat)
  BY <1>1, <1>2, <1>3, DecodedBytesTyped
<1> QED
  BY <1>1, <1>4, DigestIs, FitsOne

LEMMA ConstantOn ==
  ASSUME NEW ins, ins.ty \in IrType, ins.enc \in Seq(Immediates), NEW tys \in LoadConstantShape(ins)
  PROVE  Fits(<<CHOOSE v \in Decode(ins.enc, ins.ty) : TRUE>>, tys)
<1>1. PICK v \in Decode(ins.enc, ins.ty) : tys = <<v.ty>>
  BY DEF LoadConstantShape
<1>2. PICK w \in Decode(ins.enc, ins.ty) : w = CHOOSE u \in Decode(ins.enc, ins.ty) : TRUE
  BY <1>1
<1>3. Is(w, ins.ty) /\ v.ty = ins.ty
  BY DecodeTyped DEF Is
<1> QED
  BY <1>1, <1>2, <1>3, FitsOne

\* Where the constraints of an instruction hold on operands of their types, the
\* new cells have the types synthesis gives them.
LEMMA OnTyped ==
  ASSUME GadgetsTyped, NEW ins \in Instruction, WellShaped(ins), ins.op \in ValueOps,
         NEW a, DOMAIN a = 1..Len(ins.args), AllTyped(a),
         NEW tys \in Shape(ins, TypesOf(a)), Holds(ins, a)
  PROVE  Fits(Cells(ins, a), tys)
<1> DEFINE T == TypesOf(a)
<1>1. /\ Len(ins.args) \in Nat /\ ins.ty \in IrType /\ ins.enc \in Seq(Immediates)
      /\ ins.align \in Seq(Segment) /\ ins.n \in Seq(Nat)
  BY DEF Instruction
<1>2. /\ ins.op \in UnaryOps => Typed(a[1])
      /\ ins.op \in BinaryOps => Typed(a[1]) /\ Typed(a[2])
      /\ ins.op = "CondSelect" => Typed(a[1]) /\ Typed(a[2]) /\ Typed(a[3])
  BY OperandsTyped
<1>3. /\ ins.op \in OneParameter => ins.n[1] \in Nat
      /\ ins.op = "Slice" => ins.n[1] \in Nat /\ ins.n[2] \in Nat
  BY ParametersTyped
<1>4. /\ ins.op \in UnaryOps => T[1] = a[1].ty
      /\ ins.op \in BinaryOps => T[1] = a[1].ty /\ T[2] = a[2].ty /\ DOMAIN T = 1..2
      /\ ins.op = "CondSelect" => T[2] = a[2].ty /\ T[3] = a[3].ty
  <2>1. /\ ins.op \in UnaryOps => Len(ins.args) = 1
        /\ ins.op \in BinaryOps => Len(ins.args) = 2
        /\ ins.op = "CondSelect" => Len(ins.args) = 3
    BY DEF WellShaped
  <2> QED
    BY <1>1, <2>1, TypesAre
<1>5. DOMAIN T = 1..Len(ins.args) /\ \A i \in 1..Len(ins.args) : T[i] = a[i].ty
  BY <1>1, TypesAre
<1>6. tys \in Shape(ins, T) /\ TypesOf(a) = T
  OBVIOUS
<1> HIDE DEF T
<1>11. CASE ins.op = "Add"
  <2>1. /\ tys \in AddShape(T)
        /\ Cells(ins, a) = <<AddCell(a)>>
    BY <1>11, <1>6 DEF Shape, Cells, HashOps
  <2>2. Typed(a[1]) /\ Typed(a[2]) /\ T[1] = a[1].ty /\ T[2] = a[2].ty
    BY <1>11, <1>2, <1>3, <1>4 DEF UnaryOps, BinaryOps, OneParameter
  <2> QED
    BY <2>1, <2>2, ArithmeticOn
<1>12. CASE ins.op = "Mul"
  <2>1. /\ tys \in MulShape(T)
        /\ Cells(ins, a) = <<MulCell(a)>>
    BY <1>12, <1>6 DEF Shape, Cells, HashOps
  <2>2. Typed(a[1]) /\ Typed(a[2]) /\ T[1] = a[1].ty /\ T[2] = a[2].ty
    BY <1>12, <1>2, <1>3, <1>4 DEF UnaryOps, BinaryOps, OneParameter
  <2> QED
    BY <2>1, <2>2, ArithmeticOn
<1>13. CASE ins.op = "Neg"
  <2>1. /\ tys \in NegShape(T)
        /\ Cells(ins, a) = <<NegCell(a)>>
    BY <1>13, <1>6 DEF Shape, Cells, HashOps
  <2>2. Typed(a[1]) /\ T[1] = a[1].ty
    BY <1>13, <1>2, <1>3, <1>4 DEF UnaryOps, BinaryOps, OneParameter
  <2> QED
    BY <2>1, <2>2, OneOperandOn
<1>14. CASE ins.op = "Inv"
  <2>1. /\ tys \in InvShape(T)
        /\ a[1].val # 0
        /\ Cells(ins, a) = <<InvCell(a)>>
    BY <1>14, <1>6 DEF Shape, Cells, HashOps, Holds
  <2>2. Typed(a[1]) /\ T[1] = a[1].ty
    BY <1>14, <1>2, <1>3, <1>4 DEF UnaryOps, BinaryOps, OneParameter
  <2> QED
    BY <2>1, <2>2, OneOperandOn
<1>15. CASE ins.op = "Not"
  <2>1. /\ tys \in NotShape(T)
        /\ BitHolds(a[1])
        /\ Cells(ins, a) = <<Fr(1 - a[1].val)>>
    BY <1>15, <1>6 DEF Shape, Cells, HashOps, Holds
  <2>2. Typed(a[1]) /\ T[1] = a[1].ty
    BY <1>15, <1>2, <1>3, <1>4 DEF UnaryOps, BinaryOps, OneParameter
  <2> QED
    BY <2>1, <2>2, OneOperandOn
<1>16. CASE ins.op = "JubjubScalarFromNative"
  <2>1. /\ tys \in JubjubScalarShape(T)
        /\ Cells(ins, a) = <<JubjubScalarCell(a)>>
    BY <1>16, <1>6 DEF Shape, Cells, HashOps
  <2>2. Typed(a[1]) /\ T[1] = a[1].ty
    BY <1>16, <1>2, <1>3, <1>4 DEF UnaryOps, BinaryOps, OneParameter
  <2> QED
    BY <2>1, <2>2, OneOperandOn
<1>17. CASE ins.op \in {"And", "Or", "Xor"}
  <2>1. /\ tys \in BitListShape(T)
        /\ Cells(ins, a) = <<BitListCell(ins, a)>>
    BY <1>17, <1>6 DEF Shape, Cells, HashOps
  <2> QED
    BY <2>1, <1>1, <1>17, BitListOn
<1>18. CASE ins.op = "ConstrainEq"
  <2>1. /\ tys \in ConstrainEqShape(T)
        /\ Cells(ins, a) = <<>>
    BY <1>18, <1>6 DEF Shape, Cells, HashOps
  <2> QED
    BY <2>1, CheckOn
<1>19. CASE ins.op \in {"Assert", "ConstrainBits", "ConstrainToBoolean"}
  <2>1. /\ tys \in CheckShape(T)
        /\ Cells(ins, a) = <<>>
    BY <1>19, <1>6 DEF Shape, Cells, HashOps
  <2> QED
    BY <2>1, CheckOn
<1>20. CASE ins.op = "TestEq"
  <2>1. /\ tys \in TestEqShape(T)
        /\ Cells(ins, a) = <<EqualCell(a)>>
    BY <1>20, <1>6 DEF Shape, Cells, HashOps
  <2> QED
    BY <2>1, CompareOn
<1>21. CASE ins.op = "LessThan"
  <2>1. /\ tys \in LessThanShape(T)
        /\ Cells(ins, a) = <<LessThanCell(a)>>
    BY <1>21, <1>6 DEF Shape, Cells, HashOps
  <2> QED
    BY <2>1, CompareOn
<1>22. CASE ins.op = "CondSelect"
  <2>1. /\ tys \in CondSelectShape(T)
        /\ Cells(ins, a) = <<SelectCell(a)>>
    BY <1>22, <1>6 DEF Shape, Cells, HashOps
  <2>2. Typed(a[1]) /\ Typed(a[2]) /\ Typed(a[3]) /\ T[2] = a[2].ty /\ T[3] = a[3].ty
    BY <1>22, <1>2, <1>3, <1>4 DEF UnaryOps, BinaryOps, OneParameter
  <2> QED
    BY <2>1, <2>2, SelectOn
<1>23. CASE ins.op = "DivModPowerOfTwo"
  <2>1. /\ tys \in DivModShape(ins, T)
        /\ Cells(ins, a) = DivModCells(ins, a)
    BY <1>23, <1>6 DEF Shape, Cells, HashOps
  <2>2. Typed(a[1]) /\ T[1] = a[1].ty /\ ins.n[1] \in Nat
    BY <1>23, <1>2, <1>3, <1>4 DEF UnaryOps, BinaryOps, OneParameter
  <2> QED
    BY <2>1, <2>2, SplitOn
<1>24. CASE ins.op = "ReconstituteField"
  <2>1. /\ tys \in ReconstituteShape(ins, T)
        /\ Cells(ins, a) = <<Fr(ReconstituteResult(ins, a))>>
    BY <1>24, <1>6 DEF Shape, Cells, HashOps
  <2>2. Typed(a[1]) /\ Typed(a[2]) /\ T[1] = a[1].ty /\ T[2] = a[2].ty /\ DOMAIN T = 1..2 /\ ins.n[1] \in Nat
    BY <1>24, <1>2, <1>3, <1>4 DEF UnaryOps, BinaryOps, OneParameter
  <2> QED
    BY <2>1, <2>2, JoinOn
<1>25. CASE ins.op = "TransientHash"
  <2>1. /\ tys \in TransientHashShape(T)
        /\ Cells(ins, a) = <<Fr(Poseidon(Payloads(a)))>>
    BY <1>25, <1>6 DEF Shape, Cells, HashOps
  <2> QED
    BY <2>1, <1>1, <1>5, FromNativesOn
<1>26. CASE ins.op = "HashToCurve"
  <2>1. /\ tys \in HashToCurveShape(T)
        /\ Cells(ins, a) = <<V(Point("Jubjub"), HashToPoint(Payloads(a)))>>
    BY <1>26, <1>6 DEF Shape, Cells, HashOps
  <2> QED
    BY <2>1, <1>1, <1>5, FromNativesOn
<1>27. CASE ins.op = "EcMul"
  <2>1. /\ tys \in EcMulShape(T)
        /\ Cells(ins, a) = <<V(a[1].ty, (a[1].val * a[2].val) % Order(a[1].ty))>>
    BY <1>27, <1>6 DEF Shape, Cells, HashOps
  <2>2. Typed(a[1]) /\ Typed(a[2]) /\ T[1] = a[1].ty /\ T[2] = a[2].ty
    BY <1>27, <1>2, <1>3, <1>4 DEF UnaryOps, BinaryOps, OneParameter
  <2> QED
    BY <2>1, <2>2, GroupOn
<1>28. CASE ins.op = "EcMulGenerator"
  <2>1. /\ tys \in EcMulGeneratorShape(T)
        /\ Cells(ins, a) = <<V(Point(a[1].ty[2]), a[1].val)>>
    BY <1>28, <1>6 DEF Shape, Cells, HashOps
  <2>2. Typed(a[1]) /\ T[1] = a[1].ty
    BY <1>28, <1>2, <1>3, <1>4 DEF UnaryOps, BinaryOps, OneParameter
  <2> QED
    BY <2>1, <2>2, GroupOn
<1>29. CASE ins.op = "IntoCoordinates"
  <2>1. /\ tys \in IntoCoordinatesShape(T)
        /\ IntoCoordinatesHolds(a)
        /\ Cells(ins, a) = Coordinates(a[1].ty[2], a[1].val)
    BY <1>29, <1>6 DEF Shape, Cells, HashOps, Holds
  <2>2. Typed(a[1]) /\ T[1] = a[1].ty
    BY <1>29, <1>2, <1>3, <1>4 DEF UnaryOps, BinaryOps, OneParameter
  <2> QED
    BY <2>1, <2>2, IntoCoordinatesOn
<1>30. CASE ins.op = "FromCoordinates"
  <2>1. /\ tys \in FromCoordinatesShape(T)
        /\ FromCoordinatesHolds(a)
        /\ Cells(ins, a) = <<FromCoordinatesCell(a)>>
    BY <1>30, <1>6 DEF Shape, Cells, HashOps, Holds
  <2>2. Typed(a[1]) /\ Typed(a[2]) /\ T[1] = a[1].ty /\ T[2] = a[2].ty
    BY <1>30, <1>2, <1>3, <1>4 DEF UnaryOps, BinaryOps, OneParameter
  <2> QED
    BY <2>1, <2>2, FromCoordinatesOn
<1>31. CASE ins.op = "ToBytes"
  <2>1. /\ tys \in ToBytesShape(T)
        /\ Cells(ins, a) = <<ToBytes(a[1])>>
    BY <1>31, <1>6 DEF Shape, Cells, HashOps
  <2>2. Typed(a[1]) /\ T[1] = a[1].ty
    BY <1>31, <1>2, <1>3, <1>4 DEF UnaryOps, BinaryOps, OneParameter
  <2> QED
    BY <2>1, <2>2, ToBytesOn
<1>32. CASE ins.op = "IntoBytes32"
  <2>1. /\ tys \in IntoBytes32Shape(T)
        /\ Cells(ins, a) = <<ToBytes(a[1])>>
    BY <1>32, <1>6 DEF Shape, Cells, HashOps
  <2>2. Typed(a[1]) /\ T[1] = a[1].ty
    BY <1>32, <1>2, <1>3, <1>4 DEF UnaryOps, BinaryOps, OneParameter
  <2> QED
    BY <2>1, <2>2, ToBytesOn
<1>33. CASE ins.op = "FromBytes"
  <2>1. /\ tys \in FromBytesShape(ins, T)
        /\ Cells(ins, a) = <<FromBytesCell(ins, a)>>
    BY <1>33, <1>6 DEF Shape, Cells, HashOps
  <2>2. Typed(a[1]) /\ T[1] = a[1].ty
    BY <1>33, <1>2, <1>3, <1>4 DEF UnaryOps, BinaryOps, OneParameter
  <2> QED
    BY <2>1, <2>2, <1>1, FromBytesOn
<1>34. CASE ins.op = "FromBytes32"
  <2>1. /\ tys \in FromBytes32Shape(ins, T)
        /\ Cells(ins, a) = <<FromBytesCell(ins, a)>>
    BY <1>34, <1>6 DEF Shape, Cells, HashOps
  <2>2. Typed(a[1]) /\ T[1] = a[1].ty
    BY <1>34, <1>2, <1>3, <1>4 DEF UnaryOps, BinaryOps, OneParameter
  <2> QED
    BY <2>1, <2>2, <1>1, FromBytesOn
<1>35. CASE ins.op \in {"Reverse", "ReverseBytes"}
  <2>1. /\ tys \in ReverseShape(T)
        /\ Cells(ins, a) = <<BytesV(Reverse(a[1].val))>>
    BY <1>35, <1>6 DEF Shape, Cells, HashOps
  <2>2. Typed(a[1]) /\ T[1] = a[1].ty
    BY <1>35, <1>2, <1>3, <1>4 DEF UnaryOps, BinaryOps, OneParameter
  <2> QED
    BY <2>1, <2>2, ByteOpsOn
<1>36. CASE ins.op = "Slice"
  <2>1. /\ tys \in SliceShape(ins, T)
        /\ Cells(ins, a) = <<BytesV(SubSeq(a[1].val, ins.n[1] + 1, ins.n[1] + ins.n[2]))>>
    BY <1>36, <1>6 DEF Shape, Cells, HashOps
  <2>2. Typed(a[1]) /\ T[1] = a[1].ty /\ ins.n[1] \in Nat /\ ins.n[2] \in Nat
    BY <1>36, <1>2, <1>3, <1>4 DEF UnaryOps, BinaryOps, OneParameter
  <2> QED
    BY <2>1, <2>2, ByteOpsOn
<1>37. CASE ins.op = "Nth"
  <2>1. /\ tys \in NthShape(ins, T)
        /\ Cells(ins, a) = <<V(Byte, a[1].val[ins.n[1] + 1])>>
    BY <1>37, <1>6 DEF Shape, Cells, HashOps
  <2>2. Typed(a[1]) /\ T[1] = a[1].ty /\ ins.n[1] \in Nat
    BY <1>37, <1>2, <1>3, <1>4 DEF UnaryOps, BinaryOps, OneParameter
  <2> QED
    BY <2>1, <2>2, ByteOpsOn
<1>38. CASE ins.op = "Concat"
  <2>1. /\ tys \in ConcatShape(T)
        /\ Cells(ins, a) = <<BytesV(FlattenSeq([i \in DOMAIN a |-> ByteString(a[i])]))>>
    BY <1>38, <1>6 DEF Shape, Cells, HashOps
  <2> QED
    BY <2>1, <1>1, <1>6, ConcatOn
<1>39. CASE ins.op = "Encode"
  <2>1. /\ tys \in EncodeShape(ins, T)
        /\ Cells(ins, a) = FrSeq(Encode(a[1]))
    BY <1>39, <1>6 DEF Shape, Cells, HashOps
  <2>2. Typed(a[1]) /\ T[1] = a[1].ty
    BY <1>39, <1>2, <1>3, <1>4 DEF UnaryOps, BinaryOps, OneParameter
  <2> QED
    BY <2>1, <2>2, EncodeOn
<1>40. CASE ins.op = "BytesIntoNatives"
  <2>1. /\ tys \in BytesIntoNativesShape(ins, T)
        /\ Cells(ins, a) = FrSeq(Encode(a[1]))
    BY <1>40, <1>6 DEF Shape, Cells, HashOps
  <2>2. Typed(a[1]) /\ T[1] = a[1].ty
    BY <1>40, <1>2, <1>3, <1>4 DEF UnaryOps, BinaryOps, OneParameter
  <2> QED
    BY <2>1, <2>2, EncodeOn
<1>41. CASE ins.op = "BytesFromNatives"
  <2>1. /\ tys \in BytesFromNativesShape(ins, T)
        /\ Cells(ins, a) = <<BytesFromNativesCell(ins, a)>>
    BY <1>41, <1>6 DEF Shape, Cells, HashOps
  <2> QED
    BY <2>1, <1>1, <1>6, NativesToBytesOn
<1>42. CASE ins.op = "Bytes32IntoLowHigh"
  <2>1. /\ tys \in LowHighShape(T)
        /\ Cells(ins, a) = LowHighCells(a)
    BY <1>42, <1>6 DEF Shape, Cells, HashOps
  <2>2. Typed(a[1]) /\ T[1] = a[1].ty
    BY <1>42, <1>2, <1>3, <1>4 DEF UnaryOps, BinaryOps, OneParameter
  <2> QED
    BY <2>1, <2>2, LowHighOn
<1>43. CASE ins.op = "Bytes32FromLowHigh"
  <2>1. /\ tys \in FromLowHighShape(T)
        /\ FromLowHighHolds(a)
        /\ Cells(ins, a) = <<FromLowHighCell(a)>>
    BY <1>43, <1>6 DEF Shape, Cells, HashOps, Holds
  <2>2. Typed(a[1]) /\ Typed(a[2]) /\ T[1] = a[1].ty /\ T[2] = a[2].ty
    BY <1>43, <1>2, <1>3, <1>4 DEF UnaryOps, BinaryOps, OneParameter
  <2> QED
    BY <2>1, <2>2, LowHighOn
<1>44. CASE ins.op = "LoadConstant"
  <2>1. /\ tys \in LoadConstantShape(ins)
        /\ Cells(ins, a) = <<CHOOSE v \in Decode(ins.enc, ins.ty) : TRUE>>
    BY <1>44, <1>6 DEF Shape, Cells, HashOps
  <2> QED
    BY <2>1, <1>1, ConstantOn
<1>45. CASE ins.op = "Copy"
  <2>1. tys = T /\ Cells(ins, a) = a
    BY <1>45, <1>6 DEF Shape, Cells, HashOps
  <2> QED
    BY <1>6, <2>1 DEF Fits
<1>46. CASE ins.op \in HashOps
  <2>1. /\ tys \in ByteHashShape(ins, T)
        /\ Cells(ins, a) = <<BytesV(Digest(ins.op, DecodedBytes(ins.align, a)))>>
    BY <1>46, <1>6 DEF Shape, Cells, HashOps
  <2> QED
    BY <1>1, <1>6, <1>46, <2>1, ByteHashOn
<1> QED
  BY <1>11, <1>12, <1>13, <1>14, <1>15, <1>16, <1>17, <1>18, <1>19, <1>20, <1>21, <1>22, <1>23, <1>24, <1>25, <1>26, <1>27, <1>28, <1>29, <1>30, <1>31, <1>32, <1>33, <1>34, <1>35, <1>36, <1>37, <1>38, <1>39, <1>40, <1>41, <1>42, <1>43, <1>44, <1>45, <1>46 DEF ValueOps

\* Synthesis makes a cell for each name.
LEMMA ShapeCount ==
  ASSUME NEW ins \in Instruction, WellShaped(ins), ins.op \in ValueOps,
         NEW a, DOMAIN a = 1..Len(ins.args), AllTyped(a), NEW tys \in Shape(ins, TypesOf(a))
  PROVE  DOMAIN tys = 1..Len(ins.outs)
<1> DEFINE T == TypesOf(a)
<1>1. Len(ins.args) \in Nat /\ Len(ins.outs) \in Nat
  BY DEF Instruction
<1>2. /\ ins.op \in NoOutput => Len(ins.outs) = 0
      /\ ins.op \in TwoOutputs => Len(ins.outs) = 2
      /\ ins.op \notin NoOutput \cup TwoOutputs \cup ManyOutputs => Len(ins.outs) = 1
  BY <1>1 DEF WellShaped
<1>3. (ins.op \in UnaryOps => Len(ins.args) = 1 /\ Typed(a[1])) /\ DOMAIN T = 1..Len(ins.args)
  BY <1>1, TypesAre, OperandsTyped DEF WellShaped
<1>4. /\ \A t : DOMAIN <<t>> = 1..1
      /\ \A t, u : DOMAIN <<t, u>> = 1..2
      /\ DOMAIN <<>> = 1..0
  OBVIOUS
<1>5. tys \in Shape(ins, T)
  OBVIOUS
<1> HIDE DEF T
<1>7. CASE ins.op \in {"ConstrainEq", "Assert", "ConstrainBits", "ConstrainToBoolean"}
  <2>1. tys = <<>>
    BY <1>5, <1>7 DEF Shape, HashOps, ConstrainEqShape, CheckShape, Some, Nothing
  <2> QED
    BY <1>2, <1>4, <1>7, <2>1 DEF NoOutput
<1>8. CASE ins.op \in TwoOutputs
  <2>1. \E t, u : tys = <<t, u>>
    BY <1>5, <1>8 DEF Shape, TwoOutputs, HashOps, IntoCoordinatesShape, LowHighShape, Some
  <2> QED
    BY <1>2, <1>4, <1>8, <2>1
<1>9. CASE ins.op = "DivModPowerOfTwo"
  <2>1. tys = <<Native, Native>> /\ Len(ins.outs) = 2
    BY <1>5, <1>9 DEF Shape, HashOps, DivModShape, Some
  <2> QED
    BY <1>4, <2>1
<1>10. CASE ins.op \in {"Encode", "BytesIntoNatives"}
  <2>1. /\ encoded_len(T[1]) = Len(ins.outs)
        /\ tys = [i \in 1..encoded_len(T[1]) |-> Native]
    BY <1>5, <1>10 DEF Shape, HashOps, BytesIntoNativesShape, EncodeShape, Some
  <2> QED
    BY <2>1
<1>11. CASE ins.op = "Copy"
  <2>1. tys = T
    BY <1>5, <1>11 DEF Shape, HashOps
  <2> QED
    BY <1>2, <1>3, <1>11, <2>1 DEF UnaryOps, NoOutput, TwoOutputs, ManyOutputs
<1>12. ASSUME \E t : tys = <<t>>, ins.op \notin NoOutput \cup TwoOutputs \cup ManyOutputs
       PROVE  DOMAIN tys = 1..Len(ins.outs)
  BY <1>2, <1>4, <1>12
<1>13. CASE ins.op \in {"Add", "Mul", "Neg", "Inv", "Not", "And", "Or", "Xor", "TestEq", "CondSelect",
                        "LessThan", "ReconstituteField", "JubjubScalarFromNative",
                        "TransientHash", "HashToCurve"}
  <2>1. \E t : tys = <<t>>
    BY <1>5, <1>13 DEF Shape, HashOps, Some, AddShape, MulShape, NegShape, InvShape, NotShape,
         BitListShape, TestEqShape, CondSelectShape, LessThanShape, ReconstituteShape,
         JubjubScalarShape, TransientHashShape, HashToCurveShape
  <2> QED
    BY <1>12, <1>13, <2>1 DEF NoOutput, TwoOutputs, ManyOutputs
<1>14. CASE ins.op \in {"EcMul", "EcMulGenerator", "FromCoordinates", "ToBytes", "IntoBytes32",
                        "FromBytes", "FromBytes32", "Reverse", "ReverseBytes", "Slice", "Nth",
                        "Concat", "BytesFromNatives", "Bytes32FromLowHigh", "LoadConstant"}
  <2>1. \E t : tys = <<t>>
    BY <1>5, <1>14 DEF Shape, HashOps, Some, EcMulShape, EcMulGeneratorShape, FromCoordinatesShape,
         ToBytesShape, IntoBytes32Shape, FromBytesShape, FromBytes32Shape, ReverseShape, SliceShape,
         NthShape, ConcatShape, BytesFromNativesShape, FromLowHighShape, LoadConstantShape
  <2> QED
    BY <1>12, <1>14, <2>1 DEF NoOutput, TwoOutputs, ManyOutputs
<1>15. CASE ins.op \in HashOps
  <2>1. \E t : tys = <<t>>
    BY <1>5, <1>15 DEF Shape, HashOps, Some, ByteHashShape
  <2> QED
    BY <1>12, <1>15, <2>1 DEF NoOutput, TwoOutputs, ManyOutputs, HashOps
<1> QED
  BY <1>7, <1>8, <1>9, <1>10, <1>11, <1>13, <1>14, <1>15 DEF ValueOps, TwoOutputs

------------------------------------------------------------------------------
(* Memories of typed values.                                                 *)

MemoryTyped(m) == \A id \in DOMAIN m : Typed(m[id])
TypeMap(m) == [id \in DOMAIN m |-> m[id].ty]

\* Bind adds the bound names to the domain and leaves the other names alone.
LEMMA BindProperties ==
  ASSUME NEW m, NEW ids, NEW vals
  PROVE  /\ DOMAIN Bind(m, ids, vals) = DOMAIN m \cup ToSet(ids)
         /\ Bind(m, ids, vals)
              = [id \in DOMAIN Bind(m, ids, vals) |-> Bind(m, ids, vals)[id]]
         /\ \A id \in DOMAIN m \ ToSet(ids) : Bind(m, ids, vals)[id] = m[id]
  BY DEF Bind

\* The elements of a sequence of names are names.
LEMMA ToSetSubset ==
  ASSUME NEW S, NEW s \in Seq(S)
  PROVE  ToSet(s) \subseteq S
  BY ElementOfSeq, LenProperties DEF ToSet

\* The place of the value Bind gives a name it binds.
LastPlace(ids, id) ==
  CHOOSE i \in DOMAIN ids : ids[i] = id /\ \A j \in DOMAIN ids : ids[j] = id => j <= i

LEMMA BindAt ==
  ASSUME NEW m, NEW ids \in Seq(Identifier), NEW vals, NEW id \in ToSet(ids)
  PROVE  /\ LastPlace(ids, id) \in DOMAIN ids /\ ids[LastPlace(ids, id)] = id
         /\ Bind(m, ids, vals)[id] = vals[LastPlace(ids, id)]
<1>1. \E i \in DOMAIN ids : ids[i] = id /\ \A j \in DOMAIN ids : ids[j] = id => j <= i
  BY LastOccurrence
<1>2. LastPlace(ids, id) \in DOMAIN ids /\ ids[LastPlace(ids, id)] = id
  BY <1>1 DEF LastPlace
<1>3. Bind(m, ids, vals)[id] = vals[LastPlace(ids, id)]
  BY DEF Bind, LastPlace
<1> QED
  BY <1>2, <1>3

LEMMA BindTyped ==
  ASSUME NEW m, MemoryTyped(m), NEW ids \in Seq(Identifier), NEW vals, Yields(vals, Len(ids))
  PROVE  MemoryTyped(Bind(m, ids, vals))
<1> SUFFICES ASSUME NEW id \in DOMAIN m \cup ToSet(ids)
             PROVE  Typed(Bind(m, ids, vals)[id])
  BY DEF MemoryTyped, Bind
<1>1. CASE id \in ToSet(ids)
  <2>1. PICK k \in DOMAIN ids : Bind(m, ids, vals)[id] = vals[k]
    BY <1>1, BindAt
  <2>2. k \in DOMAIN vals
    BY LenProperties DEF Yields
  <2> QED
    BY <2>1, <2>2 DEF Yields, AllTyped
<1>2. CASE id \notin ToSet(ids)
  BY <1>2 DEF Bind, MemoryTyped
<1> QED
  BY <1>1, <1>2

LEMMA BindTypes ==
  ASSUME NEW m, NEW ids \in Seq(Identifier), NEW vals, NEW tys, Fits(vals, tys),
         DOMAIN tys = 1..Len(ids)
  PROVE  TypeMap(Bind(m, ids, vals)) = Bind(TypeMap(m), ids, tys)
<1>1. DOMAIN Bind(m, ids, vals) = DOMAIN m \cup ToSet(ids)
      /\ DOMAIN Bind(TypeMap(m), ids, tys) = DOMAIN m \cup ToSet(ids)
  BY DEF Bind, TypeMap
<1>2. Bind(TypeMap(m), ids, tys)
        = [id \in DOMAIN m \cup ToSet(ids) |-> Bind(TypeMap(m), ids, tys)[id]]
  BY DEF Bind, TypeMap
<1>3. ASSUME NEW id \in DOMAIN m \cup ToSet(ids)
      PROVE  Bind(m, ids, vals)[id].ty = Bind(TypeMap(m), ids, tys)[id]
  <2>1. CASE id \in ToSet(ids)
    <3>1. PICK k \in DOMAIN ids : Bind(m, ids, vals)[id] = vals[k]
                                  /\ Bind(TypeMap(m), ids, tys)[id] = tys[k]
      BY <2>1, BindAt
    <3>2. k \in DOMAIN tys
      BY LenProperties
    <3>3. k \in DOMAIN vals /\ vals[k].ty = tys[k]
      BY <3>2 DEF Fits, TypesOf
    <3> QED
      BY <3>1, <3>3
  <2>2. CASE id \notin ToSet(ids)
    BY <2>2 DEF Bind, TypeMap
  <2> QED
    BY <2>1, <2>2
<1> QED
  BY <1>1, <1>2, <1>3 DEF TypeMap

LEMMA OperandIs ==
  ASSUME NEW m, MemoryTyped(m), NEW o \in Operand, Resolvable(m, o)
  PROVE  Typed(Resolve(m, o))
<1>1. CASE o[1] = "imm"
  <2>1. o[2] \in 0..P - 1
    BY <1>1 DEF Operand, Immediates
  <2> QED
    BY <1>1, <2>1, TypedFr DEF Resolve
<1>2. CASE o[1] # "imm"
  BY <1>2 DEF Operand, Resolvable, Resolve, MemoryTyped
<1> QED
  BY <1>1, <1>2

LEMMA OperandsAre ==
  ASSUME NEW m, MemoryTyped(m), NEW os \in Seq(Operand), AllResolvable(m, os)
  PROVE  AllTyped(ResolveAll(m, os)) /\ DOMAIN ResolveAll(m, os) = 1..Len(os)
<1>1. DOMAIN os = 1..Len(os) /\ \A i \in DOMAIN os : os[i] \in Operand
  BY LenProperties, ElementOfSeq
<1>2. \A i \in DOMAIN os : Typed(Resolve(m, os[i]))
  BY <1>1, OperandIs DEF AllResolvable
<1> QED
  BY <1>1, <1>2 DEF AllTyped, ResolveAll

\* What an instruction of `preprocess` makes of a typed memory.
LEMMA ComputeTyped ==
  ASSUME GadgetsTyped, NEW ins \in Instruction, WellShaped(ins), ins.op \in ValueOps,
         NEW m, MemoryTyped(m), AllResolvable(m, ins.args),
         NEW vals \in OffGate(ins, ResolveAll(m, ins.args))
  PROVE  MemoryTyped(Bind(m, ins.outs, vals))
<1>1. ins.args \in Seq(Operand) /\ ins.outs \in Seq(Identifier)
  BY DEF Instruction
<1>2. PICK a : a = ResolveAll(m, ins.args)
  OBVIOUS
<1>3. AllTyped(a) /\ DOMAIN a = 1..Len(ins.args)
  BY <1>1, <1>2, OperandsAre
<1>4. Yields(vals, Len(ins.outs))
  BY <1>2, <1>3, OffTyped
<1> QED
  BY <1>1, <1>4, BindTyped

\* What an instruction of `circuit` makes of typed cells: more typed cells, of
\* the types that synthesis without a witness gives the names.
LEMMA GateTyped ==
  ASSUME GadgetsTyped, NEW ins \in Instruction, WellShaped(ins), ins.op \in ValueOps,
         NEW m, MemoryTyped(m), AllResolvable(m, ins.args),
         NEW a, a = ResolveAll(m, ins.args), NEW tys \in Shape(ins, TypesOf(a)), Holds(ins, a)
  PROVE  /\ MemoryTyped(Bind(m, ins.outs, Cells(ins, a)))
         /\ TypeMap(Bind(m, ins.outs, Cells(ins, a))) = Bind(TypeMap(m), ins.outs, tys)
<1>1. ins.args \in Seq(Operand) /\ ins.outs \in Seq(Identifier)
  BY DEF Instruction
<1>2. AllTyped(a) /\ DOMAIN a = 1..Len(ins.args)
  BY <1>1, OperandsAre
<1>3. Fits(Cells(ins, a), tys)
  BY <1>2, OnTyped
<1>4. DOMAIN tys = 1..Len(ins.outs)
  BY <1>2, ShapeCount
<1>5. Yields(Cells(ins, a), Len(ins.outs))
  BY <1>3, <1>4, YieldsFits
<1> QED
  BY <1>1, <1>3, <1>4, <1>5, BindTyped, BindTypes

LEMMA ReadShape ==
  ASSUME NEW i, WellShaped(i), i.op \in {"PublicInput", "PrivateInput"}
  PROVE  Len(i.outs) = 1
<1>1. i.op \notin NoOutput \cup TwoOutputs \cup ManyOutputs
  BY DEF NoOutput, TwoOutputs, ManyOutputs
<1> QED
  BY <1>1 DEF WellShaped

LEMMA NoOutputShape ==
  ASSUME NEW i, WellShaped(i), i.op \in {"Impact", "Output"}
  PROVE  i.outs = <<>>
BY DEF WellShaped, NoOutput

\* The typed values, as a set.
TypedValue == UNION {IrValue(t) : t \in IrType}

LEMMA TypedIsValue ==
  ASSUME NEW v
  PROVE  Typed(v) <=> v \in TypedValue
<1>1. \A t \in IrType : v \in IrValue(t) => v.ty = t
  BY DEF IrValue
<1> QED
  BY <1>1 DEF Typed, TypedValue

LEMMA OperandsAreSeq ==
  ASSUME NEW m, MemoryTyped(m), NEW os \in Seq(Operand), AllResolvable(m, os)
  PROVE  ResolveAll(m, os) \in Seq(TypedValue) /\ Len(ResolveAll(m, os)) = Len(os)
<1>1. PICK vals : vals = ResolveAll(m, os)
  OBVIOUS
<1>2. AllTyped(vals) /\ DOMAIN vals = 1..Len(os) /\ Len(os) \in Nat
  BY <1>1, OperandsAre, LenProperties
<1>3. PICK n \in Nat : n = Len(os)
  BY <1>2
<1>4. vals = [i \in 1..n |-> vals[i]]
  BY <1>1, <1>2, <1>3 DEF ResolveAll
<1>5. \A i \in 1..n : vals[i] \in TypedValue
  BY <1>2, <1>3, TypedIsValue DEF AllTyped
<1>6. vals \in [1..n -> TypedValue]
  BY <1>4, <1>5
<1>7. vals \in Seq(TypedValue)
  BY <1>6, SeqDef
<1>8. Len(vals) = n
  BY <1>6
<1> QED
  BY <1>1, <1>3, <1>7, <1>8

LEMMA DefaultTyped ==
  ASSUME NEW t \in IrType
  PROVE  Is(Default(t), t)
<1>1. CASE t \in BytesTypes
  <2>1. PICK n \in 1..MAX_BYTES_LEN : t = Bytes(n) /\ t[2] = n
    BY <1>1, BytesTagged
  <2>2. [i \in 1..n |-> 0] \in [1..n -> 0..ByteBase - 1]
    BY Constants
  <2> QED
    BY <1>1, <2>1, <2>2 DEF Default, Is, Typed, V, IrValue
<1>2. CASE t \notin BytesTypes
  <2>1. Order(t) \in Nat /\ Order(t) > 0
    BY <1>2, OrderIsNat
  <2> QED
    BY <1>2, <2>1, TypedV DEF Default, Is
<1> QED
  BY <1>1, <1>2
==============================================================================
