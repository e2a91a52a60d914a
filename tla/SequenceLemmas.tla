--------------------------- MODULE SequenceLemmas ---------------------------
(***************************************************************************)
(* What FlattenSeq, Reverse and Among compute, for all sequences: lemmas   *)
(* for the proofs about payloads in pieces, writes in chunks and           *)
(* containers in several messages.                                         *)
(*                                                                         *)
(* FlattenSeq is a recursive function on positions.  The induction over    *)
(* positions is by a least counterexample: a set of natural numbers that   *)
(* is not empty has a least element.                                       *)
(***************************************************************************)
EXTENDS Integers, SequencesExt, Selection, SequenceTheorems, WellFoundedInduction, TLAPS

\* Every non-empty set of naturals has a least element.
LEMMA LeastNatural ==
    ASSUME NEW S, S \subseteq Nat, S # {}
    PROVE  \E x \in S : \A y \in S : x <= y
<1> DEFINE less == OpToRel(<, Nat)
<1>1. \A x, y \in Nat : <<y, x>> \in less <=> y < x
  BY DEF OpToRel
<1> HIDE DEF less
<1>2. IsWellFoundedOn(less, Nat)
  BY NatLessThanWellFounded DEF less
<1>3. PICK x \in S : \A y \in S : ~(<<y, x>> \in less)
  BY <1>2, WFMin
<1>4. ASSUME NEW y \in S PROVE x <= y
  <2>1. x \in Nat /\ y \in Nat /\ ~(<<y, x>> \in less)
    BY <1>3
  <2>2. ~(y < x)
    BY <1>1, <2>1
  <2> QED
    BY <2>1, <2>2
<1> QED
  BY <1>4

\* The last of some positions.
LEMMA LastPosition ==
    ASSUME NEW n \in Nat, NEW S \in SUBSET (0 .. n), S # {}
    PROVE  Max(S) \in S
<1> DEFINE distance == {n - x : x \in S}
<1>1. distance \subseteq Nat /\ distance # {}
  <2>1. \A x \in S : n - x \in Nat
    OBVIOUS
  <2> QED
    BY <2>1
<1>2. PICK d \in distance : \A y \in distance : d <= y
  BY <1>1, LeastNatural
<1>3. PICK m \in S : d = n - m
  BY <1>2
<1>4. \A x \in S : m >= x
  BY <1>2, <1>3
<1> QED
  BY <1>4 DEF Max

LEMMA Induction ==
    ASSUME NEW T, 0 \in T, \A n \in Nat : n \in T => n + 1 \in T
    PROVE  \A n \in Nat : n \in T
<1> DEFINE without == {n \in Nat : n \notin T}
<1>1. ASSUME without # {} PROVE FALSE
  <2>1. PICK n \in without : \A m \in without : n <= m
    BY <1>1, LeastNatural
  <2>2. n \in Nat /\ n # 0 /\ n - 1 \in Nat /\ n - 1 \notin without
    BY <2>1
  <2>3. n - 1 + 1 = n /\ n - 1 \in T
    BY <2>2
  <2> QED
    BY <2>1, <2>2, <2>3
<1> QED
  BY <1>1

\* f is defined step by step over 0 .. N.
Recursion(f, N, init, step) == f = [n \in 0 .. N |-> IF n = 0 THEN init ELSE step[n][f[n - 1]]]

\* Such an f exists.
LEMMA RecursionExists ==
    ASSUME NEW S, NEW N \in Nat, NEW init \in S, NEW step \in [1 .. N -> [S -> S]]
    PROVE  \E f \in [0 .. N -> S] : Recursion(f, N, init, step)
<1> DEFINE Upto(f, k) == \A n \in 0 .. k : f[n] = IF n = 0 THEN init ELSE step[n][f[n - 1]]
           T == {k \in Nat : k <= N => \E f \in [0 .. k -> S] : Upto(f, k)}
<1>1. 0 \in T
  <2> DEFINE f == [n \in 0 .. 0 |-> init]
  <2>1. f \in [0 .. 0 -> S] /\ Upto(f, 0)
    OBVIOUS
  <2> QED
    BY <2>1
<1>2. ASSUME NEW k \in Nat, k \in T PROVE k + 1 \in T
  <2> SUFFICES ASSUME k + 1 <= N PROVE \E f \in [0 .. k + 1 -> S] : Upto(f, k + 1)
    OBVIOUS
  <2>1. PICK f \in [0 .. k -> S] : Upto(f, k)
    BY <1>2
  <2> DEFINE last == step[k + 1][f[k]]
             g == [n \in 0 .. k + 1 |-> IF n = k + 1 THEN last ELSE f[n]]
  <2>2. last \in S
    <3>1. f[k] \in S /\ k + 1 \in 1 .. N
      OBVIOUS
    <3> QED
      BY <3>1
  <2>3. g \in [0 .. k + 1 -> S]
    <3>1. \A n \in 0 .. k + 1 : n # k + 1 => n \in 0 .. k
      OBVIOUS
    <3> HIDE DEF last
    <3> QED
      BY <2>2, <3>1
  <2>4. ASSUME NEW n \in 0 .. k + 1 PROVE g[n] = IF n = 0 THEN init ELSE step[n][g[n - 1]]
    <3>1. CASE n = k + 1
      <4>1. n - 1 = k /\ n # 0 /\ n - 1 \in 0 .. k + 1 /\ n - 1 # k + 1
        BY <3>1
      <4>2. g[n - 1] = f[k] /\ g[n] = last
        BY <3>1, <4>1
      <4> QED
        BY <3>1, <4>1, <4>2
    <3>2. CASE n # k + 1
      <4>1. n \in 0 .. k /\ (n # 0 => n - 1 \in 0 .. k /\ n - 1 # k + 1)
        BY <3>2
      <4>2. g[n] = f[n] /\ (n # 0 => g[n - 1] = f[n - 1])
        BY <3>2, <4>1
      <4> QED
        BY <2>1, <4>1, <4>2
    <3> QED
      BY <3>1, <3>2
  <2> HIDE DEF g
  <2> QED
    BY <2>3, <2>4
<1>3. N \in T
  <2> HIDE DEF T
  <2> QED
    BY <1>1, <1>2, Induction
<1>4. PICK f \in [0 .. N -> S] : Upto(f, N)
  BY <1>3
<1>5. f = [n \in 0 .. N |-> f[n]]
  OBVIOUS
<1>6. f = [n \in 0 .. N |-> IF n = 0 THEN init ELSE step[n][f[n - 1]]]
  BY <1>4, <1>5
<1> QED
  BY <1>6 DEF Recursion

\* f concatenates the first sequences of seqs, one after the other.
Concatenates(f, seqs) ==
    f = [i \in 1 .. Len(seqs) |-> IF i = 1 THEN seqs[i] ELSE f[i - 1] \o seqs[i]]

\* Such an f is unique: at the least position where two of them differ they agree before it.
LEMMA ConcatenationUnique ==
    ASSUME NEW seqs, Len(seqs) \in Nat, NEW f, Concatenates(f, seqs), NEW g, Concatenates(g, seqs)
    PROVE  \A i \in 1 .. Len(seqs) : f[i] = g[i]
<1> DEFINE differ == {i \in 1 .. Len(seqs) : f[i] # g[i]}
<1> SUFFICES ASSUME differ # {} PROVE FALSE
  OBVIOUS
<1>1. PICK i \in differ : \A j \in differ : i <= j
  <2>1. differ \subseteq Nat
    OBVIOUS
  <2> QED
    BY <2>1, LeastNatural
<1>2. \A j \in 1 .. Len(seqs) : /\ f[j] = IF j = 1 THEN seqs[j] ELSE f[j - 1] \o seqs[j]
                               /\ g[j] = IF j = 1 THEN seqs[j] ELSE g[j - 1] \o seqs[j]
  BY DEF Concatenates
<1>3. i # 1 /\ i \in 1 .. Len(seqs) /\ f[i] # g[i]
  BY <1>1, <1>2
<1>4. i - 1 \in 1 .. Len(seqs) /\ ~(i <= i - 1)
  BY <1>3
<1>5. f[i - 1] = g[i - 1]
  BY <1>1, <1>4
<1> QED
  BY <1>2, <1>3, <1>5

\* What FlattenSeq yields, given an f.
LEMMA FlattenIsConcatenation ==
    ASSUME NEW seqs, Len(seqs) \in Nat \ {0}, NEW f, Concatenates(f, seqs)
    PROVE  FlattenSeq(seqs) = f[Len(seqs)]
<1> DEFINE g == CHOOSE h : Concatenates(h, seqs)
<1>1. Concatenates(g, seqs)
  OBVIOUS
<1>2. FlattenSeq(seqs) = g[Len(seqs)]
  BY DEF FlattenSeq, Concatenates
<1> HIDE DEF g
<1>3. f[Len(seqs)] = g[Len(seqs)]
  BY <1>1, ConcatenationUnique
<1> QED
  BY <1>2, <1>3

\* There is such an f: at the least length without one, the f of the length before is extended.
LEMMA ConcatenationExists ==
    ASSUME NEW S, NEW seqs \in Seq(Seq(S))
    PROVE  \E f \in [1 .. Len(seqs) -> Seq(S)] : Concatenates(f, seqs)
<1> DEFINE N == Len(seqs)
           Upto(n, f) == \A i \in 1 .. n : f[i] = IF i = 1 THEN seqs[i] ELSE f[i - 1] \o seqs[i]
           without == {n \in 0 .. N : ~\E f \in [1 .. n -> Seq(S)] : Upto(n, f)}
<1>1. N \in Nat /\ \A i \in 1 .. N : seqs[i] \in Seq(S)
  OBVIOUS
<1>2. ASSUME without # {} PROVE FALSE
  <2>1. PICK n \in without : \A m \in without : n <= m
    <3>1. without \subseteq Nat
      OBVIOUS
    <3> QED
      BY <1>2, <3>1, LeastNatural
  <2>2. n # 0
    <3>1. [i \in 1 .. 0 |-> <<>>] \in [1 .. 0 -> Seq(S)] /\ Upto(0, [i \in 1 .. 0 |-> <<>>])
      OBVIOUS
    <3> QED
      BY <2>1, <3>1
  <2>3. n \in 1 .. N /\ n - 1 \in 0 .. N /\ ~(n <= n - 1)
    BY <2>1, <2>2
  <2>4. PICK f \in [1 .. n - 1 -> Seq(S)] : Upto(n - 1, f)
    BY <2>1, <2>3
  <2> DEFINE last == IF n = 1 THEN seqs[n] ELSE f[n - 1] \o seqs[n]
             g == [i \in 1 .. n |-> IF i = n THEN last ELSE f[i]]
  <2>5. last \in Seq(S)
    <3>1. n # 1 => n - 1 \in 1 .. n - 1
      BY <2>3
    <3>2. n # 1 => f[n - 1] \in Seq(S)
      BY <3>1
    <3> QED
      BY <1>1, <2>3, <3>2, ConcatProperties
  <2>6. \A i \in 1 .. n : i # n => i \in 1 .. n - 1
    BY <2>3
  <2> HIDE DEF last
  <2>7. g \in [1 .. n -> Seq(S)]
    BY <2>5, <2>6
  <2>8. ASSUME NEW i \in 1 .. n PROVE g[i] = IF i = 1 THEN seqs[i] ELSE g[i - 1] \o seqs[i]
    <3>1. i # 1 => i - 1 \in 1 .. n /\ i - 1 # n
      BY <2>3
    <3>2. CASE i = n
      BY <3>1, <3>2 DEF last
    <3>3. CASE i # n
      BY <2>4, <2>6, <3>1, <3>3
    <3> QED
      BY <3>2, <3>3
  <2>9. Upto(n, g)
    BY <2>8
  <2> QED
    BY <2>1, <2>7, <2>9
<1>3. PICK f \in [1 .. N -> Seq(S)] : Upto(N, f)
  <2>1. without = {}
    BY <1>2
  <2>2. N \in 0 .. N
    BY <1>1
  <2> QED
    BY <2>1, <2>2
<1>4. Concatenates(f, seqs)
  BY <1>3 DEF Concatenates
<1> QED
  BY <1>3, <1>4

LEMMA FlattenEmpty == FlattenSeq(<<>>) = <<>>
BY DEF FlattenSeq

LEMMA FlattenTypes ==
    ASSUME NEW S, NEW seqs \in Seq(Seq(S))
    PROVE  FlattenSeq(seqs) \in Seq(S)
<1>1. CASE seqs = <<>>
  <2>1. FlattenSeq(seqs) = <<>>
    BY <1>1, FlattenEmpty, Zenon
  <2> QED
    BY <2>1
<1>2. CASE seqs # <<>>
  <2>1. PICK f \in [1 .. Len(seqs) -> Seq(S)] : Concatenates(f, seqs)
    BY ConcatenationExists
  <2>2. Len(seqs) \in Nat \ {0}
    BY <1>2
  <2>3. FlattenSeq(seqs) = f[Len(seqs)] /\ Len(seqs) \in 1 .. Len(seqs)
    BY <2>1, <2>2, FlattenIsConcatenation
  <2>4. f[Len(seqs)] \in Seq(S)
    BY <2>3
  <2> QED
    BY <2>3, <2>4
<1> QED
  BY <1>1, <1>2

\* One more sequence.
LEMMA FlattenAppend ==
    ASSUME NEW S, NEW seqs \in Seq(Seq(S)), NEW x \in Seq(S)
    PROVE  FlattenSeq(Append(seqs, x)) = FlattenSeq(seqs) \o x
<1> DEFINE n == Len(seqs)
           more == Append(seqs, x)
<1>1. /\ n \in Nat /\ Len(more) = n + 1 /\ more[n + 1] = x
      /\ \A i \in 1 .. n : more[i] = seqs[i]
  OBVIOUS
<1>2. PICK f \in [1 .. n -> Seq(S)] : Concatenates(f, seqs)
  BY ConcatenationExists
<1> DEFINE last == IF n = 0 THEN x ELSE f[n] \o x
           g == [i \in 1 .. n + 1 |-> IF i = n + 1 THEN last ELSE f[i]]
<1>3. \A i \in 1 .. n : f[i] = IF i = 1 THEN seqs[i] ELSE f[i - 1] \o seqs[i]
  BY <1>2 DEF Concatenates
<1> HIDE DEF n, more
<1>4. ASSUME NEW i \in 1 .. n + 1
      PROVE  g[i] = IF i = 1 THEN more[i] ELSE g[i - 1] \o more[i]
  <2>1. i # 1 => i - 1 \in 1 .. n + 1 /\ i - 1 # n + 1
    BY <1>1
  <2>2. CASE i = n + 1
    BY <1>1, <2>1, <2>2
  <2>3. CASE i # n + 1
    <3>1. i \in 1 .. n
      <4>1. n \in Nat
        BY <1>1
      <4> QED
        BY ONLY <1>4, <2>3, <4>1
    <3> QED
      BY <1>1, <1>3, <2>1, <2>3, <3>1
  <2> QED
    BY <2>2, <2>3
<1>5. Concatenates(g, more)
  <2>1. g = [i \in 1 .. n + 1 |-> g[i]]
    OBVIOUS
  <2> HIDE DEF g
  <2> QED
    BY <1>1, <1>4, <2>1 DEF Concatenates
<1>6. FlattenSeq(more) = last
  <2>1. Len(more) \in Nat \ {0} /\ n + 1 \in 1 .. n + 1
    BY <1>1
  <2>2. FlattenSeq(more) = g[n + 1]
    BY <1>1, <1>5, <2>1, FlattenIsConcatenation
  <2> QED
    BY <2>1, <2>2
<1>7. CASE n = 0
  <2>1. seqs = <<>>
    BY <1>7 DEF n
  <2> QED
    BY <1>6, <1>7, <2>1, FlattenEmpty, ConcatEmptySeq DEF more
<1>8. CASE n # 0
  <2>1. FlattenSeq(seqs) = f[n]
    BY <1>1, <1>2, <1>8, FlattenIsConcatenation DEF n
  <2> QED
    BY <1>6, <1>8, <2>1 DEF more
<1> QED
  BY <1>7, <1>8

(***************************************************************************)
(* A sequence that is cut at the positions of off, from 0 to its length,   *)
(* is put together again by FlattenSeq.                                    *)
(***************************************************************************)
LEMMA FlattenOfCut ==
    ASSUME NEW S, NEW data \in Seq(S), NEW k \in Nat \ {0},
           NEW off \in [0 .. k -> 0 .. Len(data)], off[0] = 0, off[k] = Len(data),
           \A i \in 1 .. k : off[i - 1] <= off[i]
    PROVE  FlattenSeq([i \in 1 .. k |-> SubSeq(data, off[i - 1] + 1, off[i])]) = data
<1> DEFINE pieces == [i \in 1 .. k |-> SubSeq(data, off[i - 1] + 1, off[i])]
           f == [i \in 1 .. k |-> SubSeq(data, 1, off[i])]
<1>1. Len(pieces) = k
  OBVIOUS
<1>2. ASSUME NEW i \in 1 .. k PROVE f[i] = IF i = 1 THEN pieces[i] ELSE f[i - 1] \o pieces[i]
  <2>1. CASE i = 1
    BY <2>1
  <2>2. CASE i # 1
    <3>1. i - 1 \in 1 .. k /\ off[i - 1] \in 0 .. Len(data) /\ off[i] \in 0 .. Len(data)
      BY <2>2
    <3>2. off[i - 1] <= off[i]
      OBVIOUS
    <3>3. 1 \in 1 .. Len(data) + 1 /\ off[i - 1] \in 1 - 1 .. Len(data) /\ off[i] \in off[i - 1] .. Len(data)
      BY <3>1, <3>2
    <3>4. SubSeq(data, 1, off[i]) = SubSeq(data, 1, off[i - 1]) \o SubSeq(data, off[i - 1] + 1, off[i])
      BY <3>3, ConcatAdjacentSubSeq
    <3>5. /\ f[i] = SubSeq(data, 1, off[i]) /\ f[i - 1] = SubSeq(data, 1, off[i - 1])
          /\ pieces[i] = SubSeq(data, off[i - 1] + 1, off[i])
      BY <3>1
    <3> HIDE DEF f, pieces
    <3> QED
      BY <2>2, <3>4, <3>5, Zenon
  <2> QED
    BY <2>1, <2>2
<1>3. Concatenates(f, pieces)
  <2>1. f = [i \in 1 .. k |-> f[i]]
    OBVIOUS
  <2> HIDE DEF f, pieces
  <2>2. f = [i \in 1 .. k |-> IF i = 1 THEN pieces[i] ELSE f[i - 1] \o pieces[i]]
    BY ONLY <1>2, <2>1
  <2> QED
    BY <1>1, <2>2, Zenon DEF Concatenates
<1>4. FlattenSeq(pieces) = f[k]
  BY <1>1, <1>3, FlattenIsConcatenation
<1>5. f[k] = SubSeq(data, 1, Len(data)) /\ SubSeq(data, 1, Len(data)) = data
  BY SubSeqFull
<1> QED
  BY <1>4, <1>5

LEMMA FlattenOne ==
    ASSUME NEW S, NEW x \in Seq(S)
    PROVE  FlattenSeq(<<x>>) = x
<1>1. <<x>> = Append(<<>>, x) /\ <<>> \in Seq(Seq(S)) /\ <<>> \o x = x
  OBVIOUS
<1>2. FlattenSeq(Append(<<>>, x)) = FlattenSeq(<<>>) \o x
  BY <1>1, FlattenAppend
<1> QED
  BY <1>1, <1>2, FlattenEmpty, Zenon

LEMMA ConcatAppend ==
    ASSUME NEW S, NEW s \in Seq(S), NEW t \in Seq(S), NEW x \in S
    PROVE  s \o Append(t, x) = Append(s \o t, x)
<1>1. s \o t \in Seq(S) /\ <<x>> \in Seq(S)
  BY ConcatProperties
<1>2. Append(t, x) = t \o <<x>> /\ Append(s \o t, x) = (s \o t) \o <<x>>
  BY <1>1, AppendIsConcat
<1>3. (s \o t) \o <<x>> = s \o (t \o <<x>>)
  BY <1>1, ConcatAssociative
<1> QED
  BY <1>2, <1>3, Zenon

Regroups(S) == \A r \in Seq(S) : \A s \in Seq(S) : \A u \in Seq(S) : (r \o s) \o u = r \o (s \o u)

LEMMA SequencesRegroup ==
    ASSUME NEW S
    PROVE  Regroups(S)
<1> USE DEF Regroups
<1> TAKE r \in Seq(S)
<1> TAKE s \in Seq(S)
<1> TAKE u \in Seq(S)
<1> QED
  BY ConcatAssociative

LEMMA FlattenConcatStep ==
    ASSUME NEW S, NEW s \in Seq(Seq(S)), NEW u \in Seq(Seq(S)), NEW x \in Seq(S),
           FlattenSeq(s \o u) = FlattenSeq(s) \o FlattenSeq(u)
    PROVE  FlattenSeq(s \o Append(u, x)) = FlattenSeq(s) \o FlattenSeq(Append(u, x))
<1> DEFINE a == FlattenSeq(s)
           b == FlattenSeq(u)
<1>1. a \in Seq(S) /\ b \in Seq(S)
  BY FlattenTypes
<1>2. s \o u \in Seq(Seq(S)) /\ s \o Append(u, x) = Append(s \o u, x)
  BY ConcatProperties, ConcatAppend
<1>3. FlattenSeq(Append(s \o u, x)) = FlattenSeq(s \o u) \o x
  BY <1>2, FlattenAppend
<1>4. FlattenSeq(Append(u, x)) = b \o x
  BY FlattenAppend
<1> HIDE DEF a, b
<1>5. (a \o b) \o x = a \o (b \o x)
  <2>1. Regroups(S)
    BY SequencesRegroup
  <2> QED
    BY <1>1, <2>1, Zenon DEF Regroups
<1> QED
  BY <1>2, <1>3, <1>4, <1>5, Zenon DEF a, b

LEMMA FlattenConcat ==
    ASSUME NEW S, NEW s \in Seq(Seq(S)), NEW t \in Seq(Seq(S))
    PROVE  FlattenSeq(s \o t) = FlattenSeq(s) \o FlattenSeq(t)
<1> DEFINE N == Len(t)
           T == {n \in Nat : n <= N => FlattenSeq(s \o SubSeq(t, 1, n)) = FlattenSeq(s) \o FlattenSeq(SubSeq(t, 1, n))}
<1>1. N \in Nat /\ SubSeq(t, 1, N) = t /\ SubSeq(t, 1, 0) = <<>> /\ s \o <<>> = s
  OBVIOUS
<1>2. 0 \in T
  <2>1. FlattenSeq(s) \o <<>> = FlattenSeq(s)
    BY FlattenTypes
  <2>2. FlattenSeq(s \o SubSeq(t, 1, 0)) = FlattenSeq(s) \o FlattenSeq(SubSeq(t, 1, 0))
    BY <1>1, <2>1, FlattenEmpty, Zenon
  <2> QED
    BY <2>2
<1>3. ASSUME NEW n \in Nat, n \in T PROVE n + 1 \in T
  <2> SUFFICES ASSUME n + 1 <= N
               PROVE  FlattenSeq(s \o SubSeq(t, 1, n + 1)) = FlattenSeq(s) \o FlattenSeq(SubSeq(t, 1, n + 1))
    OBVIOUS
  <2> DEFINE u == SubSeq(t, 1, n)
             x == t[n + 1]
  <2>1. u \in Seq(Seq(S)) /\ x \in Seq(S) /\ SubSeq(t, 1, n + 1) = Append(u, x)
    OBVIOUS
  <2>2. FlattenSeq(s \o u) = FlattenSeq(s) \o FlattenSeq(u)
    BY <1>3
  <2> HIDE DEF u, x
  <2>3. FlattenSeq(s \o Append(u, x)) = FlattenSeq(s) \o FlattenSeq(Append(u, x))
    BY <2>1, <2>2, FlattenConcatStep
  <2> QED
    BY <2>1, <2>3, Zenon
<1>4. N \in T
  <2> HIDE DEF T, N
  <2> QED
    BY <1>1, <1>2, <1>3, Induction
<1>5. FlattenSeq(s \o SubSeq(t, 1, N)) = FlattenSeq(s) \o FlattenSeq(SubSeq(t, 1, N))
  BY <1>1, <1>4
<1> HIDE DEF N
<1> QED
  BY <1>1, <1>5, Zenon

-----------------------------------------------------------------------------
(* Reversing.                                                               *)

LEMMA ReverseAppend ==
    ASSUME NEW S, NEW u \in Seq(S), NEW x \in S
    PROVE  Reverse(u) \in Seq(S) /\ Reverse(Append(u, x)) = <<x>> \o Reverse(u)
<1> DEFINE a == Reverse(Append(u, x))
           r == Reverse(u)
           b == <<x>> \o r
<1>1. /\ Len(u) \in Nat /\ Len(Append(u, x)) = Len(u) + 1 /\ Append(u, x)[Len(u) + 1] = x
      /\ \A i \in 1 .. Len(u) : Append(u, x)[i] = u[i] /\ u[i] \in S
  OBVIOUS
<1>2. r \in Seq(S) /\ Len(r) = Len(u) /\ \A i \in 1 .. Len(u) : r[i] = u[(Len(u) - i) + 1]
  BY DEF Reverse
<1>3. a = [i \in 1 .. Len(u) + 1 |-> Append(u, x)[(Len(u) + 1 - i) + 1]]
  BY <1>1 DEF Reverse
<1> HIDE DEF r
<1>4. b = [i \in 1 .. Len(u) + 1 |-> b[i]] /\ b[1] = x /\ \A i \in 2 .. Len(u) + 1 : b[i] = r[i - 1]
  BY <1>1, <1>2
<1> HIDE DEF a, b
<1>5. ASSUME NEW i \in 1 .. Len(u) + 1 PROVE Append(u, x)[(Len(u) + 1 - i) + 1] = b[i]
  <2>1. CASE i = 1
    <3>1. (Len(u) + 1 - i) + 1 = Len(u) + 1
      BY <1>1, <2>1
    <3> QED
      BY <1>1, <1>4, <2>1, <3>1
  <2>2. CASE i # 1
    <3>1. /\ i \in 2 .. Len(u) + 1 /\ i - 1 \in 1 .. Len(u)
          /\ (Len(u) + 1 - i) + 1 \in 1 .. Len(u)
          /\ (Len(u) - (i - 1)) + 1 = (Len(u) + 1 - i) + 1
      BY <1>1, <2>2
    <3> QED
      BY <1>1, <1>2, <1>4, <3>1
  <2> QED
    BY <2>1, <2>2
<1>6. a = b
  BY <1>3, <1>4, <1>5
<1> QED
  BY <1>2, <1>6 DEF a, b, r

LEMMA ReverseTwice ==
    ASSUME NEW S, NEW s \in Seq(S)
    PROVE  Reverse(s) \in Seq(S) /\ Reverse(Reverse(s)) = s
<1> DEFINE r == Reverse(s)
<1>1. Len(s) \in Nat /\ \A i \in 1 .. Len(s) : (Len(s) - i) + 1 \in 1 .. Len(s) /\ (Len(s) - ((Len(s) - i) + 1)) + 1 = i
  OBVIOUS
<1>2. r \in Seq(S) /\ Len(r) = Len(s) /\ \A i \in 1 .. Len(s) : r[i] = s[(Len(s) - i) + 1]
  BY DEF Reverse
<1> HIDE DEF r
<1>3. Reverse(r) = [i \in 1 .. Len(s) |-> r[(Len(s) - i) + 1]]
  BY <1>2 DEF Reverse
<1>4. \A i \in 1 .. Len(s) : r[(Len(s) - i) + 1] = s[i]
  BY <1>1, <1>2
<1>5. s = [i \in 1 .. Len(s) |-> s[i]]
  OBVIOUS
<1> QED
  BY <1>2, <1>3, <1>4, <1>5 DEF r

-----------------------------------------------------------------------------
(* A sequence in two parts.                                                 *)

LEMMA PartsOfConcat ==
    ASSUME NEW S, NEW s \in Seq(S), NEW t \in Seq(S)
    PROVE  /\ s \o t \in Seq(S) /\ Len(s \o t) = Len(s) + Len(t)
           /\ SubSeq(s \o t, 1, Len(s)) = s
           /\ SubSeq(s \o t, Len(s) + 1, Len(s \o t)) = t
<1> DEFINE x == s \o t
<1>1. /\ x \in Seq(S) /\ Len(x) = Len(s) + Len(t)
      /\ \A i \in 1 .. Len(s) + Len(t) : x[i] = IF i <= Len(s) THEN s[i] ELSE t[i - Len(s)]
  BY ConcatProperties
<1> HIDE DEF x
<1>2. Len(s) \in Nat /\ Len(t) \in Nat /\ s = [i \in 1 .. Len(s) |-> s[i]] /\ t = [i \in 1 .. Len(t) |-> t[i]]
  OBVIOUS
<1>3. SubSeq(x, 1, Len(s)) = s
  <2>1. \A i \in 1 .. Len(s) : i \in 1 .. Len(s) + Len(t) /\ x[i] = s[i]
    BY <1>1, <1>2
  <2>2. SubSeq(x, 1, Len(s)) = [i \in 1 .. Len(s) |-> x[i]]
    BY <1>1, <1>2
  <2> QED
    BY <1>2, <2>1, <2>2
<1>4. SubSeq(x, Len(s) + 1, Len(x)) = t
  <2>1. \A i \in 1 .. Len(t) : x[Len(s) + i] = t[i]
    <3>1. \A i \in 1 .. Len(t) : /\ Len(s) + i \in 1 .. Len(s) + Len(t) /\ ~(Len(s) + i <= Len(s))
                                 /\ (Len(s) + i) - Len(s) = i
      BY <1>2
    <3> QED
      BY <1>1, <3>1
  <2>2. SubSeq(x, Len(s) + 1, Len(x)) = [i \in 1 .. Len(t) |-> x[Len(s) + i]]
    BY <1>1, <1>2
  <2> QED
    BY <1>2, <2>1, <2>2
<1> QED
  BY <1>1, <1>3, <1>4 DEF x

LEMMA SplitInTwo ==
    ASSUME NEW S, NEW s \in Seq(S), NEW n \in 0 .. Len(s)
    PROVE  /\ SubSeq(s, 1, n) \in Seq(S) /\ Len(SubSeq(s, 1, n)) = n
           /\ SubSeq(s, n + 1, Len(s)) \in Seq(S) /\ Len(SubSeq(s, n + 1, Len(s))) = Len(s) - n
           /\ SubSeq(s, 1, n) \o SubSeq(s, n + 1, Len(s)) = s
<1> DEFINE N == Len(s)
<1>1. N \in Nat /\ \A i \in 1 .. N : s[i] \in S
  OBVIOUS
<1>2. SubSeq(s, 1, N) = s
  OBVIOUS
<1>3. SubSeq(s, 1, n) \o SubSeq(s, n + 1, N) = SubSeq(s, 1, N)
  <2>1. n \in 1 - 1 .. Len(s) /\ N \in n .. Len(s) /\ 1 \in 1 .. Len(s) + 1
    BY <1>1
  <2> QED
    BY <2>1, ConcatAdjacentSubSeq
<1> HIDE DEF N
<1>4. n \in 0 .. N
  BY DEF N
<1>5. SubSeq(s, 1, n) \in Seq(S) /\ Len(SubSeq(s, 1, n)) = n
  <2>1. \A i \in 1 .. n : s[i] \in S
    BY <1>1, <1>4
  <2> QED
    BY <1>1, <1>4, <2>1, SubSeqProperties
<1>6. SubSeq(s, n + 1, N) \in Seq(S) /\ Len(SubSeq(s, n + 1, N)) = N - n
  <2>1. \A i \in n + 1 .. N : s[i] \in S
    BY <1>1, <1>4
  <2> QED
    BY <1>1, <1>4, <2>1, SubSeqProperties
<1> QED
  BY <1>2, <1>3, <1>5, <1>6 DEF N

\* p, b and q one after the other are t; v goes between two of them.
ThreeParts(S, t, p, b, q, v) ==
    /\ t \in Seq(S) /\ Len(t) = Len(p) + Len(b) + Len(q)
    /\ SubSeq(t, 1, Len(p) + Len(b)) = p \o b /\ SubSeq(t, Len(p) + Len(b) + 1, Len(t)) = q
    /\ SubSeq(t, 1, Len(p)) = p /\ SubSeq(t, Len(p) + 1, Len(t)) = b \o q
    /\ (p \o b) \o v = p \o (b \o v) /\ (p \o v) \o (b \o q) = (p \o (v \o b)) \o q

LEMMA PartsOfThree ==
    ASSUME NEW S, NEW p \in Seq(S), NEW b \in Seq(S), NEW q \in Seq(S), NEW v \in Seq(S)
    PROVE  ThreeParts(S, (p \o b) \o q, p, b, q, v)
<1> DEFINE x == p \o b
           y == b \o q
           z == p \o v
           t == x \o q
<1>1. x \in Seq(S) /\ Len(x) = Len(p) + Len(b) /\ y \in Seq(S) /\ z \in Seq(S)
  BY ConcatProperties
<1>10. Regroups(S)
  BY SequencesRegroup
<1>2. t = p \o y
  BY <1>10, ZenonT(30) DEF Regroups
<1>3. x \o v = p \o (b \o v)
  BY <1>10, ZenonT(30) DEF Regroups
<1>8. z \o b = p \o (v \o b)
  BY <1>10, ZenonT(30) DEF Regroups
<1>9. z \o y = (z \o b) \o q
  <2>1. z \in Seq(S)
    BY <1>1
  <2>4. y = b \o q
    OBVIOUS
  <2> HIDE DEF y, z
  <2>3. (z \o b) \o q = z \o (b \o q)
    BY <1>10, <2>1, Zenon DEF Regroups
  <2> QED
    BY <2>3, <2>4, Zenon
<1> HIDE DEF x, y, z
<1>4. t \in Seq(S) /\ Len(t) = Len(x) + Len(q) /\ SubSeq(t, 1, Len(x)) = x /\ SubSeq(t, Len(x) + 1, Len(t)) = q
  <2>1. x \in Seq(S) /\ q \in Seq(S)
    BY <1>1
  <2> QED
    BY ONLY <2>1, PartsOfConcat
<1> HIDE DEF t
<1>5. SubSeq(t, 1, Len(p)) = p /\ SubSeq(t, Len(p) + 1, Len(t)) = y
  <2>1. SubSeq(p \o y, 1, Len(p)) = p /\ SubSeq(p \o y, Len(p) + 1, Len(p \o y)) = y
    BY <1>1, PartsOfConcat
  <2> QED
    BY <1>2, <2>1, Zenon
<1>6. t = (p \o b) \o q
  BY DEF t, x
<1>7. z \o y = (p \o v) \o (b \o q) /\ (z \o b) \o q = (p \o (v \o b)) \o q
  BY <1>8, Zenon DEF y, z
<1> QED
  BY <1>1, <1>3, <1>4, <1>5, <1>6, <1>7, <1>9, Zenon DEF ThreeParts, x, y

-----------------------------------------------------------------------------
(* The first of some sequences, one more at a time.                         *)

LEMMA FlattenNext ==
    ASSUME NEW S, NEW seqs \in Seq(Seq(S)), NEW k \in Nat, k < Len(seqs)
    PROVE  /\ FlattenSeq(SubSeq(seqs, 1, k)) \in Seq(S) /\ FlattenSeq(Reverse(SubSeq(seqs, 1, k))) \in Seq(S)
           /\ FlattenSeq(SubSeq(seqs, 1, k + 1)) = FlattenSeq(SubSeq(seqs, 1, k)) \o seqs[k + 1]
           /\ FlattenSeq(Reverse(SubSeq(seqs, 1, k + 1))) = seqs[k + 1] \o FlattenSeq(Reverse(SubSeq(seqs, 1, k)))
<1> DEFINE u == SubSeq(seqs, 1, k)
           x == seqs[k + 1]
<1>1. u \in Seq(Seq(S)) /\ x \in Seq(S) /\ SubSeq(seqs, 1, k + 1) = Append(u, x)
  OBVIOUS
<1> HIDE DEF u, x
<1>2. FlattenSeq(u) \in Seq(S) /\ FlattenSeq(Append(u, x)) = FlattenSeq(u) \o x
  BY <1>1, FlattenTypes, FlattenAppend
<1>3. Reverse(u) \in Seq(Seq(S)) /\ Reverse(Append(u, x)) = <<x>> \o Reverse(u)
  BY <1>1, ReverseAppend
<1>4. <<x>> \in Seq(Seq(S))
  BY <1>1
<1>5. FlattenSeq(<<x>> \o Reverse(u)) = FlattenSeq(<<x>>) \o FlattenSeq(Reverse(u))
  BY <1>3, <1>4, FlattenConcat
<1>6. FlattenSeq(<<x>>) = x
  BY <1>1, FlattenOne
<1>7. FlattenSeq(Reverse(Append(u, x))) = x \o FlattenSeq(Reverse(u))
  BY <1>3, <1>5, <1>6, Zenon
<1>8. FlattenSeq(Reverse(u)) \in Seq(S)
  BY <1>3, FlattenTypes
<1> QED
  BY <1>1, <1>2, <1>7, <1>8, Zenon DEF u, x

-----------------------------------------------------------------------------
(* Selecting the elements of a set.                                         *)

\* What holds of the empty sequence and is kept by appending holds of all.
LEMMA AppendInduction ==
    ASSUME NEW E, NEW T, <<>> \in T, \A s \in Seq(E) : \A x \in E : s \in T => Append(s, x) \in T
    PROVE  \A s \in Seq(E) : s \in T
<1> SUFFICES ASSUME NEW s \in Seq(E) PROVE s \in T
  OBVIOUS
<1> DEFINE N == Len(s)
           U == {n \in Nat : n <= N => SubSeq(s, 1, n) \in T}
<1>1. N \in Nat /\ SubSeq(s, 1, N) = s /\ SubSeq(s, 1, 0) = <<>>
  OBVIOUS
<1>2. 0 \in U
  BY <1>1
<1>3. ASSUME NEW n \in Nat, n \in U PROVE n + 1 \in U
  <2> SUFFICES ASSUME n + 1 <= N PROVE SubSeq(s, 1, n + 1) \in T
    OBVIOUS
  <2>1. SubSeq(s, 1, n) \in Seq(E) /\ s[n + 1] \in E /\ SubSeq(s, 1, n + 1) = Append(SubSeq(s, 1, n), s[n + 1])
    OBVIOUS
  <2>2. SubSeq(s, 1, n) \in T
    BY <1>1, <1>3
  <2> QED
    BY <2>1, <2>2, Zenon
<1>4. N \in U
  <2> HIDE DEF U, N
  <2> QED
    BY <1>1, <1>2, <1>3, Induction
<1>5. SubSeq(s, 1, N) \in T
  BY <1>1, <1>4
<1> HIDE DEF N
<1> QED
  BY <1>1, <1>5, Zenon

\* What is selected of one more element.
Selected(kept, e, S) == IF e \in S THEN Append(kept, e) ELSE kept

\* f[n] is what is selected of the first n elements.
Selects(f, s, S) ==
    f = [n \in 0 .. Len(s) |-> IF n = 0 THEN <<>> ELSE Selected(f[n - 1], s[n], S)]

LEMMA SelectsSteps ==
    ASSUME NEW f, NEW s, Len(s) \in Nat, NEW S, Selects(f, s, S)
    PROVE  /\ f = [n \in 0 .. Len(s) |-> f[n]] /\ f[0] = <<>>
           /\ \A n \in 1 .. Len(s) : f[n] = Selected(f[n - 1], s[n], S)
<1> DEFINE N == Len(s)
           value(n) == IF n = 0 THEN <<>> ELSE Selected(f[n - 1], s[n], S)
<1>1. f = [n \in 0 .. N |-> value(n)]
  BY Zenon DEF Selects
<1> HIDE DEF value
<1>2. DOMAIN f = 0 .. N /\ \A n \in 0 .. N : f[n] = value(n)
  BY <1>1, Zenon
<1>3. f = [n \in 0 .. N |-> f[n]]
  BY <1>1, <1>2, Zenon
<1>4. 0 \in 0 .. N /\ \A n \in 1 .. N : n \in 0 .. N /\ n # 0
  OBVIOUS
<1> QED
  BY <1>2, <1>3, <1>4, Zenon DEF value

LEMMA AmongBySteps ==
    ASSUME NEW E, NEW s \in Seq(E), NEW S
    PROVE  \E f \in [0 .. Len(s) -> Seq(E)] : Selects(f, s, S) /\ Among(s, S) = f[Len(s)]
<1> DEFINE N == Len(s)
           step == [n \in 1 .. N |-> [q \in Seq(E) |-> Selected(q, s[n], S)]]
           g == CHOOSE f : Selects(f, s, S)
<1>1. N \in Nat /\ \A n \in 1 .. N : s[n] \in E
  OBVIOUS
<1>2. Among(s, S) = g[N]
  BY DEF Among, Selects, Selected
<1>3. \E f : Selects(f, s, S)
  <2>1. step \in [1 .. N -> [Seq(E) -> Seq(E)]]
    BY <1>1 DEF Selected
  <2>2. PICK f \in [0 .. N -> Seq(E)] : Recursion(f, N, <<>>, step)
    <3>1. <<>> \in Seq(E)
      OBVIOUS
    <3> HIDE DEF step, N
    <3> QED
      BY <1>1, <2>1, <3>1, RecursionExists
  <2>3. \A n \in 0 .. N : n # 0 => n - 1 \in 0 .. N /\ n \in 1 .. N
    BY <1>1
  <2>4. \A n \in 0 .. N : n # 0 => step[n][f[n - 1]] = Selected(f[n - 1], s[n], S)
    BY <1>1, <2>2, <2>3
  <2> HIDE DEF step
  <2>5. f = [n \in 0 .. N |-> IF n = 0 THEN <<>> ELSE step[n][f[n - 1]]]
    BY <2>2 DEF Recursion
  <2>6. f = [n \in 0 .. N |-> IF n = 0 THEN <<>> ELSE Selected(f[n - 1], s[n], S)]
    BY <2>4, <2>5
  <2> QED
    BY <2>6 DEF Selects
<1>4. Selects(g, s, S)
  BY <1>3
<1> HIDE DEF g, step
<1>5. g = [n \in 0 .. N |-> g[n]] /\ g[0] = <<>>
      /\ \A n \in 1 .. N : g[n] = Selected(g[n - 1], s[n], S)
  BY <1>1, <1>4, SelectsSteps
<1> DEFINE T == {n \in Nat : n <= N => g[n] \in Seq(E)}
<1>6. \A n \in Nat : n \in T
  <2>1. 0 \in T
    BY <1>5
  <2>2. ASSUME NEW n \in Nat, n \in T PROVE n + 1 \in T
    <3> SUFFICES ASSUME n + 1 <= N PROVE g[n + 1] \in Seq(E)
      OBVIOUS
    <3>1. n + 1 \in 1 .. N /\ n + 1 - 1 = n /\ n <= N
      BY <1>1
    <3>2. g[n] \in Seq(E) /\ s[n + 1] \in E
      BY <1>1, <2>2, <3>1
    <3>3. g[n + 1] = Selected(g[n], s[n + 1], S)
      BY <1>5, <3>1
    <3> QED
      BY <3>2, <3>3 DEF Selected
  <2> HIDE DEF T
  <2> QED
    BY <2>1, <2>2, Induction
<1>7. g \in [0 .. N -> Seq(E)]
  <2>1. \A n \in 0 .. N : g[n] \in Seq(E)
    BY <1>1, <1>6
  <2> QED
    BY <1>5, <2>1
<1> QED
  BY <1>2, <1>4, <1>7

LEMMA AmongTypes ==
    ASSUME NEW E, NEW s \in Seq(E), NEW S
    PROVE  Among(s, S) \in Seq(E)
<1>1. PICK f \in [0 .. Len(s) -> Seq(E)] : Among(s, S) = f[Len(s)]
  BY AmongBySteps
<1>2. Len(s) \in 0 .. Len(s)
  OBVIOUS
<1> QED
  BY <1>1, <1>2

LEMMA AmongEmpty ==
    ASSUME NEW S
    PROVE  Among(<<>>, S) = <<>>
<1>1. <<>> \in Seq({}) /\ Len(<<>>) = 0
  OBVIOUS
<1>2. PICK f \in [0 .. Len(<<>>) -> Seq({})] : Selects(f, <<>>, S) /\ Among(<<>>, S) = f[Len(<<>>)]
  BY <1>1, AmongBySteps
<1>3. f[0] = <<>>
  BY <1>1, <1>2 DEF Selects
<1> QED
  BY <1>1, <1>2, <1>3

LEMMA AmongAppend ==
    ASSUME NEW E, NEW s \in Seq(E), NEW x \in E, NEW S
    PROVE  Among(Append(s, x), S) = IF x \in S THEN Append(Among(s, S), x) ELSE Among(s, S)
<1> DEFINE N == Len(s)
           more == Append(s, x)
<1>1. /\ N \in Nat /\ more \in Seq(E) /\ Len(more) = N + 1 /\ more[N + 1] = x
      /\ \A n \in 1 .. N : more[n] = s[n]
  OBVIOUS
<1>2. PICK f \in [0 .. N -> Seq(E)] : Selects(f, s, S) /\ Among(s, S) = f[N]
  BY AmongBySteps
<1> HIDE DEF more
<1>3. PICK g \in [0 .. Len(more) -> Seq(E)] : Selects(g, more, S) /\ Among(more, S) = g[Len(more)]
  BY <1>1, AmongBySteps
<1>4. f[0] = <<>> /\ \A n \in 1 .. N : f[n] = Selected(f[n - 1], s[n], S)
  <2>1. Selects(f, s, S) /\ Len(s) \in Nat
    BY <1>1, <1>2
  <2>2. f[0] = <<>> /\ \A n \in 1 .. Len(s) : f[n] = Selected(f[n - 1], s[n], S)
    BY <2>1, SelectsSteps
  <2> QED
    BY <2>2
<1>5. g[0] = <<>> /\ \A n \in 1 .. N + 1 : g[n] = Selected(g[n - 1], more[n], S)
  <2>1. Selects(g, more, S) /\ Len(more) \in Nat
    BY <1>1, <1>3
  <2>2. g[0] = <<>> /\ \A n \in 1 .. Len(more) : g[n] = Selected(g[n - 1], more[n], S)
    BY ONLY <2>1, SelectsSteps
  <2> QED
    BY <1>1, <2>2, Zenon
<1> HIDE DEF N
<1> DEFINE T == {n \in Nat : n <= N => f[n] = g[n]}
<1>6. N \in T
  <2>1. 0 \in T
    BY <1>4, <1>5
  <2>2. ASSUME NEW n \in Nat, n \in T PROVE n + 1 \in T
    <3> SUFFICES ASSUME n + 1 <= N PROVE f[n + 1] = g[n + 1]
      OBVIOUS
    <3>1. n + 1 \in 1 .. N /\ n + 1 \in 1 .. N + 1 /\ n + 1 - 1 = n /\ n <= N
      BY <1>1
    <3>2. f[n + 1] = Selected(f[n], s[n + 1], S)
      BY <1>4, <3>1
    <3>3. g[n + 1] = Selected(g[n], more[n + 1], S)
      BY <1>5, <3>1
    <3>4. f[n] = g[n] /\ more[n + 1] = s[n + 1]
      BY <1>1, <2>2, <3>1
    <3> QED
      BY <3>2, <3>3, <3>4
  <2> HIDE DEF T
  <2> QED
    BY <1>1, <2>1, <2>2, Induction
<1>7. g[N + 1] = Selected(g[N], x, S)
  <2>1. N + 1 \in 1 .. N + 1 /\ N + 1 - 1 = N
    BY <1>1
  <2> QED
    BY <1>1, <1>5, <2>1
<1>8. f[N] = g[N]
  BY <1>1, <1>6
<1> QED
  BY <1>1, <1>2, <1>3, <1>7, <1>8, Zenon DEF more, Selected

LEMMA AmongConcat ==
    ASSUME NEW E, NEW s \in Seq(E), NEW t \in Seq(E), NEW S
    PROVE  Among(s \o t, S) = Among(s, S) \o Among(t, S)
<1> DEFINE T == {u \in Seq(E) : Among(s \o u, S) = Among(s, S) \o Among(u, S)}
           a == Among(s, S)
<1>1. a \in Seq(E) /\ a \o <<>> = a /\ s \o <<>> = s
  BY AmongTypes
<1>2. <<>> \in T
  <2>1. Among(s \o <<>>, S) = Among(s, S) \o Among(<<>>, S)
    BY <1>1, AmongEmpty, Zenon
  <2> QED
    BY <2>1
<1>3. ASSUME NEW u \in Seq(E), NEW x \in E, u \in T PROVE Append(u, x) \in T
  <2> DEFINE b == Among(u, S)
  <2>1. b \in Seq(E) /\ Among(s \o u, S) = a \o b
    BY <1>3, AmongTypes
  <2>2. s \o u \in Seq(E) /\ s \o Append(u, x) = Append(s \o u, x)
    BY ConcatProperties, ConcatAppend
  <2>3. Among(Append(s \o u, x), S) = IF x \in S THEN Append(Among(s \o u, S), x) ELSE Among(s \o u, S)
    BY <2>2, AmongAppend
  <2>4. Among(Append(u, x), S) = IF x \in S THEN Append(b, x) ELSE b
    BY AmongAppend
  <2> HIDE DEF a, b
  <2>5. a \o Append(b, x) = Append(a \o b, x)
    BY <1>1, <2>1, ConcatAppend
  <2>6. Among(s \o Append(u, x), S) = a \o Among(Append(u, x), S)
    BY <2>1, <2>2, <2>3, <2>4, <2>5, Zenon
  <2> QED
    BY <2>6 DEF a
<1> HIDE DEF T
<1>4. t \in T
  BY <1>2, <1>3, AppendInduction
<1> QED
  BY <1>4 DEF T

\* As one fact about all sequences.
Joins(S, D) == \A s \in Seq(S) : \A t \in Seq(S) : Among(s \o t, D) = Among(s, D) \o Among(t, D)

LEMMA AmongJoins ==
    ASSUME NEW S, NEW D
    PROVE  Joins(S, D)
BY AmongConcat DEF Joins

LEMMA ToSetAppend ==
    ASSUME NEW E, NEW s \in Seq(E), NEW x \in E
    PROVE  ToSet(Append(s, x)) = ToSet(s) \cup {x}
<1>1. /\ Len(s) \in Nat /\ Len(Append(s, x)) = Len(s) + 1 /\ Append(s, x)[Len(s) + 1] = x
      /\ \A i \in 1 .. Len(s) : Append(s, x)[i] = s[i]
      /\ DOMAIN s = 1 .. Len(s) /\ DOMAIN Append(s, x) = 1 .. Len(s) + 1
  OBVIOUS
<1>2. Len(s) + 1 \in 1 .. Len(s) + 1 /\ \A i \in 1 .. Len(s) + 1 : i = Len(s) + 1 \/ i \in 1 .. Len(s)
  BY <1>1
<1>3. \A i \in 1 .. Len(s) : i \in 1 .. Len(s) + 1
  BY <1>1
<1> QED
  BY <1>1, <1>2, <1>3, Zenon DEF ToSet

LEMMA AmongElements ==
    ASSUME NEW E, NEW s \in Seq(E), NEW S
    PROVE  ToSet(Among(s, S)) = ToSet(s) \cap S
<1> DEFINE T == {u \in Seq(E) : ToSet(Among(u, S)) = ToSet(u) \cap S}
<1>1. <<>> \in T
  <2>1. ToSet(<<>>) = {}
    BY DEF ToSet
  <2>2. ToSet(Among(<<>>, S)) = ToSet(<<>>) \cap S
    BY <2>1, AmongEmpty
  <2> QED
    BY <2>2
<1>2. ASSUME NEW u \in Seq(E), NEW x \in E, u \in T PROVE Append(u, x) \in T
  <2>1. Among(u, S) \in Seq(E) /\ ToSet(Among(u, S)) = ToSet(u) \cap S
    BY <1>2, AmongTypes
  <2>2. ToSet(Append(u, x)) = ToSet(u) \cup {x} /\ ToSet(Append(Among(u, S), x)) = ToSet(Among(u, S)) \cup {x}
    BY <2>1, ToSetAppend
  <2>3. Among(Append(u, x), S) = IF x \in S THEN Append(Among(u, S), x) ELSE Among(u, S)
    BY AmongAppend
  <2>4. ToSet(Among(Append(u, x), S)) = ToSet(Append(u, x)) \cap S
    <3>1. CASE x \in S
      BY <2>1, <2>2, <2>3, <3>1
    <3>2. CASE x \notin S
      BY <2>1, <2>2, <2>3, <3>2
    <3> QED
      BY <3>1, <3>2
  <2> QED
    BY <2>4
<1> HIDE DEF T
<1>3. s \in T
  BY <1>1, <1>2, AppendInduction
<1> QED
  BY <1>3 DEF T

LEMMA AmongAll ==
    ASSUME NEW E, NEW s \in Seq(E), NEW S, ToSet(s) \subseteq S
    PROVE  Among(s, S) = s
<1> DEFINE T == {u \in Seq(E) : ToSet(u) \subseteq S => Among(u, S) = u}
<1>1. <<>> \in T
  BY AmongEmpty
<1>2. ASSUME NEW u \in Seq(E), NEW x \in E, u \in T PROVE Append(u, x) \in T
  <2>1. ToSet(Append(u, x)) = ToSet(u) \cup {x}
    BY ToSetAppend
  <2>2. Among(Append(u, x), S) = IF x \in S THEN Append(Among(u, S), x) ELSE Among(u, S)
    BY AmongAppend
  <2> QED
    BY <1>2, <2>1, <2>2
<1> HIDE DEF T
<1>3. s \in T
  BY <1>1, <1>2, AppendInduction
<1> QED
  BY <1>3 DEF T

LEMMA AmongNone ==
    ASSUME NEW E, NEW s \in Seq(E), NEW S, ToSet(s) \cap S = {}
    PROVE  Among(s, S) = <<>>
<1>1. Among(s, S) \in Seq(E) /\ ToSet(Among(s, S)) = {}
  BY AmongTypes, AmongElements
<1>2. ASSUME NEW u \in Seq(E), ToSet(u) = {} PROVE u = <<>>
  <2>1. Len(u) = 0
    <3>1. 1 \in DOMAIN u => u[1] \in ToSet(u)
      BY DEF ToSet
    <3> QED
      BY <1>2, <3>1
  <2> QED
    BY <2>1
<1> QED
  BY <1>1, <1>2

LEMMA ToSetConcat ==
    ASSUME NEW E, NEW s \in Seq(E), NEW t \in Seq(E)
    PROVE  ToSet(s \o t) = ToSet(s) \cup ToSet(t)
<1> DEFINE T == {u \in Seq(E) : ToSet(s \o u) = ToSet(s) \cup ToSet(u)}
<1>1. <<>> \in T
  <2>1. s \o <<>> = s /\ ToSet(<<>>) = {}
    BY DEF ToSet
  <2>2. ToSet(s \o <<>>) = ToSet(s) \cup ToSet(<<>>)
    BY <2>1
  <2> QED
    BY <2>2
<1>2. ASSUME NEW u \in Seq(E), NEW x \in E, u \in T PROVE Append(u, x) \in T
  <2>1. s \o u \in Seq(E) /\ s \o Append(u, x) = Append(s \o u, x)
    BY ConcatProperties, ConcatAppend
  <2>2. ToSet(Append(s \o u, x)) = ToSet(s \o u) \cup {x} /\ ToSet(Append(u, x)) = ToSet(u) \cup {x}
    <3> DEFINE d == s \o u
    <3>1. d \in Seq(E)
      BY <2>1
    <3> HIDE DEF d
    <3>2. ToSet(Append(d, x)) = ToSet(d) \cup {x}
      BY <3>1, ToSetAppend
    <3>3. ToSet(Append(u, x)) = ToSet(u) \cup {x}
      BY ToSetAppend
    <3> QED
      BY <3>2, <3>3 DEF d
  <2>3. ToSet(s \o u) = ToSet(s) \cup ToSet(u)
    BY <1>2
  <2>4. ToSet(s \o Append(u, x)) = ToSet(s) \cup ToSet(Append(u, x))
    BY <2>1, <2>2, <2>3
  <2> QED
    BY <2>4
<1> HIDE DEF T
<1>3. t \in T
  BY <1>1, <1>2, AppendInduction
<1> QED
  BY <1>3 DEF T

-----------------------------------------------------------------------------
(* A sequence turned around, in two parts.                                  *)

LEMMA ReverseConcat ==
    ASSUME NEW E, NEW s \in Seq(E), NEW t \in Seq(E)
    PROVE  Reverse(s \o t) = Reverse(t) \o Reverse(s)
<1> DEFINE T == {u \in Seq(E) : Reverse(s \o u) = Reverse(u) \o Reverse(s)}
           r == Reverse(s)
<1>0. Regroups(E) /\ r \in Seq(E)
  <2>1. Regroups(E)
    BY SequencesRegroup
  <2>2. r \in Seq(E)
    BY DEF Reverse
  <2> QED
    BY <2>1, <2>2, Zenon
<1>1. <<>> \in T
  <2>1. s \o <<>> = s /\ Reverse(<<>>) = <<>> /\ <<>> \o r = r
    BY <1>0 DEF Reverse
  <2>2. Reverse(s \o <<>>) = Reverse(<<>>) \o Reverse(s)
    BY <2>1, Zenon
  <2> QED
    BY <2>2
<1>2. ASSUME NEW u \in Seq(E), NEW x \in E, u \in T PROVE Append(u, x) \in T
  <2>1. s \o u \in Seq(E) /\ s \o Append(u, x) = Append(s \o u, x)
    BY ConcatProperties, ConcatAppend
  <2>2. Reverse(s \o u) = Reverse(u) \o r
    BY <1>2
  <2> DEFINE d == s \o u
             q == Reverse(u)
             e == <<x>>
  <2>3. d \in Seq(E) /\ e \in Seq(E)
    BY <2>1
  <2>4. q \in Seq(E) /\ Reverse(Append(u, x)) = e \o q
    BY ReverseAppend
  <2> HIDE DEF d, q, e, r
  <2>5. Reverse(Append(d, x)) = <<x>> \o Reverse(d)
    BY <2>3, ReverseAppend
  <2>6. (e \o q) \o r = e \o (q \o r)
    <3>1. Regroups(E) /\ e \in Seq(E) /\ q \in Seq(E) /\ r \in Seq(E)
      BY <1>0, <2>3, <2>4
    <3> QED
      BY ONLY <3>1, Zenon DEF Regroups
  <2>7. Reverse(s \o Append(u, x)) = Reverse(Append(u, x)) \o r
    <3>1. Reverse(s \o Append(u, x)) = e \o (q \o r)
      BY <2>1, <2>2, <2>5, Zenon DEF d, q, e
    <3> QED
      BY <2>4, <2>6, <3>1, Zenon
  <2> QED
    BY <2>7 DEF r
<1> HIDE DEF T
<1>3. t \in T
  BY <1>1, <1>2, AppendInduction
<1> QED
  BY <1>3 DEF T

-----------------------------------------------------------------------------
(* An operation that is applied to each chunk of a sequence.                *)

LEMMA SeqOfItself ==
    ASSUME NEW n \in Nat, NEW f, f = [i \in 1 .. n |-> f[i]]
    PROVE  f \in Seq(ToSet(f)) /\ Len(f) = n
<1>1. DOMAIN f = 1 .. n
  BY Zenon
<1>2. f \in [1 .. n -> ToSet(f)]
  BY <1>1 DEF ToSet
<1> QED
  BY <1>2

\* f of a sequence is put together from f of its parts.
Distributes(f, E, F) ==
    /\ f \in [Seq(E) -> Seq(F)] /\ f[<<>>] = <<>>
    /\ \A s \in Seq(E) : \A t \in Seq(E) : f[s \o t] = f[s] \o f[t]

OfEach(f, chunks) == [c \in DOMAIN chunks |-> f[chunks[c]]]

LEMMA OfEachAppend ==
    ASSUME NEW E, NEW F, NEW f, Distributes(f, E, F), NEW u \in Seq(Seq(E)), NEW x \in Seq(E)
    PROVE  /\ OfEach(f, u) \in Seq(Seq(F)) /\ f[x] \in Seq(F)
           /\ OfEach(f, Append(u, x)) = Append(OfEach(f, u), f[x])
<1>0. f \in [Seq(E) -> Seq(F)]
  BY DEF Distributes
<1>1. Len(u) \in Nat /\ DOMAIN u = 1 .. Len(u) /\ \A c \in 1 .. Len(u) : u[c] \in Seq(E)
  OBVIOUS
<1>2. OfEach(f, u) \in Seq(Seq(F)) /\ Len(OfEach(f, u)) = Len(u)
  BY <1>0, <1>1 DEF OfEach
<1>3. OfEach(f, Append(u, x)) = Append(OfEach(f, u), f[x])
  BY <1>0, <1>1 DEF OfEach
<1> QED
  BY <1>0, <1>2, <1>3

\* Chunk by chunk or all at once.
LEMMA FlattenOfEach ==
    ASSUME NEW E, NEW F, NEW f, Distributes(f, E, F), NEW chunks \in Seq(Seq(E))
    PROVE  FlattenSeq(OfEach(f, chunks)) = f[FlattenSeq(chunks)]
<1> DEFINE T == {u \in Seq(Seq(E)) : FlattenSeq(OfEach(f, u)) = f[FlattenSeq(u)]}
<1>1. <<>> \in T
  <2>1. OfEach(f, <<>>) = <<>> /\ f[<<>>] = <<>>
    BY DEF OfEach, Distributes
  <2>2. FlattenSeq(OfEach(f, <<>>)) = f[FlattenSeq(<<>>)]
    BY <2>1, FlattenEmpty, Zenon
  <2> QED
    BY <2>2
<1>2. ASSUME NEW u \in Seq(Seq(E)), NEW x \in Seq(E), u \in T PROVE Append(u, x) \in T
  <2>1. /\ f \in [Seq(E) -> Seq(F)]
        /\ \A s \in Seq(E) : \A t \in Seq(E) : f[s \o t] = f[s] \o f[t]
    BY DEF Distributes
  <2>2. OfEach(f, u) \in Seq(Seq(F)) /\ OfEach(f, Append(u, x)) = Append(OfEach(f, u), f[x]) /\ f[x] \in Seq(F)
    BY OfEachAppend
  <2>3. FlattenSeq(Append(OfEach(f, u), f[x])) = FlattenSeq(OfEach(f, u)) \o f[x]
    BY <2>2, FlattenAppend
  <2>4. FlattenSeq(u) \in Seq(E) /\ FlattenSeq(Append(u, x)) = FlattenSeq(u) \o x
    BY FlattenTypes, FlattenAppend
  <2>5. f[FlattenSeq(u) \o x] = f[FlattenSeq(u)] \o f[x]
    BY <2>1, <2>4, Zenon
  <2>6. FlattenSeq(OfEach(f, u)) = f[FlattenSeq(u)]
    BY <1>2
  <2>7. FlattenSeq(OfEach(f, Append(u, x))) = f[FlattenSeq(Append(u, x))]
    BY <2>2, <2>3, <2>4, <2>5, <2>6, Zenon
  <2> QED
    BY <2>7
<1> HIDE DEF T
<1>3. chunks \in T
  BY <1>1, <1>2, AppendInduction
<1> QED
  BY <1>3 DEF T

Mapped(g, s) == [i \in DOMAIN s |-> g[s[i]]]

LEMMA MappedTypes ==
    ASSUME NEW E, NEW F, NEW g \in [E -> F], NEW s \in Seq(E)
    PROVE  Mapped(g, s) \in Seq(F) /\ Len(Mapped(g, s)) = Len(s)
<1>1. Len(s) \in Nat /\ DOMAIN s = 1 .. Len(s) /\ \A i \in 1 .. Len(s) : s[i] \in E
  OBVIOUS
<1> QED
  BY <1>1 DEF Mapped

MappedJoins(g, E) == \A s \in Seq(E) : \A t \in Seq(E) : Mapped(g, s \o t) = Mapped(g, s) \o Mapped(g, t)

LEMMA MappedConcat ==
    ASSUME NEW E, NEW F, NEW g \in [E -> F]
    PROVE  MappedJoins(g, E)
<1> SUFFICES ASSUME NEW s \in Seq(E), NEW t \in Seq(E)
             PROVE  Mapped(g, s \o t) = Mapped(g, s) \o Mapped(g, t)
  BY DEF MappedJoins
<1> DEFINE T == {u \in Seq(E) : Mapped(g, s \o u) = Mapped(g, s) \o Mapped(g, u)}
           a == Mapped(g, s)
<1>1. ASSUME NEW u \in Seq(E), NEW x \in E PROVE Mapped(g, Append(u, x)) = Append(Mapped(g, u), g[x])
  <2>1. Len(u) \in Nat /\ DOMAIN u = 1 .. Len(u) /\ \A i \in 1 .. Len(u) : u[i] \in E
    OBVIOUS
  <2> QED
    BY <2>1 DEF Mapped
<1>2. <<>> \in T
  <2>1. s \o <<>> = s /\ Mapped(g, <<>>) = <<>> /\ a \o <<>> = a
    BY MappedTypes DEF Mapped
  <2>2. Mapped(g, s \o <<>>) = Mapped(g, s) \o Mapped(g, <<>>)
    BY <2>1, Zenon
  <2> QED
    BY <2>2
<1>3. ASSUME NEW u \in Seq(E), NEW x \in E, u \in T PROVE Append(u, x) \in T
  <2> DEFINE d == s \o u
             b == Mapped(g, u)
  <2>1. d \in Seq(E) /\ s \o Append(u, x) = Append(d, x)
    BY ConcatProperties, ConcatAppend
  <2>2. a \in Seq(F) /\ b \in Seq(F) /\ g[x] \in F
    BY MappedTypes
  <2>3. Mapped(g, d) = a \o b
    BY <1>3
  <2> HIDE DEF d, a, b
  <2>4. a \o Append(b, g[x]) = Append(a \o b, g[x])
    BY <2>2, ConcatAppend
  <2>5. Mapped(g, Append(d, x)) = Append(Mapped(g, d), g[x]) /\ Mapped(g, Append(u, x)) = Append(Mapped(g, u), g[x])
    BY <1>1, <2>1
  <2>6. Mapped(g, s \o Append(u, x)) = a \o Mapped(g, Append(u, x))
    BY <2>1, <2>3, <2>4, <2>5, Zenon DEF b
  <2> QED
    BY <2>6 DEF a
<1> HIDE DEF T
<1>4. t \in T
  BY <1>2, <1>3, AppendInduction
<1> QED
  BY <1>4 DEF T

\* Elements that are read one by one.
LEMMA MappedDistributes ==
    ASSUME NEW E, NEW F, NEW g \in [E -> F]
    PROVE  Distributes([s \in Seq(E) |-> Mapped(g, s)], E, F)
<1>1. \A s \in Seq(E) : Mapped(g, s) \in Seq(F)
  BY MappedTypes
<1>2. MappedJoins(g, E)
  BY MappedConcat, Zenon
<1>3. Mapped(g, <<>>) = <<>>
  BY DEF Mapped
<1>4. \A s \in Seq(E) : \A t \in Seq(E) : s \o t \in Seq(E)
  BY ConcatProperties
<1> QED
  BY <1>1, <1>2, <1>3, <1>4 DEF Distributes, MappedJoins

\* And of which only some are kept.
LEMMA SomeMappedDistributes ==
    ASSUME NEW E, NEW F, NEW g \in [E -> F], NEW S
    PROVE  Distributes([s \in Seq(E) |-> Among(Mapped(g, s), S)], E, F)
<1>1. \A s \in Seq(E) : Mapped(g, s) \in Seq(F)
  BY MappedTypes
<1>2. \A s \in Seq(E) : Among(Mapped(g, s), S) \in Seq(F)
  BY <1>1, AmongTypes
<1>3. MappedJoins(g, E) /\ Joins(F, S)
  BY MappedConcat, AmongJoins, Zenon
<1>4. Among(Mapped(g, <<>>), S) = <<>>
  <2>1. Mapped(g, <<>>) = <<>>
    BY DEF Mapped
  <2> QED
    BY <2>1, AmongEmpty, Zenon
<1>5. \A s \in Seq(E) : \A t \in Seq(E) : s \o t \in Seq(E)
  BY ConcatProperties
<1>6. ASSUME NEW s \in Seq(E), NEW t \in Seq(E)
      PROVE  Among(Mapped(g, s \o t), S) = Among(Mapped(g, s), S) \o Among(Mapped(g, t), S)
  BY <1>1, <1>3, Zenon DEF MappedJoins, Joins
<1> QED
  BY <1>2, <1>4, <1>5, <1>6 DEF Distributes

\* Only the elements that occur matter.
LEMMA AmongSame ==
    ASSUME NEW E, NEW s \in Seq(E), NEW A, NEW B, ToSet(s) \cap A = ToSet(s) \cap B
    PROVE  Among(s, A) = Among(s, B)
<1> DEFINE T == {u \in Seq(E) : ToSet(u) \cap A = ToSet(u) \cap B => Among(u, A) = Among(u, B)}
<1>1. <<>> \in T
  BY AmongEmpty
<1>2. ASSUME NEW u \in Seq(E), NEW x \in E, u \in T PROVE Append(u, x) \in T
  <2>1. ToSet(Append(u, x)) = ToSet(u) \cup {x}
    BY ToSetAppend
  <2>2. /\ Among(Append(u, x), A) = IF x \in A THEN Append(Among(u, A), x) ELSE Among(u, A)
        /\ Among(Append(u, x), B) = IF x \in B THEN Append(Among(u, B), x) ELSE Among(u, B)
    BY AmongAppend
  <2>3. ASSUME ToSet(Append(u, x)) \cap A = ToSet(Append(u, x)) \cap B
        PROVE  Among(Append(u, x), A) = Among(Append(u, x), B)
    <3>1. ToSet(u) \cap A = ToSet(u) \cap B /\ (x \in A <=> x \in B)
      BY <2>1, <2>3
    <3>2. Among(u, A) = Among(u, B)
      BY <1>2, <3>1
    <3> QED
      BY <2>2, <3>1, <3>2
  <2>4. Append(u, x) \in Seq(E)
    OBVIOUS
  <2> QED
    BY <2>3, <2>4
<1> HIDE DEF T
<1>3. s \in T
  BY <1>1, <1>2, AppendInduction
<1> QED
  BY <1>3 DEF T

=============================================================================
