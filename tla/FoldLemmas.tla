----------------------------- MODULE FoldLemmas -----------------------------
(***************************************************************************)
(* Induction with sets in the place of predicates, and what the folds of   *)
(* the models compute: FlattenSeq one element at a time from either end,   *)
(* and sums over finite functions.                                         *)
(***************************************************************************)
EXTENDS Integers, SequencesExt, FiniteSetsExt, SequenceTheorems, FiniteSetTheorems,
        WellFoundedInduction, TLAPS

\* A set of natural numbers with an element has a least one.
LEMMA LeastNat ==
    ASSUME NEW T, T \subseteq Nat, T # {}
    PROVE  \E x \in T : \A y \in T : x <= y
<1>1. IsWellFoundedOn(OpToRel(<, Nat), Nat)
  BY NatLessThanWellFounded
<1>2. PICK x \in T : \A y \in T : ~ (<<y, x>> \in OpToRel(<, Nat))
  BY <1>1, WFMin
<1>3. \A y \in T : ~(y < x)
  BY <1>2 DEF OpToRel
<1>4. QED
  BY <1>3

\* Induction, with the numbers that have the property as a set.
LEMMA Induction ==
    ASSUME NEW S, 0 \in S, \A n \in Nat : n \in S => n + 1 \in S
    PROVE  Nat \subseteq S
<1> SUFFICES ASSUME Nat \ S # {} PROVE FALSE
  OBVIOUS
<1>1. PICK n \in Nat \ S : \A k \in Nat \ S : n <= k
  BY LeastNat
<1>2. n # 0 /\ n - 1 \in Nat
  BY <1>1
<1>3. n - 1 \in S
  BY <1>1, <1>2
<1>4. n \in S
  BY <1>2, <1>3
<1>5. QED
  BY <1>1, <1>4

-----------------------------------------------------------------------------
(* Recursion over 0..n, the step being a function of the index and of what *)
(* was computed before.                                                    *)

Recurs(g, base, step, n) ==
    g[0] = base /\ \A i \in 1..n : g[i] = step[<<i, g[i - 1]>>]

LEMMA RecursionExists ==
    ASSUME NEW n \in Nat, NEW V, NEW base \in V, NEW step \in [(1..n) \X V -> V]
    PROVE  \E g \in [0..n -> V] : Recurs(g, base, step, n)
<1> DEFINE S == {k \in Nat : k <= n => \E g \in [0..k -> V] : Recurs(g, base, step, k)}
<1>1. 0 \in S
  <2>1. [i \in 0..0 |-> base] \in [0..0 -> V] /\ Recurs([i \in 0..0 |-> base], base, step, 0)
    BY DEF Recurs
  <2>2. QED
    BY <2>1
<1>2. ASSUME NEW k \in Nat, k \in S PROVE k + 1 \in S
  <2> SUFFICES ASSUME k + 1 <= n
               PROVE  \E g \in [0..(k + 1) -> V] : Recurs(g, base, step, k + 1)
    OBVIOUS
  <2>1. PICK g \in [0..k -> V] : Recurs(g, base, step, k)
    BY <1>2
  <2> DEFINE h == [i \in 0..(k + 1) |-> IF i = k + 1 THEN step[<<k + 1, g[k]>>] ELSE g[i]]
  <2>2. step[<<k + 1, g[k]>>] \in V
    OBVIOUS
  <2>3. h \in [0..(k + 1) -> V]
    BY <2>2
  <2>4. Recurs(h, base, step, k + 1)
    <3>1. h[0] = base /\ h[k + 1] = step[<<k + 1, g[k]>>] /\ h[k] = g[k]
      BY <2>1 DEF Recurs
    <3>2. \A i \in 1..k : h[i] = g[i] /\ h[i - 1] = g[i - 1]
      OBVIOUS
    <3> HIDE DEF h
    <3>3. \A i \in 1..k : h[i] = step[<<i, h[i - 1]>>]
      BY <2>1, <3>2 DEF Recurs
    <3>4. QED
      BY <3>1, <3>3 DEF Recurs
  <2>5. QED
    BY <2>3, <2>4
<1>3. Nat \subseteq S
  <2> HIDE DEF S
  <2> QED
    BY <1>1, <1>2, Induction
<1>4. QED
  BY <1>3

LEMMA RecursionUnique ==
    ASSUME NEW n \in Nat, NEW base, NEW step, NEW f, NEW g,
           Recurs(f, base, step, n), Recurs(g, base, step, n)
    PROVE  \A i \in 0..n : f[i] = g[i]
<1> DEFINE S == {k \in Nat : k <= n => f[k] = g[k]}
<1>1. 0 \in S
  BY DEF Recurs
<1>2. ASSUME NEW k \in Nat, k \in S PROVE k + 1 \in S
  <2> SUFFICES ASSUME k + 1 <= n PROVE f[k + 1] = g[k + 1]
    OBVIOUS
  <2>1. f[k + 1 - 1] = g[k + 1 - 1] /\ k + 1 \in 1..n
    BY <1>2
  <2>2. /\ f[k + 1] = step[<<k + 1, f[k + 1 - 1]>>]
        /\ g[k + 1] = step[<<k + 1, g[k + 1 - 1]>>]
    <3>1. \A i \in 1..n : f[i] = step[<<i, f[i - 1]>>] /\ g[i] = step[<<i, g[i - 1]>>]
      BY DEF Recurs
    <3>2. QED
      BY <2>1, <3>1
  <2>3. QED
    BY <2>1, <2>2, Zenon
<1>3. Nat \subseteq S
  <2> HIDE DEF S
  <2> QED
    BY <1>1, <1>2, Induction
<1>4. QED
  BY <1>3

-----------------------------------------------------------------------------
(* FlattenSeq.                                                             *)

Associative(T) == \A s, t, u \in Seq(T) : (s \o t) \o u = s \o (t \o u)

LEMMA Associates == ASSUME NEW T PROVE Associative(T)
BY ConcatAssociative DEF Associative

\* What has been joined after i sequences.
Joins(g, seqs) ==
    /\ DOMAIN g = 0..Len(seqs)
    /\ g[0] = <<>>
    /\ \A i \in 1..Len(seqs) : g[i] = g[i - 1] \o seqs[i]

LEMMA JoinsExists ==
    ASSUME NEW T, NEW seqs \in Seq(Seq(T))
    PROVE  \E g \in [0..Len(seqs) -> Seq(T)] : Joins(g, seqs)
<1> DEFINE n == Len(seqs)
           V == Seq(T)
           step == [p \in (1..n) \X V |-> p[2] \o seqs[p[1]]]
<1>1. n \in Nat /\ <<>> \in V
  OBVIOUS
<1>2. \A i \in 1..n, v \in V : v \o seqs[i] \in V
  OBVIOUS
<1>3. step \in [(1..n) \X V -> V]
  BY <1>2
<1>4. \A i \in 1..n, v \in V : step[<<i, v>>] = v \o seqs[i]
  OBVIOUS
<1> HIDE DEF step, V, n
<1>5. PICK g \in [0..n -> V] : Recurs(g, <<>>, step, n)
  BY <1>1, <1>3, RecursionExists
<1>6. \A i \in 1..n : g[i] = g[i - 1] \o seqs[i]
  <2> SUFFICES ASSUME NEW i \in 1..n PROVE g[i] = g[i - 1] \o seqs[i]
    OBVIOUS
  <2>1. g[i - 1] \in V
    BY <1>1
  <2>2. QED
    BY <1>4, <1>5, <2>1 DEF Recurs
<1>7. QED
  BY <1>5, <1>6 DEF Joins, Recurs, n, V

LEMMA FlattenIs ==
    ASSUME NEW T, NEW seqs \in Seq(Seq(T)), NEW g \in [0..Len(seqs) -> Seq(T)], Joins(g, seqs)
    PROVE  FlattenSeq(seqs) = g[Len(seqs)]
<1> DEFINE n == Len(seqs)
           J(v, i) == v \o seqs[i]
           F(f, i) == IF i = 1 THEN seqs[i] ELSE J(f[i - 1], i)
           Flattens(f) == f = [i \in 1..n |-> F(f, i)]
<1>1. n \in Nat /\ DOMAIN seqs = 1..n
  OBVIOUS
<1>2. CASE n = 0
  <2>1. seqs = <<>>
    BY <1>2
  <2>2. FlattenSeq(seqs) = <<>>
    BY <2>1 DEF FlattenSeq
  <2>3. QED
    BY <1>2, <2>2 DEF Joins
<1>3. CASE n # 0
  <2>1. FlattenSeq(seqs) = (CHOOSE f : Flattens(f))[n]
    BY <1>3 DEF FlattenSeq
  <2>2. \A i \in 1..n : g[i] = J(g[i - 1], i)
    BY DEF Joins
  <2>3. J(<<>>, 1) = seqs[1]
    BY <1>3
  <2> HIDE DEF J
  <2>4. \A i \in 1..n : g[i] = F(g, i)
    <3>1. g[1] = seqs[1]
      BY <1>1, <1>3, <2>2, <2>3 DEF Joins
    <3>2. QED
      BY <2>2, <3>1
  <2> DEFINE e == [i \in 1..n |-> g[i]]
  <2>5. \A i \in 1..n : F(e, i) = F(g, i)
    BY <1>1
  <2>6. e = [i \in 1..n |-> F(e, i)]
    BY <2>4, <2>5
  <2> DEFINE c == CHOOSE f : Flattens(f)
  <2>7. Flattens(c)
    BY <2>6
  <2> HIDE DEF c, e
  <2>8. \A i \in 1..n : c[i] = F(c, i)
    <3> HIDE DEF F
    <3> QED
      BY <2>7
  <2> DEFINE S == {k \in Nat : k \in 1..n => c[k] = g[k]}
  <2>9. 0 \in S
    OBVIOUS
  <2>10. ASSUME NEW k \in Nat, k \in S PROVE k + 1 \in S
    <3> SUFFICES ASSUME k + 1 \in 1..n PROVE c[k + 1] = g[k + 1]
      OBVIOUS
    <3>1. F(c, k + 1) = F(g, k + 1)
      BY <2>10
    <3>2. QED
      BY <2>4, <2>8, <3>1, Zenon
  <2>11. Nat \subseteq S
    <3> HIDE DEF S
    <3> QED
      BY <2>9, <2>10, Induction
  <2>12. c[n] = g[n]
    BY <1>1, <1>3, <2>11
  <2>13. QED
    BY <2>1, <2>12 DEF c
<1>4. QED
  BY <1>2, <1>3

LEMMA FlattenEmpty == FlattenSeq(<<>>) = <<>>
BY DEF FlattenSeq

LEMMA FlattenType ==
    ASSUME NEW T, NEW seqs \in Seq(Seq(T))
    PROVE  FlattenSeq(seqs) \in Seq(T)
<1>1. PICK g \in [0..Len(seqs) -> Seq(T)] : Joins(g, seqs)
  BY JoinsExists
<1>2. Len(seqs) \in 0..Len(seqs)
  OBVIOUS
<1>3. QED
  BY <1>1, <1>2, FlattenIs

\* One more at the end.
LEMMA FlattenAppend ==
    ASSUME NEW T, NEW seqs \in Seq(Seq(T)), NEW s \in Seq(T)
    PROVE  FlattenSeq(Append(seqs, s)) = FlattenSeq(seqs) \o s
<1> DEFINE more == Append(seqs, s)
           n == Len(seqs)
<1>1. PICK g \in [0..n -> Seq(T)] : Joins(g, seqs)
  BY JoinsExists
<1>2. FlattenSeq(seqs) = g[n]
  BY <1>1, FlattenIs
<1>3. /\ more \in Seq(Seq(T)) /\ Len(more) = n + 1 /\ n \in Nat
      /\ more[n + 1] = s /\ \A i \in 1..n : more[i] = seqs[i]
  BY AppendProperties
<1>4. g[n] \in Seq(T) /\ g[n] \o s \in Seq(T)
  BY <1>3
<1> DEFINE h == [i \in 0..(n + 1) |-> IF i = n + 1 THEN g[n] \o s ELSE g[i]]
<1>5. h \in [0..(n + 1) -> Seq(T)] /\ h[n + 1] = g[n] \o s
  BY <1>3, <1>4
<1>6. \A i \in 0..n : h[i] = g[i]
  BY <1>3
<1> HIDE DEF more, n, h
<1>7. Joins(h, more)
  <2>1. DOMAIN h = 0..Len(more) /\ h[0] = <<>>
    BY <1>1, <1>3, <1>5, <1>6 DEF Joins, n
  <2>2. ASSUME NEW i \in 1..Len(more) PROVE h[i] = h[i - 1] \o more[i]
    <3>1. CASE i = n + 1
      <4>1. i - 1 = n /\ n \in 0..n
        BY <1>3, <3>1
      <4>2. h[i - 1] = g[n]
        BY <1>6, <4>1
      <4>3. QED
        BY <1>3, <1>5, <3>1, <4>2, Zenon
    <3>2. CASE i # n + 1
      <4>1. i \in 1..n /\ i - 1 \in 0..n
        BY <1>3, <2>2, <3>2
      <4>2. g[i] = g[i - 1] \o seqs[i]
        BY <1>1, <4>1 DEF Joins, n
      <4>3. h[i] = g[i] /\ h[i - 1] = g[i - 1] /\ more[i] = seqs[i]
        BY <1>3, <1>6, <4>1
      <4>4. QED
        BY <4>2, <4>3, Zenon
    <3>3. QED
      BY <3>1, <3>2
  <2>3. QED
    BY <2>1, <2>2 DEF Joins
<1>8. FlattenSeq(more) = h[n + 1]
  BY <1>3, <1>5, <1>7, FlattenIs
<1>9. QED
  BY <1>2, <1>5, <1>8 DEF more

\* One more at the front.
LEMMA FlattenTail ==
    ASSUME NEW T, NEW seqs \in Seq(Seq(T)), seqs # <<>>
    PROVE  FlattenSeq(seqs) = Head(seqs) \o FlattenSeq(Tail(seqs))
<1> DEFINE rest == Tail(seqs)
           first == Head(seqs)
           n == Len(seqs)
<1>1. n \in Nat /\ n # 0
  BY EmptySeq
<1>2. /\ rest \in Seq(Seq(T)) /\ Len(rest) = n - 1 /\ first \in Seq(T) /\ first = seqs[1]
      /\ \A i \in 1..(n - 1) : rest[i] = seqs[i + 1]
  BY HeadTailProperties
<1>3. seqs \in [1..n -> Seq(T)]
  OBVIOUS
<1> HIDE DEF rest, first
<1>4. PICK g \in [0..(n - 1) -> Seq(T)] : Joins(g, rest)
  BY <1>2, JoinsExists
<1>5. FlattenSeq(rest) = g[n - 1]
  BY <1>2, <1>4, FlattenIs
<1> DEFINE h == [i \in 0..n |-> IF i = 0 THEN <<>> ELSE first \o g[i - 1]]
<1> HIDE DEF n
<1>6. \A i \in 1..n : i - 1 \in 0..(n - 1) /\ i \in 0..n /\ i # 0
  BY <1>1
<1>7. /\ DOMAIN h = 0..n /\ h[0] = <<>>
      /\ \A i \in 1..n : h[i] = first \o g[i - 1]
  BY <1>1, <1>6
<1>8. h \in [0..n -> Seq(T)]
  <2>1. ASSUME NEW i \in 1..n PROVE first \o g[i - 1] \in Seq(T)
    <3>1. g[i - 1] \in Seq(T)
      BY <1>6
    <3>2. QED
      BY <1>2, <3>1, ConcatProperties
  <2>2. <<>> \in Seq(T)
    OBVIOUS
  <2>3. \A i \in 0..n : i = 0 \/ i \in 1..n
    OBVIOUS
  <2>4. QED
    BY <2>1, <2>2, <2>3, Zenon
<1> HIDE DEF h
<1>9. ASSUME NEW i \in 1..n PROVE h[i] = h[i - 1] \o seqs[i]
  <2>1. CASE i = 1
    <3>1. h[1] = first \o g[0] /\ h[0] = <<>> /\ g[0] = <<>>
      <4>1. 1 \in 1..n /\ 1 - 1 = 0
        BY <2>1
      <4>2. h[1] = first \o g[1 - 1] /\ h[0] = <<>>
        BY <1>7, <4>1
      <4>3. g[0] = <<>>
        BY <1>4 DEF Joins
      <4>4. QED
        BY <4>1, <4>2, <4>3
    <3>2. first \o <<>> = <<>> \o first
      BY <1>2
    <3>3. i - 1 = 0
      BY <2>1
    <3>4. QED
      BY <1>2, <2>1, <3>1, <3>2, <3>3, Zenon
  <2>2. CASE i # 1
    <3>1. /\ i - 1 \in 1..n /\ i - 1 \in 1..(n - 1) /\ i - 1 - 1 \in 0..(n - 1)
          /\ i - 1 + 1 = i
      BY <1>1, <2>2
    <3>2. g[i - 1] = g[i - 1 - 1] \o rest[i - 1]
      BY <1>2, <1>4, <3>1, Zenon DEF Joins
    <3>3. rest[i - 1] = seqs[i]
      BY <1>2, <3>1
    <3>4. h[i] = first \o g[i - 1] /\ h[i - 1] = first \o g[i - 1 - 1]
      BY <1>7, <3>1
    <3>5. g[i - 1 - 1] \in Seq(T) /\ seqs[i] \in Seq(T)
      BY <1>3, <3>1
    <3>6. (first \o g[i - 1 - 1]) \o seqs[i] = first \o (g[i - 1 - 1] \o seqs[i])
      <4> DEFINE a == g[i - 1 - 1]
                 b == seqs[i]
      <4>1. a \in Seq(T) /\ b \in Seq(T)
        BY <3>5
      <4> HIDE DEF a, b
      <4>2. first \in Seq(T)
        BY <1>2
      <4>3. a \in Seq(T)
        BY <4>1
      <4>4. b \in Seq(T)
        BY <4>1
      <4>5. Associative(T)
        BY Associates, Zenon
      <4>6. (first \o a) \o b = first \o (a \o b)
        BY <4>2, <4>3, <4>4, <4>5, Zenon DEF Associative
      <4>7. QED
        BY <4>6 DEF a, b
    <3>7. QED
      BY <3>2, <3>3, <3>4, <3>6, Zenon
  <2>3. QED
    BY <2>1, <2>2
<1>10. Joins(h, seqs)
  BY <1>7, <1>9 DEF Joins, n
<1>11. FlattenSeq(seqs) = h[n]
  BY <1>8, <1>10, FlattenIs DEF n
<1>12. QED
  <2>1. n \in 1..n
    BY <1>1
  <2>2. h[n] = first \o g[n - 1]
    BY <1>7, <2>1
  <2>3. QED
    BY <1>5, <1>11, <2>2, Zenon DEF rest, first

LEMMA InRange == ASSUME NEW T, NEW s \in Seq(T) PROVE s \in Seq(Range(s))
BY DEF Range

\* A sequence of sequences of one element, joined.
LEMMA FlattenSingles ==
    ASSUME NEW T, NEW s \in Seq(T)
    PROVE  FlattenSeq([i \in DOMAIN s |-> <<s[i]>>]) = s
<1> DEFINE seqs == [i \in DOMAIN s |-> <<s[i]>>]
           n == Len(s)
           g == [i \in 0..n |-> SubSeq(s, 1, i)]
<1>1. n \in Nat /\ DOMAIN s = 1..n /\ \A i \in 1..n : s[i] \in T
  OBVIOUS
<1>2. seqs \in Seq(Seq(T)) /\ Len(seqs) = n
  BY <1>1
<1>3. \A i \in 0..n : SubSeq(s, 1, i) \in Seq(T)
  BY <1>1, SubSeqProperties
<1>4. \A i \in 1..n : SubSeq(s, 1, i) = SubSeq(s, 1, i - 1) \o <<s[i]>>
  OBVIOUS
<1>5. g \in [0..n -> Seq(T)] /\ g[0] = <<>> /\ g[n] = s
  BY <1>1, <1>3
<1>6. \A i \in 1..n : seqs[i] = <<s[i]>> /\ g[i] = SubSeq(s, 1, i) /\ g[i - 1] = SubSeq(s, 1, i - 1)
  BY <1>1
<1> HIDE DEF seqs, g
<1>7. Joins(g, seqs)
  BY <1>2, <1>4, <1>5, <1>6, Zenon DEF Joins
<1>8. QED
  BY <1>2, <1>5, <1>7, FlattenIs DEF seqs

\* t is s with x and y at its end.
Longer(t, s, x, y) ==
    /\ Len(t) = Len(s) + 2
    /\ \A i \in 1..Len(s) : t[i] = s[i]
    /\ t[Len(s) + 1] = x /\ t[Len(s) + 2] = y

LEMMA TwoMore ==
    ASSUME NEW T, NEW s \in Seq(T), NEW x \in T, NEW y \in T
    PROVE  Longer(s \o <<x, y>>, s, x, y)
<1>1. <<x, y>> \in Seq(T) /\ Len(<<x, y>>) = 2 /\ Len(s) \in Nat
  OBVIOUS
<1>2. QED
  BY <1>1, ConcatProperties DEF Longer

\* A sequence of pairs, joined.
Paired(all, n, a, b) ==
    /\ Len(all) = 2 * n
    /\ \A i \in 1..n : all[2 * i - 1] = a[i] /\ all[2 * i] = b[i]

LEMMA FlattenPairs ==
    ASSUME NEW T, NEW n \in Nat, NEW a \in [1..n -> T], NEW b \in [1..n -> T],
           NEW all, all = FlattenSeq([i \in 1..n |-> <<a[i], b[i]>>])
    PROVE  all \in Seq(T) /\ Paired(all, n, a, b)
<1> DEFINE seqs == [i \in 1..n |-> <<a[i], b[i]>>]
           Upto(s, k) == /\ Len(s) = 2 * k
                         /\ \A i \in 1..k : s[2 * i - 1] = a[i] /\ s[2 * i] = b[i]
<1>1. seqs \in Seq(Seq(T)) /\ Len(seqs) = n
  OBVIOUS
<1>2. PICK g \in [0..n -> Seq(T)] : Joins(g, seqs)
  BY <1>1, JoinsExists
<1> DEFINE More(s, i) == s \o <<a[i], b[i]>>
<1>3. \A i \in 1..n : g[i] = More(g[i - 1], i)
  BY <1>1, <1>2 DEF Joins
<1> HIDE DEF More
<1>4. g[0] = <<>>
  BY <1>2 DEF Joins
<1>5. all = g[n]
  BY <1>1, <1>2, FlattenIs
<1> DEFINE S == {k \in Nat : k <= n => Upto(g[k], k)}
<1> HIDE DEF seqs
<1>6. 0 \in S
  BY <1>4
<1>7. ASSUME NEW k \in Nat, k \in S PROVE k + 1 \in S
  <2> SUFFICES ASSUME k + 1 <= n PROVE Upto(g[k + 1], k + 1)
    OBVIOUS
  <2>1. k + 1 \in 1..n /\ k + 1 - 1 = k /\ k \in 0..n
    OBVIOUS
  <2> DEFINE s == g[k]
             x == a[k + 1]
             y == b[k + 1]
             t == g[k + 1]
  <2>2. t = s \o <<x, y>>
    <3>1. t = More(s, k + 1)
      BY <1>3, <2>1
    <3>2. QED
      BY <3>1, Zenon DEF More
  <2>3. s \in Seq(T) /\ x \in T /\ y \in T
    BY <2>1
  <2>4. Upto(s, k)
    BY <1>7, <2>1
  <2> HIDE DEF s, t
  <2> HIDE DEF x, y
  <2>5. Longer(t, s, x, y)
    BY <2>2, <2>3, TwoMore, Zenon
  <2>6. Len(t) = 2 * (k + 1)
    BY <2>4, <2>5 DEF Longer
  <2>7. ASSUME NEW i \in 1..(k + 1) PROVE t[2 * i - 1] = a[i] /\ t[2 * i] = b[i]
    <3>1. CASE i = k + 1
      BY <2>4, <2>5, <3>1 DEF Longer, x, y
    <3>2. CASE i # k + 1
      <4>1. i \in 1..k /\ 2 * i - 1 \in 1..Len(s) /\ 2 * i \in 1..Len(s)
        BY <2>4, <3>2
      <4>2. QED
        BY <2>4, <2>5, <4>1 DEF Longer
    <3>3. QED
      BY <3>1, <3>2
  <2>8. QED
    BY <2>6, <2>7 DEF t
<1>8. Nat \subseteq S
  <2> HIDE DEF S
  <2> QED
    BY <1>6, <1>7, Induction
<1>9. Upto(g[n], n)
  <2>1. n \in S
    BY <1>8
  <2> HIDE DEF Upto
  <2>2. QED
    BY <2>1
<1>10. g[n] \in Seq(T)
  OBVIOUS
<1>11. QED
  BY <1>5, <1>9, <1>10 DEF Paired
\* s is the elements of S, each once.
Orders(s, n, S) ==
    /\ n \in Nat /\ s \in [1..n -> S]
    /\ \A i, j \in 1..n : s[i] = s[j] => i = j
    /\ \A x \in S : \E i \in 1..n : s[i] = x

LEMMA SetInOrder ==
    ASSUME NEW S, IsFiniteSet(S)
    PROVE  Orders(SetToSeq(S), Cardinality(S), S)
<1> DEFINE n == Cardinality(S)
           s == SetToSeq(S)
<1>1. n \in Nat /\ ExistsBijection(1..n, S)
  BY FS_CardinalityType
<1>2. \E f \in [1..n -> S] : IsInjective(f)
  BY <1>1 DEF ExistsBijection, Bijection, Injection, IsInjective
<1>3. s \in [1..n -> S] /\ IsInjective(s)
  BY <1>2 DEF SetToSeq
<1> HIDE DEF s
<1>4. s \in Injection(1..n, S)
  BY <1>3 DEF Injection, IsInjective
<1>5. Cardinality(1..n) = n
  BY <1>1, FS_Interval
<1>6. s \in Surjection(1..n, S)
  BY <1>4, <1>5, FS_Injection
<1>7. \A x \in S : \E i \in 1..n : s[i] = x
  BY <1>6 DEF Surjection
<1>8. \A i, j \in 1..n : s[i] = s[j] => i = j
  BY <1>3 DEF IsInjective
<1> HIDE DEF n
<1>9. Orders(s, n, S)
  BY <1>1, <1>3, <1>7, <1>8 DEF Orders
<1>10. QED
  BY <1>9 DEF n, s

-----------------------------------------------------------------------------
(* Sums over a finite function.                                            *)

Some(X) == CHOOSE x \in X : TRUE

\* g has the sums of f over all subsets, taking them apart as the fold does.
Sums(g, f, S) ==
    /\ g[{}] = 0
    /\ \A X \in SUBSET S : X # {} => g[X] = f[Some(X)] + g[X \ {Some(X)}]

\* Any element may be taken first.
Additive(g, f, S) == \A X \in SUBSET S : \A x \in X : g[X] = f[x] + g[X \ {x}]

\* The sums of f and e are the same where the two functions are.
Agree(g, f, h, e, D) == \A X \in SUBSET D : (\A x \in X : f[x] = e[x]) => g[X] = h[X]

LEMMA Smaller ==
    ASSUME NEW X, IsFiniteSet(X), NEW x \in X
    PROVE  /\ IsFiniteSet(X \ {x}) /\ Cardinality(X) \in Nat \ {0}
           /\ Cardinality(X \ {x}) = Cardinality(X) - 1
<1>1. IsFiniteSet(X \ {x}) /\ Cardinality(X \ {x}) = Cardinality(X) - 1
  BY FS_RemoveElement
<1>2. Cardinality(X) \in Nat /\ Cardinality(X \ {x}) \in Nat
  BY <1>1, FS_CardinalityType
<1>3. QED
  BY <1>1, <1>2

LEMMA SumsExists ==
    ASSUME NEW S, IsFiniteSet(S), NEW f \in [S -> Int]
    PROVE  \E g \in [SUBSET S -> Int] : Sums(g, f, S)
<1> DEFINE Sub(k) == {X \in SUBSET S : Cardinality(X) <= k}
           Taken(g, X) == IF X = {} THEN 0 ELSE f[Some(X)] + g[X \ {Some(X)}]
           Part(g, k) == \A X \in Sub(k) : g[X] = Taken(g, X)
           N == {k \in Nat : \E g \in [Sub(k) -> Int] : Part(g, k)}
<1>1. \A X \in SUBSET S : IsFiniteSet(X) /\ Cardinality(X) \in Nat
  BY FS_Subset, FS_CardinalityType
<1>2. \A X \in SUBSET S : X # {} => Some(X) \in X
  BY DEF Some
<1>3. 0 \in N
  <2>1. Sub(0) = {{}}
    <3>1. \A X \in SUBSET S : Cardinality(X) <= 0 => X = {}
      BY <1>1, FS_EmptySet
    <3>2. Cardinality({}) = 0
      BY FS_EmptySet
    <3>3. QED
      BY <3>1, <3>2
  <2> HIDE DEF Sub
  <2> DEFINE g == [X \in Sub(0) |-> 0]
  <2>2. g \in [Sub(0) -> Int] /\ Part(g, 0)
    BY <2>1
  <2>3. QED
    BY <2>2
<1>4. ASSUME NEW k \in Nat, k \in N PROVE k + 1 \in N
  <2>1. PICK g \in [Sub(k) -> Int] : Part(g, k)
    BY <1>4
  <2>2. \A X \in Sub(k + 1) : X # {} => X \ {Some(X)} \in Sub(k)
    <3> SUFFICES ASSUME NEW X \in Sub(k + 1), X # {} PROVE Cardinality(X \ {Some(X)}) <= k
      OBVIOUS
    <3>1. Cardinality(X \ {Some(X)}) = Cardinality(X) - 1
      BY <1>1, <1>2, Smaller
    <3>2. QED
      BY <1>1, <3>1
  <2>3. Sub(k) \subseteq Sub(k + 1)
    BY <1>1
  <2>4. \A X \in Sub(k + 1) : X \in SUBSET S
    OBVIOUS
  <2> HIDE DEF Sub
  <2>5. \A X \in Sub(k + 1) : Taken(g, X) \in Int
    BY <1>2, <2>2, <2>4
  <2> DEFINE h == [X \in Sub(k + 1) |-> Taken(g, X)]
  <2>6. h \in [Sub(k + 1) -> Int]
    BY <2>5
  <2>7. \A X \in Sub(k) : h[X] = g[X]
    BY <2>1, <2>3
  <2>8. Part(h, k + 1)
    <3> SUFFICES ASSUME NEW X \in Sub(k + 1) PROVE h[X] = Taken(h, X)
      OBVIOUS
    <3>1. h[X] = Taken(g, X)
      OBVIOUS
    <3> HIDE DEF h
    <3>2. CASE X = {}
      BY <3>1, <3>2
    <3>3. CASE X # {}
      BY <2>2, <2>7, <3>1, <3>3
    <3>4. QED
      BY <3>2, <3>3
  <2>9. QED
    <3> HIDE DEF Part, h
    <3> QED
      BY <2>6, <2>8
<1>5. Nat \subseteq N
  <2> HIDE DEF N
  <2> QED
    BY <1>3, <1>4, Induction
<1>6. Cardinality(S) \in Nat /\ Sub(Cardinality(S)) = SUBSET S
  <2>1. \A X \in SUBSET S : Cardinality(X) <= Cardinality(S)
    BY FS_Subset
  <2>2. QED
    BY <1>1, <2>1
<1>7. PICK g \in [SUBSET S -> Int] : Part(g, Cardinality(S))
  <2> HIDE DEF Sub, Part
  <2> QED
    BY <1>5, <1>6
<1>8. Sums(g, f, S)
  <2> HIDE DEF Sub
  <2>1. \A X \in SUBSET S : g[X] = Taken(g, X)
    BY <1>6, <1>7
  <2>2. QED
    BY <2>1 DEF Sums
<1>9. QED
  BY <1>8

LEMMA SumsAny ==
    ASSUME NEW S, IsFiniteSet(S), NEW f \in [S -> Int], NEW g \in [SUBSET S -> Int],
           Sums(g, f, S)
    PROVE  Additive(g, f, S)
<1> DEFINE N == {k \in Nat : \A Y \in SUBSET S : Cardinality(Y) = k =>
                                \A z \in Y : g[Y] = f[z] + g[Y \ {z}]}
<1>1. \A Y \in SUBSET S : IsFiniteSet(Y) /\ Cardinality(Y) \in Nat
  BY FS_Subset, FS_CardinalityType
<1>2. 0 \in N
  BY <1>1, Smaller
<1>3. ASSUME NEW k \in Nat, k \in N PROVE k + 1 \in N
  <2> SUFFICES ASSUME NEW Y \in SUBSET S, Cardinality(Y) = k + 1, NEW z \in Y
               PROVE  g[Y] = f[z] + g[Y \ {z}]
    OBVIOUS
  <2>1. PICK y \in Y : y = Some(Y)
    BY DEF Some
  <2>2. g[Y] = f[y] + g[Y \ {y}]
    BY <2>1 DEF Sums
  <2>3. CASE z = y
    BY <2>2, <2>3
  <2>4. CASE z # y
    <3>1. Cardinality(Y \ {z}) = k /\ Cardinality(Y \ {y}) = k
      <4>1. \A w \in Y : Cardinality(Y \ {w}) = Cardinality(Y) - 1
        BY <1>1, Smaller
      <4>2. QED
        BY <4>1
    <3>2. g[Y \ {y}] = f[z] + g[(Y \ {y}) \ {z}]
      BY <1>3, <2>4, <3>1
    <3>3. g[Y \ {z}] = f[y] + g[(Y \ {z}) \ {y}]
      BY <1>3, <2>4, <3>1
    <3>4. (Y \ {y}) \ {z} = (Y \ {z}) \ {y}
      OBVIOUS
    <3>5. f[z] \in Int /\ f[y] \in Int /\ g[(Y \ {z}) \ {y}] \in Int
      OBVIOUS
    <3>6. f[y] + (f[z] + g[(Y \ {z}) \ {y}]) = f[z] + (f[y] + g[(Y \ {z}) \ {y}])
      BY <3>5
    <3>7. QED
      BY <2>2, <3>2, <3>3, <3>4, <3>6, Zenon
  <2>5. QED
    BY <2>3, <2>4
<1>4. Nat \subseteq N
  <2> HIDE DEF N
  <2> QED
    BY <1>2, <1>3, Induction
<1>5. QED
  BY <1>1, <1>4 DEF Additive

\* Functions that agree on a set have the same sum over it.
LEMMA SumsAgree ==
    ASSUME NEW S, IsFiniteSet(S), NEW f \in [S -> Int], NEW g \in [SUBSET S -> Int],
           Sums(g, f, S),
           NEW R, IsFiniteSet(R), NEW e \in [R -> Int], NEW h \in [SUBSET R -> Int],
           Sums(h, e, R)
    PROVE  Agree(g, f, h, e, S \cap R)
<1> DEFINE N == {k \in Nat : \A Y \in SUBSET (S \cap R) :
                                Cardinality(Y) = k /\ (\A z \in Y : f[z] = e[z]) => g[Y] = h[Y]}
<1>1. \A Y \in SUBSET (S \cap R) : IsFiniteSet(Y) /\ Cardinality(Y) \in Nat
  BY FS_Subset, FS_CardinalityType
<1>2. 0 \in N
  <2> SUFFICES ASSUME NEW Y \in SUBSET (S \cap R), Cardinality(Y) = 0 PROVE g[Y] = h[Y]
    OBVIOUS
  <2>1. Y = {}
    BY <1>1, FS_EmptySet
  <2>2. QED
    BY <2>1 DEF Sums
<1>3. ASSUME NEW k \in Nat, k \in N PROVE k + 1 \in N
  <2> SUFFICES ASSUME NEW Y \in SUBSET (S \cap R), Cardinality(Y) = k + 1,
                      \A z \in Y : f[z] = e[z]
               PROVE  g[Y] = h[Y]
    OBVIOUS
  <2>1. Y # {}
    <3>1. Cardinality({}) = 0
      BY FS_EmptySet
    <3>2. k + 1 # 0
      OBVIOUS
    <3>3. QED
      BY <3>1, <3>2, Zenon
  <2>2. PICK y \in Y : y = Some(Y)
    BY <2>1 DEF Some
  <2>3. g[Y] = f[y] + g[Y \ {y}] /\ h[Y] = e[y] + h[Y \ {y}]
    BY <2>1, <2>2 DEF Sums
  <2>4. Cardinality(Y \ {y}) = k
    <3>1. Cardinality(Y \ {y}) = Cardinality(Y) - 1
      BY <1>1, Smaller
    <3>2. QED
      BY <3>1
  <2>5. g[Y \ {y}] = h[Y \ {y}]
    BY <1>3, <2>4
  <2>6. QED
    BY <2>3, <2>5
<1>4. Nat \subseteq N
  <2> HIDE DEF N
  <2> QED
    BY <1>2, <1>3, Induction
<1>5. QED
  BY <1>1, <1>4 DEF Agree

LEMMA SumIs ==
    ASSUME NEW S, IsFiniteSet(S), NEW f \in [S -> Int], NEW g \in [SUBSET S -> Int],
           Sums(g, f, S)
    PROVE  SumFunction(f) = g[S]
<1> DEFINE Taken(c, X) == IF X = {} THEN 0 ELSE f[Some(X)] + c[X \ {Some(X)}]
           Iter(c) == c = [X \in SUBSET S |-> Taken(c, X)]
           c == CHOOSE c : Iter(c)
<1>1. DOMAIN f = S
  OBVIOUS
<1>2. SumFunction(f) = c[S]
  BY <1>1 DEF SumFunction, SumFunctionOnSet, FoldFunctionOnSet, MapThenFoldSet, Some
<1>3. S \in SUBSET S /\ {} \in SUBSET S
  OBVIOUS
<1>4. \A X \in SUBSET S : X # {} => Some(X) \in X
  BY DEF Some
<1>5. Iter(g)
  <2>1. \A X \in SUBSET S : g[X] = Taken(g, X)
    BY DEF Sums
  <2> HIDE DEF Taken
  <2>2. QED
    BY <2>1
<1>6. Iter(c)
  BY <1>5
<1> HIDE DEF c
<1>7. \A X \in SUBSET S : c[X] = Taken(c, X)
  <2> HIDE DEF Taken
  <2> QED
    BY <1>6
<1> DEFINE N == {k \in Nat : \A X \in SUBSET S : Cardinality(X) = k => c[X] = g[X]}
<1>8. \A X \in SUBSET S : IsFiniteSet(X) /\ Cardinality(X) \in Nat
  BY FS_Subset, FS_CardinalityType
<1>9. 0 \in N
  <2> SUFFICES ASSUME NEW X \in SUBSET S, Cardinality(X) = 0 PROVE c[X] = g[X]
    OBVIOUS
  <2>1. X = {}
    BY <1>8, FS_EmptySet
  <2>2. QED
    BY <1>7, <2>1 DEF Sums
<1>10. ASSUME NEW k \in Nat, k \in N PROVE k + 1 \in N
  <2> SUFFICES ASSUME NEW X \in SUBSET S, Cardinality(X) = k + 1 PROVE c[X] = g[X]
    OBVIOUS
  <2>1. X # {}
    <3>1. Cardinality({}) = 0
      BY FS_EmptySet
    <3>2. k + 1 # 0
      OBVIOUS
    <3>3. QED
      BY <3>1, <3>2, Zenon
  <2>2. Cardinality(X \ {Some(X)}) = k
    <3>1. Cardinality(X \ {Some(X)}) = Cardinality(X) - 1
      BY <1>4, <1>8, <2>1, Smaller
    <3>2. QED
      BY <3>1
  <2>3. c[X \ {Some(X)}] = g[X \ {Some(X)}]
    BY <1>10, <2>2
  <2>4. QED
    BY <1>7, <2>1, <2>3 DEF Sums
<1>11. Nat \subseteq N
  <2> HIDE DEF N
  <2> QED
    BY <1>9, <1>10, Induction
<1>12. c[S] = g[S]
  BY <1>3, <1>8, <1>11
<1>13. QED
  BY <1>2, <1>12 DEF c

\* e is f but for k, which S may have or not: so are the sums.
SumsMove(f, e, S, k) ==
    /\ SumFunction(f) \in Int
    /\ SumFunction(e) = SumFunction(f) + e[k] - (IF k \in S THEN f[k] ELSE 0)

\* A sum after one element was added or changed.
LEMMA SumChange ==
    ASSUME NEW S, IsFiniteSet(S), NEW f \in [S -> Int], NEW k,
           NEW e \in [S \cup {k} -> Int], \A x \in S \ {k} : e[x] = f[x]
    PROVE  SumsMove(f, e, S, k)
<1> DEFINE R == S \cup {k}
<1>1. /\ IsFiniteSet(R) /\ e \in [R -> Int] /\ R \in SUBSET R /\ k \in R
      /\ R \ {k} = S \ {k} /\ S \ {k} \in SUBSET (S \cap R)
  BY FS_AddElement
<1> HIDE DEF R
<1>2. PICK g \in [SUBSET S -> Int] : Sums(g, f, S)
  BY SumsExists
<1>3. PICK h \in [SUBSET R -> Int] : Sums(h, e, R)
  BY <1>1, SumsExists
<1>4. SumFunction(f) = g[S] /\ SumFunction(e) = h[R]
  <2>1. SumFunction(f) = g[S]
    BY <1>2, SumIs
  <2>2. SumFunction(e) = h[R]
    BY <1>1, <1>3, SumIs
  <2>3. QED
    BY <2>1, <2>2
<1>5. h[R] = e[k] + h[R \ {k}]
  <2>1. Additive(h, e, R)
    BY <1>1, <1>3, SumsAny
  <2>2. QED
    BY <1>1, <2>1, Zenon DEF Additive
<1>6. g[S \ {k}] = h[S \ {k}]
  <2>1. Agree(g, f, h, e, S \cap R)
    BY <1>1, <1>2, <1>3, SumsAgree
  <2>2. \A x \in S \ {k} : f[x] = e[x]
    OBVIOUS
  <2>3. QED
    BY <1>1, <2>1, <2>2, Zenon DEF Agree
<1>7. R \ {k} = S \ {k}
  BY <1>1
<1>8. k \in S => g[S] = f[k] + g[S \ {k}]
  <2>1. Additive(g, f, S)
    BY <1>2, SumsAny
  <2>2. S \in SUBSET S
    OBVIOUS
  <2>3. QED
    BY <2>1, <2>2, Zenon DEF Additive
<1>9. k \notin S => S \ {k} = S
  OBVIOUS
<1>10. /\ g[S] \in Int /\ g[S \ {k}] \in Int /\ h[S \ {k}] \in Int /\ e[k] \in Int
       /\ k \in S => f[k] \in Int
  <2>1. S \in SUBSET S /\ S \ {k} \in SUBSET S /\ S \ {k} \in SUBSET R
    BY <1>1
  <2>2. QED
    BY <1>1, <2>1
<1> DEFINE part == g[S \ {k}]
<1>11. h[R] = e[k] + part
  BY <1>5, <1>6, <1>7, Zenon
<1>12. part \in Int
  BY <1>10
<1>13. CASE k \in S
  <2>1. g[S] = f[k] + part
    BY <1>8, <1>13
  <2> HIDE DEF part
  <2>2. QED
    BY <1>4, <1>10, <1>11, <1>12, <1>13, <2>1 DEF SumsMove
<1>14. CASE k \notin S
  <2>1. g[S] = part
    BY <1>9, <1>14
  <2> HIDE DEF part
  <2>2. QED
    BY <1>4, <1>10, <1>11, <1>12, <1>14, <2>1 DEF SumsMove
<1>15. QED
  BY <1>13, <1>14

LEMMA SumEmpty == ASSUME NEW f \in [{} -> Int] PROVE SumFunction(f) = 0
<1>1. IsFiniteSet({})
  BY FS_EmptySet
<1>2. PICK g \in [SUBSET {} -> Int] : Sums(g, f, {})
  BY <1>1, SumsExists
<1>3. SumFunction(f) = g[{}]
  BY <1>1, <1>2, SumIs
<1>4. QED
  BY <1>2, <1>3 DEF Sums

-----------------------------------------------------------------------------
(* FoldLeft.                                                               *)

\* Max of a set of numbers with a bound.
LEMMA MaxIs ==
    ASSUME NEW n \in Nat, NEW S \in SUBSET (1..n), S # {}
    PROVE  Max(S) \in S /\ \A x \in S : x <= Max(S)
<1> DEFINE B == {k \in Nat : \A x \in S : x <= k}
<1>1. PICK k \in B : \A j \in B : k <= j
  <2>1. n \in B
    OBVIOUS
  <2>2. QED
    BY <2>1, LeastNat
<1>2. k \in S
  <2>1. PICK x \in S : TRUE
    OBVIOUS
  <2>2. ASSUME k \notin S PROVE FALSE
    <3>1. k - 1 \in B
      BY <1>1, <2>1, <2>2
    <3>2. QED
      BY <1>1, <3>1
  <2>3. QED
    BY <2>2
<1>3. \E x \in S : \A y \in S : x >= y
  BY <1>1, <1>2
<1>4. QED
  BY <1>3 DEF Max

\* What MapThenFoldSet computes for the subsets of 1..n, the last element of
\* each being taken last.
Folds(iter, base, step, n) ==
    \A s \in SUBSET (1..n) :
        iter[s] = IF s = {} THEN base ELSE step[<<Max(s), iter[s \ {Max(s)}]>>]

\* It is what the recursion over 1..n computes.
LEMMA FoldsExist ==
    ASSUME NEW n \in Nat, NEW V, NEW base \in V, NEW step \in [(1..n) \X V -> V]
    PROVE  \E iter \in [SUBSET (1..n) -> V] : Folds(iter, base, step, n)
<1> DEFINE D == SUBSET (1..n)
           W == [D -> V]
           none == [s \in D |-> base]
           With(k, w) == [s \in D |-> IF k \in s THEN step[<<k, w[s \ {k}]>>] ELSE w[s]]
           more == [p \in (1..n) \X W |-> With(p[1], p[2])]
<1>1. none \in W
  OBVIOUS
<1>2. more \in [(1..n) \X W -> W]
  <2>1. ASSUME NEW k \in 1..n, NEW w \in W PROVE With(k, w) \in W
    OBVIOUS
  <2> HIDE DEF With, W
  <2>2. QED
    BY <2>1
<1>3. \A k \in 1..n, w \in W : more[<<k, w>>] = With(k, w)
  <2> HIDE DEF With, W
  <2> QED
    OBVIOUS
<1>4. PICK g \in [0..n -> W] : Recurs(g, none, more, n)
  <2> HIDE DEF none, more, W, With
  <2> QED
    BY <1>1, <1>2, RecursionExists
<1>5. /\ g[0] = none
      /\ \A k \in 1..n, s \in D :
            g[k][s] = IF k \in s THEN step[<<k, g[k - 1][s \ {k}]>>] ELSE g[k - 1][s]
  <2>1. ASSUME NEW k \in 1..n, NEW s \in D
        PROVE  g[k][s] = IF k \in s THEN step[<<k, g[k - 1][s \ {k}]>>] ELSE g[k - 1][s]
    <3>1. k - 1 \in 0..n /\ g[k - 1] \in W
      <4> HIDE DEF W
      <4> QED
        OBVIOUS
    <3>2. g[k] = more[<<k, g[k - 1]>>]
      BY <1>4 DEF Recurs
    <3> HIDE DEF more
    <3>3. g[k] = With(k, g[k - 1])
      <4> HIDE DEF With, W
      <4> QED
        BY <1>3, <3>1, <3>2
    <3>4. QED
      BY <3>3
  <2>2. QED
    BY <1>4, <2>1 DEF Recurs
<1> HIDE DEF more
\* Elements that come later make no difference.
<1>6. ASSUME NEW j \in 0..n, NEW s \in SUBSET (1..j) PROVE g[n][s] = g[j][s]
  <2> DEFINE S == {k \in Nat : j + k <= n => g[j + k][s] = g[j][s]}
  <2>1. 0 \in S
    OBVIOUS
  <2>2. ASSUME NEW k \in Nat, k \in S PROVE k + 1 \in S
    <3> SUFFICES ASSUME j + (k + 1) <= n PROVE g[j + (k + 1)][s] = g[j][s]
      OBVIOUS
    <3> DEFINE m == j + (k + 1)
    <3>1. m \in 1..n /\ m - 1 = j + k /\ m \notin s /\ s \in D
      OBVIOUS
    <3>2. g[m][s] = g[m - 1][s]
      BY <1>5, <3>1
    <3>3. g[j + k][s] = g[j][s]
      BY <2>2
    <3>4. QED
      BY <3>1, <3>2, <3>3
  <2>3. n - j \in S
    <3> HIDE DEF S
    <3> QED
      BY <2>1, <2>2, Induction
  <2>4. QED
    BY <2>3
<1>7. ASSUME NEW s \in D, s # {} PROVE g[n][s] = step[<<Max(s), g[n][s \ {Max(s)}]>>]
  <2> DEFINE m == Max(s)
  <2>1. m \in s /\ m \in 1..n /\ \A x \in s : x <= m
    BY <1>7, MaxIs
  <2> HIDE DEF m
  <2>2. s \in SUBSET (1..m) /\ s \ {m} \in SUBSET (1..(m - 1)) /\ m - 1 \in 0..n
    BY <2>1
  <2>3. g[n][s] = g[m][s] /\ g[n][s \ {m}] = g[m - 1][s \ {m}]
    BY <1>6, <2>1, <2>2
  <2>4. g[m][s] = step[<<m, g[m - 1][s \ {m}]>>]
    BY <1>5, <2>1
  <2>5. QED
    BY <2>3, <2>4 DEF m
<1>8. g[n][{}] = base
  <2>1. g[n][{}] = g[0][{}]
    BY <1>6
  <2>2. QED
    BY <1>5, <2>1
<1>9. g[n] \in [D -> V] /\ Folds(g[n], base, step, n)
  <2>1. g[n] \in W
    <3> HIDE DEF W
    <3> QED
      OBVIOUS
  <2> DEFINE h == g[n]
  <2> HIDE DEF h
  <2>2. h[{}] = base /\ \A s \in D : s # {} => h[s] = step[<<Max(s), h[s \ {Max(s)}]>>]
    BY <1>7, <1>8 DEF h
  <2>3. Folds(h, base, step, n)
    BY <2>2, Zenon DEF Folds
  <2>4. QED
    BY <2>1, <2>3 DEF h
<1>10. QED
  BY <1>9

\* The greatest of 1..k is its end.
LEMMA MaxTo ==
    ASSUME NEW k \in Nat, k # 0
    PROVE  Max(1..k) = k /\ (1..k) \ {k} = 1..(k - 1) /\ 1..k # {}
<1>1. 1..k \in SUBSET (1..k) /\ k \in 1..k
  OBVIOUS
<1>2. Max(1..k) \in 1..k /\ \A x \in 1..k : x <= Max(1..k)
  BY <1>1, MaxIs
<1>3. QED
  BY <1>1, <1>2

\* c folds so wherever it has a value in V.
FoldsIn(c, base, step, n, V) ==
    /\ c[{}] = base
    /\ \A s \in SUBSET (1..n) : s # {} /\ c[s \ {Max(s)}] \in V =>
           c[s] = step[<<Max(s), c[s \ {Max(s)}]>>]

\* It folds to what the recursion yields.
Yields(c, base, step, n, V) ==
    \E g \in [0..n -> V] : Recurs(g, base, step, n) /\ c[1..n] = g[n]

\* A fold that takes the greatest element first is the recursion over 1..n.
LEMMA FoldIs ==
    ASSUME NEW n \in Nat, NEW V, NEW base \in V, NEW step \in [(1..n) \X V -> V], NEW c,
           FoldsIn(c, base, step, n, V)
    PROVE  Yields(c, base, step, n, V)
<1>1. PICK g \in [0..n -> V] : Recurs(g, base, step, n)
  BY RecursionExists
<1> DEFINE S == {k \in Nat : k <= n => c[1..k] = g[k]}
<1>2. 0 \in S
  <2>1. 1..0 = {}
    OBVIOUS
  <2>2. QED
    BY <1>1, <2>1 DEF Recurs, FoldsIn
<1>3. ASSUME NEW k \in Nat, k \in S PROVE k + 1 \in S
  <2> SUFFICES ASSUME k + 1 <= n PROVE c[1..(k + 1)] = g[k + 1]
    OBVIOUS
  <2> DEFINE m == k + 1
  <2>1. m \in Nat /\ m # 0 /\ m - 1 = k /\ m \in 1..n /\ k \in 0..n
    OBVIOUS
  <2>2. c[1..k] = g[k] /\ g[k] \in V
    BY <1>3, <2>1
  <2> HIDE DEF m
  <2>3. Max(1..m) = m /\ (1..m) \ {m} = 1..k /\ 1..m # {}
    BY <2>1, MaxTo
  <2>4. 1..m \in SUBSET (1..n)
    BY <2>1
  <2>5. c[1..m] = step[<<m, c[1..k]>>]
    BY <2>2, <2>3, <2>4 DEF FoldsIn
  <2>6. g[m] = step[<<m, g[k]>>]
    BY <1>1, <2>1 DEF Recurs
  <2>7. QED
    BY <2>2, <2>5, <2>6 DEF m
<1>4. n \in S
  <2> HIDE DEF S
  <2> QED
    BY <1>2, <1>3, Induction
<1>5. QED
  BY <1>1, <1>4 DEF Yields

-----------------------------------------------------------------------------
(* Sums in parts.                                                          *)

\* A sum of integers is one.
LEMMA SumType ==
    ASSUME NEW S, IsFiniteSet(S), NEW f \in [S -> Int]
    PROVE  SumFunction(f) \in Int
<1>1. PICK g \in [SUBSET S -> Int] : Sums(g, f, S)
  BY SumsExists
<1>2. SumFunction(f) = g[S]
  BY <1>1, SumIs
<1>3. QED
  BY <1>2

\* A function on some of its domain, the elements of one part, and the sum of
\* each part.
Portion(f, X) == [x \in X |-> f[x]]
Fiber(part, X, r) == {x \in X : part[x] = r}
PartSums(f, part, X, R) == [r \in R |-> SumFunction(Portion(f, Fiber(part, X, r)))]

\* One element more.
LEMMA SumMore ==
    ASSUME NEW S, IsFiniteSet(S), NEW f \in [S -> Int], NEW X \in SUBSET S, NEW z \in X
    PROVE  /\ SumFunction(Portion(f, X \ {z})) \in Int
           /\ SumFunction(Portion(f, X)) = SumFunction(Portion(f, X \ {z})) + f[z]
<1> DEFINE Y == X \ {z}
<1>1. IsFiniteSet(Y) /\ z \notin Y /\ Y \cup {z} = X
  BY FS_Subset
<1>2. Portion(f, Y) \in [Y -> Int] /\ Portion(f, X) \in [X -> Int] /\ Portion(f, X)[z] = f[z]
  BY DEF Portion
<1>3. \A x \in Y : Portion(f, X)[x] = Portion(f, Y)[x]
  BY DEF Portion
<1> DEFINE g == Portion(f, Y)
           e == Portion(f, X)
<1> HIDE DEF Y, g, e
<1>4. e \in [Y \cup {z} -> Int] /\ g \in [Y -> Int] /\ \A x \in Y \ {z} : e[x] = g[x]
  BY <1>1, <1>2, <1>3 DEF g, e
<1>5. SumsMove(g, e, Y, z)
  BY <1>1, <1>4, SumChange
<1>6. e[z] = f[z] /\ f[z] \in Int
  BY <1>2 DEF e
<1>7. SumFunction(g) \in Int /\ SumFunction(e) = SumFunction(g) + f[z]
  BY <1>1, <1>5, <1>6 DEF SumsMove
<1>8. QED
  BY <1>7 DEF g, e, Y

\* The sum of the sums of the parts is the sum.
LEMMA SumParts ==
    ASSUME NEW S, IsFiniteSet(S), NEW f \in [S -> Int],
           NEW R, IsFiniteSet(R), NEW part \in [S -> R]
    PROVE  SumFunction(PartSums(f, part, S, R)) = SumFunction(f)
<1> DEFINE Same(X) == SumFunction(PartSums(f, part, X, R)) = SumFunction(Portion(f, X))
           N == {k \in Nat : \A X \in SUBSET S : Cardinality(X) = k => Same(X)}
<1>1. \A X \in SUBSET S : IsFiniteSet(X) /\ Cardinality(X) \in Nat
  BY FS_Subset, FS_CardinalityType
<1>2. \A X \in SUBSET S, r \in R : Portion(f, Fiber(part, X, r)) \in [Fiber(part, X, r) -> Int]
  BY DEF Portion, Fiber
<1>3. \A X \in SUBSET S, r \in R : SumFunction(Portion(f, Fiber(part, X, r))) \in Int
  <2> SUFFICES ASSUME NEW X \in SUBSET S, NEW r \in R
               PROVE  SumFunction(Portion(f, Fiber(part, X, r))) \in Int
    OBVIOUS
  <2>1. Fiber(part, X, r) \in SUBSET S
    BY DEF Fiber
  <2>2. QED
    BY <1>1, <1>2, <2>1, SumType
<1>4. \A X \in SUBSET S : PartSums(f, part, X, R) \in [R -> Int]
  BY <1>3 DEF PartSums
<1>5. SumFunction(Portion(f, {})) = 0
  BY SumEmpty DEF Portion
<1>6. 0 \in N
  <2>1. Same({})
    <3> DEFINE z == PartSums(f, part, {}, R)
               M == {k \in Nat : \A Y \in SUBSET R : Cardinality(Y) = k => SumFunction(Portion(z, Y)) = 0}
    <3>1. z \in [R -> Int] /\ \A r \in R : z[r] = 0
      BY <1>4, <1>5 DEF PartSums, Fiber
    <3> HIDE DEF z
    <3>2. \A Y \in SUBSET R : IsFiniteSet(Y) /\ Cardinality(Y) \in Nat
      BY FS_Subset, FS_CardinalityType
    <3>3. 0 \in M
      <4>1. \A Y \in SUBSET R : Cardinality(Y) = 0 => Y = {}
        BY <3>2, FS_EmptySet
      <4>2. SumFunction(Portion(z, {})) = 0
        BY SumEmpty DEF Portion
      <4>3. QED
        BY <4>1, <4>2
    <3>4. ASSUME NEW k \in Nat, k \in M PROVE k + 1 \in M
      <4> SUFFICES ASSUME NEW Y \in SUBSET R, Cardinality(Y) = k + 1
                   PROVE  SumFunction(Portion(z, Y)) = 0
        OBVIOUS
      <4>0. Y # {} /\ IsFiniteSet(Y)
        BY <3>2, FS_EmptySet
      <4>1. PICK y \in Y : TRUE
        BY <4>0
      <4>2. Cardinality(Y \ {y}) = k
        <5>1. Cardinality(Y \ {y}) = Cardinality(Y) - 1
          BY <4>0, Smaller
        <5>2. QED
          BY <5>1
      <4>3. SumFunction(Portion(z, Y)) = SumFunction(Portion(z, Y \ {y})) + z[y]
        BY <3>1, SumMore
      <4>4. SumFunction(Portion(z, Y \ {y})) = 0
        BY <3>4, <4>2
      <4>5. QED
        BY <3>1, <4>3, <4>4
    <3>5. Cardinality(R) \in M
      <4> HIDE DEF M
      <4> QED
        BY <3>2, <3>3, <3>4, Induction
    <3>6. Portion(z, R) = z
      BY <3>1 DEF Portion
    <3>7. QED
      BY <1>5, <3>2, <3>5, <3>6 DEF z
  <2>2. \A X \in SUBSET S : Cardinality(X) = 0 => X = {}
    BY <1>1, FS_EmptySet
  <2> HIDE DEF Same
  <2>3. QED
    BY <2>1, <2>2
<1>7. ASSUME NEW k \in Nat, k \in N PROVE k + 1 \in N
  <2> SUFFICES ASSUME NEW X \in SUBSET S, Cardinality(X) = k + 1 PROVE Same(X)
    OBVIOUS
  <2>0. X # {} /\ IsFiniteSet(X)
    BY <1>1, FS_EmptySet
  <2>1. PICK z \in X : TRUE
    BY <2>0
  <2> DEFINE Y == X \ {z}
             r == part[z]
             g == PartSums(f, part, Y, R)
             e == PartSums(f, part, X, R)
  <2>2. Cardinality(Y) = k /\ Y \in SUBSET S /\ r \in R
    <3>1. Cardinality(Y) = Cardinality(X) - 1
      BY <2>0, Smaller
    <3>2. QED
      BY <3>1
  <2>3. Same(Y)
    BY <1>7, <2>2
  <2>4. \A q \in R \ {r} : Fiber(part, X, q) = Fiber(part, Y, q)
    BY DEF Fiber
  <2>5. Fiber(part, X, r) \in SUBSET S /\ z \in Fiber(part, X, r)
        /\ Fiber(part, Y, r) = Fiber(part, X, r) \ {z}
    BY DEF Fiber
  <2>6. SumFunction(Portion(f, Fiber(part, X, r))) = SumFunction(Portion(f, Fiber(part, Y, r))) + f[z]
    <3> DEFINE G == Fiber(part, X, r)
    <3> HIDE DEF G
    <3>1. G \in SUBSET S /\ z \in G /\ Fiber(part, Y, r) = G \ {z}
      BY <2>5 DEF G
    <3>2. SumFunction(Portion(f, G)) = SumFunction(Portion(f, G \ {z})) + f[z]
      BY <3>1, SumMore
    <3>3. QED
      BY <3>1, <3>2 DEF G
  <2>7. g \in [R -> Int] /\ e \in [R -> Int]
    BY <1>4, <2>2
  <2>8. e[r] = g[r] + f[z] /\ \A q \in R \ {r} : e[q] = g[q]
    BY <2>2, <2>4, <2>6 DEF PartSums
  <2> HIDE DEF g, e, r, Y
  <2>9. SumsMove(g, e, R, r)
    <3>1. R \cup {r} = R
      BY <2>2
    <3>2. QED
      BY <2>7, <2>8, <3>1, SumChange
  <2>10. SumFunction(e) = SumFunction(g) + f[z] /\ SumFunction(g) \in Int
    <3>1. f[z] \in Int
      OBVIOUS
    <3>2. QED
      BY <2>2, <2>7, <2>8, <2>9, <3>1 DEF SumsMove
  <2>11. SumFunction(Portion(f, X)) = SumFunction(Portion(f, Y)) + f[z]
    BY SumMore DEF Y
  <2>12. QED
    BY <2>3, <2>10, <2>11 DEF g, e
<1>8. Cardinality(S) \in N
  <2> HIDE DEF N
  <2> QED
    BY <1>1, <1>6, <1>7, Induction
<1>9. Portion(f, S) = f
  BY DEF Portion
<1>10. QED
  BY <1>8, <1>9
=============================================================================
