---------------------------- MODULE FoldTheorems ----------------------------
(***************************************************************************)
(* What FoldLeft computes, by induction on the length of the sequence.     *)
(* The operator and the base are constants of this module: a module that   *)
(* folds with an operator of its own instantiates it.                      *)
(***************************************************************************)
EXTENDS Integers, SequencesExt, SequenceTheorems, WellFoundedInduction, TLAPS

CONSTANTS op(_, _), base

Fold(s) == FoldLeft(op, base, s)

\* f is the function FoldLeft iterates, over the sets of indices up to n.
Iterates(f, s, n) ==
    f = [S \in SUBSET (1 .. n) |->
            IF S = {} THEN base ELSE op(f[S \ {Max(S)}], s[Max(S)])]

\* Induction over the natural numbers, for a property given as a set.
THEOREM SetInduction ==
  ASSUME NEW S, 0 \in S, \A n \in Nat : n \in S => n + 1 \in S
  PROVE  \A n \in Nat : n \in S
<1> DEFINE R == {ss \in Nat \X Nat : ss[1] < ss[2]}
           T == Nat \ S
<1>1. IsWellFoundedOn(R, Nat)
  BY NatLessThanWellFounded DEF OpToRel
<1>2. SUFFICES ASSUME T # {} PROVE FALSE
  OBVIOUS
<1>3. PICK x \in T : \A y \in T : <<y, x>> \notin R
  <2>1. T \subseteq Nat
    OBVIOUS
  <2> HIDE DEF T, R
  <2> QED BY <1>1, <1>2, <2>1, WFMin
<1>4. x \in Nat /\ x # 0 /\ x - 1 \in Nat
  OBVIOUS
<1>5. <<x - 1, x>> \in R
  BY <1>4
<1>6. x - 1 \in S
  BY <1>3, <1>4, <1>5
<1> QED BY <1>3, <1>4, <1>6

\* The greatest index of a set that has n in it and nothing above.
LEMMA MaxIsLast ==
  ASSUME NEW n \in Nat, NEW S \in SUBSET (1 .. n), n \in S
  PROVE  Max(S) = n
<1>1. \A y \in S : n >= y
  OBVIOUS
<1>2. \E x \in S : \A y \in S : x >= y
  BY <1>1
<1>3. Max(S) \in S /\ \A y \in S : Max(S) >= y
  BY <1>2, Zenon DEF Max
<1> HIDE DEF Max
<1>4. Max(S) \in 1 .. n /\ Max(S) >= n
  BY <1>3, Zenon
<1> QED BY <1>4

\* The function FoldLeft iterates exists, for every sequence.
LEMMA IterateExists ==
  ASSUME NEW s, NEW n \in Nat
  PROVE  \E f : Iterates(f, s, n)
<1> DEFINE I == {k \in Nat : \E f : Iterates(f, s, k)}
<1>1. 0 \in I
  <2> DEFINE f == [S \in SUBSET (1 .. 0) |-> base]
  <2>1. 1 .. 0 = {}
    OBVIOUS
  <2>2. Iterates(f, s, 0)
    BY <2>1 DEF Iterates
  <2> QED BY <2>2
<1>2. ASSUME NEW k \in Nat, k \in I PROVE k + 1 \in I
  <2>1. PICK f : Iterates(f, s, k)
    BY <1>2
  <2> DEFINE g == [S \in SUBSET (1 .. k + 1) |->
                     IF S \subseteq 1 .. k THEN f[S]
                     ELSE op(f[S \ {k + 1}], s[k + 1])]
             h == [S \in SUBSET (1 .. k + 1) |->
                     IF S = {} THEN base ELSE op(g[S \ {Max(S)}], s[Max(S)])]
  <2>2. ASSUME NEW S \in SUBSET (1 .. k + 1) PROVE g[S] = h[S]
    <3>1. CASE S \subseteq 1 .. k
      <4>1. f[S] = IF S = {} THEN base ELSE op(f[S \ {Max(S)}], s[Max(S)])
        BY <2>1, <3>1 DEF Iterates
      <4>2. g[S \ {Max(S)}] = f[S \ {Max(S)}]
        BY <3>1
      <4>3. g[S] = f[S]
        BY <3>1
      <4>4. h[S] = IF S = {} THEN base ELSE op(g[S \ {Max(S)}], s[Max(S)])
        OBVIOUS
      <4> HIDE DEF g, h
      <4> QED BY <4>1, <4>2, <4>3, <4>4
    <3>2. CASE ~(S \subseteq 1 .. k)
      <4>1. k + 1 \in S
        BY <3>2
      <4>2. Max(S) = k + 1
        BY <4>1, MaxIsLast
      <4>3. S \ {k + 1} \in SUBSET (1 .. k) /\ S \ {k + 1} \in SUBSET (1 .. k + 1)
        OBVIOUS
      <4>4. g[S \ {k + 1}] = f[S \ {k + 1}]
        BY <4>3
      <4>5. g[S] = op(f[S \ {k + 1}], s[k + 1])
        BY <3>2
      <4>6. h[S] = op(g[S \ {k + 1}], s[k + 1])
        BY <4>1, <4>2
      <4> HIDE DEF g, h
      <4> QED BY <4>4, <4>5, <4>6
    <3> QED BY <3>1, <3>2
  <2>3. g = h
    <3>1. DOMAIN g = DOMAIN h /\ DOMAIN g = SUBSET (1 .. k + 1)
      OBVIOUS
    <3> QED BY <2>2, <3>1
  <2>4. Iterates(g, s, k + 1)
    BY <2>3, Zenon DEF Iterates
  <2> QED BY <2>4
<1>3. \A k \in Nat : k \in I
  <2> HIDE DEF I
  <2> QED BY <1>1, <1>2, SetInduction
<1> QED BY <1>3

\* The value at the first k + 1 indices comes from the one at the first k.
LEMMA IterateStep ==
  ASSUME NEW s, NEW n \in Nat, NEW f, Iterates(f, s, n), NEW k \in Nat, k < n
  PROVE  f[1 .. k + 1] = op(f[1 .. k], s[k + 1])
<1>1. 1 .. k + 1 \in SUBSET (1 .. n) /\ 1 .. k + 1 # {}
  OBVIOUS
<1>2. Max(1 .. k + 1) = k + 1
  BY MaxIsLast
<1>3. (1 .. k + 1) \ {k + 1} = 1 .. k
  OBVIOUS
<1> QED BY <1>1, <1>2, <1>3 DEF Iterates

\* Sequences that agree on their first n elements fold alike up to there.
LEMMA IteratesAgree ==
  ASSUME NEW s, NEW t, NEW m \in Nat, NEW n \in 0 .. m,
         NEW f, Iterates(f, s, n), NEW g, Iterates(g, t, m),
         \A i \in 1 .. n : s[i] = t[i]
  PROVE  f[1 .. n] = g[1 .. n]
<1> DEFINE I == {k \in Nat : k <= n => f[1 .. k] = g[1 .. k]}
<1>1. 0 \in I
  <2>1. 1 .. 0 = {} /\ {} \in SUBSET (1 .. n) /\ {} \in SUBSET (1 .. m)
    OBVIOUS
  <2>2. f[{}] = base /\ g[{}] = base
    BY <2>1 DEF Iterates
  <2> QED BY <2>1, <2>2
<1>2. ASSUME NEW k \in Nat, k \in I PROVE k + 1 \in I
  <2> SUFFICES ASSUME k + 1 <= n PROVE f[1 .. k + 1] = g[1 .. k + 1]
    OBVIOUS
  <2>1. f[1 .. k] = g[1 .. k] /\ s[k + 1] = t[k + 1] /\ k < n /\ k < m
    BY <1>2
  <2>2. f[1 .. k + 1] = op(f[1 .. k], s[k + 1])
    BY <2>1, IterateStep
  <2>3. g[1 .. k + 1] = op(g[1 .. k], t[k + 1])
    BY <2>1, IterateStep
  <2> QED BY <2>1, <2>2, <2>3
<1>3. \A k \in Nat : k \in I
  <2> HIDE DEF I
  <2> QED BY <1>1, <1>2, SetInduction
<1> QED BY <1>3

\* Fold is the last value of such a function.
LEMMA FoldIterates ==
  ASSUME NEW S, NEW s \in Seq(S)
  PROVE  \E f : Iterates(f, s, Len(s)) /\ Fold(s) = f[1 .. Len(s)]
<1>1. DOMAIN s = 1 .. Len(s) /\ Len(s) \in Nat
  OBVIOUS
<1> DEFINE g == CHOOSE f : Iterates(f, s, Len(s))
<1>2. Fold(s) = g[1 .. Len(s)]
  <2>1. Fold(s) = (CHOOSE f : f = [T \in SUBSET (DOMAIN s) |->
                      IF T = {} THEN base ELSE op(f[T \ {Max(T)}], s[Max(T)])])[DOMAIN s]
    BY Zenon DEF Fold, FoldLeft, MapThenFoldSet
  <2> QED BY <1>1, <2>1, Zenon DEF Iterates
<1>3. Iterates(g, s, Len(s))
  BY <1>1, IterateExists, Zenon
<1> QED BY <1>2, <1>3

\* Folding nothing gives the base.
THEOREM FoldEmpty == Fold(<<>>) = base
<1>1. <<>> \in Seq({}) /\ Len(<<>>) = 0
  OBVIOUS
<1>2. PICK f : Iterates(f, <<>>, 0) /\ Fold(<<>>) = f[1 .. 0]
  BY <1>1, FoldIterates
<1>3. 1 .. 0 = {} /\ {} \in SUBSET (1 .. 0)
  OBVIOUS
<1> QED BY <1>2, <1>3 DEF Iterates

\* One more element is one more application of the operator.
THEOREM FoldAppend ==
  ASSUME NEW S, NEW s \in Seq(S), NEW x \in S
  PROVE  Fold(Append(s, x)) = op(Fold(s), x)
<1> DEFINE t == Append(s, x)
<1>1. /\ t \in Seq(S) /\ Len(t) = Len(s) + 1 /\ Len(s) \in Nat
      /\ t[Len(s) + 1] = x /\ \A i \in 1 .. Len(s) : s[i] = t[i]
  OBVIOUS
<1> HIDE DEF t
<1>2. PICK f : Iterates(f, s, Len(s)) /\ Fold(s) = f[1 .. Len(s)]
  BY FoldIterates
<1>3. PICK g : Iterates(g, t, Len(t)) /\ Fold(t) = g[1 .. Len(t)]
  BY <1>1, FoldIterates
<1>4. f[1 .. Len(s)] = g[1 .. Len(s)]
  <2>1. Len(t) \in Nat /\ Len(s) \in 0 .. Len(t)
    BY <1>1
  <2> QED BY <1>1, <1>2, <1>3, <2>1, IteratesAgree
<1>5. Fold(t) = op(g[1 .. Len(s)], t[Len(s) + 1])
  <2>1. Len(t) \in Nat /\ Len(s) < Len(t)
    BY <1>1
  <2> QED BY <1>1, <1>3, <2>1, IterateStep
<1> QED BY <1>1, <1>2, <1>4, <1>5 DEF t

\* A fold over four elements, written out.
THEOREM FoldFour ==
  ASSUME NEW a, NEW b, NEW c, NEW d
  PROVE  Fold(<<a, b, c, d>>) = op(op(op(op(base, a), b), c), d)
<1> DEFINE S == {a, b, c, d}
<1>1. /\ <<a>> = Append(<<>>, a) /\ <<a, b>> = Append(<<a>>, b)
      /\ <<a, b, c>> = Append(<<a, b>>, c) /\ <<a, b, c, d>> = Append(<<a, b, c>>, d)
  OBVIOUS
<1>2. /\ <<>> \in Seq(S) /\ <<a>> \in Seq(S) /\ <<a, b>> \in Seq(S) /\ <<a, b, c>> \in Seq(S)
      /\ a \in S /\ b \in S /\ c \in S /\ d \in S
  OBVIOUS
<1> HIDE DEF S
<1>3. Fold(<<a>>) = op(base, a)
  BY <1>1, <1>2, FoldEmpty, FoldAppend, Zenon
<1>4. Fold(<<a, b>>) = op(op(base, a), b)
  BY <1>1, <1>2, <1>3, FoldAppend, Zenon
<1>5. Fold(<<a, b, c>>) = op(op(op(base, a), b), c)
  BY <1>1, <1>2, <1>4, FoldAppend, Zenon
<1> QED BY <1>1, <1>2, <1>5, FoldAppend, Zenon

\* The same for five elements.
THEOREM FoldFive ==
  ASSUME NEW a, NEW b, NEW c, NEW d, NEW e
  PROVE  Fold(<<a, b, c, d, e>>) = op(op(op(op(op(base, a), b), c), d), e)
<1> DEFINE S == {a, b, c, d, e}
<1>1. <<a, b, c, d, e>> = Append(<<a, b, c, d>>, e)
  OBVIOUS
<1>2. <<a, b, c, d>> \in Seq(S) /\ e \in S
  OBVIOUS
<1> HIDE DEF S
<1>3. Fold(Append(<<a, b, c, d>>, e)) = op(Fold(<<a, b, c, d>>), e)
  BY <1>2, FoldAppend
<1>4. Fold(<<a, b, c, d>>) = op(op(op(op(base, a), b), c), d)
  BY FoldFour
<1> QED BY <1>1, <1>3, <1>4, Zenon

\* A set the operator stays in holds the fold of every sequence.
THEOREM FoldType ==
  ASSUME NEW S, NEW T, base \in T, \A v \in T : \A x \in S : op(v, x) \in T
  PROVE  \A s \in Seq(S) : Fold(s) \in T
<1> DEFINE I == {k \in Nat : \A s \in Seq(S) : Len(s) = k => Fold(s) \in T}
<1>1. 0 \in I
  BY FoldEmpty
<1>2. ASSUME NEW k \in Nat, k \in I PROVE k + 1 \in I
  <2> SUFFICES ASSUME NEW s \in Seq(S), Len(s) = k + 1 PROVE Fold(s) \in T
    OBVIOUS
  <2> DEFINE u == SubSeq(s, 1, k)
  <2>1. u \in Seq(S) /\ Len(u) = k /\ s[k + 1] \in S
    OBVIOUS
  <2>2. s = Append(u, s[k + 1])
    OBVIOUS
  <2> HIDE DEF u
  <2>3. Fold(u) \in T
    BY <1>2, <2>1
  <2> QED BY <2>1, <2>2, <2>3, FoldAppend
<1>3. \A k \in Nat : k \in I
  <2> HIDE DEF I
  <2> QED BY <1>1, <1>2, SetInduction
<1> QED BY <1>3

-----------------------------------------------------------------------------
(* FlattenSeq: where the bytes of each part are.                           *)

\* Concatenation, kept folded in the proofs below.
Join(a, b) == a \o b

\* f is the function FlattenSeq iterates, over the first n parts.
Flattens(f, ss, n) ==
    f = [i \in 1 .. n |-> IF i = 1 THEN ss[i] ELSE Join(f[i - 1], ss[i])]

\* The parts ss lie in flat one after the other: off[i] is where part i ends.
Layout(ss, flat, off) ==
    /\ off \in [0 .. Len(ss) -> Nat] /\ off[0] = 0 /\ Len(flat) = off[Len(ss)]
    /\ \A i \in 1 .. Len(ss) :
          /\ off[i] = off[i - 1] + Len(ss[i])
          /\ off[i] <= Len(flat)
          /\ \A j \in 1 .. Len(ss[i]) : flat[off[i - 1] + j] = ss[i][j]

\* The elements of two sequences joined.
LEMMA JoinSeqs ==
  ASSUME NEW S, NEW a \in Seq(S), NEW b \in Seq(S)
  PROVE  /\ Join(a, b) \in Seq(S) /\ Len(Join(a, b)) = Len(a) + Len(b)
         /\ \A j \in 1 .. Len(a) : Join(a, b)[j] = a[j]
         /\ \A j \in 1 .. Len(b) : Join(a, b)[Len(a) + j] = b[j]
BY DEF Join

\* Nothing joined with a sequence.
LEMMA JoinEmpty == \A S : \A b \in Seq(S) : Join(<<>>, b) = b
BY DEF Join

\* Its value at i comes from the one before.
LEMMA FlattenStep ==
  ASSUME NEW ss, NEW n \in Nat, NEW f, Flattens(f, ss, n), NEW i \in 1 .. n
  PROVE  (i = 1 => f[i] = ss[i]) /\ (i # 1 => f[i] = Join(f[i - 1], ss[i]))
<1> DEFINE h == [j \in 1 .. n |-> IF j = 1 THEN ss[j] ELSE Join(f[j - 1], ss[j])]
<1>1. f = h
  BY Zenon DEF Flattens
<1>2. h[i] = IF i = 1 THEN ss[i] ELSE Join(f[i - 1], ss[i])
  BY Zenon
<1> HIDE DEF h
<1> QED BY <1>1, <1>2, Zenon

\* The function FlattenSeq iterates exists, for every sequence.
LEMMA FlattenExists ==
  ASSUME NEW ss, NEW n \in Nat
  PROVE  \E f : Flattens(f, ss, n)
<1> DEFINE I == {k \in Nat : \E f : Flattens(f, ss, k)}
<1>1. 0 \in I
  <2> DEFINE f == [i \in 1 .. 0 |-> 0]
  <2>1. Flattens(f, ss, 0)
    BY DEF Flattens
  <2> QED BY <2>1
<1>2. ASSUME NEW k \in Nat, k \in I PROVE k + 1 \in I
  <2>1. PICK f : Flattens(f, ss, k)
    BY <1>2
  <2> DEFINE g == [i \in 1 .. k + 1 |->
                     IF i <= k THEN f[i] ELSE IF k = 0 THEN ss[i] ELSE Join(f[k], ss[i])]
             h == [i \in 1 .. k + 1 |-> IF i = 1 THEN ss[i] ELSE Join(g[i - 1], ss[i])]
  <2>2. ASSUME NEW i \in 1 .. k + 1 PROVE g[i] = h[i]
    <3> DEFINE last == Join(f[k], ss[i])
               mid == Join(g[i - 1], ss[i])
    <3>0. /\ g[i] = IF i <= k THEN f[i] ELSE IF k = 0 THEN ss[i] ELSE last
          /\ h[i] = IF i = 1 THEN ss[i] ELSE mid
      BY Zenon
    <3>1. CASE i = 1
      <4>1. i <= k => f[i] = ss[i]
        BY <2>1, <3>1, FlattenStep
      <4>2. i <= k \/ k = 0
        BY <3>1
      <4> HIDE DEF g, h, last, mid
      <4> QED BY <3>0, <3>1, <4>1, <4>2
    <3>2. CASE i # 1 /\ i <= k
      <4>1. f[i] = Join(f[i - 1], ss[i])
        BY <2>1, <3>2, FlattenStep
      <4>2. i - 1 \in 1 .. k + 1 /\ i - 1 <= k
        BY <3>2
      <4>3. g[i - 1] = f[i - 1]
        BY <4>2, Zenon
      <4>4. f[i] = mid
        BY <4>1, <4>3, Zenon
      <4> HIDE DEF g, h, last, mid
      <4> QED BY <3>0, <3>2, <4>4
    <3>3. CASE i # 1 /\ i = k + 1
      <4>1. i - 1 = k /\ k \in 1 .. k + 1 /\ k <= k /\ k # 0 /\ ~(i <= k)
        BY <3>3
      <4>2. g[k] = f[k]
        BY <4>1, Zenon
      <4>3. mid = last
        BY <4>1, <4>2, Zenon
      <4> HIDE DEF g, h, last, mid
      <4> QED BY <3>0, <3>3, <4>1, <4>3
    <3> QED BY <3>1, <3>2, <3>3
  <2>3. g = h
    BY <2>2
  <2>4. Flattens(g, ss, k + 1)
    BY <2>3, Zenon DEF Flattens
  <2> QED BY <2>4
<1>3. \A k \in Nat : k \in I
  <2> HIDE DEF I
  <2> QED BY <1>1, <1>2, SetInduction
<1> QED BY <1>3

\* FlattenSeq is the last value of such a function.
LEMMA FlattenIterates ==
  ASSUME NEW T, NEW ss \in Seq(T), Len(ss) # 0
  PROVE  \E f : Flattens(f, ss, Len(ss)) /\ FlattenSeq(ss) = f[Len(ss)]
<1> DEFINE g == CHOOSE f : Flattens(f, ss, Len(ss))
<1>1. FlattenSeq(ss) = g[Len(ss)]
  BY Zenon DEF FlattenSeq, Flattens, Join
<1>2. Flattens(g, ss, Len(ss))
  <2>1. Len(ss) \in Nat
    OBVIOUS
  <2> QED BY <2>1, FlattenExists, Zenon
<1> QED BY <1>1, <1>2

\* The parts of a flattened sequence lie one after the other, and fill it.
THEOREM FlattenLayout ==
  ASSUME NEW S, NEW ss \in Seq(Seq(S))
  PROVE  FlattenSeq(ss) \in Seq(S) /\ \E off : Layout(ss, FlattenSeq(ss), off)
<1> DEFINE n == Len(ss)
<1>0. n \in Nat
  OBVIOUS
<1>1. CASE n = 0
  <2>1. ss = <<>> /\ FlattenSeq(ss) = <<>>
    BY <1>1, Zenon, EmptySeq DEF FlattenSeq
  <2>2. Layout(ss, FlattenSeq(ss), [i \in 0 .. 0 |-> 0])
    BY <2>1 DEF Layout
  <2> QED BY <2>1, <2>2
<1>2. CASE n # 0
  <2>1. PICK f : Flattens(f, ss, n) /\ FlattenSeq(ss) = f[n]
    BY <1>2, FlattenIterates
  <2> DEFINE F == [i \in 0 .. n |-> IF i = 0 THEN <<>> ELSE f[i]]
  <2>2. \A i \in 1 .. n : ss[i] \in Seq(S)
    OBVIOUS
  <2>a. \A i \in 1 .. n : F[i] = f[i]
    BY <1>0
  <2>b. F[0] \in Seq(S) /\ Len(F[0]) = 0 /\ \A b \in Seq(S) : Join(F[0], b) = b
    <3>1. F[0] = <<>>
      BY <1>0
    <3> HIDE DEF F
    <3> QED BY <3>1, JoinEmpty
  <2>3. ASSUME NEW i \in 1 .. n PROVE F[i] = Join(F[i - 1], ss[i])
    <3> HIDE DEF F
    <3>1. CASE i = 1
      <4>1. f[i] = ss[i] /\ i - 1 = 0
        BY <1>0, <2>1, <3>1, FlattenStep
      <4>2. Join(F[0], ss[i]) = ss[i]
        BY <2>2, <2>b
      <4> QED BY <2>a, <4>1, <4>2
    <3>2. CASE i # 1
      <4>1. f[i] = Join(f[i - 1], ss[i])
        BY <1>0, <2>1, <3>2, FlattenStep
      <4>2. F[i] = f[i] /\ F[i - 1] = f[i - 1]
        BY <1>0, <2>a, <3>2
      <4> QED BY <4>1, <4>2, Zenon
    <3> QED BY <3>1, <3>2
  <2>4. F[n] = FlattenSeq(ss)
    BY <1>0, <1>2, <2>1
  <2> HIDE DEF F
  <2> DEFINE G(i) == F[i]
             P(i) == ss[i]
             E(i) == Len(F[i])
  <2>5. \A i \in 1 .. n : P(i) \in Seq(S) /\ G(i) = Join(G(i - 1), P(i))
    BY <2>2, <2>3, Zenon
  <2>6. /\ G(0) \in Seq(S) /\ Len(G(0)) = 0 /\ G(n) = FlattenSeq(ss)
        /\ \A i : E(i) = Len(G(i))
    BY <2>b, <2>4
  <2> HIDE DEF G, P, E
  <2>7. \A k \in 0 .. n : G(k) \in Seq(S)
    <3> DEFINE T == {k \in Nat : k <= n => G(k) \in Seq(S)}
    <3>1. 0 \in T
      BY <2>6
    <3>2. ASSUME NEW k \in Nat, k \in T PROVE k + 1 \in T
      <4> SUFFICES ASSUME k + 1 <= n PROVE G(k + 1) \in Seq(S)
        OBVIOUS
      <4>1. k + 1 \in 1 .. n /\ k + 1 - 1 = k /\ G(k) \in Seq(S)
        BY <1>0, <3>2
      <4>2. G(k + 1) = Join(G(k), P(k + 1)) /\ P(k + 1) \in Seq(S)
        BY <2>5, <4>1
      <4> QED BY <4>1, <4>2, JoinSeqs
    <3>3. \A k \in Nat : k \in T
      <4> HIDE DEF T
      <4> QED BY <3>1, <3>2, SetInduction
    <3> QED BY <1>0, <3>3
  <2>8. \A k \in 0 .. n : E(k) \in Nat
    BY <2>6, <2>7
  <2>9. ASSUME NEW i \in 1 .. n
        PROVE  /\ G(i - 1) \in Seq(S) /\ P(i) \in Seq(S) /\ G(i) = Join(G(i - 1), P(i))
               /\ E(i) = E(i - 1) + Len(P(i))
    <3>1. i - 1 \in 0 .. n
      BY <1>0
    <3>2. G(i - 1) \in Seq(S) /\ P(i) \in Seq(S) /\ G(i) = Join(G(i - 1), P(i))
      BY <2>5, <2>7, <3>1
    <3>3. Len(G(i)) = Len(G(i - 1)) + Len(P(i))
      BY <3>2, JoinSeqs
    <3> QED BY <2>6, <3>2, <3>3
  <2> DEFINE Fills(k, i) ==
               /\ E(i) <= E(k)
               /\ \A j \in 1 .. Len(P(i)) : G(k)[E(i - 1) + j] = P(i)[j]
             I == {k \in Nat : k <= n => \A i \in 1 .. k : Fills(k, i)}
  <2>10. \A i \in 1 .. n : Fills(n, i)
    <3>1. 0 \in I
      OBVIOUS
    <3>2. ASSUME NEW k \in Nat, k \in I PROVE k + 1 \in I
      <4> SUFFICES ASSUME k + 1 <= n, NEW i \in 1 .. k + 1 PROVE Fills(k + 1, i)
        OBVIOUS
      <4>1. k + 1 \in 1 .. n /\ k + 1 - 1 = k /\ i \in 1 .. n /\ i - 1 \in 0 .. n /\ k \in 0 .. n
        BY <1>0
      <4>2. /\ G(k) \in Seq(S) /\ P(k + 1) \in Seq(S) /\ G(k + 1) = Join(G(k), P(k + 1))
            /\ E(k + 1) = E(k) + Len(P(k + 1))
        BY <2>9, <4>1
      <4>3. CASE i = k + 1
        <5>1. \A j \in 1 .. Len(P(k + 1)) : Join(G(k), P(k + 1))[Len(G(k)) + j] = P(k + 1)[j]
          <6> DEFINE a == G(k)
                     b == P(k + 1)
          <6>1. a \in Seq(S) /\ b \in Seq(S)
            BY <4>2
          <6> HIDE DEF a, b
          <6>2. \A j \in 1 .. Len(b) : Join(a, b)[Len(a) + j] = b[j]
            BY <6>1, JoinSeqs
          <6> QED BY <6>2, Zenon DEF a, b
        <5>2. E(i - 1) = Len(G(k)) /\ E(i) <= E(k + 1)
          BY <2>6, <2>8, <4>1, <4>3
        <5> QED BY <4>2, <4>3, <5>1, <5>2
      <4>4. CASE i \in 1 .. k
        <5>1. Fills(k, i)
          BY <3>2, <4>4, k <= n
        <5>2. /\ E(i - 1) \in Nat /\ E(i) \in Nat /\ E(k) \in Nat /\ E(k) = Len(G(k))
              /\ E(i) = E(i - 1) + Len(P(i)) /\ Len(P(k + 1)) \in Nat /\ Len(P(i)) \in Nat
          <6>1. E(i - 1) \in Nat /\ E(i) \in Nat /\ E(k) \in Nat /\ E(k) = Len(G(k))
            BY <2>6, <2>8, <4>1
          <6>2. P(i) \in Seq(S) /\ E(i) = E(i - 1) + Len(P(i))
            BY <2>9, <4>1
          <6>3. Len(P(k + 1)) \in Nat /\ Len(P(i)) \in Nat
            BY <4>2, <6>2, LenProperties
          <6> QED BY <6>1, <6>2, <6>3
        <5>3. E(i) <= E(k + 1)
          BY <4>2, <5>1, <5>2
        <5>4. ASSUME NEW j \in 1 .. Len(P(i))
              PROVE  G(k + 1)[E(i - 1) + j] = P(i)[j]
          <6>1. G(k)[E(i - 1) + j] = P(i)[j]
            BY <5>1
          <6>2. E(i - 1) + j \in 1 .. Len(G(k))
            BY <5>1, <5>2
          <6>3. Join(G(k), P(k + 1))[E(i - 1) + j] = G(k)[E(i - 1) + j]
            BY <4>2, <6>2, JoinSeqs
          <6> QED BY <4>2, <6>1, <6>3
        <5> QED BY <5>3, <5>4
      <4> QED BY <4>3, <4>4
    <3>3. \A k \in Nat : k \in I
      <4> HIDE DEF I
      <4> QED BY <3>1, <3>2, SetInduction
    <3>4. n \in I
      <4> HIDE DEF I
      <4> QED BY <1>0, <3>3
    <3> QED BY <1>0, <3>4
  <2> DEFINE off == [i \in 0 .. n |-> E(i)]
  <2>11. Layout(ss, FlattenSeq(ss), off)
    <3>1. off \in [0 .. n -> Nat] /\ \A i \in 0 .. n : off[i] = E(i)
      BY <2>8
    <3> HIDE DEF off
    <3>2. off[0] = 0 /\ Len(FlattenSeq(ss)) = off[n]
      BY <1>0, <2>6, <3>1
    <3>3. ASSUME NEW i \in 1 .. n
          PROVE  /\ off[i] = off[i - 1] + Len(ss[i]) /\ off[i] <= Len(FlattenSeq(ss))
                 /\ \A j \in 1 .. Len(ss[i]) : FlattenSeq(ss)[off[i - 1] + j] = ss[i][j]
      <4>1. i \in 0 .. n /\ i - 1 \in 0 .. n
        BY <1>0
      <4>2. off[i] = E(i) /\ off[i - 1] = E(i - 1) /\ ss[i] = P(i)
        BY <3>1, <4>1 DEF P
      <4>3. Fills(n, i) /\ E(n) = Len(FlattenSeq(ss)) /\ G(n) = FlattenSeq(ss)
        BY <2>6, <2>10
      <4> QED BY <2>9, <4>2, <4>3, Zenon
    <3> QED BY <3>1, <3>2, <3>3, Zenon DEF Layout
  <2>12. FlattenSeq(ss) \in Seq(S)
    BY <1>0, <2>6, <2>7
  <2> QED BY <2>11, <2>12, Zenon
<1> QED BY <1>1, <1>2

\* Two sequences begin with the same k elements.
Alike(ss, tt, k) == \A i \in 1 .. k : ss[i] = tt[i]

\* FlattenSeq iterates the same values over two sequences that begin alike.
LEMMA FlattenAgrees ==
  ASSUME NEW ss, NEW tt, NEW n \in Nat, NEW m \in Nat, NEW f, NEW g, NEW k \in Nat,
         Flattens(f, ss, n), Flattens(g, tt, m), k <= n, k <= m,
         Alike(ss, tt, k)
  PROVE  Alike(f, g, k)
<1> DEFINE I == {j \in Nat : j \in 1 .. k => f[j] = g[j]}
<1>1. 0 \in I
  OBVIOUS
<1>2. ASSUME NEW j \in Nat, j \in I PROVE j + 1 \in I
  <2>1. SUFFICES ASSUME j + 1 \in 1 .. k PROVE f[j + 1] = g[j + 1]
    OBVIOUS
  <2>2. j + 1 \in 1 .. n /\ j + 1 \in 1 .. m /\ ss[j + 1] = tt[j + 1]
    BY <2>1 DEF Alike
  <2>3. CASE j = 0
    BY <2>2, <2>3, FlattenStep
  <2>4. CASE j # 0
    <3>1. j \in 1 .. k /\ (j + 1) - 1 = j /\ j + 1 # 1
      BY <2>1, <2>4
    <3>2. f[j] = g[j]
      BY <1>2, <3>1
    <3>3. f[j + 1] = Join(f[j], ss[j + 1]) /\ g[j + 1] = Join(g[j], tt[j + 1])
      BY <2>2, <3>1, FlattenStep
    <3> QED BY <2>2, <3>2, <3>3
  <2> QED BY <2>3, <2>4
<1>3. \A j \in Nat : j \in I
  <2> HIDE DEF I
  <2> QED BY <1>1, <1>2, SetInduction
<1> QED BY <1>3 DEF Alike

\* Sequences, kept folded where they are elements of sequences.
Strings(S) == Seq(S)

\* One more value for one part more.
LEMMA FlattenPrefix ==
  ASSUME NEW T, NEW ss \in Seq(T), NEW x \in T, Len(ss) # 0
  PROVE  FlattenSeq(Append(ss, x)) = Join(FlattenSeq(ss), x)
<1> DEFINE tt == Append(ss, x)
           n == Len(ss)
           m == n + 1
<1>1. /\ tt \in Seq(T) /\ Len(tt) = m /\ tt[m] = x /\ n \in Nat /\ Len(tt) # 0
      /\ Alike(ss, tt, n)
  BY DEF Alike
<1>2. n <= n /\ n <= m /\ n \in 1 .. n /\ m \in Nat /\ m \in 1 .. m /\ m # 1 /\ m - 1 = n
  BY <1>1
<1>3. PICK f : Flattens(f, ss, n) /\ FlattenSeq(ss) = f[n]
  BY FlattenIterates
<1> HIDE DEF tt, n, m
<1>4. PICK g : Flattens(g, tt, m) /\ FlattenSeq(tt) = g[m]
  BY <1>1, FlattenIterates
<1>5. f[n] = g[n]
  <2>1. Alike(f, g, n)
    BY <1>1, <1>2, <1>3, <1>4, FlattenAgrees
  <2> QED BY <1>2, <2>1 DEF Alike
<1>6. g[m] = Join(g[n], x)
  <2>1. m # 1 => g[m] = Join(g[m - 1], tt[m])
    BY <1>2, <1>4, FlattenStep, Zenon
  <2> QED BY <1>1, <1>2, <2>1
<1> QED BY <1>3, <1>4, <1>5, <1>6, Zenon DEF tt

\* Nothing is joined to nothing.
THEOREM FlattenEmpty == FlattenSeq(<<>>) = <<>>
<1>1. Len(<<>>) = 0
  OBVIOUS
<1> QED BY <1>1, Zenon DEF FlattenSeq

\* One part is all there is.
LEMMA FlattenOne ==
  ASSUME NEW T, NEW x \in T
  PROVE  FlattenSeq(<<x>>) = x
<1> DEFINE tt == <<x>>
<1>1. /\ tt \in Seq(T) /\ Len(tt) = 1 /\ Len(tt) # 0 /\ tt[1] = x
      /\ 1 \in Nat /\ 1 \in 1 .. 1
  OBVIOUS
<1> HIDE DEF tt
<1>2. PICK g : Flattens(g, tt, 1) /\ FlattenSeq(tt) = g[1]
  BY <1>1, FlattenIterates
<1>3. g[1] = tt[1]
  BY <1>1, <1>2, FlattenStep
<1> QED BY <1>1, <1>2, <1>3, Zenon DEF tt

\* One part more is joined at the end.
LEMMA FlattenMore ==
  ASSUME NEW S, NEW ss \in Seq(Strings(S)), NEW x \in Strings(S)
  PROVE  FlattenSeq(Append(ss, x)) = Join(FlattenSeq(ss), x)
<1>1. CASE Len(ss) # 0
  BY <1>1, FlattenPrefix
<1>2. CASE Len(ss) = 0
  <2>1. ss = <<>> /\ Append(ss, x) = <<x>>
    BY <1>2
  <2>2. FlattenSeq(<<x>>) = x
    BY FlattenOne
  <2>3. Join(<<>>, x) = x
    BY JoinEmpty DEF Strings
  <2> QED BY <2>1, <2>2, <2>3, FlattenEmpty, Zenon
<1> QED BY <1>1, <1>2

\* It does not matter which of three parts are joined first.
LEMMA JoinAssoc ==
  ASSUME NEW S, NEW a \in Seq(S), NEW b \in Seq(S), NEW c \in Seq(S)
  PROVE  Join(Join(a, b), c) = Join(a, Join(b, c))
BY DEF Join

\* Flattening gives a sequence.
LEMMA FlattenType ==
  ASSUME NEW S
  PROVE  \A ss \in Seq(Strings(S)) : FlattenSeq(ss) \in Seq(S)
BY FlattenLayout, Zenon DEF Strings

\* The parts of two sequences, one after the other.
LEMMA FlattenJoin ==
  ASSUME NEW S
  PROVE  \A ss, tt \in Seq(Strings(S)) :
            FlattenSeq(ss \o tt) = Join(FlattenSeq(ss), FlattenSeq(tt))
<1> DEFINE I == {k \in Nat : \A ss, tt \in Seq(Strings(S)) : Len(tt) = k =>
                    FlattenSeq(ss \o tt) = Join(FlattenSeq(ss), FlattenSeq(tt))}
<1>1. 0 \in I
  <2> SUFFICES ASSUME NEW ss \in Seq(Strings(S)), NEW tt \in Seq(Strings(S)), Len(tt) = 0
               PROVE  FlattenSeq(ss \o tt) = Join(FlattenSeq(ss), FlattenSeq(tt))
    OBVIOUS
  <2>1. tt = <<>> /\ ss \o tt = ss
    BY EmptySeq
  <2>2. PICK fs \in Seq(S) : fs = FlattenSeq(ss)
    BY FlattenType, Zenon
  <2>3. Join(fs, <<>>) = fs
    BY DEF Join
  <2> QED BY <2>1, <2>2, <2>3, FlattenEmpty, Zenon
<1>2. ASSUME NEW k \in Nat, k \in I PROVE k + 1 \in I
  <2> SUFFICES ASSUME NEW ss \in Seq(Strings(S)), NEW tt \in Seq(Strings(S)), Len(tt) = k + 1
               PROVE  FlattenSeq(ss \o tt) = Join(FlattenSeq(ss), FlattenSeq(tt))
    OBVIOUS
  <2>1. PICK u \in Seq(Strings(S)), x \in Strings(S) : Len(u) = k /\ tt = Append(u, x)
    <3>1. /\ SubSeq(tt, 1, k) \in Seq(Strings(S)) /\ Len(SubSeq(tt, 1, k)) = k
          /\ tt[k + 1] \in Strings(S)
      OBVIOUS
    <3>2. tt = Append(SubSeq(tt, 1, k), tt[k + 1])
      OBVIOUS
    <3> QED BY <3>1, <3>2
  <2>2. ss \o u \in Seq(Strings(S))
    OBVIOUS
  <2>3. ss \o tt = Append(ss \o u, x)
    BY <2>1
  <2>4. FlattenSeq(ss \o u) = Join(FlattenSeq(ss), FlattenSeq(u))
    BY <1>2, <2>1
  <2>5. /\ FlattenSeq(Append(ss \o u, x)) = Join(FlattenSeq(ss \o u), x)
        /\ FlattenSeq(tt) = Join(FlattenSeq(u), x)
    BY <2>1, <2>2, FlattenMore
  <2>6. FlattenSeq(ss) \in Seq(S) /\ FlattenSeq(u) \in Seq(S) /\ x \in Seq(S)
    BY FlattenType, Zenon DEF Strings
  <2>7. Join(Join(FlattenSeq(ss), FlattenSeq(u)), x) =
            Join(FlattenSeq(ss), Join(FlattenSeq(u), x))
    BY <2>6, JoinAssoc
  <2> QED BY <2>3, <2>4, <2>5, <2>7, Zenon
<1>3. \A k \in Nat : k \in I
  <2> HIDE DEF I
  <2> QED BY <1>1, <1>2, SetInduction
<1> SUFFICES ASSUME NEW ss \in Seq(Strings(S)), NEW tt \in Seq(Strings(S))
             PROVE  FlattenSeq(ss \o tt) = Join(FlattenSeq(ss), FlattenSeq(tt))
  OBVIOUS
<1>4. Len(tt) \in Nat
  OBVIOUS
<1> QED BY <1>3, <1>4

\* What FlattenSeq makes of nothing, of one part and of two sequences of parts.
THEOREM FlattenCat ==
  ASSUME NEW S
  PROVE  /\ FlattenSeq(<<>>) = <<>>
         /\ \A x \in Strings(S) : FlattenSeq(<<x>>) = x
         /\ \A ss \in Seq(Strings(S)) : FlattenSeq(ss) \in Seq(S)
         /\ \A ss, tt \in Seq(Strings(S)) :
              FlattenSeq(ss \o tt) = FlattenSeq(ss) \o FlattenSeq(tt)
<1>2. ASSUME NEW ss \in Seq(Strings(S)), NEW tt \in Seq(Strings(S))
      PROVE  FlattenSeq(ss \o tt) = FlattenSeq(ss) \o FlattenSeq(tt)
  <2>1. FlattenSeq(ss \o tt) = Join(FlattenSeq(ss), FlattenSeq(tt))
    BY FlattenJoin
  <2> QED BY <2>1 DEF Join
<1> QED BY <1>2, FlattenOne, FlattenEmpty, FlattenType

\* The items of s mapped by the function h, and their parts one after the other.
Maps(h, X, T) == h \in [X -> T]
Mapped(h, s) == [i \in DOMAIN s |-> h[s[i]]]
Parts(h, s) == FlattenSeq(Mapped(h, s))

\* The parts of items are sequences.
LEMMA MappedSeq ==
  ASSUME NEW T, NEW X, NEW h, Maps(h, X, T), NEW s \in Seq(X)
  PROVE  /\ Mapped(h, s) \in Seq(T) /\ Len(Mapped(h, s)) = Len(s)
         /\ \A k \in 1 .. Len(s) : Mapped(h, s)[k] = h[s[k]]
<1>1. DOMAIN s = 1 .. Len(s) /\ Len(s) \in Nat /\ \A k \in 1 .. Len(s) : s[k] \in X
  OBVIOUS
<1>3. /\ Mapped(h, s) \in [1 .. Len(s) -> T]
      /\ \A k \in 1 .. Len(s) : Mapped(h, s)[k] = h[s[k]]
  BY <1>1 DEF Mapped, Maps
<1>4. Mapped(h, s) \in Seq(T) /\ Len(Mapped(h, s)) = Len(s)
  BY <1>1, <1>3
<1> QED BY <1>3, <1>4

\* A sequence that is two others, one after the other.
LEMMA IsJoin ==
  ASSUME NEW S, NEW a \in Seq(S), NEW b \in Seq(S), NEW c \in Seq(S),
         Len(c) = Len(a) + Len(b),
         \A k \in 1 .. Len(a) : c[k] = a[k],
         \A k \in 1 .. Len(b) : c[Len(a) + k] = b[k]
  PROVE  c = a \o b
<1>1. ASSUME NEW k \in 1 .. Len(c) PROVE c[k] = (a \o b)[k]
  <2>1. CASE k <= Len(a)
    BY <2>1
  <2>2. CASE k > Len(a)
    <3>1. k - Len(a) \in 1 .. Len(b) /\ k = Len(a) + (k - Len(a))
      BY <2>2
    <3>2. (a \o b)[k] = b[k - Len(a)]
      BY <2>2
    <3>3. c[k] = b[k - Len(a)]
      BY <3>1
    <3> QED BY <3>2, <3>3
  <2> QED BY <2>1, <2>2
<1>2. a \o b \in Seq(S) /\ Len(a \o b) = Len(c)
  OBVIOUS
<1> QED BY <1>1, <1>2

\* The parts of two sequences of items.
LEMMA MappedCat ==
  ASSUME NEW T, NEW X, NEW h, Maps(h, X, T), NEW s \in Seq(X), NEW t \in Seq(X)
  PROVE  Mapped(h, s \o t) = Mapped(h, s) \o Mapped(h, t)
<1> DEFINE st == s \o t
<1>1. /\ st \in Seq(X) /\ Len(st) = Len(s) + Len(t) /\ Len(s) \in Nat /\ Len(t) \in Nat
      /\ \A k \in 1 .. Len(s) : k \in 1 .. Len(st) /\ st[k] = s[k]
      /\ \A k \in 1 .. Len(t) : Len(s) + k \in 1 .. Len(st) /\ st[Len(s) + k] = t[k]
  OBVIOUS
<1> HIDE DEF st
<1>2. /\ Mapped(h, s) \in Seq(T) /\ Len(Mapped(h, s)) = Len(s)
      /\ \A k \in 1 .. Len(s) : Mapped(h, s)[k] = h[s[k]]
  BY MappedSeq
<1>3. /\ Mapped(h, t) \in Seq(T) /\ Len(Mapped(h, t)) = Len(t)
      /\ \A k \in 1 .. Len(t) : Mapped(h, t)[k] = h[t[k]]
  BY MappedSeq
<1>4. /\ Mapped(h, st) \in Seq(T) /\ Len(Mapped(h, st)) = Len(st)
      /\ \A k \in 1 .. Len(st) : Mapped(h, st)[k] = h[st[k]]
  <2>1. st \in Seq(X)
    BY <1>1
  <2> QED BY <2>1, MappedSeq
<1>5. Mapped(h, st) = Mapped(h, s) \o Mapped(h, t)
  <2>1. Len(Mapped(h, st)) = Len(Mapped(h, s)) + Len(Mapped(h, t))
    BY <1>1, <1>2, <1>3, <1>4
  <2>2. \A k \in 1 .. Len(Mapped(h, s)) : Mapped(h, st)[k] = Mapped(h, s)[k]
    BY <1>1, <1>2, <1>4
  <2>3. ASSUME NEW k \in 1 .. Len(Mapped(h, t))
        PROVE  Mapped(h, st)[Len(Mapped(h, s)) + k] = Mapped(h, t)[k]
    <3>1. k \in 1 .. Len(t) /\ Mapped(h, t)[k] = h[t[k]]
      BY <1>3
    <3>2. Len(s) + k \in 1 .. Len(st) /\ st[Len(s) + k] = t[k]
      BY <1>1, <3>1
    <3>3. Mapped(h, st)[Len(s) + k] = h[st[Len(s) + k]]
      BY <1>4, <3>2
    <3> QED BY <1>2, <3>1, <3>2, <3>3
  <2>4. Mapped(h, s) \in Seq(T) /\ Mapped(h, t) \in Seq(T) /\ Mapped(h, st) \in Seq(T)
    BY <1>2, <1>3, <1>4
  <2> QED BY <2>1, <2>2, <2>3, <2>4, IsJoin
<1> QED BY <1>5 DEF st

\* What no item, one item and the items of two sequences become.
THEOREM PartsCat ==
  ASSUME NEW S, NEW X, NEW h, Maps(h, X, Strings(S))
  PROVE  /\ Parts(h, <<>>) = <<>>
         /\ \A x \in X : Parts(h, <<x>>) = h[x]
         /\ \A s \in Seq(X) : Parts(h, s) \in Seq(S)
         /\ \A s, t \in Seq(X) : Parts(h, s \o t) = Parts(h, s) \o Parts(h, t)
<1>1. Parts(h, <<>>) = <<>>
  <2>1. Mapped(h, <<>>) = <<>>
    BY DEF Mapped
  <2> QED BY <2>1, FlattenEmpty, Zenon DEF Parts
<1>2. ASSUME NEW x \in X PROVE Parts(h, <<x>>) = h[x]
  <2>1. Mapped(h, <<x>>) = <<h[x]>>
    BY DEF Mapped
  <2>2. h[x] \in Strings(S)
    BY DEF Maps
  <2> QED BY <2>1, <2>2, FlattenOne, Zenon DEF Parts
<1>3. ASSUME NEW s \in Seq(X) PROVE Parts(h, s) \in Seq(S)
  <2>1. Mapped(h, s) \in Seq(Strings(S))
    BY MappedSeq
  <2> QED BY <2>1, FlattenType, Zenon DEF Parts
<1>4. ASSUME NEW s \in Seq(X), NEW t \in Seq(X)
      PROVE  Parts(h, s \o t) = Parts(h, s) \o Parts(h, t)
  <2>1. Mapped(h, s) \in Seq(Strings(S)) /\ Mapped(h, t) \in Seq(Strings(S))
    BY MappedSeq
  <2>2. Mapped(h, s \o t) = Mapped(h, s) \o Mapped(h, t)
    BY MappedCat
  <2> QED BY <2>1, <2>2, FlattenCat DEF Parts
<1> QED BY <1>1, <1>2, <1>3, <1>4

\* The last of these by itself, for parts that are sequences of items.
THEOREM PartsJoin ==
  ASSUME NEW S, NEW X, NEW h, Maps(h, X, Strings(S)), NEW s \in Seq(X), NEW t \in Seq(X)
  PROVE  Parts(h, s \o t) = Parts(h, s) \o Parts(h, t)
BY PartsCat
=============================================================================
