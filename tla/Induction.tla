----------------------------- MODULE Induction -----------------------------
(***************************************************************************)
(* Induction without a predicate as a parameter: a set of naturals has a   *)
(* least element, and one that has 0 and every successor has all naturals. *)
(* The proofs about recursive functions and about sequences that are put   *)
(* together from others rest on these.                                     *)
(***************************************************************************)
EXTENDS Integers, Sequences, FiniteSetTheorems, TLAPS

\* The least element, from the finite subsets of Nat, which are well-founded.
LEMMA NatMinimum ==
    ASSUME NEW T \in SUBSET Nat, T # {}
    PROVE  \E x \in T : \A y \in T : x <= y
<1> DEFINE Below(x) == 0 .. x
           Intervals == {Below(x) : x \in T}
<1>1. Intervals \subseteq FiniteSubsetsOf(Nat)
  <2> SUFFICES ASSUME NEW x \in T PROVE Below(x) \in FiniteSubsetsOf(Nat)
    OBVIOUS
  <2>1. IsFiniteSet(0 .. x) /\ (0 .. x) \in SUBSET Nat
    <3>1. x \in Int /\ 0 \in Int
      OBVIOUS
    <3> QED
      BY <3>1, FS_Interval
  <2> QED
    BY <2>1 DEF FiniteSubsetsOf
<1>2. Intervals # {}
  OBVIOUS
<1>3. PICK X \in Intervals : \A Y \in Intervals : ~ (<<Y, X>> \in StrictSubsetOrdering(Nat))
  <2> HIDE DEF Intervals
  <2> QED
    BY <1>1, <1>2, FS_StrictSubsetOrderingWellFounded, WFMin
<1>4. PICK x \in T : X = Below(x)
  OBVIOUS
<1>5. ASSUME NEW y \in T, y < x
      PROVE  FALSE
  <2>1. Below(y) \in Intervals /\ Below(y) \subseteq Below(x) /\ x \in Below(x) /\ x \notin Below(y)
    BY <1>5
  <2>2. Below(y) \in SUBSET Nat /\ Below(x) \in SUBSET Nat
    OBVIOUS
  <2> HIDE DEF Below, Intervals
  <2> QED
    BY <2>1, <2>2, <1>3, <1>4 DEF StrictSubsetOrdering
<1> QED
  BY <1>5

\* Induction: the predicate is membership in S.
LEMMA SetInduction ==
    ASSUME NEW S, 0 \in S, \A n \in Nat : n \in S => n + 1 \in S
    PROVE  Nat \subseteq S
<1> DEFINE T == {n \in Nat : n \notin S}
<1>1. SUFFICES ASSUME T # {} PROVE FALSE
  OBVIOUS
<1>2. PICK x \in T : \A y \in T : x <= y
  BY <1>1, NatMinimum
<1>3. CASE x = 0
  BY <1>3
<1>4. CASE x # 0
  <2>1. x - 1 \in Nat /\ x - 1 \notin T
    BY <1>2, <1>4
  <2> QED
    BY <2>1
<1> QED
  BY <1>3, <1>4

\* A set of naturals with a bound has a largest element.
LEMMA NatMaximum ==
    ASSUME NEW T \in SUBSET Nat, T # {}, NEW b \in Nat, \A x \in T : x <= b
    PROVE  \E x \in T : \A y \in T : y <= x
<1> DEFINE D == {b - x : x \in T}
<1>1. D \in SUBSET Nat /\ D # {}
  <2>1. \A x \in T : b - x \in Nat
    OBVIOUS
  <2> QED
    BY <2>1
<1>2. PICK d \in D : \A e \in D : d <= e
  <2> HIDE DEF D
  <2> QED
    BY <1>1, NatMinimum
<1>3. PICK x \in T : d = b - x
  OBVIOUS
<1>4. \A y \in T : b - x <= b - y
  BY <1>2, <1>3
<1> QED
  BY <1>4

\* f begins with a, and h makes each value from the one before.
Generates(a, h, f) == f[0] = a /\ \A n \in Nat : f[n + 1] = h[n + 1][f[n]]

\* A function on the naturals can be defined by its first value and each of
\* the others from the one before.
LEMMA Recursion ==
    ASSUME NEW S, NEW a \in S, NEW h \in [Nat -> [S -> S]]
    PROVE  \E f \in [Nat -> S] : Generates(a, h, f)
<1> DEFINE Chain(g, n) == g[0] = a /\ \A i \in 0 .. n - 1 : g[i + 1] = h[i + 1][g[i]]
           T == {n \in Nat : \E g \in [0 .. n -> S] : Chain(g, n)}
<1>1. Nat \subseteq T
  <2>1. 0 \in T
    <3> DEFINE g == [i \in 0 .. 0 |-> a]
    <3>1. g \in [0 .. 0 -> S] /\ Chain(g, 0)
      OBVIOUS
    <3> QED
      BY <3>1
  <2>2. ASSUME NEW n \in Nat, n \in T PROVE n + 1 \in T
    <3>1. PICK g \in [0 .. n -> S] : Chain(g, n)
      BY <2>2
    <3>2. g[n] \in S /\ h[n + 1][g[n]] \in S
      OBVIOUS
    <3> DEFINE last == h[n + 1][g[n]]
               e == [i \in 0 .. n + 1 |-> IF i <= n THEN g[i] ELSE last]
    <3>3. e \in [0 .. n + 1 -> S]
      <4> HIDE DEF last
      <4>1. last \in S
        BY <3>2 DEF last
      <4> QED
        BY <4>1
    <3>4. Chain(e, n + 1)
      <4>1. e[0] = a
        BY <3>1
      <4>2. ASSUME NEW i \in 0 .. n PROVE e[i + 1] = h[i + 1][e[i]]
        <5>1. CASE i = n
          <6>1. e[i] = g[n] /\ e[i + 1] = last
            BY <5>1
          <6> QED
            BY <6>1, <5>1
        <5>2. CASE i # n
          <6>1. i \in 0 .. n - 1 /\ i + 1 \in 0 .. n
            BY <5>2
          <6>2. e[i + 1] = g[i + 1] /\ e[i] = g[i]
            BY <6>1
          <6> QED
            BY <6>1, <6>2, <3>1
        <5> QED
          BY <5>1, <5>2
      <4>3. (n + 1) - 1 = n
        OBVIOUS
      <4> HIDE DEF e
      <4> QED
        BY <4>1, <4>2, <4>3
    <3> HIDE DEF e, Chain
    <3> QED
      BY <3>3, <3>4
  <2> HIDE DEF T
  <2> QED
    BY <2>1, <2>2, SetInduction
\* Two chains agree as far as both go.
<1>2. ASSUME NEW n \in Nat, NEW g, NEW e, Chain(g, n), Chain(e, n + 1)
      PROVE  g[n] = e[n]
  <2> DEFINE U == {i \in Nat : i <= n => g[i] = e[i]}
  <2>1. 0 \in U
    BY <1>2
  <2>2. ASSUME NEW i \in Nat, i \in U PROVE i + 1 \in U
    <3>1. CASE i + 1 <= n
      <4>1. i \in 0 .. n - 1 /\ i \in 0 .. n + 1 - 1 /\ g[i] = e[i]
        BY <3>1, <2>2
      <4>2. g[i + 1] = h[i + 1][g[i]] /\ e[i + 1] = h[i + 1][e[i]]
        BY <4>1, <1>2
      <4> QED
        BY <4>1, <4>2
    <3>2. CASE ~ (i + 1 <= n)
      BY <3>2
    <3> QED
      BY <3>1, <3>2
  <2>3. Nat \subseteq U
    <3> HIDE DEF U
    <3> QED
      BY <2>1, <2>2, SetInduction
  <2> QED
    BY <2>3
<1> DEFINE G(n) == CHOOSE g \in [0 .. n -> S] : Chain(g, n)
           f == [n \in Nat |-> G(n)[n]]
<1>3. ASSUME NEW n \in Nat PROVE G(n) \in [0 .. n -> S] /\ Chain(G(n), n)
  <2>1. \E g \in [0 .. n -> S] : Chain(g, n)
    BY <1>1
  <2> HIDE DEF Chain
  <2> QED
    BY <2>1
<1> HIDE DEF G
<1>4. f \in [Nat -> S]
  BY <1>3
<1>5. f[0] = a
  BY <1>3
<1>6. ASSUME NEW n \in Nat PROVE f[n + 1] = h[n + 1][f[n]]
  <2>1. G(n)[n] = G(n + 1)[n]
    <3> HIDE DEF Chain
    <3> QED
      BY <1>2, <1>3
  <2>2. n \in 0 .. (n + 1) - 1
    OBVIOUS
  <2>3. G(n + 1)[n + 1] = h[n + 1][G(n + 1)[n]]
    BY <1>3, <2>2
  <2> QED
    BY <2>1, <2>3
<1> HIDE DEF f
<1> QED
  BY <1>4, <1>5, <1>6 DEF Generates

\* The same up to a last argument.
GeneratesTo(n, a, h, g) ==
    g[0] = a /\ \A k \in 1 .. n : g[k] = h[k][g[k - 1]]

LEMMA FiniteRecursion ==
    ASSUME NEW S, NEW n \in Nat, NEW a \in S, NEW h \in [1 .. n -> [S -> S]]
    PROVE  \E g \in [0 .. n -> S] : GeneratesTo(n, a, h, g)
<1> DEFINE e == [k \in Nat |-> [s \in S |-> IF k \in 1 .. n THEN h[k][s] ELSE a]]
<1>1. e \in [Nat -> [S -> S]]
  OBVIOUS
<1>2. \A k \in 1 .. n, s \in S : e[k][s] = h[k][s]
  OBVIOUS
<1> HIDE DEF e
<1>3. PICK f \in [Nat -> S] : Generates(a, e, f)
  BY <1>1, Recursion
<1> DEFINE g == [k \in 0 .. n |-> f[k]]
<1>4. g \in [0 .. n -> S] /\ g[0] = a
  BY <1>3 DEF Generates
<1>5. ASSUME NEW k \in 1 .. n
      PROVE  g[k] = h[k][g[k - 1]]
  <2>1. k - 1 \in Nat /\ k \in 0 .. n /\ k - 1 \in 0 .. n /\ (k - 1) + 1 = k
    OBVIOUS
  <2>2. f[(k - 1) + 1] = e[(k - 1) + 1][f[k - 1]]
    BY <2>1, <1>3 DEF Generates
  <2>3. f[k] = h[k][f[k - 1]]
    BY <2>1, <2>2, <1>2
  <2> QED
    BY <2>1, <2>3
<1> HIDE DEF g
<1> QED
  BY <1>4, <1>5 DEF GeneratesTo

\* A linear recursion: by a factor and a summand.
LEMMA LinearRecursion ==
    ASSUME NEW a \in Int, NEW b \in Int, NEW c \in [Nat -> Int]
    PROVE  \E f \in [Nat -> Int] : f[0] = a /\ \A n \in Nat : f[n + 1] = f[n] * b + c[n + 1]
<1> DEFINE h == [n \in Nat |-> [m \in Int |-> m * b + c[n]]]
<1>1. h \in [Nat -> [Int -> Int]]
  <2>1. ASSUME NEW n \in Nat, NEW m \in Int PROVE m * b + c[n] \in Int
    <3>1. m * b \in Int /\ c[n] \in Int
      OBVIOUS
    <3> QED
      BY <3>1
  <2> QED
    BY <2>1
<1>2. \A n \in Nat, m \in Int : h[n][m] = m * b + c[n]
  OBVIOUS
<1> HIDE DEF h
<1>3. PICK f \in [Nat -> Int] : Generates(a, h, f)
  BY <1>1, Recursion
<1>4. ASSUME NEW n \in Nat PROVE f[n + 1] = f[n] * b + c[n + 1]
  <2>1. n + 1 \in Nat /\ f[n] \in Int
    OBVIOUS
  <2>2. f[n + 1] = h[n + 1][f[n]]
    BY <1>3 DEF Generates
  <2> QED
    BY <1>2, <2>1, <2>2
<1> QED
  BY <1>3, <1>4 DEF Generates
=============================================================================
