----------------------------- MODULE Recursion -----------------------------
(***************************************************************************)
(* Induction on natural numbers, with sets in the place of predicates, and *)
(* the existence of the functions that the models define by recursion.     *)
(***************************************************************************)
EXTENDS Integers, FiniteSets, FiniteSetTheorems, TLAPS

\* The intervals 1..n are ordered by inclusion as the numbers n are.
LEMMA LeastNatural ==
  ASSUME NEW T, T \subseteq Nat, T # {}
  PROVE  \E n \in T : \A m \in T : n <= m
<1> DEFINE R == StrictSubsetOrdering(Nat)
           S == FiniteSubsetsOf(Nat)
           U == {1..n : n \in T}
<1>1. IsWellFoundedOn(R, S)
  BY FS_StrictSubsetOrderingWellFounded, Zenon
<1>2. U \subseteq S
  <2> SUFFICES ASSUME NEW n \in T PROVE 1..n \in S
    OBVIOUS
  <2>1. IsFiniteSet(1..n) /\ 1..n \subseteq Nat
    BY FS_Interval
  <2> QED
    BY <2>1 DEF FiniteSubsetsOf
<1>3. U # {}
  OBVIOUS
<1>4. PICK I \in U : \A J \in U : <<J, I>> \notin R
  <2> HIDE DEF R, S, U
  <2> QED
    BY <1>1, <1>2, <1>3, WFMin, Zenon
<1>5. PICK n \in T : I = 1..n
  BY <1>4
<1>6. ASSUME NEW m \in T, m < n PROVE FALSE
  <2>1. <<1..m, 1..n>> \notin R
    BY <1>4, <1>5
  <2>2. 1..m \subseteq 1..n /\ n \in 1..n /\ n \notin 1..m
    BY <1>6
  <2> QED
    BY <2>1, <2>2 DEF StrictSubsetOrdering
<1> QED
  BY <1>6

\* Induction over the naturals, for the set of those with a property.
LEMMA Induction ==
  ASSUME NEW H, 0 \in H, \A n \in Nat : n \in H => n + 1 \in H
  PROVE  Nat \subseteq H
<1> SUFFICES ASSUME Nat \ H # {} PROVE FALSE
  OBVIOUS
<1>1. PICK n \in Nat \ H : \A m \in Nat \ H : n <= m
  BY LeastNatural
<1>2. n # 0 /\ n - 1 \in Nat
  OBVIOUS
<1>3. n - 1 \in H
  BY <1>1, <1>2
<1> QED
  BY <1>2, <1>3

\* Induction from n + 1 down to 1.
LEMMA DownwardInduction ==
  ASSUME NEW n \in Nat, NEW H, n + 1 \in H, \A i \in 1..n : i + 1 \in H => i \in H
  PROVE  1 \in H
<1> DEFINE G == {k \in Nat : k <= n => n + 1 - k \in H}
<1>1. 0 \in G
  OBVIOUS
<1>2. ASSUME NEW k \in Nat, k \in G, k + 1 <= n PROVE n + 1 - (k + 1) \in H
  <2>1. n - k \in 1..n /\ n + 1 - k = (n - k) + 1 /\ n + 1 - (k + 1) = n - k /\ k <= n
    BY <1>2
  <2>2. (n - k) + 1 \in H
    BY <1>2, <2>1
  <2> QED
    BY <2>1, <2>2
<1>3. \A k \in Nat : k \in G => k + 1 \in G
  BY <1>2
<1>4. Nat \subseteq G
  <2> HIDE DEF G
  <2> QED
    BY <1>1, <1>3, Induction
<1>5. n + 1 - n \in H
  BY <1>4
<1> QED
  BY <1>5

\* Induction on the size of the members of a set.
LEMMA InductionOnSize ==
  ASSUME NEW S, NEW size \in [S -> Nat], NEW H,
         \A s \in S : (\A t \in S : size[t] < size[s] => t \in H) => s \in H
  PROVE  S \subseteq H
<1> SUFFICES ASSUME S \ H # {} PROVE FALSE
  OBVIOUS
<1> DEFINE T == {size[s] : s \in S \ H}
<1>1. PICK n \in T : \A m \in T : n <= m
  <2>1. T \subseteq Nat /\ T # {}
    OBVIOUS
  <2> HIDE DEF T
  <2> QED
    BY <2>1, LeastNatural
<1>2. PICK s \in S \ H : n = size[s]
  BY <1>1
<1>3. \A t \in S : size[t] < size[s] => t \in H
  <2> SUFFICES ASSUME NEW t \in S, size[t] < size[s], t \notin H PROVE FALSE
    OBVIOUS
  <2>1. size[t] \in T
    OBVIOUS
  <2> QED
    BY <2>1, <1>1, <1>2, SMTT(30)
<1> QED
  BY <1>2, <1>3

\* From an s in T the recursion goes on to step[s], which is smaller, and
\* combines the value found there with s; elsewhere it ends with out[s].
Descends(S, V, T, step, comb, out, size) ==
  /\ T \subseteq S
  /\ step \in [T -> S] /\ comb \in [T -> [V -> V]] /\ out \in [S -> V]
  /\ size \in [S -> Nat] /\ \A s \in T : size[step[s]] < size[s]

\* A function may be defined by recursion on one smaller argument.
LEMMA LinearRecursion ==
  ASSUME NEW S, NEW V, NEW T, NEW step, NEW comb, NEW out, NEW size,
         Descends(S, V, T, step, comb, out, size)
  PROVE  \E g \in [S -> V] :
           \A s \in S : g[s] = IF s \in T THEN comb[s][g[step[s]]] ELSE out[s]
<1>0. /\ T \subseteq S /\ step \in [T -> S] /\ comb \in [T -> [V -> V]]
      /\ out \in [S -> V] /\ size \in [S -> Nat]
      /\ \A s \in T : size[step[s]] < size[s]
  BY DEF Descends
<1> USE <1>0
<1> DEFINE Upto(n) == {s \in S : size[s] < n}
           Value(g, s) == IF s \in T THEN comb[s][g[step[s]]] ELSE out[s]
           Fits(n, g) == /\ g \in [Upto(n) -> V]
                         /\ \A s \in Upto(n) : g[s] = Value(g, s)
           G(n) == CHOOSE g : Fits(n, g)
           F == [s \in S |-> G(size[s] + 1)[s]]
<1>1. \A n \in Nat : \E g : Fits(n, g)
  <2> DEFINE H == {n \in Nat : \E g : Fits(n, g)}
  <2>1. 0 \in H
    <3>1. Fits(0, [s \in {} |-> s])
      OBVIOUS
    <3> QED
      BY <3>1
  <2>2. ASSUME NEW n \in Nat, n \in H PROVE n + 1 \in H
    <3>1. PICK g : Fits(n, g)
      BY <2>2
    <3> DEFINE h == [s \in Upto(n + 1) |-> Value(g, s)]
    <3>2. ASSUME NEW s \in Upto(n + 1), s \in T PROVE step[s] \in Upto(n)
      BY <3>2
    <3>3. h \in [Upto(n + 1) -> V]
      <4> SUFFICES ASSUME NEW s \in Upto(n + 1) PROVE Value(g, s) \in V
        OBVIOUS
      <4>1. CASE s \in T
        BY <4>1, <3>1, <3>2
      <4>2. CASE s \notin T
        BY <4>2
      <4> QED
        BY <4>1, <4>2
    <3>4. ASSUME NEW s \in Upto(n) PROVE h[s] = g[s]
      BY <3>1
    <3>5. ASSUME NEW s \in Upto(n + 1) PROVE h[s] = Value(h, s)
      <4>1. h[s] = Value(g, s)
        OBVIOUS
      <4>2. CASE s \in T
        <5>1. h[step[s]] = g[step[s]]
          BY <3>2, <3>4, <4>2
        <5> HIDE DEF h
        <5> QED
          BY <4>1, <4>2, <5>1
      <4>3. CASE s \notin T
        BY <4>3, <4>1
      <4> QED
        BY <4>2, <4>3
    <3>6. Fits(n + 1, h)
      <4> HIDE DEF h
      <4> QED
        BY <3>3, <3>5
    <3>7. n + 1 \in Nat
      OBVIOUS
    <3> HIDE DEF Fits
    <3> QED
      BY <3>6, <3>7
  <2>3. Nat \subseteq H
    <3> HIDE DEF H
    <3> QED
      BY <2>1, <2>2, Induction
  <2> QED
    BY <2>3
<1>2. ASSUME NEW n \in Nat PROVE Fits(n, G(n))
  <2> HIDE DEF Fits
  <2> QED
    BY <1>1, Zenon
<1>3. ASSUME NEW m \in Nat, NEW n \in Nat, NEW s \in S, size[s] < m, size[s] < n
      PROVE  G(m)[s] = G(n)[s]
  <2> HIDE DEF G
  <2> DEFINE H == {r \in S : size[r] < m /\ size[r] < n => G(m)[r] = G(n)[r]}
  <2>1. ASSUME NEW r \in S, \A t \in S : size[t] < size[r] => t \in H,
               size[r] < m, size[r] < n
        PROVE  G(m)[r] = G(n)[r]
    <3>1. G(m)[r] = Value(G(m), r) /\ G(n)[r] = Value(G(n), r)
      BY <1>2, <2>1
    <3>2. CASE r \in T
      <4>1. step[r] \in S /\ size[step[r]] < size[r]
        BY <3>2
      <4>2. G(m)[step[r]] = G(n)[step[r]]
        BY <4>1, <2>1
      <4> QED
        BY <3>1, <3>2, <4>2
    <3>3. CASE r \notin T
      BY <3>1, <3>3
    <3> QED
      BY <3>2, <3>3
  <2>2. S \subseteq H
    <3>1. \A r \in S : (\A t \in S : size[t] < size[r] => t \in H) => r \in H
      BY <2>1
    <3> HIDE DEF H
    <3> QED
      BY <3>1, InductionOnSize
  <2> QED
    BY <2>2, <1>3
<1>4. ASSUME NEW s \in S PROVE F[s] \in V /\ F[s] = Value(F, s)
  <2> DEFINE n == size[s] + 1
  <2>1. n \in Nat /\ s \in Upto(n)
    OBVIOUS
  <2>2. G(n)[s] \in V /\ G(n)[s] = Value(G(n), s)
    BY <1>2, <2>1
  <2>3. F[s] = G(n)[s]
    BY DEF F
  <2>4. CASE s \in T
    <3>1. step[s] \in S /\ size[step[s]] + 1 \in Nat /\ size[step[s]] < n
      BY <2>4
    <3>2. G(n)[step[s]] = G(size[step[s]] + 1)[step[s]]
      <4> HIDE DEF G
      <4> QED
        BY <3>1, <2>1, <1>3
    <3>3. F[step[s]] = G(size[step[s]] + 1)[step[s]]
      BY <3>1, SMTT(30) DEF F
    <3> HIDE DEF G, F, n
    <3> QED
      BY <2>2, <2>3, <2>4, <3>2, <3>3
  <2>5. CASE s \notin T
    BY <2>2, <2>3, <2>5
  <2> QED
    BY <2>4, <2>5
<1>5. F \in [S -> V]
  <2> HIDE DEF G
  <2> QED
    BY <1>4
<1> QED
  <2> HIDE DEF F
  <2> QED
    BY <1>4, <1>5

-----------------------------------------------------------------------------
(* Sums over finite sets.  The community modules add the members of a set  *)
(* up in the order in which CHOOSE finds them; here it is shown that the   *)
(* order is of no consequence.                                             *)

\* f[s] is the sum of the weights w of the members of s, for all s within S.
SumsUp(f, w, S) ==
  /\ f \in [SUBSET S -> Nat]
  /\ f[{}] = 0
  /\ \A s \in SUBSET S : \A x \in s : f[s] = w[x] + f[s \ {x}]

\* Adding up weights member by member, as it is written recursively, is a sum.
LEMMA SumExists ==
  ASSUME NEW S, IsFiniteSet(S), NEW w \in [S -> Nat], NEW f,
         f = CHOOSE g : g = [s \in SUBSET S |->
               IF s = {} THEN 0 ELSE w[CHOOSE x \in s : TRUE] + g[s \ {CHOOSE x \in s : TRUE}]]
  PROVE  SumsUp(f, w, S)
<1> DEFINE P    == SUBSET S
           T    == P \ {{}}
           c(s) == CHOOSE x \in s : TRUE
           step == [s \in T |-> s \ {c(s)}]
           comb == [s \in T |-> [v \in Nat |-> w[c(s)] + v]]
           out  == [s \in P |-> 0]
           size == [s \in P |-> Cardinality(s)]
<1>1. ASSUME NEW s \in P
      PROVE  IsFiniteSet(s) /\ Cardinality(s) \in Nat
  BY FS_Subset, FS_CardinalityType
<1>2. size \in [P -> Nat]
  BY <1>1
<1>3. ASSUME NEW s \in P, NEW x \in s
      PROVE  s \ {x} \in P /\ size[s \ {x}] < size[s]
  BY <1>1, FS_RemoveElement
<1>4. ASSUME NEW s \in T PROVE c(s) \in s
  OBVIOUS
<1>5. \E g : g = [s \in P |-> IF s = {} THEN 0 ELSE w[c(s)] + g[s \ {c(s)}]]
  <2>1. step \in [T -> P] /\ \A s \in T : size[step[s]] < size[s]
    BY <1>3, <1>4
  <2>2. comb \in [T -> [Nat -> Nat]]
    <3> SUFFICES ASSUME NEW s \in T, NEW v \in Nat PROVE w[c(s)] + v \in Nat
      OBVIOUS
    <3>1. w[c(s)] \in Nat
      BY <1>4
    <3> QED
      BY <3>1
  <2>3. out \in [P -> Nat] /\ T \in SUBSET P
    OBVIOUS
  <2>4. PICK g \in [P -> Nat] :
          \A s \in P : g[s] = IF s \in T THEN comb[s][g[step[s]]] ELSE out[s]
    <3>1. Descends(P, Nat, T, step, comb, out, size)
      <4> HIDE DEF P, T, step, comb, out, size
      <4> QED
        BY <1>2, <2>1, <2>2, <2>3 DEF Descends
    <3> HIDE DEF P, T, step, comb, out, size
    <3> QED
      BY ONLY <3>1, LinearRecursion
  <2>5. ASSUME NEW s \in P
        PROVE  g[s] = IF s = {} THEN 0 ELSE w[c(s)] + g[s \ {c(s)}]
    <3>1. CASE s = {}
      BY <2>4, <3>1
    <3>2. CASE s # {}
      <4>1. s \in T /\ step[s] = s \ {c(s)} /\ step[s] \in P
        BY <3>2, <2>1
      <4>2. g[s] = comb[s][g[step[s]]] /\ g[step[s]] \in Nat
        BY <2>4, <4>1
      <4> HIDE DEF c, step
      <4> QED
        BY <3>2, <4>1, <4>2
    <3> QED
      BY <3>1, <3>2
  <2> HIDE DEF c
  <2> QED
    BY <2>5
<1>6. f = [s \in P |-> IF s = {} THEN 0 ELSE w[c(s)] + f[s \ {c(s)}]]
  BY <1>5
<1>7. ASSUME NEW s \in P
      PROVE  f[s] = IF s = {} THEN 0 ELSE w[c(s)] + f[s \ {c(s)}]
  <2> HIDE DEF c
  <2> QED
    BY <1>6, Zenon
<1>8. f \in [P -> Nat]
  <2> DEFINE H == {s \in P : f[s] \in Nat}
  <2>1. ASSUME NEW s \in P, \A t \in P : size[t] < size[s] => t \in H PROVE s \in H
    <3>1. CASE s = {}
      <4>1. f[s] = 0
        BY <1>7, <3>1
      <4> QED
        BY <4>1
    <3>2. CASE s # {}
      <4>1. c(s) \in s /\ s \ {c(s)} \in H
        BY <1>3, <1>4, <2>1, <3>2
      <4>2. f[s \ {c(s)}] \in Nat /\ w[c(s)] \in Nat
        BY <4>1
      <4>3. f[s] = w[c(s)] + f[s \ {c(s)}]
        BY <1>7, <3>2, Zenon
      <4>4. f[s] \in Nat
        <5> HIDE DEF c
        <5> QED
          BY <4>2, <4>3
      <4> QED
        BY <4>4
    <3> QED
      BY <3>1, <3>2
  <2>2. P \subseteq H
    <3> HIDE DEF H, P, size
    <3> QED
      BY <1>2, <2>1, InductionOnSize
  <2> HIDE DEF P, c
  <2> QED
    BY <2>2, <1>6
<1>9. \A s \in P : \A x \in s : f[s] = w[x] + f[s \ {x}]
  <2> DEFINE H == {s \in P : \A x \in s : f[s] = w[x] + f[s \ {x}]}
  <2>1. ASSUME NEW s \in P, \A t \in P : size[t] < size[s] => t \in H, NEW x \in s
        PROVE  f[s] = w[x] + f[s \ {x}]
    <3>0. PICK d : d = c(s)
      OBVIOUS
    <3>1. d \in s /\ f[s] = w[d] + f[s \ {d}]
      <4>1. s # {}
        OBVIOUS
      <4>2. f[s] = w[c(s)] + f[s \ {c(s)}]
        BY <1>7, <4>1, Zenon
      <4> QED
        BY <3>0, <1>4, <4>1, <4>2
    <3>2. CASE x # d
      <4>1. s \ {d} \in H /\ s \ {x} \in H
        BY <1>3, <2>1, <3>1
      <4>2. f[s \ {d}] = w[x] + f[(s \ {d}) \ {x}] /\ f[s \ {x}] = w[d] + f[(s \ {x}) \ {d}]
        BY <3>1, <3>2, <4>1
      <4>3. (s \ {d}) \ {x} = (s \ {x}) \ {d} /\ (s \ {x}) \ {d} \in P
        OBVIOUS
      <4>4. w[x] \in Nat /\ w[d] \in Nat /\ f[(s \ {x}) \ {d}] \in Nat
        BY <1>8, <3>1, <4>3
      <4> DEFINE r == f[(s \ {x}) \ {d}]
      <4>5. f[s] = w[d] + (w[x] + r) /\ f[s \ {x}] = w[d] + r /\ r \in Nat
        BY <3>1, <4>2, <4>3, <4>4
      <4> HIDE DEF r
      <4> QED
        BY <4>4, <4>5
    <3>3. CASE x = d
      BY <3>1, <3>3, Zenon
    <3> QED
      BY <3>2, <3>3
  <2>2. P \subseteq H
    <3>1. \A s \in P : (\A t \in P : size[t] < size[s] => t \in H) => s \in H
      BY <2>1
    <3> HIDE DEF H, P, size
    <3> QED
      BY <1>2, <3>1, InductionOnSize
  <2> QED
    BY <2>2
<1>10. f[{}] = 0
  BY <1>7
<1> QED
  BY <1>8, <1>9, <1>10 DEF SumsUp

\* The sum over a set depends on the weights of its members only.
LEMMA SumUnique ==
  ASSUME NEW S, NEW T, NEW f, NEW g, NEW w, NEW v,
         SumsUp(f, w, S), SumsUp(g, v, T),
         NEW U \in SUBSET (S \cap T), IsFiniteSet(U), \A x \in U : w[x] = v[x]
  PROVE  f[U] = g[U]
<1> DEFINE P == SUBSET U
           size == [s \in P |-> Cardinality(s)]
           H == {s \in P : f[s] = g[s]}
<1>1. ASSUME NEW s \in P PROVE IsFiniteSet(s) /\ Cardinality(s) \in Nat
  BY FS_Subset, FS_CardinalityType
<1>2. ASSUME NEW s \in P, \A t \in P : size[t] < size[s] => t \in H
      PROVE  s \in H
  <2>1. CASE s = {}
    BY <2>1 DEF SumsUp
  <2>2. CASE s # {}
    <3>1. PICK x \in s : TRUE
      BY <2>2
    <3>2. s \ {x} \in P /\ size[s \ {x}] < size[s]
      BY <1>1, FS_RemoveElement
    <3>3. f[s \ {x}] = g[s \ {x}]
      BY <1>2, <3>2
    <3>4. f[s] = w[x] + f[s \ {x}] /\ g[s] = v[x] + g[s \ {x}] /\ w[x] = v[x]
      BY DEF SumsUp
    <3> QED
      BY <3>3, <3>4
  <2> QED
    BY <2>1, <2>2
<1>3. size \in [P -> Nat]
  BY <1>1
<1>4. P \subseteq H
  <2> HIDE DEF H, P, size
  <2> QED
    BY <1>2, <1>3, InductionOnSize
<1> QED
  BY <1>4
=============================================================================
