------------------------------- MODULE Iteration -------------------------------
(***************************************************************************)
(* Induction over the numbers, and functions of the numbers that are       *)
(* defined by recursion, from the facts about well-founded orders: the     *)
(* least element of a set stands in for the induction rule.  Then what is  *)
(* written part by part, as a file or a script: where each part lies.      *)
(***************************************************************************)
EXTENDS Integers, FiniteSets, SequencesExt, SequenceTheorems, FiniteSetTheorems,
        WellFoundedInduction, TLAPS

LEMMA LeastNumber ==
  ASSUME NEW T, T \subseteq Nat, T # {}
  PROVE  \E n \in T : \A m \in T : n <= m
<1>1. PICK n \in T : \A m \in T : ~ (<<m, n>> \in OpToRel(<, Nat))
  BY WFMin, NatLessThanWellFounded
<1>2. \A m \in T : ~(m < n)
  BY <1>1 DEF OpToRel
<1> QED
  BY <1>2

LEMMA NumbersInduction ==
  ASSUME NEW T, 0 \in T, \A n \in Nat : n \in T => n + 1 \in T
  PROVE  Nat \subseteq T
<1> SUFFICES ASSUME Nat \ T # {}
             PROVE  FALSE
  OBVIOUS
<1>1. PICK n \in Nat \ T : \A m \in Nat \ T : n <= m
  BY LeastNumber
<1>2. n # 0 /\ n - 1 \in Nat /\ n - 1 \in T
  BY <1>1
<1> QED
  BY <1>1, <1>2

\* The first n + 1 iterates of F from a.
Iterates(S, F, a, n) ==
  {g \in [0..n -> S] : g[0] = a /\ \A i \in 1..n : g[i] = F[g[i - 1]]}

LEMMA IteratesExist ==
  ASSUME NEW S, NEW F \in [S -> S], NEW a \in S
  PROVE  \A n \in Nat : Iterates(S, F, a, n) # {}
<1> DEFINE T == {n \in Nat : Iterates(S, F, a, n) # {}}
<1>1. 0 \in T
  <2>1. [i \in 0..0 |-> a] \in Iterates(S, F, a, 0)
    BY DEF Iterates
  <2> QED
    BY <2>1
<1>2. ASSUME NEW n \in Nat, n \in T
      PROVE  n + 1 \in T
  <2>1. PICK g \in [0..n -> S] : g[0] = a /\ \A i \in 1..n : g[i] = F[g[i - 1]]
    BY <1>2 DEF Iterates
  <2> DEFINE h == [i \in 0..(n + 1) |-> IF i <= n THEN g[i] ELSE F[g[n]]]
  <2>2. h \in [0..(n + 1) -> S] /\ h[0] = a
    BY <2>1
  <2>3. ASSUME NEW i \in 1..(n + 1)
        PROVE  h[i] = F[h[i - 1]]
    <3>1. i - 1 \in 0..n /\ h[i - 1] = g[i - 1]
      BY <2>3
    <3>2. CASE i <= n
      BY <2>1, <3>1, <3>2
    <3>3. CASE i = n + 1
      BY <2>1, <3>1, <3>3
    <3> QED
      BY <3>2, <3>3
  <2>4. h \in Iterates(S, F, a, n + 1)
    BY <2>2, <2>3 DEF Iterates
  <2> QED
    BY <2>4
<1>3. Nat \subseteq T
  <2> HIDE DEF T
  <2> QED BY <1>1, <1>2, NumbersInduction
<1> QED
  BY <1>3

LEMMA IteratesAgree ==
  ASSUME NEW S, NEW F \in [S -> S], NEW a \in S, NEW n \in Nat, NEW m \in Nat, n <= m,
         NEW g \in Iterates(S, F, a, n), NEW h \in Iterates(S, F, a, m)
  PROVE  \A i \in 0..n : g[i] = h[i]
<1> DEFINE T == {i \in 0..n : g[i] # h[i]}
<1> SUFFICES ASSUME T # {}
             PROVE  FALSE
  OBVIOUS
<1>1. PICK i \in T : \A j \in T : i <= j
  <2>1. T \subseteq Nat
    OBVIOUS
  <2> HIDE DEF T
  <2> QED BY <2>1, LeastNumber
<1>2. i # 0 /\ i \in 1..n /\ i \in 1..m /\ i - 1 \notin T
  BY <1>1 DEF Iterates
<1> QED
  BY <1>1, <1>2 DEF Iterates

(***************************************************************************)
(* A function of the numbers may be defined by its first value and by what *)
(* F makes of the value before: the recursion has a function to choose.    *)
(***************************************************************************)
IsIteration(F, a, f) == f = [n \in Nat |-> IF n = 0 THEN a ELSE F[f[n - 1]]]

LEMMA IterationExists ==
  ASSUME NEW S, NEW F \in [S -> S], NEW a \in S
  PROVE  \E f \in [Nat -> S] : IsIteration(F, a, f)
<1> DEFINE g(n) == CHOOSE g \in Iterates(S, F, a, n) : TRUE
           f == [n \in Nat |-> g(n)[n]]
<1>1. \A n \in Nat : g(n) \in Iterates(S, F, a, n)
  BY IteratesExist
<1>2. f \in [Nat -> S] /\ f[0] = a
  <2> HIDE DEF g
  <2>1. \A n \in Nat : g(n) \in [0..n -> S] /\ g(n)[0] = a
    BY <1>1 DEF Iterates
  <2>2. \A n \in Nat : n \in 0..n /\ g(n)[n] \in S
    BY <2>1
  <2> QED
    BY <2>1, <2>2
<1>3. ASSUME NEW n \in Nat, n # 0
      PROVE  f[n] = F[f[n - 1]]
  <2>1. n - 1 \in Nat /\ n - 1 <= n /\ n - 1 \in 0..(n - 1) /\ n \in 1..n
    BY <1>3
  <2>2. g(n)[n - 1] = g(n - 1)[n - 1]
    <3> HIDE DEF g
    <3> QED BY <1>1, <2>1, IteratesAgree
  <2>3. g(n)[n] = F[g(n)[n - 1]]
    BY <1>1, <2>1 DEF Iterates
  <2> QED
    BY <2>1, <2>2, <2>3
<1>4. f = [n \in Nat |-> IF n = 0 THEN a ELSE F[f[n - 1]]]
  <2> HIDE DEF f
  <2> QED BY <1>2, <1>3
<1> QED
  BY <1>2, <1>4 DEF IsIteration

\* The same for a recursion that ends, whose steps differ.
IsSteps(G, a, n, f) == f = [k \in 0..n |-> IF k = 0 THEN a ELSE G[<<k, f[k - 1]>>]]

LEMMA StepsExist ==
  ASSUME NEW S, NEW a \in S, NEW n \in Nat, NEW G \in [(1..n) \X S -> S]
  PROVE  \E f \in [0..n -> S] : IsSteps(G, a, n, f)
<1> DEFINE Begins(g, m) == g \in [0..m -> S] /\ g[0] = a
                           /\ \A k \in 1..m : g[k] = G[<<k, g[k - 1]>>]
           T == {m \in Nat : m <= n => \E g : Begins(g, m)}
<1>1. 0 \in T
  <2>1. Begins([k \in 0..0 |-> a], 0)
    OBVIOUS
  <2> QED
    BY <2>1
<1>2. ASSUME NEW m \in Nat, m \in T
      PROVE  m + 1 \in T
  <2> SUFFICES ASSUME m + 1 <= n
               PROVE  \E g : Begins(g, m + 1)
    OBVIOUS
  <2>1. PICK g : Begins(g, m)
    BY <1>2
  <2> DEFINE next == G[<<m + 1, g[m]>>]
             h == [k \in 0..(m + 1) |-> IF k = m + 1 THEN next ELSE g[k]]
  <2>2. next \in S
    BY <2>1
  <2>3. h[m + 1] = next /\ \A k \in 0..m : h[k] = g[k]
    OBVIOUS
  <2>4. h \in [0..(m + 1) -> S] /\ h[0] = a
    BY <2>1, <2>2
  <2> HIDE DEF h
  <2>5. ASSUME NEW k \in 1..(m + 1)
        PROVE  h[k] = G[<<k, h[k - 1]>>]
    <3>1. k - 1 \in 0..m /\ h[k - 1] = g[k - 1]
      BY <2>3
    <3>2. CASE k = m + 1
      BY <2>3, <3>1, <3>2
    <3>3. CASE k # m + 1
      BY <2>1, <2>3, <3>1, <3>3
    <3> QED
      BY <3>2, <3>3
  <2> QED
    BY <2>4, <2>5
<1>3. \E g : Begins(g, n)
  <2>1. Nat \subseteq T
    <3> HIDE DEF T
    <3> QED BY <1>1, <1>2, NumbersInduction
  <2>2. n \in T
    <3> HIDE DEF T
    <3> QED BY <2>1
  <2>3. n <= n => \E g : Begins(g, n)
    BY <2>2, Zenon
  <2> QED
    BY <2>3
<1>4. PICK g : Begins(g, n)
  BY <1>3
<1>5. g = [k \in 0..n |-> IF k = 0 THEN a ELSE G[<<k, g[k - 1]>>]]
  BY <1>4
<1> QED
  BY <1>4, <1>5 DEF IsSteps

(***************************************************************************)
(* A function of the positions of a list of n elements may be defined from *)
(* the last position to the first: emit[k] comes before what is made of    *)
(* position k + skip[k].                                                   *)
(***************************************************************************)
IsBackward(n, emit, skip, f) ==
  f = [k \in 1..(n + 1) |-> IF k > n THEN <<>> ELSE emit[k] \o f[k + skip[k]]]

LEMMA BackwardExists ==
  ASSUME NEW S, NEW n \in Nat, NEW emit \in [1..n -> Seq(S)], NEW skip \in [1..n -> Nat],
         \A k \in 1..n : skip[k] >= 1 /\ k + skip[k] <= n + 1
  PROVE  \E f \in [1..(n + 1) -> Seq(S)] : IsBackward(n, emit, skip, f)
<1> DEFINE Next(g, k) == IF k > n THEN <<>> ELSE emit[k] \o g[k + skip[k]]
           Back(i, g) == /\ g \in [(n + 1 - i)..(n + 1) -> Seq(S)]
                         /\ \A k \in (n + 1 - i)..(n + 1) : g[k] = Next(g, k)
           T == {i \in Nat : i <= n => \E g : Back(i, g)}
<1> HIDE DEF Back
<1>1. 0 \in T
  <2> DEFINE g == [k \in (n + 1 - 0)..(n + 1) |-> <<>>]
  <2>1. Back(0, g)
    <3>1. (n + 1 - 0)..(n + 1) = {n + 1} /\ n + 1 > n
      OBVIOUS
    <3>2. g \in [{n + 1} -> Seq(S)] /\ g[n + 1] = <<>>
      BY <3>1, EmptySeq
    <3> QED
      BY <3>1, <3>2 DEF Back
  <2> QED
    BY <2>1
<1>2. ASSUME NEW i \in Nat, i \in T PROVE i + 1 \in T
  <2> SUFFICES ASSUME i + 1 <= n PROVE \E g : Back(i + 1, g)
    OBVIOUS
  <2>0. PICK g : Back(i, g)
    BY <1>2
  <2>1. /\ g \in [(n + 1 - i)..(n + 1) -> Seq(S)]
        /\ \A k \in (n + 1 - i)..(n + 1) : g[k] = Next(g, k)
    BY <2>0 DEF Back
  <2> DEFINE j == n - i
             D == j..(n + 1)
             w == emit[j] \o g[j + skip[j]]
             h == [k \in D |-> IF k = j THEN w ELSE g[k]]
  <2>2. /\ j \in 1..n /\ j + 1 = n + 1 - i /\ n + 1 - (i + 1) = j
        /\ j + skip[j] \in (n + 1 - i)..(n + 1) /\ j \notin (n + 1 - i)..(n + 1)
        /\ D = {j} \cup (n + 1 - i)..(n + 1)
    OBVIOUS
  <2> HIDE DEF j, D
  <2>3. w \in Seq(S)
    <3>1. emit[j] \in Seq(S) /\ g[j + skip[j]] \in Seq(S)
      BY <2>1, <2>2
    <3> QED
      BY <3>1, ConcatProperties
  <2>4. h[j] = w /\ \A k \in (n + 1 - i)..(n + 1) : h[k] = g[k]
    BY <2>2
  <2>5. h \in [D -> Seq(S)]
    <3>1. \A k \in D : k # j => k \in (n + 1 - i)..(n + 1)
      BY <2>2
    <3> QED
      BY <2>1, <2>3, <3>1
  <2> HIDE DEF h, w
  <2>6. ASSUME NEW k \in D PROVE h[k] = Next(h, k)
    <3>1. CASE k = j
      <4>1. h[j + skip[j]] = g[j + skip[j]]
        BY <2>2, <2>4
      <4>2. ~(j > n)
        BY <2>2
      <4>3. h[j] = emit[j] \o h[j + skip[j]]
        BY <2>4, <4>1 DEF w
      <4> QED
        BY <3>1, <4>2, <4>3
    <3>2. CASE k # j
      <4>1. k \in (n + 1 - i)..(n + 1)
        BY <2>2, <3>2
      <4>2. g[k] = Next(g, k)
        BY <2>1, <4>1
      <4>3. CASE k > n
        BY <2>4, <4>1, <4>2, <4>3
      <4>4. CASE ~(k > n)
        <5>1. k \in 1..n /\ k + skip[k] \in (n + 1 - i)..(n + 1)
          BY <4>1, <4>4
        <5>2. h[k + skip[k]] = g[k + skip[k]]
          BY <2>4, <5>1
        <5> QED
          BY <2>4, <4>1, <4>2, <4>4, <5>2
      <4> QED
        BY <4>3, <4>4
    <3> QED
      BY <3>1, <3>2
  <2>7. Back(i + 1, h)
    BY <2>2, <2>5, <2>6 DEF Back, D
  <2> QED
    BY <2>7
<1>3. \E g : Back(n, g)
  <2>1. Nat \subseteq T
    <3> HIDE DEF T
    <3> QED
      BY <1>1, <1>2, NumbersInduction
  <2> QED
    BY <2>1
<1>4. PICK g : Back(n, g)
  BY <1>3
<1>5. g \in [1..(n + 1) -> Seq(S)] /\ \A k \in 1..(n + 1) : g[k] = Next(g, k)
  <2>1. n + 1 - n = 1
    OBVIOUS
  <2> QED
    BY <1>4, <2>1, Zenon DEF Back
<1>6. g = [k \in 1..(n + 1) |-> Next(g, k)]
  BY <1>5
<1> QED
  BY <1>5, <1>6 DEF IsBackward

\* Behind position d, one such function is the other.
LEMMA BackwardAgree ==
  ASSUME NEW n \in Nat, NEW d \in Nat, NEW n2 \in Nat, n2 = n - d, NEW emit, NEW skip, NEW f, NEW emit2, NEW skip2, NEW g,
         \A k \in 1..n : skip[k] \in Nat /\ skip[k] >= 1 /\ k + skip[k] <= n + 1,
         IsBackward(n, emit, skip, f), IsBackward(n2, emit2, skip2, g),
         \A k \in 1..n2 : emit2[k] = emit[k + d] /\ skip2[k] = skip[k + d]
  PROVE  \A k \in 1..(n2 + 1) : g[k] = f[k + d]
<1>0. d <= n /\ n - d + 1 = n2 + 1 /\ n - d = n2
  OBVIOUS
<1> DEFINE T == {i \in Nat : i <= n - d /\ g[n - d + 1 - i] # f[n + 1 - i]}
<1>1. ASSUME NEW k \in 1..(n + 1)
      PROVE  f[k] = IF k > n THEN <<>> ELSE emit[k] \o f[k + skip[k]]
  BY Zenon DEF IsBackward
<1>2. ASSUME NEW k \in 1..(n - d + 1)
      PROVE  g[k] = IF k > n - d THEN <<>> ELSE emit2[k] \o g[k + skip2[k]]
  <2>1. \A l \in 1..(n2 + 1) : g[l] = IF l > n2 THEN <<>> ELSE emit2[l] \o g[l + skip2[l]]
    BY Zenon DEF IsBackward
  <2> QED
    BY <1>0, <2>1
<1>3. T = {}
  <2> SUFFICES ASSUME T # {} PROVE FALSE
    OBVIOUS
  <2>1. PICK i \in T : \A j \in T : i <= j
    <3>1. T \subseteq Nat
      OBVIOUS
    <3> HIDE DEF T
    <3> QED
      BY <3>1, LeastNumber
  <2> DEFINE k == n - d + 1 - i
  <2>2. k \in 1..(n - d + 1) /\ k + d \in 1..(n + 1) /\ k + d = n + 1 - i /\ g[k] # f[k + d]
        /\ i \in Nat
    BY <2>1
  <2>3. CASE i = 0
    <3>1. k > n - d /\ k + d > n
      BY <2>3
    <3> QED
      BY <1>1, <1>2, <2>2, <3>1
  <2>4. CASE i # 0
    <3>1. k \in 1..(n - d) /\ k + d \in 1..n /\ ~(k > n - d) /\ ~(k + d > n)
      BY <2>1, <2>2, <2>4
    <3> DEFINE s == skip[k + d]
    <3>2. s \in Nat /\ s >= 1 /\ k + d + s <= n + 1 /\ skip2[k] = s /\ emit2[k] = emit[k + d]
      BY <3>1
    <3> HIDE DEF s
    <3>3. i - s \in Nat /\ i - s < i /\ i - s <= n - d /\ n - d + 1 - (i - s) = k + s /\ n + 1 - (i - s) = k + d + s
      BY <2>1, <3>2
    <3>4. i - s \notin T
      <4> HIDE DEF T, k
      <4> QED
        BY <2>1, <2>2, <3>2, <3>3
    <3>5. g[k + s] = f[k + d + s]
      BY <3>3, <3>4
    <3>6. f[k + d] = emit[k + d] \o f[k + d + s] /\ g[k] = emit[k + d] \o g[k + s]
      <4> HIDE DEF k
      <4>1. f[k + d] = emit[k + d] \o f[k + d + skip[k + d]]
        BY <1>1, <2>2, <3>1
      <4>2. g[k] = emit2[k] \o g[k + skip2[k]]
        BY <1>2, <2>2, <3>1
      <4> QED
        BY <4>1, <4>2, <3>2 DEF s
    <3> QED
      BY <2>2, <3>5, <3>6
  <2> QED
    BY <2>3, <2>4
<1>4. ASSUME NEW k \in 1..(n - d + 1) PROVE g[k] = f[k + d]
  <2>1. n - d + 1 - k \in Nat /\ n - d + 1 - k <= n - d /\ n - d + 1 - (n - d + 1 - k) = k
        /\ n + 1 - (n - d + 1 - k) = k + d
    OBVIOUS
  <2>2. n - d + 1 - k \notin T
    <3> HIDE DEF T
    <3> QED
      BY <1>3
  <2> QED
    BY <2>1, <2>2
<1> QED
  BY <1>0, <1>4

LEMMA BackwardUnique ==
  ASSUME NEW n \in Nat, NEW emit, NEW skip, NEW f, NEW g,
         \A k \in 1..n : skip[k] \in Nat /\ skip[k] >= 1 /\ k + skip[k] <= n + 1,
         IsBackward(n, emit, skip, f), IsBackward(n, emit, skip, g)
  PROVE  f[1] = g[1]
<1>1. n = n - 0 /\ \A k \in 1..n : emit[k] = emit[k + 0] /\ skip[k] = skip[k + 0]
  OBVIOUS
<1>2. \A k \in 1..(n + 1) : g[k] = f[k + 0]
  BY <1>1, BackwardAgree
<1>3. 1 \in 1..(n + 1) /\ 1 + 0 = 1
  OBVIOUS
<1> QED
  BY <1>2, <1>3

-----------------------------------------------------------------------------
(***************************************************************************)
(* What is written part by part: s lies in b behind the first o elements.  *)
(***************************************************************************)
Lies(b, o, s) == o + Len(s) <= Len(b) /\ \A k \in 1..Len(s) : b[o + k] = s[k]

\* Where two parts lie that are put together.
LEMMA PartsLie ==
  ASSUME NEW S, NEW x \in Seq(S), NEW y \in Seq(S), NEW b \in Seq(S), NEW o \in Nat
  PROVE  /\ x \o y \in Seq(S) /\ Len(x \o y) = Len(x) + Len(y)
         /\ Lies(b, o, x \o y) => Lies(b, o, x) /\ Lies(b, o + Len(x), y)
<1> DEFINE both == x \o y
<1>1. Len(x) \in Nat /\ Len(y) \in Nat /\ Len(b) \in Nat
  BY LenProperties
<1>2. /\ both \in Seq(S) /\ Len(both) = Len(x) + Len(y)
      /\ \A i \in 1..Len(x) + Len(y) : both[i] = IF i <= Len(x) THEN x[i] ELSE y[i - Len(x)]
  BY ConcatProperties
<1> HIDE DEF both
<1>3. ASSUME Lies(b, o, both) PROVE Lies(b, o, x) /\ Lies(b, o + Len(x), y)
  <2>1. o + Len(x) + Len(y) <= Len(b)
    BY <1>1, <1>2, <1>3 DEF Lies
  <2>2. \A k \in 1..Len(x) : b[o + k] = x[k]
    BY <1>1, <1>2, <1>3 DEF Lies
  <2>3. ASSUME NEW k \in 1..Len(y) PROVE b[o + Len(x) + k] = y[k]
    <3>1. /\ Len(x) + k \in 1..Len(x) + Len(y) /\ ~(Len(x) + k <= Len(x))
          /\ Len(x) + k - Len(x) = k /\ o + (Len(x) + k) = o + Len(x) + k
      BY <1>1
    <3>2. b[o + (Len(x) + k)] = both[Len(x) + k]
      BY <1>2, <1>3, <3>1 DEF Lies
    <3> QED
      BY <1>2, <3>1, <3>2
  <2> QED
    BY <1>1, <2>1, <2>2, <2>3 DEF Lies
<1> QED
  BY <1>2, <1>3 DEF both

\* The number of elements in the first k parts.
Ends(parts) ==
  LET ends[k \in 0..Len(parts)] == IF k = 0 THEN 0 ELSE ends[k - 1] + Len(parts[k])
  IN  ends

\* The ends of the parts follow from one another.
LEMMA EndsExist ==
  ASSUME NEW S, NEW parts \in Seq(Seq(S))
  PROVE  LET e == Ends(parts)
         IN  /\ Len(parts) \in Nat
             /\ e[0] = 0 /\ \A k \in 1..Len(parts) : e[k] = e[k - 1] + Len(parts[k])
             /\ \A k \in 0..Len(parts) : e[k] \in Nat
             /\ \A k \in 1..Len(parts) : parts[k] \in Seq(S) /\ Len(parts[k]) \in Nat
<1> DEFINE n == Len(parts)
           G == [p \in (1..n) \X Nat |-> p[2] + Len(parts[p[1]])]
           Def(f) == f = [k \in 0..n |-> IF k = 0 THEN 0 ELSE f[k - 1] + Len(parts[k])]
           e == CHOOSE f : Def(f)
<1>1. Ends(parts) = e
  BY Zenon DEF Ends
<1>2. n \in Nat /\ \A k \in 1..n : parts[k] \in Seq(S) /\ Len(parts[k]) \in Nat
  BY LenProperties, ElementOfSeq
<1>3. G \in [(1..n) \X Nat -> Nat]
  BY <1>2
<1>4. \E f \in [0..n -> Nat] : IsSteps(G, 0, n, f)
  <2> HIDE DEF G
  <2>1. 0 \in Nat
    OBVIOUS
  <2> QED
    BY <1>2, <1>3, <2>1, StepsExist, Zenon
<1>5. PICK f \in [0..n -> Nat] : IsSteps(G, 0, n, f)
  BY <1>4
<1>6. Def(f)
  <2>1. ASSUME NEW k \in 1..n PROVE G[<<k, f[k - 1]>>] = f[k - 1] + Len(parts[k])
    <3>1. f[k - 1] \in Nat
      <4>1. k - 1 \in 0..n
        BY <1>2
      <4> QED
        BY <1>5, <4>1
    <3> QED
      BY <3>1
  <2>2. \A k \in 0..n : f[k] = IF k = 0 THEN 0 ELSE f[k - 1] + Len(parts[k])
    <3> HIDE DEF G
    <3>1. \A k \in 0..n : f[k] = IF k = 0 THEN 0 ELSE G[<<k, f[k - 1]>>]
      BY <1>5, Zenon DEF IsSteps
    <3>2. \A k \in 0..n : k # 0 => k \in 1..n
      BY <1>2
    <3> QED
      BY <2>1, <3>1, <3>2, Zenon
  <2> QED
    BY <2>2
<1>7. Def(e)
  BY <1>6, Zenon
<1>8. e[0] = 0 /\ \A k \in 1..n : e[k] = e[k - 1] + Len(parts[k])
  <2> HIDE DEF e
  <2>1. \A k \in 0..n : e[k] = IF k = 0 THEN 0 ELSE e[k - 1] + Len(parts[k])
    BY <1>7, Zenon
  <2>2. 0 \in 0..n /\ \A k \in 1..n : k \in 0..n /\ k # 0
    BY <1>2
  <2> QED
    BY <2>1, <2>2, Zenon
<1> HIDE DEF e, Def, G
<1> DEFINE T == {k \in Nat : k <= n => e[k] \in Nat}
<1>9. 0 \in T
  BY <1>8
<1>10. ASSUME NEW k \in Nat, k \in T PROVE k + 1 \in T
  <2> SUFFICES ASSUME k + 1 <= n PROVE e[k + 1] \in Nat
    OBVIOUS
  <2>1. k + 1 \in 1..n /\ k + 1 - 1 = k /\ e[k] \in Nat
    BY <1>2, <1>10
  <2>2. e[k + 1] = e[k] + Len(parts[k + 1])
    BY <1>8, <2>1
  <2> QED
    BY <1>2, <2>1, <2>2
<1>11. \A k \in 0..n : e[k] \in Nat
  <2>1. Nat \subseteq T
    <3> HIDE DEF T
    <3> QED
      BY <1>9, <1>10, NumbersInduction
  <2> QED
    BY <1>2, <2>1
<1> QED
  BY <1>1, <1>2, <1>8, <1>11

\* FlattenSeq puts one part behind the other.
LEMMA Flattened ==
  ASSUME NEW S, NEW parts \in Seq(Seq(S)), NEW b \in Seq(S), NEW o \in Nat
  PROVE  LET all == FlattenSeq(parts)
         IN  /\ all \in Seq(S) /\ Len(all) = Ends(parts)[Len(parts)]
             /\ Lies(b, o, all) =>
                  \A k \in 1..Len(parts) : Lies(b, o + Ends(parts)[k - 1], parts[k])
<1> DEFINE n == Len(parts)
           e == Ends(parts)
           all == FlattenSeq(parts)
<1>1. /\ n \in Nat
      /\ e[0] = 0 /\ \A k \in 1..n : e[k] = e[k - 1] + Len(parts[k])
      /\ \A k \in 0..n : e[k] \in Nat
      /\ \A k \in 1..n : parts[k] \in Seq(S) /\ Len(parts[k]) \in Nat
  BY EndsExist
<1> HIDE DEF e
<1>2. CASE n = 0
  <2>1. all = parts
    BY <1>2 DEF FlattenSeq
  <2>2. parts = << >>
    BY <1>2, EmptySeq
  <2>3. all \in Seq(S) /\ Len(all) = 0
    BY <2>1, <2>2, EmptySeq
  <2> QED
    BY <1>1, <1>2, <2>3 DEF e
<1>3. CASE n # 0
  <2> DEFINE Def(f) == f = [i \in 1..n |-> IF i = 1 THEN parts[i] ELSE f[i - 1] \o parts[i]]
             flatten == CHOOSE f : Def(f)
             Q == Seq(S)
             G == [p \in (1..n) \X Q |-> p[2] \o parts[p[1]]]
  <2>1. all = flatten[n]
    BY <1>3, Zenon DEF FlattenSeq
  <2>2. G \in [(1..n) \X Q -> Q]
    <3>1. ASSUME NEW p \in (1..n) \X Q PROVE G[p] \in Q
      <4>1. p[1] \in 1..n /\ p[2] \in Q
        OBVIOUS
      <4>2. p[2] \o parts[p[1]] \in Q
        BY <1>1, <4>1, ConcatProperties
      <4> QED
        BY <4>2
    <3> QED
      BY <3>1
  <2>3. \E g \in [0..n -> Q] : IsSteps(G, << >>, n, g)
    <3>1. << >> \in Q
      BY EmptySeq
    <3> HIDE DEF G, Q
    <3> QED
      BY <1>1, <2>2, <3>1, StepsExist, Zenon
  <2>4. PICK g \in [0..n -> Q] : IsSteps(G, << >>, n, g)
    BY <2>3
  <2>5. g[0] = << >> /\ \A k \in 1..n : g[k] = g[k - 1] \o parts[k]
    <3>1. \A k \in 0..n : g[k] = IF k = 0 THEN << >> ELSE G[<<k, g[k - 1]>>]
      BY <2>4, Zenon DEF IsSteps
    <3>2. ASSUME NEW k \in 1..n PROVE G[<<k, g[k - 1]>>] = g[k - 1] \o parts[k]
      <4>1. g[k - 1] \in Q
        <5>1. k - 1 \in 0..n
          BY <1>1
        <5> HIDE DEF Q
        <5> QED
          BY <2>4, <5>1
      <4> QED
        BY <4>1
    <3> HIDE DEF G
    <3>3. 0 \in 0..n /\ \A k \in 1..n : k \in 0..n /\ k # 0
      BY <1>1
    <3> QED
      BY <3>1, <3>2, <3>3, Zenon
  <2> DEFINE h == [i \in 1..n |-> g[i]]
  <2>6. Def(h)
    <3>1. ASSUME NEW i \in 1..n
          PROVE  g[i] = IF i = 1 THEN parts[i] ELSE h[i - 1] \o parts[i]
      <4>1. CASE i = 1
        <5>1. << >> \o parts[1] = parts[1]
          BY <1>1, <4>1, ConcatEmptySeq
        <5>2. g[1] = g[0] \o parts[1]
          <6>1. 1 \in 1..n /\ 1 - 1 = 0
            BY <4>1
          <6> QED
            BY <2>5, <6>1, Zenon
        <5> QED
          BY <2>5, <4>1, <5>1, <5>2
      <4>2. CASE i # 1
        <5>1. i - 1 \in 1..n
          BY <1>1, <4>2
        <5>2. h[i - 1] = g[i - 1]
          BY <5>1
        <5> QED
          BY <2>5, <4>2, <5>2
      <4> QED
        BY <4>1, <4>2
    <3> QED
      BY <3>1, Zenon
  <2>7. Def(flatten)
    <3>1. \E f : Def(f)
      BY <2>6
    <3> QED
      BY <3>1, Zenon
  <2>8. /\ flatten[1] = parts[1]
        /\ \A i \in 1..n : i # 1 => flatten[i] = flatten[i - 1] \o parts[i]
    <3> HIDE DEF flatten
    <3>1. \A i \in 1..n : flatten[i] = IF i = 1 THEN parts[i] ELSE flatten[i - 1] \o parts[i]
      BY <2>7, Zenon
    <3>2. 1 \in 1..n
      BY <1>1, <1>3
    <3> QED
      BY <3>1, <3>2, Zenon
  <2> HIDE DEF flatten, Def, h, G, Q
  \* Each stretch of the parts by itself.
  <2> DEFINE Typed(k) == flatten[k] \in Seq(S) /\ Len(flatten[k]) = e[k]
             T == {k \in Nat : k + 1 <= n => Typed(k + 1)}
  <2>9. 0 \in T
    BY <1>1, <1>3, <2>8
  <2>10. ASSUME NEW k \in Nat, k \in T PROVE k + 1 \in T
    <3> SUFFICES ASSUME k + 2 <= n PROVE Typed(k + 2)
      OBVIOUS
    <3>1. Typed(k + 1) /\ k + 2 \in 1..n /\ k + 2 # 1 /\ k + 2 - 1 = k + 1
      BY <1>1, <2>10
    <3>2. flatten[k + 2] = flatten[k + 1] \o parts[k + 2] /\ parts[k + 2] \in Seq(S)
      <4> SUFFICES ASSUME NEW j \in 1..n, j # 1, j = k + 2
                   PROVE  flatten[j] = flatten[k + 1] \o parts[j] /\ parts[j] \in Seq(S)
        BY <3>1
      <4>1. flatten[j] = flatten[j - 1] \o parts[j]
        BY <2>8, Zenon
      <4>2. j - 1 = k + 1
        OBVIOUS
      <4> QED
        BY <1>1, <4>1, <4>2, Zenon
    <3>3. /\ flatten[k + 1] \o parts[k + 2] \in Seq(S)
          /\ Len(flatten[k + 1] \o parts[k + 2]) = Len(flatten[k + 1]) + Len(parts[k + 2])
      BY <3>1, <3>2, ConcatProperties
    <3>4. e[k + 2] = e[k + 1] + Len(parts[k + 2])
      BY <1>1, <3>1
    <3> QED
      BY <3>1, <3>2, <3>3, <3>4
  <2>11. \A k \in 1..n : Typed(k)
    <3>1. Nat \subseteq T
      <4> HIDE DEF T
      <4> QED
        BY <2>9, <2>10, NumbersInduction
    <3>2. ASSUME NEW k \in 1..n PROVE Typed(k)
      <4>1. k - 1 \in Nat /\ k - 1 + 1 = k /\ k <= n
        BY <1>1
      <4>2. k - 1 \in T
        BY <3>1, <4>1
      <4> QED
        BY <4>1, <4>2
    <3> QED
      BY <3>2
  <2>12. ASSUME Lies(b, o, flatten[n])
         PROVE  \A k \in 1..n : Lies(b, o + e[k - 1], parts[k])
    <3> DEFINE U == {i \in Nat : i < n => Lies(b, o, flatten[n - i])}
    <3>1. ASSUME NEW k \in 1..n, k # 1, Lies(b, o, flatten[k])
          PROVE  Lies(b, o, flatten[k - 1]) /\ Lies(b, o + e[k - 1], parts[k])
      <4>1. flatten[k] = flatten[k - 1] \o parts[k] /\ k - 1 \in 1..n
        <5>1. k - 1 \in 1..n
          BY <1>1, <3>1
        <5>2. flatten[k] = flatten[k - 1] \o parts[k]
          BY <2>8, <3>1, Zenon
        <5> QED
          BY <5>1, <5>2
      <4>2. flatten[k - 1] \in Seq(S) /\ Len(flatten[k - 1]) = e[k - 1] /\ parts[k] \in Seq(S)
        BY <1>1, <2>11, <4>1
      <4> DEFINE x == flatten[k - 1]
                 y == parts[k]
      <4>3. x \in Seq(S) /\ y \in Seq(S) /\ Len(x) = e[k - 1] /\ Lies(b, o, x \o y)
        BY <3>1, <4>1, <4>2
      <4> HIDE DEF x, y
      <4>4. Lies(b, o, x) /\ Lies(b, o + Len(x), y)
        BY <4>3, PartsLie
      <4> QED
        BY <4>3, <4>4 DEF x, y
    <3>2. 0 \in U
      BY <1>1, <2>12
    <3>3. ASSUME NEW i \in Nat, i \in U PROVE i + 1 \in U
      <4> SUFFICES ASSUME i + 1 < n PROVE Lies(b, o, flatten[n - (i + 1)])
        OBVIOUS
      <4>1. n - i \in 1..n /\ n - i # 1 /\ n - i - 1 = n - (i + 1) /\ Lies(b, o, flatten[n - i])
        BY <1>1, <3>3
      <4> HIDE DEF U
      <4> QED
        BY <3>1, <4>1
    <3>4. Nat \subseteq U
      <4> HIDE DEF U
      <4> QED
        BY <3>2, <3>3, NumbersInduction
    <3>5. ASSUME NEW k \in 1..n PROVE Lies(b, o, flatten[k])
      <4>1. n - k \in Nat /\ n - k < n /\ n - (n - k) = k
        BY <1>1
      <4>2. n - k \in U
        BY <3>4, <4>1
      <4> QED
        BY <4>1, <4>2
    <3>6. ASSUME NEW k \in 1..n PROVE Lies(b, o + e[k - 1], parts[k])
      <4>1. CASE k = 1
        BY <1>1, <2>8, <3>5, <4>1
      <4>2. CASE k # 1
        BY <3>1, <3>5, <4>2
      <4> QED
        BY <4>1, <4>2
    <3> QED
      BY <3>6
  <2>13. n \in 1..n
    BY <1>1, <1>3
  <2> QED
    BY <2>1, <2>11, <2>12, <2>13 DEF e
<1> QED
  BY <1>2, <1>3
===============================================================================
