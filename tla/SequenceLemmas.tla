--------------------------- MODULE SequenceLemmas ---------------------------
(***************************************************************************)
(* Facts about sequences that the proofs share, among them what FlattenSeq *)
(* of the community modules computes. Induction over the natural numbers   *)
(* is stated for sets: that something holds of a number n is written as    *)
(* its membership in {n \in Nat : ...}.                                    *)
(***************************************************************************)
EXTENDS Integers, SequencesExt, SequenceTheorems, WellFoundedInduction, TLAPS

\* A set of natural numbers that is not empty has a least element.
LEMMA LeastElement ==
  ASSUME NEW T, T \subseteq Nat, T # {}
  PROVE  \E x \in T : \A y \in T : x <= y
<1>1. PICK x \in T : \A y \in T : ~(<<y, x>> \in OpToRel(<, Nat))
  BY NatLessThanWellFounded, WFMin
<1>2. \A y \in T : ~(y < x)
  BY <1>1 DEF OpToRel
<1> QED
  BY <1>2

\* A set of numbers up to a bound that is not empty has a greatest element.
LEMMA GreatestElement ==
  ASSUME NEW n \in Nat, NEW T, T \subseteq 1..n, T # {}
  PROVE  \E x \in T : \A y \in T : y <= x
<1> DEFINE D == {n - y : y \in T}
<1>1. D \subseteq Nat /\ D # {}
  <2>1. PICK y \in T : TRUE
    OBVIOUS
  <2>2. n - y \in D
    OBVIOUS
  <2>3. \A z \in T : n - z \in Nat
    OBVIOUS
  <2>4. ASSUME NEW e \in D PROVE e \in Nat
    <3>1. PICK z \in T : e = n - z
      OBVIOUS
    <3> QED
      BY <2>3, <3>1
  <2> HIDE DEF D
  <2> QED
    BY <2>2, <2>4
<1>2. PICK d \in D : \A e \in D : d <= e
  <2> HIDE DEF D
  <2> QED
    BY <1>1, LeastElement
<1>3. PICK x \in T : d = n - x
  OBVIOUS
<1>4. ASSUME NEW y \in T PROVE y <= x
  <2>1. n - y \in D
    OBVIOUS
  <2>2. n - x <= n - y
    BY <1>2, <1>3, <2>1
  <2>3. x \in Nat /\ y \in Nat
    OBVIOUS
  <2> QED
    BY <2>2, <2>3
<1> QED
  BY <1>4

\* A set with 0 and the successor of each of its members has all of Nat.
LEMMA NatSetInduction ==
  ASSUME NEW S, 0 \in S, \A n \in Nat : n \in S => n + 1 \in S
  PROVE  \A n \in Nat : n \in S
<1> DEFINE T == Nat \ S
<1>1. SUFFICES ASSUME T # {} PROVE FALSE
  OBVIOUS
<1>2. PICK x \in T : \A y \in T : x <= y
  <2>1. T \subseteq Nat
    OBVIOUS
  <2> HIDE DEF T
  <2> QED
    BY <1>1, <2>1, LeastElement
<1>3. x \in Nat /\ x # 0 /\ x - 1 \in Nat /\ ~(x <= x - 1)
  OBVIOUS
<1>4. x - 1 \in S
  BY <1>2, <1>3
<1>5. (x - 1) + 1 \in S
  BY <1>3, <1>4
<1> QED
  BY <1>3, <1>5

\* A sequence of numbers that is not empty has a greatest element.
LEMMA GreatestOfSequence ==
  ASSUME NEW s \in Seq(Nat), s # <<>>
  PROVE  \E i \in 1..Len(s) : \A j \in 1..Len(s) : s[j] <= s[i]
<1> DEFINE S == {n \in Nat : n \in 1..Len(s) =>
                   \E i \in 1..n : \A j \in 1..n : s[j] <= s[i]}
<1>1. 0 \in S
  OBVIOUS
<1>2. ASSUME NEW n \in Nat, n \in S PROVE n + 1 \in S
  <2>1. SUFFICES ASSUME n + 1 \in 1..Len(s)
                 PROVE  \E i \in 1..(n + 1) : \A j \in 1..(n + 1) : s[j] <= s[i]
    OBVIOUS
  <2>2. \A k \in 1..(n + 1) : s[k] \in Nat
    BY <2>1
  <2>3. CASE n = 0
    BY <2>2, <2>3
  <2>4. CASE n # 0
    <3>1. PICK i \in 1..n : \A j \in 1..n : s[j] <= s[i]
      BY <1>2, <2>1, <2>4
    <3>2. \A j \in 1..(n + 1) : j \in 1..n \/ j = n + 1
      OBVIOUS
    <3>3. CASE s[n + 1] <= s[i]
      <4>1. \A j \in 1..(n + 1) : s[j] <= s[i]
        BY <3>1, <3>2, <3>3
      <4>2. i \in 1..(n + 1)
        OBVIOUS
      <4> QED
        BY <4>1, <4>2
    <3>4. CASE s[i] <= s[n + 1]
      <4>1. \A j \in 1..(n + 1) : s[j] <= s[n + 1]
        BY <2>2, <3>1, <3>2, <3>4
      <4>2. n + 1 \in 1..(n + 1)
        OBVIOUS
      <4> QED
        BY <4>1, <4>2
    <3>5. s[n + 1] <= s[i] \/ s[i] <= s[n + 1]
      BY <2>2
    <3> QED
      BY <3>3, <3>4, <3>5
  <2> QED
    BY <2>3, <2>4
<1>3. \A n \in Nat : n \in S
  <2> HIDE DEF S
  <2> QED
    BY <1>1, <1>2, NatSetInduction
<1>4. Len(s) \in Nat /\ Len(s) # 0
  OBVIOUS
<1>5. Len(s) \in 1..Len(s)
  BY <1>4
<1>6. Len(s) \in S
  <2> HIDE DEF S
  <2> QED
    BY <1>3, <1>4
<1> QED
  BY <1>5, <1>6

\* f lists the members of T, n numbers, in ascending order.
Ascends(f, n, T) ==
  /\ f \in [1..n -> T]
  /\ \A i, j \in 1..n : i < j => f[i] < f[j]
  /\ \A x \in T : \E i \in 1..n : f[i] = x

\* A set of numbers up to a bound has such a list.
LEMMA Ascending ==
  ASSUME NEW bound \in Nat, NEW T, T \subseteq 1..bound
  PROVE  \E n \in Nat : \E f : Ascends(f, n, T)
<1> DEFINE Part(k) == T \cap 1..k
           Lists(n, f, k) == /\ f \in [1..n -> Part(k)]
                             /\ \A i, j \in 1..n : i < j => f[i] < f[j]
                             /\ \A x \in Part(k) : \E i \in 1..n : f[i] = x
           S == {k \in Nat : \E n \in Nat : \E f : Lists(n, f, k)}
<1>1. 0 \in S
  <2> DEFINE f == [i \in 1..0 |-> 0]
  <2>1. Part(0) = {}
    OBVIOUS
  <2>2. Lists(0, f, 0)
    BY <2>1
  <2> HIDE DEF Lists, f
  <2> QED
    BY <2>2
<1>2. ASSUME NEW k \in Nat, k \in S PROVE k + 1 \in S
  <2>1. PICK n \in Nat : \E f : Lists(n, f, k)
    BY <1>2
  <2>2. PICK f : Lists(n, f, k)
    BY <2>1
  <2>3. CASE k + 1 \notin T
    <3>1. Part(k + 1) = Part(k)
      <4>1. 1..(k + 1) = 1..k \union {k + 1}
        OBVIOUS
      <4> QED
        BY <2>3, <4>1
    <3> HIDE DEF Part
    <3>2. Lists(n, f, k + 1)
      BY <2>2, <3>1
    <3> HIDE DEF Lists
    <3> QED
      BY <3>2
  <2>4. CASE k + 1 \in T
    <3> DEFINE g == [i \in 1..(n + 1) |-> IF i = n + 1 THEN k + 1 ELSE f[i]]
    <3>1. Part(k + 1) = Part(k) \union {k + 1}
      <4>1. 1..(k + 1) = 1..k \union {k + 1}
        OBVIOUS
      <4> QED
        BY <2>4, <4>1
    <3>2. \A x \in Part(k) : x \in Nat /\ x < k + 1
      OBVIOUS
    <3> HIDE DEF Part
    <3>3. \A i \in 1..(n + 1) : i \in 1..n \/ i = n + 1
      OBVIOUS
    <3>4. \A i \in 1..n : i \in 1..(n + 1) /\ i # n + 1 /\ f[i] \in Part(k)
      BY <2>2
    <3>5. g[n + 1] = k + 1 /\ \A i \in 1..n : g[i] = f[i]
      BY <3>4
    <3>6. g \in [1..(n + 1) -> Part(k + 1)]
      BY <3>1, <3>3, <3>4
    <3> HIDE DEF g
    <3>7. ASSUME NEW i \in 1..(n + 1), NEW j \in 1..(n + 1), i < j
          PROVE  g[i] < g[j]
      <4>1. i \in 1..n
        BY <3>7
      <4>2. CASE j = n + 1
        BY <3>2, <3>4, <3>5, <4>1, <4>2
      <4>3. CASE j \in 1..n
        BY <2>2, <3>5, <3>7, <4>1, <4>3
      <4> QED
        BY <3>3, <4>2, <4>3
    <3>8. ASSUME NEW x \in Part(k + 1) PROVE \E i \in 1..(n + 1) : g[i] = x
      <4>1. CASE x = k + 1
        <5>1. n + 1 \in 1..(n + 1)
          OBVIOUS
        <5> QED
          BY <3>5, <4>1, <5>1
      <4>2. CASE x \in Part(k)
        BY <2>2, <3>4, <3>5, <4>2
      <4> QED
        BY <3>1, <4>1, <4>2
    <3>9. Lists(n + 1, g, k + 1) /\ n + 1 \in Nat
      BY <3>6, <3>7, <3>8
    <3> HIDE DEF Lists
    <3> QED
      BY <3>9
  <2> QED
    BY <2>3, <2>4
<1>3. bound \in S
  <2> HIDE DEF S
  <2> QED
    BY <1>1, <1>2, NatSetInduction
<1>4. Part(bound) = T
  OBVIOUS
<1>5. PICK n \in Nat : \E f : Lists(n, f, bound)
  BY <1>3
<1>6. PICK f : Lists(n, f, bound)
  BY <1>5
<1> HIDE DEF Part
<1>7. Ascends(f, n, T)
  BY <1>4, <1>6 DEF Ascends
<1> QED
  BY <1>7

\* f follows a recursion over 0..n: after f[i - 1] comes step[i] of it.
Recurs(f, first, n, step) ==
  f[0] = first /\ \A i \in 1..n : f[i] = step[i][f[i - 1]]

\* Such a recursion has a solution. This is what a recursive function of a model, which is a CHOOSE of a
\* solution, is reasoned about with.
LEMMA Recursion ==
  ASSUME NEW A, NEW first \in A, NEW n \in Nat, NEW step \in [1..n -> [A -> A]]
  PROVE  \E f \in [0..n -> A] : Recurs(f, first, n, step)
<1> DEFINE Solves(f, k) == f[0] = first /\ \A i \in 1..k : f[i] = step[i][f[i - 1]]
           S == {k \in Nat : k <= n => \E f \in [0..k -> A] : Solves(f, k)}
<1>1. 0 \in S
  <2> DEFINE f == [i \in 0..0 |-> first]
  <2>1. f \in [0..0 -> A] /\ Solves(f, 0)
    OBVIOUS
  <2> HIDE DEF f, Solves
  <2> QED
    BY <2>1
<1>2. ASSUME NEW k \in Nat, k \in S PROVE k + 1 \in S
  <2>1. SUFFICES ASSUME k + 1 <= n PROVE \E f \in [0..(k + 1) -> A] : Solves(f, k + 1)
    OBVIOUS
  <2>2. k <= n /\ k + 1 \in 1..n
    BY <2>1
  <2>3. PICK f \in [0..k -> A] : Solves(f, k)
    BY <1>2, <2>2
  <2> DEFINE last == step[k + 1][f[k]]
             g == [i \in 0..(k + 1) |-> IF i = k + 1 THEN last ELSE f[i]]
  <2>4. last \in A
    BY <2>2
  <2> HIDE DEF last
  <2>5. g \in [0..(k + 1) -> A]
    BY <2>4
  <2>6. /\ g[0] = f[0] /\ g[k + 1] = last /\ g[k] = f[k]
        /\ \A i \in 1..k : g[i] = f[i] /\ g[i - 1] = f[i - 1]
    OBVIOUS
  <2> HIDE DEF g
  <2>7. ASSUME NEW i \in 1..(k + 1) PROVE g[i] = step[i][g[i - 1]]
    <3>1. CASE i = k + 1
      <4>1. i - 1 = k
        BY <3>1
      <4> QED
        BY <2>6, <3>1, <4>1 DEF last
    <3>2. CASE i \in 1..k
      BY <2>3, <2>6, <3>2
    <3> QED
      BY <3>1, <3>2
  <2>8. Solves(g, k + 1)
    BY <2>3, <2>6, <2>7
  <2> HIDE DEF Solves
  <2> QED
    BY <2>5, <2>8
<1>3. n \in S
  <2> HIDE DEF S
  <2> QED
    BY <1>1, <1>2, NatSetInduction
<1> QED
  BY <1>3 DEF Recurs

-----------------------------------------------------------------------------
(***************************************************************************)
(* FlattenSeq. Its definition is a recursive function of the index.        *)
(***************************************************************************)
Flat(seqs, f, n) ==
  \A i \in 1..n : f[i] = IF i = 1 THEN seqs[i] ELSE f[i - 1] \o seqs[i]

\* The recursion has a solution.
LEMMA FlatExists ==
  ASSUME NEW R, NEW seqs \in Seq(Seq(R)), seqs # <<>>
  PROVE  \E f \in [1..Len(seqs) -> Seq(R)] : Flat(seqs, f, Len(seqs))
<1> DEFINE S == {n \in Nat : n \in 1..Len(seqs) =>
                   \E f \in [1..n -> Seq(R)] : Flat(seqs, f, n)}
<1>1. 0 \in S
  OBVIOUS
<1>2. ASSUME NEW n \in Nat, n \in S PROVE n + 1 \in S
  <2>1. SUFFICES ASSUME n + 1 \in 1..Len(seqs)
                 PROVE  \E f \in [1..(n + 1) -> Seq(R)] : Flat(seqs, f, n + 1)
    OBVIOUS
  <2>2. seqs[n + 1] \in Seq(R)
    BY <2>1
  <2>3. CASE n = 0
    <3> DEFINE f == [i \in 1..1 |-> seqs[1]]
    <3>1. f \in [1..1 -> Seq(R)]
      BY <2>2, <2>3
    <3>2. Flat(seqs, f, 1)
      BY DEF Flat
    <3> HIDE DEF f
    <3> QED
      BY <2>3, <3>1, <3>2
  <2>4. CASE n # 0
    <3>1. n \in 1..Len(seqs)
      BY <2>1, <2>4
    <3>2. PICK f \in [1..n -> Seq(R)] : Flat(seqs, f, n)
      BY <1>2, <3>1
    <3> DEFINE last == f[n] \o seqs[n + 1]
               g == [i \in 1..(n + 1) |-> IF i = n + 1 THEN last ELSE f[i]]
    <3>3. f[n] \in Seq(R)
      BY <2>4
    <3>4. last \in Seq(R)
      BY <2>2, <3>3, ConcatProperties
    <3> HIDE DEF last
    <3>5. \A i \in 1..(n + 1) : g[i] \in Seq(R)
      BY <3>4
    <3>6. g \in [1..(n + 1) -> Seq(R)]
      BY <3>5
    <3>7. Flat(seqs, g, n + 1)
      <4>1. SUFFICES ASSUME NEW i \in 1..(n + 1)
                     PROVE  g[i] = IF i = 1 THEN seqs[i] ELSE g[i - 1] \o seqs[i]
        BY DEF Flat
      <4>2. CASE i = n + 1
        <5>1. g[i] = last /\ i # 1
          BY <2>4, <4>2
        <5>0. last = f[n] \o seqs[i]
          BY <4>2 DEF last
        <5>2. g[i - 1] = f[n]
          BY <2>4, <4>2
        <5> HIDE DEF g
        <5> QED
          BY <5>0, <5>1, <5>2
      <4>3. CASE i # n + 1
        <5>1. i \in 1..n /\ g[i] = f[i]
          BY <4>3
        <5>2. i # 1 => g[i - 1] = f[i - 1]
          BY <5>1
        <5>3. f[i] = IF i = 1 THEN seqs[i] ELSE f[i - 1] \o seqs[i]
          BY <3>2, <5>1 DEF Flat
        <5> QED
          BY <5>1, <5>2, <5>3
      <4> QED
        BY <4>2, <4>3
    <3> HIDE DEF g
    <3> QED
      BY <3>6, <3>7
  <2> QED
    BY <2>3, <2>4
<1>3. Len(seqs) \in 1..Len(seqs) /\ Len(seqs) \in Nat
  OBVIOUS
<1>4. Len(seqs) \in S
  <2> HIDE DEF S
  <2> QED
    BY <1>1, <1>2, <1>3, NatSetInduction
<1> QED
  BY <1>3, <1>4

\* Two solutions agree where their sequences do.
LEMMA FlatUnique ==
  ASSUME NEW s, NEW t, NEW f, NEW g, NEW n \in Nat,
         Flat(s, f, n), Flat(t, g, n), \A i \in 1..n : s[i] = t[i]
  PROVE  \A i \in 1..n : f[i] = g[i]
<1> DEFINE S == {k \in Nat : k \in 1..n => f[k] = g[k]}
<1>1. 0 \in S
  OBVIOUS
<1>2. ASSUME NEW k \in Nat, k \in S PROVE k + 1 \in S
  <2>1. SUFFICES ASSUME k + 1 \in 1..n PROVE f[k + 1] = g[k + 1]
    OBVIOUS
  <2>2. f[k + 1] = IF k + 1 = 1 THEN s[k + 1] ELSE f[k + 1 - 1] \o s[k + 1]
    BY <2>1 DEF Flat
  <2>3. g[k + 1] = IF k + 1 = 1 THEN t[k + 1] ELSE g[k + 1 - 1] \o t[k + 1]
    BY <2>1 DEF Flat
  <2>4. k + 1 - 1 = k /\ s[k + 1] = t[k + 1]
    BY <2>1
  <2>5. k + 1 # 1 => f[k] = g[k]
    BY <1>2, <2>1
  <2> QED
    BY <2>2, <2>3, <2>4, <2>5
<1>3. \A k \in Nat : k \in S
  <2> HIDE DEF S
  <2> QED
    BY <1>1, <1>2, NatSetInduction
<1> QED
  BY <1>3

\* FlattenSeq is the last value of a solution.
LEMMA FlattenIsFlat ==
  ASSUME NEW seqs, Len(seqs) \in Nat, Len(seqs) # 0,
         NEW f, Flat(seqs, f, Len(seqs))
  PROVE  FlattenSeq(seqs) = f[Len(seqs)]
<1> DEFINE n == Len(seqs)
           Eq(x) == x = [i \in 1..n |-> IF i = 1 THEN seqs[i] ELSE x[i - 1] \o seqs[i]]
           g == CHOOSE x : Eq(x)
           h == [i \in 1..n |-> f[i]]
<1>1. FlattenSeq(seqs) = g[n]
  BY DEF FlattenSeq
<1>2. Eq(h)
  <2>1. ASSUME NEW i \in 1..n
        PROVE  h[i] = IF i = 1 THEN seqs[i] ELSE h[i - 1] \o seqs[i]
    <3>1. f[i] = IF i = 1 THEN seqs[i] ELSE f[i - 1] \o seqs[i]
      BY DEF Flat
    <3>2. h[i] = f[i] /\ (i # 1 => h[i - 1] = f[i - 1])
      OBVIOUS
    <3> HIDE DEF h
    <3> QED
      BY <3>1, <3>2
  <2> QED
    BY <2>1
<1>3. Eq(g)
  <2> HIDE DEF Eq, h
  <2> QED
    BY <1>2
<1> HIDE DEF g
<1>4. Flat(seqs, g, n)
  BY <1>3 DEF Flat
<1>5. \A i \in 1..n : f[i] = g[i]
  BY <1>4, FlatUnique
<1>6. n \in 1..n
  OBVIOUS
<1> QED
  BY <1>1, <1>5, <1>6

\* The two equations of FlattenSeq.
LEMMA FlattenEmpty == FlattenSeq(<<>>) = <<>>
BY DEF FlattenSeq

LEMMA FlattenLonger ==
  ASSUME NEW R, NEW s \in Seq(Seq(R)), NEW t \in Seq(Seq(R)), s # <<>>,
         Len(t) = Len(s) + 1, \A i \in 1..Len(s) : s[i] = t[i]
  PROVE  /\ FlattenSeq(s) \in Seq(R)
         /\ FlattenSeq(t) = FlattenSeq(s) \o t[Len(t)]
<1> DEFINE m == Len(s)
           n == Len(t)
<1>1. /\ m \in Nat /\ m # 0 /\ n \in Nat /\ n # 0 /\ t # <<>>
      /\ n \in 1..n /\ n # 1 /\ n - 1 = m /\ m \in 1..m
      /\ m \in 1..n /\ \A i \in 1..m : i \in 1..n
  OBVIOUS
<1>2. PICK g \in [1..n -> Seq(R)] : Flat(t, g, n)
  BY <1>1, FlatExists
<1> HIDE DEF m, n
<1>3. Flat(t, g, m)
  BY <1>1, <1>2, Zenon DEF Flat
<1>4. Flat(s, g, m)
  <2>1. \A i \in 1..m : s[i] = t[i]
    BY DEF m
  <2> QED
    BY <1>3, <2>1 DEF Flat
<1>5. FlattenSeq(t) = g[n] /\ FlattenSeq(s) = g[m]
  BY <1>1, <1>2, <1>4, FlattenIsFlat DEF m, n
<1>6. g[n] = g[n - 1] \o t[n]
  BY <1>1, <1>2 DEF Flat
<1>7. g[m] \in Seq(R)
  BY <1>1
<1> QED
  BY <1>1, <1>5, <1>6, <1>7 DEF n

LEMMA FlattenOne ==
  ASSUME NEW R, NEW s \in Seq(R)
  PROVE  FlattenSeq(<<s>>) = s
<1> DEFINE f == [i \in 1..1 |-> s]
           t == <<s>>
<1>1. Len(t) = 1 /\ 1 \in Nat /\ t[1] = s /\ f[1] = s
  OBVIOUS
<1> HIDE DEF f, t
<1>2. Flat(t, f, 1)
  BY <1>1 DEF Flat
<1>3. Len(t) \in Nat /\ Len(t) # 0 /\ Flat(t, f, Len(t))
  BY <1>1, <1>2
<1>4. FlattenSeq(t) = f[Len(t)]
  BY <1>3, FlattenIsFlat
<1> QED
  BY <1>1, <1>4 DEF t

LEMMA FlattenAppend ==
  ASSUME NEW R, NEW seqs \in Seq(Seq(R)), NEW s \in Seq(R)
  PROVE  /\ FlattenSeq(seqs) \in Seq(R)
         /\ FlattenSeq(Append(seqs, s)) = FlattenSeq(seqs) \o s
<1>1. CASE seqs = <<>>
  <2>1. Append(seqs, s) = <<s>>
    BY <1>1
  <2>2. <<>> \in Seq(R) /\ <<>> \o s = s
    BY ConcatEmptySeq
  <2> QED
    BY <1>1, <2>1, <2>2, FlattenEmpty, FlattenOne
<1>2. CASE seqs # <<>>
  <2> DEFINE t == Append(seqs, s)
             m == Len(seqs)
  <2>1. /\ t \in Seq(Seq(R)) /\ Len(t) = m + 1 /\ t[Len(t)] = s
        /\ \A i \in 1..m : seqs[i] = t[i]
    BY AppendProperties
  <2> HIDE DEF t
  <2>3. FlattenSeq(seqs) \in Seq(R) /\ FlattenSeq(t) = FlattenSeq(seqs) \o t[Len(t)]
    BY <1>2, <2>1, FlattenLonger
  <2> QED
    BY <2>1, <2>3 DEF t
<1> QED
  BY <1>1, <1>2

\* What is flattened of the first i sequences: the next one is added to it,
\* and it is the beginning of the whole.
Upto(seqs, i) == FlattenSeq(SubSeq(seqs, 1, i))

LEMMA UptoNext ==
  ASSUME NEW R, NEW seqs \in Seq(Seq(R)), NEW i \in 0..(Len(seqs) - 1)
  PROVE  Upto(seqs, i) \in Seq(R) /\ Upto(seqs, i + 1) = Upto(seqs, i) \o seqs[i + 1]
<1>1. /\ SubSeq(seqs, 1, i) \in Seq(Seq(R))
      /\ seqs[i + 1] \in Seq(R)
  BY SubSeqProperties
<1>2. i + 1 \in 1..Len(seqs) /\ 1 \in 1..Len(seqs) /\ i + 1 \in 1..Len(seqs)
  OBVIOUS
<1>3. SubSeq(seqs, 1, i + 1) = SubSeq(seqs, 1, i) \o <<seqs[i + 1]>>
  <2>1. SubSeq(seqs, 1, i + 1) = SubSeq(seqs, 1, i + 1 - 1) \o <<seqs[i + 1]>>
    BY <1>2, SubSeqRecursiveSecond
  <2>2. i + 1 - 1 = i
    OBVIOUS
  <2> QED
    BY <2>1, <2>2
<1>4. SubSeq(seqs, 1, i + 1) = Append(SubSeq(seqs, 1, i), seqs[i + 1])
  BY <1>1, <1>3, AppendIsConcat
<1> QED
  BY <1>1, <1>4, FlattenAppend DEF Upto

LEMMA UptoAll ==
  ASSUME NEW R, NEW seqs \in Seq(Seq(R))
  PROVE  /\ Upto(seqs, 0) = <<>>
         /\ Upto(seqs, Len(seqs)) = FlattenSeq(seqs)
         /\ FlattenSeq(seqs) \in Seq(R)
<1>1. SubSeq(seqs, 1, 0) = <<>> /\ SubSeq(seqs, 1, Len(seqs)) = seqs
  BY SubSeqEmpty, SubSeqFull
<1>2. <<>> \in Seq(R)
  OBVIOUS
<1> QED
  BY <1>1, <1>2, FlattenEmpty, FlattenAppend DEF Upto

LEMMA UptoIsBeginning ==
  ASSUME NEW R, NEW seqs \in Seq(Seq(R)), NEW i \in 0..Len(seqs)
  PROVE  /\ Upto(seqs, i) \in Seq(R)
         /\ \E t \in Seq(R) : FlattenSeq(seqs) = Upto(seqs, i) \o t
<1> DEFINE S == {k \in Nat : i + k <= Len(seqs) =>
                   \E t \in Seq(R) : Upto(seqs, i + k) = Upto(seqs, i) \o t}
<1>1. Upto(seqs, i) \in Seq(R)
  <2>1. CASE i < Len(seqs)
    BY <2>1, UptoNext
  <2>2. CASE i = Len(seqs)
    BY <2>2, UptoAll
  <2> QED
    BY <2>1, <2>2
<1>2. 0 \in S
  <2>1. Upto(seqs, i) = Upto(seqs, i) \o <<>> /\ <<>> \in Seq(R)
    BY <1>1, ConcatEmptySeq
  <2>2. i + 0 = i
    OBVIOUS
  <2> QED
    BY <2>1, <2>2
<1>3. ASSUME NEW k \in Nat, k \in S PROVE k + 1 \in S
  <2>1. SUFFICES ASSUME i + (k + 1) <= Len(seqs)
                 PROVE  \E t \in Seq(R) : Upto(seqs, i + (k + 1)) = Upto(seqs, i) \o t
    <3>1. k + 1 \in Nat
      OBVIOUS
    <3> QED
      BY <3>1
  <2>2. i + k \in 0..(Len(seqs) - 1) /\ i + (k + 1) = i + k + 1 /\ i + k <= Len(seqs)
    BY <2>1
  <2>3. PICK t \in Seq(R) : Upto(seqs, i + k) = Upto(seqs, i) \o t
    <3>1. i + k <= Len(seqs) => \E t \in Seq(R) : Upto(seqs, i + k) = Upto(seqs, i) \o t
      BY <1>3
    <3> QED
      BY <2>2, <3>1
  <2> HIDE DEF S
  <2>4. Upto(seqs, i + k + 1) = Upto(seqs, i + k) \o seqs[i + k + 1]
    BY <2>2, UptoNext
  <2>5. seqs[i + k + 1] \in Seq(R)
    BY <2>2
  <2>6. Upto(seqs, i + k + 1) = Upto(seqs, i) \o (t \o seqs[i + k + 1])
    <3>1. (Upto(seqs, i) \o t) \o seqs[i + k + 1] = Upto(seqs, i) \o (t \o seqs[i + k + 1])
      <4> DEFINE first == Upto(seqs, i)
                 next == seqs[i + k + 1]
      <4>1. first \in Seq(R) /\ next \in Seq(R)
        BY <1>1, <2>5
      <4> HIDE DEF first, next
      <4>2. (first \o t) \o next = first \o (t \o next)
        BY <4>1, ConcatAssociative
      <4> QED
        BY <4>2 DEF first, next
    <3> QED
      BY <2>3, <2>4, <3>1
  <2>7. t \o seqs[i + k + 1] \in Seq(R)
    BY <2>5, ConcatProperties
  <2>8. Upto(seqs, i + (k + 1)) = Upto(seqs, i) \o (t \o seqs[i + k + 1])
    BY <2>2, <2>6
  <2> QED
    BY <2>7, <2>8
<1>4. Len(seqs) - i \in Nat /\ i + (Len(seqs) - i) = Len(seqs)
  OBVIOUS
<1>5. Len(seqs) - i \in S
  <2> HIDE DEF S
  <2> QED
    BY <1>2, <1>3, <1>4, NatSetInduction
<1>6. \E t \in Seq(R) : Upto(seqs, Len(seqs)) = Upto(seqs, i) \o t
  BY <1>4, <1>5
<1> QED
  BY <1>1, <1>6, UptoAll

\* Concatenation is associative, quantified the way first-order provers
\* instantiate it.
LEMMA ConcatRegrouped ==
  \A R : \A a, b, c \in Seq(R) : (a \o b) \o c = a \o (b \o c)
<1>1. ASSUME NEW R, NEW a \in Seq(R), NEW b \in Seq(R), NEW c \in Seq(R)
      PROVE  (a \o b) \o c = a \o (b \o c)
  BY ConcatAssociative
<1> QED
  BY <1>1, Zenon

\* A sequence is a prefix of what it begins.
LEMMA PrefixOfConcat ==
  ASSUME NEW R, NEW s \in Seq(R), NEW t \in Seq(R)
  PROVE  IsPrefix(s, s \o t)
<1>1. /\ s \o t \in Seq(R) /\ Len(s \o t) = Len(s) + Len(t)
      /\ \A i \in 1..Len(s) : (s \o t)[i] = s[i]
  BY ConcatProperties
<1>2. SubSeq(s, 1, Len(s)) = SubSeq(s \o t, 1, Len(s))
  BY <1>1
<1> QED
  BY <1>1, <1>2 DEF IsPrefix

\* What is flattened of the first sequences is a prefix of the whole.
LEMMA BeginningIsPrefix ==
  ASSUME NEW R, NEW seqs \in Seq(Seq(R)), NEW i \in 0..Len(seqs)
  PROVE  Upto(seqs, i) \in Seq(R) /\ IsPrefix(Upto(seqs, i), FlattenSeq(seqs))
<1>1. PICK t \in Seq(R) : FlattenSeq(seqs) = Upto(seqs, i) \o t
  BY UptoIsBeginning
<1>2. Upto(seqs, i) \in Seq(R)
  BY UptoIsBeginning
<1>3. IsPrefix(Upto(seqs, i), Upto(seqs, i) \o t)
  BY <1>2, PrefixOfConcat
<1> QED
  BY <1>1, <1>2, <1>3
=============================================================================
