------------------------ MODULE StreamIngestion_proofs ------------------------
(***************************************************************************)
(* Proofs about StreamIngestion, for every set of event ids, every batch   *)
(* size and any number of lines and of killed consumers.                   *)
(***************************************************************************)
EXTENDS StreamIngestion, SequenceLemmas, FiniteSetTheorems

(***************************************************************************)
(* The inductive invariant.                                                *)
(***************************************************************************)
FileLine == Line \union {Garbled}

\* The lines of a sequence come in the order they were put in.
Ordered(s) ==
  \A i, j \in DOMAIN s :
    i < j /\ s[i] # Garbled /\ s[j] # Garbled => s[i].at < s[j].at

\* Every line of X was put before every line of Y.
Before(X, Y) == \A x \in X, y \in Y : x.at < y.at

\* A line is numbered as it is put, and everything was put before.
SentInv ==
  /\ IsFiniteSet(sent)
  /\ \A l \in sent : l.at <= Cardinality(sent)
  /\ LinesOf(stream) \subseteq sent /\ LinesOf(batch) \subseteq sent
  /\ LinesOf(rest) \subseteq sent /\ Landed \subseteq sent

OrderInv ==
  /\ Ordered(stream) /\ Ordered(batch) /\ Ordered(rest)
  /\ Before(LinesOf(batch), LinesOf(rest))

\* What the consumer holds and what the file holds, at each of its steps.
HoldsInv ==
  /\ pc \in {"idle", "land", "reject"} => rest = <<>>
  /\ pc = "idle" => batch = <<>>
  /\ pc \in {"validate", "truncate"} =>
       /\ InHand \subseteq LinesOf(stream)
       /\ LinesOf(stream) \subseteq InHand \union exposed
  /\ pc = "rewrite" =>
       /\ LinesOf(stream) \subseteq exposed
       /\ Before(InHand, LinesOf(stream))
  /\ pc \in {"land", "reject"} => Before(LinesOf(batch), LinesOf(stream))

\* Everything landed was put before what is still to be landed.
LandedInv ==
  /\ Before(Landed, LinesOf(stream) \union LinesOf(rest))
  /\ pc # "reject" => Before(Landed, LinesOf(batch))

\* Once the batch is landed, only its invalid lines are left.
BatchInv ==
  pc = "reject" =>
    \A l \in LinesOf(batch) :
      l.valid => \E x \in Landed : x.id = l.id /\ x.at >= l.at

\* What is neither in the file nor in hand has been written to the lake, where
\* a later batch may have replaced it, or was lost on the way there.
LossInv ==
  \A line \in sent :
    line \in LinesOf(stream) \union InHand \union exposed \union dropped
      \/ Handled(line, Written)

Inv ==
  /\ TypeOK /\ SentInv /\ OrderInv /\ HoldsInv /\ LandedInv /\ BatchInv
  /\ LossInv

-----------------------------------------------------------------------------
(***************************************************************************)
(* Lines of sequences.                                                     *)
(***************************************************************************)
\* The lines of a sequence are lines, by the positions they are at.
LEMMA LinesAreLines ==
  ASSUME NEW s \in Seq(FileLine)
  PROVE  /\ LinesOf(s) \subseteq Line
         /\ \A i \in 1..Len(s) : s[i] # Garbled => s[i] \in LinesOf(s)
         /\ \A l \in LinesOf(s) : \E i \in 1..Len(s) : s[i] = l /\ s[i] # Garbled
         /\ DOMAIN s = 1..Len(s) /\ Len(s) \in Nat
BY DEF LinesOf, FileLine

LEMMA NoLines ==
  LinesOf(<<>>) = {} /\ Ordered(<<>>) /\ <<>> \in Seq(FileLine) /\ <<>> \in Seq(Line)
BY DEF LinesOf, Ordered

LEMMA NoLinesButGarbled ==
  LinesOf(<<Garbled>>) = {} /\ Ordered(<<Garbled>>) /\ <<Garbled>> \in Seq(FileLine)
<1> DEFINE s == <<Garbled>>
<1>1. s \in Seq(FileLine) /\ \A i \in DOMAIN s : s[i] = Garbled
  BY DEF FileLine
<1> HIDE DEF s
<1>2. LinesOf(s) = {} /\ Ordered(s)
  BY <1>1 DEF LinesOf, Ordered
<1> QED
  BY <1>1, <1>2 DEF s

\* A part of a sequence.
LEMMA LinesOfPart ==
  ASSUME NEW s \in Seq(FileLine), NEW m \in Nat \ {0}, NEW n \in 0..Len(s)
  PROVE  /\ SubSeq(s, m, n) \in Seq(FileLine)
         /\ \A i \in 1..Len(SubSeq(s, m, n)) :
              m + i - 1 \in m..n /\ SubSeq(s, m, n)[i] = s[m + i - 1]
         /\ \A k \in m..n : \E i \in 1..Len(SubSeq(s, m, n)) : SubSeq(s, m, n)[i] = s[k]
         /\ LinesOf(SubSeq(s, m, n)) \subseteq LinesOf(s)
         /\ Ordered(s) => Ordered(SubSeq(s, m, n))
<1> DEFINE t == SubSeq(s, m, n)
<1>1. \A i \in m..n : s[i] \in FileLine
  OBVIOUS
<1>2. /\ t \in Seq(FileLine)
      /\ Len(t) = IF m <= n THEN n - m + 1 ELSE 0
      /\ \A i \in 1..(n - m + 1) : t[i] = s[m + i - 1]
  BY <1>1, SubSeqProperties
<1> HIDE DEF t
<1>3. Len(t) \in Nat /\ DOMAIN t = 1..Len(t)
  BY <1>2
<1>4. \A i \in 1..Len(t) : m + i - 1 \in m..n /\ t[i] = s[m + i - 1]
  BY <1>2, <1>3
<1>5. ASSUME NEW k \in m..n PROVE \E i \in 1..Len(t) : t[i] = s[k]
  <2>1. k - m + 1 \in 1..Len(t) /\ m + (k - m + 1) - 1 = k
    BY <1>2
  <2> QED
    BY <1>4, <2>1
<1>6. LinesOf(t) \subseteq LinesOf(s)
  <2>1. SUFFICES ASSUME NEW l \in LinesOf(t) PROVE l \in LinesOf(s)
    OBVIOUS
  <2>2. PICK i \in 1..Len(t) : t[i] = l /\ l # Garbled
    BY <1>2, LinesAreLines
  <2>3. m + i - 1 \in 1..Len(s) /\ s[m + i - 1] = l
    BY <1>4, <2>2
  <2> QED
    BY <2>2, <2>3, LinesAreLines
<1>7. ASSUME Ordered(s) PROVE Ordered(t)
  <2>1. SUFFICES ASSUME NEW i \in 1..Len(t), NEW j \in 1..Len(t), i < j,
                        t[i] # Garbled, t[j] # Garbled
                 PROVE  t[i].at < t[j].at
    BY <1>3 DEF Ordered
  <2>2. /\ m + i - 1 \in DOMAIN s /\ m + j - 1 \in DOMAIN s
        /\ m + i - 1 < m + j - 1
        /\ t[i] = s[m + i - 1] /\ t[j] = s[m + j - 1]
    BY <1>4, <2>1
  <2> QED
    BY <1>7, <2>1, <2>2 DEF Ordered
<1> QED
  BY <1>2, <1>4, <1>5, <1>6, <1>7 DEF t

\* Two sequences, the lines of the first before those of the second.
LEMMA LinesOfConcat ==
  ASSUME NEW s \in Seq(FileLine), NEW t \in Seq(FileLine)
  PROVE  /\ s \o t \in Seq(FileLine)
         /\ LinesOf(s \o t) = LinesOf(s) \union LinesOf(t)
         /\ Ordered(s) /\ Ordered(t) /\ Before(LinesOf(s), LinesOf(t)) => Ordered(s \o t)
<1> DEFINE u == s \o t
<1>1. /\ u \in Seq(FileLine) /\ Len(u) = Len(s) + Len(t)
      /\ \A i \in 1..(Len(s) + Len(t)) : u[i] = IF i <= Len(s) THEN s[i] ELSE t[i - Len(s)]
  BY ConcatProperties
<1>2. Len(s) \in Nat /\ Len(t) \in Nat
  OBVIOUS
<1> HIDE DEF u
<1>3. DOMAIN u = 1..Len(u) /\ DOMAIN s = 1..Len(s) /\ DOMAIN t = 1..Len(t)
  BY <1>1
<1>4. ASSUME NEW l \in LinesOf(u) PROVE l \in LinesOf(s) \union LinesOf(t)
  <2>1. PICK i \in 1..Len(u) : u[i] = l /\ l # Garbled
    BY <1>1, LinesAreLines
  <2>2. CASE i <= Len(s)
    <3>1. i \in 1..Len(s) /\ s[i] = l
      BY <1>1, <1>2, <2>1, <2>2
    <3> QED
      BY <2>1, <3>1, LinesAreLines
  <2>3. CASE ~(i <= Len(s))
    <3>1. i - Len(s) \in 1..Len(t) /\ t[i - Len(s)] = l
      BY <1>1, <1>2, <2>1, <2>3
    <3> QED
      BY <2>1, <3>1, LinesAreLines
  <2> QED
    BY <2>2, <2>3
<1>5. ASSUME NEW l \in LinesOf(s) PROVE l \in LinesOf(u)
  <2>1. PICK i \in 1..Len(s) : s[i] = l /\ l # Garbled
    BY LinesAreLines
  <2>2. i \in 1..Len(u) /\ u[i] = l
    BY <1>1, <1>2, <2>1
  <2> QED
    BY <1>1, <2>1, <2>2, LinesAreLines
<1>6. ASSUME NEW l \in LinesOf(t) PROVE l \in LinesOf(u)
  <2>1. PICK i \in 1..Len(t) : t[i] = l /\ l # Garbled
    BY LinesAreLines
  <2>2. Len(s) + i \in 1..Len(u) /\ u[Len(s) + i] = l
    <3> DEFINE k == Len(s) + i
    <3>1. k \in 1..(Len(s) + Len(t)) /\ ~(k <= Len(s)) /\ k - Len(s) = i
      BY <1>2
    <3> HIDE DEF k
    <3>2. u[k] = t[k - Len(s)] /\ k \in 1..Len(u)
      BY <1>1, <3>1
    <3> QED
      BY <2>1, <3>1, <3>2 DEF k
  <2> QED
    BY <1>1, <2>1, <2>2, LinesAreLines
<1>7. ASSUME Ordered(s), Ordered(t), Before(LinesOf(s), LinesOf(t))
      PROVE  Ordered(u)
  <2>1. SUFFICES ASSUME NEW i \in 1..Len(u), NEW j \in 1..Len(u), i < j,
                        u[i] # Garbled, u[j] # Garbled
                 PROVE  u[i].at < u[j].at
    BY <1>3 DEF Ordered
  <2>2. CASE j <= Len(s)
    <3>1. i \in DOMAIN s /\ j \in DOMAIN s /\ u[i] = s[i] /\ u[j] = s[j]
      BY <1>1, <1>2, <1>3, <2>1, <2>2
    <3> QED
      BY <1>7, <2>1, <3>1 DEF Ordered
  <2>3. CASE i <= Len(s) /\ ~(j <= Len(s))
    <3>1. /\ i \in 1..Len(s) /\ u[i] = s[i]
          /\ j - Len(s) \in 1..Len(t) /\ u[j] = t[j - Len(s)]
      BY <1>1, <1>2, <2>1, <2>3
    <3>2. u[i] \in LinesOf(s) /\ u[j] \in LinesOf(t)
      BY <2>1, <3>1, LinesAreLines
    <3> QED
      BY <1>7, <3>2 DEF Before
  <2>4. CASE ~(i <= Len(s))
    <3>1. /\ i - Len(s) \in DOMAIN t /\ j - Len(s) \in DOMAIN t
          /\ i - Len(s) < j - Len(s)
          /\ u[i] = t[i - Len(s)] /\ u[j] = t[j - Len(s)]
      BY <1>1, <1>2, <1>3, <2>1, <2>4
    <3> QED
      BY <1>7, <2>1, <3>1 DEF Ordered
  <2> QED
    BY <1>2, <2>2, <2>3, <2>4
<1> QED
  BY <1>1, <1>4, <1>5, <1>6, <1>7 DEF u

\* A batch is taken off the front.
LEMMA TakenOff ==
  ASSUME NEW s \in Seq(FileLine)
  PROVE  /\ ToProcess(s) \in Seq(FileLine) /\ Remainder(s) \in Seq(FileLine)
         /\ LinesOf(s) = LinesOf(ToProcess(s)) \union LinesOf(Remainder(s))
         /\ Ordered(s) => /\ Ordered(ToProcess(s)) /\ Ordered(Remainder(s))
                          /\ Before(LinesOf(ToProcess(s)), LinesOf(Remainder(s)))
<1> DEFINE n == IF Len(s) < MaxRecords THEN Len(s) ELSE MaxRecords
           b == SubSeq(s, 1, n)
           r == SubSeq(s, MaxRecords + 1, Len(s))
<1>1. /\ MaxRecords \in Nat \ {0} /\ MaxRecords + 1 \in Nat \ {0}
      /\ Len(s) \in Nat /\ Len(s) \in 0..Len(s)
      /\ n \in 0..Len(s) /\ n <= MaxRecords /\ 1 \in Nat \ {0}
      /\ \A k \in 1..Len(s) : k \in 1..n \/ k \in (MaxRecords + 1)..Len(s)
  BY ConstantsAssumption
<1>2. ToProcess(s) = b /\ Remainder(s) = r
  BY DEF ToProcess, Remainder
<1> HIDE DEF n
<1>3. /\ b \in Seq(FileLine) /\ LinesOf(b) \subseteq LinesOf(s)
      /\ \A i \in 1..Len(b) : 1 + i - 1 \in 1..n /\ b[i] = s[1 + i - 1]
      /\ \A k \in 1..n : \E i \in 1..Len(b) : b[i] = s[k]
      /\ Ordered(s) => Ordered(b)
  BY <1>1, LinesOfPart
<1>4. /\ r \in Seq(FileLine) /\ LinesOf(r) \subseteq LinesOf(s)
      /\ \A i \in 1..Len(r) : /\ MaxRecords + 1 + i - 1 \in (MaxRecords + 1)..Len(s)
                             /\ r[i] = s[MaxRecords + 1 + i - 1]
      /\ \A k \in (MaxRecords + 1)..Len(s) : \E i \in 1..Len(r) : r[i] = s[k]
      /\ Ordered(s) => Ordered(r)
  BY <1>1, LinesOfPart
<1> HIDE DEF b, r
<1>5. ASSUME NEW l \in LinesOf(s) PROVE l \in LinesOf(b) \union LinesOf(r)
  <2>1. PICK k \in 1..Len(s) : s[k] = l /\ l # Garbled
    BY LinesAreLines
  <2>2. CASE k \in 1..n
    <3>1. PICK i \in 1..Len(b) : b[i] = l
      BY <1>3, <2>1, <2>2
    <3> QED
      BY <1>3, <2>1, <3>1, LinesAreLines
  <2>3. CASE k \in (MaxRecords + 1)..Len(s)
    <3>1. PICK i \in 1..Len(r) : r[i] = l
      BY <1>4, <2>1, <2>3
    <3> QED
      BY <1>4, <2>1, <3>1, LinesAreLines
  <2> QED
    BY <1>1, <2>2, <2>3
<1>6. ASSUME Ordered(s), NEW x \in LinesOf(b), NEW y \in LinesOf(r)
      PROVE  x.at < y.at
  <2>1. PICK i \in 1..Len(b) : b[i] = x /\ x # Garbled
    BY <1>3, LinesAreLines
  <2>2. PICK j \in 1..Len(r) : r[j] = y /\ y # Garbled
    BY <1>4, LinesAreLines
  <2> DEFINE k == 1 + i - 1
             m == MaxRecords + 1 + j - 1
  <2>3. k \in 1..n /\ s[k] = x /\ m \in (MaxRecords + 1)..Len(s) /\ s[m] = y
    BY <1>3, <1>4, <2>1, <2>2
  <2> HIDE DEF k, m
  <2>4. k \in 1..Len(s) /\ m \in 1..Len(s) /\ k < m
    BY <1>1, <2>3
  <2>5. k \in DOMAIN s /\ m \in DOMAIN s
    BY <2>4, LinesAreLines
  <2> QED
    BY <1>6, <2>1, <2>2, <2>3, <2>4, <2>5 DEF Ordered
<1> QED
  BY <1>2, <1>3, <1>4, <1>5, <1>6 DEF Before

\* What a rewriting leaves in the file.
LEMMA RewrittenFile ==
  ASSUME NEW new \in Seq(FileLine), NEW old \in Seq(FileLine),
         NEW s \in Overwritten(new, old)
  PROVE  /\ s \in Seq(FileLine)
         /\ LinesOf(new) \subseteq LinesOf(s)
         /\ LinesOf(s) \subseteq LinesOf(new) \union LinesOf(old)
         /\ Ordered(new) /\ Ordered(old) /\ Before(LinesOf(new), LinesOf(old))
              => Ordered(s)
<1>1. CASE s = new \o old
  BY <1>1, LinesOfConcat
<1>2. ASSUME NEW k \in 2..(Len(old) + 1), NEW g \in {<<>>, <<Garbled>>},
             s = (new \o g) \o SubSeq(old, k, Len(old))
      PROVE  /\ s \in Seq(FileLine)
             /\ LinesOf(new) \subseteq LinesOf(s)
             /\ LinesOf(s) \subseteq LinesOf(new) \union LinesOf(old)
             /\ Ordered(new) /\ Ordered(old) /\ Before(LinesOf(new), LinesOf(old))
                  => Ordered(s)
  <2> DEFINE tail == SubSeq(old, k, Len(old))
             front == new \o g
  <2>1. k \in Nat \ {0} /\ Len(old) \in 0..Len(old)
    OBVIOUS
  <2>2. /\ tail \in Seq(FileLine) /\ LinesOf(tail) \subseteq LinesOf(old)
        /\ Ordered(old) => Ordered(tail)
    BY <2>1, LinesOfPart
  <2>3. g \in Seq(FileLine) /\ LinesOf(g) = {} /\ Ordered(g)
    BY NoLines, NoLinesButGarbled
  <2> HIDE DEF tail
  <2>4. /\ front \in Seq(FileLine) /\ LinesOf(front) = LinesOf(new)
        /\ Ordered(new) => Ordered(front)
    <3>1. /\ front \in Seq(FileLine) /\ LinesOf(front) = LinesOf(new) \union LinesOf(g)
          /\ Ordered(new) /\ Ordered(g) /\ Before(LinesOf(new), LinesOf(g))
               => Ordered(front)
      BY <2>3, LinesOfConcat
    <3>2. Before(LinesOf(new), LinesOf(g))
      BY <2>3 DEF Before
    <3> HIDE DEF front
    <3> QED
      BY <2>3, <3>1, <3>2
  <2> HIDE DEF front
  <2>5. /\ front \o tail \in Seq(FileLine)
        /\ LinesOf(front \o tail) = LinesOf(front) \union LinesOf(tail)
        /\ Ordered(front) /\ Ordered(tail) /\ Before(LinesOf(front), LinesOf(tail))
             => Ordered(front \o tail)
    BY <2>2, <2>4, LinesOfConcat
  <2>6. Before(LinesOf(new), LinesOf(old)) => Before(LinesOf(front), LinesOf(tail))
    BY <2>2, <2>4 DEF Before
  <2>7. s = front \o tail
    BY <1>2 DEF front, tail
  <2> QED
    BY <2>2, <2>4, <2>5, <2>6, <2>7
<1>3. CASE ~(new = <<>> \/ old = <<>>)
  <2> DEFINE Tail_(k) == SubSeq(old, k, Len(old))
  <2>1. PICK k \in 2..(Len(old) + 1) :
               s = new \o Tail_(k) \/ s = new \o <<Garbled>> \o Tail_(k)
    BY <1>3 DEF Overwritten
  <2>2. new \o <<>> = new
    BY ConcatEmptySeq
  <2>3. \E g \in {<<>>, <<Garbled>>} : s = (new \o g) \o SubSeq(old, k, Len(old))
    BY <2>1, <2>2
  <2> QED
    BY <1>2, <2>3
<1> QED
  BY <1>1, <1>3 DEF Overwritten

\* What is landed of a batch: a later version for every valid line of it.
LEMMA LandedOfBatch ==
  ASSUME NEW s \in Seq(Line), Ordered(s)
  PROVE  /\ LastOfEachId(s) \subseteq LinesOf(s)
         /\ \A l \in LinesOf(s) :
              l.valid => \E x \in LastOfEachId(s) : x.id = l.id /\ x.at >= l.at
<1>1. DOMAIN s = 1..Len(s) /\ Len(s) \in Nat
  OBVIOUS
<1>2. \A i \in 1..Len(s) : s[i] \in Line /\ s[i] # Garbled /\ s[i].at \in Nat
  <2>1. \A i \in 1..Len(s) : s[i] \in Line
    OBVIOUS
  <2>2. \A l \in Line : l # Garbled /\ l.at \in Nat
    <3>1. \A l \in Line : l.at \in Nat
      BY DEF Line
    <3> QED
      BY <3>1, GarbledAssumption
  <2> QED
    BY <2>1, <2>2
<1>3. LastOfEachId(s) \subseteq LinesOf(s)
  BY <1>2 DEF LastOfEachId, LinesOf, ValidIn
<1>4. ASSUME NEW l \in LinesOf(s), l.valid
      PROVE  \E x \in LastOfEachId(s) : x.id = l.id /\ x.at >= l.at
  <2>1. PICK i \in 1..Len(s) : s[i] = l
    BY DEF LinesOf
  <2> DEFINE T == {j \in ValidIn(s) : s[j].id = l.id}
  <2>2. i \in T /\ T \subseteq 1..Len(s)
    BY <1>1, <1>4, <2>1 DEF ValidIn
  <2>3. PICK j \in T : \A k \in T : k <= j
    <3> HIDE DEF T
    <3> QED
      BY <1>1, <2>2, GreatestElement
  <2>4. j \in ValidIn(s) /\ j \in 1..Len(s) /\ s[j].id = l.id
    BY <2>2
  <2>5. \A k \in ValidIn(s) : k > j => s[k].id # s[j].id
    <3>1. SUFFICES ASSUME NEW k \in ValidIn(s), k > j, s[k].id = s[j].id
                   PROVE  FALSE
      OBVIOUS
    <3>2. k \in T /\ k \in 1..Len(s)
      BY <1>1, <2>4, <3>1 DEF ValidIn
    <3> QED
      BY <2>3, <2>4, <3>1, <3>2
  <2>6. s[j] \in LastOfEachId(s)
    BY <2>4, <2>5 DEF LastOfEachId
  <2>7. i = j \/ i < j
    BY <2>2, <2>3, <2>4
  <2>8. s[i].at <= s[j].at
    BY <1>1, <1>2, <2>4, <2>7 DEF Ordered
  <2> QED
    BY <1>2, <2>1, <2>4, <2>6, <2>8
<1> QED
  BY <1>3, <1>4

\* One more line.
LEMMA LinesOfAppend ==
  ASSUME NEW s \in Seq(FileLine), NEW line \in Line
  PROVE  /\ Append(s, line) \in Seq(FileLine)
         /\ LinesOf(Append(s, line)) = LinesOf(s) \union {line}
         /\ Ordered(s) /\ (\A l \in LinesOf(s) : l.at < line.at)
              => Ordered(Append(s, line))
<1> DEFINE t == <<line>>
<1>1. /\ t \in Seq(FileLine) /\ DOMAIN t = {1} /\ t[1] = line
      /\ line \in FileLine /\ line # Garbled
  BY GarbledAssumption DEF FileLine
<1>2. Append(s, line) = s \o t
  BY <1>1, AppendIsConcat
<1> HIDE DEF t
<1>3. LinesOf(t) = {line}
  BY <1>1 DEF LinesOf
<1>4. Ordered(t)
  BY <1>1 DEF Ordered
<1>5. /\ s \o t \in Seq(FileLine)
      /\ LinesOf(s \o t) = LinesOf(s) \union LinesOf(t)
      /\ Ordered(s) /\ Ordered(t) /\ Before(LinesOf(s), LinesOf(t)) => Ordered(s \o t)
  BY <1>1, LinesOfConcat
<1>6. (\A l \in LinesOf(s) : l.at < line.at) => Before(LinesOf(s), LinesOf(t))
  BY <1>3 DEF Before
<1> QED
  BY <1>2, <1>3, <1>4, <1>5, <1>6

\* The lines of the file, the batch and the remainder.
LEMMA TypesOfLines ==
  ASSUME TypeOK
  PROVE  /\ stream \in Seq(FileLine) /\ batch \in Seq(FileLine)
         /\ rest \in Seq(FileLine)
         /\ LinesOf(stream) \subseteq Line /\ InHand \subseteq Line
BY LinesAreLines DEF TypeOK, FileLine, InHand

-----------------------------------------------------------------------------
(***************************************************************************)
(* The steps.                                                              *)
(***************************************************************************)
\* A line put on the stream comes after all others.
LEMMA PutRecordKeeps ==
  ASSUME Inv, NEW id \in Ids, NEW valid \in BOOLEAN, PutRecord(id, valid)
  PROVE  Inv'
<1> DEFINE line == [id |-> id, valid |-> valid, at |-> Cardinality(sent) + 1]
<1>1. /\ sent' = sent \union {line} /\ stream' = Append(stream, line)
      /\ exposed' = IF pc \in Rewriting THEN exposed \union {line} ELSE exposed
      /\ pc' = pc /\ batch' = batch /\ rest' = rest
      /\ raw' = raw /\ quarantine' = quarantine
      /\ replaced' = replaced /\ Landed' = Landed /\ Written' = Written
      /\ dropped' = dropped /\ failures' = failures
  BY DEF PutRecord, consumerVars, lakeVars, Lake, Written, Landed
<1>2. IsFiniteSet(sent) /\ Cardinality(sent) \in Nat
  BY FS_CardinalityType DEF Inv, SentInv
<1>3. line \in Line /\ line.at = Cardinality(sent) + 1
  BY <1>2 DEF Line
<1> HIDE DEF line
<1>4. /\ stream \in Seq(FileLine) /\ batch \in Seq(FileLine) /\ rest \in Seq(FileLine)
      /\ sent \subseteq Line /\ \A l \in Line : l.at \in Nat
  BY TypesOfLines DEF Inv, TypeOK, Line
<1>5. \A l \in sent : l.at < line.at
  BY <1>2, <1>3, <1>4 DEF Inv, SentInv
<1>6. line \notin sent
  BY <1>3, <1>4, <1>5
<1>7. IsFiniteSet(sent') /\ Cardinality(sent') = Cardinality(sent) + 1
  BY <1>1, <1>2, <1>6, FS_AddElement
<1>8. /\ stream' \in Seq(FileLine) /\ LinesOf(stream') = LinesOf(stream) \union {line}
      /\ Ordered(stream')
  <2>1. \A l \in LinesOf(stream) : l.at < line.at
    BY <1>5 DEF Inv, SentInv
  <2> QED
    BY <1>1, <1>3, <1>4, <2>1, LinesOfAppend DEF Inv, OrderInv
<1>9. \A X : X \subseteq sent => Before(X, {line})
  BY <1>5 DEF Before
<1>10. TypeOK'
  BY <1>1, <1>3, <1>8 DEF Inv, TypeOK, FileLine
<1>11. SentInv'
  <2>1. \A l \in sent' : l.at <= Cardinality(sent')
    BY <1>1, <1>2, <1>3, <1>4, <1>5, <1>7
  <2> QED
    BY <1>1, <1>7, <1>8, <2>1 DEF Inv, SentInv
<1>12. OrderInv'
  BY <1>1, <1>8 DEF Inv, OrderInv
<1>13. HoldsInv'
  <2>1. Before(InHand, {line}) /\ Before(LinesOf(batch), {line})
    BY <1>9 DEF Inv, SentInv, InHand
  <2> QED
    BY <1>1, <1>8, <2>1 DEF Inv, HoldsInv, InHand, Rewriting, Before
<1>14. LandedInv'
  <2>1. Before(Landed, {line})
    BY <1>9 DEF Inv, SentInv
  <2> QED
    BY <1>1, <1>8, <2>1 DEF Inv, LandedInv, Before
<1>15. BatchInv' /\ LossInv'
  <2>1. InHand' = InHand
    BY <1>1 DEF InHand
  <2> QED
    BY <1>1, <1>8, <2>1 DEF Inv, BatchInv, LossInv, Handled
<1> QED
  BY <1>10, <1>11, <1>12, <1>13, <1>14, <1>15 DEF Inv

\* The consumer takes a batch, a copy of the front of the file.
LEMMA ReadKeeps ==
  ASSUME Inv, Read
  PROVE  Inv'
<1>1. /\ pc = "idle" /\ pc' = "validate"
      /\ batch' = ToProcess(stream) /\ rest' = Remainder(stream)
      /\ stream' = stream /\ sent' = sent /\ raw' = raw /\ quarantine' = quarantine
      /\ replaced' = replaced /\ Landed' = Landed /\ Written' = Written
      /\ exposed' = exposed /\ dropped' = dropped /\ failures' = failures
  BY DEF Read, streamVars, lakeVars, historyVars, Lake, Written, Landed
<1>2. stream \in Seq(FileLine) /\ batch = <<>> /\ rest = <<>> /\ Ordered(stream)
  BY <1>1, TypesOfLines DEF Inv, HoldsInv, OrderInv
<1>3. /\ batch' \in Seq(FileLine) /\ rest' \in Seq(FileLine)
      /\ LinesOf(stream) = LinesOf(batch') \union LinesOf(rest')
      /\ Ordered(batch') /\ Ordered(rest') /\ Before(LinesOf(batch'), LinesOf(rest'))
  BY <1>1, <1>2, TakenOff
<1>4. InHand = {} /\ InHand' = LinesOf(stream)
  BY <1>2, <1>3, NoLines DEF InHand
<1>5. TypeOK'
  BY <1>1, <1>3 DEF Inv, TypeOK, FileLine, Consuming
<1>6. SentInv' /\ OrderInv'
  BY <1>1, <1>3 DEF Inv, SentInv, OrderInv
<1>7. HoldsInv'
  BY <1>1, <1>4 DEF HoldsInv
<1>8. LandedInv'
  BY <1>1, <1>3 DEF Inv, LandedInv, Before
<1>9. BatchInv' /\ LossInv'
  BY <1>1, <1>4 DEF Inv, BatchInv, LossInv, Handled
<1> QED
  BY <1>5, <1>6, <1>7, <1>8, <1>9 DEF Inv

\* The consumer leaves off with the file as it was, which still holds what
\* it took.
LEMMA LeavesOff ==
  ASSUME Inv, InHand \subseteq LinesOf(stream),
         pc' = "idle", batch' = <<>>, rest' = <<>>,
         UNCHANGED <<stream, sent, raw, quarantine, replaced, exposed, dropped,
                     failures>>
  PROVE  Inv'
<1>1. LinesOf(<<>>) = {} /\ Ordered(<<>>) /\ <<>> \in Seq(FileLine)
  BY NoLines
<1>2. Written' = Written /\ Landed' = Landed
  BY DEF Written, Landed, Lake
<1>3. TypeOK'
  BY <1>1 DEF Inv, TypeOK, Consuming, FileLine
<1>4. SentInv' /\ OrderInv' /\ HoldsInv' /\ LandedInv' /\ BatchInv'
  BY <1>1, <1>2 DEF Inv, SentInv, OrderInv, HoldsInv, LandedInv, BatchInv, InHand, Before
<1>5. LossInv'
  BY <1>1, <1>2 DEF Inv, LossInv, Handled, InHand
<1> QED
  BY <1>3, <1>4, <1>5 DEF Inv

\* The loop of the consumer: it leaves off, or goes on with lines
\* that parse.
LEMMA ValidateKeeps ==
  ASSUME Inv, Validate
  PROVE  Inv'
<1>1. /\ pc = "validate"
      /\ stream' = stream /\ sent' = sent /\ raw' = raw /\ quarantine' = quarantine
      /\ replaced' = replaced /\ Landed' = Landed /\ Written' = Written
      /\ exposed' = exposed /\ dropped' = dropped /\ failures' = failures
  BY DEF Validate, streamVars, lakeVars, historyVars, Lake, Written, Landed
<1>2. batch \in Seq(FileLine) /\ InHand \subseteq LinesOf(stream)
  BY <1>1, TypesOfLines DEF Inv, HoldsInv
<1>3. CASE Parses(batch)
  <2>1. pc' = "truncate" /\ batch' = batch /\ rest' = rest
    BY <1>3 DEF Validate, consumerVars
  <2>2. batch \in Seq(Line)
    <3>1. \A i \in 1..Len(batch) : batch[i] \in Line
      BY <1>2, <1>3 DEF Parses, FileLine
    <3> QED
      BY <1>2, <3>1
  <2>3. TypeOK'
    BY <1>1, <2>1, <2>2 DEF Inv, TypeOK, Consuming
  <2>4. SentInv' /\ OrderInv' /\ HoldsInv' /\ LandedInv' /\ BatchInv'
    BY <1>1, <2>1 DEF Inv, SentInv, OrderInv, HoldsInv, LandedInv, BatchInv, InHand
  <2>5. LossInv'
    BY <1>1, <2>1 DEF Inv, LossInv, Handled, InHand
  <2> QED
    BY <2>3, <2>4, <2>5 DEF Inv
<1>4. CASE ~Parses(batch)
  <2>1. pc' = "idle" /\ batch' = <<>> /\ rest' = <<>>
    BY <1>4 DEF Validate, Exit
  <2> QED
    BY <1>1, <1>2, <2>1, LeavesOff
<1> QED
  BY <1>3, <1>4

\* write_text truncates the file: its lines are in hand or exposed.
LEMMA TruncateKeeps ==
  ASSUME Inv, Truncate
  PROVE  Inv'
<1>1. /\ pc = "truncate" /\ pc' = "rewrite" /\ stream' = <<>>
      /\ batch' = batch /\ rest' = rest
      /\ sent' = sent /\ raw' = raw /\ quarantine' = quarantine
      /\ replaced' = replaced /\ Landed' = Landed /\ Written' = Written
      /\ exposed' = exposed /\ dropped' = dropped /\ failures' = failures
  BY DEF Truncate, consumerVars, lakeVars, historyVars, Lake, Written, Landed
<1>2. LinesOf(stream') = {} /\ Ordered(stream') /\ stream' \in Seq(FileLine)
  BY <1>1, NoLines
<1>3. TypeOK'
  BY <1>1, <1>2 DEF Inv, TypeOK, Consuming, FileLine
<1>4. SentInv' /\ OrderInv' /\ HoldsInv' /\ LandedInv' /\ BatchInv'
  BY <1>1, <1>2
     DEF Inv, SentInv, OrderInv, HoldsInv, LandedInv, BatchInv, InHand, Before
<1>5. LossInv'
  <2>1. LinesOf(stream) \subseteq InHand \union exposed /\ InHand' = InHand
    BY <1>1 DEF Inv, HoldsInv, InHand
  <2> QED
    BY <1>1, <1>2, <2>1 DEF Inv, LossInv, Handled
<1> QED
  BY <1>3, <1>4, <1>5 DEF Inv

\* The remainder goes back before what was appended since.
LEMMA RewriteKeeps ==
  ASSUME Inv, Rewrite
  PROVE  Inv'
<1>1. /\ pc = "rewrite" /\ pc' = "land" /\ stream' \in Overwritten(rest, stream)
      /\ batch' = batch /\ rest' = <<>>
      /\ sent' = sent /\ raw' = raw /\ quarantine' = quarantine
      /\ replaced' = replaced /\ Landed' = Landed /\ Written' = Written
      /\ exposed' = exposed /\ dropped' = dropped /\ failures' = failures
  BY DEF Rewrite, lakeVars, historyVars, Lake, Written, Landed
<1>2. rest \in Seq(FileLine) /\ stream \in Seq(FileLine)
  BY TypesOfLines DEF Inv
<1>3. Before(InHand, LinesOf(stream)) /\ LinesOf(stream) \subseteq exposed
  BY <1>1 DEF Inv, HoldsInv
<1>4. Before(LinesOf(rest), LinesOf(stream)) /\ Before(LinesOf(batch), LinesOf(stream))
  BY <1>3 DEF InHand, Before
<1>5. /\ stream' \in Seq(FileLine) /\ LinesOf(rest) \subseteq LinesOf(stream')
      /\ LinesOf(stream') \subseteq LinesOf(rest) \union LinesOf(stream)
      /\ Ordered(stream')
  BY <1>1, <1>2, <1>4, RewrittenFile DEF Inv, OrderInv
<1>6. LinesOf(rest') = {} /\ Ordered(rest') /\ rest' \in Seq(FileLine)
  BY <1>1, NoLines
<1>7. TypeOK'
  BY <1>1, <1>5, <1>6 DEF Inv, TypeOK, Consuming, FileLine
<1>8. SentInv' /\ OrderInv'
  BY <1>1, <1>5, <1>6 DEF Inv, SentInv, OrderInv, Before
<1>9. HoldsInv'
  BY <1>1, <1>4, <1>5 DEF Inv, HoldsInv, OrderInv, Before
<1>10. LandedInv' /\ BatchInv'
  BY <1>1, <1>5, <1>6 DEF Inv, LandedInv, BatchInv, Before
<1>11. LossInv'
  BY <1>1, <1>3, <1>5, <1>6 DEF Inv, LossInv, Handled, InHand
<1> QED
  BY <1>7, <1>8, <1>9, <1>10, <1>11 DEF Inv

\* The valid lines of the batch are landed.
LEMMA LandKeeps ==
  ASSUME Inv, Land
  PROVE  Inv' /\ LastOfEachId(batch) \intersect Landed = {}
<1> DEFINE valid == LastOfEachId(batch)
<1>1. /\ pc = "land" /\ pc' = "reject"
      /\ raw' = IF valid = {} THEN raw ELSE valid
      /\ replaced' = replaced \union (raw \ raw')
      /\ stream' = stream /\ sent' = sent /\ batch' = batch /\ rest' = rest
      /\ quarantine' = quarantine
      /\ exposed' = exposed /\ dropped' = dropped /\ failures' = failures
  BY DEF Land, streamVars, consumerVars, historyVars
<1>2. batch \in Seq(Line) /\ Ordered(batch) /\ rest = <<>>
  BY <1>1 DEF Inv, TypeOK, OrderInv, HoldsInv, Consuming
<1>3. /\ valid \subseteq LinesOf(batch)
      /\ \A l \in LinesOf(batch) :
           l.valid => \E x \in valid : x.id = l.id /\ x.at >= l.at
      /\ \A x \in valid : x.valid
  <2>1. \A x \in valid : x.valid
    BY DEF LastOfEachId, ValidIn
  <2> QED
    BY <1>2, <2>1, LandedOfBatch
<1> HIDE DEF valid
<1>4. LinesOf(batch) \subseteq Line /\ LinesOf(rest) = {}
  BY <1>2, TypesOfLines, NoLines DEF Inv, InHand
<1>5. Written' = Written \union valid /\ Landed' = Landed \union valid
  <2>1. Written' = Written \union valid
    BY <1>1 DEF Written, Lake
  <2> QED
    BY <1>3, <2>1 DEF Landed
<1>6. TypeOK'
  BY <1>1, <1>3, <1>4 DEF Inv, TypeOK, Consuming
<1>7. SentInv' /\ OrderInv' /\ HoldsInv'
  BY <1>1, <1>3, <1>5 DEF Inv, SentInv, OrderInv, HoldsInv, InHand
<1>8. LandedInv'
  <2>1. Before(LinesOf(batch), LinesOf(stream))
    BY <1>1 DEF Inv, HoldsInv
  <2> QED
    BY <1>1, <1>3, <1>4, <1>5, <2>1 DEF Inv, LandedInv, Before
<1>9. BatchInv'
  BY <1>1, <1>3, <1>5 DEF BatchInv
<1>10. LossInv'
  <2>1. \A line : Handled(line, Written) => Handled(line, Written)'
    BY <1>5 DEF Handled
  <2>2. InHand' = InHand
    BY <1>1 DEF InHand
  <2> QED
    BY <1>1, <2>1, <2>2 DEF Inv, LossInv
<1>11. \A x \in valid : x \notin Landed
  <2>1. SUFFICES ASSUME NEW x \in valid, x \in Landed PROVE FALSE
    OBVIOUS
  <2>2. x.at < x.at
    BY <1>1, <1>3, <2>1 DEF Inv, LandedInv, Before
  <2>3. x.at \in Nat
    BY <1>3, <1>4 DEF Line
  <2> QED
    BY <2>2, <2>3
<1> QED
  BY <1>6, <1>7, <1>8, <1>9, <1>10, <1>11 DEF Inv, valid

\* The invalid lines of the batch are quarantined, the others were landed.
LEMMA RejectKeeps ==
  ASSUME Inv, Reject
  PROVE  Inv'
<1> DEFINE invalid == InvalidOf(batch)
<1>1. /\ pc = "reject" /\ pc' = "idle" /\ batch' = <<>> /\ rest' = <<>>
      /\ quarantine' = IF invalid = {} THEN quarantine ELSE invalid
      /\ replaced' = replaced \union (quarantine \ quarantine')
      /\ stream' = stream /\ sent' = sent /\ raw' = raw
      /\ exposed' = exposed /\ dropped' = dropped /\ failures' = failures
  BY DEF Reject, Exit, streamVars, historyVars
<1>2. rest = <<>> /\ LinesOf(batch) \subseteq Line
  BY <1>1, TypesOfLines DEF Inv, HoldsInv, InHand
<1>3. /\ invalid \subseteq Line /\ \A l \in invalid : ~l.valid
      /\ \A l \in LinesOf(batch) : l.valid \/ l \in invalid
  BY <1>2 DEF InvalidOf
<1> HIDE DEF invalid
<1>4. Written' = Written \union invalid /\ Landed' = Landed
  <2>1. Written' = Written \union invalid
    BY <1>1 DEF Written, Lake
  <2> QED
    BY <1>3, <2>1 DEF Landed
<1>5. LinesOf(<<>>) = {} /\ Ordered(<<>>) /\ <<>> \in Seq(FileLine)
  BY NoLines
<1>6. TypeOK'
  BY <1>1, <1>3, <1>5 DEF Inv, TypeOK, Consuming, FileLine
<1>7. SentInv' /\ OrderInv' /\ HoldsInv' /\ LandedInv' /\ BatchInv'
  BY <1>1, <1>5, <1>4
     DEF Inv, SentInv, OrderInv, HoldsInv, LandedInv, BatchInv, InHand, Before
<1>8. LossInv'
  <2>1. \A line : Handled(line, Written) => Handled(line, Written)'
    BY <1>4 DEF Handled
  <2>2. \A line \in InHand : Handled(line, Written)'
    <3>1. InHand = LinesOf(batch)
      BY <1>2, <1>5 DEF InHand
    <3>2. \A l \in LinesOf(batch) :
            l.valid => \E x \in Landed : x.id = l.id /\ x.at >= l.at
      BY <1>1 DEF Inv, BatchInv
    <3> QED
      BY <1>3, <1>4, <3>1, <3>2 DEF Handled, Landed
  <2> QED
    BY <1>1, <2>1, <2>2 DEF Inv, LossInv
<1> QED
  BY <1>6, <1>7, <1>8 DEF Inv

\* A killed consumer: what it held and the file did not is dropped.
LEMMA CrashKeeps ==
  ASSUME Inv, Crash
  PROVE  Inv'
<1>1. /\ pc \in Consuming /\ failures' = failures + 1 /\ dropped' = dropped \union Held
      /\ pc' = "idle" /\ batch' = <<>> /\ rest' = <<>>
      /\ stream' = stream /\ sent' = sent /\ raw' = raw /\ quarantine' = quarantine
      /\ replaced' = replaced /\ Landed' = Landed /\ Written' = Written
      /\ exposed' = exposed
  BY DEF Crash, Exit, streamVars, lakeVars, Lake, Written, Landed
<1>2. /\ LinesOf(batch) \subseteq Line /\ LinesOf(rest) \subseteq Line
      /\ LinesOf(<<>>) = {} /\ Ordered(<<>>) /\ <<>> \in Seq(FileLine)
  BY TypesOfLines, NoLines DEF Inv, InHand
<1>3. /\ pc \in {"validate", "truncate"} => Held = {}
      /\ pc = "rewrite" => Held = LinesOf(batch) \union LinesOf(rest)
      /\ pc = "land" => Held = LinesOf(batch)
      /\ pc = "reject" => Held = InvalidOf(batch)
  BY DEF Held
<1>4. Held \subseteq Line
  BY <1>1, <1>2, <1>3 DEF Consuming, InvalidOf
<1>5. \A line \in InHand : line \in LinesOf(stream) \union Held \/ Handled(line, Written)
  <2>1. CASE pc \in {"validate", "truncate"}
    BY <2>1 DEF Inv, HoldsInv
  <2>2. CASE pc = "rewrite"
    BY <1>3, <2>2 DEF InHand
  <2>3. CASE pc = "land"
    BY <1>2, <1>3, <2>3 DEF InHand, Inv, HoldsInv
  <2>4. CASE pc = "reject"
    <3>1. InHand = LinesOf(batch)
      BY <1>2, <2>4 DEF InHand, Inv, HoldsInv
    <3> QED
      BY <1>3, <2>4, <3>1 DEF Inv, BatchInv, InvalidOf, Handled, Landed
  <2> QED
    BY <1>1, <2>1, <2>2, <2>3, <2>4 DEF Consuming
<1>6. TypeOK'
  BY <1>1, <1>2, <1>4 DEF Inv, TypeOK, Consuming, FileLine
<1>7. SentInv' /\ OrderInv' /\ HoldsInv' /\ LandedInv' /\ BatchInv'
  BY <1>1, <1>2
     DEF Inv, SentInv, OrderInv, HoldsInv, LandedInv, BatchInv, InHand, Before
<1>8. LossInv'
  <2>1. \A line : Handled(line, Written) => Handled(line, Written)'
    BY <1>1 DEF Handled
  <2> QED
    BY <1>1, <1>5, <2>1 DEF Inv, LossInv
<1> QED
  BY <1>6, <1>7, <1>8 DEF Inv

-----------------------------------------------------------------------------
(***************************************************************************)
(* The theorems.                                                           *)
(***************************************************************************)
\* The initial state satisfies the invariant.
LEMMA InitInv ==
  ASSUME Init
  PROVE  Inv
<1>1. IsFiniteSet({}) /\ Cardinality({}) = 0
  BY FS_EmptySet
<1> QED
  BY <1>1, NoLines
     DEF Init, Inv, TypeOK, SentInv, OrderInv, HoldsInv, LandedInv, BatchInv,
         LossInv, Before, FileLine, Consuming, Landed, Written, Lake

\* Every step preserves it.
LEMMA NextInv ==
  ASSUME Inv, [Next]_vars
  PROVE  Inv'
<1>1. CASE Next
  BY <1>1, PutRecordKeeps, ReadKeeps, ValidateKeeps, TruncateKeeps, RewriteKeeps,
     LandKeeps, RejectKeeps, CrashKeeps DEF Next, Consume
<1>2. CASE UNCHANGED vars
  <2>1. Written' = Written /\ Landed' = Landed
    BY <1>2 DEF vars, lakeVars, Written, Landed, Lake
  <2> QED
    BY <1>2, <2>1
       DEF vars, streamVars, consumerVars, lakeVars, historyVars, Inv, TypeOK, SentInv,
           OrderInv, HoldsInv, LandedInv, BatchInv, LossInv, Handled, InHand
<1> QED
  BY <1>1, <1>2

\* The invariant holds in every reachable state.
THEOREM Invariant == Spec => []Inv
<1>1. Init => Inv
  BY InitInv
<1>2. Inv /\ [Next]_vars => Inv'
  BY NextInv
<1> QED
  BY <1>1, <1>2, PTL DEF Spec

\* Every variable keeps its type; past the loop that parses it, a batch holds
\* no malformed line.
THEOREM TypeCorrect == Spec => []TypeOK
<1>1. Inv => TypeOK
  BY DEF Inv
<1> QED
  BY <1>1, Invariant, PTL

\* Lines are lost only to the rewriting of the file, to a consumer that is
\* killed after it, and to the batch that next replaces theirs in the lake.
THEOREM LossOnlyInWindowsAlways == Spec => []LossOnlyInWindows
<1>1. \A line : Handled(line, Written) => Handled(line, Lake) \/ Handled(line, replaced)
  BY DEF Handled, Written
<1>2. Inv => LossOnlyInWindows
  BY <1>1 DEF Inv, LossInv, LossOnlyInWindows
<1> QED
  BY <1>2, Invariant, PTL

\* The file keeps the order of the puts, whatever the rewriting overlaps with.
THEOREM InOrderAlways == Spec => []InOrder
<1>1. ASSUME Inv PROVE InOrder
  <2>1. \A i, j \in DOMAIN stream :
          i < j /\ Garbled \notin {stream[i], stream[j]} => stream[i].at < stream[j].at
    BY <1>1 DEF Inv, OrderInv, Ordered
  <2>2. pc \in {"rewrite", "land", "reject"} =>
          Before(LinesOf(batch), LinesOf(rest) \union LinesOf(stream))
    BY <1>1 DEF Inv, OrderInv, HoldsInv, InHand, Before
  <2> QED
    BY <2>1, <2>2 DEF InOrder, Before
<1> QED
  BY <1>1, Invariant, PTL

\* No line is landed a second time.
THEOREM LandedOnceAlways == Spec => LandedOnce
<1>1. Inv /\ [Next]_vars
        => [Land => LastOfEachId(batch) \intersect Landed = {}]_vars
  BY LandKeeps
<1> QED
  BY <1>1, Invariant, PTL DEF Spec, LandedOnce
=============================================================================
