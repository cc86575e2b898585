---------------------- MODULE CustomerDimension_proofs ----------------------
(***************************************************************************)
(* Proofs about CustomerDimension, for every finite set of customers, every *)
(* set of attributes and every number of days, batches and retries.        *)
(***************************************************************************)
EXTENDS CustomerDimension, SequenceLemmas, FiniteSetTheorems, TLAPS

(***************************************************************************)
(* The inductive invariant.                                                *)
(***************************************************************************)
\* Exactly one version of first's customer is valid on a day.
OneValid(rows, first, day) ==
  \E v \in rows :
    /\ v.customer_id = first.customer_id /\ ValidOn(v, day)
    /\ \A w \in rows :
         w.customer_id = first.customer_id /\ ValidOn(w, day) => w = v

CurrentInv(rows) ==
  /\ \A v, w \in rows : v.customer_sk = w.customer_sk => v = w
  /\ \A v \in rows : v.is_current <=> v.effective_end_date = NoDate
  /\ \A v, w \in rows :
       v.customer_id = w.customer_id /\ v.is_current /\ w.is_current => v = w
  /\ \A w \in rows : \E v \in rows : v.customer_id = w.customer_id /\ v.is_current

\* What holds of every state of the dimension that is ever committed. The
\* days are not bounded by today: a transaction may outlast its day.
RowsInv(rows, sk, day) ==
  /\ rows \in SUBSET Version
  /\ \A v \in rows : v.customer_sk < sk /\ v.effective_start_date <= day
  /\ CurrentInv(rows)
  /\ \A first \in rows, d \in Nat :
       first.effective_start_date <= d => OneValid(rows, first, d)

Applied(rows) ==
  \A c \in Staged : \E v \in rows :
    v.customer_id = c /\ v.is_current /\ v.record_hash = staged[c]

Kept(old, new) ==
  \A v \in old :
    \/ v \in new
    \/ v.is_current /\ \E w \in new :
         w = [v EXCEPT !.is_current = FALSE,
                       !.effective_end_date = w.effective_end_date]

\* The rows that the UPDATE leaves.
Update(v) == IF Expires(v) THEN Expired(v, asOf) ELSE v
Updated == {Update(v) : v \in dim}

\* What the open transaction has done so far.
InTransaction == pc \in {"update", "insert", "commit"}
TransactionInv ==
  /\ InTransaction =>
       /\ 1 <= asOf /\ asOf <= today
       /\ \A v \in dim : v.effective_start_date <= asOf
  /\ pc = "update" => work = dim
  /\ pc = "insert" => work = Updated
  /\ pc = "commit" =>
       RowsInv(work, nextSk, asOf) /\ Applied(work) /\ Kept(dim, work)

\* A batch that was committed once stays applied, and leaves a transaction
\* that applies it again nothing to do.
AppliedInv ==
  /\ committed \/ pc = "done" => Applied(dim)
  /\ committed /\ InTransaction => work = dim

Inv ==
  /\ TypeOK
  /\ 1 <= today
  /\ RowsInv(dim, nextSk, today)
  /\ TransactionInv
  /\ AppliedInv

-----------------------------------------------------------------------------
(***************************************************************************)
(* The statements of the transaction.                                      *)
(***************************************************************************)
\* An order of a finite set lists every member once, and there is one.
LEMMA OrderLists ==
  ASSUME NEW S, IsFiniteSet(S)
  PROVE  /\ Cardinality(S) \in Nat
         /\ \E order : order \in SetToSeqs(S)
         /\ \A order \in SetToSeqs(S) :
              /\ order \in [1..Cardinality(S) -> S]
              /\ \A i, j \in 1..Cardinality(S) : i # j => order[i] # order[j]
              /\ \A c \in S : \E i \in 1..Cardinality(S) : order[i] = c
<1> DEFINE D == 1..Cardinality(S)
<1>1. Cardinality(S) \in Nat /\ ExistsBijection(D, S)
  BY FS_CardinalityType
<1>2. PICK f : f \in Bijection(D, S)
  BY <1>1 DEF ExistsBijection
<1>3. f \in [D -> S] /\ \A i, j \in D : i # j => f[i] # f[j]
  BY <1>2 DEF Bijection, Injection, IsInjective
<1>4. f \in SetToSeqs(S)
  BY <1>3 DEF SetToSeqs
<1>5. ASSUME NEW order \in SetToSeqs(S)
      PROVE  /\ order \in [D -> S] /\ \A i, j \in D : i # j => order[i] # order[j]
             /\ \A c \in S : \E i \in D : order[i] = c
  <2>1. order \in [D -> S] /\ \A i, j \in D : i # j => order[i] # order[j]
    BY <1>5 DEF SetToSeqs
  <2>2. order \in Injection(D, S)
    BY <2>1 DEF Injection, IsInjective
  <2>3. IsFiniteSet(D) /\ Cardinality(D) = Cardinality(S)
    BY <1>1, FS_Interval
  <2>4. order \in Surjection(D, S)
    BY <2>2, <2>3, FS_Injection
  <2>5. \A c \in S : \E i \in D : order[i] = c
    BY <2>4 DEF Surjection
  <2> QED
    BY <2>1, <2>5
<1> QED
  BY <1>1, <1>4, <1>5

\* The UPDATE keeps the types, the keys and everything that is not current.
LEMMA UpdateKeeps ==
  ASSUME TypeOK, 1 <= asOf, NEW v \in dim
  PROVE  /\ Update(v) \in Version
         /\ Update(v).customer_sk = v.customer_sk
         /\ Update(v).customer_id = v.customer_id
         /\ Update(v).record_hash = v.record_hash
         /\ Update(v).effective_start_date = v.effective_start_date
         /\ ~Expires(v) => Update(v) = v
         /\ Expires(v) =>
              /\ Update(v).is_current = FALSE
              /\ Update(v).effective_end_date = asOf - 1
              /\ Update(v) = [v EXCEPT !.is_current = FALSE,
                                       !.effective_end_date = asOf - 1]
<1>1. v \in Version /\ asOf \in Nat
  BY DEF TypeOK
<1>2. CASE Expires(v)
  <2>1. Update(v) = [v EXCEPT !.is_current = FALSE, !.effective_end_date = asOf - 1]
    BY <1>2 DEF Update, Expired
  <2>2. asOf - 1 \in Int
    BY <1>1
  <2> HIDE DEF Update
  <2> QED
    BY <1>1, <1>2, <2>1, <2>2 DEF Version
<1>3. CASE ~Expires(v)
  BY <1>1, <1>3 DEF Update
<1> QED
  BY <1>2, <1>3

\* The customers that the INSERT gives a version are those whose current
\* version has just expired, and those without any.
LEMMA Needed ==
  ASSUME TypeOK, 1 <= asOf, NEW c \in Customers
  PROVE  c \in NeedVersion(Updated) <=>
           /\ c \in Staged
           /\ \A v \in dim : v.customer_id = c /\ v.is_current => Expires(v)
<1>1. ASSUME NEW v \in dim
      PROVE  /\ Update(v) \in Updated
             /\ Update(v).customer_id = v.customer_id
             /\ Update(v).is_current <=> v.is_current /\ ~Expires(v)
             /\ ~Expires(v) => Update(v) = v
             /\ Expires(v) <=> /\ v.customer_id \in Staged /\ v.is_current
                               /\ v.record_hash # staged[v.customer_id]
  <2>1. Update(v) \in Updated
    BY DEF Updated
  <2>2. v.is_current \in BOOLEAN
    BY DEF TypeOK, Version
  <2>3. Expires(v) => Update(v).is_current = FALSE /\ v.is_current
    BY UpdateKeeps DEF Expires
  <2>4. ~Expires(v) => Update(v).is_current = v.is_current
    BY UpdateKeeps
  <2> QED
    BY <2>1, <2>2, <2>3, <2>4, UpdateKeeps DEF Expires
<1>2. \A u \in Updated : \E v \in dim : u = Update(v)
  BY DEF Updated
<1> HIDE DEF Update, Updated, Expires
<1>3. ASSUME c \in NeedVersion(Updated)
      PROVE  /\ c \in Staged
             /\ \A v \in dim : v.customer_id = c /\ v.is_current => Expires(v)
  <2>1. c \in Staged
    BY <1>3 DEF NeedVersion
  <2>2. ASSUME NEW v \in dim, v.customer_id = c, v.is_current, ~Expires(v)
        PROVE  FALSE
    <3>1. v \in Updated /\ v.record_hash = staged[c]
      BY <1>1, <2>1, <2>2
    <3>2. PICK u \in Updated : u.customer_id = c /\ u.is_current /\ u.record_hash # staged[c]
      BY <1>3, <2>2, <3>1 DEF NeedVersion
    <3>3. PICK w \in dim : u = Update(w)
      BY <1>2
    <3>4. w.customer_id = c /\ w.is_current /\ ~Expires(w) /\ u = w
      BY <1>1, <3>2, <3>3
    <3> QED
      BY <1>1, <2>1, <3>2, <3>4
  <2> QED
    BY <2>1, <2>2
<1>4. ASSUME c \in Staged,
             \A v \in dim : v.customer_id = c /\ v.is_current => Expires(v)
      PROVE  c \in NeedVersion(Updated)
  <2>1. \A u \in Updated : u.customer_id = c => ~u.is_current
    BY <1>1, <1>2, <1>4
  <2> QED
    BY <1>4, <2>1 DEF NeedVersion
<1> QED
  BY <1>3, <1>4

\* What the INSERT adds: one current version for each customer that needs
\* one, under a key of its own.
Inserts(new, sk) ==
  /\ \A n \in new :
       /\ n \in Version /\ n.effective_start_date = asOf
       /\ n.effective_end_date = NoDate /\ n.is_current
       /\ n.customer_id \in NeedVersion(Updated)
       /\ n.record_hash = staged[n.customer_id]
       /\ nextSk <= n.customer_sk /\ n.customer_sk < sk
  /\ \A n, m \in new :
       n.customer_sk = m.customer_sk \/ n.customer_id = m.customer_id => n = m
  /\ \A c \in NeedVersion(Updated) : \E n \in new : n.customer_id = c

\* The facts about a row of the result that the lemmas below need.
LEMMA UpdatedRow ==
  ASSUME TypeOK, 1 <= asOf, RowsInv(dim, nextSk, asOf), NEW u \in Updated
  PROVE  \E v \in dim :
           /\ u = Update(v)
           /\ u.customer_sk = v.customer_sk /\ u.customer_id = v.customer_id
           /\ u.record_hash = v.record_hash
           /\ u.effective_start_date = v.effective_start_date
           /\ u \in Version
           /\ \/ ~Expires(v) /\ u = v /\ (u.customer_id \in NeedVersion(Updated) => ~u.is_current)
              \/ /\ Expires(v) /\ v.is_current /\ ~u.is_current
                 /\ u.effective_end_date = asOf - 1 /\ v.effective_end_date = NoDate
                 /\ u.customer_id \in NeedVersion(Updated)
<1>1. PICK v \in dim : u = Update(v)
  BY DEF Updated
<1>2. v \in Version
  BY DEF TypeOK
<1>3. v.customer_id \in Customers /\ v.is_current \in BOOLEAN
  BY <1>2 DEF Version
<1>4. /\ \A x \in dim : x.is_current <=> x.effective_end_date = NoDate
      /\ \A x, w \in dim :
           x.customer_id = w.customer_id /\ x.is_current /\ w.is_current => x = w
  BY DEF RowsInv, CurrentInv
<1>5. v.customer_id \in NeedVersion(Updated) <=>
           /\ v.customer_id \in Staged
           /\ \A x \in dim : x.customer_id = v.customer_id /\ x.is_current => Expires(x)
  BY <1>3, Needed
<1>6. Expires(v) => v.is_current /\ v.customer_id \in Staged
  BY DEF Expires
<1>7. Expires(v) => v.customer_id \in NeedVersion(Updated)
  BY <1>4, <1>5, <1>6
<1>8. ~Expires(v) /\ v.customer_id \in NeedVersion(Updated) => ~v.is_current
  BY <1>5
<1> QED
  BY <1>1, <1>2, <1>3, <1>4, <1>6, <1>7, <1>8, UpdateKeeps

\* The result of both statements, row by row: what was there before or has
\* been expired on one side, the new versions on the other.
LEMMA ResultCurrent ==
  ASSUME TypeOK, 1 <= asOf, RowsInv(dim, nextSk, asOf),
         NEW sk \in Nat, nextSk <= sk, NEW new, Inserts(new, sk)
  PROVE  CurrentInv(Updated \union new)
<1> DEFINE rows == Updated \union new
           old(u, v) ==
             /\ u.customer_sk = v.customer_sk /\ u.customer_id = v.customer_id
             /\ \/ u = v /\ (u.customer_id \in NeedVersion(Updated) => ~u.is_current)
                \/ /\ v.is_current /\ ~u.is_current
                   /\ u.effective_end_date # NoDate
                   /\ u.customer_id \in NeedVersion(Updated)
<1>1. \A u \in Updated : \E v \in dim : u = Update(v) /\ old(u, v)
  <2> SUFFICES ASSUME NEW u \in Updated
               PROVE  \E v \in dim : u = Update(v) /\ old(u, v)
    OBVIOUS
  <2>1. asOf - 1 # NoDate
    BY ConstantsAssumption DEF TypeOK
  <2> HIDE DEF Update, Updated, Expires
  <2> QED
    BY <2>1, UpdatedRow
<1>2. \A n \in new :
        /\ n.customer_id \in NeedVersion(Updated) /\ n.is_current
        /\ n.effective_end_date = NoDate /\ nextSk <= n.customer_sk
        /\ n.customer_sk \in Nat
  BY DEF Inserts, Version
<1>3. \A v \in dim : v.customer_sk < nextSk /\ v.customer_sk \in Nat
  BY DEF RowsInv, TypeOK, Version
<1>4. CurrentInv(dim)
  BY DEF RowsInv
<1>5. nextSk \in Nat
  BY DEF TypeOK
<1>6. \A n, m \in new :
       n.customer_sk = m.customer_sk \/ n.customer_id = m.customer_id => n = m
  BY DEF Inserts
<1>7. \A v \in dim : Update(v) \in Updated
  BY DEF Updated
<1> HIDE DEF Update, Updated
<1>8. ASSUME NEW v \in rows, NEW w \in rows, v.customer_sk = w.customer_sk
      PROVE  v = w
  <2>1. \A u \in Updated : u.customer_sk \in Nat /\ u.customer_sk < nextSk
    BY <1>1, <1>3
  <2>2. CASE v \in Updated /\ w \in Updated
    BY <1>1, <1>4, <1>8, <2>2 DEF CurrentInv
  <2>3. CASE v \in new /\ w \in new
    BY <1>6, <1>8, <2>3
  <2>4. CASE v \in Updated /\ w \in new
    BY <1>2, <1>5, <1>8, <2>1, <2>4
  <2>5. CASE v \in new /\ w \in Updated
    BY <1>2, <1>5, <1>8, <2>1, <2>5
  <2> QED
    BY <2>2, <2>3, <2>4, <2>5
<1>9. \A v \in rows : v.is_current <=> v.effective_end_date = NoDate
  BY <1>1, <1>2, <1>4 DEF CurrentInv
<1>10. ASSUME NEW v \in rows, NEW w \in rows, v.customer_id = w.customer_id,
              v.is_current, w.is_current
       PROVE  v = w
  <2>1. CASE v \in Updated /\ w \in Updated
    BY <1>1, <1>4, <1>10, <2>1 DEF CurrentInv
  <2>2. CASE v \in new \/ w \in new
    BY <1>1, <1>2, <1>6, <1>10, <2>2
  <2> QED
    BY <2>1, <2>2
<1>11. ASSUME NEW w \in rows
       PROVE  \E v \in rows : v.customer_id = w.customer_id /\ v.is_current
  <2>1. CASE w.customer_id \in NeedVersion(Updated)
    BY <1>2, <2>1 DEF Inserts
  <2>2. CASE w.customer_id \notin NeedVersion(Updated)
    <3>1. w \in Updated
      BY <1>2, <2>2
    <3>2. PICK x \in dim : w = Update(x) /\ old(w, x)
      BY <1>1, <3>1
    <3>3. PICK c \in dim : c.customer_id = w.customer_id /\ c.is_current
      BY <1>4, <3>2 DEF CurrentInv
    <3>4. PICK u \in Updated : u = Update(c)
      BY <1>7
    <3>5. PICK v \in dim : u = Update(v) /\ old(u, v)
      BY <1>1
    <3>6. ~Expires(c)
      <4>1. c.customer_id \in Customers
        BY DEF TypeOK, Version
      <4>2. c.customer_id \in Staged => \E y \in dim :
               y.customer_id = c.customer_id /\ y.is_current /\ ~Expires(y)
        BY <2>2, <3>3, <4>1, Needed
      <4> QED
        BY <1>4, <3>3, <4>2 DEF CurrentInv, Expires
    <3>7. u = c
      BY <3>4, <3>6, UpdateKeeps
    <3> QED
      BY <3>3, <3>4, <3>7
  <2> QED
    BY <2>1, <2>2
<1> QED
  BY <1>8, <1>9, <1>10, <1>11 DEF CurrentInv

LEMMA ResultValid ==
  ASSUME TypeOK, 1 <= asOf, RowsInv(dim, nextSk, asOf),
         NEW sk \in Nat, nextSk <= sk, NEW new, Inserts(new, sk),
         NEW first \in Updated \union new, NEW d \in Nat,
         first.effective_start_date <= d
  PROVE  OneValid(Updated \union new, first, d)
<1> DEFINE rows == Updated \union new
           c == first.customer_id
<1>1. asOf \in Nat /\ asOf - 1 # NoDate /\ asOf - 1 \in Nat
  BY ConstantsAssumption DEF TypeOK
<1>2. ASSUME NEW u \in Updated
      PROVE \E v \in dim :
           /\ u = Update(v) /\ u.customer_id = v.customer_id
           /\ u.effective_start_date = v.effective_start_date
           /\ \/ ~Expires(v) /\ u = v /\ (u.customer_id \in NeedVersion(Updated) => ~u.is_current)
              \/ /\ Expires(v) /\ v.is_current
                 /\ u.effective_end_date = asOf - 1 /\ v.effective_end_date = NoDate
                 /\ u.customer_id \in NeedVersion(Updated)
  <2> HIDE DEF Update, Updated, Expires
  <2> QED
    BY <1>2, UpdatedRow
<1>3. \A v \in dim : /\ v.effective_start_date \in Nat /\ v.effective_start_date <= asOf
                     /\ v.effective_end_date \in Int \union {NoDate}
                     /\ Update(v) \in Updated
  BY DEF RowsInv, TypeOK, Version, Updated
<1>4. \A f \in dim : f.effective_start_date <= d => OneValid(dim, f, d)
  BY DEF RowsInv
<1>5. CurrentInv(dim)
  BY DEF RowsInv
<1>6. \A n \in new : /\ n.effective_start_date = asOf /\ n.effective_end_date = NoDate
                     /\ n.customer_id \in NeedVersion(Updated)
  BY DEF Inserts
<1>7. \A n, m \in new : n.customer_id = m.customer_id => n = m
  BY DEF Inserts
<1>8. \A x \in NeedVersion(Updated) : \E n \in new : n.customer_id = x
  BY DEF Inserts
<1> HIDE DEF Update, Updated, Expires
\* A version that is valid afterwards and not new was valid before, and on a
\* day before the transaction's also the other way round.
<1>9. ASSUME NEW u \in Updated, ValidOn(u, d)
      PROVE  \E v \in dim : u = Update(v) /\ v.customer_id = u.customer_id /\ ValidOn(v, d)
  BY <1>2, <1>9 DEF ValidOn
<1>10. ASSUME NEW v \in dim, ValidOn(v, d), d < asOf \/ v.customer_id \notin NeedVersion(Updated)
       PROVE  /\ ValidOn(Update(v), d) /\ Update(v).customer_id = v.customer_id
              /\ Update(v) \in Updated
  <2>1. Update(v) \in Updated
    BY <1>3
  <2>2. CASE Expires(v)
    <3>1. /\ Update(v).effective_end_date = asOf - 1
          /\ Update(v).effective_start_date = v.effective_start_date
          /\ Update(v).customer_id = v.customer_id
      BY <2>2, UpdateKeeps
    <3>2. v.customer_id \in NeedVersion(Updated)
      <4>1. v.customer_id \in Customers /\ v.customer_id \in Staged /\ v.is_current
        BY <2>2 DEF TypeOK, Version, Expires
      <4>2. \A x \in dim : x.customer_id = v.customer_id /\ x.is_current => Expires(x)
        BY <1>5, <2>2, <4>1 DEF CurrentInv
      <4> QED
        BY <4>1, <4>2, Needed
    <3> QED
      BY <1>1, <1>10, <2>1, <3>1, <3>2 DEF ValidOn
  <2>3. CASE ~Expires(v)
    BY <1>10, <2>1, <2>3, UpdateKeeps
  <2> QED
    BY <2>2, <2>3
<1>11. CASE c \in NeedVersion(Updated) /\ asOf <= d
  <2>1. PICK n \in new : n.customer_id = c
    BY <1>8, <1>11
  <2>2. ValidOn(n, d)
    BY <1>6, <1>11 DEF ValidOn
  <2>3. ASSUME NEW w \in rows, w.customer_id = c, ValidOn(w, d), w \notin new
        PROVE  FALSE
    <3>1. w \in Updated
      BY <2>3
    <3>2. PICK v \in dim :
           /\ w = Update(v) /\ w.customer_id = v.customer_id
           /\ w.effective_start_date = v.effective_start_date
           /\ \/ ~Expires(v) /\ w = v /\ (w.customer_id \in NeedVersion(Updated) => ~w.is_current)
              \/ /\ Expires(v) /\ v.is_current
                 /\ w.effective_end_date = asOf - 1 /\ v.effective_end_date = NoDate
                 /\ w.customer_id \in NeedVersion(Updated)
      BY <1>2, <3>1
    <3>3. w.effective_end_date # asOf - 1
      BY <1>1, <1>11, <2>3 DEF ValidOn
    <3>4. w = v /\ ~v.is_current
      BY <1>11, <2>3, <3>2, <3>3
    <3>5. PICK x \in dim : x.customer_id = c /\ x.is_current
      BY <1>5, <2>3, <3>2 DEF CurrentInv
    <3>6. ValidOn(x, d)
      BY <1>1, <1>3, <1>5, <1>11, <3>5 DEF CurrentInv, ValidOn
    <3>7. OneValid(dim, x, d)
      BY <1>4, <3>6 DEF ValidOn
    <3> QED
      BY <2>3, <3>2, <3>4, <3>5, <3>6, <3>7 DEF OneValid
  <2> QED
    BY <1>7, <2>1, <2>2, <2>3 DEF OneValid
<1>12. CASE c \notin NeedVersion(Updated) \/ d < asOf
  <2>1. first \in Updated
    BY <1>1, <1>6, <1>12
  <2>2. PICK f \in dim : /\ f.customer_id = c
                         /\ f.effective_start_date = first.effective_start_date
    BY <1>2, <2>1
  <2>3. PICK v \in dim :
          /\ v.customer_id = c /\ ValidOn(v, d)
          /\ \A w \in dim : w.customer_id = c /\ ValidOn(w, d) => w = v
    BY <1>4, <2>2 DEF OneValid
  <2>4. ValidOn(Update(v), d) /\ Update(v).customer_id = c /\ Update(v) \in rows
    BY <1>10, <1>12, <2>3
  <2>5. ASSUME NEW w \in rows, w.customer_id = c, ValidOn(w, d)
        PROVE  w = Update(v)
    <3>1. w \in Updated
      BY <1>1, <1>6, <1>12, <2>5 DEF ValidOn
    <3> QED
      BY <1>9, <2>3, <2>5, <3>1
  <2> QED
    BY <2>4, <2>5 DEF OneValid
<1> QED
  BY <1>1, <1>11, <1>12

LEMMA ResultRows ==
  ASSUME TypeOK, 1 <= asOf, RowsInv(dim, nextSk, asOf),
         NEW sk \in Nat, nextSk <= sk, NEW new, Inserts(new, sk)
  PROVE  /\ RowsInv(Updated \union new, sk, asOf)
         /\ Applied(Updated \union new)
         /\ Kept(dim, Updated \union new)
<1> DEFINE rows == Updated \union new
<1>1. CurrentInv(rows)
  BY ResultCurrent
<1>2. \A first \in rows, d \in Nat :
        first.effective_start_date <= d => OneValid(rows, first, d)
  BY ResultValid
<1>3. \A v \in dim : v.customer_sk \in Nat /\ v.effective_start_date \in Nat
                     /\ v.customer_sk < nextSk /\ v.effective_start_date <= asOf
  BY DEF RowsInv, TypeOK, Version
<1>4. asOf \in Nat /\ nextSk \in Nat
  BY DEF TypeOK
<1>5. \A v \in rows : v \in Version /\ v.customer_sk < sk /\ v.effective_start_date <= asOf
  <2> SUFFICES ASSUME NEW u \in rows
               PROVE  u \in Version /\ u.customer_sk < sk /\ u.effective_start_date <= asOf
    OBVIOUS
  <2>1. CASE u \in new
    BY <1>4, <2>1 DEF Inserts
  <2>2. CASE u \in Updated
    <3>1. PICK v \in dim : u = Update(v)
      BY <2>2 DEF Updated
    <3>2. /\ u \in Version /\ u.customer_sk = v.customer_sk
          /\ u.effective_start_date = v.effective_start_date
      BY <3>1, UpdateKeeps
    <3> QED
      BY <1>3, <1>4, <3>2
  <2> QED
    BY <2>1, <2>2
<1>6. RowsInv(rows, sk, asOf)
  BY <1>1, <1>2, <1>5 DEF RowsInv
<1>7. Applied(rows)
  <2> SUFFICES ASSUME NEW c \in Staged
               PROVE  \E v \in rows :
                        v.customer_id = c /\ v.is_current /\ v.record_hash = staged[c]
    BY DEF Applied
  <2>1. CASE c \in NeedVersion(Updated)
    BY <2>1 DEF Inserts
  <2>2. CASE c \notin NeedVersion(Updated)
    <3>1. c \in Customers
      BY DEF Staged
    <3>2. PICK v \in dim : v.customer_id = c /\ v.is_current /\ ~Expires(v)
      BY <2>2, <3>1, Needed
    <3>3. v.record_hash = staged[c]
      BY <3>2 DEF Expires
    <3>4. v \in Updated
      BY <3>2 DEF Updated, Update
    <3> QED
      BY <3>2, <3>3, <3>4
  <2> QED
    BY <2>1, <2>2
<1>8. Kept(dim, rows)
  <2> SUFFICES ASSUME NEW v \in dim, v \notin rows
               PROVE  /\ v.is_current
                      /\ \E w \in rows :
                           w = [v EXCEPT !.is_current = FALSE,
                                         !.effective_end_date = w.effective_end_date]
    BY DEF Kept
  <2>1. Update(v) \in rows
    BY DEF Updated
  <2>2. Expires(v)
    BY <2>1, UpdateKeeps
  <2>3. /\ Update(v).effective_end_date = asOf - 1
        /\ Update(v) = [v EXCEPT !.is_current = FALSE,
                                 !.effective_end_date = asOf - 1]
    BY <2>2, UpdateKeeps
  <2>4. v.is_current
    BY <2>2 DEF Expires
  <2> HIDE DEF Update
  <2> QED
    BY <2>1, <2>3, <2>4
<1> QED
  BY <1>6, <1>7, <1>8

\* A batch that is applied already expires nothing and inserts nothing.
LEMMA NothingToDo ==
  ASSUME TypeOK, 1 <= asOf, CurrentInv(dim), Applied(dim)
  PROVE  Updated = dim /\ NeedVersion(Updated) = {}
<1>1. \A v \in dim : ~Expires(v)
  BY DEF Expires, Applied, CurrentInv
<1>2. Updated = dim
  BY <1>1 DEF Updated, Update
<1>3. \A c \in NeedVersion(Updated) : c \in Customers
  BY DEF NeedVersion, Staged
<1>4. \A c \in Customers : c \notin NeedVersion(Updated)
  BY <1>1, Needed DEF Applied
<1> QED
  BY <1>2, <1>3, <1>4

\* The INSERT statement does insert what Inserts says.
LEMMA InsertStatement ==
  ASSUME TypeOK, 1 <= asOf
  PROVE  LET need == NeedVersion(Updated)
             order == CHOOSE s \in SetToSeqs(need) : TRUE
             new == {NewVersion(order[i], nextSk + i - 1) : i \in DOMAIN order}
         IN  /\ Inserts(new, nextSk + Cardinality(need))
             /\ nextSk + Cardinality(need) \in Nat \ {0}
             /\ nextSk <= nextSk + Cardinality(need)
             /\ need = {} => new = {}
<1> DEFINE need == NeedVersion(Updated)
           order == CHOOSE s \in SetToSeqs(need) : TRUE
           N == Cardinality(need)
           new == {NewVersion(order[i], nextSk + i - 1) : i \in DOMAIN order}
<1>1. need \subseteq Staged /\ Staged \subseteq Customers
  BY DEF NeedVersion, Staged
<1>2. IsFiniteSet(need)
  BY <1>1, FS_Subset, ConstantsAssumption
<1>3. /\ order \in [1..N -> need]
      /\ \A i, j \in 1..N : i # j => order[i] # order[j]
      /\ \A c \in need : \E i \in 1..N : order[i] = c
      /\ N \in Nat
  <2>1. order \in SetToSeqs(need)
    BY <1>2, OrderLists
  <2> HIDE DEF need, order
  <2> QED
    BY <1>2, <2>1, OrderLists
<1>4. nextSk \in Nat \ {0} /\ asOf \in Nat
  BY DEF TypeOK
<1>5. \A c \in need : staged[c] \in Attributes /\ c \in Customers
  BY <1>1 DEF TypeOK, Staged
<1> HIDE DEF N, need, order
<1>6. ASSUME NEW i \in 1..N
      PROVE  LET n == NewVersion(order[i], nextSk + i - 1) IN
             /\ n \in Version /\ n.effective_start_date = asOf
             /\ n.effective_end_date = NoDate /\ n.is_current
             /\ n.customer_id = order[i] /\ n.customer_id \in need
             /\ n.record_hash = staged[n.customer_id]
             /\ n.customer_sk = nextSk + i - 1
             /\ nextSk <= n.customer_sk /\ n.customer_sk < nextSk + N
  <2>1. order[i] \in need
    BY <1>3
  <2>2. /\ nextSk + i - 1 \in Nat \ {0} /\ nextSk <= nextSk + i - 1
        /\ nextSk + i - 1 < nextSk + N
    BY <1>3, <1>4
  <2>3. NewVersion(order[i], nextSk + i - 1) \in Version
    BY <1>4, <1>5, <2>1, <2>2 DEF NewVersion, Version
  <2> QED
    BY <2>1, <2>2, <2>3 DEF NewVersion
<1>7. DOMAIN order = 1..N
  BY <1>3
<1>8. \A n \in new : \E i \in 1..N : n = NewVersion(order[i], nextSk + i - 1)
  BY <1>7
<1>9. \A i \in 1..N : NewVersion(order[i], nextSk + i - 1) \in new
  BY <1>7
<1>10. ASSUME NEW n \in new, NEW m \in new,
              n.customer_sk = m.customer_sk \/ n.customer_id = m.customer_id
       PROVE  n = m
  <2>1. PICK i \in 1..N : n = NewVersion(order[i], nextSk + i - 1)
    BY <1>8
  <2>2. PICK j \in 1..N : m = NewVersion(order[j], nextSk + j - 1)
    BY <1>8
  <2>3. /\ n.customer_sk = nextSk + i - 1 /\ m.customer_sk = nextSk + j - 1
        /\ n.customer_id = order[i] /\ m.customer_id = order[j]
    BY <1>6, <2>1, <2>2
  <2>4. i = j
    BY <1>3, <1>4, <1>10, <2>3
  <2> QED
    BY <2>1, <2>2, <2>4
<1>11. \A c \in need : \E n \in new : n.customer_id = c
  <2> TAKE c \in need
  <2>1. PICK i \in 1..N : order[i] = c
    BY <1>3
  <2>2. NewVersion(order[i], nextSk + i - 1) \in new
    BY <1>9
  <2> QED
    BY <1>6, <2>1, <2>2
<1>12. \A n \in new :
         /\ n \in Version /\ n.effective_start_date = asOf
         /\ n.effective_end_date = NoDate /\ n.is_current
         /\ n.customer_id \in need
         /\ n.record_hash = staged[n.customer_id]
         /\ nextSk <= n.customer_sk /\ n.customer_sk < nextSk + N
  BY <1>6, <1>8
<1>13. need = {} => new = {}
  BY <1>12
<1>14. nextSk + N \in Nat \ {0} /\ nextSk <= nextSk + N
  BY <1>3, <1>4
<1> HIDE DEF new
<1>15. Inserts(new, nextSk + N)
  BY <1>10, <1>11, <1>12 DEF Inserts, need
<1> QED
  BY <1>13, <1>14, <1>15 DEF new, need, order, N

-----------------------------------------------------------------------------
(***************************************************************************)
(* The inductive invariant is one.                                         *)
(***************************************************************************)
LEMMA InitInv == Init => Inv
<1> SUFFICES ASSUME Init PROVE Inv
  OBVIOUS
<1>1. TypeOK
  <2>1. staged \in [Customers -> Attributes \union {NoHash}]
    BY DEF Init
  <2>2. attempt \in 0..Retries
    BY ConstantsAssumption DEF Init
  <2>3. today \in Nat /\ nextSk \in Nat \ {0} /\ asOf \in Nat /\ batches \in Nat
    BY DEF Init
  <2> QED
    BY <2>1, <2>2, <2>3 DEF Init, TypeOK
<1>2. RowsInv(dim, nextSk, today)
  BY DEF Init, RowsInv, CurrentInv
<1>3. TransactionInv
  BY DEF Init, TransactionInv, InTransaction
<1>4. AppliedInv
  BY DEF Init, AppliedInv, Applied, Staged, InTransaction
<1> QED
  BY <1>1, <1>2, <1>3, <1>4 DEF Inv, Init

\* Later days and higher keys do no harm.
LEMMA RowsInvMonotone ==
  ASSUME NEW rows, NEW sk \in Nat, NEW tk \in Nat, NEW day \in Nat, NEW later \in Nat,
         sk <= tk, day <= later, RowsInv(rows, sk, day)
  PROVE  RowsInv(rows, tk, later)
<1>1. \A v \in rows : v.customer_sk \in Nat /\ v.effective_start_date \in Nat
  BY DEF RowsInv, Version
<1>2. \A v \in rows : v.customer_sk < tk /\ v.effective_start_date <= later
  BY <1>1 DEF RowsInv
<1> QED
  BY <1>2 DEF RowsInv

LEMMA NewDayInv == Inv /\ NewDay => Inv'
<1> SUFFICES ASSUME Inv, NewDay PROVE Inv'
  OBVIOUS
<1>1. TypeOK' /\ 1 <= today' /\ today \in Nat /\ today' = today + 1
  BY DEF Inv, TypeOK, NewDay, taskVars
<1>2. RowsInv(dim, nextSk, today')
  BY <1>1, RowsInvMonotone DEF Inv, TypeOK
<1>3. RowsInv(dim, nextSk, today)'
  BY <1>2 DEF NewDay
<1>4. TransactionInv'
  <2>1. asOf \in Nat /\ asOf <= today => asOf <= today'
    BY <1>1
  <2>2. /\ Updated' = Updated /\ InTransaction' = InTransaction
        /\ Applied(work)' = Applied(work) /\ Kept(dim, work)' = Kept(dim, work)
        /\ RowsInv(work, nextSk, asOf)' = RowsInv(work, nextSk, asOf)
    BY DEF NewDay, taskVars, Updated, Update, Expires, Expired, Staged,
           InTransaction, Applied, Kept
  <2>3. asOf \in Nat
    BY DEF Inv, TypeOK
  <2> QED
    BY <2>1, <2>2, <2>3 DEF Inv, TransactionInv, NewDay, taskVars
<1>5. AppliedInv'
  BY DEF Inv, AppliedInv, Applied, Staged, InTransaction, NewDay, taskVars
<1> QED
  BY <1>1, <1>3, <1>4, <1>5 DEF Inv

LEMMA StageInv == Inv /\ Stage => Inv'
<1> SUFFICES ASSUME Inv, Stage PROVE Inv'
  OBVIOUS
<1>1. TypeOK'
  <2>1. staged' \in [Customers -> Attributes \union {NoHash}]
    BY DEF Stage
  <2>2. attempt' \in 0..Retries /\ batches' \in Nat
    BY ConstantsAssumption DEF Inv, TypeOK, Stage
  <2>3. pc' = "begin" /\ committed' = FALSE /\ UNCHANGED <<today, dim, nextSk, work, asOf>>
    BY DEF Stage
  <2> QED
    BY <2>1, <2>2, <2>3 DEF Inv, TypeOK
<1>2. RowsInv(dim, nextSk, today)' /\ 1 <= today'
  BY DEF Inv, Stage
<1>3. TransactionInv' /\ AppliedInv'
  BY DEF Stage, TransactionInv, AppliedInv, InTransaction
<1> QED
  BY <1>1, <1>2, <1>3 DEF Inv

LEMMA BeginInv == Inv /\ Begin => Inv'
<1> SUFFICES ASSUME Inv, Begin PROVE Inv'
  OBVIOUS
<1>1. TypeOK'
  BY DEF Inv, TypeOK, Begin
<1>2. RowsInv(dim, nextSk, today)' /\ 1 <= today' /\ today \in Nat
  BY DEF Inv, Begin, TypeOK
<1>3. TransactionInv'
  BY <1>2 DEF Inv, Begin, TransactionInv, InTransaction, RowsInv
<1>4. AppliedInv'
  BY DEF Inv, Begin, AppliedInv, InTransaction, Applied, Staged
<1> QED
  BY <1>1, <1>2, <1>3, <1>4 DEF Inv

\* During a transaction the dimension satisfies RowsInv as of its day.
LEMMA TransactionRows ==
  ASSUME Inv, InTransaction
  PROVE  1 <= asOf /\ RowsInv(dim, nextSk, asOf)
BY DEF Inv, TransactionInv, RowsInv

LEMMA ExpireChangedInv == Inv /\ ExpireChanged => Inv'
<1> SUFFICES ASSUME Inv, ExpireChanged PROVE Inv'
  OBVIOUS
<1>1. 1 <= asOf /\ work = dim /\ InTransaction /\ TypeOK
  BY DEF Inv, TransactionInv, InTransaction, ExpireChanged
<1>2. work' = Updated
  BY <1>1 DEF ExpireChanged, Updated, Update
<1>3. work' \in SUBSET Version
  BY <1>1, <1>2, UpdateKeeps DEF Updated
<1>4. TypeOK'
  BY <1>3 DEF Inv, TypeOK, ExpireChanged
<1>5. RowsInv(dim, nextSk, today)' /\ 1 <= today'
  BY DEF Inv, ExpireChanged
<1>6. Updated' = Updated /\ Applied(dim)' = Applied(dim)
  BY DEF ExpireChanged, Updated, Update, Expires, Expired, Staged, Applied
<1>7. TransactionInv'
  BY <1>1, <1>2, <1>6 DEF Inv, TransactionInv, InTransaction, ExpireChanged
<1>8. AppliedInv'
  <2>1. committed => Updated = dim
    BY <1>1, NothingToDo DEF Inv, AppliedInv, RowsInv
  <2> QED
    BY <1>2, <1>6, <2>1 DEF Inv, AppliedInv, ExpireChanged
<1> QED
  BY <1>4, <1>5, <1>7, <1>8 DEF Inv

LEMMA InsertCurrentInv == Inv /\ InsertCurrent => Inv'
<1> SUFFICES ASSUME Inv, InsertCurrent PROVE Inv'
  OBVIOUS
<1> DEFINE need == NeedVersion(Updated)
           order == CHOOSE s \in SetToSeqs(need) : TRUE
           new == {NewVersion(order[i], nextSk + i - 1) : i \in DOMAIN order}
           sk == nextSk + Cardinality(need)
<1>1. InTransaction /\ work = Updated /\ TypeOK /\ pc' = "commit"
  BY DEF Inv, TransactionInv, InTransaction, InsertCurrent
<1>2. 1 <= asOf /\ RowsInv(dim, nextSk, asOf)
  BY <1>1, TransactionRows
<1>3. work' = Updated \union new /\ nextSk' = sk
  BY <1>1 DEF InsertCurrent
<1>4. /\ Inserts(new, sk) /\ sk \in Nat \ {0} /\ nextSk <= sk
      /\ need = {} => new = {}
  BY <1>1, <1>2, InsertStatement
<1> HIDE DEF new, need, order, sk
<1>5. /\ RowsInv(work', nextSk', asOf) /\ Applied(work') /\ Kept(dim, work')
  BY <1>1, <1>2, <1>3, <1>4, ResultRows
<1>6. TypeOK'
  BY <1>3, <1>4, <1>5 DEF Inv, TypeOK, InsertCurrent, RowsInv
<1>7. RowsInv(dim, nextSk, today)'
  <2>1. RowsInv(dim, nextSk', today)
    BY <1>1, <1>3, <1>4, RowsInvMonotone DEF Inv, TypeOK
  <2> QED
    BY <2>1 DEF InsertCurrent
<1>8. Applied(work)' /\ Kept(dim, work)' /\ RowsInv(work, nextSk, asOf)'
  BY <1>5 DEF InsertCurrent, Applied, Staged, Kept
<1>9. TransactionInv'
  BY <1>1, <1>8 DEF Inv, TransactionInv, InTransaction, InsertCurrent
<1>10. AppliedInv'
  <2>1. committed => Updated = dim /\ need = {}
    BY <1>1, <1>2, NothingToDo DEF Inv, AppliedInv, RowsInv, need
  <2>2. committed => work' = dim
    BY <1>3, <1>4, <2>1
  <2>3. Applied(dim)' = Applied(dim)
    BY DEF InsertCurrent, Applied, Staged
  <2> QED
    BY <1>1, <2>2, <2>3 DEF Inv, AppliedInv, InsertCurrent
<1> QED
  BY <1>6, <1>7, <1>9, <1>10 DEF Inv, InsertCurrent

\* Both ways a transaction is committed.
LEMMA CommitRows ==
  ASSUME Inv, pc = "commit", dim' = work, UNCHANGED <<today, nextSk, staged>>,
         pc' \in {"done", "begin", "failed"}
  PROVE  RowsInv(dim, nextSk, today)' /\ 1 <= today' /\ TransactionInv' /\ AppliedInv'
<1>1. RowsInv(work, nextSk, asOf) /\ Applied(work) /\ asOf <= today
  BY DEF Inv, TransactionInv, InTransaction
<1>2. RowsInv(work, nextSk, today)
  BY <1>1, RowsInvMonotone DEF Inv, TypeOK
<1>3. Applied(dim)'
  BY <1>1 DEF Applied, Staged
<1> QED
  BY <1>2, <1>3 DEF Inv, TransactionInv, AppliedInv, InTransaction

LEMMA RetryType ==
  ASSUME TypeOK, Retry
  PROVE  attempt' \in 0..Retries /\ pc' \in {"begin", "failed"}
BY ConstantsAssumption DEF TypeOK, Retry

LEMMA CommitInv == Inv /\ (Commit \/ CommitUnseen) => Inv'
<1> SUFFICES ASSUME Inv, Commit \/ CommitUnseen PROVE Inv'
  OBVIOUS
<1>1. attempt' \in 0..Retries /\ pc' \in {"done", "begin", "failed"}
  BY RetryType, ConstantsAssumption DEF Inv, Commit, CommitUnseen
<1>2. /\ pc = "commit" /\ dim' = work /\ UNCHANGED <<today, nextSk, staged, batches>>
      /\ committed' = TRUE /\ work' = {} /\ asOf' = 0
  BY DEF Commit, CommitUnseen, Close
<1>3. RowsInv(dim, nextSk, today)' /\ 1 <= today' /\ TransactionInv' /\ AppliedInv'
  BY <1>1, <1>2, CommitRows
<1>4. TypeOK'
  BY <1>1, <1>2 DEF Inv, TypeOK
<1> QED
  BY <1>3, <1>4 DEF Inv

LEMMA RollbackInv == Inv /\ Rollback => Inv'
<1> SUFFICES ASSUME Inv, Rollback PROVE Inv'
  OBVIOUS
<1>1. attempt' \in 0..Retries /\ pc' \in {"begin", "failed"}
  BY RetryType DEF Inv, Rollback
<1>2. TypeOK'
  BY <1>1 DEF Inv, TypeOK, Rollback, Close
<1>3. RowsInv(dim, nextSk, today)' /\ 1 <= today'
  BY DEF Inv, Rollback
<1>4. TransactionInv' /\ AppliedInv'
  BY <1>1 DEF Inv, Rollback, TransactionInv, AppliedInv, InTransaction, Applied, Staged
<1> QED
  BY <1>2, <1>3, <1>4 DEF Inv

LEMMA StutterInv == Inv /\ UNCHANGED vars => Inv'
<1> SUFFICES ASSUME Inv, UNCHANGED vars PROVE Inv'
  OBVIOUS
<1> USE DEF vars, taskVars
<1>1. TypeOK' /\ 1 <= today' /\ RowsInv(dim, nextSk, today)'
  BY DEF Inv, TypeOK
<1>2. /\ Updated' = Updated /\ InTransaction' = InTransaction
      /\ Applied(work)' = Applied(work) /\ Applied(dim)' = Applied(dim)
      /\ Kept(dim, work)' = Kept(dim, work)
      /\ RowsInv(work, nextSk, asOf)' = RowsInv(work, nextSk, asOf)
  BY DEF Updated, Update, Expires, Expired, Staged, InTransaction, Applied, Kept
<1>3. TransactionInv' /\ AppliedInv'
  BY <1>2 DEF Inv, TransactionInv, AppliedInv
<1> QED
  BY <1>1, <1>3 DEF Inv

LEMMA StepInv == Inv /\ [Next]_vars => Inv'
BY NewDayInv, StageInv, BeginInv, ExpireChangedInv, InsertCurrentInv, CommitInv,
   RollbackInv, StutterInv DEF Next

LEMMA Invariance == Spec => []Inv
BY InitInv, StepInv, PTL DEF Spec

-----------------------------------------------------------------------------
(***************************************************************************)
(* The properties.                                                         *)
(***************************************************************************)
\* Every variable of the dimension keeps its type.
THEOREM TypeCorrect == Spec => []TypeOK
<1>1. Inv => TypeOK
  BY DEF Inv
<1> QED
  BY <1>1, Invariance, PTL

\* No customer ever has two current versions, and no surrogate key is used
\* twice.
THEOREM OneCurrentVersionAlways == Spec => []OneCurrentVersion
<1>1. Inv => OneCurrentVersion
  BY DEF Inv, RowsInv, CurrentInv, OneCurrentVersion
<1> QED
  BY <1>1, Invariance, PTL

\* On every day since a customer's first version exactly one of its versions
\* is valid, however often it changes and on whatever days tasks are retried.
THEOREM OneVersionPerDayAlways == Spec => []OneVersionPerDay
<1>1. Inv => OneVersionPerDay
  <2> SUFFICES ASSUME Inv, NEW first \in dim, NEW day \in 1..today,
                      first.effective_start_date <= day
               PROVE  OneValid(dim, first, day)
    BY DEF OneVersionPerDay, OneValid
  <2>1. day \in Nat
    BY DEF Inv, TypeOK
  <2> QED
    BY <2>1 DEF Inv, RowsInv
<1> QED
  BY <1>1, Invariance, PTL

\* A task that is done has applied its batch.
THEOREM BatchIsAppliedAlways == Spec => []BatchIsApplied
<1>1. Inv => BatchIsApplied
  BY DEF Inv, AppliedInv, Applied, BatchIsApplied
<1> QED
  BY <1>1, Invariance, PTL

\* No step rewrites history.
LEMMA StepKeeps == [Next]_vars => dim' = dim \/ (pc = "commit" /\ dim' = work)
BY DEF Next, vars, NewDay, Stage, Begin, ExpireChanged, InsertCurrent, Commit,
       CommitUnseen, Rollback

THEOREM HistoryIsKeptAlways == Spec => HistoryIsKept
<1>1. Inv /\ [Next]_vars => Kept(dim, dim')
  BY StepKeeps DEF Inv, TransactionInv, Kept
<1>2. Kept(dim, dim') => [\A v \in dim :
       \/ v \in dim'
       \/ v.is_current /\ \E w \in dim' :
            w = [v EXCEPT !.is_current = FALSE,
                          !.effective_end_date = w.effective_end_date]]_vars
  BY DEF Kept
<1> QED
  BY <1>1, <1>2, Invariance, PTL DEF Spec, HistoryIsKept

\* A retry of a batch that was committed changes nothing.
THEOREM RetryIsIdempotentAlways == Spec => RetryIsIdempotent
<1>1. Inv /\ [Next]_vars => [committed /\ committed' => dim' = dim]_vars
  <2> SUFFICES ASSUME Inv, [Next]_vars, committed, dim' # dim
               PROVE  FALSE
    OBVIOUS
  <2> QED
    BY StepKeeps DEF Inv, AppliedInv, InTransaction
<1> QED
  BY <1>1, Invariance, PTL DEF Spec, RetryIsIdempotent
-----------------------------------------------------------------------------
(***************************************************************************)
(* The Python reference. Its loop takes the batch in some order; Reached   *)
(* is what the UPDATE would leave of a row if only the customers of the    *)
(* rounds so far were staged.                                              *)
(***************************************************************************)
Reached(v, done) ==
  IF Expires(v) /\ v.customer_id \in done THEN Expired(v, asOf) ELSE v

Need == NeedVersion(Updated)

\* The rows and the customers with a new row after some rounds.
Loop == [rows : SUBSET Version, new : Seq(Customers)]
After(state, done) ==
  /\ state.rows = {Reached(v, done) : v \in dim}
  /\ state.new \in Seq(Customers)
  /\ ToSet(state.new) = done \intersect Need

\* after holds the state after each round.
Rounds(incoming, n, after) ==
  /\ after[0] = [rows |-> dim, new |-> <<>>]
  /\ \A i \in 1..n : after[i] = ApplyRow(after[i - 1], incoming[i])

\* An expired version is a version, of the same customer.
LEMMA ExpiredType ==
  ASSUME TypeOK, NEW v \in Version
  PROVE  Expired(v, asOf) \in Version /\ Expired(v, asOf).customer_id = v.customer_id
<1>1. asOf - 1 \in Int
  BY DEF TypeOK
<1> QED
  BY <1>1 DEF Expired, Version

\* A round keeps the type of the loop's state.
LEMMA RoundType ==
  ASSUME TypeOK, NEW state \in Loop, NEW c \in Customers
  PROVE  ApplyRow(state, c) \in Loop
<1> DEFINE current == {v \in state.rows : v.customer_id = c /\ v.is_current}
           new == Append(state.new, c)
           rows == {IF v \in current THEN Expired(v, asOf) ELSE v : v \in state.rows}
<1>1. /\ state.rows \in SUBSET Version /\ state.new \in Seq(Customers)
      /\ state = [rows |-> state.rows, new |-> state.new]
  BY DEF Loop
<1>2. new \in Seq(Customers)
  BY <1>1
<1>3. rows \in SUBSET Version
  BY <1>1, ExpiredType
<1>4. ApplyRow(state, c) = IF current = {} THEN [state EXCEPT !.new = new]
                           ELSE IF \E v \in current : v.record_hash = staged[c] THEN state
                           ELSE [rows |-> rows, new |-> new]
  BY DEF ApplyRow
<1> HIDE DEF current, new, rows
<1>5. [state EXCEPT !.new = new] \in Loop /\ [rows |-> rows, new |-> new] \in Loop
  BY <1>1, <1>2, <1>3 DEF Loop
<1> QED
  BY <1>4, <1>5

\* apply_scd2 is its loop, followed by the insertion of the new rows.
ResultsIn(incoming, n, after, top) ==
  /\ Rounds(incoming, n, after)
  /\ ApplyScd2(dim, incoming) = after[n].rows \union
       {NewVersion(after[n].new[i], top + i) : i \in DOMAIN after[n].new}

LEMMA PythonLoop ==
  ASSUME TypeOK, NEW n \in Nat, NEW incoming \in [1..n -> Customers]
  PROVE  \E after, top : ResultsIn(incoming, n, after, top)
<1> DEFINE first == [rows |-> dim, new |-> <<>>]
           Eq(f) == f = [i \in 0..n |-> IF i = 0 THEN first
                                        ELSE ApplyRow(f[i - 1], incoming[i])]
           step == [i \in 1..n |-> [state \in Loop |-> ApplyRow(state, incoming[i])]]
           after == CHOOSE f : Eq(f)
           top == IF dim = {} THEN 0
                  ELSE CHOOSE m \in {v.customer_sk : v \in dim} :
                         \A v \in dim : v.customer_sk <= m
<1>1. Len(incoming) = n
  OBVIOUS
<1>2. ApplyScd2(dim, incoming) = after[n].rows \union
        {NewVersion(after[n].new[i], top + i) : i \in DOMAIN after[n].new}
  BY <1>1 DEF ApplyScd2
<1>3. PICK f \in [0..n -> Loop] :
         f[0] = first /\ \A i \in 1..n : f[i] = ApplyRow(f[i - 1], incoming[i])
  <2>1. \A i \in 1..n, state \in Loop : ApplyRow(state, incoming[i]) \in Loop
    BY RoundType
  <2>2. first \in Loop
    BY DEF TypeOK, Loop
  <2>3. \A i \in 1..n, state \in Loop : step[i][state] = ApplyRow(state, incoming[i])
    OBVIOUS
  <2>4. step \in [1..n -> [Loop -> Loop]]
    BY <2>1
  <2> HIDE DEF step, first
  <2>5. PICK f \in [0..n -> Loop] : Recurs(f, first, n, step)
    BY <2>2, <2>4, Recursion
  <2>6. \A i \in 1..n : f[i - 1] \in Loop
    OBVIOUS
  <2> QED
    BY <2>3, <2>5, <2>6 DEF Recurs
<1> HIDE DEF first
<1>4. Eq(f)
  <2>1. \A i \in 0..n : f[i] = IF i = 0 THEN first ELSE ApplyRow(f[i - 1], incoming[i])
    BY <1>3
  <2> QED
    BY <1>3, <2>1
<1>5. Eq(after)
  <2> HIDE DEF Eq
  <2> QED
    BY <1>4
<1> HIDE DEF after, top
<1>6. Rounds(incoming, n, after)
  <2>1. after[0] = first
    BY <1>5
  <2>2. \A i \in 1..n : after[i] = ApplyRow(after[i - 1], incoming[i])
    BY <1>5
  <2> QED
    BY <2>1, <2>2 DEF Rounds, first
<1>7. ResultsIn(incoming, n, after, top)
  BY <1>2, <1>6 DEF ResultsIn
<1> QED
  BY <1>7

\* One round, for a customer that was not there in the rounds before.
LEMMA OneRound ==
  ASSUME TypeOK, 1 <= asOf, CurrentInv(dim),
         NEW done \in SUBSET Staged, NEW c \in Staged, c \notin done,
         NEW state \in Loop, After(state, done)
  PROVE  After(ApplyRow(state, c), done \union {c})
<1> DEFINE next == done \union {c}
           current == {v \in state.rows : v.customer_id = c /\ v.is_current}
           new == Append(state.new, c)
           rows == {IF v \in current THEN Expired(v, asOf) ELSE v : v \in state.rows}
<1>1. /\ dim \in SUBSET Version /\ c \in Customers
      /\ state.rows = {Reached(v, done) : v \in dim}
      /\ state.new \in Seq(Customers) /\ ToSet(state.new) = done \intersect Need
  BY DEF TypeOK, Staged, After
<1>2. \A v \in dim :
        /\ Reached(v, done).customer_id = v.customer_id
        /\ v.customer_id = c => Reached(v, done) = v
  BY <1>1, ExpiredType DEF Reached
<1>3. \A v \in dim : v.customer_id # c => Reached(v, next) = Reached(v, done)
  BY DEF Reached
<1>4. \A v \in dim : v.customer_id = c =>
        Reached(v, next) = IF Expires(v) THEN Expired(v, asOf) ELSE v
  BY DEF Reached
<1>5. c \in Need <=> \A v \in dim : v.customer_id = c /\ v.is_current => Expires(v)
  BY <1>1, Needed DEF Need
<1>6. current = {v \in dim : v.customer_id = c /\ v.is_current}
  BY <1>1, <1>2
<1>7. \A v \in dim : v.customer_id = c =>
        (Expires(v) <=> v.is_current /\ v.record_hash # staged[c])
  BY DEF Expires
<1>8. ApplyRow(state, c) = IF current = {} THEN [state EXCEPT !.new = new]
                           ELSE IF \E v \in current : v.record_hash = staged[c] THEN state
                           ELSE [rows |-> rows, new |-> new]
  BY DEF ApplyRow
<1>9. /\ new \in Seq(Customers) /\ ToSet(new) = ToSet(state.new) \union {c}
  <2> DEFINE m == Len(state.new)
  <2>1. /\ new \in Seq(Customers) /\ Len(new) = m + 1 /\ m \in Nat
        /\ new[m + 1] = c /\ \A i \in 1..m : new[i] = state.new[i]
    BY <1>1, AppendProperties
  <2>2. DOMAIN new = 1..(m + 1) /\ DOMAIN state.new = 1..m
    BY <1>1, <2>1
  <2> HIDE DEF new, m
  <2>3. /\ \A i \in 1..(m + 1) : i \in 1..m \/ i = m + 1
        /\ \A i \in 1..m : i \in 1..(m + 1)
        /\ m + 1 \in 1..(m + 1)
    BY <2>1
  <2> QED
    BY <2>1, <2>2, <2>3 DEF ToSet
<1> HIDE DEF new
<1>10. ASSUME c \notin Need PROVE ToSet(state.new) = next \intersect Need
  BY <1>1, <1>10
<1>11. ASSUME c \in Need PROVE ToSet(new) = next \intersect Need
  BY <1>1, <1>9, <1>11
<1>12. CASE current = {}
  <2>1. \A v \in dim : Reached(v, next) = Reached(v, done)
    BY <1>2, <1>3, <1>4, <1>6, <1>7, <1>12
  <2>2. c \in Need
    BY <1>5, <1>6, <1>12
  <2>3. /\ ApplyRow(state, c).rows = state.rows
        /\ ApplyRow(state, c).new = new
    BY <1>8, <1>12 DEF Loop
  <2> QED
    BY <1>1, <1>9, <1>11, <2>1, <2>2, <2>3 DEF After
<1>13. CASE \E v \in current : v.record_hash = staged[c]
  <2>1. PICK v \in dim : /\ v.customer_id = c /\ v.is_current
                         /\ v.record_hash = staged[c]
    BY <1>6, <1>13
  <2>2. \A w \in dim : w.customer_id = c => ~Expires(w)
    BY <1>7, <2>1 DEF CurrentInv
  <2>3. \A w \in dim : Reached(w, next) = Reached(w, done)
    BY <1>2, <1>3, <1>4, <2>2
  <2>4. c \notin Need
    BY <1>5, <2>1, <2>2
  <2>5. ApplyRow(state, c) = state
    BY <1>6, <1>8, <2>1
  <2> QED
    BY <1>1, <1>10, <2>3, <2>4, <2>5 DEF After
<1>14. CASE current # {} /\ \A v \in current : v.record_hash # staged[c]
  <2>1. \A v \in dim : v.customer_id = c /\ v.is_current => Expires(v)
    BY <1>6, <1>7, <1>14
  <2>2. \A v \in dim :
          Reached(v, next) = IF Reached(v, done) \in current
                             THEN Expired(Reached(v, done), asOf) ELSE Reached(v, done)
    <3> TAKE v \in dim
    <3>1. CASE v.customer_id = c
      <4>1. Reached(v, done) = v /\ (v \in current <=> v.is_current)
        BY <1>2, <1>6, <3>1
      <4>2. v.is_current <=> Expires(v)
        BY <1>7, <2>1, <3>1
      <4> QED
        BY <1>4, <3>1, <4>1, <4>2
    <3>2. CASE v.customer_id # c
      <4>1. Reached(v, done) \notin current
        BY <1>2, <3>2
      <4> QED
        BY <1>3, <3>2, <4>1
    <3> QED
      BY <3>1, <3>2
  <2>3. c \in Need
    BY <1>5, <2>1
  <2>4. rows = {Reached(v, next) : v \in dim}
    <3> HIDE DEF current, next
    <3> QED
      BY <1>1, <2>2
  <2>5. ApplyRow(state, c).rows = rows /\ ApplyRow(state, c).new = new
    <3> HIDE DEF current, rows
    <3> QED
      BY <1>8, <1>14
  <2> QED
    BY <1>9, <1>11, <2>3, <2>4, <2>5 DEF After
<1> QED
  BY <1>12, <1>13, <1>14

\* All rounds: the loop leaves the rows that the UPDATE leaves, and has a
\* new row for the customers that the INSERT gives one.
LEMMA AllRounds ==
  ASSUME TypeOK, 1 <= asOf, CurrentInv(dim), NEW incoming \in SetToSeqs(Staged),
         NEW after, Rounds(incoming, Cardinality(Staged), after)
  PROVE  LET end == after[Cardinality(Staged)]
         IN  /\ end.rows = Updated
             /\ end.new \in Seq(Customers) /\ ToSet(end.new) = Need
<1> DEFINE n == Cardinality(Staged)
           Done(k) == {incoming[i] : i \in 1..k}
<1>1. IsFiniteSet(Staged) /\ Staged \subseteq Customers
  BY FS_Subset, ConstantsAssumption DEF Staged
<1>2. /\ n \in Nat /\ incoming \in [1..n -> Staged]
      /\ \A i, j \in 1..n : i # j => incoming[i] # incoming[j]
      /\ \A c \in Staged : \E i \in 1..n : incoming[i] = c
  BY <1>1, OrderLists
<1>3. /\ after[0] = [rows |-> dim, new |-> <<>>]
      /\ \A i \in 1..n : after[i] = ApplyRow(after[i - 1], incoming[i])
  BY DEF Rounds
<1> HIDE DEF n
<1> DEFINE S == {k \in Nat : k <= n => after[k] \in Loop /\ After(after[k], Done(k))}
<1>4. 0 \in S
  <2>1. after[0] \in Loop
    BY <1>3 DEF TypeOK, Loop
  <2>2. Done(0) = {}
    OBVIOUS
  <2>3. \A v \in dim : Reached(v, {}) = v
    BY DEF Reached
  <2>4. <<>> \in Seq(Customers) /\ ToSet(<<>>) = {}
    BY DEF ToSet
  <2>5. After(after[0], {})
    BY <1>3, <2>3, <2>4 DEF After
  <2> QED
    BY <2>1, <2>2, <2>5
<1>5. ASSUME NEW k \in Nat, k \in S PROVE k + 1 \in S
  <2>1. SUFFICES ASSUME k + 1 <= n
                 PROVE  after[k + 1] \in Loop /\ After(after[k + 1], Done(k + 1))
    OBVIOUS
  <2> DEFINE c == incoming[k + 1]
  <2>2. k + 1 \in 1..n /\ k + 1 - 1 = k /\ k <= n /\ \A i \in 1..k : i \in 1..n /\ i # k + 1
    BY <1>2, <2>1
  <2>3. c \in Staged /\ c \in Customers /\ c \notin Done(k)
    BY <1>1, <1>2, <2>2
  <2>4. Done(k) \in SUBSET Staged
    BY <1>2, <2>2
  <2>5. Done(k + 1) = Done(k) \union {c}
    <3>1. /\ \A i \in 1..(k + 1) : i \in 1..k \/ i = k + 1
          /\ \A i \in 1..k : i \in 1..(k + 1)
          /\ k + 1 \in 1..(k + 1)
      OBVIOUS
    <3> QED
      BY <3>1
  <2>6. after[k] \in Loop /\ After(after[k], Done(k))
    BY <1>5, <2>2
  <2>7. after[k + 1] = ApplyRow(after[k], c)
    BY <1>3, <2>2
  <2> HIDE DEF c, Done, S
  <2> QED
    BY <2>3, <2>4, <2>5, <2>6, <2>7, OneRound, RoundType
<1>6. n \in S
  <2> HIDE DEF S
  <2> QED
    BY <1>2, <1>4, <1>5, NatSetInduction
<1>7. Done(n) = Staged
  BY <1>2
<1>8. After(after[n], Staged)
  <2>1. n <= n
    BY <1>2
  <2>2. After(after[n], Done(n))
    BY <1>6, <2>1
  <2> HIDE DEF Done
  <2> QED
    BY <1>7, <2>2
<1>9. \A v \in dim : Reached(v, Staged) = Update(v)
  BY DEF Reached, Update, Expires
<1>10. Need \subseteq Staged
  BY DEF Need, NeedVersion
<1> QED
  BY <1>8, <1>9, <1>10 DEF After, Updated, n

\* New versions, but for their surrogate keys.
Values(v) == <<v.customer_id, v.record_hash, v.effective_start_date,
               v.effective_end_date, v.is_current>>
NewBusiness == {<<c, staged[c], asOf, NoDate, TRUE>> : c \in Need}

\* What apply_scd2 makes of the dimension, whatever order it takes.
LEMMA PythonResult ==
  ASSUME TypeOK, 1 <= asOf, CurrentInv(dim), NEW incoming \in SetToSeqs(Staged)
  PROVE  Business(ApplyScd2(dim, incoming)) = Business(Updated) \union NewBusiness
<1> DEFINE n == Cardinality(Staged)
<1>1. n \in Nat /\ incoming \in [1..n -> Customers]
  <2>1. IsFiniteSet(Staged) /\ Staged \subseteq Customers
    BY FS_Subset, ConstantsAssumption DEF Staged
  <2>2. n \in Nat /\ incoming \in [1..n -> Staged]
    BY <2>1, OrderLists
  <2> QED
    BY <2>1, <2>2
<1> HIDE DEF n
<1>2. PICK after, top : ResultsIn(incoming, n, after, top)
  BY <1>1, PythonLoop
<1>3. /\ after[n].rows = Updated
      /\ after[n].new \in Seq(Customers) /\ ToSet(after[n].new) = Need
  BY <1>2, AllRounds DEF n, ResultsIn
<1> DEFINE new == after[n].new
           inserted == {NewVersion(new[i], top + i) : i \in DOMAIN new}
<1>4. Need = {new[i] : i \in DOMAIN new}
  BY <1>3 DEF ToSet
<1>5. ApplyScd2(dim, incoming) = Updated \union inserted
  BY <1>2, <1>3 DEF ResultsIn
<1> HIDE DEF new
<1>6. Business(inserted) = NewBusiness
  <2>1. \A i \in DOMAIN new :
          Values(NewVersion(new[i], top + i))
            = <<new[i], staged[new[i]], asOf, NoDate, TRUE>>
    BY DEF NewVersion, Values
  <2>2. Business(inserted) = {Values(NewVersion(new[i], top + i)) : i \in DOMAIN new}
    BY DEF Business, Values
  <2> HIDE DEF inserted
  <2> QED
    BY <1>4, <2>1, <2>2 DEF NewBusiness
<1> HIDE DEF inserted
<1> QED
  BY <1>5, <1>6 DEF Business

\* A transaction about to commit has done the UPDATE and the INSERT.
MirrorInv ==
  pc = "commit" => Business(work) = Business(Updated) \union NewBusiness

LEMMA MirrorStep == Inv /\ MirrorInv /\ [Next]_vars => MirrorInv'
<1> SUFFICES ASSUME Inv, MirrorInv, [Next]_vars, pc' = "commit"
             PROVE  Business(work)' = (Business(Updated) \union NewBusiness)'
  BY DEF MirrorInv
<1>1. ASSUME UNCHANGED <<dim, staged, asOf>>
      PROVE  Updated' = Updated /\ NewBusiness' = NewBusiness
  <2>1. Updated' = Updated
    BY <1>1 DEF Updated, Update, Expires, Expired, Staged
  <2>2. Need' = Need
    BY <1>1, <2>1 DEF Need, NeedVersion, Staged
  <2> QED
    BY <1>1, <2>1, <2>2 DEF NewBusiness
<1>2. CASE InsertCurrent
  <2> DEFINE need == NeedVersion(Updated)
             order == CHOOSE s \in SetToSeqs(need) : TRUE
             new == {NewVersion(order[i], nextSk + i - 1) : i \in DOMAIN order}
  <2>1. InTransaction /\ work = Updated /\ TypeOK
    BY <1>2 DEF Inv, TransactionInv, InTransaction, InsertCurrent
  <2>2. 1 <= asOf
    BY <2>1, TransactionRows
  <2>3. work' = Updated \union new /\ UNCHANGED <<dim, staged, asOf>>
    BY <1>2, <2>1 DEF InsertCurrent
  <2>4. Inserts(new, nextSk + Cardinality(need))
    BY <2>1, <2>2, InsertStatement
  <2> HIDE DEF new
  <2>5. Business(new) = NewBusiness
    <3>1. \A v \in new : /\ v.customer_id \in Need
                         /\ v.record_hash = staged[v.customer_id]
                         /\ v.effective_start_date = asOf
                         /\ v.effective_end_date = NoDate
                         /\ v.is_current = TRUE
      <4>1. \A v \in new : v.is_current \in BOOLEAN
        BY <2>4 DEF Inserts, Version
      <4> QED
        BY <2>4, <4>1 DEF Inserts, Need
    <3>2. \A c \in Need : \E v \in new : v.customer_id = c
      BY <2>4 DEF Inserts, Need
    <3> DEFINE made(c) == <<c, staged[c], asOf, NoDate, TRUE>>
    <3>3. \A v \in new : Values(v) = made(v.customer_id)
      BY <3>1 DEF Values
    <3>4. Business(new) = {Values(v) : v \in new}
      BY DEF Business, Values
    <3>5. \A v \in new : v.customer_id \in Need
      BY <3>1
    <3>6. NewBusiness = {made(c) : c \in Need}
      BY DEF NewBusiness
    <3> HIDE DEF made
    <3>7. \A x : x \in Business(new) <=> x \in NewBusiness
      BY <3>2, <3>3, <3>4, <3>5, <3>6
    <3> QED
      BY <3>7
  <2>6. Business(Updated \union new) = Business(Updated) \union Business(new)
    BY DEF Business
  <2>7. Business(work)' = Business(Updated) \union NewBusiness
    BY <2>3, <2>5, <2>6 DEF Business
  <2> QED
    BY <1>1, <2>3, <2>7 DEF Business
<1>3. CASE pc = "commit" /\ UNCHANGED <<dim, staged, asOf, work>>
  BY <1>1, <1>3 DEF MirrorInv, Business
<1>4. InsertCurrent \/ (pc = "commit" /\ UNCHANGED <<dim, staged, asOf, work>>)
  BY DEF Next, vars, taskVars, NewDay, Stage, Begin, ExpireChanged, Commit,
         CommitUnseen, Rollback, Retry
<1> QED
  BY <1>2, <1>3, <1>4

\* The two statements of the script do what the loop of apply_scd2 does, for
\* every batch and in whatever order the loop takes it.
THEOREM MirrorsPythonAlways == Spec => []MirrorsPython
<1>1. Init => MirrorInv
  BY DEF Init, MirrorInv
<1>2. Inv /\ MirrorInv => MirrorsPython
  <2> SUFFICES ASSUME Inv, MirrorInv, pc = "commit", NEW incoming \in SetToSeqs(Staged)
               PROVE  Business(work) = Business(ApplyScd2(dim, incoming))
    BY DEF MirrorsPython
  <2>1. 1 <= asOf /\ CurrentInv(dim) /\ TypeOK
    BY TransactionRows DEF Inv, InTransaction, RowsInv
  <2> QED
    BY <2>1, PythonResult DEF MirrorInv
<1> QED
  BY <1>1, <1>2, Invariance, MirrorStep, PTL DEF Spec

-----------------------------------------------------------------------------
(***************************************************************************)
(* The refinement of ProfileTable.                                         *)
(***************************************************************************)
\* A customer with a current version has its attributes.
Profiled(rows, profile) ==
  \A c \in Customers :
    /\ \A v \in rows : v.customer_id = c /\ v.is_current => profile[c] = v.record_hash
    /\ (\A v \in rows : v.customer_id = c => ~v.is_current) => profile[c] = NoHash

LEMMA ProfileOfRows == Inv => Profiled(dim, CurrentProfile)
<1> SUFFICES ASSUME Inv, NEW c \in Customers
             PROVE  /\ \A v \in dim : v.customer_id = c /\ v.is_current
                                        => CurrentProfile[c] = v.record_hash
                    /\ (\A v \in dim : v.customer_id = c => ~v.is_current)
                         => CurrentProfile[c] = NoHash
  BY DEF Profiled
<1> DEFINE chosen == CHOOSE v \in dim : v.customer_id = c /\ v.is_current
<1>1. CurrentProfile[c] = IF \E v \in dim : v.customer_id = c /\ v.is_current
                            THEN chosen.record_hash ELSE NoHash
  BY DEF CurrentProfile
<1>2. ASSUME NEW v \in dim, v.customer_id = c, v.is_current PROVE chosen = v
  <2>1. chosen \in dim /\ chosen.customer_id = c /\ chosen.is_current
    BY <1>2
  <2> HIDE DEF chosen
  <2> QED
    BY <1>2, <2>1 DEF Inv, RowsInv, CurrentInv
<1> HIDE DEF chosen
<1> QED
  BY <1>1, <1>2

\* The transaction leaves the current version of a customer that is not
\* staged.
LEMMA UnstagedKept ==
  ASSUME Inv, MirrorInv, pc = "commit", NEW c \in Customers, c \notin Staged, NEW h
  PROVE  (\E v \in dim : v.customer_id = c /\ v.is_current = TRUE /\ v.record_hash = h)
           <=> (\E w \in work : w.customer_id = c /\ w.is_current = TRUE /\ w.record_hash = h)
<1>1. Business(work) = Business(Updated) \union NewBusiness
  BY DEF MirrorInv
<1>2. /\ \A w \in work : \/ \E u \in Updated : Values(u) = Values(w)
                         \/ Values(w) \in NewBusiness
      /\ \A u \in Updated : \E w \in work : Values(w) = Values(u)
  <2>1. \A rows : Business(rows) = {Values(v) : v \in rows}
    BY DEF Business, Values
  <2>2. /\ Business(work) = {Values(v) : v \in work}
        /\ Business(Updated) = {Values(v) : v \in Updated}
    BY <2>1
  <2> QED
    BY <1>1, <2>2
<1>3. \A v, w : Values(v) = Values(w) => /\ v.customer_id = w.customer_id
                                         /\ v.is_current = w.is_current
                                         /\ v.record_hash = w.record_hash
  BY DEF Values
<1>4. \A v : Values(v) \in NewBusiness => v.customer_id # c
  <2>1. c \notin Need
    BY DEF Need, NeedVersion
  <2> QED
    BY <2>1 DEF Values, NewBusiness
<1>5. /\ \A v \in dim : v.customer_id = c => v \in Updated
      /\ \A u \in Updated : u.customer_id = c => u \in dim
  <2>1. TypeOK /\ 1 <= asOf
    BY TransactionRows DEF Inv, InTransaction
  <2>2. \A v \in dim : Update(v).customer_id = v.customer_id
                         /\ (~Expires(v) => Update(v) = v)
    BY <2>1, UpdateKeeps
  <2>3. \A v \in dim : v.customer_id = c => ~Expires(v)
    BY DEF Expires
  <2> HIDE DEF Update, Expires
  <2> QED
    BY <2>2, <2>3 DEF Updated
<1>6. ASSUME NEW v \in dim, v.customer_id = c, v.is_current = TRUE, v.record_hash = h
      PROVE  \E w \in work : w.customer_id = c /\ w.is_current = TRUE /\ w.record_hash = h
  <2>1. PICK w \in work : Values(w) = Values(v)
    BY <1>2, <1>5, <1>6
  <2> QED
    BY <1>3, <1>6, <2>1
<1>7. ASSUME NEW w \in work, w.customer_id = c, w.is_current = TRUE, w.record_hash = h
      PROVE  \E v \in dim : v.customer_id = c /\ v.is_current = TRUE /\ v.record_hash = h
  <2>1. PICK u \in Updated : Values(u) = Values(w)
    BY <1>2, <1>4, <1>7
  <2>2. u.customer_id = c /\ u.is_current = TRUE /\ u.record_hash = h
    BY <1>3, <1>7, <2>1
  <2> QED
    BY <1>5, <2>2
<1> QED
  BY <1>6, <1>7

\* The first COMMIT of a batch applies it to the table of profiles.
LEMMA CommitApplies ==
  Inv /\ MirrorInv /\ Inv' /\ (Commit \/ CommitUnseen) /\ ~committed => Table!Apply
<1>1. Inv' => Profiled(dim, CurrentProfile)'
  BY ProfileOfRows, PTL
<1> SUFFICES ASSUME Inv, MirrorInv, Inv', Commit \/ CommitUnseen, ~committed
             PROVE  Table!Apply
  OBVIOUS
<1>2. pc = "commit" /\ dim' = work /\ committed' = TRUE /\ staged' = staged
  BY DEF Commit, CommitUnseen
<1>3. Profiled(dim, CurrentProfile)
  BY ProfileOfRows
<1>4. \A c \in Customers :
        /\ \A v \in work : v.customer_id = c /\ v.is_current
                             => CurrentProfile'[c] = v.record_hash
        /\ (\A v \in work : v.customer_id = c => ~v.is_current)
             => CurrentProfile'[c] = NoHash
  BY <1>1, <1>2 DEF Profiled
<1>5. ASSUME NEW c \in Customers
      PROVE  CurrentProfile'[c] = IF staged[c] = NoHash THEN CurrentProfile[c] ELSE staged[c]
  <2>1. CASE staged[c] # NoHash
    <3>1. PICK v \in work : v.customer_id = c /\ v.is_current /\ v.record_hash = staged[c]
      BY <1>2, <2>1 DEF Inv, TransactionInv, Applied, Staged
    <3> QED
      BY <1>4, <2>1, <3>1
  <2>2. CASE staged[c] = NoHash
    <3>1. \A h : (\E v \in dim : v.customer_id = c /\ v.is_current = TRUE /\ v.record_hash = h)
                   <=> (\E w \in work : w.customer_id = c /\ w.is_current = TRUE
                                          /\ w.record_hash = h)
      <4>1. c \notin Staged
        BY <2>2 DEF Staged
      <4> QED
        BY <1>2, <4>1, UnstagedKept
    <3>2. \A v \in dim \union work : v.is_current \in BOOLEAN
      BY DEF Inv, TypeOK, Version
    <3>3. CASE \E v \in dim : v.customer_id = c /\ v.is_current
      <4>1. PICK v \in dim : v.customer_id = c /\ v.is_current = TRUE
        BY <3>2, <3>3
      <4>2. PICK w \in work : /\ w.customer_id = c /\ w.is_current = TRUE
                              /\ w.record_hash = v.record_hash
        BY <3>1, <4>1
      <4>3. CurrentProfile[c] = v.record_hash /\ CurrentProfile'[c] = w.record_hash
        BY <1>3, <1>4, <4>1, <4>2 DEF Profiled
      <4> QED
        BY <2>2, <4>2, <4>3
    <3>4. CASE \A v \in dim : v.customer_id = c => ~v.is_current
      <4>1. \A w \in work : w.customer_id = c => ~w.is_current
        BY <3>1, <3>2, <3>4
      <4>2. CurrentProfile[c] = NoHash /\ CurrentProfile'[c] = NoHash
        BY <1>3, <1>4, <3>4, <4>1 DEF Profiled
      <4> QED
        BY <2>2, <4>2
    <3> QED
      BY <3>3, <3>4
  <2> QED
    BY <2>1, <2>2
<1>6. CurrentProfile' = [c \in Customers |-> CurrentProfile'[c]]
  BY DEF CurrentProfile
<1> HIDE DEF CurrentProfile
<1>7. CurrentProfile' = [c \in Customers |-> IF staged[c] = NoHash THEN CurrentProfile[c]
                                             ELSE staged[c]]
  BY <1>5, <1>6
<1> QED
  BY <1>2, <1>7 DEF Table!Apply

\* Every other step receives a batch or leaves the table as it was.
LEMMA OtherStepOfTable ==
  ASSUME Inv, [Next]_vars
  PROVE  \/ Table!Receive
         \/ (Commit \/ CommitUnseen) /\ ~committed
         \/ UNCHANGED <<dim, staged, committed>>
<1>1. CASE Stage
  <2>1. staged' \in Table!Profiles
    BY <1>1 DEF Stage, Table!Profiles
  <2>2. CurrentProfile' = CurrentProfile /\ committed' = FALSE
    BY <1>1 DEF Stage, CurrentProfile
  <2> QED
    BY <2>1, <2>2 DEF Table!Receive
<1>2. CASE (Commit \/ CommitUnseen) /\ committed
  <2>1. pc = "commit" /\ dim' = work /\ committed' = TRUE /\ staged' = staged
    BY <1>2 DEF Commit, CommitUnseen
  <2>2. work = dim
    BY <1>2, <2>1 DEF Inv, AppliedInv, InTransaction
  <2>3. committed = TRUE
    BY <1>2 DEF Inv, TypeOK
  <2> QED
    BY <2>1, <2>2, <2>3
<1>3. CASE NewDay \/ Begin \/ ExpireChanged \/ InsertCurrent \/ Rollback \/ UNCHANGED vars
  BY <1>3 DEF NewDay, Begin, ExpireChanged, InsertCurrent, Rollback, vars, taskVars
<1> QED
  BY <1>1, <1>2, <1>3 DEF Next

\* Those who join on is_current see each batch all at once and once, whatever
\* fails and is retried (the transaction of the script).
THEOREM ProfileTableImplemented == Spec => ImplementsProfileTable
<1>1. Init => Table!Init
  <2> SUFFICES ASSUME Init PROVE Table!Init
    OBVIOUS
  <2>1. CurrentProfile = Table!Empty
    BY DEF Init, CurrentProfile, Table!Empty
  <2>2. staged = Table!Empty /\ committed = FALSE
    BY DEF Init, Table!Empty
  <2> QED
    BY <2>1, <2>2 DEF Table!Init
<1>2. Inv /\ MirrorInv /\ Inv' /\ [Next]_vars => [Table!Next]_(Table!vars)
  <2> SUFFICES ASSUME Inv, MirrorInv, Inv', [Next]_vars PROVE [Table!Next]_(Table!vars)
    OBVIOUS
  <2>1. CASE UNCHANGED <<dim, staged, committed>>
    BY <2>1 DEF Table!vars, CurrentProfile
  <2> QED
    BY <2>1, OtherStepOfTable, CommitApplies DEF Table!Next
<1>3. Init => MirrorInv
  BY DEF Init, MirrorInv
<1> QED
  BY <1>1, <1>2, <1>3, Invariance, MirrorStep, PTL
  DEF Spec, ImplementsProfileTable, Table!Spec
=============================================================================
