-------------------------- MODULE CdcMerge_proofs --------------------------
(***************************************************************************)
(* Proofs about the change data capture: what the frames of the merge hold *)
(* after each of its loops, which event the deduplication keeps, the       *)
(* inductive invariant, and the refinement of a replica.                   *)
(***************************************************************************)
EXTENDS CdcMerge, SequenceLemmas, FiniteSetTheorems

\* A frame with at most one row per key.
Unique(rows) == \A i, j \in DOMAIN rows : rows[i].key = rows[j].key => i = j
Table(rows) == rows \in Seq(Row) /\ Unique(rows)

\* The rows of a frame that the first n changes leave alone, and the changes.
Replaced(old, changes, n) ==
  {row \in ToSet(old) : \A m \in 1..n : changes[m].key # row.key}
    \union {changes[m] : m \in 1..n}

(***************************************************************************)
(* The inductive invariant.                                                *)
(***************************************************************************)
\* The log is numbered, its clock does not go back, and a row that was
\* deleted has no value.
LogInv ==
  \A i \in 1..Len(log) :
    /\ log[i].at = i
    /\ log[i].operation = "D" <=> log[i].value = Absent
    /\ \A j \in 1..i : log[j].change_timestamp <= log[i].change_timestamp

\* What is committed is in the target, and what is in the target happened.
PositionInv ==
  /\ cursor <= shown /\ shown <= Len(log)
  /\ pc = "merged" => upto <= shown

\* The rows of the target are those of the source at the position it shows.
CopyInv ==
  /\ Unique(target)
  /\ \A row \in Row :
       row \in ToSet(target) <=> row.value = StateAt(shown)[row.key]

Inv == TypeOK /\ LogInv /\ PositionInv /\ CopyInv

-----------------------------------------------------------------------------
(***************************************************************************)
(* Frames.                                                                 *)
(***************************************************************************)
LEMMA MembersOf ==
  ASSUME NEW rows \in Seq(Row)
  PROVE  /\ DOMAIN rows = 1..Len(rows) /\ Len(rows) \in Nat
         /\ ToSet(rows) = {rows[i] : i \in 1..Len(rows)}
         /\ ToSet(rows) \subseteq Row
         /\ KeysOf(rows) = {rows[i].key : i \in 1..Len(rows)}
         /\ \A row \in ToSet(rows) : row.key \in KeysOf(rows)
         /\ \A k \in KeysOf(rows) : \E row \in ToSet(rows) : row.key = k
<1>1. DOMAIN rows = 1..Len(rows) /\ Len(rows) \in Nat
  OBVIOUS
<1>2. ToSet(rows) = {rows[i] : i \in 1..Len(rows)}
  BY <1>1 DEF ToSet
<1>3. \A i \in 1..Len(rows) : rows[i] \in Row
  OBVIOUS
<1>4. KeysOf(rows) = {rows[i].key : i \in 1..Len(rows)}
  BY <1>1 DEF KeysOf
<1> QED
  BY <1>1, <1>2, <1>3, <1>4

\* A row added to a frame.
LEMMA AppendedRow ==
  ASSUME NEW rows \in Seq(Row), NEW row \in Row
  PROVE  /\ Append(rows, row) \in Seq(Row)
         /\ ToSet(Append(rows, row)) = ToSet(rows) \union {row}
         /\ Unique(rows) /\ row.key \notin KeysOf(rows) => Unique(Append(rows, row))
<1> DEFINE n == Len(rows)
           t == Append(rows, row)
<1>1. /\ t \in Seq(Row) /\ Len(t) = n + 1 /\ n \in Nat
      /\ t[n + 1] = row /\ \A i \in 1..n : t[i] = rows[i]
  BY AppendProperties
<1> HIDE DEF n, t
<1>2. DOMAIN t = 1..(n + 1) /\ DOMAIN rows = 1..n
  BY <1>1 DEF n
<1>3. ToSet(t) = ToSet(rows) \union {row}
  <2>1. \A i \in 1..(n + 1) : i \in 1..n \/ i = n + 1
    BY <1>1
  <2>2. \A i \in 1..n : i \in 1..(n + 1)
    BY <1>1
  <2>3. n + 1 \in 1..(n + 1)
    BY <1>1
  <2> QED
    BY <1>1, <1>2, <2>1, <2>2, <2>3 DEF ToSet
<1>4. ASSUME Unique(rows), row.key \notin KeysOf(rows) PROVE Unique(t)
  <2> SUFFICES ASSUME NEW i \in 1..(n + 1), NEW j \in 1..(n + 1), t[i].key = t[j].key
               PROVE  i = j
    BY <1>2 DEF Unique
  <2>1. \A k \in 1..n : t[k].key # row.key
    BY <1>1, <1>2, <1>4 DEF KeysOf
  <2>2. \A k \in 1..(n + 1) : k \in 1..n \/ k = n + 1
    BY <1>1
  <2>3. CASE i \in 1..n /\ j \in 1..n
    BY <1>1, <1>2, <1>4, <2>3 DEF Unique
  <2> QED
    BY <1>1, <2>1, <2>2, <2>3
<1> QED
  BY <1>1, <1>3, <1>4 DEF t

\* A loop over a frame.
LEMMA FrameRecursion ==
  ASSUME NEW first \in Seq(Row), NEW n \in Nat,
         NEW step \in [1..n -> [Seq(Row) -> Seq(Row)]]
  PROVE  \E f \in [0..n -> Seq(Row)] :
           f[0] = first /\ \A i \in 1..n : f[i] = step[i][f[i - 1]]
<1>1. \E f \in [0..n -> Seq(Row)] : Recurs(f, first, n, step)
  BY Recursion
<1> QED
  BY <1>1 DEF Recurs

\* kept holds what the filter of rows has kept after each of them.
Keeps(rows, keys, kept) ==
  /\ kept[0] = <<>>
  /\ \A i \in 1..Len(rows) :
       kept[i] = IF rows[i].key \in keys THEN kept[i - 1]
                 ELSE Append(kept[i - 1], rows[i])

\* The loop of Without.
LEMMA WithoutLoop ==
  ASSUME NEW rows \in Seq(Row), NEW keys
  PROVE  \E kept : Keeps(rows, keys, kept) /\ Without(rows, keys) = kept[Len(rows)]
<1> DEFINE n == Len(rows)
           Round(i, before) == IF rows[i].key \in keys THEN before
                               ELSE Append(before, rows[i])
           Eq(f) == f = [i \in 0..n |-> IF i = 0 THEN <<>>
                                        ELSE IF rows[i].key \in keys THEN f[i - 1]
                                        ELSE Append(f[i - 1], rows[i])]
           step == [i \in 1..n |-> [before \in Seq(Row) |-> Round(i, before)]]
           kept == CHOOSE f : Eq(f)
<1>1. Without(rows, keys) = kept[n]
  BY DEF Without
<1>2. \E f \in [0..n -> Seq(Row)] :
         f[0] = <<>> /\ \A i \in 1..n : f[i] = Round(i, f[i - 1])
  <2>1. <<>> \in Seq(Row) /\ n \in Nat
    OBVIOUS
  <2>2. \A i \in 1..n, before \in Seq(Row) : Round(i, before) \in Seq(Row)
    OBVIOUS
  <2>3. step \in [1..n -> [Seq(Row) -> Seq(Row)]]
    BY <2>2
  <2>4. \A i \in 1..n, before \in Seq(Row) : step[i][before] = Round(i, before)
    OBVIOUS
  <2> HIDE DEF step, Round, n
  <2>5. PICK f \in [0..n -> Seq(Row)] :
           f[0] = <<>> /\ \A i \in 1..n : f[i] = step[i][f[i - 1]]
    BY <2>1, <2>3, FrameRecursion
  <2>6. \A i \in 1..n : f[i - 1] \in Seq(Row)
    BY <2>1
  <2> QED
    BY <2>4, <2>5, <2>6
<1>3. \E f : Eq(f)
  <2>1. PICK f \in [0..n -> Seq(Row)] :
           f[0] = <<>> /\ \A i \in 1..n : f[i] = Round(i, f[i - 1])
    BY <1>2
  <2>2. \A i \in 0..n : i = 0 \/ i \in 1..n
    OBVIOUS
  <2>3. Eq(f)
    BY <2>1, <2>2
  <2> QED
    BY <2>3
<1>4. Eq(kept)
  <2> HIDE DEF Eq
  <2> QED
    BY <1>3
<1> HIDE DEF kept
<1>5. kept[0] = <<>> /\ \A i \in 1..n : kept[i] = Round(i, kept[i - 1])
  <2>1. n \in Nat /\ 0 \in 0..n /\ \A i \in 1..n : i \in 0..n /\ i # 0
    OBVIOUS
  <2> QED
    BY <1>4, <2>1
<1>6. Keeps(rows, keys, kept)
  BY <1>5 DEF Keeps
<1> QED
  BY <1>1, <1>6

\* Without takes the rows of the keys away and leaves the others as they are.
LEMMA WithoutRows ==
  ASSUME NEW rows \in Seq(Row), NEW keys
  PROVE  /\ Without(rows, keys) \in Seq(Row)
         /\ ToSet(Without(rows, keys)) = {row \in ToSet(rows) : row.key \notin keys}
         /\ Unique(rows) => Unique(Without(rows, keys))
<1> DEFINE n == Len(rows)
           Kept(i) == {row \in Row : row.key \notin keys
                                     /\ \E j \in 1..i : rows[j] = row}
<1>1. PICK kept : Keeps(rows, keys, kept) /\ Without(rows, keys) = kept[n]
  BY WithoutLoop
<1>2. /\ Without(rows, keys) = kept[n]
      /\ kept[0] = <<>>
      /\ \A i \in 1..n : kept[i] = IF rows[i].key \in keys THEN kept[i - 1]
                                   ELSE Append(kept[i - 1], rows[i])
  BY <1>1 DEF Keeps
<1> DEFINE S == {i \in Nat : i <= n =>
                   /\ kept[i] \in Seq(Row) /\ ToSet(kept[i]) = Kept(i)
                   /\ Unique(rows) => Unique(kept[i])}
<1>3. 0 \in S
  <2>1. <<>> \in Seq(Row) /\ DOMAIN <<>> = {}
    OBVIOUS
  <2>2. ToSet(<<>>) = {} /\ Unique(<<>>) /\ Kept(0) = {}
    BY <2>1 DEF ToSet, Unique
  <2> QED
    BY <1>2, <2>1, <2>2
<1>4. ASSUME NEW i \in Nat, i \in S PROVE i + 1 \in S
  <2>1. SUFFICES ASSUME i + 1 <= n
                 PROVE  /\ kept[i + 1] \in Seq(Row) /\ ToSet(kept[i + 1]) = Kept(i + 1)
                        /\ Unique(rows) => Unique(kept[i + 1])
    OBVIOUS
  <2> DEFINE row == rows[i + 1]
  <2>2. i + 1 \in 1..n /\ i + 1 - 1 = i /\ i <= n
    BY <2>1
  <2>3. /\ kept[i] \in Seq(Row) /\ ToSet(kept[i]) = Kept(i)
        /\ Unique(rows) => Unique(kept[i])
    BY <1>4, <2>2
  <2>4. row \in Row
    BY <2>2
  <2>5. kept[i + 1] = IF row.key \in keys THEN kept[i] ELSE Append(kept[i], row)
    BY <1>2, <2>2
  <2>6. Kept(i + 1) = Kept(i) \union (IF row.key \in keys THEN {} ELSE {row})
    <3>1. \A j \in 1..(i + 1) : j \in 1..i \/ j = i + 1
      OBVIOUS
    <3>2. \A j \in 1..i : j \in 1..(i + 1)
      OBVIOUS
    <3>3. i + 1 \in 1..(i + 1)
      OBVIOUS
    <3> QED
      BY <2>4, <3>1, <3>2, <3>3
  <2>7. CASE row.key \in keys
    BY <2>3, <2>5, <2>6, <2>7
  <2>8. CASE row.key \notin keys
    <3>1. Unique(rows) => row.key \notin KeysOf(kept[i])
      <4> SUFFICES ASSUME Unique(rows), row.key \in KeysOf(kept[i]) PROVE FALSE
        OBVIOUS
      <4>1. PICK other \in ToSet(kept[i]) : other.key = row.key
        BY <2>3, MembersOf
      <4>2. PICK j \in 1..i : rows[j] = other
        BY <2>3, <4>1
      <4>3. j \in DOMAIN rows /\ i + 1 \in DOMAIN rows /\ j # i + 1
        BY <2>2
      <4> QED
        BY <4>1, <4>2, <4>3 DEF Unique
    <3> HIDE DEF row
    <3> QED
      BY <2>3, <2>4, <2>5, <2>6, <2>8, <3>1, AppendedRow
  <2> QED
    BY <2>7, <2>8
<1>5. n \in Nat /\ n \in S
  <2>1. n \in Nat
    OBVIOUS
  <2> HIDE DEF S
  <2> QED
    BY <1>3, <1>4, <2>1, NatSetInduction
<1>6. Kept(n) = {row \in ToSet(rows) : row.key \notin keys}
  BY MembersOf
<1> HIDE DEF Kept
<1> QED
  BY <1>2, <1>5, <1>6
-----------------------------------------------------------------------------
(***************************************************************************)
(* The loops of the merge.                                                 *)
(***************************************************************************)
LEMMA RoundTypes ==
  ASSUME NEW existing, NEW rows \in Seq(Row), NEW row \in Row
  PROVE  /\ ReplaceRow(existing, rows, row) \in Seq(Row)
         /\ UpdateRow(existing, rows, row) \in Seq(Row)
<1>1. Without(rows, {row.key}) \in Seq(Row)
  BY WithoutRows
<1>2. /\ Append(rows, row) \in Seq(Row)
      /\ Append(Without(rows, {row.key}), row) \in Seq(Row)
  BY <1>1, AppendedRow
<1>3. ReplaceRow(existing, rows, row) \in Seq(Row)
  BY <1>2 DEF ReplaceRow
<1> QED
  BY <1>3 DEF UpdateRow

\* after holds the frame after each round of the loop over updates.
UpdatesLoop(rows, updates, after) ==
  /\ after[0] = rows
  /\ \A i \in 1..Len(updates) :
       after[i] = UpdateRow(KeysOf(rows), after[i - 1], updates[i])

LEMMA ApplyUpdatesLoop ==
  ASSUME NEW rows \in Seq(Row), NEW updates \in Seq(Row)
  PROVE  \E after : /\ UpdatesLoop(rows, updates, after)
                    /\ ApplyUpdates(rows, updates) = after[Len(updates)]
<1> DEFINE n == Len(updates)
           Round(i, before) == UpdateRow(KeysOf(rows), before, updates[i])
           Eq(f) == f = [i \in 0..n |-> IF i = 0 THEN rows ELSE Round(i, f[i - 1])]
           step == [i \in 1..n |-> [before \in Seq(Row) |-> Round(i, before)]]
           after == CHOOSE f : Eq(f)
<1>1. ApplyUpdates(rows, updates) = after[n]
  BY DEF ApplyUpdates
<1>2. PICK f \in [0..n -> Seq(Row)] :
         f[0] = rows /\ \A i \in 1..n : f[i] = Round(i, f[i - 1])
  <2>1. \A i \in 1..n, before \in Seq(Row) : Round(i, before) \in Seq(Row)
    BY RoundTypes
  <2>2. \A i \in 1..n, before \in Seq(Row) : step[i][before] = Round(i, before)
    OBVIOUS
  <2>3. step \in [1..n -> [Seq(Row) -> Seq(Row)]] /\ n \in Nat
    <3> HIDE DEF Round
    <3> QED
      BY <2>1
  <2> HIDE DEF step, Round, n
  <2>4. PICK f \in [0..n -> Seq(Row)] :
           f[0] = rows /\ \A i \in 1..n : f[i] = step[i][f[i - 1]]
    BY <2>3, FrameRecursion
  <2>5. \A i \in 1..n : f[i - 1] \in Seq(Row)
    BY <2>3
  <2> QED
    BY <2>2, <2>4, <2>5
<1> HIDE DEF Round
<1>3. Eq(f)
  <2>1. \A i \in 0..n : i = 0 \/ i \in 1..n
    OBVIOUS
  <2> QED
    BY <1>2, <2>1
<1>4. Eq(after)
  <2> HIDE DEF Eq
  <2> QED
    BY <1>3
<1> HIDE DEF after
<1>5. after[0] = rows /\ \A i \in 1..n : after[i] = Round(i, after[i - 1])
  <2>1. n \in Nat /\ 0 \in 0..n /\ \A i \in 1..n : i \in 0..n /\ i # 0
    OBVIOUS
  <2> QED
    BY <1>4, <2>1
<1>6. UpdatesLoop(rows, updates, after)
  BY <1>5 DEF UpdatesLoop, Round
<1> QED
  BY <1>1, <1>6

\* after holds the frame after each round of the loop over inserts.
InsertsLoop(rows, inserts, after) ==
  /\ after[0] = rows
  /\ \A i \in 1..Len(inserts) :
       after[i] = ReplaceRow(KeysOf(rows), after[i - 1], inserts[i])

LEMMA ApplyInsertsLoop ==
  ASSUME NEW rows \in Seq(Row), NEW inserts \in Seq(Row)
  PROVE  \E after : /\ InsertsLoop(rows, inserts, after)
                    /\ ApplyInserts(rows, inserts) = after[Len(inserts)]
<1> DEFINE n == Len(inserts)
           Round(i, before) == ReplaceRow(KeysOf(rows), before, inserts[i])
           Eq(f) == f = [i \in 0..n |-> IF i = 0 THEN rows ELSE Round(i, f[i - 1])]
           step == [i \in 1..n |-> [before \in Seq(Row) |-> Round(i, before)]]
           after == CHOOSE f : Eq(f)
<1>1. ApplyInserts(rows, inserts) = after[n]
  BY DEF ApplyInserts
<1>2. PICK f \in [0..n -> Seq(Row)] :
         f[0] = rows /\ \A i \in 1..n : f[i] = Round(i, f[i - 1])
  <2>1. \A i \in 1..n, before \in Seq(Row) : Round(i, before) \in Seq(Row)
    BY RoundTypes
  <2>2. \A i \in 1..n, before \in Seq(Row) : step[i][before] = Round(i, before)
    OBVIOUS
  <2>3. step \in [1..n -> [Seq(Row) -> Seq(Row)]] /\ n \in Nat
    <3> HIDE DEF Round
    <3> QED
      BY <2>1
  <2> HIDE DEF step, Round, n
  <2>4. PICK f \in [0..n -> Seq(Row)] :
           f[0] = rows /\ \A i \in 1..n : f[i] = step[i][f[i - 1]]
    BY <2>3, FrameRecursion
  <2>5. \A i \in 1..n : f[i - 1] \in Seq(Row)
    BY <2>3
  <2> QED
    BY <2>2, <2>4, <2>5
<1> HIDE DEF Round
<1>3. Eq(f)
  <2>1. \A i \in 0..n : i = 0 \/ i \in 1..n
    OBVIOUS
  <2> QED
    BY <1>2, <2>1
<1>4. Eq(after)
  <2> HIDE DEF Eq
  <2> QED
    BY <1>3
<1> HIDE DEF after
<1>5. after[0] = rows /\ \A i \in 1..n : after[i] = Round(i, after[i - 1])
  <2>1. n \in Nat /\ 0 \in 0..n /\ \A i \in 1..n : i \in 0..n /\ i # 0
    OBVIOUS
  <2> QED
    BY <1>4, <2>1
<1>6. InsertsLoop(rows, inserts, after)
  BY <1>5 DEF InsertsLoop, Round
<1> QED
  BY <1>1, <1>6

\* No two changes of one key.
Distinct(changes) ==
  \A i, j \in 1..Len(changes) : changes[i].key = changes[j].key => i = j

\* One more change.
LEMMA ReplacedNext ==
  ASSUME NEW old \in Seq(Row), NEW changes \in Seq(Row), Distinct(changes),
         NEW n \in Nat, n + 1 \in 1..Len(changes)
  PROVE  /\ Replaced(old, changes, n + 1) =
              {row \in Replaced(old, changes, n) : row.key # changes[n + 1].key}
                \union {changes[n + 1]}
         /\ changes[n + 1].key \notin KeysOf(old) =>
              \A row \in Replaced(old, changes, n) : row.key # changes[n + 1].key
<1> DEFINE c == changes[n + 1]
<1>1. \A m \in 1..n : m \in 1..Len(changes) /\ m # n + 1
  OBVIOUS
<1>2. \A m \in 1..n : changes[m].key # c.key
  BY <1>1 DEF Distinct
<1>3. 1..(n + 1) = 1..n \union {n + 1}
  OBVIOUS
<1>4. c.key \notin KeysOf(old) => \A row \in ToSet(old) : row.key # c.key
  BY MembersOf
<1>5. \A row : row \in Replaced(old, changes, n) <=>
         \/ row \in ToSet(old) /\ \A m \in 1..n : changes[m].key # row.key
         \/ \E m \in 1..n : row = changes[m]
  BY DEF Replaced
<1>6. \A row : row \in Replaced(old, changes, n + 1) <=>
         \/ row \in ToSet(old) /\ c.key # row.key
             /\ \A m \in 1..n : changes[m].key # row.key
         \/ \E m \in 1..n : row = changes[m]
         \/ row = c
  BY <1>3 DEF Replaced
<1> HIDE DEF c
<1>7. Replaced(old, changes, n + 1) =
        {row \in Replaced(old, changes, n) : row.key # c.key} \union {c}
  <2>1. \A row : row \in Replaced(old, changes, n + 1) <=>
           (row \in Replaced(old, changes, n) /\ row.key # c.key) \/ row = c
    BY <1>2, <1>5, <1>6
  <2> QED
    BY <2>1
<1>8. c.key \notin KeysOf(old) => \A row \in Replaced(old, changes, n) : row.key # c.key
  BY <1>2, <1>4, <1>5
<1> QED
  BY <1>7, <1>8 DEF c

\* A round of the loop over inserts.
LEMMA ReplaceRound ==
  ASSUME NEW old \in Seq(Row), NEW changes \in Seq(Row), Distinct(changes),
         NEW n \in Nat, n + 1 \in 1..Len(changes),
         NEW rows, Table(rows), ToSet(rows) = Replaced(old, changes, n)
  PROVE  LET new == ReplaceRow(KeysOf(old), rows, changes[n + 1])
         IN  Table(new) /\ ToSet(new) = Replaced(old, changes, n + 1)
<1> DEFINE c == changes[n + 1]
           new == ReplaceRow(KeysOf(old), rows, c)
           less == Without(rows, {c.key})
<1>1. c \in Row /\ rows \in Seq(Row) /\ Unique(rows)
  BY DEF Table
<1>2. /\ less \in Seq(Row) /\ Unique(less)
      /\ ToSet(less) = {row \in ToSet(rows) : row.key # c.key}
  <2>1. /\ less \in Seq(Row)
        /\ ToSet(less) = {row \in ToSet(rows) : row.key \notin {c.key}}
        /\ Unique(rows) => Unique(less)
    BY <1>1, WithoutRows
  <2> QED
    BY <1>1, <2>1
<1> HIDE DEF less, c
<1>3. /\ Replaced(old, changes, n + 1) =
           {row \in Replaced(old, changes, n) : row.key # c.key} \union {c}
      /\ c.key \notin KeysOf(old) =>
           \A row \in Replaced(old, changes, n) : row.key # c.key
  BY ReplacedNext DEF c
<1>4. CASE c.key \in KeysOf(old)
  <2>1. new = Append(less, c)
    BY <1>4 DEF ReplaceRow, less
  <2>2. c.key \notin KeysOf(less)
    BY <1>2, MembersOf
  <2>3. /\ Append(less, c) \in Seq(Row)
        /\ ToSet(Append(less, c)) = ToSet(less) \union {c}
        /\ Unique(Append(less, c))
    BY <1>1, <1>2, <2>2, AppendedRow
  <2> QED
    BY <1>2, <1>3, <2>1, <2>3 DEF Table, c
<1>5. CASE c.key \notin KeysOf(old)
  <2>1. new = Append(rows, c)
    BY <1>5 DEF ReplaceRow
  <2>2. c.key \notin KeysOf(rows)
    <3>1. \A row \in ToSet(rows) : row.key # c.key
      BY <1>3, <1>5
    <3>2. \A k \in KeysOf(rows) : \E row \in ToSet(rows) : row.key = k
      BY <1>1, MembersOf
    <3> QED
      BY <3>1, <3>2, Zenon
  <2>3. /\ Append(rows, c) \in Seq(Row)
        /\ ToSet(Append(rows, c)) = ToSet(rows) \union {c}
        /\ Unique(Append(rows, c))
    BY <1>1, <2>2, AppendedRow
  <2>4. {row \in Replaced(old, changes, n) : row.key # c.key} = Replaced(old, changes, n)
    BY <1>3, <1>5
  <2> QED
    BY <1>3, <2>1, <2>3, <2>4 DEF Table, c
<1> QED
  BY <1>4, <1>5

\* A round of the loop over updates: a row that is left is the change.
LEMMA UpdateRound ==
  ASSUME NEW old \in Seq(Row), NEW changes \in Seq(Row), Distinct(changes),
         NEW n \in Nat, n + 1 \in 1..Len(changes),
         NEW rows, Table(rows), ToSet(rows) = Replaced(old, changes, n)
  PROVE  LET new == UpdateRow(KeysOf(old), rows, changes[n + 1])
         IN  Table(new) /\ ToSet(new) = Replaced(old, changes, n + 1)
<1> DEFINE c == changes[n + 1]
           new == UpdateRow(KeysOf(old), rows, c)
<1>1. CASE c.key \in KeysOf(old) /\ c \in ToSet(rows)
  <2>1. new = rows
    BY <1>1 DEF UpdateRow
  <2>2. \A row \in ToSet(rows) : row.key = c.key => row = c
    <3>1. rows \in Seq(Row) /\ Unique(rows) /\ DOMAIN rows = 1..Len(rows)
      BY DEF Table
    <3>2. ToSet(rows) = {rows[i] : i \in DOMAIN rows}
      BY DEF ToSet
    <3> HIDE DEF c
    <3> QED
      BY <1>1, <3>1, <3>2 DEF Unique
  <2>3. Replaced(old, changes, n + 1) =
          {row \in Replaced(old, changes, n) : row.key # c.key} \union {c}
    BY ReplacedNext
  <2> HIDE DEF c
  <2>4. Replaced(old, changes, n + 1) = ToSet(rows)
    BY <1>1, <2>2, <2>3
  <2> QED
    BY <2>1, <2>4 DEF c
<1>2. CASE ~(c.key \in KeysOf(old) /\ c \in ToSet(rows))
  <2>1. new = ReplaceRow(KeysOf(old), rows, c)
    BY <1>2 DEF UpdateRow
  <2> QED
    BY <2>1, ReplaceRound
<1> QED
  BY <1>1, <1>2

LEMMA ReplacedNone ==
  ASSUME NEW old, NEW changes
  PROVE  Replaced(old, changes, 0) = ToSet(old)
BY DEF Replaced

LEMMA ApplyUpdatesRows ==
  ASSUME NEW rows, Table(rows), NEW updates \in Seq(Row), Distinct(updates)
  PROVE  /\ Table(ApplyUpdates(rows, updates))
         /\ ToSet(ApplyUpdates(rows, updates)) = Replaced(rows, updates, Len(updates))
<1>1. rows \in Seq(Row)
  BY DEF Table
<1>2. PICK after : /\ UpdatesLoop(rows, updates, after)
                   /\ ApplyUpdates(rows, updates) = after[Len(updates)]
  BY <1>1, ApplyUpdatesLoop
<1> DEFINE S == {i \in Nat : i <= Len(updates) =>
                   Table(after[i]) /\ ToSet(after[i]) = Replaced(rows, updates, i)}
<1>3. 0 \in S
  <2>1. after[0] = rows
    BY <1>2 DEF UpdatesLoop
  <2> QED
    BY <2>1, ReplacedNone
<1>4. ASSUME NEW i \in Nat, i \in S PROVE i + 1 \in S
  <2>1. SUFFICES ASSUME i + 1 <= Len(updates)
                 PROVE  /\ Table(after[i + 1])
                        /\ ToSet(after[i + 1]) = Replaced(rows, updates, i + 1)
    OBVIOUS
  <2>2. i + 1 \in 1..Len(updates) /\ i + 1 - 1 = i /\ i <= Len(updates)
    BY <2>1
  <2>3. Table(after[i]) /\ ToSet(after[i]) = Replaced(rows, updates, i)
    BY <1>4, <2>2
  <2>4. after[i + 1] = UpdateRow(KeysOf(rows), after[i], updates[i + 1])
    BY <1>2, <2>2 DEF UpdatesLoop
  <2> QED
    BY <1>1, <2>2, <2>3, <2>4, UpdateRound
<1>5. Len(updates) \in Nat /\ Len(updates) \in S
  <2>1. Len(updates) \in Nat
    OBVIOUS
  <2> HIDE DEF S
  <2> QED
    BY <1>3, <1>4, <2>1, NatSetInduction
<1> QED
  BY <1>2, <1>5

LEMMA ApplyInsertsRows ==
  ASSUME NEW rows, Table(rows), NEW inserts \in Seq(Row), Distinct(inserts)
  PROVE  /\ Table(ApplyInserts(rows, inserts))
         /\ ToSet(ApplyInserts(rows, inserts)) = Replaced(rows, inserts, Len(inserts))
<1>1. rows \in Seq(Row)
  BY DEF Table
<1>2. PICK after : /\ InsertsLoop(rows, inserts, after)
                   /\ ApplyInserts(rows, inserts) = after[Len(inserts)]
  BY <1>1, ApplyInsertsLoop
<1> DEFINE S == {i \in Nat : i <= Len(inserts) =>
                   Table(after[i]) /\ ToSet(after[i]) = Replaced(rows, inserts, i)}
<1>3. 0 \in S
  <2>1. after[0] = rows
    BY <1>2 DEF InsertsLoop
  <2> QED
    BY <2>1, ReplacedNone
<1>4. ASSUME NEW i \in Nat, i \in S PROVE i + 1 \in S
  <2>1. SUFFICES ASSUME i + 1 <= Len(inserts)
                 PROVE  /\ Table(after[i + 1])
                        /\ ToSet(after[i + 1]) = Replaced(rows, inserts, i + 1)
    OBVIOUS
  <2>2. i + 1 \in 1..Len(inserts) /\ i + 1 - 1 = i /\ i <= Len(inserts)
    BY <2>1
  <2>3. Table(after[i]) /\ ToSet(after[i]) = Replaced(rows, inserts, i)
    BY <1>4, <2>2
  <2>4. after[i + 1] = ReplaceRow(KeysOf(rows), after[i], inserts[i + 1])
    BY <1>2, <2>2 DEF InsertsLoop
  <2> QED
    BY <1>1, <2>2, <2>3, <2>4, ReplaceRound
<1>5. Len(inserts) \in Nat /\ Len(inserts) \in S
  <2>1. Len(inserts) \in Nat
    OBVIOUS
  <2> HIDE DEF S
  <2> QED
    BY <1>3, <1>4, <2>1, NatSetInduction
<1> QED
  BY <1>2, <1>5

\* What the merge leaves of a table.
LEMMA MergedRows ==
  ASSUME NEW rows, Table(rows), NEW inserts \in Seq(Row), Distinct(inserts),
         NEW updates \in Seq(Row), Distinct(updates), NEW deletes
  PROVE  LET merged == MergeUpsert(rows, inserts, updates, deletes) IN
         /\ Table(merged)
         /\ \A row : row \in ToSet(merged) <=>
              \/ \E i \in 1..Len(inserts) : row = inserts[i]
              \/ /\ \A i \in 1..Len(inserts) : inserts[i].key # row.key
                 /\ \/ \E i \in 1..Len(updates) : row = updates[i]
                    \/ /\ \A i \in 1..Len(updates) : updates[i].key # row.key
                       /\ row \in ToSet(rows) /\ row.key \notin KeysOf(deletes)
<1> DEFINE kept == Without(rows, KeysOf(deletes))
           updated == ApplyUpdates(kept, updates)
           merged == ApplyInserts(updated, inserts)
<1>1. MergeUpsert(rows, inserts, updates, deletes) = merged
  BY DEF MergeUpsert
<1>2. /\ Table(kept)
      /\ ToSet(kept) = {row \in ToSet(rows) : row.key \notin KeysOf(deletes)}
  BY WithoutRows DEF Table
<1> HIDE DEF kept
<1>3. /\ Table(updated)
      /\ ToSet(updated) = Replaced(kept, updates, Len(updates))
  BY <1>2, ApplyUpdatesRows
<1> HIDE DEF updated
<1>4. /\ Table(merged)
      /\ ToSet(merged) = Replaced(updated, inserts, Len(inserts))
  BY <1>3, ApplyInsertsRows
<1> HIDE DEF merged
<1>5. \A row : row \in ToSet(updated) <=>
        \/ \E i \in 1..Len(updates) : row = updates[i]
        \/ row \in ToSet(kept) /\ \A i \in 1..Len(updates) : updates[i].key # row.key
  BY <1>3 DEF Replaced
<1>6. \A row : row \in ToSet(merged) <=>
        \/ \E i \in 1..Len(inserts) : row = inserts[i]
        \/ row \in ToSet(updated) /\ \A i \in 1..Len(inserts) : inserts[i].key # row.key
  BY <1>4 DEF Replaced
<1>7. \A row : row \in ToSet(kept) <=>
        row \in ToSet(rows) /\ row.key \notin KeysOf(deletes)
  BY <1>2
<1> QED
  BY <1>1, <1>4, <1>5, <1>6, <1>7

-----------------------------------------------------------------------------
(***************************************************************************)
(* The deduplicated events.                                                *)
(***************************************************************************)
\* Events of the log.
Logged(events) == \A e \in events : \E a \in 1..Len(log) : e = log[a]

\* The rows of one operation list its events, each once.
LEMMA SortedLists ==
  ASSUME log \in Seq(Event), LogInv, NEW events, Logged(events), NEW op
  PROVE  LET chosen == {e \in events : e.operation = op}
             sorted == Sorted(events, op)
         IN  \E n \in Nat :
               /\ sorted \in [1..n -> chosen]
               /\ \A i, j \in 1..n : i # j => sorted[i] # sorted[j]
               /\ \A e \in chosen : \E i \in 1..n : sorted[i] = e
<1> DEFINE chosen == {e \in events : e.operation = op}
           T == {a \in 1..Len(log) : log[a] \in chosen}
           InOrder(s) == \A i, j \in DOMAIN s : i < j => s[i].at < s[j].at
           sorted == CHOOSE s \in SetToSeqs(chosen) : InOrder(s)
<1>1. Sorted(events, op) = sorted
  BY DEF Sorted
<1>2. PICK n \in Nat : \E f : Ascends(f, n, T)
  <2>1. Len(log) \in Nat /\ T \subseteq 1..Len(log)
    OBVIOUS
  <2> HIDE DEF T
  <2> QED
    BY <2>1, Ascending
<1>3. PICK f \in [1..n -> T] :
         /\ \A i, j \in 1..n : i < j => f[i] < f[j]
         /\ \A x \in T : \E i \in 1..n : f[i] = x
  BY <1>2 DEF Ascends
<1> DEFINE g == [i \in 1..n |-> log[f[i]]]
<1>4. \A i \in 1..n : f[i] \in 1..Len(log) /\ log[f[i]] \in chosen
  OBVIOUS
<1>5. \A i \in 1..n : g[i] = log[f[i]] /\ g[i].at = f[i]
  BY <1>4 DEF LogInv
<1>6. \A e \in chosen : \E i \in 1..n : g[i] = e
  <2> SUFFICES ASSUME NEW e \in chosen PROVE \E i \in 1..n : g[i] = e
    OBVIOUS
  <2>1. PICK a \in 1..Len(log) : e = log[a]
    BY DEF Logged
  <2>2. a \in T
    BY <2>1
  <2> QED
    BY <1>3, <2>1, <2>2
<1>7. g \in [1..n -> chosen]
  BY <1>4
<1> HIDE DEF g, T
<1>8. \A i, j \in 1..n : i # j => g[i] # g[j]
  <2> SUFFICES ASSUME NEW i \in 1..n, NEW j \in 1..n, i # j PROVE g[i] # g[j]
    OBVIOUS
  <2>1. f[i] \in Int /\ f[j] \in Int
    BY <1>4
  <2>2. i < j \/ j < i
    OBVIOUS
  <2>3. f[i] # f[j]
    BY <1>3, <2>1, <2>2
  <2> QED
    BY <1>5, <2>3
<1> HIDE DEF chosen
<1>9. Cardinality(chosen) = n /\ IsFiniteSet(chosen)
  <2>1. g \in Bijection(1..n, chosen)
    BY <1>6, <1>7, <1>8 DEF Bijection, Injection, Surjection, IsInjective
  <2>2. ExistsBijection(1..n, chosen)
    BY <2>1 DEF ExistsBijection
  <2> QED
    BY <2>2, FS_CountingElements, FS_NatBijection
<1>10. g \in SetToSeqs(chosen)
  BY <1>7, <1>8, <1>9 DEF SetToSeqs
<1>11. InOrder(g)
  <2>1. DOMAIN g = 1..n
    BY <1>7
  <2>2. ASSUME NEW i \in 1..n, NEW j \in 1..n, i < j PROVE g[i].at < g[j].at
    BY <1>3, <1>5, <2>2
  <2> QED
    BY <2>1, <2>2
<1>12. sorted \in SetToSeqs(chosen)
  <2> HIDE DEF InOrder
  <2> QED
    BY <1>10, <1>11
<1> HIDE DEF sorted
<1>13. /\ sorted \in [1..n -> chosen]
       /\ \A i, j \in 1..n : i # j => sorted[i] # sorted[j]
  BY <1>9, <1>12 DEF SetToSeqs
<1>14. \A e \in chosen : \E i \in 1..n : sorted[i] = e
  <2>1. sorted \in Injection(1..n, chosen)
    BY <1>13 DEF Injection, IsInjective
  <2>2. IsFiniteSet(1..n) /\ Cardinality(1..n) = Cardinality(chosen)
    BY <1>9, FS_Interval
  <2>3. sorted \in Surjection(1..n, chosen)
    BY <1>9, <2>1, <2>2, FS_Injection
  <2> QED
    BY <2>3 DEF Surjection
<1> QED
  BY <1>1, <1>13, <1>14 DEF chosen

\* One event per key.
OnePerKey(events) == \A e, f \in events : e.key = f.key => e = f
RowOf(e) == [key |-> e.key, value |-> e.value]

\* A frame that has a row for each event with one operation.
Shows(rows, events, op) ==
  /\ rows \in Seq(Row) /\ Distinct(rows)
  /\ \A row : (\E i \in 1..Len(rows) : row = rows[i])
              <=> \E e \in events : e.operation = op /\ row = RowOf(e)
  /\ \A k : (\A i \in 1..Len(rows) : rows[i].key # k)
            <=> \A e \in events : e.operation = op => e.key # k

LEMMA RowsOfEvents ==
  ASSUME log \in Seq(Event), LogInv, NEW events, Logged(events), OnePerKey(events),
         NEW op
  PROVE  /\ op # "D" => Shows(RowsWith(events, op), events, op)
         /\ \A k : k \in KeysOf(RowsWith(events, op))
                   <=> \E e \in events : e.operation = op /\ e.key = k
<1> DEFINE rows == RowsWith(events, op)
           chosen == {e \in events : e.operation = op}
           sorted == Sorted(events, op)
<1>1. PICK n \in Nat :
         /\ sorted \in [1..n -> chosen]
         /\ \A i, j \in 1..n : i # j => sorted[i] # sorted[j]
         /\ \A e \in chosen : \E i \in 1..n : sorted[i] = e
  BY SortedLists
<1> HIDE DEF sorted
<1>2. rows = [i \in 1..n |-> [key |-> sorted[i].key, value |-> sorted[i].value]]
  BY <1>1 DEF RowsWith, sorted
<1> HIDE DEF rows
<1>3. DOMAIN rows = 1..n /\ \A i \in 1..n : rows[i] = RowOf(sorted[i])
  BY <1>2 DEF RowOf
<1>4. \A i \in 1..n : sorted[i] \in chosen /\ rows[i].key = sorted[i].key
  BY <1>1, <1>3 DEF RowOf
<1>5. KeysOf(rows) = {e.key : e \in chosen}
  BY <1>1, <1>3, <1>4 DEF KeysOf
<1>6. ASSUME op # "D"
      PROVE  /\ rows \in Seq(Row) /\ Len(rows) = n
  <2>1. ASSUME NEW i \in 1..n PROVE RowOf(sorted[i]) \in Row
    <3>1. sorted[i] \in events /\ sorted[i].operation = op
      BY <1>4
    <3>2. PICK a \in 1..Len(log) : sorted[i] = log[a]
      BY <3>1 DEF Logged
    <3>3. log[a] \in Event /\ log[a].value # Absent
      BY <1>6, <3>1, <3>2 DEF LogInv
    <3> QED
      BY <3>2, <3>3 DEF Event, Row, RowOf
  <2>2. rows = [i \in 1..n |-> RowOf(sorted[i])]
    BY <1>2 DEF RowOf
  <2>3. rows \in [1..n -> Row]
    BY <2>1, <2>2
  <2> QED
    BY <2>3
<1>7. ASSUME op # "D" PROVE Distinct(rows)
  <2> SUFFICES ASSUME NEW i \in 1..n, NEW j \in 1..n, rows[i].key = rows[j].key
               PROVE  i = j
    BY <1>6, <1>7 DEF Distinct
  <2>1. sorted[i] \in events /\ sorted[j] \in events /\ sorted[i].key = sorted[j].key
    BY <1>4
  <2>2. sorted[i] = sorted[j]
    BY <2>1 DEF OnePerKey
  <2> QED
    BY <1>1, <2>2
<1>8. \A row : (\E i \in 1..n : row = rows[i])
             <=> \E e \in events : e.operation = op /\ row = RowOf(e)
  BY <1>1, <1>3, <1>4
<1>9. \A k : (\A i \in 1..n : rows[i].key # k)
           <=> \A e \in events : e.operation = op => e.key # k
  BY <1>1, <1>4
<1>10. op # "D" => Shows(rows, events, op)
  BY <1>6, <1>7, <1>8, <1>9 DEF Shows
<1> QED
  BY <1>5, <1>10 DEF rows

\* What a deduplicated batch makes of a table.
LEMMA MergedEvents ==
  ASSUME log \in Seq(Event), LogInv, NEW events, Logged(events), OnePerKey(events),
         NEW rows, Table(rows)
  PROVE  LET merged == MergeUpsert(rows, RowsWith(events, "I"),
                                   RowsWith(events, "U"), RowsWith(events, "D"))
         IN  /\ Table(merged)
             /\ \A row : row \in ToSet(merged) <=>
                  \/ \E e \in events : e.operation # "D" /\ row = RowOf(e)
                  \/ row \in ToSet(rows) /\ \A e \in events : e.key # row.key
<1> DEFINE inserts == RowsWith(events, "I")
           updates == RowsWith(events, "U")
           deletes == RowsWith(events, "D")
           merged == MergeUpsert(rows, inserts, updates, deletes)
<1>1. "I" # "D" /\ "U" # "D"
  OBVIOUS
<1>2. Shows(inserts, events, "I")
  BY <1>1, RowsOfEvents
<1>3. Shows(updates, events, "U")
  BY <1>1, RowsOfEvents
<1>4. \A k : k \in KeysOf(deletes) <=> \E e \in events : e.operation = "D" /\ e.key = k
  BY RowsOfEvents
<1> HIDE DEF inserts, updates, deletes
<1>5. /\ inserts \in Seq(Row) /\ Distinct(inserts)
      /\ updates \in Seq(Row) /\ Distinct(updates)
  BY <1>2, <1>3 DEF Shows
<1>6. /\ Table(merged)
      /\ \A row : row \in ToSet(merged) <=>
           \/ \E i \in 1..Len(inserts) : row = inserts[i]
           \/ /\ \A i \in 1..Len(inserts) : inserts[i].key # row.key
              /\ \/ \E i \in 1..Len(updates) : row = updates[i]
                 \/ /\ \A i \in 1..Len(updates) : updates[i].key # row.key
                    /\ row \in ToSet(rows) /\ row.key \notin KeysOf(deletes)
  BY <1>5, MergedRows
<1> HIDE DEF merged
<1>7. \A row : row \in ToSet(merged) <=>
        \/ \E e \in events : e.operation = "I" /\ row = RowOf(e)
        \/ /\ \A e \in events : e.operation = "I" => e.key # row.key
           /\ \/ \E e \in events : e.operation = "U" /\ row = RowOf(e)
              \/ /\ \A e \in events : e.operation = "U" => e.key # row.key
                 /\ row \in ToSet(rows)
                 /\ \A e \in events : e.operation = "D" => e.key # row.key
  <2>1. /\ \A row : (\E i \in 1..Len(inserts) : row = inserts[i])
                    <=> \E e \in events : e.operation = "I" /\ row = RowOf(e)
        /\ \A k : (\A i \in 1..Len(inserts) : inserts[i].key # k)
                  <=> \A e \in events : e.operation = "I" => e.key # k
    BY <1>2 DEF Shows
  <2>2. /\ \A row : (\E i \in 1..Len(updates) : row = updates[i])
                    <=> \E e \in events : e.operation = "U" /\ row = RowOf(e)
        /\ \A k : (\A i \in 1..Len(updates) : updates[i].key # k)
                  <=> \A e \in events : e.operation = "U" => e.key # k
    BY <1>3 DEF Shows
  <2>3. \A k : k \notin KeysOf(deletes)
              <=> \A e \in events : e.operation = "D" => e.key # k
    BY <1>4
  <2> TAKE row
  <2>4. /\ (\E i \in 1..Len(inserts) : row = inserts[i])
           <=> \E e \in events : e.operation = "I" /\ row = RowOf(e)
        /\ (\A i \in 1..Len(inserts) : inserts[i].key # row.key)
           <=> \A e \in events : e.operation = "I" => e.key # row.key
    BY <2>1, Zenon
  <2>5. /\ (\E i \in 1..Len(updates) : row = updates[i])
           <=> \E e \in events : e.operation = "U" /\ row = RowOf(e)
        /\ (\A i \in 1..Len(updates) : updates[i].key # row.key)
           <=> \A e \in events : e.operation = "U" => e.key # row.key
    BY <2>2, Zenon
  <2>6. row.key \notin KeysOf(deletes)
           <=> \A e \in events : e.operation = "D" => e.key # row.key
    BY <2>3, Zenon
  <2>7. row \in ToSet(merged) <=>
           \/ \E i \in 1..Len(inserts) : row = inserts[i]
           \/ /\ \A i \in 1..Len(inserts) : inserts[i].key # row.key
              /\ \/ \E i \in 1..Len(updates) : row = updates[i]
                 \/ /\ \A i \in 1..Len(updates) : updates[i].key # row.key
                    /\ row \in ToSet(rows) /\ row.key \notin KeysOf(deletes)
    BY <1>6, Zenon
  <2> QED
    BY <2>4, <2>5, <2>6, <2>7, Zenon
<1>8. \A e \in events : e.operation \in {"I", "U", "D"}
  <2>1. \A a \in 1..Len(log) : log[a] \in Event
    OBVIOUS
  <2>2. \A e \in Event : e.operation \in {"I", "U", "D"}
    BY DEF Event
  <2> QED
    BY <2>1, <2>2 DEF Logged
<1>9. \A e, f \in events : e.key = f.key => e.operation = f.operation
  BY DEF OnePerKey
<1>10. \A e : RowOf(e).key = e.key
  BY DEF RowOf
<1> QED
  <2>1. ASSUME NEW row
        PROVE  row \in ToSet(merged) <=>
                  \/ \E e \in events : e.operation # "D" /\ row = RowOf(e)
                  \/ row \in ToSet(rows) /\ \A e \in events : e.key # row.key
    BY <1>7, <1>8, <1>9, <1>10
  <2> QED
    BY <1>6, <2>1 DEF merged, inserts, updates, deletes

\* No later change of its key.
Newest(a) == \A b \in 1..Len(log) : log[b].key = log[a].key => b <= a
NewestSince(c) == {a \in 1..Len(log) : a > c /\ Newest(a)}

\* A delivery has the events of its window, and those of one clock tick in
\* their order.
LEMMA DeliveredEvents ==
  ASSUME log \in Seq(Event), NEW c \in 0..Len(log),
         NEW s \in Deliveries(SubSeq(log, c + 1, Len(log)))
  PROVE  \E n \in Nat :
           /\ DOMAIN s = 1..n
           /\ \A i \in 1..n : \E a \in 1..Len(log) : a > c /\ s[i] = log[a]
           /\ \A a \in 1..Len(log) : a > c => \E i \in 1..n : s[i] = log[a]
           /\ \A i, j \in 1..n :
                i < j /\ s[i].change_timestamp = s[j].change_timestamp
                  => s[i].at <= s[j].at
<1> DEFINE window == SubSeq(log, c + 1, Len(log))
           m == Len(log) - c
<1>1. /\ Len(log) \in Nat /\ m \in Nat /\ Len(window) = m /\ window \in Seq(Event)
      /\ \A i \in 1..m : window[i] = log[c + i]
  <2>1. \A i \in (c + 1)..Len(log) : log[i] \in Event
    OBVIOUS
  <2>2. Len(log) \in Nat /\ c + 1 \in Int /\ Len(log) \in Int
    OBVIOUS
  <2>3. /\ window \in Seq(Event)
        /\ Len(window) = IF c + 1 <= Len(log) THEN Len(log) - (c + 1) + 1 ELSE 0
        /\ \A i \in 1..(Len(log) - (c + 1) + 1) : window[i] = log[c + 1 + i - 1]
    BY <2>1, <2>2, SubSeqProperties
  <2> HIDE DEF window
  <2>4. Len(log) - (c + 1) + 1 = m /\ m \in Nat
    BY <2>2
  <2>5. Len(window) = m
    BY <2>2, <2>3
  <2>6. ASSUME NEW i \in 1..m PROVE window[i] = log[c + i]
    <3>1. c + 1 + i - 1 = c + i
      OBVIOUS
    <3>2. window[i] = log[c + 1 + i - 1]
      BY <2>3, <2>4
    <3> QED
      BY <3>1, <3>2
  <2> QED
    BY <2>2, <2>3, <2>4, <2>5, <2>6
<1> HIDE DEF window
<1>2. DOMAIN window = 1..m
  BY <1>1
<1>3. ToSet(window) = {window[i] : i \in 1..m}
  BY <1>2 DEF ToSet
<1>4. PICK n \in m..(m + MaxRepeats) : s \in [1..n -> ToSet(window)]
  BY <1>1 DEF Deliveries, window
<1>5. /\ ToSet(s) = ToSet(window)
      /\ \A i, j \in DOMAIN s :
           i < j /\ s[i].change_timestamp = s[j].change_timestamp => s[i].at <= s[j].at
  BY DEF Deliveries, window
<1>6. n \in Nat /\ DOMAIN s = 1..n
  BY <1>1, <1>4, ConstantsAssumption
<1>7. ASSUME NEW i \in 1..n PROVE \E a \in 1..Len(log) : a > c /\ s[i] = log[a]
  <2>1. PICK j \in 1..m : s[i] = window[j]
    BY <1>3, <1>4
  <2>2. c + j \in 1..Len(log) /\ c + j > c /\ s[i] = log[c + j]
    BY <1>1, <2>1
  <2> QED
    BY <2>2
<1>8. ASSUME NEW a \in 1..Len(log), a > c PROVE \E i \in 1..n : s[i] = log[a]
  <2>1. a - c \in 1..m /\ c + (a - c) = a
    BY <1>1, <1>8
  <2>2. log[a] \in ToSet(s)
    BY <1>1, <1>3, <1>5, <2>1
  <2> QED
    BY <1>6, <2>2 DEF ToSet
<1> QED
  BY <1>5, <1>6, <1>7, <1>8

\* Deduplication keeps the last change of each key in the window, in
\* whatever order and however often the feed delivers them.
LEMMA LatestOfDelivery ==
  ASSUME log \in Seq(Event), LogInv, NEW c \in 0..Len(log),
         NEW s \in Deliveries(SubSeq(log, c + 1, Len(log)))
  PROVE  Latest(s) = {log[a] : a \in NewestSince(c)}
<1>1. PICK n \in Nat :
         /\ DOMAIN s = 1..n
         /\ \A i \in 1..n : \E a \in 1..Len(log) : a > c /\ s[i] = log[a]
         /\ \A a \in 1..Len(log) : a > c => \E i \in 1..n : s[i] = log[a]
         /\ \A i, j \in 1..n :
              i < j /\ s[i].change_timestamp = s[j].change_timestamp
                => s[i].at <= s[j].at
  BY DeliveredEvents
<1>2. /\ \A a \in 1..Len(log) : log[a].at = a /\ log[a].change_timestamp \in Nat
      /\ \A a, b \in 1..Len(log) :
           b <= a => log[b].change_timestamp <= log[a].change_timestamp
  <2>1. \A a \in 1..Len(log) : log[a] \in Event
    OBVIOUS
  <2>2. \A e \in Event : e.change_timestamp \in Nat
    BY DEF Event
  <2> QED
    BY <2>1, <2>2 DEF LogInv
<1>3. ASSUME NEW a \in NewestSince(c) PROVE log[a] \in Latest(s)
  <2>1. a \in 1..Len(log) /\ a > c /\ Newest(a)
    BY DEF NewestSince
  <2> DEFINE T == {i \in 1..n : s[i] = log[a]}
  <2>2. PICK i \in T : \A j \in T : j <= i
    <3>1. T \subseteq 1..n /\ T # {}
      BY <1>1, <2>1
    <3> HIDE DEF T
    <3> QED
      BY <3>1, GreatestElement
  <2>3. i \in 1..n /\ s[i] = log[a]
    OBVIOUS
  <2>4. ASSUME NEW j \in 1..n, j # i, s[j].key = s[i].key PROVE SortsAfter(s, i, j)
    <3>1. PICK b \in 1..Len(log) : b > c /\ s[j] = log[b]
      BY <1>1
    <3>2. b <= a
      BY <2>1, <2>3, <2>4, <3>1 DEF Newest
    <3>3. s[j].change_timestamp <= s[i].change_timestamp
      BY <1>2, <2>1, <2>3, <3>1, <3>2
    <3>4. CASE s[j].change_timestamp = s[i].change_timestamp
      <4>1. SUFFICES ASSUME ~(i > j) PROVE FALSE
        BY <3>4 DEF SortsAfter
      <4>2. i < j
        BY <2>4, <4>1
      <4>3. s[i].at <= s[j].at
        BY <1>1, <2>3, <3>4, <4>2
      <4>4. a = b
        BY <1>2, <2>1, <2>3, <3>1, <3>2, <4>3
      <4>5. j \in T
        BY <3>1, <4>4
      <4> QED
        BY <2>2, <4>2, <4>5
    <3>5. CASE s[j].change_timestamp # s[i].change_timestamp
      BY <1>2, <2>1, <2>3, <3>1, <3>3, <3>5 DEF SortsAfter
    <3> QED
      BY <3>4, <3>5
  <2>5. s[i] \in Latest(s)
    BY <1>1, <2>3, <2>4 DEF Latest
  <2> QED
    BY <2>3, <2>5
<1>4. ASSUME NEW e \in Latest(s) PROVE \E a \in NewestSince(c) : e = log[a]
  <2>1. PICK i \in 1..n :
           /\ e = s[i]
           /\ \A j \in 1..n : j # i /\ s[j].key = s[i].key => SortsAfter(s, i, j)
    BY <1>1 DEF Latest
  <2>2. PICK a \in 1..Len(log) : a > c /\ s[i] = log[a]
    BY <1>1
  <2>3. ASSUME NEW b \in 1..Len(log), log[b].key = log[a].key, ~(b <= a) PROVE FALSE
    <3>1. b > c /\ a < b
      BY <2>2, <2>3
    <3>2. PICK j \in 1..n : s[j] = log[b]
      BY <1>1, <3>1
    <3>3. j # i
      BY <1>2, <2>2, <3>1, <3>2
    <3>4. SortsAfter(s, i, j)
      BY <2>1, <2>2, <2>3, <3>2, <3>3
    <3>5. s[i].change_timestamp <= s[j].change_timestamp
      BY <1>2, <2>2, <3>1, <3>2
    <3>6. s[i].change_timestamp = s[j].change_timestamp /\ j < i
      BY <1>2, <2>2, <3>2, <3>4, <3>5 DEF SortsAfter
    <3>7. s[j].at <= s[i].at
      BY <1>1, <3>6
    <3> QED
      BY <1>2, <2>2, <3>1, <3>2, <3>7
  <2>4. a \in NewestSince(c)
    BY <2>2, <2>3 DEF NewestSince, Newest
  <2> QED
    BY <2>1, <2>2, <2>4
<1> QED
  BY <1>3, <1>4

-----------------------------------------------------------------------------
(***************************************************************************)
(* The state of the source.                                                *)
(***************************************************************************)
LEMMA MaxIsGreatest ==
  ASSUME NEW n \in Nat, NEW T, T \subseteq 1..n, T # {}
  PROVE  Max(T) \in T /\ \A y \in T : y <= Max(T)
<1>1. PICK x \in T : \A y \in T : y <= x
  BY GreatestElement
<1>2. \A y \in T : x >= y
  <2>1. x \in Int /\ \A y \in T : y \in Int
    OBVIOUS
  <2> QED
    BY <1>1, <2>1
<1>3. Max(T) \in T /\ \A y \in T : Max(T) >= y
  BY <1>2 DEF Max
<1>4. \A y \in T : y \in Int
  OBVIOUS
<1>5. Max(T) \in Int
  BY <1>3, <1>4
<1> QED
  BY <1>3, <1>4, <1>5

\* The value of a key is that of its last change, if it has one.
LEMMA StateOfKey ==
  ASSUME log \in Seq(Event), NEW n \in 0..Len(log), NEW k \in Keys
  PROVE  \/ /\ \A i \in 1..n : log[i].key # k
            /\ StateAt(n)[k] = Absent
         \/ \E a \in 1..n :
              /\ log[a].key = k /\ StateAt(n)[k] = log[a].value
              /\ \A b \in 1..n : log[b].key = k => b <= a
<1> DEFINE changes == {i \in 1..n : log[i].key = k}
<1>1. StateAt(n)[k] = IF changes = {} THEN Absent ELSE log[Max(changes)].value
  BY DEF StateAt
<1>2. CASE changes = {}
  <2>1. \A i \in 1..n : log[i].key # k
    BY <1>2
  <2> QED
    BY <1>1, <1>2, <2>1
<1>3. CASE changes # {}
  <2>1. n \in Nat /\ changes \subseteq 1..n
    OBVIOUS
  <2>2. Max(changes) \in changes /\ \A b \in changes : b <= Max(changes)
    <3> HIDE DEF changes
    <3> QED
      BY <1>3, <2>1, MaxIsGreatest
  <2> DEFINE a == Max(changes)
  <2>3. StateAt(n)[k] = log[a].value
    BY <1>1, <1>3
  <2>4. \A b \in 1..n : log[b].key = k => b \in changes
    OBVIOUS
  <2>5. a \in 1..n /\ log[a].key = k
    BY <2>2
  <2> HIDE DEF a
  <2>6. \A b \in 1..n : log[b].key = k => b <= a
    BY <2>2, <2>4 DEF a
  <2> QED
    BY <2>3, <2>5, <2>6
<1> QED
  BY <1>2, <1>3

LEMMA StateType ==
  ASSUME log \in Seq(Event), NEW n \in 0..Len(log)
  PROVE  StateAt(n) \in [Keys -> Values \union {Absent}]
<1>1. \A k \in Keys : StateAt(n)[k] \in Values \union {Absent}
  <2> TAKE k \in Keys
  <2>1. \A a \in 1..n : log[a] \in Event
    OBVIOUS
  <2>2. \A e \in Event : e.value \in Values \union {Absent}
    BY DEF Event
  <2> QED
    BY <2>1, <2>2, StateOfKey
<1>2. StateAt(n) = [k \in Keys |-> StateAt(n)[k]]
  BY DEF StateAt
<1> HIDE DEF StateAt
<1> QED
  BY <1>1, <1>2

\* A key that does not change keeps its value.
LEMMA StateKept ==
  ASSUME log \in Seq(Event), NEW n \in 0..Len(log), NEW m \in 0..n, NEW k \in Keys,
         \A i \in 1..n : log[i].key = k => i <= m
  PROVE  StateAt(n)[k] = StateAt(m)[k]
<1>1. {i \in 1..n : log[i].key = k} = {i \in 1..m : log[i].key = k}
  OBVIOUS
<1> QED
  BY <1>1 DEF StateAt

\* A longer log does not change what was.
LEMMA PastKept ==
  ASSUME NEW e, log \in Seq(Event), e \in Event, log' = Append(log, e)
  PROVE  \A n \in 0..Len(log) : StateAt(n)' = StateAt(n)
<1>1. \A i \in 1..Len(log) : log'[i] = log[i]
  BY AppendProperties
<1> SUFFICES ASSUME NEW n \in 0..Len(log) PROVE StateAt(n)' = StateAt(n)
  OBVIOUS
<1>2. \A i \in 1..n : log'[i] = log[i] /\ i \in 1..Len(log)
  BY <1>1
<1>3. \A k \in Keys : {i \in 1..n : log'[i].key = k} = {i \in 1..n : log[i].key = k}
  BY <1>2
<1>4. \A k \in Keys :
        LET changes == {i \in 1..n : log[i].key = k}
        IN  changes # {} => log'[Max(changes)] = log[Max(changes)]
  <2> TAKE k \in Keys
  <2> DEFINE changes == {i \in 1..n : log[i].key = k}
  <2>1. n \in Nat /\ changes \subseteq 1..n
    OBVIOUS
  <2>2. ASSUME changes # {} PROVE Max(changes) \in 1..n
    <3> HIDE DEF changes
    <3> QED
      BY <2>1, <2>2, MaxIsGreatest
  <2> HIDE DEF changes
  <2>3. changes # {} => log'[Max(changes)] = log[Max(changes)]
    BY <1>2, <2>2
  <2> QED
    BY <2>3 DEF changes
<1> QED
  BY <1>3, <1>4 DEF StateAt

-----------------------------------------------------------------------------
(***************************************************************************)
(* The steps of the task keep the invariant.                               *)
(***************************************************************************)
\* After a merge the rows of the target are those of the source now.
LEMMA MergedIsNow ==
  ASSUME Inv, NEW s \in Deliveries(SubSeq(log, cursor + 1, Len(log)))
  PROVE  LET events == Latest(s)
             merged == MergeUpsert(target, RowsWith(events, "I"),
                                   RowsWith(events, "U"), RowsWith(events, "D"))
         IN  /\ Table(merged)
             /\ \A row \in Row :
                  row \in ToSet(merged) <=> row.value = StateAt(Len(log))[row.key]
<1> DEFINE events == Latest(s)
           merged == MergeUpsert(target, RowsWith(events, "I"),
                                 RowsWith(events, "U"), RowsWith(events, "D"))
           n == Len(log)
<1>1. /\ log \in Seq(Event) /\ LogInv /\ Table(target)
      /\ n \in Nat /\ shown \in 0..n /\ cursor \in 0..n /\ cursor <= shown
      /\ \A row \in Row :
           row \in ToSet(target) <=> row.value = StateAt(shown)[row.key]
  BY DEF Inv, TypeOK, PositionInv, CopyInv, Table
<1>2. events = {log[a] : a \in NewestSince(cursor)}
  BY <1>1, LatestOfDelivery
<1> HIDE DEF events
<1>3. Logged(events)
  BY <1>2 DEF Logged, NewestSince
<1>4. \A a, b \in NewestSince(cursor) : log[a].key = log[b].key => a = b
  BY DEF NewestSince, Newest
<1>5. OnePerKey(events)
  BY <1>2, <1>4 DEF OnePerKey
<1>6. /\ Table(merged)
      /\ \A row : row \in ToSet(merged) <=>
           \/ \E e \in events : e.operation # "D" /\ row = RowOf(e)
           \/ row \in ToSet(target) /\ \A e \in events : e.key # row.key
  BY <1>1, <1>3, <1>5, MergedEvents
<1> HIDE DEF merged
<1>7. ASSUME NEW row \in Row
      PROVE  row \in ToSet(merged) <=> row.value = StateAt(n)[row.key]
  <2> DEFINE k == row.key
  <2>1. k \in Keys /\ row.value \in Values /\ row.value # Absent
        /\ row = [key |-> k, value |-> row.value]
    BY ConstantsAssumption DEF Row
  <2> HIDE DEF k
  <2>2. ASSUME NEW a \in NewestSince(cursor), log[a].key = k
        PROVE  row \in ToSet(merged) <=> row.value = StateAt(n)[row.key]
    <3>1. a \in 1..n /\ Newest(a)
      BY DEF NewestSince
    <3>2. StateAt(n)[k] = log[a].value
      <4>1. n \in 0..Len(log)
        BY <1>1
      <4>2. \/ /\ \A i \in 1..n : log[i].key # k
               /\ StateAt(n)[k] = Absent
            \/ \E b \in 1..n :
                 /\ log[b].key = k /\ StateAt(n)[k] = log[b].value
                 /\ \A i \in 1..n : log[i].key = k => i <= b
        BY <1>1, <2>1, <4>1, StateOfKey
      <4>3. PICK b \in 1..n : /\ log[b].key = k /\ StateAt(n)[k] = log[b].value
                              /\ \A i \in 1..n : log[i].key = k => i <= b
        BY <2>2, <3>1, <4>2
      <4>4. a <= b /\ b <= a
        BY <2>2, <3>1, <4>3 DEF Newest
      <4>5. a = b
        BY <3>1, <4>4
      <4> QED
        BY <4>3, <4>5
    <3>3. \A e \in events : e.key = k => e = log[a]
      BY <1>2, <1>4, <2>2
    <3>4. log[a] \in events /\ (log[a].operation = "D" <=> log[a].value = Absent)
      BY <1>1, <1>2, <3>1 DEF LogInv
    <3>5. ~\A e \in events : e.key # row.key
      BY <2>2, <3>4 DEF k
    <3>6. \A e : row = RowOf(e) <=> k = e.key /\ row.value = e.value
      BY <2>1 DEF RowOf, k
    <3>7. (\E e \in events : e.operation # "D" /\ row = RowOf(e))
            <=> row.value = log[a].value
      BY <2>1, <2>2, <3>3, <3>4, <3>6
    <3> QED
      BY <1>6, <3>2, <3>5, <3>7 DEF k
  <2>3. ASSUME \A a \in NewestSince(cursor) : log[a].key # k
        PROVE  row \in ToSet(merged) <=> row.value = StateAt(n)[row.key]
    <3>1. \A i \in 1..n : log[i].key = k => i <= cursor
      <4> SUFFICES ASSUME NEW i \in 1..n, log[i].key = k, ~(i <= cursor) PROVE FALSE
        OBVIOUS
      <4> DEFINE T == {j \in 1..n : log[j].key = k}
      <4>1. PICK a \in T : \A j \in T : j <= a
        <5>1. T \subseteq 1..n /\ T # {}
          OBVIOUS
        <5> HIDE DEF T
        <5> QED
          BY <1>1, <5>1, GreatestElement
      <4>2. a \in 1..n /\ log[a].key = k /\ i <= a
        BY <4>1
      <4>3. a > cursor
        BY <1>1, <4>2
      <4>4. a \in NewestSince(cursor)
        BY <4>1, <4>2, <4>3 DEF NewestSince, Newest
      <4> QED
        BY <2>3, <4>2, <4>4
    <3>2. StateAt(n)[k] = StateAt(shown)[k]
      <4>1. \A i \in 1..n : log[i].key = k => i <= shown
        BY <1>1, <3>1
      <4>2. n \in 0..Len(log)
        BY <1>1
      <4> QED
        BY <1>1, <2>1, <4>1, <4>2, StateKept
    <3>3. \A e \in events : e.key # k
      BY <1>2, <2>3
    <3>4. \A e : row = RowOf(e) => k = e.key
      BY <2>1 DEF RowOf, k
    <3> QED
      BY <1>1, <1>6, <3>2, <3>3, <3>4 DEF k
  <2> QED
    BY <2>2, <2>3
<1> QED
  BY <1>6, <1>7 DEF merged, events

LEMMA InitInv == Init => Inv
<1> SUFFICES ASSUME Init PROVE Inv
  OBVIOUS
<1>1. /\ log = <<>> /\ target = <<>> /\ cursor = 0 /\ pc = "idle"
      /\ upto = 0 /\ shown = 0 /\ failures = 0
  BY DEF Init
<1>2. Len(log) = 0 /\ DOMAIN target = {} /\ log \in Seq(Event) /\ target \in Seq(Row)
  BY <1>1
<1>3. TypeOK
  BY <1>1, <1>2 DEF TypeOK
<1>4. LogInv /\ PositionInv
  BY <1>1, <1>2 DEF LogInv, PositionInv
<1>5. Unique(target) /\ ToSet(target) = {}
  BY <1>2 DEF Unique, ToSet
<1>6. ASSUME NEW row \in Row PROVE row.value # StateAt(shown)[row.key]
  <2>1. row.key \in Keys /\ row.value \in Values
    BY DEF Row
  <2>2. StateAt(shown)[row.key] = Absent
    <3>1. shown \in 0..Len(log) /\ \A i \in 1..shown : FALSE
      BY <1>1, <1>2
    <3> QED
      BY <1>2, <2>1, <3>1, StateOfKey
  <2> QED
    BY <2>1, <2>2, ConstantsAssumption
<1>7. CopyInv
  BY <1>5, <1>6 DEF CopyInv
<1> QED
  BY <1>3, <1>4, <1>7 DEF Inv

\* What a change appends.
LEMMA ChangeAppends ==
  ASSUME Inv, NEW k \in Keys, NEW op \in {"I", "U", "D"},
         NEW v \in Values \union {Absent}, Change(k, op, v)
  PROVE  \E e \in Event :
           /\ log' = Append(log, e)
           /\ e.at = Len(log) + 1
           /\ e.operation = "D" <=> e.value = Absent
           /\ \A i \in 1..Len(log) : log[i].change_timestamp <= e.change_timestamp
<1>1. log \in Seq(Event) /\ LogInv /\ Len(log) \in Nat
  BY DEF Inv, TypeOK
<1>2. op = "D" <=> v = Absent
  BY DEF Change
<1>3. \A i \in 1..Len(log) : log[i].change_timestamp \in Nat
  <2>1. \A i \in 1..Len(log) : log[i] \in Event
    BY <1>1
  <2> QED
    BY <2>1 DEF Event
<1>4. /\ LastTime \in Nat
      /\ \A i \in 1..Len(log) : log[i].change_timestamp <= LastTime
  <2>1. CASE log = <<>>
    BY <2>1 DEF LastTime
  <2>2. CASE log # <<>>
    <3>1. Len(log) \in 1..Len(log) /\ LastTime = log[Len(log)].change_timestamp
      BY <1>1, <2>2 DEF LastTime, Last
    <3> QED
      BY <1>1, <1>3, <3>1 DEF LogInv
  <2> QED
    BY <2>1, <2>2
<1>5. PICK t \in {LastTime, LastTime + 1} :
        log' = Append(log, [key |-> k, operation |-> op, value |-> v,
                            change_timestamp |-> t, at |-> Len(log) + 1])
  BY DEF Change
<1> DEFINE e == [key |-> k, operation |-> op, value |-> v,
                 change_timestamp |-> t, at |-> Len(log) + 1]
<1>6. t \in Nat /\ LastTime <= t
  BY <1>4
<1>7. e \in Event
  BY <1>1, <1>6 DEF Event
<1>8. /\ e.at = Len(log) + 1 /\ e.operation = op /\ e.value = v
      /\ e.change_timestamp = t
  OBVIOUS
<1> HIDE DEF e
<1>9. \A i \in 1..Len(log) : log[i].change_timestamp <= e.change_timestamp
  BY <1>3, <1>4, <1>6, <1>8
<1> QED
  BY <1>2, <1>5, <1>7, <1>8, <1>9 DEF e

LEMMA ChangeInv ==
  ASSUME Inv, NEW k \in Keys, NEW op \in {"I", "U", "D"},
         NEW v \in Values \union {Absent}, Change(k, op, v)
  PROVE  Inv'
<1>1. PICK e \in Event :
        /\ log' = Append(log, e)
        /\ e.at = Len(log) + 1
        /\ e.operation = "D" <=> e.value = Absent
        /\ \A i \in 1..Len(log) : log[i].change_timestamp <= e.change_timestamp
  BY ChangeAppends
<1>2. UNCHANGED <<target, cursor, pc, upto, shown, failures>>
  BY DEF Change
<1>3. log \in Seq(Event) /\ LogInv /\ Len(log) \in Nat
  BY DEF Inv, TypeOK
<1>4. /\ log' \in Seq(Event) /\ Len(log') = Len(log) + 1 /\ log'[Len(log) + 1] = e
      /\ \A i \in 1..Len(log) : log'[i] = log[i]
  BY <1>1, <1>3, AppendProperties
<1>5. TypeOK'
  BY <1>2, <1>4 DEF Inv, TypeOK
<1>6. LogInv'
  <2>1. e.change_timestamp \in Nat
    BY DEF Event
  <2>2. \A i \in 1..Len(log') : i \in 1..Len(log) \/ i = Len(log) + 1
    BY <1>3, <1>4
  <2>3. ASSUME NEW i \in 1..Len(log)
        PROVE  /\ log'[i].at = i
               /\ log'[i].operation = "D" <=> log'[i].value = Absent
               /\ \A j \in 1..i : log'[j].change_timestamp <= log'[i].change_timestamp
    <3>1. \A j \in 1..i : j \in 1..Len(log)
      BY <1>3
    <3> QED
      BY <1>3, <1>4, <3>1 DEF LogInv
  <2>4. \A j \in 1..(Len(log) + 1) :
          log'[j].change_timestamp <= log'[Len(log) + 1].change_timestamp
    BY <1>1, <1>3, <1>4, <2>1, <2>2
  <2> QED
    BY <1>1, <1>4, <2>2, <2>3, <2>4 DEF LogInv
<1>7. PositionInv'
  BY <1>2, <1>3, <1>4 DEF Inv, TypeOK, PositionInv
<1>8. CopyInv'
  <2>1. shown \in 0..Len(log)
    BY <1>3 DEF Inv, TypeOK, PositionInv
  <2>2. StateAt(shown)' = StateAt(shown)
    BY <1>1, <1>2, <1>3, <2>1, PastKept
  <2> QED
    BY <1>2, <2>2 DEF Inv, CopyInv, Unique
<1> QED
  BY <1>5, <1>6, <1>7, <1>8 DEF Inv

\* What a merge does, over the position it reaches.
LEMMA MergeReaches ==
  ASSUME Inv, MergeBatch
  PROVE  /\ Table(target')
         /\ \A row \in Row :
              row \in ToSet(target') <=> row.value = StateAt(Len(log))[row.key]
         /\ log' = log /\ shown' = Len(log) /\ upto' = Len(log) /\ pc' = "merged"
         /\ cursor' = cursor /\ failures' = failures
<1>1. PICK s \in Deliveries(SubSeq(log, cursor + 1, Len(log))) :
        target' = MergeUpsert(target, RowsWith(Latest(s), "I"),
                              RowsWith(Latest(s), "U"), RowsWith(Latest(s), "D"))
  BY DEF MergeBatch
<1>2. /\ Table(target')
      /\ \A row \in Row :
           row \in ToSet(target') <=> row.value = StateAt(Len(log))[row.key]
  BY <1>1, MergedIsNow
<1> QED
  BY <1>2 DEF MergeBatch

LEMMA MergeBatchInv == Inv /\ MergeBatch => Inv'
<1> SUFFICES ASSUME Inv, MergeBatch PROVE Inv'
  OBVIOUS
<1>1. /\ Table(target')
      /\ \A row \in Row :
           row \in ToSet(target') <=> row.value = StateAt(Len(log))[row.key]
      /\ log' = log /\ shown' = Len(log) /\ upto' = Len(log) /\ pc' = "merged"
      /\ cursor' = cursor /\ failures' = failures
  BY MergeReaches
<1>2. Len(log) \in Nat
  BY DEF Inv, TypeOK
<1>3. TypeOK'
  BY <1>1, <1>2 DEF Inv, TypeOK, Table
<1>4. LogInv'
  BY <1>1 DEF Inv, LogInv
<1>5. PositionInv'
  BY <1>1, <1>2 DEF Inv, TypeOK, PositionInv
<1>6. StateAt(shown)' = StateAt(Len(log))
  BY <1>1 DEF StateAt
<1>7. CopyInv'
  BY <1>1, <1>6 DEF CopyInv, Table, Unique
<1> QED
  BY <1>3, <1>4, <1>5, <1>7 DEF Inv

\* A step that leaves the log, the target and what it shows alone.
LEMMA CopyKept ==
  ASSUME Inv, UNCHANGED <<log, target, shown>>
  PROVE  LogInv' /\ CopyInv'
<1>1. StateAt(shown)' = StateAt(shown)
  BY DEF StateAt
<1> QED
  BY <1>1 DEF Inv, LogInv, CopyInv, Unique

LEMMA OtherStepInv ==
  ASSUME Inv, RejectBatch \/ Commit \/ Crash \/ UNCHANGED vars
  PROVE  Inv'
<1>1. UNCHANGED <<log, target, shown>>
  BY DEF RejectBatch, Commit, Crash, vars
<1>2. LogInv' /\ CopyInv'
  BY <1>1, CopyKept
<1>3. TypeOK' /\ PositionInv'
  BY DEF Inv, TypeOK, PositionInv, RejectBatch, Commit, Crash, vars
<1> QED
  BY <1>2, <1>3 DEF Inv

LEMMA StepInv == Inv /\ [Next]_vars => Inv'
BY ChangeInv, MergeBatchInv, OtherStepInv DEF Next

LEMMA Invariance == Spec => []Inv
BY InitInv, StepInv, PTL DEF Spec

-----------------------------------------------------------------------------
(***************************************************************************)
(* The theorems.                                                           *)
(***************************************************************************)
\* Every variable keeps its type: no column of the feed gets into a row of
\* the target (_strip_cdc_metadata).
THEOREM TypeCorrect == Spec => []TypeOK
<1>1. Inv => TypeOK
  BY DEF Inv
<1> QED
  BY <1>1, Invariance, PTL

\* The target has at most one row per key, after any redelivery
\* (merge_upsert).
THEOREM OneRowPerKeyAlways == Spec => []OneRowPerKey
<1>1. Inv => OneRowPerKey
  BY DEF Inv, CopyInv, Unique, OneRowPerKey
<1> QED
  BY <1>1, Invariance, PTL

\* A window that is merged again without newer changes leaves the same rows
\* (the rerun guarantee of merge.py).
THEOREM RerunIsIdempotentAlways == Spec => RerunIsIdempotent
<1>1. ASSUME Inv, MergeBatch, shown = Len(log) PROVE ToSet(target') = ToSet(target)
  <2>1. /\ Table(target')
        /\ \A row \in Row :
             row \in ToSet(target') <=> row.value = StateAt(Len(log))[row.key]
    BY <1>1, MergeReaches
  <2>2. ToSet(target') \subseteq Row /\ ToSet(target) \subseteq Row
    <3>1. target' \in Seq(Row) /\ target \in Seq(Row)
      BY <1>1, <2>1 DEF Table, Inv, TypeOK
    <3> QED
      BY <3>1, MembersOf
  <2>3. \A row \in Row : row \in ToSet(target') <=> row \in ToSet(target)
    BY <1>1, <2>1 DEF Inv, CopyInv
  <2> QED
    BY <2>2, <2>3
<1>2. Inv /\ [Next]_vars
        => [MergeBatch /\ shown = Len(log) => ToSet(target') = ToSet(target)]_vars
  BY <1>1
<1> QED
  BY <1>2, Invariance, PTL DEF Spec, RerunIsIdempotent

\* The target holds the source as it was at the position it shows.
LEMMA ContentsAreState == Inv => Contents = StateAt(shown)
<1> SUFFICES ASSUME Inv PROVE Contents = StateAt(shown)
  OBVIOUS
<1>1. /\ log \in Seq(Event) /\ target \in Seq(Row) /\ shown \in 0..Len(log)
      /\ \A row \in Row :
           row \in ToSet(target) <=> row.value = StateAt(shown)[row.key]
  BY DEF Inv, TypeOK, PositionInv, CopyInv
<1>2. StateAt(shown) \in [Keys -> Values \union {Absent}]
  BY <1>1, StateType
<1>3. /\ ToSet(target) \subseteq Row
      /\ \A k \in KeysOf(target) : \E row \in ToSet(target) : row.key = k
      /\ \A row \in ToSet(target) : row.key \in KeysOf(target)
  BY <1>1, MembersOf
<1>4. ASSUME NEW k \in Keys PROVE Contents[k] = StateAt(shown)[k]
  <2>1. CASE k \in KeysOf(target)
    <3> DEFINE chosen == CHOOSE row \in ToSet(target) : row.key = k
    <3>1. chosen \in ToSet(target) /\ chosen.key = k
      BY <1>3, <2>1
    <3>2. Contents[k] = chosen.value
      BY <2>1 DEF Contents
    <3> HIDE DEF chosen
    <3> QED
      BY <1>1, <1>3, <3>1, <3>2
  <2>2. CASE k \notin KeysOf(target)
    <3>1. Contents[k] = Absent
      BY <2>2 DEF Contents
    <3>2. ASSUME StateAt(shown)[k] \in Values PROVE FALSE
      <4> DEFINE row == [key |-> k, value |-> StateAt(shown)[k]]
      <4>1. row \in Row /\ row.key = k /\ row.value = StateAt(shown)[k]
        BY <3>2 DEF Row
      <4> HIDE DEF row
      <4>2. row \in ToSet(target)
        BY <1>1, <4>1
      <4> QED
        BY <1>3, <2>2, <4>1, <4>2
    <3> QED
      BY <1>2, <3>1, <3>2
  <2> QED
    BY <2>1, <2>2
<1>5. Contents = [k \in Keys |-> Contents[k]]
  BY DEF Contents
<1>6. StateAt(shown) = [k \in Keys |-> StateAt(shown)[k]]
  BY <1>2
<1> HIDE DEF Contents, StateAt
<1> QED
  BY <1>4, <1>5, <1>6

\* The history of the source, as the replica's specification sees it.
Past == [n \in 1..(Len(log) + 1) |-> StateAt(n - 1)]

\* A function over 1..n is a sequence, and the beginning of a longer one
\* that agrees with it.
LEMMA LongerSequence ==
  ASSUME NEW f, NEW g, NEW n \in Nat,
         f = [m \in 1..n |-> f[m]], g = [m \in 1..(n + 1) |-> g[m]],
         \A m \in 1..n : g[m] = f[m]
  PROVE  Len(g) = Len(f) + 1 /\ SubSeq(g, 1, Len(f)) = f
<1> DEFINE R == {g[m] : m \in 1..(n + 1)}
<1>1. \A m \in 1..n : m \in 1..(n + 1)
  OBVIOUS
<1>2. \A m \in 1..(n + 1) : g[m] \in R
  OBVIOUS
<1> HIDE DEF R
<1>3. f \in [1..n -> R] /\ g \in [1..(n + 1) -> R]
  BY <1>1, <1>2
<1>4. f \in Seq(R) /\ g \in Seq(R) /\ Len(f) = n /\ Len(g) = n + 1
  BY <1>3
<1> DEFINE t == SubSeq(g, 1, n)
<1>5. t \in Seq(R) /\ Len(t) = n /\ \A i \in 1..n : t[i] = g[i]
  <2>1. \A i \in 1..n : g[i] \in R
    BY <1>1, <1>2
  <2>2. 1 \in Int /\ n \in Int
    OBVIOUS
  <2>3. /\ t \in Seq(R) /\ Len(t) = IF 1 <= n THEN n - 1 + 1 ELSE 0
        /\ \A i \in 1..(n - 1 + 1) : t[i] = g[1 + i - 1]
    BY ONLY <2>1, <2>2, SubSeqProperties
  <2> HIDE DEF t
  <2>4. n - 1 + 1 = n /\ Len(t) = n
    BY <2>3
  <2>5. ASSUME NEW i \in 1..n PROVE t[i] = g[i]
    <3>1. 1 + i - 1 = i
      OBVIOUS
    <3> QED
      BY <2>3, <2>4, <3>1
  <2> QED
    BY <2>3, <2>4, <2>5
<1> HIDE DEF t
<1>6. t = f
  BY <1>4, <1>5, SeqEqual
<1> QED
  BY <1>4, <1>6 DEF t

\* A change of the source is one of the replica's source.
LEMMA ChangeIsChange ==
  ASSUME Inv, NEW k \in Keys, NEW op \in {"I", "U", "D"},
         NEW v \in Values \union {Absent}, Change(k, op, v)
  PROVE  Copy!Change
<1>1. PICK e \in Event : log' = Append(log, e)
  BY ChangeAppends
<1>2. log \in Seq(Event) /\ Len(log) \in Nat /\ Len(log') = Len(log) + 1
  BY <1>1, AppendProperties DEF Inv, TypeOK
<1>3. \A n \in 0..Len(log) : StateAt(n)' = StateAt(n)
  BY <1>1, <1>2, PastKept
<1>4. target' = target /\ shown' = shown
  BY DEF Change
<1>5. Contents' = Contents
  BY <1>4 DEF Contents, KeysOf
<1> DEFINE n == Len(log) + 1
<1>6. \A m \in 1..n : m - 1 \in 0..Len(log) /\ StateAt(m - 1)' = StateAt(m - 1)
  BY <1>2, <1>3
<1>7. /\ Past = [m \in 1..n |-> Past[m]] /\ Past' = [m \in 1..(n + 1) |-> Past'[m]]
      /\ \A m \in 1..n : Past'[m] = Past[m]
  BY <1>2, <1>6 DEF Past
<1>8. Len(Past') = Len(Past) + 1 /\ SubSeq(Past', 1, Len(Past)) = Past
  BY <1>2, <1>7, LongerSequence
<1> QED
  BY <1>4, <1>5, <1>8 DEF Copy!Change, Past

\* A merge brings the replica up to the present.
LEMMA MergeIsRefresh == Inv /\ MergeBatch /\ Inv' => Copy!Refresh
<1>1. Inv' => (Contents = StateAt(shown))'
  BY ContentsAreState, PTL
<1> SUFFICES ASSUME Inv, MergeBatch, Inv' PROVE Copy!Refresh
  OBVIOUS
<1>2. log' = log /\ shown' = Len(log)
  BY MergeReaches
<1>3. Len(log) \in Nat /\ shown \in Nat /\ shown <= Len(log)
  BY DEF Inv, TypeOK, PositionInv
<1>4. Contents' = StateAt(Len(log))
  <2>1. Contents' = StateAt(shown)'
    BY <1>1
  <2>2. StateAt(shown)' = StateAt(Len(log))
    BY <1>2 DEF StateAt
  <2> QED
    BY <2>1, <2>2
<1>5. Past' = Past
  BY <1>2 DEF Past, StateAt
<1>6. Len(Past) = Len(log) + 1 /\ Past[Len(log) + 1] = StateAt(Len(log))
  <2>1. \A n \in 1..(Len(log) + 1) : Past[n] = StateAt(n - 1)
    BY DEF Past
  <2>2. DOMAIN Past = 1..(Len(log) + 1)
    BY DEF Past
  <2>3. Len(log) + 1 \in 1..(Len(log) + 1) /\ Len(log) + 1 - 1 = Len(log)
    BY <1>3
  <2>4. Len(Past) = Len(log) + 1
    <3> DEFINE R == {StateAt(n - 1) : n \in 1..(Len(log) + 1)}
    <3>1. Past \in [1..(Len(log) + 1) -> R]
      BY DEF Past
    <3> HIDE DEF R, Past
    <3> QED
      BY <1>3, <3>1
  <2> QED
    BY <2>1, <2>3, <2>4
<1>7. /\ Len(log) + 1 \in (shown + 1)..Len(Past)
      /\ (shown + 1)' = Len(log) + 1
  BY <1>2, <1>3, <1>6
<1> HIDE DEF Past
<1>8. \E n \in (shown + 1)..Len(Past) : (shown + 1)' = n /\ Contents' = Past[n]
  BY <1>4, <1>6, <1>7
<1> QED
  BY <1>5, <1>8 DEF Copy!Refresh, Past

\* A step that writes neither the log nor the target leaves the replica.
LEMMA OtherIsStutter ==
  ASSUME UNCHANGED <<log, target, shown>>
  PROVE  UNCHANGED Copy!vars
<1>1. Contents' = Contents
  BY DEF Contents, KeysOf
<1>2. Past' = Past
  BY DEF Past, StateAt
<1>3. (shown + 1)' = shown + 1
  OBVIOUS
<1> QED
  BY <1>1, <1>2, <1>3 DEF Copy!vars, Past

\* The merge target is a replica of the source: it shows the source as it
\* was at some moment, and that moment never goes back, in whatever order
\* the feed delivers the events and whatever is delivered again.
THEOREM ReplicaImplemented == Spec => ImplementsReplica
<1>1. Init => Copy!Init
  <2> SUFFICES ASSUME Init PROVE Copy!Init
    OBVIOUS
  <2>1. log = <<>> /\ shown = 0 /\ Len(log) = 0 /\ Inv
    BY InitInv DEF Init
  <2>2. StateAt(0) = Blank
    BY <2>1 DEF StateAt, Blank
  <2>3. Contents = Blank
    BY <2>1, <2>2, ContentsAreState
  <2>4. Past = <<Blank>>
    <3>1. Past = [n \in 1..1 |-> StateAt(n - 1)]
      BY <2>1 DEF Past
    <3>2. \A n \in 1..1 : StateAt(n - 1) = Blank
      BY <2>2
    <3> QED
      BY <3>1, <3>2
  <2>5. shown + 1 = 1
    BY <2>1
  <2> QED
    BY <2>3, <2>4, <2>5 DEF Copy!Init, Past
<1>2. Inv /\ Inv' /\ [Next]_vars => [Copy!Next]_(Copy!vars)
  <2> SUFFICES ASSUME Inv, Inv', [Next]_vars PROVE [Copy!Next]_(Copy!vars)
    OBVIOUS
  <2>1. ASSUME NEW k \in Keys, NEW op \in {"I", "U", "D"},
               NEW v \in Values \union {Absent}, Change(k, op, v)
        PROVE  Copy!Next
    BY <2>1, ChangeIsChange DEF Copy!Next
  <2>2. CASE MergeBatch
    BY <2>2, MergeIsRefresh DEF Copy!Next
  <2>3. CASE RejectBatch \/ Commit \/ Crash \/ UNCHANGED vars
    <3>1. UNCHANGED <<log, target, shown>>
      BY <2>3 DEF RejectBatch, Commit, Crash, vars
    <3> QED
      BY <3>1, OtherIsStutter
  <2> QED
    BY <2>1, <2>2, <2>3 DEF Next
<1> QED
  BY <1>1, <1>2, Invariance, PTL DEF Spec, ImplementsReplica, Copy!Spec
=============================================================================
