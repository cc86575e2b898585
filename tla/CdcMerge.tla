------------------------------ MODULE CdcMerge ------------------------------
(***************************************************************************)
(* Change data capture: batches of change events of a source table are     *)
(* parsed (src/cdc/parser.py), deduplicated to one event per key           *)
(* (src/cdc/processor.py) and merged into a target (src/cdc/merge.py).     *)
(*                                                                         *)
(* A batch is the changes since the last committed position, in whatever   *)
(* order and with whatever repetitions the feed delivers them. The merged  *)
(* target is written before the position is committed, and the task may    *)
(* die in between, so that a batch is merged again, then together with     *)
(* the changes made since (docs/lld/06: a rerun must be safe).             *)
(***************************************************************************)
EXTENDS Integers, SequencesExt

CONSTANTS
  Keys,         \* business keys
  Values,       \* values of a row's attributes
  Absent,       \* the value of a key that the source does not hold
  MaxChanges,   \* bound: changes of the source
  MaxRepeats,   \* bound: events of a batch that are delivered twice
  MaxFailures   \* bound: rejected batches and killed tasks

ASSUME ConstantsAssumption ==
  /\ Absent \notin Values
  /\ MaxChanges \in Nat /\ MaxRepeats \in Nat /\ MaxFailures \in Nat

VARIABLES
  log,        \* the changes of the source, oldest first (external)
  target,     \* the rows of the target, a DataFrame
  cursor,     \* how much of the log is committed as processed
  pc,         \* "idle", or "merged": target written, position not committed
  upto,       \* the position the task in flight will commit
  shown,      \* history: the position of the log that the target reflects
  failures

vars == <<log, target, cursor, pc, upto, shown, failures>>

Event == [key: Keys, operation: {"I", "U", "D"}, value: Values \union {Absent},
          change_timestamp: Nat, at: Nat \ {0}]
Row == [key: Keys, value: Values]

(***************************************************************************)
(* The source: its state after the first n changes, and its log.           *)
(***************************************************************************)
Blank == [k \in Keys |-> Absent]
StateAt(n) ==
  [k \in Keys |->
     LET changes == {i \in 1..n : log[i].key = k} IN
     IF changes = {} THEN Absent ELSE log[Max(changes)].value]
Now == StateAt(Len(log))

LastTime == IF log = <<>> THEN 0 ELSE Last(log).change_timestamp

\* An INSERT, UPDATE or DELETE, maybe within the clock tick of the last one.
Change(k, op, v) ==
  /\ Len(log) < MaxChanges
  /\ CASE op = "I" -> Now[k] = Absent /\ v # Absent
       [] op = "U" -> Now[k] # Absent /\ v # Absent
       [] op = "D" -> Now[k] # Absent /\ v = Absent
  /\ \E t \in {LastTime, LastTime + 1} :
       log' = Append(log, [key |-> k, operation |-> op, value |-> v,
                           change_timestamp |-> t, at |-> Len(log) + 1])
  /\ UNCHANGED <<target, cursor, pc, upto, shown, failures>>

\* What the feed may deliver of a window of the log: every event of it, some
\* more than once, in any order in which events of one clock tick keep
\* theirs.
Deliveries(window) ==
  LET events == ToSet(window) IN
  {s \in UNION {[1..n -> events] : n \in Len(window)..(Len(window) + MaxRepeats)} :
     /\ ToSet(s) = events
     /\ \A i, j \in DOMAIN s :
          i < j /\ s[i].change_timestamp = s[j].change_timestamp
            => s[i].at <= s[j].at}

(***************************************************************************)
(* The code.                                                               *)
(***************************************************************************)
\* A sort by arrival.
ArrivesAfter(s, i, j) == i > j

\* Event i of a batch comes behind event j in the stable sort by
\* change_timestamp.
SortsAfter(s, i, j) ==
  \/ s[i].change_timestamp > s[j].change_timestamp
  \/ s[i].change_timestamp = s[j].change_timestamp /\ i > j

\* deduplicate_cdc_batch: of each key, the event that sorts last, whatever
\* its operation.
Latest(s) ==
  {s[i] : i \in {i \in DOMAIN s :
     \A j \in DOMAIN s : j # i /\ s[j].key = s[i].key => SortsAfter(s, i, j)}}

\* The events with one operation, in the order of the sort.
Sorted(events, op) ==
  CHOOSE s \in SetToSeqs({e \in events : e.operation = op}) :
    \A i, j \in DOMAIN s : i < j => s[i].at < s[j].at

\* Rows that keep the columns of the feed.
RowsUnstripped(events, op) == Sorted(events, op)

\* The rows of the deduplicated events with one operation, as a DataFrame.
RowsWith(events, op) ==
  LET sorted == Sorted(events, op)
  IN  [i \in DOMAIN sorted |-> [key |-> sorted[i].key, value |-> sorted[i].value]]

KeysOf(rows) == {rows[i].key : i \in DOMAIN rows}
Without(rows, keys) ==
  LET kept[n \in 0..Len(rows)] ==
        IF n = 0 THEN <<>>
        ELSE IF rows[n].key \in keys THEN kept[n - 1]
        ELSE Append(kept[n - 1], rows[n])
  IN  kept[Len(rows)]

\* An insert that does not take the old row of its key away.
AppendRow(existing, rows, row) == Append(rows, row)

\* One round of the loop over inserts: existing are the keys before it.
ReplaceRow(existing, rows, row) ==
  IF row.key \in existing THEN Append(Without(rows, {row.key}), row)
  ELSE Append(rows, row)

\* One round of the loop over updates leaves a row that has not changed.
UpdateRow(existing, rows, row) ==
  IF row.key \in existing /\ row \in ToSet(rows) THEN rows
  ELSE ReplaceRow(existing, rows, row)

ApplyUpdates(rows, updates) ==
  LET after[n \in 0..Len(updates)] ==
        IF n = 0 THEN rows
        ELSE UpdateRow(KeysOf(rows), after[n - 1], updates[n])
  IN  after[Len(updates)]

ApplyInserts(rows, inserts) ==
  LET after[n \in 0..Len(inserts)] ==
        IF n = 0 THEN rows
        ELSE ReplaceRow(KeysOf(rows), after[n - 1], inserts[n])
  IN  after[Len(inserts)]

\* merge_upsert: deletes, then updates, then inserts.
MergeUpsert(rows, inserts, updates, deletes) ==
  ApplyInserts(ApplyUpdates(Without(rows, KeysOf(deletes)), updates), inserts)

Init ==
  /\ log = <<>> /\ target = <<>>
  /\ cursor = 0 /\ pc = "idle" /\ upto = 0 /\ shown = 0
  /\ failures = 0

\* The task reads the changes since cursor, merges them and writes the
\* target.
MergeBatch ==
  /\ pc = "idle" /\ cursor < Len(log)
  /\ \E batch \in Deliveries(SubSeq(log, cursor + 1, Len(log))) :
       LET events == Latest(batch) IN
       target' = MergeUpsert(target, RowsWith(events, "I"),
                             RowsWith(events, "U"), RowsWith(events, "D"))
  /\ pc' = "merged"
  /\ upto' = Len(log)
  /\ shown' = Len(log)
  /\ UNCHANGED <<log, cursor, failures>>

\* parse_cdc_batch raises SchemaValidationError: an operation code that the
\* feed garbled. Nothing of the batch is processed.
RejectBatch ==
  /\ pc = "idle" /\ cursor < Len(log)
  /\ failures < MaxFailures
  /\ failures' = failures + 1
  /\ UNCHANGED <<log, target, cursor, pc, upto, shown>>

Commit ==
  /\ pc = "merged"
  /\ pc' = "idle"
  /\ cursor' = upto
  /\ upto' = 0
  /\ UNCHANGED <<log, target, shown, failures>>

\* The task dies with the target written and the position not.
Crash ==
  /\ pc = "merged"
  /\ failures < MaxFailures
  /\ failures' = failures + 1
  /\ pc' = "idle"
  /\ upto' = 0
  /\ UNCHANGED <<log, target, cursor, shown>>

Next ==
  \/ \E k \in Keys, op \in {"I", "U", "D"}, v \in Values \union {Absent} :
       Change(k, op, v)
  \/ MergeBatch \/ RejectBatch \/ Commit \/ Crash

Spec == Init /\ [][Next]_vars
-----------------------------------------------------------------------------
(***************************************************************************)
(* Properties.                                                             *)
(***************************************************************************)
\* Every variable has its type.
TypeOK ==
  /\ log \in Seq(Event) /\ target \in Seq(Row)
  /\ cursor \in Nat /\ upto \in Nat /\ shown \in Nat /\ failures \in Nat
  /\ pc \in {"idle", "merged"}

\* The target has at most one row per key, after reruns too.
OneRowPerKey ==
  \A i, j \in DOMAIN target : target[i].key = target[j].key => i = j

\* However the feed orders, repeats and redelivers them, the target is the
\* source as it was after some change, and never goes back to an earlier
\* one: the merge implements a replica of the source.
Contents ==
  [k \in Keys |-> IF k \in KeysOf(target)
                    THEN (CHOOSE row \in ToSet(target) : row.key = k).value
                    ELSE Absent]
Copy == INSTANCE Replica WITH
          past  <- [n \in 1..(Len(log) + 1) |-> StateAt(n - 1)],
          copy  <- Contents,
          shown <- shown + 1
ImplementsReplica == Copy!Spec

\* Merging a window again without newer changes leaves the same rows.
RerunIsIdempotent ==
  [][MergeBatch /\ shown = Len(log) => ToSet(target') = ToSet(target)]_vars
=============================================================================
