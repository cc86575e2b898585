--------------------------- MODULE StreamIngestion ---------------------------
(***************************************************************************)
(* One event stream: producers append lines to its file                    *)
(* (streaming/producers/*.py, LocalKinesisStream.put_record), a consumer   *)
(* takes batches off it, validates them and writes them to the raw and the *)
(* quarantine prefix (streaming/consumers/event_consumer.py).              *)
(*                                                                         *)
(* A stream has one consumer at a time, as a Kinesis shard has; it is      *)
(* invoked again and again, and may be killed between any two steps. The   *)
(* producers are other processes and append at any time, also between the  *)
(* consumer's read of the file and its rewriting of it.                    *)
(***************************************************************************)
EXTENDS Naturals, Sequences, FiniteSets

CONSTANTS
  Ids,          \* event_id values
  Garbled,      \* a line that json.loads rejects
  MaxRecords,   \* max_records of read_and_checkpoint
  MaxPuts,      \* bound: lines ever put on the stream
  MaxFailures   \* bound: killed consumers

ASSUME ConstantsAssumption ==
  /\ MaxRecords \in Nat \ {0}
  /\ MaxPuts \in Nat
  /\ MaxFailures \in Nat

\* An event as put: its event_id, whether its validator accepts it, and its
\* put_at, here its number in the order of the puts.
Line == [id: Ids, valid: BOOLEAN, at: Nat \ {0}]

ASSUME GarbledAssumption == Garbled \notin Line

VARIABLES
  stream,       \* the lines of the stream's file
  pc,           \* the next step of the consumer
  batch,        \* to_process, the lines the consumer is handling
  rest,         \* remainder, the lines it will write back
  raw,          \* part-000.json of the raw prefix
  quarantine,   \* part-000.json of the quarantine prefix
  \* history and bounds
  sent,         \* every line ever put
  exposed,      \* lines put while a consumer was about to rewrite the file
  dropped,      \* lines that only a killed consumer still held
  replaced,     \* lines of the lake that a later batch took the place of
  failures

streamVars   == <<stream, sent>>
consumerVars == <<batch, rest>>
lakeVars     == <<raw, quarantine, replaced>>
historyVars  == <<exposed, dropped>>
vars == <<streamVars, pc, consumerVars, lakeVars, historyVars, failures>>

LinesOf(s) == {s[i] : i \in DOMAIN s} \ {Garbled}

\* The steps of _consume: the loop over the batch, the truncating open of
\* the file, the write of the remainder, and the two writes to the lake.
Consuming == {"validate", "truncate", "rewrite", "land", "reject"}

\* From the read of the file to the end of its rewriting, a line appended
\* to it is not among those the consumer knows.
Rewriting == {"validate", "truncate", "rewrite"}

Init ==
  /\ stream = <<>> /\ sent = {}
  /\ pc = "idle" /\ batch = <<>> /\ rest = <<>>
  /\ raw = {} /\ quarantine = {} /\ replaced = {}
  /\ exposed = {} /\ dropped = {} /\ failures = 0

\* put_record: one line, appended to the file.
PutRecord(id, valid) ==
  LET line == [id |-> id, valid |-> valid, at |-> Cardinality(sent) + 1] IN
  /\ Cardinality(sent) < MaxPuts
  /\ sent' = sent \union {line}
  /\ stream' = Append(stream, line)
  /\ exposed' = IF pc \in Rewriting THEN exposed \union {line} ELSE exposed
  /\ UNCHANGED <<pc, consumerVars, lakeVars, dropped, failures>>

\* A slice that forgets one line, one that keeps a line of the batch, and a
\* checkpoint that does not advance.
RemainderTooShort(lines) == SubSeq(lines, MaxRecords + 2, Len(lines))
RemainderOverlaps(lines) == SubSeq(lines, MaxRecords, Len(lines))
RemainderKept(lines) == lines

\* lines[:max_records] and lines[max_records:].
ToProcess(lines) ==
  SubSeq(lines, 1, IF Len(lines) < MaxRecords THEN Len(lines) ELSE MaxRecords)
Remainder(lines) == SubSeq(lines, MaxRecords + 1, Len(lines))

\* read_text of the whole file, also of an empty one, at the first step of
\* the generator.
Read ==
  /\ pc = "idle"
  /\ pc' = "validate"
  /\ batch' = ToProcess(stream)
  /\ rest' = Remainder(stream)
  /\ UNCHANGED <<streamVars, lakeVars, historyVars, failures>>

\* The consumer is over and what it held in memory with it.
Exit ==
  /\ pc' = "idle" /\ batch' = <<>> /\ rest' = <<>>

\* A loop that lets a malformed line through.
ParsesLoosely(lines) == lines \in Seq(Line \union {Garbled})

\* The loop over the batch: json.loads of every line, and the validator. A
\* malformed line raises out of _consume with the file as it was.
Parses(lines) == \A i \in DOMAIN lines : lines[i] # Garbled
Validate ==
  /\ pc = "validate"
  /\ IF Parses(batch)
       THEN pc' = "truncate" /\ UNCHANGED consumerVars
       ELSE Exit
  /\ UNCHANGED <<streamVars, lakeVars, historyVars, failures>>

\* write_text opens the file with truncation, ...
Truncate ==
  /\ pc = "truncate"
  /\ pc' = "rewrite"
  /\ stream' = <<>>
  /\ UNCHANGED <<sent, consumerVars, lakeVars, historyVars, failures>>

\* A rewriting that appends to the file instead.
AppendedBack(new, old) == {old \o new}

\* ... and writes the remainder from offset 0. What was appended since the
\* truncation stays when there is no remainder; otherwise the remainder
\* overwrites it from its start on, up to the end of a line or within one.
Overwritten(new, old) ==
  IF new = <<>> \/ old = <<>> THEN {new \o old}
  ELSE LET Tail_(k) == SubSeq(old, k, Len(old)) IN
       UNION {{new \o Tail_(k), new \o <<Garbled>> \o Tail_(k)} :
                k \in 2..(Len(old) + 1)}

Rewrite ==
  /\ pc = "rewrite"
  /\ pc' = "land"
  /\ stream' \in Overwritten(rest, stream)
  /\ rest' = <<>>
  /\ UNCHANGED <<sent, batch, lakeVars, historyVars, failures>>

\* The positions of the records that their validator accepts.
ValidIn(lines) == {i \in DOMAIN lines : lines[i].valid}

\* drop_duplicates with keep="first".
FirstOfEachId(lines) ==
  {lines[i] : i \in {i \in ValidIn(lines) :
                       \A j \in ValidIn(lines) :
                         j < i => lines[j].id # lines[i].id}}

\* drop_duplicates(subset=["event_id"], keep="last") of the valid records.
LastOfEachId(lines) ==
  {lines[i] : i \in {i \in ValidIn(lines) :
                       \A j \in ValidIn(lines) :
                         j > i => lines[j].id # lines[i].id}}

\* The records that it rejects.
InvalidOf(lines) == {l \in LinesOf(lines) : ~l.valid}

\* write_dataframe to the raw prefix replaces its part-000.json, whatever
\* the batch before has left there.
Land ==
  LET valid == LastOfEachId(batch) IN
  /\ pc = "land"
  /\ pc' = "reject"
  /\ raw' = IF valid = {} THEN raw ELSE valid
  /\ replaced' = replaced \union (raw \ raw')
  /\ UNCHANGED <<streamVars, consumerVars, quarantine, historyVars, failures>>

\* The same for the quarantine prefix.
Reject ==
  LET invalid == InvalidOf(batch) IN
  /\ pc = "reject"
  /\ Exit
  /\ quarantine' = IF invalid = {} THEN quarantine ELSE invalid
  /\ replaced' = replaced \union (quarantine \ quarantine')
  /\ UNCHANGED <<streamVars, raw, historyVars, failures>>

\* The consumer is killed. Past the truncation, the lines it held are no
\* longer in the file.
Held ==
  CASE pc = "rewrite" -> LinesOf(batch) \union LinesOf(rest)
    [] pc = "land"    -> LinesOf(batch)
    [] pc = "reject"  -> InvalidOf(batch)
    [] OTHER          -> {}

Crash ==
  /\ pc \in Consuming
  /\ failures < MaxFailures
  /\ failures' = failures + 1
  /\ dropped' = dropped \union Held
  /\ Exit
  /\ UNCHANGED <<streamVars, lakeVars, exposed>>

Consume == Read \/ Validate \/ Truncate \/ Rewrite \/ Land \/ Reject

Next ==
  \/ \E id \in Ids, valid \in BOOLEAN : PutRecord(id, valid)
  \/ Consume
  \/ Crash

Spec == Init /\ [][Next]_vars

\* The consumer is invoked again and again, and one that is not killed goes
\* on. Nothing makes a producer put or a consumer die.
FairSpec == Spec /\ WF_vars(Consume)
-----------------------------------------------------------------------------
(***************************************************************************)
(* Properties.                                                             *)
(***************************************************************************)
\* Every variable has its type.
TypeOK ==
  /\ stream \in Seq(Line \union {Garbled}) /\ sent \in SUBSET Line
  /\ pc \in {"idle"} \union Consuming
  /\ batch \in Seq(Line \union {Garbled})
  /\ pc \in Consuming \ {"validate"} => batch \in Seq(Line)
  /\ rest \in Seq(Line \union {Garbled})
  /\ raw \in SUBSET Line /\ quarantine \in SUBSET Line
  /\ exposed \in SUBSET Line /\ dropped \in SUBSET Line
  /\ replaced \in SUBSET Line
  /\ failures \in Nat

\* What the lake holds, what has ever been written to it, and what of that
\* went to the raw prefix.
Lake    == raw \union quarantine
Written == Lake \union replaced
Landed  == {l \in Written : l.valid}

\* Among these lines is what a line needs: an invalid line itself, a valid
\* one or a later version of its event.
Handled(line, lines) ==
  IF line.valid
    THEN \E l \in lines : l.valid /\ l.id = line.id /\ l.at >= line.at
    ELSE line \in lines

InHand == LinesOf(batch) \union LinesOf(rest)

\* Each line is in the file, with the consumer or in the lake as it now is,
\* unless it went missing in one of three windows: it was appended while the
\* consumer was about to rewrite the file; a consumer was killed between
\* the truncation and the end of its writes; or it had reached the lake
\* and the next batch has replaced the part-000.json that held it.
LossOnlyInWindows ==
  \A line \in sent :
    \/ line \in LinesOf(stream) \union InHand \/ Handled(line, Lake)
    \/ line \in exposed
    \/ line \in dropped
    \/ Handled(line, replaced)

\* The lines of the file stay in the order they were put in, and behind the
\* batch that was taken off it, as the adapter promises.
InOrder ==
  /\ \A i, j \in DOMAIN stream :
       i < j /\ Garbled \notin {stream[i], stream[j]} =>
         stream[i].at < stream[j].at
  /\ pc \in {"rewrite", "land", "reject"} =>
       \A b \in LinesOf(batch), l \in LinesOf(rest) \union LinesOf(stream) :
         b.at < l.at

\* No line is landed twice, however often a killed consumer is invoked
\* again: what the code does is at most once.
LandedOnce ==
  [][Land => LastOfEachId(batch) \intersect Landed = {}]_vars

\* Again and again all lines have been written to the lake, unless they were
\* lost before they reached it or a malformed line stands in the file, which
\* stops the consumer.
Poisoned == Garbled \in {stream[i] : i \in DOMAIN stream}
Drains ==
  []<>(Poisoned
         \/ \A line \in sent :
              Handled(line, Written) \/ line \in exposed \union dropped)

(***************************************************************************)
(* A statement of the code's comments that the code does not keep.         *)
(***************************************************************************)
\* "this mirrors Kinesis checkpointing AFTER a successful processing pass,
\* not before, so a mid-batch failure would leave unprocessed records for
\* the next invocation to retry"
\* (streaming/consumers/event_consumer.py:41).
FailedBatchIsRetried ==
  \A line \in sent :
    line \in LinesOf(stream) \union InHand \union exposed \/ Handled(line, Written)
=============================================================================
