# Specifications of the RetailCo data platform

TLA+ specifications of the stateful parts of this repository, the TLC
configurations that check them, and proofs for the TLA+ proof system of every
safety property that a passing run checks. Paths below are relative to the repository.

## 1. The system

The platform moves retail data from sources (SQL Server, SAP, REST, files,
event streams) through a lake of zones (raw, bronze, silver, gold, quarantine)
into a Redshift warehouse. Batch pipelines are started by Airflow; each run is
a process that may overlap with others, fail or be killed. What coordinates
them is small: one control-table row per pipeline, the lake's prefixes (one
file `part-000` each, replaced by every write) and the warehouse tables.

| Component | State it keeps | Operations | Interacts with | What makes it correct |
|---|---|---|---|---|
| Control table, audit log (`src/common/audit.py`) | one row per pipeline: watermark, current run, status; one audit row per run | `start_run`, `get`, `complete_run`, `write` | every pipeline run | the watermark never goes back or past undelivered rows; both tables tell one story |
| Commit guard (`src/common/idempotency.py`) | the stage of one run | `advance`, `may_advance_watermark`, `resolved_watermark` | the run, the control table | nothing but COMMITTED lets the watermark move |
| SQL Server ingestion (`src/ingestion/sqlserver`) | a run's locals; raw, silver, staging prefixes | extract, land, cleanse, DQ, reconcile, commit, finalise | source, lake, control table | no row is skipped whatever overlaps, fails or dies; staging holds gated rows only |
| DQ and reconciliation (`src/data_quality`, `src/reconciliation`) | none | evaluate, `enforce` | ingestion, Glue jobs | a batch with a CRITICAL failure is not committed |
| Quarantine (`src/data_quality/quarantine.py`) | one prefix per pipeline and run id | `quarantine_records` | `bronze_to_silver` | what is promoted in spite of a failure is on record |
| Event stream (`streaming/`, `src/ingestion/streaming`) | the stream's file; raw and quarantine prefixes | `put_record`, `read_and_checkpoint`, `_consume` | producers, consumer, lake | no event is lost or landed twice; order and latest version are kept |
| CDC (`src/cdc`) | the merge target | parse, deduplicate, `merge_upsert` | feed, SCD2 | the target is a replica of the source however the feed orders and repeats events; reruns are harmless |
| SCD2 dimension (`scd_type2.py`, `scd2_merge_dim_customer.sql`, `customer_pipeline.py`) | `dim_customer` | expire, insert, task retry | CDC, facts | one current version, one version per day, history kept, retries without effect |
| Facts, Type 1 dimensions, staging load (`sql/`, `src/dimensional_model`) | warehouse tables | TRUNCATE + COPY, MERGE | staging prefix, `dim_customer` | one fact per item, each with a customer version that exists; reruns are harmless |
| Glue jobs (`glue/jobs`) | a job's locals; raw, silver, quarantine prefixes | ingest, bronze to silver, silver to gold | control table, lake, quarantine, DAG | as the ingestion, also when a job outlives the attempt that started it |
| Batch DAG (`airflow/dags/retail_batch_pipeline.py`) | task states, retries | trigger, start and poll a job, time out, retry, `update_control_table` | Glue jobs, control table | every run ends; no retry, overlap or timeout moves the watermark wrongly |
| Other DAGs (`airflow/`) | task states | linear lists of tasks, most of them empty | components above | |
| REST client, retry (`src/common/retry.py`, `rest_api/client.py`) | attempt counter, cursor, time of the last call | retry, paginate, throttle, validate | API ingestion | each page once and in order, all attempts before giving up, termination, rate limit |
| API ingestion (`glue/jobs/ingest_api.py`) | a run's locals; raw prefix | fetch, land, DQ, finalise | client, lake, control table | a feed lands whole or not at all; the watermark follows it; both tables tell how a run ended |
| Lambdas, EMR jobs, marts, config, metrics, infrastructure | none of their own | | | |

Hard to test, hence the reason for the properties below: overlapping runs of
one pipeline (`max_active_runs=3`) around a control row that is read and
written in separate transactions; a death between any two of landing,
committing, advancing the watermark and auditing; exceptions that are not
caught; producers that append while a consumer rewrites the stream's file;
checkpoints and writes in the wrong order; feeds that reorder and repeat; task
retries after an unknown outcome, on another day; Glue jobs that go on after
Airflow has given them up; scripts that nothing orders. `PROJECT.json` lists each
hazard at its line with the properties about it.

## 2. Modules

| Module | Models | Kind |
|---|---|---|
| `IncrementalIngestion` | `run_demo.py`, `audit.py`, `idempotency.py`, `extractor.py` | detailed |
| `DataQuality` | `validators.py`, `rules.py`, `framework.py`, the profile `orders_standard` | operators |
| `BatchPipeline` | `retail_batch_pipeline.py`, `pipeline_trigger`, `glue/jobs/ingest_sqlserver.py`, `glue/jobs/bronze_to_silver.py`, `quarantine.py`; extends `DataQuality` | detailed |
| `MCBatchPipeline` | | TLC instance (flaws, columns) |
| `WatermarkLedger` | what the control table promises its readers | abstract, implemented by `IncrementalIngestion` and by `BatchPipeline` |
| `StreamIngestion` | `local_kinesis_adapter.py`, `event_consumer.py`, producers | detailed |
| `CdcMerge` | `parser.py`, `processor.py`, `merge.py` | detailed |
| `Replica` | what a merge target promises | abstract, implemented by `CdcMerge` |
| `ProfileTable` | what a dimension promises those who join it on `is_current` | abstract, implemented by `CustomerDimension` and, beside the loads, by `WarehouseLoad` |
| `RestApiClient` | `client.py`, `retry.py` | component, without a specification of its own |
| `ApiIngestion` | `glue/jobs/ingest_api.py`, composed with `RestApiClient` | detailed |
| `MCApiIngestion` | | TLC instance (records) |
| `CustomerDimension` | `scd2_merge_dim_customer.sql` under `customer_pipeline.py`; `apply_scd2` | detailed, with its reference definition |
| `WarehouseLoad` | `sql/staging`, `merge_fact_sales.sql`, composed with `CustomerDimension` | detailed |
| `IncrementalIngestion_proofs`, `BatchPipeline_proofs`, `StreamIngestion_proofs`, `ApiIngestion_proofs`, `CdcMerge_proofs`, `CustomerDimension_proofs`, `WarehouseLoad_proofs` | | theorems |
| `SequenceLemmas` | | lemmas on sequences and recursive functions that the proofs share |

### IncrementalIngestion

A run is a slot `r \in Runs` with a program counter. `StartRun` is
`control.start_run`; `ReadWatermark` is the separate `control.get`; `Extract`,
`LandRaw`, `WriteSilver`, `CheckQuality`, `Reconcile`, `CommitStaging` are the
numbered steps of the `try` block, each with the guard's `advance` that follows
it; `FailRun` is the `except` clause; `RaiseUncaught` is any exception that
clause does not name, which goes straight to the `finally` block with `status`
still `"SUCCESS"`. The `finally` block is `CompleteRead` and `CompleteUpdate`
(the two transactions of `complete_run`, the second with its
`WHERE current_run_id = ?`) and `WriteAudit`. `Crash` kills a process at any
point and loses its locals. A slot whose run is over is used again for a new
run.

The source is external: rows with a key, a `modified_date` and whether they
break a CRITICAL rule. `SourceWrite` inserts or updates a key in place,
`SourceDuplicate` adds a second row of a key or a row without one. The model
takes from `docs/lld/01_sqlserver_incremental_ingestion_lld.md` that
`modified_date` grows and is set, and assumes that no two changes share one
(section 5). `Cleansed` keeps one row per key, any one, because
`drop_duplicates(keep="last")` goes by file order. `Reconciles` is the record
count: with zero tolerance and rows of equal worth, the sum check of
`orders_daily` adds nothing to it.

Abstracted: timestamps are numbers and `NULL` is 0; record counts, messages and
logging are left out; a write of a file is one step.

### DataQuality and BatchPipeline

`DataQuality` has one operator per handler of `validators.py` (`NotNull`,
`Unique`, `InRange`, ...), `EvaluateRule` for the dispatch with its test for a
missing column, the twelve rules of `orders_standard`, and `Failures` and
`BlocksPromotion` for what `run_data_quality` reports. A row has at most one
flaw; the kinds of flaw are those the handlers tell apart. What the handlers do
with a value is kept, the surprising parts too: two missing values are
duplicates, a value that is no number passes its RANGE rule, referential
integrity passes because no caller has reference data, and FRESHNESS and
SCHEMA_MATCH of `__table__` pass whatever the frame.

A run `d \in DagRuns` of the DAG is in a task. `Trigger` is its schedule or the
Lambda. `StartJob` and `ObserveJob` are the `GlueJobOperator` of `extract` and
`schema_validation`, which starts a job of its own for each attempt and polls it;
`TimeOut` is `execution_timeout`, which leaves the job alone; `AttemptFails` is
the retry count of `default_args`. `UpdateControlTable` is the task of that
name: it completes an id that Airflow made, so its UPDATE matches no row, and
that is why the missing `new_watermark` does no harm (`ImplementsLedger` fails
at once if it had the id of the ingestion). The tasks in between have no
effect on this state; their failures are `TaskFails`.

A job `j \in Jobs` is one of two programs. `IngestStart`, `IngestGet`,
`IngestExtract`, `IngestLand`, `IngestGate`, `IngestComplete`, `IngestExit` are
`ingest_sqlserver.py`, with `IngestRaise` for an exception that its `except`
clause does not name. It gates what it extracted itself, and COMMITTED is only
a mark. `SilverRead`, `SilverQuarantine`, `SilverPromote` are
`bronze_to_silver.py`: an ERROR failure sends the whole batch to the quarantine
and then to silver. `Crash` kills a job at any step. `CompleteRun` is one step
here; its two transactions are those of `IncrementalIngestion`.

External: `SourceWrite` changes the table, with keys that may be missing or
repeat, and `LandBronze` is whatever fills `bronze/` from `raw/`, which no code
here does. The histories `landed` and `quarantined` only serve the properties.

### StreamIngestion

The file is a sequence of lines. `PutRecord` appends. The consumer's `Read`,
`Validate`, `Truncate`, `Rewrite`, `Land`, `Reject` are, in this order, the
`read_text` of `read_and_checkpoint`, the loop of `_consume`, the truncating
open of `write_text`, its write at offset 0, and the two writes to the lake.
Lines appended between the truncation and a non-empty write are overwritten
from their start on: `Overwritten` gives every outcome, with or without a
`Garbled` rest of a line, which `json.loads` rejects later. A stream has one
consumer at a time. Raw and quarantine hold what the last `Land` and `Reject`
wrote: as `write_dataframe` does, each replaces the file of the batch before.
The histories `sent`, `exposed`, `dropped` and `replaced` only serve the
properties; `replaced` has the lines that such a replacement took from the lake.

### CdcMerge

`Change` is the source (external). `Deliveries` is the feed: all events since
the committed position, any of them twice, in any order that keeps events with
one `change_timestamp` in theirs, which is what the stable sort is there for.
`Latest` is `deduplicate_cdc_batch`, `Sorted` its rows with one operation in
their final order, `MergeUpsert` with `ApplyUpdates` and `ApplyInserts` the loops
of `merge_upsert` with their `existing_keys` read beforehand; each loop is a
recursive function of the round, `UpdateRow` and `ReplaceRow` are one round. The
target is a sequence of rows, so that a second row for a key
would show. `Commit` is the step that `processor.py` leaves to its callers,
`Crash` a death before it, `RejectBatch` a `SchemaValidationError`.

### CustomerDimension

`Begin`, `ExpireChanged`, `InsertCurrent`, `Commit` are the statements of the
script; `CURRENT_DATE` is that of the transaction's begin. `Rollback` and
`CommitUnseen` are the two ways the task fails, `Retry` is Airflow's, `Stage` is
the next run of the DAG, `NewDay` may come at any time. `ApplyScd2` is the loop
of `apply_scd2`, with the new rows kept aside as there. `CurrentProfile` is what
a join on `is_current` sees of the committed rows: it implements `ProfileTable`,
into which a batch goes all at once, and once.

### WarehouseLoad

`redshift_load` is an empty task in every DAG, so nothing orders the scripts:
`LoadOrders`, `LoadOrderItems`, `MergeFactSales` and the steps of
`CustomerDimension` may come in any order and be repeated. A load is TRUNCATE,
which commits by itself, and COPY, which may fail and leave the table empty.
What the prefixes hold is external: at most one row of an order, which is what
`StagingPassedGates` of `IncrementalIngestion` says of them, and any items.
`Source` is the USING clause: an item without its order is left out, a customer
without a current version gives `NoSk`. `MergeFactSales` is enabled only if no
two rows of the source match one row of the target, where Redshift raises an
error. Product, date and the measures follow the key and are left out; so is the
store, by an assumption that section 5 names.

### RestApiClient and ApiIngestion

`StartFetch` is a call of `fetch_all` with its arguments: the feed the server
has for it, whether `sleep_fn` sleeps, whether there is a `validate_record`.
`Throttle` and `FirstAttempt` are `_respect_rate_limit` and the call that
follows its stamp at once, `NextAttempt` a later turn of the loop in
`with_retry`, which leaves the throttle out. The server answers with
`PageArrives`, `TransientError` (a 429 or any other `RetryableError`, such as a
503 or a connection that is reset) or `PermanentError` (a `NonRetryableError` or
an exception that is not one of the platform's); `YieldPage` validates
and yields a page and moves the cursor. `Tick` is time, counted since the stamp
and since the last call up to `MinInterval`, which is all that is ever compared.

`ApiIngestion` runs the job around it: `Fetch` are the client's steps,
`Extract` to `Reconcile` the `try` block (its reconciliation compares the frame
with itself). `Raise` is an exception that leaves the block: `Caught` are those
that the `except` clause names, which set the status to FAILED, and the `finally`
block comes next for all. `FetchRaises` raises whatever ended the fetch,
`CheckQuality` a `DataQualityError`, `RaiseUncaught` an exception of the other
steps that is not one of the platform's; `raised` remembers which it was, for
the properties. `CompleteRun` and `WriteAudit` are the `finally`
block, `Crash` a kill. The job passes a `sleep_fn` that does not sleep and no
`validate_record`; other callers are covered too, for the client's sake. Runs
follow each other: runs that overlap on the control table are the subject of
`IncrementalIngestion`. The server keeps its feed unchanged during one fetch and
sends no cursor twice.

## 3. Runs

| Run | Shows | Bounds |
|---|---|---|
| `ingestion` | rows are not skipped (`NoRowSkipped`), staging passed its gates (`StagingPassedGates`), control and audit agree for the run the control row names (`AuditAgreesWithControl`), `WatermarkNeverRegresses`, `ImplementsLedger`; `RowsDelivered`: rows reach staging even while runs supersede each other; `WatermarkCatchesUp`: the watermark follows once runs stop overlapping | 2 slots, 1 key, 2 source changes, 1 failure |
| `ingestion_failure_audit` (violated) | an uncaught exception is recorded as SUCCESS without an error message; `docs/lld/10_failure_handling_lld.md:85` says otherwise | 1 slot |
| `ingestion_duplicates` (violated) | a duplicate key in the window stops the pipeline for good; `docs/lld/01_...:158` says it is deduplicated | 1 slot |
| `batch_pipeline` | `LandedBelowWatermark`: no row is passed over; `CommittedRowsAreComplete`: nothing with a missing CRITICAL column is ever behind the watermark; `BadSilverWasQuarantined`; `ImplementsLedger`; `DagRunsEnd` | 1 DAG run, 2 job slots, 1 key, 2 flaws, 1 retry, 2 source changes, 1 failure |
| `stream` | a line is missing from file, consumer and lake only through the three windows named by `LossOnlyInWindows`: put while the consumer rewrites the file, in hand when it dies, in the lake until the next batch replaced it; the order of the file (`InOrder`), at most one landing (`LandedOnce`); `Drains`: every line that was not lost before is written to the lake unless a garbled one blocks the file | 4 lines, 2 ids, batches of 2, 1 kill |
| `stream_loss` (violated) | a consumer killed after the truncation loses its batch; `event_consumer.py:41` says it would be retried | 1 line |
| `cdc_merge` | `ImplementsReplica`, `OneRowPerKey`, `RerunIsIdempotent` | 3 changes, 2 keys, 2 values, 1 repetition, 1 failure |
| `customer_dimension` | `OneCurrentVersion`, `OneVersionPerDay`, `BatchIsApplied`, `HistoryIsKept`, `RetryIsIdempotent`, `MirrorsPython`: script and `apply_scd2` agree; `ImplementsProfileTable`: nobody sees a batch half applied, or applied twice | 2 customers, 2 values, 3 days, 3 batches, 1 retry |
| `customer_halfopen` (violated) | the half-open join of ADR-006 misses the last day of an expired version | 1 customer |
| `warehouse_rerun` (violated) | a second MERGE of one staging batch changes facts once the customer has a new version; `merge_fact_sales.sql:1-4` and `docs/hld/02_batch_ingestion_hld.md:44` call it a no-op | 1 order, 1 item, 1 customer |
| `api_ingestion` | `FeedYieldedOnce`: retries neither skip nor repeat a page; `RawIsWholeFeed`; `WatermarkIsLanded`, `WatermarkFollowsFeed`: where the watermark may go, back included; `OutcomeIsRecorded`: a run ends as FAILED, as SUCCESS with a committed feed, or, after an exception that `ingest_api.py:89` does not name, as SUCCESS with nothing committed; `BurstsAreRetries`; `RunEnds` | 2 runs, 2 pages of up to 1 of 3 records, 3 attempts, 1 failure |
| `api_rate_limit` (violated) | a retried call may follow at once; `docs/lld/10_failure_handling_lld.md:23` says the backoff respects the rate limit | 1 page, 2 attempts |

Why the bounds are enough. Ingestion: a hazard needs at most an older and a
newer run, whose slots are reused, so that a third and a fourth run follow; one
row already delivered and one new version of it; one failure at the worst
moment. With one key, that a row of another key is passed over is left to the
theorems of section 4, which hold without the bounds. Batch DAG: the job of a
given-up attempt and the job of its retry are the two that overlap; two DAG runs
at once add nothing to that for the jobs, and the theorems cover any number of
runs, jobs, retries and keys. Its two flaws are one that a CRITICAL rule finds
and one that an ERROR rule finds. Stream: two batches, a remainder
to rewrite, and two lines appended to a truncated file all fit in four lines.
CDC: insert, delete and insert of a key is three changes, in one batch or
several. Dimension: two changes in a day and one on another are three batches.
API: a page before and a page after the one that is retried, a cap of the backoff
that is reached at the second attempt, and a second run whose feed has shrunk.
`WarehouseLoad` with dimension bounds at which something happens and two orders
is too large for a passing run; `FactKeyIsUnique` and `FactCustomerExists` are
proved instead.

`CHECK_DEADLOCK FALSE` is set where the model may stop: when the bounded changes
of `CdcMerge` are merged, when the days and batches of `CustomerDimension` are
used up, and when the runs of `ApiIngestion` are. Elsewhere deadlock is checked.

Fairness. `FairSpec` of `IncrementalIngestion` assumes that a process which is
not killed goes on (weak fairness of `RunStep(r)`) and that the schedule starts
a run when none is in flight (weak fairness of `Schedule`; the DAG runs daily).
It assumes nothing of the source, of exceptions, or of the order of overlapping
runs. Hence the condition in `WatermarkCatchesUp`: runs that overlap for ever
may each be superseded before they finalise, and the watermark then stands
still although every run delivers. `Blocked` is the other condition: a bad,
duplicate or keyless row in the window fails every run. `FairSpec` of
`BatchPipeline` assumes that a job which is not killed goes on and that Airflow's
scheduler gets to every task (weak fairness of `JobStep(j)` and `DagStep(d)`);
nothing of the source, the triggers, the timeouts or what fills bronze. That of
`StreamIngestion` assumes that the consumer is invoked again and again, that of
`ApiIngestion` that a live job goes on, that a call is answered (with whatever)
and that time passes.

## 4. Proofs

Every theorem holds for all values of the constants that satisfy the `ASSUME` of
the modules concerned. Those say that the model values differ, that bounds are
natural numbers, and, for the dimension, that there are finitely many customers
(the surrogate keys of an INSERT are then a finite range, and a staged batch
has a size).

### IncrementalIngestion_proofs

| Theorem | Statement |
|---|---|
| `TypeCorrect` | `Spec => []TypeOK` |
| `NoRowSkippedAlways` | `Spec => []NoRowSkipped` |
| `StagingPassedGatesAlways` | `Spec => []StagingPassedGates` |
| `AuditAgreesWithControlAlways` | `Spec => []AuditAgreesWithControl` |
| `WatermarkNeverRegressesAlways` | `Spec => WatermarkNeverRegresses` |
| `UncommittedRunFreezesAlways` | `Spec => UncommittedRunFreezesWatermark` |
| `LedgerImplemented` | `Spec => ImplementsLedger` |

`NoRowSkipped` is not inductive: what `CompleteUpdate` stores was computed many
steps before, from a watermark and a source that may have changed since. The
inductive invariant `Inv` carries what holds in between:

- `ClockInv`: no row and no watermark is ahead of the source's clock, so a
  later change is always above every watermark;
- `OwnerInv`: as long as a run owns the control row, the watermark is still the
  one it read, because only the owner stores and a newer run becomes the owner;
- `WindowInv`: a run's batch contains every row of its window
  (`previous`, `newWatermark`] that the source still holds unchanged, and once it
  has passed reconciliation no row was dropped by the cleansing, so that at
  COMMITTED all of them were delivered;
- `GateInv`: what a run holds after a gate satisfies that gate.

The fence `current_run_id = ?` is what makes `OwnerInv` inductive; with the
fence removed (`OwnsUnfenced`) TLC shows the watermark going back. Every action
has a lemma that it preserves `Inv`; `NextInv` collects them. The refinement
follows: source steps map to `Modify`, `CommitStaging` to `Deliver`,
`CompleteUpdate` of a committed owner to `AdvanceWatermark`, everything else to
a stutter.

### BatchPipeline_proofs

| Theorem | Statement |
|---|---|
| `TypeCorrect` | `Spec => []TypeOK` |
| `LandedBelowWatermarkAlways` | `Spec => []LandedBelowWatermark` |
| `CommittedRowsAreCompleteAlways` | `Spec => []CommittedRowsAreComplete` |
| `BadSilverWasQuarantinedAlways` | `Spec => []BadSilverWasQuarantined` |
| `WatermarkOnlyAdvancesAlways` | `Spec => WatermarkOnlyAdvances` |
| `LedgerImplemented` | `Spec => ImplementsLedger` |

The argument is that of the ingestion, for jobs that nobody waits for any more:
an owner's `previous` is still the watermark (`OwnerInv`), because a job whose
attempt timed out is fenced off once the retry's job has registered, and the
DAG's own `update_control_table` never owns the row; a job past its extract holds
every row of its window that is still unchanged, and past `land` has landed
them (`WindowInv`); a job whose outcome is `committed` holds a batch without a
CRITICAL failure, and what is on its way to silver is good or in the quarantine
(`GateInv`). `update_control_table` is the step where `DagRuns` and `Jobs` being
disjoint, uuid and Airflow id, is what is used.

### CustomerDimension_proofs and WarehouseLoad_proofs

| Theorem | Statement |
|---|---|
| `TypeCorrect` | `Spec => []TypeOK` |
| `OneCurrentVersionAlways` | `Spec => []OneCurrentVersion` |
| `OneVersionPerDayAlways` | `Spec => []OneVersionPerDay` |
| `BatchIsAppliedAlways` | `Spec => []BatchIsApplied` |
| `HistoryIsKeptAlways` | `Spec => HistoryIsKept` |
| `RetryIsIdempotentAlways` | `Spec => RetryIsIdempotent` |
| `MirrorsPythonAlways` | `Spec => []MirrorsPython` |
| `ProfileTableImplemented` | `Spec => ImplementsProfileTable` |
| `DimensionImplemented` | `WarehouseSpec => Spec`: the loads do not disturb the dimension |
| `MergeSeesWholeBatches` | `WarehouseSpec => ImplementsProfileTable` |
| `FactKeyIsUniqueAlways` | `WarehouseSpec => []FactKeyIsUnique` |
| `FactCustomerExistsAlways` | `WarehouseSpec => []FactCustomerExists` |
| `MergeIsUnambiguous` | `WarehouseSpec` never reaches a state where the MERGE would find two rows for one |

What the properties say of `dim` depends on what a transaction is going to put
there. `RowsInv` therefore speaks of a table and a day, and holds of `dim` and of
the transaction's `work` alike: versions have distinct keys below `nextSk`, one
current version of a customer at most, ranges that do not overlap, and no
date after the day. `TransactionInv` ties `work` to `dim` at each statement:
after the UPDATE it is `dim` with exactly the changed customers expired, after
the INSERT it has their new versions as well. The days are bounded by `today`
and not by the transaction's `as_of`, because a transaction may outlast its day.
`AppliedInv` is what makes the retry harmless: once a batch is committed, no
customer of it differs from its current version, so a second execution finds
nothing to expire and nothing to insert.

`MirrorsPython` compares the work of the transaction with a loop, so it is proved
from both sides. The loop of `apply_scd2` has an invariant of its own
(`OneRound`, `AllRounds`): after some rounds its rows are those that the UPDATE
would leave if only the customers so far were staged (`Reached`), and its new rows
are for those of them that the INSERT gives a version. It rests on a customer
having one current version and on a batch having one row per customer. On the
other side `MirrorInv` says what the two statements have made of the business
columns by the time of the COMMIT; surrogate keys, which the two number
differently, are left out (`Business`). `MirrorInv` also gives the refinement of
`ProfileTable`: a customer that is not staged keeps its current version, one that
is staged has the staged attributes (`Applied`), so the first COMMIT of a batch is
`Apply`, and every later one changes nothing.

`WarehouseLoad_proofs` shows that every step of the dimension keeps its
invariant `Inv` while the loads run, and adds `StagingInv`: staged rows are
unique by order and items by their pair. With `OneCurrentVersion` the join then
yields one row for each item, so the MERGE can neither fail nor insert a key
twice; with `HistoryIsKept` a fact's customer version never goes away.

### CdcMerge_proofs

| Theorem | Statement |
|---|---|
| `TypeCorrect` | `Spec => []TypeOK` |
| `OneRowPerKeyAlways` | `Spec => []OneRowPerKey` |
| `RerunIsIdempotentAlways` | `Spec => RerunIsIdempotent` |
| `ReplicaImplemented` | `Spec => ImplementsReplica` |

The inductive invariant says little of the merge itself: the log is numbered, its
clock does not go back and a deletion is what leaves no value (`LogInv`); the
committed position is not past what the target shows, nor that past the log
(`PositionInv`); the rows of the target are, key by key, those of the source at the
position it shows, each once (`CopyInv`). `OneRowPerKey` is not inductive
without the last: that a loop appends no key twice depends on what the batch is,
and what the batch does depends on what the target holds. The work is in one
merge, from the feed to the target:

- `RowsOfEvents`, `MergedEvents`, `DeliveredEvents`: however a window is ordered
  and repeated, the deduplication keeps for each key the event that the source
  logged last. A feed keeps only the events of one tick in order, so the
  proof compares clocks first and positions within a tick.
- `WithoutRows`, `ApplyUpdatesRows`, `ApplyInsertsRows`, `MergedRows`: what the
  frames hold after each loop, by an invariant of its rounds. `existing_keys` is
  read once before a loop; that this does no harm is where the distinct keys of
  a batch are used.
- `StateOfKey`, `StateKept`: the state of the source is the last event of each
  key, or what it was at the committed position when the window has none.
- `MergedIsNow` puts these together: after a merge the target is the source as it
  is now, wherever between the committed position and now the target was before.

Hence the refinement: `MergeBatch` is `Refresh` to the latest moment, `Change` is
the replica's `Change` (`PastKept`: the log's past does not change), and the rest is
a stutter; a merge of a window already shown finds the rows it leaves.

`SequenceLemmas` has what the loops are reasoned with: a recursive function of a
model denotes the function that satisfies its equation only if there is one,
which `Recursion` shows of a recursion over the rounds, and `Ascending`
gives the sorted list that `Sorted` chooses.

### StreamIngestion_proofs

| Theorem | Statement |
|---|---|
| `TypeCorrect` | `Spec => []TypeOK` |
| `LossOnlyInWindowsAlways` | `Spec => []LossOnlyInWindows` |
| `InOrderAlways` | `Spec => []InOrder` |
| `LandedOnceAlways` | `Spec => LandedOnce` |

What is in hand and what is in the file overlap until the truncation and are
apart after it. `HoldsInv` says so for each step of the consumer: before the
truncation the file is what is in hand and what was put since (`exposed`); after
it the file has only the latter, all of it behind what is in hand; after the
rewriting the remainder is in the file again and the batch precedes it.
`OrderInv` keeps each of the sequences ordered, `SentInv` has every line numbered
below the next put. `LandedOnce` needs that everything landed precedes everything
still to be landed (`LandedInv`). `LossOnlyInWindows` is not inductive, since
what a batch replaces in the lake depends on what was ever written there:
`LossInv` says that a line that is neither in the file nor in hand has been
written to the lake, present or `replaced`, or was lost on the way, and
`BatchInv` that each valid line of a batch is in the lake in its latest version
before the quarantine is written. The lemmas on `ToProcess`, `Remainder` and `Overwritten` say which
lines they keep and that they keep their order.

### ApiIngestion_proofs

| Theorem | Statement |
|---|---|
| `TypeCorrect` | `Spec => []TypeOK` |
| `FeedYieldedOnceAlways` | `Spec => []FeedYieldedOnce` |
| `OutcomeIsRecordedAlways` | `Spec => []OutcomeIsRecorded` |
| `RawIsWholeFeedAlways` | `Spec => RawIsWholeFeed` |
| `WatermarkIsLandedAlways` | `Spec => WatermarkIsLanded` |
| `WatermarkFollowsFeedAlways` | `Spec => WatermarkFollowsFeed` |
| `BurstsAreRetriesAlways` | `Spec => BurstsAreRetries` |

The invariant has two halves, as the module has. `ClientInv` says how far the
client is: while it fetches, what it has yielded is the first `cursor` pages of
the feed, a page it holds is the one at the cursor, a backoff has attempts left,
and, up to the first retry of a page, the last call is the one that was stamped
(`TimeInv`, which a retry breaks: hence the bursts). Each client action preserves
it, so the job's `Fetch` does. `JobInv` says what the job makes of it: a run past
its fetch has the whole feed and its latest time as new watermark
(`FetchedInv`), a committed run has the gated records in raw (`CommittedInv`), and
a run past its `try` block is committed unless an exception ended it, and FAILED
just if that is one the `except` clause names (`OutcomeInv`). `RaiseKeeps` is what
the three steps that raise have in common. That the pages before
the cursor are a prefix of all pages flattened is a fact about `FlattenSeq`,
which `SequenceLemmas` proves from its recursive function by taking least
counterexamples.

### Only model-checked

Liveness (`RowsDelivered`, `WatermarkCatchesUp`, `DagRunsEnd`, `Drains`,
`RunEnds`) is out of the prover's reach. Every other property of the passing runs
is a theorem. Induction theorems that take a predicate as an argument cannot be
applied either; the inductions over rounds and positions above take least
elements of sets of natural numbers instead (`NatSetInduction`). The properties
that runs show violated are statements about the code that are false, so there is
nothing to prove of them.

## 5. Not modelled

The `components` of `PROJECT.json` give the reason for each. In short: sums and
schema drift (predicates of the data; no job calls `classify_schema_change`),
stateless handlers (the other Lambdas, marts, EMR jobs, Type 1 builders),
`silver_to_gold` (rebuilds its tables from silver and is read by nothing here),
configuration, logging and infrastructure. `ingest_sap.py` has the steps of
`ingest_sqlserver.py` on a control row and prefixes of its own, so a second
instance of the same model would show nothing new. A torn write of a lake file,
rows with a NULL `modified_date` and clock skew at the source are outside the
models; the last is a limitation the repository itself documents.

Some disagreements between the code and its documentation were met on the way
and need no run to see: `pipeline_trigger` starts the SQL Server DAG for SAP
events; the quarantine of `bronze_to_silver` is always
`bronze-to-silver-adhoc/` while `docs/hld/04_data_quality_hld.md:53` has a
directory per run; that document's line 29 quarantines failing rows only, the
code the whole batch, which it then promotes; `raw` is called immutable
(`docs/adr/ADR-001-s3-as-data-lake.md:33`) and is replaced by each run, and by
each batch of a stream, the third window of `LossOnlyInWindows`;
`execution_timeout` is no bound on a Glue job. A 503 or a lost connection that is
out of attempts ends the API job as a SUCCESS without a message, because
`ingest_api.py:89` names only `ApiRateLimitError` of the retryable errors, while
`docs/lld/10_failure_handling_lld.md:31` has such a failure stop the pipeline with
an alert and line 85 a FAILED row for every failure. It is the third case of
`OutcomeIsRecorded`; `ingestion_failure_audit` shows the same of `run_demo.py`.

Two assumptions are stronger than what the repository says. In
`IncrementalIngestion` no two modifications have one `modified_date`, while
`docs/lld/01_sqlserver_incremental_ingestion_lld.md:12` asks only that it grows
monotonically: a row that ties with the watermark and is committed after the
extract would be skipped by the `>` of the next one, and `NoRowSkipped` does not
say otherwise. `WarehouseLoad` leaves out the LEFT JOIN of `dim_store`
(`merge_fact_sales.sql:24`), where two rows of a store would give two rows for an
item, since `store_id` is not UNIQUE (`ddl_other_dimensions.sql:14-16`), and
takes it that an order has one staged row per item number; `FactKeyIsUnique`
rests on both.

## 6. Plan

Done: `IncrementalIngestion`, `BatchPipeline`, `StreamIngestion`, `CdcMerge`,
`CustomerDimension`, `ApiIngestion`, `WarehouseLoad`, the refinements of
`WatermarkLedger`, `Replica` and `ProfileTable`, and the theorems above, which
are all the safety properties of the runs. Left:

- CDC composed with the dimension (`run_scd2_demo.py`): deduplicated events as
  the staged batch, attributes with the renamed name column.

When the warehouse load runs relative to the watermark is not in the code (no
task starts it), so whether every row below the watermark reaches the facts,
which `docs/hld/02_batch_ingestion_hld.md` promises, can only be asked once a
scheduler for it exists.
