------------------------ MODULE IncrementalIngestion ------------------------
(***************************************************************************)
(* The watermark-incremental ingestion of one pipeline                     *)
(* (src/ingestion/sqlserver/run_demo.py with src/common/audit.py and       *)
(* src/common/idempotency.py).                                             *)
(*                                                                         *)
(* A run registers itself in the control table, reads the last successful  *)
(* watermark, extracts the source rows modified after it, lands them in    *)
(* the lake, gates them on data quality and reconciliation, commits them   *)
(* to the Redshift staging prefix and, in the `finally` block, finalises   *)
(* the control row and writes an audit row. Several runs of one pipeline   *)
(* may be in flight (the DAG has max_active_runs=3, and a run is a plain   *)
(* process that anybody can start), the source keeps changing meanwhile,   *)
(* a step may raise, and a process may be killed between any two steps.    *)
(*                                                                         *)
(* A run is a slot of Runs. A slot whose run is over is used again for a   *)
(* new run, which has a new uuid: the uuid of a dead run is compared with  *)
(* nothing any more, so the slot can stand for it.                         *)
(***************************************************************************)
EXTENDS Naturals, FiniteSets

CONSTANTS
  Runs,         \* slots for concurrent runs of the pipeline
  Keys,         \* primary keys of the source table
  NullKey,      \* the missing primary key (a NULL order_id)
  NoRun,        \* current_run_id of a pipeline that never ran
  MaxTime,      \* bound: the source is modified at most MaxTime times
  MaxFailures   \* bound: uncaught exceptions and killed processes

ASSUME ConstantsAssumption ==
  /\ NoRun \notin Runs
  /\ NullKey \notin Keys
  /\ MaxTime \in Nat
  /\ MaxFailures \in Nat

VARIABLES
  \* the source table (external) and its clock
  source,      \* the set of rows in the source table
  clock,       \* the latest modified_date the source has given out
  \* the pipeline's control_table row
  watermark,   \* last_successful_watermark; 0 is NULL
  currentRun,  \* current_run_id
  lastStatus,  \* last_run_status
  \* the lake: the single file part-000.parquet under each prefix
  raw, silver, staging,
  \* the audit_log row of the run in each slot
  audit,
  \* the local variables of each run
  pc, stage, previous, batch, clean, newWatermark, status, existing,
  \* history and bounds
  delivered,   \* every row ever committed to staging
  raised,      \* the runs that an uncaught exception is unwinding
  failures

controlVars == <<watermark, currentRun, lastStatus>>
lakeVars    == <<raw, silver, staging, delivered>>
sourceVars  == <<source, clock>>
localVars   == <<stage, previous, batch, clean, newWatermark, status,
                 existing, raised>>
vars == <<sourceVars, controlVars, lakeVars, localVars, audit, pc, failures>>

(***************************************************************************)
(* Values.                                                                 *)
(***************************************************************************)
Watermark == Nat
NullWatermark == 0

\* A row: its key, its modified_date and whether it breaks a CRITICAL rule
\* of the dq profile.
Row == [key: Keys \union {NullKey}, modified_date: Nat \ {0}, bad: BOOLEAN]

RunStage == {"STARTED", "EXTRACTED", "WRITTEN", "DQ_PASSED", "RECONCILED",
             "COMMITTED"}
RunStatus == {"SUCCESS", "FAILED"}

\* The steps inside the try block, each named by what it does next.
TrySteps == {"extract", "land", "cleanse", "quality", "reconcile", "commit"}
\* The steps of the finally block.
FinallySteps == {"finalize", "update", "audit"}
Live == {"get"} \union TrySteps \union FinallySteps
Over == {"idle", "done", "crashed"}

AuditRow == [status: RunStatus, before: Watermark, after: Watermark,
             error: BOOLEAN]
NoAudit == [status |-> "NONE"]

(***************************************************************************)
(* The functions of the code.                                              *)
(***************************************************************************)
\* A guard that lets the watermark through one stage too early.
MayAdvanceEarly(r) == stage[r] \in {"RECONCILED", "COMMITTED"}

\* WatermarkCommitGuard.may_advance_watermark and resolved_watermark.
MayAdvanceWatermark(r) == stage[r] = "COMMITTED"

\* A guard that resolves to the new watermark whatever the stage.
ResolvedUnguarded(r) == newWatermark[r]

\* A guard that keeps the previous watermark even when COMMITTED.
ResolvedFrozen(r) == previous[r]

ResolvedWatermark(r) ==
  IF MayAdvanceWatermark(r) THEN newWatermark[r] ELSE previous[r]

\* read_incremental: the rows modified strictly after the watermark.
ModifiedSince(w) == {row \in source : row.modified_date > w}

\* str(df[...].max()) without the test for an empty extract: "nan", a missing
\* value like the key of a row that has none.
MaxUnguarded(rows, w) ==
  IF rows = {} THEN {NullKey}
  ELSE {t \in {row.modified_date : row \in rows} :
          \A row \in rows : row.modified_date <= t}

\* str(df[watermark_column].max()), or the previous watermark of an empty
\* extract: a singleton.
MaxModified(rows, w) ==
  IF rows = {} THEN {w}
  ELSE {t \in {row.modified_date : row \in rows} :
          \A row \in rows : row.modified_date <= t}

\* dropna(subset=["order_id"]).drop_duplicates(keep="last"): rows without a
\* key go, and one row of each key stays. Which one depends on the order of
\* the source file, not on modified_date.
Cleansed(rows) ==
  {s \in SUBSET {row \in rows : row.key # NullKey} :
     \A row \in rows : row.key # NullKey =>
       /\ \E kept \in s : kept.key = row.key
       /\ \A a, b \in s : a.key = b.key => a = b}

(***************************************************************************)
(* Initial state: no control row, nothing in the lake.                     *)
(***************************************************************************)
Init ==
  /\ source = {} /\ clock = 0
  /\ watermark = NullWatermark /\ currentRun = NoRun /\ lastStatus = "NONE"
  /\ raw = {} /\ silver = {} /\ staging = {} /\ delivered = {}
  /\ audit = [r \in Runs |-> NoAudit]
  /\ pc = [r \in Runs |-> "idle"]
  /\ stage = [r \in Runs |-> "STARTED"]
  /\ previous = [r \in Runs |-> NullWatermark]
  /\ batch = [r \in Runs |-> {}]
  /\ clean = [r \in Runs |-> {}]
  /\ newWatermark = [r \in Runs |-> NullWatermark]
  /\ status = [r \in Runs |-> "SUCCESS"]
  /\ existing = [r \in Runs |-> NullWatermark]
  /\ raised = {} /\ failures = 0

\* The process of run r ends and its local variables with it.
Exit(r, to) ==
  /\ pc' = [pc EXCEPT ![r] = to]
  /\ stage' = [stage EXCEPT ![r] = "STARTED"]
  /\ previous' = [previous EXCEPT ![r] = NullWatermark]
  /\ batch' = [batch EXCEPT ![r] = {}]
  /\ clean' = [clean EXCEPT ![r] = {}]
  /\ newWatermark' = [newWatermark EXCEPT ![r] = NullWatermark]
  /\ status' = [status EXCEPT ![r] = "SUCCESS"]
  /\ existing' = [existing EXCEPT ![r] = NullWatermark]

Goto(r, from, to) == pc[r] = from /\ pc' = [pc EXCEPT ![r] = to]
Advance(r, next)  == stage' = [stage EXCEPT ![r] = next]

(***************************************************************************)
(* The source. Its modified_date column is strictly increasing. The LLD    *)
(* says monotonically (docs/lld/01_sqlserver_incremental_ingestion_lld.md, *)
(* line 12): rows of one modified_date are outside the model.              *)
(***************************************************************************)
\* A row is inserted, or updated in place when its key is already there.
SourceWrite(k, bad) ==
  /\ clock < MaxTime
  /\ clock' = clock + 1
  /\ source' = {row \in source : row.key # k}
                 \union {[key |-> k, modified_date |-> clock + 1, bad |-> bad]}
  /\ UNCHANGED <<controlVars, lakeVars, localVars, audit, pc, failures>>

\* A second row with a key the table already holds, or a row without a key:
\* nothing between the table and the extract forbids either.
SourceDuplicate(k) ==
  /\ clock < MaxTime
  /\ k = NullKey \/ \E row \in source : row.key = k
  /\ clock' = clock + 1
  /\ source' = source
                 \union {[key |-> k, modified_date |-> clock + 1, bad |-> FALSE]}
  /\ UNCHANGED <<controlVars, lakeVars, localVars, audit, pc, failures>>

(***************************************************************************)
(* The run.                                                                *)
(***************************************************************************)
\* control.start_run. Its read of the existing row matters only when there
\* is none, and then the INSERT stores NULL or, when another run got there
\* first, becomes the UPDATE that leaves the watermark alone.
StartRun(r) ==
  /\ pc[r] \in Over
  /\ pc' = [pc EXCEPT ![r] = "get"]
  /\ currentRun' = r
  /\ lastStatus' = "RUNNING"
  /\ raised' = raised \ {r}
  /\ audit' = [audit EXCEPT ![r] = NoAudit]
  /\ UNCHANGED <<sourceVars, watermark, lakeVars, stage, previous, batch,
                 clean, newWatermark, status, existing, failures>>

\* control.get, in a transaction of its own, and the guard made from it.
ReadWatermark(r) ==
  /\ Goto(r, "get", "extract")
  /\ previous' = [previous EXCEPT ![r] = watermark]
  /\ newWatermark' = [newWatermark EXCEPT ![r] = watermark]
  /\ UNCHANGED <<sourceVars, controlVars, lakeVars, stage, batch, clean,
                 status, existing, raised, audit, failures>>

\* extract_incremental, then new_watermark = str(df[...].max()).
Extract(r) ==
  LET rows == ModifiedSince(previous[r]) IN
  /\ Goto(r, "extract", "land")
  /\ batch' = [batch EXCEPT ![r] = rows]
  /\ \E w \in MaxModified(rows, previous[r]) :
       newWatermark' = [newWatermark EXCEPT ![r] = w]
  /\ Advance(r, "EXTRACTED")
  /\ UNCHANGED <<sourceVars, controlVars, lakeVars, previous, clean, status,
                 existing, raised, audit, failures>>

\* write_dataframe replaces part-000 of the prefix, whoever wrote it.
LandRaw(r) ==
  /\ Goto(r, "land", "cleanse")
  /\ raw' = batch[r]
  /\ UNCHANGED <<sourceVars, controlVars, silver, staging, delivered,
                 localVars, audit, failures>>

\* silver_df, written to the silver zone before any rule has looked at it.
WriteSilver(r) ==
  /\ Goto(r, "cleanse", "quality")
  /\ \E s \in Cleansed(batch[r]) :
       /\ clean' = [clean EXCEPT ![r] = s]
       /\ silver' = s
  /\ Advance(r, "WRITTEN")
  /\ UNCHANGED <<sourceVars, controlVars, raw, staging, delivered, previous,
                 batch, newWatermark, status, existing, raised, audit,
                 failures>>

\* The except branch: DataQualityError and ReconciliationError, no others.
FailRun(r, from) ==
  /\ Goto(r, from, "finalize")
  /\ status' = [status EXCEPT ![r] = "FAILED"]
  /\ UNCHANGED <<sourceVars, controlVars, lakeVars, stage, previous, batch,
                 clean, newWatermark, existing, raised, audit, failures>>

PassGate(r, from, to, next) ==
  /\ Goto(r, from, to)
  /\ Advance(r, next)
  /\ UNCHANGED <<sourceVars, controlVars, lakeVars, previous, batch, clean,
                 newWatermark, status, existing, raised, audit, failures>>

\* An enforce() that never blocks promotion.
QualityIgnored(r) == r \in Runs

\* run_data_quality on silver_df and enforce: a CRITICAL failure raises.
QualityPasses(r) == \A row \in clean[r] : ~row.bad
CheckQuality(r) ==
  \/ QualityPasses(r)  /\ PassGate(r, "quality", "reconcile", "DQ_PASSED")
  \/ ~QualityPasses(r) /\ FailRun(r, "quality")

\* run_reconciliation(df, silver_df) under orders_daily: the counts of the
\* extract and of the cleansed rows agree with no tolerance.
Reconciles(r) == Cardinality(clean[r]) = Cardinality(batch[r])
Reconcile(r) ==
  \/ Reconciles(r)  /\ PassGate(r, "reconcile", "commit", "RECONCILED")
  \/ ~Reconciles(r) /\ FailRun(r, "reconcile")

\* The staging commit: part-000 of redshift_staging/stg_orders is replaced.
CommitStaging(r) ==
  /\ Goto(r, "commit", "finalize")
  /\ staging' = clean[r]
  /\ delivered' = delivered \union clean[r]
  /\ Advance(r, "COMMITTED")
  /\ UNCHANGED <<sourceVars, controlVars, raw, silver, previous, batch,
                 clean, newWatermark, status, existing, raised, audit,
                 failures>>

\* Any other exception (SourceUnavailableError after the last retry, a lake
\* I/O error): only the finally block runs, with status still "SUCCESS".
RaiseUncaught(r) ==
  /\ pc[r] \in TrySteps
  /\ failures < MaxFailures
  /\ failures' = failures + 1
  /\ pc' = [pc EXCEPT ![r] = "finalize"]
  /\ raised' = raised \union {r}
  /\ UNCHANGED <<sourceVars, controlVars, lakeVars, stage, previous, batch,
                 clean, newWatermark, status, existing, audit>>

\* complete_run, first transaction: the existing row is read.
CompleteRead(r) ==
  /\ Goto(r, "finalize", "update")
  /\ existing' = [existing EXCEPT ![r] = watermark]
  /\ UNCHANGED <<sourceVars, controlVars, lakeVars, stage, previous, batch,
                 clean, newWatermark, status, raised, audit, failures>>

\* The UPDATE without AND current_run_id = ?.
OwnsUnfenced(r) == r \in Runs

\* complete_run, second transaction: UPDATE ... WHERE current_run_id = ?
\* changes no row once a later run has registered itself.
OwnsControlRow(r) == currentRun = r
CompleteUpdate(r) ==
  /\ Goto(r, "update", "audit")
  /\ IF OwnsControlRow(r)
       THEN /\ watermark' = IF status[r] = "SUCCESS"
                              THEN ResolvedWatermark(r) ELSE existing[r]
            /\ lastStatus' = status[r]
       ELSE UNCHANGED <<watermark, lastStatus>>
  /\ UNCHANGED <<sourceVars, currentRun, lakeVars, localVars, audit,
                 failures>>

\* audit.write, whatever the UPDATE did.
WriteAudit(r) ==
  /\ pc[r] = "audit"
  /\ Exit(r, "done")
  /\ audit' = [audit EXCEPT ![r] =
                 [status |-> status[r], before |-> previous[r],
                  after |-> ResolvedWatermark(r),
                  error |-> status[r] = "FAILED"]]
  /\ UNCHANGED <<sourceVars, controlVars, lakeVars, raised, failures>>

\* The process is killed (a lost Glue worker, an OOM): nothing more runs.
Crash(r) ==
  /\ pc[r] \in Live
  /\ failures < MaxFailures
  /\ failures' = failures + 1
  /\ Exit(r, "crashed")
  /\ UNCHANGED <<sourceVars, controlVars, lakeVars, raised, audit>>

\* The steps of a process that is running.
RunStep(r) ==
  \/ ReadWatermark(r) \/ Extract(r) \/ LandRaw(r) \/ WriteSilver(r)
  \/ CheckQuality(r) \/ Reconcile(r) \/ CommitStaging(r) \/ CompleteRead(r)
  \/ CompleteUpdate(r) \/ WriteAudit(r)

SourceStep ==
  \/ \E k \in Keys, bad \in BOOLEAN : SourceWrite(k, bad)
  \/ \E k \in Keys \union {NullKey} : SourceDuplicate(k)

Next ==
  \/ \E r \in Runs : StartRun(r) \/ RunStep(r) \/ RaiseUncaught(r) \/ Crash(r)
  \/ SourceStep

Spec == Init /\ [][Next]_vars

\* The schedule starts another run when none is in flight, and a process
\* that is not killed goes on. Overlap is possible, not forced. No fairness
\* for the source, for exceptions or for kills.
AllOver == \A r \in Runs : pc[r] \in Over
Schedule == AllOver /\ \E r \in Runs : StartRun(r)
Fairness == WF_vars(Schedule) /\ \A r \in Runs : WF_vars(RunStep(r))
FairSpec == Spec /\ Fairness
-----------------------------------------------------------------------------
(***************************************************************************)
(* Properties.                                                             *)
(***************************************************************************)
\* Every variable has its type.
TypeOK ==
  /\ source \in SUBSET Row /\ clock \in Nat
  /\ watermark \in Watermark
  /\ currentRun \in Runs \union {NoRun}
  /\ lastStatus \in {"NONE", "RUNNING"} \union RunStatus
  /\ raw \in SUBSET Row /\ silver \in SUBSET Row
  /\ staging \in SUBSET Row /\ delivered \in SUBSET Row
  /\ audit \in [Runs -> AuditRow \union {NoAudit}]
  /\ pc \in [Runs -> Live \union Over]
  /\ stage \in [Runs -> RunStage]
  /\ previous \in [Runs -> Watermark]
  /\ batch \in [Runs -> SUBSET Row]
  /\ clean \in [Runs -> SUBSET Row]
  /\ newWatermark \in [Runs -> Watermark]
  /\ status \in [Runs -> RunStatus]
  /\ existing \in [Runs -> Watermark]
  /\ raised \in SUBSET Runs
  /\ failures \in Nat

\* A source row at or below the watermark was committed to staging in its
\* present version: no later extract would ever look at it again. Runs that
\* overlap, fail, raise or are killed at any step do not break this.
NoRowSkipped ==
  \A row \in source : row.modified_date <= watermark => row \in delivered

\* What stands in staging passed the gates of one run: no row breaks a
\* CRITICAL rule, none lacks its key, and no key occurs twice.
StagingPassedGates ==
  \A row \in staging :
    /\ ~row.bad /\ row.key # NullKey
    /\ \A other \in staging : other.key = row.key => other = row

\* The control row and the audit row of the run it names tell one story
\* when that run is over: same status, and the audited watermark_after is
\* the watermark the next run starts from.
AuditAgreesWithControl ==
  \A r \in Runs : currentRun = r /\ pc[r] = "done" =>
    lastStatus = audit[r].status /\ watermark = audit[r].after

\* No step moves the watermark back, although complete_run writes a value
\* that its run read or computed many steps earlier.
WatermarkNeverRegresses == [][watermark' >= watermark]_vars

\* A run that did not reach COMMITTED finalises the control row without
\* changing the watermark, whether it failed a gate or raised.
UncommittedRunFreezesWatermark ==
  [][\A r \in Runs : CompleteUpdate(r) /\ stage[r] # "COMMITTED"
                      => watermark' = watermark]_vars

\* Rows that no run can take past the gates: one of them blocks the window.
Blocked ==
  \E row \in ModifiedSince(watermark) :
    \/ row.bad
    \/ row.key = NullKey
    \/ \E other \in ModifiedSince(watermark) \ {row} : other.key = row.key

\* Again and again every row of the source has been committed to staging,
\* unless the window is blocked: overlapping runs may supersede each other
\* but each of them delivers.
RowsDelivered == []<>(Blocked \/ source \subseteq delivered)

\* Once runs no longer overlap, the watermark itself catches up with the
\* source, unless the window is blocked. (While they do overlap they may
\* supersede each other for ever.)
CaughtUp == \A row \in source : row.modified_date <= watermark
NoOverlap == \A r, s \in Runs : pc[r] \in Live /\ pc[s] \in Live => r = s
WatermarkCatchesUp == <>[]NoOverlap => []<>(Blocked \/ CaughtUp)

\* The runs, the lake and the failures implement the abstract ledger.
Ledger == INSTANCE WatermarkLedger
ImplementsLedger == Ledger!Spec

(***************************************************************************)
(* Statements of the documentation that the code does not keep.            *)
(***************************************************************************)
\* "Every failure path writes an audit.pipeline_run_log row with status =
\* FAILED and a populated error_message"
\* (docs/lld/10_failure_handling_lld.md:85).
FailureIsAudited ==
  \A r \in raised : pc[r] = "done" => audit[r].status = "FAILED" /\ audit[r].error

\* "Duplicate rows within one extract window: deduped by primary key", so
\* they do not stand in the way
\* (docs/lld/01_sqlserver_incremental_ingestion_lld.md:158).
DuplicatesAreIngested ==
  []<>(CaughtUp \/ \E row \in source : row.bad \/ row.key = NullKey)
=============================================================================
