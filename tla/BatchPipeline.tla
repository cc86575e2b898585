---------------------------- MODULE BatchPipeline ----------------------------
(***************************************************************************)
(* The batch DAG (airflow/dags/retail_batch_pipeline.py) with the two Glue *)
(* jobs that change state, ingest_sqlserver and bronze_to_silver.          *)
(*                                                                         *)
(* Airflow starts a Glue job for an attempt of a task and waits for it. An *)
(* attempt that fails is retried; an attempt that exceeds its              *)
(* execution_timeout fails as well, but its Glue job goes on beside the    *)
(* job of the retry. Runs of the DAG overlap (max_active_runs=3). The jobs *)
(* share the control row and one part-000 file per zone of the lake.       *)
(***************************************************************************)
EXTENDS DataQuality

CONSTANTS
  DagRuns,      \* the runs of the DAG
  Jobs,         \* slots for Glue job runs
  NoRun,        \* no job: current_run_id before the first one
  Flaws,        \* the flaws of rows the source produces
  ColumnSets,   \* what the table's columns may be
  MaxRetries,   \* retries of a task
  MaxTime,      \* bound: modifications of the source
  MaxFailures   \* bound: exceptions, killed jobs, timeouts, failed tasks

ASSUME BatchAssumption ==
  /\ NoRun \notin Jobs \union DagRuns /\ Jobs \intersect DagRuns = {}
  /\ Flaws \subseteq Flaw /\ ColumnSets \subseteq SUBSET Columns
  /\ MaxRetries \in Nat /\ MaxTime \in Nat /\ MaxFailures \in Nat

VARIABLES
  source, clock, columns,              \* the orders table (external)
  watermark, currentRun, lastStatus,   \* its control_table row
  raw, bronze, silver,                 \* the zones of the lake
  quarantine,                          \* quarantine/{pipeline}/{run_id}/
  landed, quarantined,                 \* history: ever written to raw, ever
                                       \* to the quarantine
  task, try, running,                  \* each DAG run: its task, the retries
                                       \* used and the job of the attempt
  job,                                 \* each Glue job run: its local state
                                       \* and the status in its audit row
  failures

tableVars   == <<source, clock, columns>>
controlVars == <<watermark, currentRun, lastStatus>>
lakeVars    == <<raw, bronze, silver, quarantine, landed, quarantined>>
dagVars     == <<task, try, running>>
vars == <<tableVars, controlVars, lakeVars, dagVars, job, failures>>

NullWatermark == 0

GlueTasks == {"extract", "schema_validation"}
Tasks == GlueTasks \union {"update_control_table"}
Ended == {"success", "failed"}

IngestSteps == {"start", "get", "extract", "land", "gate", "complete", "exit"}
SilverSteps == {"read", "quarantine", "promote"}
Live == IngestSteps \union SilverSteps
JobOver == {"idle", "succeeded", "failed"}
Outcome == {"none", "committed", "rejected", "raised"}
Statuses == {"SUCCESS", "FAILED"}
JobRecord == [pc: Live \union JobOver, previous: Nat, batch: SUBSET Row,
              outcome: Outcome, audit: {"none"} \union Statuses]
Fresh(pc) == [pc |-> pc, previous |-> NullWatermark, batch |-> {},
              outcome |-> "none", audit |-> "none"]

Init ==
  /\ source = {} /\ clock = 0 /\ columns \in ColumnSets
  /\ watermark = NullWatermark /\ currentRun = NoRun /\ lastStatus = "NONE"
  /\ raw = {} /\ bronze = {} /\ silver = {} /\ quarantine = {}
  /\ landed = {} /\ quarantined = {}
  /\ task = [d \in DagRuns |-> "queued"]
  /\ try = [d \in DagRuns |-> 0]
  /\ running = [d \in DagRuns |-> NoRun]
  /\ job = [j \in Jobs |-> Fresh("idle")]
  /\ failures = 0

Failure == failures < MaxFailures /\ failures' = failures + 1

(***************************************************************************)
(* Outside the repository: the source table, and whatever replicates raw   *)
(* to bronze (no code here writes bronze/), by replacing or by appending.  *)
(***************************************************************************)
SourceWrite(key, flaw) ==
  /\ clock < MaxTime
  /\ clock' = clock + 1
  /\ source' = {row \in source : row.order_id # key \/ key = Null}
        \union {[order_id |-> key, modified_date |-> clock + 1, flaw |-> flaw]}
  /\ UNCHANGED <<columns, controlVars, lakeVars, dagVars, job, failures>>

LandBronze ==
  /\ bronze' \in {raw, bronze \union raw}
  /\ UNCHANGED <<tableVars, controlVars, raw, silver, quarantine, landed,
                 quarantined, dagVars, job, failures>>

(***************************************************************************)
(* Starting a run of the DAG: its schedule, or the pipeline_trigger        *)
(* Lambda, which turns away an event without a pipeline_name.              *)
(***************************************************************************)
DagOf ==
  [SQLSERVER |-> "retail_batch_pipeline", SAP |-> "retail_batch_pipeline",
   SUPPLIER_FILE |-> "product_pipeline", LEGACY_ARCHIVE |-> "sales_pipeline"]

ResolveDagId(system) ==
  IF system \in DOMAIN DagOf THEN DagOf[system] ELSE "retail_batch_pipeline"

Trigger(d, system, pipelineName) ==
  /\ pipelineName # Null
  /\ ResolveDagId(system) = "retail_batch_pipeline"
  /\ task[d] = "queued"
  /\ task' = [task EXCEPT ![d] = "extract"]
  /\ UNCHANGED <<tableVars, controlVars, lakeVars, try, running, job, failures>>

(***************************************************************************)
(* The tasks of a DAG run, in the order of the DAG. Those between          *)
(* schema_validation and update_control_table do nothing (lambda **_:      *)
(* None) or nothing to the state modelled here: their time and their       *)
(* failures are part of update_control_table's.                            *)
(***************************************************************************)
NextTask ==
  [extract              |-> "schema_validation",
   schema_validation    |-> "update_control_table",
   update_control_table |-> "success"]

TaskSucceeds(d) ==
  /\ task' = [task EXCEPT ![d] = NextTask[task[d]]]
  /\ try' = [try EXCEPT ![d] = 0]
  /\ running' = [running EXCEPT ![d] = NoRun]

\* A retry that is never counted.
AttemptUncounted(d) ==
  running' = [running EXCEPT ![d] = NoRun] /\ UNCHANGED <<task, try>>

\* One retry too many.
AttemptOnceMore(d) ==
  /\ running' = [running EXCEPT ![d] = NoRun]
  /\ IF try[d] <= MaxRetries
       THEN try' = [try EXCEPT ![d] = @ + 1] /\ UNCHANGED task
       ELSE task' = [task EXCEPT ![d] = "failed"] /\ UNCHANGED try

\* default_args: the task is retried until its retries are used up.
AttemptFails(d) ==
  /\ running' = [running EXCEPT ![d] = NoRun]
  /\ IF try[d] < MaxRetries
       THEN try' = [try EXCEPT ![d] = @ + 1] /\ UNCHANGED task
       ELSE task' = [task EXCEPT ![d] = "failed"] /\ UNCHANGED try

\* GlueJobOperator: an attempt starts a job run of its own.
StartJob(d, j) ==
  /\ task[d] \in GlueTasks /\ running[d] = NoRun
  /\ job[j].pc \in JobOver /\ \A other \in DagRuns : running[other] # j
  /\ running' = [running EXCEPT ![d] = j]
  /\ job' = [job EXCEPT ![j] = Fresh(IF task[d] = "extract" THEN "start"
                                                            ELSE "read")]
  /\ UNCHANGED <<tableVars, controlVars, lakeVars, task, try, failures>>

\* ... and polls it until it is over.
ObserveJob(d) ==
  /\ running[d] # NoRun
  /\ \/ job[running[d]].pc = "succeeded" /\ TaskSucceeds(d)
     \/ job[running[d]].pc = "failed"    /\ AttemptFails(d)
  /\ UNCHANGED <<tableVars, controlVars, lakeVars, job, failures>>

\* execution_timeout: Airflow gives the attempt up and leaves the job alone.
TimeOut(d) ==
  /\ running[d] # NoRun /\ job[running[d]].pc \in Live
  /\ Failure
  /\ AttemptFails(d)
  /\ UNCHANGED <<tableVars, controlVars, lakeVars, job>>

\* A task fails that no Glue job stands behind.
TaskFails(d) ==
  /\ task[d] = "update_control_table"
  /\ Failure
  /\ AttemptFails(d)
  /\ UNCHANGED <<tableVars, controlVars, lakeVars, job>>

\* complete_run of the control table: WHERE current_run_id = ?.
CompleteRun(id, status, newWatermark) ==
  /\ UNCHANGED currentRun
  /\ IF currentRun = id
       THEN /\ lastStatus' = status
            /\ watermark' = IF status = "SUCCESS" THEN newWatermark
                                                  ELSE watermark
       ELSE UNCHANGED <<lastStatus, watermark>>

\* The id of the ingestion that is registered.
RegisteredRun(d) == currentRun

\* conf.get("run_id", context["run_id"]): the trigger's conf has no run_id, so
\* it is Airflow's id of the DAG run, not the uuid the Glue job made.
ConfRunId(d) == d

\* _update_control_table: extract pushed no new_watermark to XCom.
UpdateControlTable(d) ==
  /\ task[d] = "update_control_table"
  /\ CompleteRun(ConfRunId(d), "SUCCESS", NullWatermark)
  /\ TaskSucceeds(d)
  /\ UNCHANGED <<tableVars, lakeVars, job, failures>>

(***************************************************************************)
(* ingest_sqlserver. Its steps are those of IncrementalIngestion with two  *)
(* differences: it gates the extract itself after landing it in raw, and   *)
(* COMMITTED is a mark in the guard, with nothing written at that stage.   *)
(***************************************************************************)
Step(j, from, to) == job[j].pc = from /\ job' = [job EXCEPT ![j].pc = to]

IngestStart(j) ==
  /\ Step(j, "start", "get")
  /\ currentRun' = j /\ lastStatus' = "RUNNING"
  /\ UNCHANGED <<tableVars, watermark, lakeVars, dagVars, failures>>

IngestGet(j) ==
  /\ job[j].pc = "get"
  /\ job' = [job EXCEPT ![j].pc = "extract", ![j].previous = watermark]
  /\ UNCHANGED <<tableVars, controlVars, lakeVars, dagVars, failures>>

IngestExtract(j) ==
  /\ job[j].pc = "extract"
  /\ job' = [job EXCEPT ![j].pc = "land",
               ![j].batch = {row \in source :
                               row.modified_date > job[j].previous}]
  /\ UNCHANGED <<tableVars, controlVars, lakeVars, dagVars, failures>>

\* write_dataframe replaces part-000 of the prefix.
IngestLand(j) ==
  /\ Step(j, "land", "gate")
  /\ raw' = job[j].batch
  /\ landed' = landed \union job[j].batch
  /\ UNCHANGED <<tableVars, controlVars, bronze, silver, quarantine,
                 quarantined, dagVars, failures>>

\* enforce raises DataQualityError on a CRITICAL failure. The reconciliation
\* of the frame with itself passes.
IngestGate(j) ==
  /\ job[j].pc = "gate"
  /\ job' = [job EXCEPT ![j].pc = "complete",
               ![j].outcome = IF BlocksPromotion(columns, job[j].batch)
                                THEN "rejected" ELSE "committed"]
  /\ UNCHANGED <<tableVars, controlVars, lakeVars, dagVars, failures>>

\* Any other exception reaches the finally block with status "SUCCESS".
IngestRaise(j) ==
  /\ job[j].pc \in {"extract", "land", "gate"}
  /\ Failure
  /\ job' = [job EXCEPT ![j].pc = "complete", ![j].outcome = "raised"]
  /\ UNCHANGED <<tableVars, controlVars, lakeVars, dagVars>>

\* The time of the job, where the code takes the time of what it extracted.
NowAsWatermark(rows, w) == {clock}

\* str(df[watermark_column].max()), or the previous watermark of an empty
\* extract: a singleton.
MaxModified(rows, w) ==
  IF rows = {} THEN {w}
  ELSE {t \in {row.modified_date : row \in rows} :
          \A row \in rows : row.modified_date <= t}

\* A guard that resolves to the new watermark whatever the stage.
ResolvedUnguarded(j) == MaxModified(job[j].batch, job[j].previous)

ResolvedWatermark(j) ==
  IF job[j].outcome = "committed" THEN MaxModified(job[j].batch, job[j].previous)
                                  ELSE {job[j].previous}

Status(j) == IF job[j].outcome = "rejected" THEN "FAILED" ELSE "SUCCESS"

IngestComplete(j) ==
  /\ Step(j, "complete", "exit")
  /\ \E w \in ResolvedWatermark(j) : CompleteRun(j, Status(j), w)
  /\ UNCHANGED <<tableVars, lakeVars, dagVars, failures>>

JobEnds(j, result) == job' = [job EXCEPT ![j] = Fresh(result)]

\* audit.write, and then SystemExit(1) of a rejected batch, or the exception
\* that was raised goes on.
IngestExit(j) ==
  /\ job[j].pc = "exit"
  /\ job' = [job EXCEPT ![j] =
       [Fresh(IF job[j].outcome = "committed" THEN "succeeded" ELSE "failed")
          EXCEPT !.audit = Status(j)]]
  /\ UNCHANGED <<tableVars, controlVars, lakeVars, dagVars, failures>>

(***************************************************************************)
(* bronze_to_silver.                                                       *)
(***************************************************************************)
\* dropna(subset=key).drop_duplicates(keep="last"): one row of each key, and
\* which one depends on the order of the files.
Deduped(rows) ==
  {s \in SUBSET {row \in rows : row.order_id # Null} :
     /\ Values(s, "order_id") = Values(rows, "order_id") \ {Null}
     /\ Unique(s, "order_id")}

\* A job that promotes a batch without looking at its ERROR failures.
PromoteAnyway(rows) == "promote"

\* ERROR failures lead to the quarantine first; CRITICAL ones are not
\* enforced here.
AfterQuality(rows) ==
  IF Failures(columns, rows, "ERROR") # {} THEN "quarantine" ELSE "promote"

SilverRead(j) ==
  /\ job[j].pc = "read"
  /\ \/ bronze = {} /\ JobEnds(j, "succeeded")
     \/ /\ bronze # {}
        /\ \E rows \in Deduped(bronze) :
             job' = [job EXCEPT ![j].pc = AfterQuality(rows), ![j].batch = rows]
  /\ UNCHANGED <<tableVars, controlVars, lakeVars, dagVars, failures>>

\* quarantine_records under the run_id "bronze-to-silver-adhoc": the file of
\* the last run is replaced, and no records write nothing.
SilverQuarantine(j) ==
  /\ Step(j, "quarantine", "promote")
  /\ quarantine' = IF job[j].batch = {} THEN quarantine ELSE job[j].batch
  /\ quarantined' = quarantined \union job[j].batch
  /\ UNCHANGED <<tableVars, controlVars, raw, bronze, silver, landed, dagVars,
                 failures>>

\* The whole batch is promoted, quarantined or not.
SilverPromote(j) ==
  /\ job[j].pc = "promote"
  /\ silver' = job[j].batch
  /\ JobEnds(j, "succeeded")
  /\ UNCHANGED <<tableVars, controlVars, raw, bronze, quarantine, landed,
                 quarantined, dagVars, failures>>

\* A job is killed, or bronze_to_silver raises.
Crash(j) ==
  /\ job[j].pc \in Live
  /\ Failure
  /\ JobEnds(j, "failed")
  /\ UNCHANGED <<tableVars, controlVars, lakeVars, dagVars>>

(***************************************************************************)
(* The system.                                                             *)
(***************************************************************************)
JobStep(j) ==
  \/ IngestStart(j) \/ IngestGet(j) \/ IngestExtract(j) \/ IngestLand(j)
  \/ IngestGate(j) \/ IngestComplete(j) \/ IngestExit(j)
  \/ SilverRead(j) \/ SilverQuarantine(j) \/ SilverPromote(j)

DagStep(d) ==
  \/ \E j \in Jobs : StartJob(d, j)
  \/ ObserveJob(d) \/ UpdateControlTable(d)

External ==
  \/ \E key \in Keys \union {Null}, flaw \in Flaws : SourceWrite(key, flaw)
  \/ LandBronze
  \/ \E d \in DagRuns, system \in DOMAIN DagOf \union {"UNKNOWN"},
        pipelineName \in {"sqlserver_orders_incremental", Null} :
       Trigger(d, system, pipelineName)

Next ==
  \/ External
  \/ \E d \in DagRuns : DagStep(d) \/ TimeOut(d) \/ TaskFails(d)
  \/ \E j \in Jobs : JobStep(j) \/ IngestRaise(j) \/ Crash(j)

Spec == Init /\ [][Next]_vars

\* A job that is not killed goes on, and Airflow's scheduler gets to every
\* task. None for the source, for triggers, or for failures.
Fairness ==
  /\ \A j \in Jobs : WF_vars(JobStep(j))
  /\ \A d \in DagRuns : WF_vars(DagStep(d))
FairSpec == Spec /\ Fairness
-----------------------------------------------------------------------------
(***************************************************************************)
(* Properties.                                                             *)
(***************************************************************************)
\* Every variable has its type.
TypeOK ==
  /\ source \in SUBSET Row /\ clock \in Nat /\ columns \in SUBSET Columns
  /\ watermark \in Nat /\ currentRun \in Jobs \union {NoRun}
  /\ lastStatus \in {"NONE", "RUNNING"} \union Statuses
  /\ raw \in SUBSET Row /\ bronze \in SUBSET Row /\ silver \in SUBSET Row
  /\ quarantine \in SUBSET Row
  /\ landed \in SUBSET Row /\ quarantined \in SUBSET Row
  /\ task \in [DagRuns -> {"queued"} \union Tasks \union Ended]
  /\ try \in [DagRuns -> 0..MaxRetries]
  /\ running \in [DagRuns -> Jobs \union {NoRun}]
  /\ job \in [Jobs -> JobRecord]
  /\ failures \in Nat

\* No extract passes a row over: a row at or below the watermark has been
\* written to raw in its present version, whatever retries, jobs that outlive
\* their attempt, overlapping DAG runs and update_control_table tasks did.
LandedBelowWatermark ==
  \A row \in source : row.modified_date <= watermark => row \in landed

\* What the control table promises its readers: the watermark moves forward
\* only, and only over rows that have been written to raw.
Ledger == INSTANCE WatermarkLedger WITH delivered <- landed
ImplementsLedger == Ledger!Spec

\* Nothing that lacks a CRITICAL column is ever behind the watermark: the
\* gate stands between the extract and complete_run in every interleaving.
CriticalColumns == {"order_id", "customer_id", "order_date", "amount"}
CommittedRowsAreComplete ==
  \A row \in source : row.modified_date <= watermark =>
    \A c \in CriticalColumns : c \in columns /\ Value(row, c) # Null

\* No step of any DAG run takes the watermark back, the update_control_table
\* task with its missing new_watermark included.
WatermarkOnlyAdvances == [][watermark' >= watermark]_vars

\* Silver may hold rows that break a rule of severity ERROR, but never rows
\* that were not put into the quarantine first.
BadSilverWasQuarantined ==
  Failures(columns, silver, "ERROR") # {} => silver \subseteq quarantined

\* Every run of the DAG ends, in success or in failure: retries run out, and
\* a job that outlives its attempt gives its slot back.
DagRunsEnd == \A d \in DagRuns : task[d] = "extract" ~> task[d] \in Ended
=============================================================================
