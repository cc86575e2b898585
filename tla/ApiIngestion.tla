---------------------------- MODULE ApiIngestion ----------------------------
(***************************************************************************)
(* The ingestion of a REST feed (glue/jobs/ingest_api.py): the commit      *)
(* protocol of the other jobs around RestApiClient.fetch_all.              *)
(*                                                                         *)
(* The feed is fetched whole each time, whatever the watermark: unlike the *)
(* rows of a SQL table, what it serves may shrink between two runs. Runs   *)
(* follow each other here; runs that overlap are the subject of            *)
(* IncrementalIngestion, whose control table this is. The job itself       *)
(* passes a sleep_fn that does not sleep and no validate_record; the model *)
(* covers callers that pass others as well.                                *)
(***************************************************************************)
EXTENDS RestApiClient

CONSTANTS
  NullCode,     \* the missing promo_code
  MaxRuns,      \* bound: runs of the job
  MaxFailures   \* bound: uncaught exceptions and killed processes

\* Of a record, its promo_code and its updated_at.
ASSUME RecordsAssumption ==
  /\ \A r \in Records : r.updated_at \in Nat \ {0}
  /\ MaxRuns \in Nat /\ MaxFailures \in Nat

VARIABLES
  step,          \* the next step of the job
  watermark,     \* last_successful_watermark; 0 is NULL
  lastStatus,    \* last_run_status
  raw,           \* part-000 of the raw prefix
  stage, status, newWatermark,  \* locals of the job
  raised,        \* the exception that left its try block, or "none"
  auditRow,      \* the audit_log row of the run
  runs, failures

controlVars == <<watermark, lastStatus>>
localVars   == <<stage, status, newWatermark, raised>>
boundVars   == <<runs, failures>>
jobVars     == <<step, controlVars, raw, localVars, auditRow, boundVars>>
vars        == <<clientVars, jobVars>>

Stages == {"STARTED", "EXTRACTED", "WRITTEN", "DQ_PASSED", "COMMITTED"}
TrySteps == {"fetch", "land", "quality", "reconcile"}
Live == TrySteps \union {"finalize", "audit"}
Over == {"idle", "done", "crashed"}
NoAudit == [status |-> "NONE", error |-> FALSE]

Init ==
  /\ ClientInit
  /\ step = "idle"
  /\ watermark = 0 /\ lastStatus = "NONE" /\ raw = <<>>
  /\ stage = "STARTED" /\ status = "SUCCESS" /\ newWatermark = 0
  /\ raised = "none"
  /\ auditRow = NoAudit /\ runs = 0 /\ failures = 0

\* start_run, get, the guard, and the call of fetch_all. previous_watermark
\* stays equal to the watermark until the run finalises the control row.
StartRun ==
  /\ step \in Over
  /\ runs < MaxRuns
  /\ runs' = runs + 1
  /\ step' = "fetch"
  /\ lastStatus' = "RUNNING"
  /\ stage' = "STARTED" /\ status' = "SUCCESS" /\ newWatermark' = watermark
  /\ raised' = "none" /\ auditRow' = NoAudit
  /\ StartFetch
  /\ UNCHANGED <<watermark, raw, failures>>

Fetch ==
  /\ step = "fetch"
  /\ FetchStep
  /\ UNCHANGED jobVars

\* The updated_at of the record that was served last.
LastModified == yielded[Len(yielded)].updated_at

\* str(df["updated_at"].max()).
LatestModified == Max({yielded[i].updated_at : i \in DOMAIN yielded})

\* A job that lands what the generator yielded before it raised.
FetchedSome == pc = "done" \/ (pc = "failed" /\ yielded # <<>>)

\* list(fetch_all(...)) has all records or raises.
FetchedAll == pc = "done"
Extract ==
  /\ step = "fetch" /\ FetchedAll
  /\ step' = "land"
  /\ stage' = "EXTRACTED"
  /\ newWatermark' = IF yielded = <<>> THEN watermark ELSE LatestModified
  /\ CloseClient
  /\ UNCHANGED <<controlVars, raw, status, raised, auditRow, boundVars>>

\* The except clause of the other two jobs, none of which fetch_all raises.
CaughtElsewhere(e) == e \in {"DataQualityError", "ReconciliationError"}

\* The except clause of this job names one of the RetryableErrors.
Caught(e) == e \in {"DataQualityError", "ReconciliationError",
                    "ApiRateLimitError", "NonRetryableError"}

\* An exception leaves the try block. The finally block is next whether or
\* not the except clause has set the status.
Raise(e) ==
  /\ step' = "finalize"
  /\ raised' = e
  /\ status' = IF Caught(e) THEN "FAILED" ELSE status
  /\ UNCHANGED <<controlVars, raw, stage, newWatermark, auditRow>>

FetchRaises ==
  /\ step = "fetch" /\ pc = "failed"
  /\ Raise(error)
  /\ CloseClient
  /\ UNCHANGED boundVars

LandRaw ==
  /\ step = "land"
  /\ step' = "quality"
  /\ raw' = yielded
  /\ stage' = "WRITTEN"
  /\ UNCHANGED <<clientVars, controlVars, status, newWatermark, raised,
                 auditRow, boundVars>>

\* NOT_NULL and UNIQUE of promo_code, both CRITICAL. A frame of no records
\* has no such column either, which fails both.
Gated(records) ==
  /\ records # <<>>
  /\ \A i \in DOMAIN records : records[i].code # NullCode
  /\ \A i, j \in DOMAIN records : records[i].code = records[j].code => i = j

PassGate(from, to, next) ==
  /\ step = from
  /\ step' = to
  /\ stage' = next
  /\ UNCHANGED <<clientVars, controlVars, raw, status, newWatermark, raised,
                 auditRow, boundVars>>

CheckQuality ==
  \/ Gated(yielded) /\ PassGate("quality", "reconcile", "DQ_PASSED")
  \/ /\ ~Gated(yielded) /\ step = "quality"
     /\ Raise("DataQualityError")
     /\ UNCHANGED <<clientVars, boundVars>>

\* run_reconciliation(df, df) counts the same frame twice and always
\* passes; RECONCILED and COMMITTED follow at once.
Reconcile == PassGate("reconcile", "finalize", "COMMITTED")

\* An exception of the try block outside fetch_all, of the lake for one,
\* that is not one of the platform's.
RaiseUncaught ==
  /\ step \in TrySteps /\ pc \in {"idle", "done"}
  /\ failures < MaxFailures
  /\ failures' = failures + 1
  /\ Raise("Exception")
  /\ CloseClient
  /\ UNCHANGED runs

\* A guard that resolves to the new watermark whatever the stage.
ResolvedUnguarded == newWatermark

ResolvedWatermark == IF stage = "COMMITTED" THEN newWatermark ELSE watermark

\* complete_run.
CompleteRun ==
  /\ step = "finalize"
  /\ step' = "audit"
  /\ watermark' = IF status = "SUCCESS" THEN ResolvedWatermark ELSE watermark
  /\ lastStatus' = status
  /\ UNCHANGED <<clientVars, raw, localVars, auditRow, boundVars>>

WriteAudit ==
  /\ step = "audit"
  /\ step' = "done"
  /\ auditRow' = [status |-> status, error |-> status = "FAILED"]
  /\ UNCHANGED <<clientVars, controlVars, raw, localVars, boundVars>>

\* The process is killed, its client with it.
Crash ==
  /\ step \in Live
  /\ failures < MaxFailures
  /\ failures' = failures + 1
  /\ step' = "crashed"
  /\ CloseClient
  /\ UNCHANGED <<controlVars, raw, localVars, auditRow, runs>>

JobStep ==
  Extract \/ FetchRaises \/ LandRaw \/ CheckQuality \/ Reconcile
    \/ CompleteRun \/ WriteAudit

Next == StartRun \/ Fetch \/ JobStep \/ RaiseUncaught \/ Crash

Spec == Init /\ [][Next]_vars

\* A job that is not killed goes on, the server answers, time passes.
Fairness == WF_vars(JobStep) /\ WF_vars(Fetch /\ ClientStep)
              /\ WF_vars(Fetch /\ ServerStep) /\ WF_vars(Fetch /\ Tick)
FairSpec == Spec /\ Fairness
-----------------------------------------------------------------------------
(***************************************************************************)
(* Properties.                                                             *)
(***************************************************************************)
\* Every variable has its type.
TypeOK ==
  /\ ClientTypeOK
  /\ step \in Live \union Over
  /\ watermark \in Nat /\ lastStatus \in {"NONE", "RUNNING", "SUCCESS", "FAILED"}
  /\ raw \in Seq(Records)
  /\ stage \in Stages /\ status \in {"SUCCESS", "FAILED"} /\ newWatermark \in Nat
  /\ raised \in Errors \union {"DataQualityError"}
  /\ auditRow \in [status : {"NONE", "SUCCESS", "FAILED"}, error : BOOLEAN]
  /\ runs \in 0..MaxRuns /\ failures \in 0..MaxFailures

\* The raw prefix changes from one complete feed to another: no run leaves
\* the pages there that it had before an error.
RawIsWholeFeed == [][raw' # raw => raw' = FlattenSeq(feed)]_vars

\* The watermark moves only to the time of a record that is in the raw
\* prefix, next to records that passed the gate.
WatermarkIsLanded ==
  [][watermark' # watermark =>
       Gated(raw) /\ \E i \in DOMAIN raw : raw[i].updated_at = watermark']_vars

\* The watermark goes back only with the feed: everything that the feed
\* served before at or after the old watermark is gone from it.
WatermarkFollowsFeed ==
  [][watermark' < watermark =>
       \A i \in DOMAIN raw : raw[i].updated_at < watermark]_vars

\* What the except clause of the job does not name.
Unnamed == {"SourceUnavailableError", "Exception"}

\* w is the latest updated_at of the records.
IsLatest(w, records) ==
  /\ \E i \in DOMAIN records : records[i].updated_at = w
  /\ \A i \in DOMAIN records : records[i].updated_at <= w

\* A finished run has one of three ends, the same in the control row and the
\* audit log: FAILED with an error message, for an exception that is named;
\* SUCCESS, with the watermark at the latest of the gated records in raw;
\* or SUCCESS although an exception that is not named, a 503 on the last
\* attempt of a page for one, has ended it with nothing committed. The last
\* is what docs/lld/10_failure_handling_lld.md:85 says does not happen.
OutcomeIsRecorded ==
  step = "done" =>
    /\ lastStatus = auditRow.status
    /\ \/ /\ auditRow = [status |-> "FAILED", error |-> TRUE]
          /\ stage # "COMMITTED" /\ raised \notin Unnamed
       \/ /\ auditRow = [status |-> "SUCCESS", error |-> FALSE]
          /\ stage = "COMMITTED" /\ raised = "none"
          /\ Gated(raw) /\ IsLatest(watermark, raw)
       \/ /\ auditRow = [status |-> "SUCCESS", error |-> FALSE]
          /\ stage # "COMMITTED" /\ raised \in Unnamed

\* Every run ends, whatever the server answers.
RunEnds == []<>(step \in Over)
=============================================================================
