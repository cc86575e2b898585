------------------------ MODULE BatchPipeline_proofs ------------------------
(***************************************************************************)
(* Proofs about BatchPipeline, for every set of DAG runs, job slots, keys, *)
(* flaws and columns, and every bound.                                     *)
(***************************************************************************)
EXTENDS BatchPipeline, TLAPS

(***************************************************************************)
(* The inductive invariant.                                                *)
(***************************************************************************)
\* The clock is ahead of everything it stamped.
ClockInv ==
  /\ \A row \in source : row.modified_date <= clock
  /\ watermark <= clock

\* Only an attempt of a Glue task has a job.
AttemptInv(d) == running[d] # NoRun => task[d] \in GlueTasks

\* Between its get and its complete_run, a job that owns the control row has
\* read the watermark that the row still holds.
OwnerInv(j) ==
  currentRun = j /\ job[j].pc \in {"extract", "land", "gate", "complete"} =>
    job[j].previous = watermark

\* The extract window: a source row above the watermark that the job read is
\* in its batch or newer than all of it.
WindowInv(j) ==
  /\ job[j].previous <= clock
  /\ job[j].pc \in {"start", "get", "extract"} => job[j].batch = {}
  /\ job[j].pc \in IngestSteps =>
       /\ \A row \in job[j].batch : /\ job[j].previous < row.modified_date
                                    /\ row.modified_date <= clock
       /\ \A row \in source : row.modified_date > job[j].previous =>
            \/ row \in job[j].batch
            \/ \A old \in job[j].batch : old.modified_date < row.modified_date

\* What a job has established about its batch.
GateInv(j) ==
  /\ job[j].pc \notin {"complete", "exit"} => job[j].outcome = "none"
  /\ job[j].pc = "gate" => job[j].batch \subseteq landed
  /\ job[j].outcome = "committed" =>
       /\ job[j].batch \subseteq landed
       /\ ~BlocksPromotion(columns, job[j].batch)
  /\ job[j].pc = "promote" /\ Failures(columns, job[j].batch, "ERROR") # {} =>
       job[j].batch \subseteq quarantined

JobInv(j) == OwnerInv(j) /\ WindowInv(j) /\ GateInv(j)

Inv ==
  /\ TypeOK
  /\ ClockInv
  /\ \A d \in DagRuns : AttemptInv(d)
  /\ \A j \in Jobs : JobInv(j)
  /\ LandedBelowWatermark
  /\ CommittedRowsAreComplete
  /\ BadSilverWasQuarantined

-----------------------------------------------------------------------------
(***************************************************************************)
(* The quality gate.                                                       *)
(***************************************************************************)
\* A batch that the gate lets through has every critical column in all of
\* its rows.
LEMMA GateMeaning ==
  ASSUME NEW cs, NEW rows, ~BlocksPromotion(cs, rows),
         NEW row \in rows, NEW c \in CriticalColumns
  PROVE  c \in cs /\ Value(row, c) # Null
<1> DEFINE rule == Rule(c, "NOT_NULL", "CRITICAL")
<1>1. rule \in OrdersStandard
  BY DEF OrdersStandard, CriticalColumns
<1>2. rule.severity = "CRITICAL" /\ rule.type = "NOT_NULL" /\ rule.column = c
  BY DEF Rule
<1> HIDE DEF rule
<1>3. EvaluateRule(cs, rows, rule)
  BY <1>1, <1>2 DEF BlocksPromotion, Failures
<1>4. c \in cs /\ NotNull(rows, c)
  BY <1>2, <1>3 DEF EvaluateRule, ColumnRules, Hooks
<1>5. QED
  BY <1>4 DEF NotNull, Values

-----------------------------------------------------------------------------
(***************************************************************************)
(* Types.                                                                  *)
(***************************************************************************)
\* Every step keeps the jobs in their type.
LEMMA JobTypes ==
  ASSUME TypeOK, [Next]_vars PROVE job' \in [Jobs -> JobRecord]
<1> job \in [Jobs -> JobRecord] /\ watermark \in Nat
  BY DEF TypeOK
<1>1. ASSUME NEW j \in Jobs, IngestStart(j) PROVE job' \in [Jobs -> JobRecord]
  BY <1>1 DEF IngestStart, Step, JobRecord, Live, IngestSteps
<1>2. ASSUME NEW j \in Jobs, IngestGet(j) PROVE job' \in [Jobs -> JobRecord]
  BY <1>2 DEF IngestGet, JobRecord, Live, IngestSteps
<1>3. ASSUME NEW j \in Jobs, IngestExtract(j)
      PROVE  job' \in [Jobs -> JobRecord]
  <2>1. {row \in source : row.modified_date > job[j].previous} \in SUBSET Row
    BY DEF TypeOK
  <2>2. QED
    BY <1>3, <2>1 DEF IngestExtract, JobRecord, Live, IngestSteps
<1>4. ASSUME NEW j \in Jobs, IngestLand(j) PROVE job' \in [Jobs -> JobRecord]
  BY <1>4 DEF IngestLand, Step, JobRecord, Live, IngestSteps
<1>5. ASSUME NEW j \in Jobs, IngestGate(j) PROVE job' \in [Jobs -> JobRecord]
  <2> DEFINE verdict == IF BlocksPromotion(columns, job[j].batch)
                          THEN "rejected" ELSE "committed"
  <2>1. verdict \in Outcome
    BY DEF Outcome
  <2>2. job' = [job EXCEPT ![j].pc = "complete", ![j].outcome = verdict]
    BY <1>5 DEF IngestGate
  <2> HIDE DEF verdict
  <2>3. QED
    BY <2>1, <2>2 DEF JobRecord, Live, IngestSteps
<1>6. ASSUME NEW j \in Jobs, IngestComplete(j)
      PROVE  job' \in [Jobs -> JobRecord]
  BY <1>6 DEF IngestComplete, Step, JobRecord, Live, IngestSteps
<1>7. ASSUME NEW j \in Jobs, IngestExit(j) PROVE job' \in [Jobs -> JobRecord]
  BY <1>7 DEF IngestExit, Status, JobRecord, JobOver, Statuses,
     Outcome, Fresh, NullWatermark
<1>8. ASSUME NEW j \in Jobs, SilverRead(j) PROVE job' \in [Jobs -> JobRecord]
  <2>1. \A rows \in Deduped(bronze) : rows \in SUBSET Row
    BY DEF Deduped, TypeOK
  <2>2. \A rows : AfterQuality(rows) \in Live
    BY DEF AfterQuality, Live, SilverSteps
  <2>3. CASE JobEnds(j, "succeeded")
    BY <2>3 DEF JobEnds, JobRecord, JobOver, Outcome, Fresh, NullWatermark
  <2>4. ASSUME NEW rows \in Deduped(bronze),
               job' = [job EXCEPT ![j].pc = AfterQuality(rows),
                                  ![j].batch = rows]
        PROVE  job' \in [Jobs -> JobRecord]
    <3> DEFINE step == AfterQuality(rows)
    <3>1. step \in Live /\ rows \in SUBSET Row
      BY <2>1, <2>2
    <3>2. job' = [job EXCEPT ![j].pc = step, ![j].batch = rows]
      BY <2>4
    <3> HIDE DEF step
    <3>3. QED
      BY <3>1, <3>2 DEF JobRecord
  <2>5. \/ JobEnds(j, "succeeded")
        \/ \E rows \in Deduped(bronze) :
             job' = [job EXCEPT ![j].pc = AfterQuality(rows),
                                ![j].batch = rows]
    BY <1>8, Zenon DEF SilverRead
  <2>6. QED
    BY <2>3, <2>4, <2>5, Zenon
<1>9. ASSUME NEW j \in Jobs, SilverQuarantine(j)
      PROVE  job' \in [Jobs -> JobRecord]
  BY <1>9 DEF SilverQuarantine, Step, JobRecord, Live, SilverSteps
<1>10. ASSUME NEW j \in Jobs, SilverPromote(j)
       PROVE  job' \in [Jobs -> JobRecord]
  BY <1>10 DEF SilverPromote, JobEnds, JobRecord, JobOver, Outcome, Fresh,
     NullWatermark
<1>11. ASSUME NEW j \in Jobs, IngestRaise(j)
       PROVE  job' \in [Jobs -> JobRecord]
  BY <1>11 DEF IngestRaise, JobRecord, Live, IngestSteps, Outcome
<1>12. ASSUME NEW j \in Jobs, Crash(j) PROVE job' \in [Jobs -> JobRecord]
  BY <1>12 DEF Crash, JobEnds, JobRecord, JobOver, Outcome, Fresh,
     NullWatermark
<1>13. ASSUME NEW d \in DagRuns, NEW j \in Jobs, StartJob(d, j)
       PROVE  job' \in [Jobs -> JobRecord]
  BY <1>13 DEF StartJob, JobRecord, Live, IngestSteps, SilverSteps, Outcome,
     Fresh, NullWatermark
<1>14. ASSUME NEW d \in DagRuns,
              ObserveJob(d) \/ UpdateControlTable(d) \/ TimeOut(d) \/ TaskFails(d)
       PROVE  job' = job
  BY <1>14 DEF ObserveJob, UpdateControlTable, TimeOut, TaskFails
<1>15. External => job' = job
  BY DEF External, SourceWrite, LandBronze, Trigger
<1>16. UNCHANGED vars => job' = job
  BY DEF vars
<1>17. QED
  BY <1>1, <1>2, <1>3, <1>4, <1>5, <1>6, <1>7, <1>8, <1>9, <1>10, <1>11,
     <1>12, <1>13, <1>14, <1>15, <1>16 DEF Next, JobStep, DagStep

\* Every step keeps every variable in its type.
LEMMA NextTypeOK ==
  TypeOK /\ (\A d \in DagRuns : AttemptInv(d)) /\ [Next]_vars => TypeOK'
<1> SUFFICES ASSUME TypeOK, \A d \in DagRuns : AttemptInv(d), [Next]_vars
             PROVE  TypeOK'
  OBVIOUS
<1> job' \in [Jobs -> JobRecord]
  BY JobTypes
<1> USE BatchAssumption
    DEF TypeOK, Statuses, tableVars, controlVars, lakeVars, dagVars
<1>1. ASSUME NEW j \in Jobs, IngestStart(j) PROVE TypeOK'
  BY <1>1 DEF IngestStart
<1>2. ASSUME NEW j \in Jobs, IngestGet(j) PROVE TypeOK'
  BY <1>2 DEF IngestGet
<1>3. ASSUME NEW j \in Jobs, IngestExtract(j) PROVE TypeOK'
  BY <1>3 DEF IngestExtract
<1>4. ASSUME NEW j \in Jobs, IngestLand(j) PROVE TypeOK'
  <2>1. job[j].batch \in SUBSET Row
    BY DEF JobRecord
  <2>2. QED
    BY <1>4, <2>1 DEF IngestLand
<1>5. ASSUME NEW j \in Jobs, IngestGate(j) PROVE TypeOK'
  BY <1>5 DEF IngestGate
<1>6. ASSUME NEW j \in Jobs, IngestComplete(j) PROVE TypeOK'
  <2>1. ResolvedWatermark(j) \subseteq Nat
    BY DEF ResolvedWatermark, MaxModified, JobRecord, Row
  <2>2. Status(j) \in Statuses
    BY DEF Status
  <2>3. QED
    BY <1>6, <2>1, <2>2 DEF IngestComplete, CompleteRun
<1>7. ASSUME NEW j \in Jobs, IngestExit(j) PROVE TypeOK'
  BY <1>7 DEF IngestExit
<1>8. ASSUME NEW j \in Jobs, SilverRead(j) PROVE TypeOK'
  BY <1>8 DEF SilverRead
<1>9. ASSUME NEW j \in Jobs, SilverQuarantine(j) PROVE TypeOK'
  <2>1. job[j].batch \in SUBSET Row
    BY DEF JobRecord
  <2>2. QED
    BY <1>9, <2>1 DEF SilverQuarantine
<1>10. ASSUME NEW j \in Jobs, SilverPromote(j) PROVE TypeOK'
  <2>1. job[j].batch \in SUBSET Row
    BY DEF JobRecord
  <2>2. QED
    BY <1>10, <2>1 DEF SilverPromote
<1>11. ASSUME NEW j \in Jobs, IngestRaise(j) PROVE TypeOK'
  BY <1>11 DEF IngestRaise, Failure
<1>12. ASSUME NEW j \in Jobs, Crash(j) PROVE TypeOK'
  BY <1>12 DEF Crash, Failure
<1>13. ASSUME NEW d \in DagRuns, NEW j \in Jobs, StartJob(d, j) PROVE TypeOK'
  BY <1>13 DEF StartJob
<1>14. ASSUME NEW d \in DagRuns, TaskSucceeds(d), task[d] \in Tasks
       PROVE  /\ task' \in [DagRuns -> {"queued"} \union Tasks \union Ended]
              /\ try' \in [DagRuns -> 0..MaxRetries]
              /\ running' \in [DagRuns -> Jobs \union {NoRun}]
  BY <1>14 DEF TaskSucceeds, NextTask, Tasks, GlueTasks, Ended
<1>15. ASSUME NEW d \in DagRuns, AttemptFails(d)
       PROVE  /\ task' \in [DagRuns -> {"queued"} \union Tasks \union Ended]
              /\ try' \in [DagRuns -> 0..MaxRetries]
              /\ running' \in [DagRuns -> Jobs \union {NoRun}]
  BY <1>15 DEF AttemptFails, Tasks, Ended
<1>16. ASSUME NEW d \in DagRuns, ObserveJob(d) PROVE TypeOK'
  <2>1. task[d] \in Tasks
    BY <1>16 DEF ObserveJob, AttemptInv, Tasks
  <2>2. QED
    BY <1>14, <1>15, <1>16, <2>1 DEF ObserveJob
<1>17. ASSUME NEW d \in DagRuns, UpdateControlTable(d) PROVE TypeOK'
  BY <1>14, <1>17 DEF UpdateControlTable, CompleteRun, Tasks, NullWatermark
<1>18. ASSUME NEW d \in DagRuns, TimeOut(d) PROVE TypeOK'
  BY <1>15, <1>18 DEF TimeOut, Failure
<1>19. ASSUME NEW d \in DagRuns, TaskFails(d) PROVE TypeOK'
  BY <1>15, <1>19 DEF TaskFails, Failure
<1>20. ASSUME NEW key \in Keys \union {Null}, NEW flaw \in Flaws,
              SourceWrite(key, flaw)
       PROVE  TypeOK'
  <2>1. [order_id |-> key, modified_date |-> clock + 1, flaw |-> flaw] \in Row
    BY DEF Row
  <2>2. source' \in SUBSET Row
    BY <1>20, <2>1, Zenon DEF SourceWrite
  <2>3. QED
    BY <1>20, <2>2 DEF SourceWrite
<1>21. ASSUME LandBronze PROVE TypeOK'
  BY <1>21 DEF LandBronze
<1>22. ASSUME NEW d \in DagRuns, NEW s, NEW p, Trigger(d, s, p) PROVE TypeOK'
  BY <1>22 DEF Trigger, Tasks, GlueTasks
<1>23. CASE UNCHANGED vars
  BY <1>23 DEF vars
<1>24. QED
  BY <1>1, <1>2, <1>3, <1>4, <1>5, <1>6, <1>7, <1>8, <1>9, <1>10, <1>11,
     <1>12, <1>13, <1>16, <1>17, <1>18, <1>19, <1>20, <1>21, <1>22, <1>23
  DEF Next, JobStep, DagStep, External

-----------------------------------------------------------------------------
(***************************************************************************)
(* What a step leaves alone.                                               *)
(***************************************************************************)
\* A job that a step does not touch keeps its invariant.
LEMMA OtherJob ==
  ASSUME NEW i \in Jobs, JobInv(i), job'[i] = job[i],
         UNCHANGED <<source, clock, columns>>,
         landed \subseteq landed', quarantined \subseteq quarantined',
         currentRun' = i => currentRun = i /\ watermark' = watermark
  PROVE  JobInv(i)'
<1>1. OwnerInv(i)'
  BY DEF JobInv, OwnerInv
<1>2. WindowInv(i)'
  BY DEF JobInv, WindowInv
<1>3. GateInv(i)'
  BY DEF JobInv, GateInv
<1>4. QED
  BY <1>1, <1>2, <1>3 DEF JobInv

\* A step that changes neither the table nor the watermark, and no history
\* but by adding to it.
LEMMA SameTable ==
  ASSUME Inv, UNCHANGED <<source, clock, columns, watermark>>,
         landed \subseteq landed'
  PROVE  ClockInv' /\ LandedBelowWatermark' /\ CommittedRowsAreComplete'
BY DEF Inv, ClockInv, LandedBelowWatermark, CommittedRowsAreComplete

LEMMA SameSilver ==
  ASSUME Inv, UNCHANGED <<columns, silver>>, quarantined \subseteq quarantined'
  PROVE  BadSilverWasQuarantined'
BY DEF Inv, BadSilverWasQuarantined

-----------------------------------------------------------------------------
(***************************************************************************)
(* The jobs.                                                               *)
(***************************************************************************)
\* The watermark that complete_run stores covers nothing but rows that were
\* landed and passed the gate, and does not go back.
LEMMA StoredWatermark ==
  ASSUME Inv, NEW j \in Jobs, job[j].pc = "complete", currentRun = j,
         NEW w \in ResolvedWatermark(j)
  PROVE  /\ watermark <= w /\ w <= clock
         /\ \A row \in source : row.modified_date <= w =>
              /\ row \in landed
              /\ \A c \in CriticalColumns : c \in columns /\ Value(row, c) # Null
<1> DEFINE batch == job[j].batch
           previous == job[j].previous
<1>1. /\ previous = watermark /\ previous <= clock
      /\ \A row \in batch : previous < row.modified_date /\ row.modified_date <= clock
      /\ \A row \in source : row.modified_date > previous =>
           \/ row \in batch
           \/ \A old \in batch : old.modified_date < row.modified_date
  BY DEF Inv, JobInv, OwnerInv, WindowInv, IngestSteps
<1>2. job[j].outcome = "committed" =>
        batch \subseteq landed /\ ~BlocksPromotion(columns, batch)
  BY DEF Inv, JobInv, GateInv
<1>3. /\ watermark \in Nat /\ clock \in Nat
      /\ \A row \in source : row.modified_date \in Nat
      /\ \A row \in batch : row.modified_date \in Nat
  BY DEF Inv, TypeOK, JobRecord, Row
<1>4. \A row \in source : row.modified_date <= watermark =>
        /\ row \in landed
        /\ \A c \in CriticalColumns : c \in columns /\ Value(row, c) # Null
  BY DEF Inv, LandedBelowWatermark, CommittedRowsAreComplete
<1>5. CASE w = previous
  BY <1>1, <1>3, <1>4, <1>5
<1>6. CASE w # previous
  <2>1. /\ job[j].outcome = "committed"
        /\ \E row \in batch : row.modified_date = w
        /\ \A row \in batch : row.modified_date <= w
    <3>1. job[j].outcome = "committed" /\ w \in MaxModified(batch, previous)
      BY <1>6 DEF ResolvedWatermark
    <3>2. w \in {t \in {row.modified_date : row \in batch} :
                  \A row \in batch : row.modified_date <= t}
      BY <1>6, <3>1 DEF MaxModified
    <3>3. QED
      BY <3>1, <3>2
  <2> HIDE DEF batch, previous
  <2>2. w \in Nat /\ watermark < w /\ w <= clock
    BY <1>1, <1>3, <2>1
  <2>3. ASSUME NEW row \in source, row.modified_date <= w
        PROVE  /\ row \in landed
               /\ \A c \in CriticalColumns :
                    c \in columns /\ Value(row, c) # Null
    <3>1. CASE row.modified_date <= watermark
      BY <1>4, <3>1
    <3>2. CASE row.modified_date > previous
      <4>1. row \in batch
        BY <1>1, <1>3, <2>1, <2>3, <3>2
      <4>2. QED
        BY <1>2, <2>1, <4>1, GateMeaning
    <3>3. QED
      BY <1>1, <1>3, <3>1, <3>2
  <2>4. QED
    BY <1>3, <2>2, <2>3
<1>7. QED
  BY <1>5, <1>6

\* The steps of ingest_sqlserver before complete_run.
LEMMA IngestStepInv ==
  ASSUME Inv, NEW j \in Jobs,
         \/ IngestStart(j) \/ IngestGet(j) \/ IngestExtract(j) \/ IngestLand(j)
         \/ IngestGate(j) \/ IngestRaise(j)
  PROVE  \A i \in Jobs : JobInv(i)'
<1> job \in [Jobs -> JobRecord] /\ watermark \in Nat /\ clock \in Nat
  BY DEF Inv, TypeOK
<1> JobInv(j) /\ ClockInv
  BY DEF Inv
<1> USE DEF tableVars, lakeVars, controlVars
<1>1. /\ UNCHANGED <<source, clock, columns, watermark>>
      /\ landed \subseteq landed' /\ UNCHANGED quarantined
      /\ currentRun' \in {currentRun, j}
      /\ \A i \in Jobs \ {j} : job'[i] = job[i]
  BY DEF IngestStart, IngestGet, IngestExtract, IngestLand, IngestGate,
     IngestRaise, Step
<1>2. ASSUME NEW i \in Jobs \ {j} PROVE JobInv(i)'
  BY <1>1, <1>2, OtherJob DEF Inv
<1>3. JobInv(j)'
  <2>1. CASE IngestStart(j)
    <3>1. /\ job'[j].pc = "get" /\ job[j].pc = "start"
          /\ job'[j].previous = job[j].previous
          /\ job'[j].batch = job[j].batch /\ job'[j].outcome = job[j].outcome
      BY <2>1 DEF IngestStart, Step, JobRecord
    <3>2. QED
      BY <1>1, <3>1 DEF JobInv, OwnerInv, WindowInv, GateInv, IngestSteps
  <2>2. CASE IngestGet(j)
    <3>1. /\ job'[j].pc = "extract" /\ job[j].pc = "get"
          /\ job'[j].previous = watermark
          /\ job'[j].batch = job[j].batch /\ job'[j].outcome = job[j].outcome
      BY <2>2 DEF IngestGet, JobRecord
    <3>2. QED
      BY <1>1, <3>1 DEF JobInv, OwnerInv, WindowInv, GateInv, IngestSteps,
         ClockInv
  <2>3. CASE IngestExtract(j)
    <3>1. /\ job'[j].pc = "land" /\ job[j].pc = "extract"
          /\ job'[j].previous = job[j].previous
          /\ job'[j].batch = {row \in source :
                               row.modified_date > job[j].previous}
          /\ job'[j].outcome = job[j].outcome
          /\ UNCHANGED currentRun
      BY <2>3 DEF IngestExtract, JobRecord
    <3>2. \A row \in source : row.modified_date \in Nat
      BY DEF Inv, TypeOK, Row
    <3>3. job[j].previous \in Nat
      BY DEF JobRecord
    <3>4. OwnerInv(j)' /\ GateInv(j)'
      BY <1>1, <3>1 DEF JobInv, OwnerInv, GateInv
    <3>5. WindowInv(j)'
      BY <1>1, <3>1, <3>2, <3>3 DEF JobInv, WindowInv, IngestSteps, ClockInv
    <3>6. QED
      BY <3>4, <3>5 DEF JobInv
  <2>4. CASE IngestLand(j)
    <3>1. /\ job'[j].pc = "gate" /\ job[j].pc = "land"
          /\ job'[j].previous = job[j].previous
          /\ job'[j].batch = job[j].batch /\ job'[j].outcome = job[j].outcome
          /\ landed' = landed \union job[j].batch
          /\ UNCHANGED currentRun
      BY <2>4 DEF IngestLand, Step, JobRecord
    <3>2. QED
      BY <1>1, <3>1 DEF JobInv, OwnerInv, WindowInv, GateInv, IngestSteps
  <2>5. CASE IngestGate(j)
    <3>1. /\ job'[j].pc = "complete" /\ job[j].pc = "gate"
          /\ job'[j].previous = job[j].previous
          /\ job'[j].batch = job[j].batch
          /\ job'[j].outcome = "committed" =>
               ~BlocksPromotion(columns, job[j].batch)
          /\ UNCHANGED currentRun
      BY <2>5 DEF IngestGate, JobRecord
    <3>2. QED
      BY <1>1, <3>1 DEF JobInv, OwnerInv, WindowInv, GateInv, IngestSteps
  <2>6. CASE IngestRaise(j)
    <3>1. /\ job'[j].pc = "complete" /\ job[j].pc \in {"extract", "land", "gate"}
          /\ job'[j].previous = job[j].previous
          /\ job'[j].batch = job[j].batch /\ job'[j].outcome = "raised"
          /\ UNCHANGED currentRun
      BY <2>6 DEF IngestRaise, JobRecord
    <3>2. QED
      BY <1>1, <3>1 DEF JobInv, OwnerInv, WindowInv, GateInv, IngestSteps
  <2>7. QED
    BY <2>1, <2>2, <2>3, <2>4, <2>5, <2>6
<1>4. QED
  BY <1>2, <1>3

\* Storing the watermark.
LEMMA IngestCompleteInv ==
  ASSUME Inv, NEW j \in Jobs, IngestComplete(j)
  PROVE  /\ \A i \in Jobs : JobInv(i)'
         /\ ClockInv' /\ LandedBelowWatermark' /\ CommittedRowsAreComplete'
         /\ watermark' >= watermark
<1> job \in [Jobs -> JobRecord] /\ watermark \in Nat /\ clock \in Nat
  BY DEF Inv, TypeOK
<1> USE DEF tableVars, lakeVars, controlVars
<1>1. /\ UNCHANGED <<source, clock, columns, currentRun, landed, quarantined>>
      /\ job[j].pc = "complete" /\ job'[j].pc = "exit"
      /\ job'[j].previous = job[j].previous
      /\ job'[j].batch = job[j].batch /\ job'[j].outcome = job[j].outcome
      /\ \A i \in Jobs \ {j} : job'[i] = job[i]
  BY DEF IngestComplete, Step, CompleteRun, JobRecord
<1>2. ASSUME NEW i \in Jobs \ {j} PROVE JobInv(i)'
  <2>1. currentRun' = i => currentRun = i /\ watermark' = watermark
    BY <1>1 DEF IngestComplete, CompleteRun
  <2>2. JobInv(i) /\ job'[i] = job[i]
    BY <1>1 DEF Inv
  <2>3. QED
    BY <1>1, <2>1, <2>2, OtherJob
<1>3. JobInv(j)'
  <2>1. JobInv(j)
    BY DEF Inv
  <2>2. QED
    BY <1>1, <2>1 DEF JobInv, OwnerInv, WindowInv, GateInv, IngestSteps
<1>4. CASE watermark' = watermark
  BY <1>1, <1>2, <1>3, <1>4, SameTable
<1>5. CASE watermark' # watermark
  <2>1. currentRun = j /\ watermark' \in ResolvedWatermark(j)
    BY <1>5 DEF IngestComplete, CompleteRun
  <2>2. /\ watermark <= watermark' /\ watermark' <= clock
        /\ \A row \in source : row.modified_date <= watermark' =>
             /\ row \in landed
             /\ \A c \in CriticalColumns : c \in columns /\ Value(row, c) # Null
    BY <1>1, <2>1, StoredWatermark
  <2>3. ClockInv'
    BY <1>1, <2>2 DEF Inv, ClockInv
  <2>4. LandedBelowWatermark' /\ CommittedRowsAreComplete'
    BY <1>1, <2>2 DEF LandedBelowWatermark, CommittedRowsAreComplete
  <2>5. watermark' >= watermark
    BY <1>5, <2>2
  <2>6. QED
    BY <1>2, <1>3, <2>3, <2>4, <2>5
<1>6. QED
  BY <1>4, <1>5

\* A job that is started, ends or is killed has nothing to show.
LEMMA FreshJob ==
  ASSUME Inv, NEW j \in Jobs, NEW pc, pc \notin {"gate", "promote"},
         job'[j].pc = pc, job'[j].previous = NullWatermark, job'[j].batch = {},
         job'[j].outcome = "none", UNCHANGED clock,
         pc \notin {"extract", "land", "gate", "complete"}
  PROVE  JobInv(j)'
<1> clock \in Nat
  BY DEF Inv, TypeOK
<1>1. OwnerInv(j)'
  BY DEF OwnerInv
<1>2. WindowInv(j)'
  BY DEF WindowInv, NullWatermark
<1>3. GateInv(j)'
  BY DEF GateInv
<1>4. QED
  BY <1>1, <1>2, <1>3 DEF JobInv

\* The steps of a job that start it or end it.
LEMMA JobBoundsInv ==
  ASSUME Inv, NEW j \in Jobs,
         \/ IngestExit(j) \/ Crash(j) \/ SilverPromote(j)
         \/ SilverRead(j) /\ JobEnds(j, "succeeded")
         \/ \E d \in DagRuns : StartJob(d, j)
  PROVE  \A i \in Jobs : JobInv(i)'
<1> job \in [Jobs -> JobRecord]
  BY DEF Inv, TypeOK
<1> USE DEF tableVars, lakeVars, controlVars
<1>1. /\ UNCHANGED <<source, clock, columns, currentRun, watermark, landed, quarantined>>
      /\ \A i \in Jobs \ {j} : job'[i] = job[i]
  BY DEF IngestExit, Crash, SilverPromote, SilverRead, StartJob, JobEnds
<1>2. ASSUME NEW i \in Jobs \ {j} PROVE JobInv(i)'
  BY <1>1, <1>2, OtherJob DEF Inv
<1>3. /\ job'[j].pc \in {"succeeded", "failed", "start", "read"}
      /\ job'[j].previous = NullWatermark /\ job'[j].batch = {}
      /\ job'[j].outcome = "none"
  <2>1. CASE IngestExit(j)
    BY <2>1 DEF IngestExit, Fresh
  <2>2. CASE Crash(j) \/ SilverPromote(j) \/ JobEnds(j, "succeeded")
    BY <2>2 DEF Crash, SilverPromote, JobEnds, Fresh
  <2>3. CASE \E d \in DagRuns : StartJob(d, j)
    BY <2>3 DEF StartJob, Fresh
  <2>4. QED
    BY <2>1, <2>2, <2>3
<1>4. JobInv(j)'
  BY <1>1, <1>3, FreshJob
<1>5. QED
  BY <1>2, <1>4

\* The steps of bronze_to_silver that handle a batch.
LEMMA SilverBatchInv ==
  ASSUME Inv, NEW j \in Jobs,
         \/ SilverRead(j) /\ ~JobEnds(j, "succeeded")
         \/ SilverQuarantine(j)
  PROVE  \A i \in Jobs : JobInv(i)'
<1> job \in [Jobs -> JobRecord]
  BY DEF Inv, TypeOK
<1> JobInv(j)
  BY DEF Inv
<1> USE DEF tableVars, lakeVars, controlVars
<1>1. /\ UNCHANGED <<source, clock, columns, currentRun, watermark, landed>>
      /\ quarantined \subseteq quarantined'
      /\ \A i \in Jobs \ {j} : job'[i] = job[i]
  BY DEF SilverRead, SilverQuarantine, Step
<1>2. ASSUME NEW i \in Jobs \ {j} PROVE JobInv(i)'
  BY <1>1, <1>2, OtherJob DEF Inv
<1>3. CASE SilverRead(j) /\ ~JobEnds(j, "succeeded")
  <2>1. PICK rows \in Deduped(bronze) :
               job' = [job EXCEPT ![j].pc = AfterQuality(rows),
                                  ![j].batch = rows]
    BY <1>3, Zenon DEF SilverRead
  <2>2. /\ job'[j].pc = AfterQuality(rows) /\ job'[j].batch = rows
        /\ job'[j].previous = job[j].previous
        /\ job'[j].outcome = job[j].outcome /\ job[j].pc = "read"
    BY <1>3, <2>1 DEF SilverRead, JobRecord
  <2>3. /\ AfterQuality(rows) \in {"quarantine", "promote"}
        /\ AfterQuality(rows) = "promote" => Failures(columns, rows, "ERROR") = {}
    BY DEF AfterQuality
  <2>4. JobInv(j)'
    BY <1>1, <2>2, <2>3 DEF JobInv, OwnerInv, WindowInv, GateInv, IngestSteps
  <2>5. QED
    BY <1>2, <2>4
<1>4. CASE SilverQuarantine(j)
  <2>1. /\ job'[j].pc = "promote" /\ job[j].pc = "quarantine"
        /\ job'[j].batch = job[j].batch
        /\ job'[j].previous = job[j].previous
        /\ job'[j].outcome = job[j].outcome
        /\ job[j].batch \subseteq quarantined'
    BY <1>4 DEF SilverQuarantine, Step, JobRecord
  <2>2. JobInv(j)'
    BY <1>1, <2>1 DEF JobInv, OwnerInv, WindowInv, GateInv, IngestSteps
  <2>3. QED
    BY <1>2, <2>2
<1>5. QED
  BY <1>3, <1>4

-----------------------------------------------------------------------------
(***************************************************************************)
(* The source and Airflow.                                                 *)
(***************************************************************************)
\* A change of the source is newer than every watermark and every batch.
LEMMA SourceWriteInv ==
  ASSUME Inv, NEW key \in Keys \union {Null}, NEW flaw \in Flaws,
         SourceWrite(key, flaw)
  PROVE  /\ \A i \in Jobs : JobInv(i)'
         /\ ClockInv' /\ LandedBelowWatermark' /\ CommittedRowsAreComplete'
<1> DEFINE new == [order_id |-> key, modified_date |-> clock + 1, flaw |-> flaw]
<1> USE DEF tableVars, lakeVars, controlVars
<1>1. /\ source' \subseteq source \union {new} /\ clock' = clock + 1
      /\ UNCHANGED <<columns, watermark, currentRun, landed, quarantined, job>>
  BY DEF SourceWrite
<1>2. new.modified_date = clock + 1
  OBVIOUS
<1>3. /\ clock \in Nat /\ watermark \in Nat /\ watermark <= clock
      /\ \A row \in source : row.modified_date \in Nat /\ row.modified_date <= clock
  BY DEF Inv, TypeOK, Row, ClockInv
<1> HIDE DEF new
<1>4. ClockInv'
  BY <1>1, <1>2, <1>3 DEF ClockInv
<1>5. LandedBelowWatermark' /\ CommittedRowsAreComplete'
  <2>1. \A row \in source' : row.modified_date <= watermark => row \in source
    BY <1>1, <1>2, <1>3
  <2>2. QED
    BY <1>1, <2>1 DEF Inv, LandedBelowWatermark, CommittedRowsAreComplete
<1>6. ASSUME NEW i \in Jobs PROVE JobInv(i)'
  <2>1. JobInv(i) /\ job[i] \in JobRecord
    BY DEF Inv, TypeOK
  <2>2. OwnerInv(i)' /\ GateInv(i)'
    BY <1>1, <2>1 DEF JobInv, OwnerInv, GateInv
  <2>3. /\ job[i].previous \in Nat
        /\ \A row \in job[i].batch : row.modified_date \in Nat
    BY <2>1 DEF JobRecord, Row
  <2>4. WindowInv(i)'
    BY <1>1, <1>2, <1>3, <2>1, <2>3 DEF JobInv, WindowInv
  <2>5. QED
    BY <2>2, <2>4 DEF JobInv
<1>7. QED
  BY <1>4, <1>5, <1>6

\* update_control_table stores nothing: no job has the id it completes.
LEMMA UpdateStoresNothing ==
  ASSUME Inv, NEW d \in DagRuns, UpdateControlTable(d)
  PROVE  UNCHANGED <<tableVars, controlVars, lakeVars, job>>
<1>1. currentRun # d
  BY BatchAssumption DEF Inv, TypeOK
<1>2. QED
  BY <1>1 DEF UpdateControlTable, CompleteRun, ConfRunId, controlVars

\* Whatever Airflow does about an attempt, a Glue task is behind every job.
LEMMA AttemptsInv ==
  ASSUME Inv, [Next]_vars PROVE \A d \in DagRuns : AttemptInv(d)'
<1> TypeOK /\ \A d \in DagRuns : AttemptInv(d)
  BY DEF Inv
<1> USE DEF AttemptInv, dagVars
<1>1. ASSUME NEW j \in Jobs, JobStep(j) \/ IngestRaise(j) \/ Crash(j)
      PROVE  UNCHANGED dagVars
  BY <1>1 DEF JobStep, IngestStart, IngestGet, IngestExtract, IngestLand,
     IngestGate, IngestComplete, IngestExit, SilverRead, SilverQuarantine,
     SilverPromote, IngestRaise, Crash
<1>2. ASSUME NEW d \in DagRuns, NEW j \in Jobs, StartJob(d, j)
      PROVE  \A e \in DagRuns : AttemptInv(e)'
  BY <1>2 DEF StartJob, TypeOK
<1>3. ASSUME NEW d \in DagRuns,
             \/ ObserveJob(d) \/ UpdateControlTable(d) \/ TimeOut(d)
             \/ TaskFails(d)
      PROVE  \A e \in DagRuns : AttemptInv(e)'
  <2>1. TaskSucceeds(d) \/ AttemptFails(d)
    BY <1>3 DEF ObserveJob, UpdateControlTable, TimeOut, TaskFails
  <2>2. running'[d] = NoRun
    BY <2>1 DEF TaskSucceeds, AttemptFails, TypeOK
  <2>3. \A e \in DagRuns \ {d} : running'[e] = running[e] /\ task'[e] = task[e]
    BY <2>1 DEF TaskSucceeds, AttemptFails, TypeOK
  <2>4. QED
    BY <2>2, <2>3
<1>4. ASSUME NEW d \in DagRuns, NEW s, NEW p, Trigger(d, s, p)
      PROVE  \A e \in DagRuns : AttemptInv(e)'
  BY <1>4 DEF Trigger, TypeOK, GlueTasks
<1>5. ASSUME NEW key, NEW flaw, SourceWrite(key, flaw) \/ LandBronze
      PROVE  UNCHANGED dagVars
  BY <1>5 DEF SourceWrite, LandBronze
<1>6. UNCHANGED vars => UNCHANGED dagVars
  BY DEF vars
<1>7. UNCHANGED dagVars => \A d \in DagRuns : AttemptInv(d)'
  OBVIOUS
<1>8. QED
  BY <1>1, <1>2, <1>3, <1>4, <1>5, <1>6, <1>7 DEF Next, DagStep, External

\* A step that touches neither the table, nor the control row, nor a job.
LEMMA QuietStep ==
  ASSUME Inv, UNCHANGED <<source, clock, columns, watermark, currentRun, silver,
                          landed, quarantined, job>>
  PROVE  /\ \A i \in Jobs : JobInv(i)'
         /\ ClockInv' /\ LandedBelowWatermark' /\ CommittedRowsAreComplete'
         /\ BadSilverWasQuarantined'
<1>1. \A i \in Jobs : JobInv(i)'
  BY OtherJob DEF Inv
<1>2. QED
  BY <1>1, SameTable, SameSilver

-----------------------------------------------------------------------------
(***************************************************************************)
(* The invariant.                                                          *)
(***************************************************************************)
LEMMA NextInv == Inv /\ [Next]_vars => Inv'
<1> SUFFICES ASSUME Inv, [Next]_vars PROVE Inv'
  OBVIOUS
<1> DEFINE Kept == /\ \A i \in Jobs : JobInv(i)'
                   /\ ClockInv' /\ LandedBelowWatermark'
                   /\ CommittedRowsAreComplete' /\ BadSilverWasQuarantined'
<1>1. TypeOK' /\ \A d \in DagRuns : AttemptInv(d)'
  BY NextTypeOK, AttemptsInv DEF Inv
<1> USE DEF tableVars, controlVars, lakeVars, dagVars
<1>2. ASSUME NEW j \in Jobs,
             \/ IngestStart(j) \/ IngestGet(j) \/ IngestExtract(j)
             \/ IngestLand(j) \/ IngestGate(j) \/ IngestRaise(j)
      PROVE  Kept
  <2>1. /\ UNCHANGED <<source, clock, columns, watermark, silver, quarantined>>
        /\ landed \subseteq landed'
    BY <1>2 DEF IngestStart, IngestGet, IngestExtract, IngestLand, IngestGate,
       IngestRaise
  <2>2. QED
    BY <1>2, <2>1, IngestStepInv, SameTable, SameSilver
<1>3. ASSUME NEW j \in Jobs, IngestComplete(j) PROVE Kept
  <2>1. UNCHANGED <<columns, silver, quarantined>>
    BY <1>3 DEF IngestComplete
  <2>2. QED
    BY <1>3, <2>1, IngestCompleteInv, SameSilver
<1>4. ASSUME NEW j \in Jobs,
             \/ IngestExit(j) \/ Crash(j) \/ SilverRead(j)
             \/ SilverQuarantine(j) \/ \E d \in DagRuns : StartJob(d, j)
      PROVE  Kept
  <2>1. /\ UNCHANGED <<source, clock, columns, watermark, silver, landed>>
        /\ quarantined \subseteq quarantined'
    BY <1>4 DEF IngestExit, Crash, SilverRead, SilverQuarantine, StartJob
  <2>2. \A i \in Jobs : JobInv(i)'
    BY <1>4, JobBoundsInv, SilverBatchInv
  <2>3. QED
    BY <2>1, <2>2, SameTable, SameSilver
<1>5. ASSUME NEW j \in Jobs, SilverPromote(j) PROVE Kept
  <2>1. /\ UNCHANGED <<source, clock, columns, watermark, landed, quarantined>>
        /\ job[j].pc = "promote" /\ silver' = job[j].batch
    BY <1>5 DEF SilverPromote
  <2>2. GateInv(j)
    BY DEF Inv, JobInv
  <2>3. BadSilverWasQuarantined'
    BY <2>1, <2>2 DEF GateInv, BadSilverWasQuarantined
  <2>4. QED
    BY <1>5, <2>1, <2>3, JobBoundsInv, SameTable
<1>6. ASSUME NEW d \in DagRuns,
             \/ ObserveJob(d) \/ UpdateControlTable(d) \/ TimeOut(d)
             \/ TaskFails(d)
      PROVE  Kept
  <2>1. UNCHANGED <<tableVars, controlVars, lakeVars, job>>
    BY <1>6, UpdateStoresNothing DEF ObserveJob, TimeOut, TaskFails
  <2>2. QED
    BY <2>1, QuietStep
<1>7. ASSUME External PROVE Kept
  <2>1. ASSUME NEW key \in Keys \union {Null}, NEW flaw \in Flaws,
               SourceWrite(key, flaw)
        PROVE  Kept
    <3>1. UNCHANGED <<columns, silver, quarantined>>
      BY <2>1 DEF SourceWrite
    <3>2. QED
      BY <2>1, <3>1, SourceWriteInv, SameSilver
  <2>2. ASSUME LandBronze PROVE Kept
    BY <2>2, QuietStep DEF LandBronze
  <2>3. ASSUME NEW d \in DagRuns, NEW s, NEW p, Trigger(d, s, p) PROVE Kept
    BY <2>3, QuietStep DEF Trigger
  <2>4. QED
    BY <1>7, <2>1, <2>2, <2>3 DEF External
<1>8. ASSUME UNCHANGED vars PROVE Kept
  <2>1. UNCHANGED <<source, clock, columns, watermark, currentRun, silver,
                    landed, quarantined, job>>
    BY <1>8 DEF vars
  <2>2. QED
    BY <2>1, QuietStep
<1> HIDE DEF Kept
<1>9. Kept
  BY <1>2, <1>3, <1>4, <1>5, <1>6, <1>7, <1>8 DEF Next, JobStep, DagStep
<1>10. QED
  BY <1>1, <1>9 DEF Inv, Kept

LEMMA InitInv == Init => Inv
<1> SUFFICES ASSUME Init PROVE Inv
  OBVIOUS
<1> USE DEF Init, Fresh, NullWatermark
<1>1. TypeOK
  BY BatchAssumption
  DEF TypeOK, JobRecord, JobOver, Outcome, Tasks, Ended, Statuses
<1>2. \A j \in Jobs : JobInv(j)
  BY DEF JobInv, OwnerInv, WindowInv, GateInv, IngestSteps
<1>3. \A d \in DagRuns : AttemptInv(d)
  BY DEF AttemptInv
<1>4. ClockInv /\ LandedBelowWatermark /\ CommittedRowsAreComplete
  BY DEF ClockInv, LandedBelowWatermark, CommittedRowsAreComplete
<1>5. BadSilverWasQuarantined
  BY DEF BadSilverWasQuarantined
<1>6. QED
  BY <1>1, <1>2, <1>3, <1>4, <1>5 DEF Inv

LEMMA Invariance == Spec => []Inv
BY InitInv, NextInv, PTL DEF Spec

-----------------------------------------------------------------------------
(***************************************************************************)
(* The theorems.                                                           *)
(***************************************************************************)
\* Every variable keeps its type, the retries of a task their limit.
THEOREM TypeCorrect == Spec => []TypeOK
<1>1. Inv => TypeOK
  BY DEF Inv
<1>2. QED
  BY Invariance, <1>1, PTL

\* A row at or below the watermark was landed in raw, however many runs of
\* the DAG, retries and jobs that outlive their attempt share the control row.
THEOREM LandedBelowWatermarkAlways == Spec => []LandedBelowWatermark
<1>1. Inv => LandedBelowWatermark
  BY DEF Inv
<1>2. QED
  BY Invariance, <1>1, PTL

\* A row at or below the watermark has every critical column.
THEOREM CommittedRowsAreCompleteAlways == Spec => []CommittedRowsAreComplete
<1>1. Inv => CommittedRowsAreComplete
  BY DEF Inv
<1>2. QED
  BY Invariance, <1>1, PTL

\* Silver rows that break an ERROR rule were quarantined before.
THEOREM BadSilverWasQuarantinedAlways == Spec => []BadSilverWasQuarantined
<1>1. Inv => BadSilverWasQuarantined
  BY DEF Inv
<1>2. QED
  BY Invariance, <1>1, PTL

\* Only the complete_run of the job that owns the control row changes the
\* watermark, and it does not take it back.
LEMMA WatermarkStep ==
  ASSUME Inv, [Next]_vars, watermark' # watermark
  PROVE  \E j \in Jobs : IngestComplete(j)
<1> USE DEF tableVars, controlVars, lakeVars, dagVars
<1>1. ASSUME NEW j \in Jobs, JobStep(j) \/ IngestRaise(j) \/ Crash(j)
      PROVE  IngestComplete(j)
  BY <1>1 DEF JobStep, IngestStart, IngestGet, IngestExtract, IngestLand,
     IngestGate, IngestExit, SilverRead, SilverQuarantine, SilverPromote,
     IngestRaise, Crash
<1>2. ASSUME NEW d \in DagRuns PROVE ~(DagStep(d) \/ TimeOut(d) \/ TaskFails(d))
  BY <1>2, UpdateStoresNothing DEF DagStep, StartJob, ObserveJob, TimeOut,
     TaskFails
<1>3. ~External
  BY DEF External, SourceWrite, LandBronze, Trigger
<1>4. ~(UNCHANGED vars)
  BY DEF vars
<1>5. QED
  BY <1>1, <1>2, <1>3, <1>4 DEF Next

\* No step moves the watermark back.
THEOREM WatermarkOnlyAdvancesAlways == Spec => WatermarkOnlyAdvances
<1>1. Inv /\ [Next]_vars => watermark' >= watermark
  <2> SUFFICES ASSUME Inv, [Next]_vars PROVE watermark' >= watermark
    OBVIOUS
  <2>1. CASE watermark' = watermark
    BY <2>1 DEF Inv, TypeOK
  <2>2. CASE watermark' # watermark
    BY <2>2, WatermarkStep, IngestCompleteInv
  <2>3. QED
    BY <2>1, <2>2
<1>2. QED
  BY <1>1, Invariance, PTL DEF Spec, WatermarkOnlyAdvances

-----------------------------------------------------------------------------
(***************************************************************************)
(* The batch DAG implements the ledger.                                    *)
(***************************************************************************)
\* Storing a watermark advances that of the ledger, or is invisible.
LEMMA CompleteImplementsLedger ==
  ASSUME Inv, NEW j \in Jobs, IngestComplete(j)
  PROVE  [Ledger!AdvanceWatermark]_(Ledger!vars)
<1> USE DEF tableVars, lakeVars, Ledger!vars
<1>1. UNCHANGED <<source, clock, landed>>
  BY DEF IngestComplete
<1>2. CASE watermark' = watermark
  BY <1>1, <1>2
<1>3. CASE watermark' # watermark
  <2>1. /\ watermark' >= watermark
        /\ ClockInv' /\ LandedBelowWatermark' /\ TypeOK'
    BY IngestCompleteInv, NextTypeOK DEF Inv, Next, JobStep
  <2>2. /\ watermark \in Nat /\ watermark' \in 0..clock /\ watermark' > watermark
        /\ \A row \in source : row.modified_date <= watermark' => row \in landed
    BY <1>1, <1>3, <2>1 DEF Inv, TypeOK, ClockInv, LandedBelowWatermark
  <2>3. QED
    BY <1>1, <2>2 DEF Ledger!AdvanceWatermark, Ledger!Covered
<1>4. QED
  BY <1>2, <1>3

\* Whatever the runs of the DAG do, readers of the control row see a
\* watermark ledger over what was landed in raw.
THEOREM LedgerImplemented == Spec => ImplementsLedger
<1>1. Init => Ledger!Init
  BY DEF Init, Ledger!Init, NullWatermark
<1>2. Inv /\ [Next]_vars => [Ledger!Next]_(Ledger!vars)
  <2> SUFFICES ASSUME Inv, [Next]_vars PROVE [Ledger!Next]_(Ledger!vars)
    OBVIOUS
  <2> USE DEF tableVars, controlVars, lakeVars, dagVars, Ledger!vars, Ledger!Next
  <2>1. ASSUME NEW j \in Jobs, IngestComplete(j)
        PROVE  [Ledger!Next]_(Ledger!vars)
    BY <2>1, CompleteImplementsLedger
  <2>2. ASSUME NEW j \in Jobs, IngestLand(j) PROVE Ledger!Deliver
    BY <2>2 DEF IngestLand, Ledger!Deliver
  <2>3. ASSUME NEW key \in Keys \union {Null}, NEW flaw \in Flaws,
               SourceWrite(key, flaw)
        PROVE  Ledger!Modify
    BY <2>3 DEF SourceWrite, Ledger!Modify
  <2>4. ASSUME NEW j \in Jobs,
               \/ JobStep(j) /\ ~IngestComplete(j) /\ ~IngestLand(j)
               \/ IngestRaise(j) \/ Crash(j)
        PROVE  UNCHANGED Ledger!vars
    BY <2>4 DEF JobStep, IngestStart, IngestGet, IngestExtract, IngestGate,
       IngestExit, SilverRead, SilverQuarantine, SilverPromote, IngestRaise,
       Crash
  <2>5. ASSUME NEW d \in DagRuns, DagStep(d) \/ TimeOut(d) \/ TaskFails(d)
        PROVE  UNCHANGED Ledger!vars
    BY <2>5, UpdateStoresNothing DEF DagStep, StartJob, ObserveJob, TimeOut,
       TaskFails
  <2>6. ASSUME External,
               \A key \in Keys \union {Null}, flaw \in Flaws :
                 ~SourceWrite(key, flaw)
        PROVE  UNCHANGED Ledger!vars
    BY <2>6 DEF External, LandBronze, Trigger
  <2>7. UNCHANGED vars => UNCHANGED Ledger!vars
    BY DEF vars
  <2>8. QED
    BY <2>1, <2>2, <2>3, <2>4, <2>5, <2>6, <2>7 DEF Next
<1>3. QED
  BY <1>1, <1>2, Invariance, PTL DEF Spec, ImplementsLedger, Ledger!Spec
=============================================================================
