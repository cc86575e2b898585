-------------------- MODULE IncrementalIngestion_proofs --------------------
(***************************************************************************)
(* Proofs about IncrementalIngestion, for every set of runs and keys and   *)
(* every bound.                                                            *)
(***************************************************************************)
EXTENDS IncrementalIngestion, FiniteSetTheorems, TLAPS

(***************************************************************************)
(* The inductive invariant.                                                *)
(***************************************************************************)
\* The clock is ahead of everything it stamped. The table is finite.
ClockInv ==
  /\ IsFiniteSet(source)
  /\ \A row \in source : row.modified_date <= clock
  /\ watermark <= clock

\* A run that owns the control row works with the watermark that row holds:
\* the current_run_id test keeps every other run from changing it.
OwnerInv(r) ==
  currentRun = r =>
    /\ pc[r] \in TrySteps \union {"finalize", "update"} =>
         previous[r] = watermark
    /\ pc[r] = "update" => existing[r] = watermark
    /\ pc[r] = "audit" =>
         lastStatus = status[r] /\ watermark = ResolvedWatermark(r)
    /\ pc[r] = "done" =>
         lastStatus = audit[r].status /\ watermark = audit[r].after

\* The extract window: the batch has every source row of the window that has
\* not been modified again since.
WindowInv(r) ==
  /\ previous[r] <= newWatermark[r] /\ newWatermark[r] <= clock
  /\ IsFiniteSet(batch[r])
  /\ \A row \in source :
       previous[r] < row.modified_date /\ row.modified_date <= newWatermark[r]
         => row \in batch[r]

\* What each gate has established about the cleansed rows.
GateInv(r) ==
  /\ pc[r] \in {"quality", "reconcile", "commit"} =>
       /\ clean[r] \subseteq batch[r]
       /\ \A row \in clean[r] :
            /\ row.key # NullKey
            /\ \A other \in clean[r] : other.key = row.key => other = row
  /\ pc[r] \in {"reconcile", "commit"} => \A row \in clean[r] : ~row.bad
  /\ pc[r] = "commit" => clean[r] = batch[r]
  /\ pc[r] \in Over \union {"get"} \union TrySteps =>
       stage[r] # "COMMITTED" /\ status[r] = "SUCCESS"
  /\ status[r] = "FAILED" => stage[r] # "COMMITTED"
  /\ stage[r] = "COMMITTED" => batch[r] \subseteq delivered

Inv ==
  /\ TypeOK
  /\ ClockInv
  /\ \A r \in Runs : OwnerInv(r) /\ WindowInv(r) /\ GateInv(r)
  /\ NoRowSkipped
  /\ StagingPassedGates

-----------------------------------------------------------------------------
(***************************************************************************)
(* Types.                                                                  *)
(***************************************************************************)
\* The values that the code's functions return have their types.
LEMMA HelperTypes ==
  ASSUME TypeOK
  PROVE  /\ \A r \in Runs : ResolvedWatermark(r) \in Watermark
         /\ \A w \in Nat : ModifiedSince(w) \in SUBSET Row
         /\ \A rows \in SUBSET Row, w \in Nat :
              MaxModified(rows, w) \subseteq Watermark
         /\ \A rows \in SUBSET Row : Cleansed(rows) \subseteq SUBSET rows
BY DEF TypeOK, ResolvedWatermark, ModifiedSince, MaxModified, Cleansed,
       Watermark, Row

\* Every step of the program keeps every variable in its type.
LEMMA NextTypeOK == TypeOK /\ [Next]_vars => TypeOK'
<1> SUFFICES ASSUME TypeOK, [Next]_vars PROVE TypeOK'
  OBVIOUS
<1> USE DEF TypeOK, Live, Over, TrySteps, FinallySteps, RunStage, RunStatus,
            sourceVars, controlVars, lakeVars, localVars, Goto, Advance
<1>1. ASSUME NEW r \in Runs, StartRun(r) PROVE TypeOK'
  BY <1>1 DEF StartRun, NoAudit
<1>2. ASSUME NEW r \in Runs, ReadWatermark(r) PROVE TypeOK'
  BY <1>2 DEF ReadWatermark
<1>3. ASSUME NEW r \in Runs, Extract(r) PROVE TypeOK'
  <2> DEFINE rows == ModifiedSince(previous[r])
  <2>1. rows \in SUBSET Row /\ MaxModified(rows, previous[r]) \subseteq Watermark
    BY HelperTypes DEF Watermark
  <2>2. newWatermark' \in [Runs -> Watermark]
    BY <1>3, <2>1 DEF Extract
  <2> HIDE DEF rows
  <2>3. batch' \in [Runs -> SUBSET Row]
    BY <1>3, <2>1 DEF Extract, rows
  <2>4. QED
    BY <1>3, <2>2, <2>3 DEF Extract
<1>4. ASSUME NEW r \in Runs, LandRaw(r) PROVE TypeOK'
  BY <1>4 DEF LandRaw
<1>5. ASSUME NEW r \in Runs, WriteSilver(r) PROVE TypeOK'
  BY <1>5, HelperTypes DEF WriteSilver
<1>6. ASSUME NEW r \in Runs, CheckQuality(r) PROVE TypeOK'
  BY <1>6 DEF CheckQuality, FailRun, PassGate
<1>7. ASSUME NEW r \in Runs, Reconcile(r) PROVE TypeOK'
  BY <1>7 DEF Reconcile, FailRun, PassGate
<1>8. ASSUME NEW r \in Runs, CommitStaging(r) PROVE TypeOK'
  BY <1>8 DEF CommitStaging
<1>9. ASSUME NEW r \in Runs, CompleteRead(r) PROVE TypeOK'
  BY <1>9 DEF CompleteRead
<1>10. ASSUME NEW r \in Runs, CompleteUpdate(r) PROVE TypeOK'
  BY <1>10, HelperTypes DEF CompleteUpdate
<1>11. ASSUME NEW r \in Runs, WriteAudit(r) PROVE TypeOK'
  BY <1>11, HelperTypes DEF WriteAudit, Exit, NullWatermark, Watermark, AuditRow
<1>12. ASSUME NEW r \in Runs, RaiseUncaught(r) PROVE TypeOK'
  BY <1>12 DEF RaiseUncaught
<1>13. ASSUME NEW r \in Runs, Crash(r) PROVE TypeOK'
  BY <1>13 DEF Crash, Exit, NullWatermark, Watermark
<1>14. ASSUME NEW k \in Keys, NEW bad \in BOOLEAN, SourceWrite(k, bad)
       PROVE  TypeOK'
  BY <1>14 DEF SourceWrite, Row
<1>15. ASSUME NEW k \in Keys \union {NullKey}, SourceDuplicate(k)
       PROVE  TypeOK'
  <2>1. [key |-> k, modified_date |-> clock + 1, bad |-> FALSE] \in Row
    BY DEF Row
  <2>2. source' \in SUBSET Row
    BY <1>15, <2>1, Zenon DEF SourceDuplicate
  <2>3. QED
    BY <1>15, <2>2 DEF SourceDuplicate
<1>16. CASE UNCHANGED vars
  BY <1>16 DEF vars
<1>17. QED
  BY <1>1, <1>2, <1>3, <1>4, <1>5, <1>6, <1>7, <1>8, <1>9, <1>10, <1>11,
     <1>12, <1>13, <1>14, <1>15, <1>16
  DEF Next, RunStep, SourceStep

\* In every reachable state every variable has its type.
THEOREM TypeCorrect == Spec => []TypeOK
<1>1. Init => TypeOK
  BY ConstantsAssumption DEF Init, TypeOK, Watermark, NullWatermark, Row,
     RunStage, RunStatus, Live, Over, AuditRow, NoAudit
<1>2. QED
  BY <1>1, NextTypeOK, PTL DEF Spec

\* The times of rows are numbers.
LEMMA RowTimes ==
  ASSUME TypeOK
  PROVE  /\ \A row \in source : row.modified_date \in Nat
         /\ \A r \in Runs : \A row \in batch[r] : row.modified_date \in Nat
BY DEF TypeOK, Row

-----------------------------------------------------------------------------
(***************************************************************************)
(* The inductive invariant is preserved, one action at a time.             *)
(***************************************************************************)

LEMMA StartRunInv ==
  ASSUME Inv, TypeOK', NEW r \in Runs, StartRun(r) PROVE Inv'
<1> USE DEF Live, Over, TrySteps, FinallySteps, sourceVars, controlVars,
            lakeVars, localVars, Watermark, NullWatermark
<1>1. ClockInv'
  BY DEF Inv, ClockInv, TypeOK, StartRun, Goto, Advance
<1>2. ASSUME NEW q \in Runs PROVE OwnerInv(q)'
  BY DEF Inv, OwnerInv, TypeOK, ResolvedWatermark, MayAdvanceWatermark, StartRun, Goto, Advance
<1>3. ASSUME NEW q \in Runs PROVE WindowInv(q)'
  BY DEF Inv, WindowInv, ClockInv, TypeOK, StartRun, Goto, Advance
<1>4. ASSUME NEW q \in Runs PROVE GateInv(q)'
  BY DEF Inv, GateInv, TypeOK, StartRun, Goto, Advance
<1>5. NoRowSkipped'
  BY DEF Inv, NoRowSkipped, TypeOK, StartRun, Goto, Advance
<1>6. StagingPassedGates'
  BY DEF Inv, StagingPassedGates, TypeOK, StartRun, Goto, Advance
<1>7. QED
  BY <1>1, <1>2, <1>3, <1>4, <1>5, <1>6 DEF Inv

LEMMA ReadWatermarkInv ==
  ASSUME Inv, TypeOK', NEW r \in Runs, ReadWatermark(r) PROVE Inv'
<1> USE DEF Live, Over, TrySteps, FinallySteps, sourceVars, controlVars,
            lakeVars, localVars, Watermark, NullWatermark
<1>1. ClockInv'
  BY DEF Inv, ClockInv, TypeOK, ReadWatermark, Goto, Advance
<1>2. ASSUME NEW q \in Runs PROVE OwnerInv(q)'
  BY DEF Inv, OwnerInv, TypeOK, ResolvedWatermark, MayAdvanceWatermark, ReadWatermark, Goto, Advance
<1>3. ASSUME NEW q \in Runs PROVE WindowInv(q)'
  BY RowTimes DEF Inv, WindowInv, ClockInv, TypeOK, ReadWatermark, Goto
<1>4. ASSUME NEW q \in Runs PROVE GateInv(q)'
  BY DEF Inv, GateInv, TypeOK, ReadWatermark, Goto, Advance
<1>5. NoRowSkipped'
  BY DEF Inv, NoRowSkipped, TypeOK, ReadWatermark, Goto, Advance
<1>6. StagingPassedGates'
  BY DEF Inv, StagingPassedGates, TypeOK, ReadWatermark, Goto, Advance
<1>7. QED
  BY <1>1, <1>2, <1>3, <1>4, <1>5, <1>6 DEF Inv

LEMMA ExtractInv ==
  ASSUME Inv, TypeOK', NEW r \in Runs, Extract(r) PROVE Inv'
<1> USE DEF Live, Over, TrySteps, FinallySteps, sourceVars, controlVars,
            lakeVars, localVars, Watermark, NullWatermark
<1>1. ClockInv'
  BY DEF Inv, ClockInv, TypeOK, Extract, Goto, Advance
<1>2. ASSUME NEW q \in Runs PROVE OwnerInv(q)'
  BY DEF Inv, OwnerInv, TypeOK, ResolvedWatermark, MayAdvanceWatermark, Extract, Goto, Advance
<1>3. ASSUME NEW q \in Runs PROVE WindowInv(q)'
  <2> DEFINE rows == ModifiedSince(previous[r])
  <2>1. CASE q = r
    <3>1. rows \subseteq source /\ IsFiniteSet(rows)
      BY FS_Subset DEF ModifiedSince, Inv, ClockInv
    <3>2. PICK w \in MaxModified(rows, previous[r]) :
            newWatermark' = [newWatermark EXCEPT ![r] = w]
      BY DEF Extract
    <3>3. previous[r] \in Nat /\ previous[r] <= clock /\ clock \in Nat
      BY DEF Inv, WindowInv, TypeOK
    <3>4. /\ w \in Nat /\ previous[r] <= w /\ w <= clock
          /\ \A row \in source :
               previous[r] < row.modified_date /\ row.modified_date <= w
                 => row \in rows
      BY <3>1, <3>3, RowTimes DEF Inv, ClockInv, MaxModified, ModifiedSince
    <3>5. /\ batch'[r] = rows /\ newWatermark'[r] = w
          /\ UNCHANGED <<source, clock, previous>>
      BY <3>2 DEF Extract, Inv, TypeOK
    <3>6. QED
      BY <2>1, <3>1, <3>4, <3>5 DEF WindowInv
  <2>2. CASE q # r
    BY <2>2 DEF Inv, WindowInv, TypeOK, Extract
  <2>3. QED
    BY <2>1, <2>2
<1>4. ASSUME NEW q \in Runs PROVE GateInv(q)'
  BY DEF Inv, GateInv, TypeOK, Extract, Goto, Advance
<1>5. NoRowSkipped'
  BY DEF Inv, NoRowSkipped, TypeOK, Extract, Goto, Advance
<1>6. StagingPassedGates'
  BY DEF Inv, StagingPassedGates, TypeOK, Extract, Goto, Advance
<1>7. QED
  BY <1>1, <1>2, <1>3, <1>4, <1>5, <1>6 DEF Inv

LEMMA LandRawInv ==
  ASSUME Inv, TypeOK', NEW r \in Runs, LandRaw(r) PROVE Inv'
<1> USE DEF Live, Over, TrySteps, FinallySteps, sourceVars, controlVars,
            lakeVars, localVars, Watermark, NullWatermark
<1>1. ClockInv'
  BY DEF Inv, ClockInv, TypeOK, LandRaw, Goto, Advance
<1>2. ASSUME NEW q \in Runs PROVE OwnerInv(q)'
  BY DEF Inv, OwnerInv, TypeOK, ResolvedWatermark, MayAdvanceWatermark, LandRaw, Goto, Advance
<1>3. ASSUME NEW q \in Runs PROVE WindowInv(q)'
  BY DEF Inv, WindowInv, ClockInv, TypeOK, LandRaw, Goto, Advance
<1>4. ASSUME NEW q \in Runs PROVE GateInv(q)'
  BY DEF Inv, GateInv, TypeOK, LandRaw, Goto, Advance
<1>5. NoRowSkipped'
  BY DEF Inv, NoRowSkipped, TypeOK, LandRaw, Goto, Advance
<1>6. StagingPassedGates'
  BY DEF Inv, StagingPassedGates, TypeOK, LandRaw, Goto, Advance
<1>7. QED
  BY <1>1, <1>2, <1>3, <1>4, <1>5, <1>6 DEF Inv

LEMMA WriteSilverInv ==
  ASSUME Inv, TypeOK', NEW r \in Runs, WriteSilver(r) PROVE Inv'
<1> USE DEF Live, Over, TrySteps, FinallySteps, sourceVars, controlVars,
            lakeVars, localVars, Watermark, NullWatermark
<1>1. ClockInv'
  BY DEF Inv, ClockInv, TypeOK, WriteSilver, Goto, Advance
<1>2. ASSUME NEW q \in Runs PROVE OwnerInv(q)'
  BY DEF Inv, OwnerInv, TypeOK, ResolvedWatermark, MayAdvanceWatermark, WriteSilver, Goto, Advance
<1>3. ASSUME NEW q \in Runs PROVE WindowInv(q)'
  BY DEF Inv, WindowInv, ClockInv, TypeOK, WriteSilver, Goto, Advance
<1>4. ASSUME NEW q \in Runs PROVE GateInv(q)'
  <2>1. CASE q = r
    <3>1. PICK s \in Cleansed(batch[r]) : clean' = [clean EXCEPT ![r] = s]
      BY DEF WriteSilver
    <3>2. clean'[r] = s /\ pc'[r] = "quality" /\ stage'[r] = "WRITTEN"
      BY <3>1 DEF WriteSilver, Goto, Advance, Inv, TypeOK
    <3>3. /\ s \subseteq batch[r]
          /\ \A row \in s :
               /\ row.key # NullKey
               /\ \A other \in s : other.key = row.key => other = row
      BY DEF Cleansed
    <3>4. UNCHANGED <<batch, delivered>> /\ status'[r] = "SUCCESS"
      BY DEF WriteSilver, Goto, Inv, GateInv
    <3>5. QED
      BY <2>1, <3>2, <3>3, <3>4 DEF GateInv
  <2>2. CASE q # r
    BY <2>2 DEF Inv, GateInv, TypeOK, WriteSilver, Goto, Advance
  <2>3. QED
    BY <2>1, <2>2
<1>5. NoRowSkipped'
  BY DEF Inv, NoRowSkipped, TypeOK, WriteSilver, Goto, Advance
<1>6. StagingPassedGates'
  BY DEF Inv, StagingPassedGates, TypeOK, WriteSilver, Goto, Advance
<1>7. QED
  BY <1>1, <1>2, <1>3, <1>4, <1>5, <1>6 DEF Inv

LEMMA CheckQualityInv ==
  ASSUME Inv, TypeOK', NEW r \in Runs, CheckQuality(r) PROVE Inv'
<1> USE DEF Live, Over, TrySteps, FinallySteps, sourceVars, controlVars,
            lakeVars, localVars, Watermark, NullWatermark
<1>1. ClockInv'
  BY DEF Inv, ClockInv, TypeOK, CheckQuality, Goto, Advance, FailRun, PassGate, QualityPasses
<1>2. ASSUME NEW q \in Runs PROVE OwnerInv(q)'
  BY DEF Inv, OwnerInv, TypeOK, ResolvedWatermark, MayAdvanceWatermark, CheckQuality, Goto, Advance, FailRun, PassGate, QualityPasses
<1>3. ASSUME NEW q \in Runs PROVE WindowInv(q)'
  BY DEF Inv, WindowInv, ClockInv, TypeOK, CheckQuality, Goto, Advance, FailRun, PassGate, QualityPasses
<1>4. ASSUME NEW q \in Runs PROVE GateInv(q)'
  BY DEF Inv, GateInv, TypeOK, CheckQuality, Goto, Advance, FailRun, PassGate, QualityPasses
<1>5. NoRowSkipped'
  BY DEF Inv, NoRowSkipped, TypeOK, CheckQuality, Goto, Advance, FailRun, PassGate, QualityPasses
<1>6. StagingPassedGates'
  BY DEF Inv, StagingPassedGates, TypeOK, CheckQuality, Goto, Advance, FailRun, PassGate, QualityPasses
<1>7. QED
  BY <1>1, <1>2, <1>3, <1>4, <1>5, <1>6 DEF Inv

LEMMA ReconcileInv ==
  ASSUME Inv, TypeOK', NEW r \in Runs, Reconcile(r) PROVE Inv'
<1> USE DEF Live, Over, TrySteps, FinallySteps, sourceVars, controlVars,
            lakeVars, localVars, Watermark, NullWatermark
<1>1. ClockInv'
  BY DEF Inv, ClockInv, TypeOK, Reconcile, Goto, Advance, FailRun, PassGate
<1>2. ASSUME NEW q \in Runs PROVE OwnerInv(q)'
  BY DEF Inv, OwnerInv, TypeOK, ResolvedWatermark, MayAdvanceWatermark, Reconcile, Goto, Advance, FailRun, PassGate
<1>3. ASSUME NEW q \in Runs PROVE WindowInv(q)'
  BY DEF Inv, WindowInv, ClockInv, TypeOK, Reconcile, Goto, Advance, FailRun, PassGate
<1>4. ASSUME NEW q \in Runs PROVE GateInv(q)'
  <2>1. CASE q = r /\ Reconciles(r)
    <3>1. clean[r] \subseteq batch[r] /\ IsFiniteSet(batch[r])
      BY DEF Inv, GateInv, WindowInv, Reconcile, PassGate, FailRun, Goto
    <3>2. clean[r] = batch[r]
      BY <2>1, <3>1, FS_Subset DEF Reconciles
    <3>3. QED
      BY <2>1, <3>2
      DEF Inv, GateInv, TypeOK, Reconcile, PassGate, Goto, Advance
  <2>2. CASE ~(q = r /\ Reconciles(r))
    BY <2>2 DEF Inv, GateInv, TypeOK, Reconcile, FailRun, PassGate, Goto,
                Advance
  <2>3. QED
    BY <2>1, <2>2
<1>5. NoRowSkipped'
  BY DEF Inv, NoRowSkipped, TypeOK, Reconcile, Goto, Advance, FailRun, PassGate
<1>6. StagingPassedGates'
  BY DEF Inv, StagingPassedGates, TypeOK, Reconcile, Goto, Advance, FailRun, PassGate
<1>7. QED
  BY <1>1, <1>2, <1>3, <1>4, <1>5, <1>6 DEF Inv

LEMMA CommitStagingInv ==
  ASSUME Inv, TypeOK', NEW r \in Runs, CommitStaging(r) PROVE Inv'
<1> USE DEF Live, Over, TrySteps, FinallySteps, sourceVars, controlVars,
            lakeVars, localVars, Watermark, NullWatermark
<1>1. ClockInv'
  BY DEF Inv, ClockInv, TypeOK, CommitStaging, Goto, Advance
<1>2. ASSUME NEW q \in Runs PROVE OwnerInv(q)'
  BY DEF Inv, OwnerInv, TypeOK, ResolvedWatermark, MayAdvanceWatermark, CommitStaging, Goto, Advance
<1>3. ASSUME NEW q \in Runs PROVE WindowInv(q)'
  BY DEF Inv, WindowInv, ClockInv, TypeOK, CommitStaging, Goto, Advance
<1>4. ASSUME NEW q \in Runs PROVE GateInv(q)'
  <2>1. CASE q = r
    <3>1. clean[r] = batch[r] /\ delivered' = delivered \union clean[r]
      BY DEF Inv, GateInv, CommitStaging, Goto
    <3>2. pc'[r] = "finalize" /\ UNCHANGED <<batch, clean, status>>
      BY DEF Inv, TypeOK, CommitStaging, Goto
    <3>3. status[r] # "FAILED"
      BY DEF Inv, GateInv, TypeOK, CommitStaging, Goto
    <3>4. QED
      BY <2>1, <3>1, <3>2, <3>3 DEF GateInv
  <2>2. CASE q # r
    BY <2>2 DEF Inv, GateInv, TypeOK, CommitStaging, Goto, Advance
  <2>3. QED
    BY <2>1, <2>2
<1>5. NoRowSkipped'
  BY DEF Inv, NoRowSkipped, TypeOK, CommitStaging, Goto, Advance
<1>6. StagingPassedGates'
  <2>1. staging' = clean[r] /\ pc[r] = "commit"
    BY DEF CommitStaging, Goto
  <2>2. QED
    BY <2>1 DEF Inv, GateInv, StagingPassedGates
<1>7. QED
  BY <1>1, <1>2, <1>3, <1>4, <1>5, <1>6 DEF Inv

LEMMA CompleteReadInv ==
  ASSUME Inv, TypeOK', NEW r \in Runs, CompleteRead(r) PROVE Inv'
<1> USE DEF Live, Over, TrySteps, FinallySteps, sourceVars, controlVars,
            lakeVars, localVars, Watermark, NullWatermark
<1>1. ClockInv'
  BY DEF Inv, ClockInv, TypeOK, CompleteRead, Goto, Advance
<1>2. ASSUME NEW q \in Runs PROVE OwnerInv(q)'
  BY DEF Inv, OwnerInv, TypeOK, ResolvedWatermark, MayAdvanceWatermark, CompleteRead, Goto, Advance
<1>3. ASSUME NEW q \in Runs PROVE WindowInv(q)'
  BY DEF Inv, WindowInv, ClockInv, TypeOK, CompleteRead, Goto, Advance
<1>4. ASSUME NEW q \in Runs PROVE GateInv(q)'
  BY DEF Inv, GateInv, TypeOK, CompleteRead, Goto, Advance
<1>5. NoRowSkipped'
  BY DEF Inv, NoRowSkipped, TypeOK, CompleteRead, Goto, Advance
<1>6. StagingPassedGates'
  BY DEF Inv, StagingPassedGates, TypeOK, CompleteRead, Goto, Advance
<1>7. QED
  BY <1>1, <1>2, <1>3, <1>4, <1>5, <1>6 DEF Inv

\* The value a finishing run stores when it still owns the control row: the
\* resolved watermark, whichever branch of complete_run computes it, and it
\* is the old watermark unless the run has committed.
LEMMA StoredWatermark ==
  ASSUME Inv, NEW r \in Runs, CompleteUpdate(r), OwnsControlRow(r)
  PROVE  /\ watermark' = ResolvedWatermark(r)
         /\ lastStatus' = status[r]
         /\ stage[r] # "COMMITTED" => watermark' = watermark
         /\ watermark <= watermark' /\ watermark' <= clock
         /\ \A row \in source : row.modified_date <= watermark' => row \in delivered
<1> USE DEF CompleteUpdate, OwnsControlRow, Goto
<1>1. previous[r] = watermark /\ existing[r] = watermark
  BY DEF Inv, OwnerInv
<1>2. status[r] = "FAILED" => stage[r] # "COMMITTED"
  BY DEF Inv, GateInv
<1>3. watermark' = ResolvedWatermark(r) /\ lastStatus' = status[r]
  BY <1>1, <1>2 DEF ResolvedWatermark, MayAdvanceWatermark, Inv, TypeOK,
                    RunStatus
<1>4. /\ watermark \in Nat /\ newWatermark[r] \in Nat /\ clock \in Nat
      /\ previous[r] <= newWatermark[r] /\ newWatermark[r] <= clock
      /\ watermark <= clock
  BY DEF Inv, WindowInv, ClockInv, TypeOK, Watermark
<1>5. CASE stage[r] # "COMMITTED"
  BY <1>1, <1>3, <1>4, <1>5 DEF ResolvedWatermark, MayAdvanceWatermark, Inv,
                                NoRowSkipped
<1>6. CASE stage[r] = "COMMITTED"
  <2>1. watermark' = newWatermark[r]
    BY <1>3, <1>6 DEF ResolvedWatermark, MayAdvanceWatermark
  <2>2. ASSUME NEW row \in source, row.modified_date <= newWatermark[r]
        PROVE  row \in delivered
    <3>1. CASE row.modified_date <= watermark
      BY <3>1 DEF Inv, NoRowSkipped
    <3>2. CASE watermark < row.modified_date
      BY <1>1, <1>6, <2>2, <3>2 DEF Inv, WindowInv, GateInv
    <3>3. QED
      BY <1>4, <3>1, <3>2, RowTimes DEF Inv
  <2>3. QED
    BY <1>1, <1>3, <1>4, <1>6, <2>1, <2>2
<1>7. QED
  BY <1>5, <1>6

LEMMA CompleteUpdateInv ==
  ASSUME Inv, TypeOK', NEW r \in Runs, CompleteUpdate(r) PROVE Inv'
<1> USE DEF Live, Over, TrySteps, FinallySteps, sourceVars, controlVars,
            lakeVars, localVars, Watermark, NullWatermark
<1> USE DEF CompleteUpdate
<1>0. CASE ~OwnsControlRow(r)
  <2>1. UNCHANGED <<sourceVars, controlVars, lakeVars, localVars, audit>>
    BY <1>0
  <2>2. ASSUME NEW q \in Runs PROVE OwnerInv(q)'
    BY <1>0, <2>1 DEF Inv, OwnerInv, TypeOK, ResolvedWatermark,
                      MayAdvanceWatermark, Goto, OwnsControlRow
  <2>3. ASSUME NEW q \in Runs PROVE WindowInv(q)' /\ GateInv(q)'
    BY <2>1 DEF Inv, WindowInv, GateInv, TypeOK, Goto
  <2>4. QED
    BY <2>1, <2>2, <2>3 DEF Inv, ClockInv, NoRowSkipped, StagingPassedGates
<1>1. CASE OwnsControlRow(r)
  <2>1. ClockInv' /\ NoRowSkipped'
    BY <1>1, StoredWatermark DEF Inv, ClockInv, NoRowSkipped
  <2>2. ASSUME NEW q \in Runs PROVE OwnerInv(q)'
    <3>1. CASE q = r
      BY <3>1, <1>1, StoredWatermark
      DEF OwnerInv, ResolvedWatermark, MayAdvanceWatermark, Goto, Inv, TypeOK
    <3>2. CASE q # r
      BY <3>2, <1>1 DEF OwnerInv, OwnsControlRow
    <3>3. QED
      BY <3>1, <3>2
  <2>3. ASSUME NEW q \in Runs PROVE WindowInv(q)' /\ GateInv(q)'
    BY DEF Inv, WindowInv, GateInv, TypeOK, Goto
  <2>4. StagingPassedGates'
    BY DEF Inv, StagingPassedGates
  <2>5. QED
    BY <2>1, <2>2, <2>3, <2>4 DEF Inv
<1>2. QED
  BY <1>0, <1>1

LEMMA WriteAuditInv ==
  ASSUME Inv, TypeOK', NEW r \in Runs, WriteAudit(r) PROVE Inv'
<1> USE DEF Live, Over, TrySteps, FinallySteps, sourceVars, controlVars,
            lakeVars, localVars, Watermark, NullWatermark
<1>1. ClockInv'
  BY DEF Inv, ClockInv, TypeOK, WriteAudit, Goto, Advance, Exit
<1>2. ASSUME NEW q \in Runs PROVE OwnerInv(q)'
  BY DEF Inv, OwnerInv, TypeOK, ResolvedWatermark, MayAdvanceWatermark, WriteAudit, Goto, Advance, Exit
<1>3. ASSUME NEW q \in Runs PROVE WindowInv(q)'
  <2>1. CASE q = r
    BY <2>1, FS_EmptySet, RowTimes
    DEF Inv, WindowInv, ClockInv, TypeOK, WriteAudit, Exit
  <2>2. CASE q # r
    BY <2>2 DEF Inv, WindowInv, TypeOK, WriteAudit, Exit
  <2>3. QED
    BY <2>1, <2>2
<1>4. ASSUME NEW q \in Runs PROVE GateInv(q)'
  BY DEF Inv, GateInv, TypeOK, WriteAudit, Goto, Advance, Exit
<1>5. NoRowSkipped'
  BY DEF Inv, NoRowSkipped, TypeOK, WriteAudit, Goto, Advance, Exit
<1>6. StagingPassedGates'
  BY DEF Inv, StagingPassedGates, TypeOK, WriteAudit, Goto, Advance, Exit
<1>7. QED
  BY <1>1, <1>2, <1>3, <1>4, <1>5, <1>6 DEF Inv

LEMMA RaiseUncaughtInv ==
  ASSUME Inv, TypeOK', NEW r \in Runs, RaiseUncaught(r) PROVE Inv'
<1> USE DEF Live, Over, TrySteps, FinallySteps, sourceVars, controlVars,
            lakeVars, localVars, Watermark, NullWatermark
<1>1. ClockInv'
  BY DEF Inv, ClockInv, TypeOK, RaiseUncaught, Goto, Advance
<1>2. ASSUME NEW q \in Runs PROVE OwnerInv(q)'
  BY DEF Inv, OwnerInv, TypeOK, ResolvedWatermark, MayAdvanceWatermark, RaiseUncaught, Goto, Advance
<1>3. ASSUME NEW q \in Runs PROVE WindowInv(q)'
  BY DEF Inv, WindowInv, ClockInv, TypeOK, RaiseUncaught, Goto, Advance
<1>4. ASSUME NEW q \in Runs PROVE GateInv(q)'
  BY DEF Inv, GateInv, TypeOK, RaiseUncaught, Goto, Advance
<1>5. NoRowSkipped'
  BY DEF Inv, NoRowSkipped, TypeOK, RaiseUncaught, Goto, Advance
<1>6. StagingPassedGates'
  BY DEF Inv, StagingPassedGates, TypeOK, RaiseUncaught, Goto, Advance
<1>7. QED
  BY <1>1, <1>2, <1>3, <1>4, <1>5, <1>6 DEF Inv

LEMMA CrashInv ==
  ASSUME Inv, TypeOK', NEW r \in Runs, Crash(r) PROVE Inv'
<1> USE DEF Live, Over, TrySteps, FinallySteps, sourceVars, controlVars,
            lakeVars, localVars, Watermark, NullWatermark
<1>1. ClockInv'
  BY DEF Inv, ClockInv, TypeOK, Crash, Goto, Advance, Exit
<1>2. ASSUME NEW q \in Runs PROVE OwnerInv(q)'
  BY DEF Inv, OwnerInv, TypeOK, ResolvedWatermark, MayAdvanceWatermark, Crash, Goto, Advance, Exit
<1>3. ASSUME NEW q \in Runs PROVE WindowInv(q)'
  <2>1. CASE q = r
    BY <2>1, FS_EmptySet, RowTimes
    DEF Inv, WindowInv, ClockInv, TypeOK, Crash, Exit
  <2>2. CASE q # r
    BY <2>2 DEF Inv, WindowInv, TypeOK, Crash, Exit
  <2>3. QED
    BY <2>1, <2>2
<1>4. ASSUME NEW q \in Runs PROVE GateInv(q)'
  BY DEF Inv, GateInv, TypeOK, Crash, Goto, Advance, Exit
<1>5. NoRowSkipped'
  BY DEF Inv, NoRowSkipped, TypeOK, Crash, Goto, Advance, Exit
<1>6. StagingPassedGates'
  BY DEF Inv, StagingPassedGates, TypeOK, Crash, Goto, Advance, Exit
<1>7. QED
  BY <1>1, <1>2, <1>3, <1>4, <1>5, <1>6 DEF Inv

\* New source rows are newer than every window, so no run has to know them.
LEMMA SourceInv ==
  ASSUME Inv, TypeOK',
         NEW new \in Row, new.modified_date = clock + 1, clock' = clock + 1,
         source' \subseteq source \union {new},
         UNCHANGED <<controlVars, lakeVars, localVars, audit, pc, failures>>
  PROVE  Inv'
<1> USE DEF sourceVars, controlVars, lakeVars, localVars
<1>1. clock \in Nat /\ watermark \in Nat /\ watermark <= clock
  BY DEF Inv, ClockInv, TypeOK, Watermark
<1>2. ClockInv'
  <2>1. IsFiniteSet(source')
    BY FS_AddElement, FS_Subset DEF Inv, ClockInv
  <2>2. QED
    BY <1>1, <2>1, RowTimes DEF Inv, ClockInv
<1>3. ASSUME NEW q \in Runs PROVE OwnerInv(q)' /\ GateInv(q)'
  BY DEF Inv, OwnerInv, GateInv, ResolvedWatermark, MayAdvanceWatermark
<1>4. ASSUME NEW q \in Runs PROVE WindowInv(q)'
  <2>1. /\ newWatermark[q] \in Nat /\ newWatermark[q] <= clock
        /\ previous[q] <= newWatermark[q] /\ previous[q] \in Nat
    BY DEF Inv, WindowInv, TypeOK, Watermark
  <2>2. QED
    BY <1>1, <2>1 DEF Inv, WindowInv
<1>5. NoRowSkipped' /\ StagingPassedGates'
  BY <1>1 DEF Inv, NoRowSkipped, StagingPassedGates
<1>6. QED
  BY <1>2, <1>3, <1>4, <1>5 DEF Inv

\* The invariant is inductive.
LEMMA NextInv == Inv /\ [Next]_vars => Inv'
<1> SUFFICES ASSUME Inv, [Next]_vars PROVE Inv'
  OBVIOUS
<1>1. TypeOK /\ TypeOK'
  BY NextTypeOK DEF Inv
<1>2. ASSUME NEW r \in Runs, RunStep(r) \/ StartRun(r) \/ RaiseUncaught(r)
                        \/ Crash(r)
      PROVE  Inv'
  BY <1>1, <1>2, StartRunInv, ReadWatermarkInv, ExtractInv, LandRawInv,
     WriteSilverInv, CheckQualityInv, ReconcileInv, CommitStagingInv,
     CompleteReadInv, CompleteUpdateInv, WriteAuditInv, RaiseUncaughtInv,
     CrashInv
  DEF RunStep
<1>3. ASSUME NEW k \in Keys, NEW bad \in BOOLEAN, SourceWrite(k, bad)
      PROVE  Inv'
  <2> DEFINE new == [key |-> k, modified_date |-> clock + 1, bad |-> bad]
  <2>1. new \in Row /\ new.modified_date = clock + 1
    BY <1>1 DEF Row, TypeOK
  <2>2. source' \subseteq source \union {new}
    BY <1>3 DEF SourceWrite
  <2>3. QED
    BY <1>1, <1>3, <2>1, <2>2, SourceInv DEF SourceWrite
<1>4. ASSUME NEW k \in Keys \union {NullKey}, SourceDuplicate(k) PROVE Inv'
  <2> DEFINE new == [key |-> k, modified_date |-> clock + 1, bad |-> FALSE]
  <2>1. new \in Row /\ new.modified_date = clock + 1
    BY <1>1 DEF Row, TypeOK
  <2>2. source' \subseteq source \union {new}
    BY <1>4 DEF SourceDuplicate
  <2>3. QED
    BY <1>1, <1>4, <2>1, <2>2, SourceInv DEF SourceDuplicate
<1>5. CASE UNCHANGED vars
  BY <1>5 DEF vars, sourceVars, controlVars, lakeVars, localVars, Inv, TypeOK,
     ClockInv, OwnerInv, WindowInv, GateInv, NoRowSkipped, StagingPassedGates,
     ResolvedWatermark, MayAdvanceWatermark
<1>6. QED
  BY <1>2, <1>3, <1>4, <1>5 DEF Next, SourceStep

LEMMA InitInv == Init => Inv
<1> SUFFICES ASSUME Init PROVE Inv
  OBVIOUS
<1>1. TypeOK
  BY ConstantsAssumption DEF Init, TypeOK, Watermark, NullWatermark, Row,
     RunStage, RunStatus, Live, Over, AuditRow, NoAudit
<1>2. ClockInv
  BY FS_EmptySet DEF Init, ClockInv, NullWatermark
<1>3. ASSUME NEW r \in Runs PROVE OwnerInv(r) /\ WindowInv(r) /\ GateInv(r)
  BY FS_EmptySet, ConstantsAssumption
  DEF Init, OwnerInv, WindowInv, GateInv, Over, TrySteps, NullWatermark
<1>4. NoRowSkipped /\ StagingPassedGates
  BY DEF Init, NoRowSkipped, StagingPassedGates
<1>5. QED
  BY <1>1, <1>2, <1>3, <1>4 DEF Inv

LEMMA Invariance == Spec => []Inv
BY InitInv, NextInv, PTL DEF Spec

-----------------------------------------------------------------------------
(***************************************************************************)
(* The theorems.                                                           *)
(***************************************************************************)
\* No source row is skipped: whatever is at or below the watermark has been
\* committed to staging, however runs overlap, fail or die.
THEOREM NoRowSkippedAlways == Spec => []NoRowSkipped
<1>1. Inv => NoRowSkipped
  BY DEF Inv
<1>2. QED
  BY Invariance, <1>1, PTL

\* Staging never holds rows that the gates of a run have not passed.
THEOREM StagingPassedGatesAlways == Spec => []StagingPassedGates
<1>1. Inv => StagingPassedGates
  BY DEF Inv
<1>2. QED
  BY Invariance, <1>1, PTL

\* The audit row of the last registered run and the control row agree.
THEOREM AuditAgreesWithControlAlways == Spec => []AuditAgreesWithControl
<1>1. Inv => AuditAgreesWithControl
  BY DEF Inv, OwnerInv, AuditAgreesWithControl
<1>2. QED
  BY Invariance, <1>1, PTL

\* The watermark changes in complete_run only, under the run that owns the
\* control row.
LEMMA OnlyOwnerStores ==
  ASSUME [Next]_vars, watermark' # watermark
  PROVE  \E r \in Runs : CompleteUpdate(r) /\ OwnsControlRow(r)
<1> USE DEF controlVars, lakeVars, localVars, sourceVars
<1>1. CASE UNCHANGED vars
  BY <1>1 DEF vars
<1>2. ASSUME NEW r \in Runs, RunStep(r) \/ StartRun(r) \/ RaiseUncaught(r)
                        \/ Crash(r)
      PROVE  CompleteUpdate(r) /\ OwnsControlRow(r)
  BY <1>2 DEF RunStep, StartRun, ReadWatermark, Extract, LandRaw, WriteSilver,
     CheckQuality, Reconcile, FailRun, PassGate, CommitStaging, CompleteRead,
     CompleteUpdate, WriteAudit, RaiseUncaught, Crash
<1>3. ~SourceStep
  BY DEF SourceStep, SourceWrite, SourceDuplicate
<1>4. QED
  BY <1>1, <1>2, <1>3 DEF Next

\* The watermark never moves back, although it is written from a value that
\* the run computed many steps earlier.
THEOREM WatermarkNeverRegressesAlways == Spec => WatermarkNeverRegresses
<1>1. Inv /\ [Next]_vars => watermark' >= watermark
  <2> SUFFICES ASSUME Inv, [Next]_vars PROVE watermark' >= watermark
    OBVIOUS
  <2>1. TypeOK /\ TypeOK'
    BY NextTypeOK DEF Inv
  <2>2. watermark \in Nat /\ watermark' \in Nat
    BY <2>1 DEF TypeOK, Watermark
  <2>3. CASE watermark' = watermark
    BY <2>2, <2>3
  <2>4. CASE watermark' # watermark
    BY <2>2, <2>4, OnlyOwnerStores, StoredWatermark
  <2>5. QED
    BY <2>3, <2>4
<1>2. QED
  BY <1>1, Invariance, PTL DEF Spec, WatermarkNeverRegresses

\* A run that has not committed leaves the watermark as it is.
THEOREM UncommittedRunFreezesAlways == Spec => UncommittedRunFreezesWatermark
<1>1. ASSUME Inv, NEW r \in Runs, CompleteUpdate(r), stage[r] # "COMMITTED"
      PROVE  watermark' = watermark
  <2>1. CASE OwnsControlRow(r)
    BY <1>1, <2>1, StoredWatermark
  <2>2. CASE ~OwnsControlRow(r)
    BY <1>1, <2>2 DEF CompleteUpdate
  <2>3. QED
    BY <2>1, <2>2
<1>2. Inv => \A r \in Runs : CompleteUpdate(r) /\ stage[r] # "COMMITTED"
                              => watermark' = watermark
  BY <1>1
<1>3. QED
  BY <1>2, Invariance, PTL DEF Spec, UncommittedRunFreezesWatermark

-----------------------------------------------------------------------------
(***************************************************************************)
(* The runs implement the ledger.                                          *)
(***************************************************************************)
\* A modification of the source is one of the ledger.
LEMMA SourceImplementsModify ==
  ASSUME Inv, SourceStep PROVE Ledger!Modify
BY DEF SourceStep, SourceWrite, SourceDuplicate, Ledger!Modify, controlVars,
       lakeVars

\* A step of a run delivers rows, advances the watermark over delivered rows
\* or is invisible.
LEMMA RunImplementsLedger ==
  ASSUME Inv, NEW r \in Runs, RunStep(r) \/ StartRun(r) \/ RaiseUncaught(r)
                        \/ Crash(r)
  PROVE  [Ledger!Next]_(Ledger!vars)
<1> USE DEF controlVars, lakeVars, sourceVars, Ledger!vars, Ledger!Next
<1>1. CASE CommitStaging(r)
  BY <1>1 DEF CommitStaging, Ledger!Deliver
<1>2. CASE CompleteUpdate(r)
  <2>1. UNCHANGED <<source, clock, delivered>>
    BY <1>2 DEF CompleteUpdate
  <2>2. CASE watermark' = watermark
    BY <2>1, <2>2
  <2>3. CASE watermark' # watermark
    <3>1. OwnsControlRow(r)
      BY <1>2, <2>3 DEF CompleteUpdate
    <3>2. /\ watermark <= watermark' /\ watermark' <= clock
          /\ \A row \in source : row.modified_date <= watermark' => row \in delivered
      BY <1>2, <3>1, StoredWatermark
    <3>3. watermark \in Nat /\ watermark' \in Nat /\ clock \in Nat
      <4>1. watermark' = ResolvedWatermark(r)
        BY <1>2, <3>1, StoredWatermark
      <4>2. QED
        BY <4>1, HelperTypes DEF Inv, TypeOK, Watermark
    <3>4. QED
      BY <2>1, <2>3, <3>2, <3>3 DEF Ledger!AdvanceWatermark, Ledger!Covered
  <2>4. QED
    BY <2>2, <2>3
<1>3. CASE ~CommitStaging(r) /\ ~CompleteUpdate(r)
  BY <1>3 DEF RunStep, StartRun, ReadWatermark, Extract, LandRaw, WriteSilver,
     CheckQuality, Reconcile, FailRun, PassGate, CompleteRead, WriteAudit,
     RaiseUncaught, Crash
<1>4. QED
  BY <1>1, <1>2, <1>3

\* Whatever the runs do, their readers see a watermark ledger.
THEOREM LedgerImplemented == Spec => ImplementsLedger
<1>1. Init => Ledger!Init
  BY DEF Init, Ledger!Init, NullWatermark
<1>2. Inv /\ [Next]_vars => [Ledger!Next]_(Ledger!vars)
  <2>1. CASE UNCHANGED vars
    BY <2>1 DEF vars, sourceVars, controlVars, lakeVars, Ledger!vars
  <2>2. QED
    BY <2>1, SourceImplementsModify, RunImplementsLedger DEF Next, Ledger!Next
<1>3. QED
  BY <1>1, <1>2, Invariance, PTL DEF Spec, ImplementsLedger, Ledger!Spec
=============================================================================
