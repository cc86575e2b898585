--------------------------- MODULE WatermarkLedger ---------------------------
(***************************************************************************)
(* What the control table promises its readers, without runs, stages or    *)
(* crashes: last_successful_watermark is the one field an extract reads to *)
(* plan its next run (src/common/audit.py, ControlTableStore).             *)
(*                                                                         *)
(* Rows are modified at increasing times. Rows are delivered in batches.   *)
(* The watermark moves forward only, and only over rows that have been     *)
(* delivered, so that an extract of the rows after it misses nothing.      *)
(***************************************************************************)
EXTENDS Naturals

VARIABLES
  source,     \* the set of rows of the source, records with a field modified_date
  clock,      \* the time of the last modification
  watermark,  \* every row up to here has been delivered
  delivered   \* the set of rows delivered so far

vars == <<source, clock, watermark, delivered>>

Init == source = {} /\ clock = 0 /\ watermark = 0 /\ delivered = {}

\* The source gains one row, newer than all before it; others may go.
Modify ==
  /\ clock' = clock + 1
  /\ \E row \in source' :
       /\ row.modified_date = clock'
       /\ source' \subseteq source \union {row}
  /\ UNCHANGED <<watermark, delivered>>

Deliver ==
  /\ delivered \subseteq delivered'
  /\ UNCHANGED <<source, clock, watermark>>

Covered(w) == \A row \in source : row.modified_date <= w => row \in delivered

AdvanceWatermark ==
  /\ \E w \in 0..clock : w > watermark /\ Covered(w) /\ watermark' = w
  /\ UNCHANGED <<source, clock, delivered>>

Next == Modify \/ Deliver \/ AdvanceWatermark

Spec == Init /\ [][Next]_vars
=============================================================================
