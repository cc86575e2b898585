------------------------------ MODULE Replica ------------------------------
(***************************************************************************)
(* What a merge target promises: it is a copy of its source as the source  *)
(* was at some moment, and that moment only moves forward.                 *)
(*                                                                         *)
(* past is the history of the source, one state per change; copy shows     *)
(* past[shown].                                                            *)
(***************************************************************************)
EXTENDS Naturals, Sequences

CONSTANT Blank   \* the state of a source before its first change

VARIABLES past, copy, shown

vars == <<past, copy, shown>>

Init == past = <<Blank>> /\ copy = Blank /\ shown = 1

\* The source changes.
Change ==
  /\ Len(past') = Len(past) + 1
  /\ SubSeq(past', 1, Len(past)) = past
  /\ UNCHANGED <<copy, shown>>

\* The copy is brought up to a later moment.
Refresh ==
  /\ \E n \in shown..Len(past) : shown' = n /\ copy' = past[n]
  /\ UNCHANGED past

Next == Change \/ Refresh

Spec == Init /\ [][Next]_vars
=============================================================================
