--------------------------- MODULE MCBatchPipeline ---------------------------
(* Instances of BatchPipeline for TLC. *)
EXTENDS BatchPipeline

\* A flaw that a rule of severity ERROR finds; a row without an order_id has
\* one that a CRITICAL rule finds.
MCFlaws == {<<"none", "ok">>, <<"amount", "out">>}

\* The whole table, and one without a column that a CRITICAL rule names.
MCColumnSets == {Columns, Columns \ {"customer_id"}}
=============================================================================
