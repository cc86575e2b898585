----------------------------- MODULE DataQuality -----------------------------
(***************************************************************************)
(* The data-quality framework: src/data_quality/validators.py, rules.py    *)
(* and framework.py, with the profile orders_standard of                   *)
(* config/base/dq_rules.yaml.                                              *)
(*                                                                         *)
(* A frame is a set of rows of the orders table. The rules tell five kinds *)
(* of value apart: a valid one ("ok"), a missing one (Null), one outside   *)
(* its range or pattern ("out"), one that is no number or date at all      *)
(* ("garbage"), and an id that its reference table lacks ("unknown"). A    *)
(* row has at most one flaw; everything else in it is "ok". Columns that   *)
(* the frame lacks are given with it.                                      *)
(***************************************************************************)
EXTENDS Naturals, FiniteSets

CONSTANTS
  Keys,   \* order_id values
  Null    \* a missing value

ASSUME NullAssumption == Null \notin Keys \union {"ok", "out", "garbage", "unknown"}

Columns == {"order_id", "customer_id", "order_date", "amount", "status"}

Flaw == {<<"none", "ok">>} \union
        ((Columns \ {"order_id"}) \X {Null, "out", "garbage", "unknown"})

Row == [order_id: Keys \union {Null}, modified_date: Nat \ {0}, flaw: Flaw]

Value(row, column) ==
  CASE column = "order_id"    -> row.order_id
    [] column = row.flaw[1]   -> row.flaw[2]
    [] OTHER                  -> "ok"

Values(rows, column) == {Value(row, column) : row \in rows}

(***************************************************************************)
(* The handlers. The ones of a column fail when the frame lacks it.        *)
(***************************************************************************)
\* A NOT_NULL that passes when only some of the values are missing.
NotNullOnce(rows, column) == rows = {} \/ Values(rows, column) # {Null}

NotNull(rows, column) == Null \notin Values(rows, column)

\* duplicated(keep=False) takes two missing values for duplicates as well.
Unique(rows, column) ==
  \A a, b \in rows : Value(a, column) = Value(b, column) => a = b

\* A value that is no number is coerced to NaN, which is below no minimum and
\* above no maximum.
InRange(rows, column) == "out" \notin Values(rows, column)

\* astype(str) turns a missing value into "nan", which matches no pattern.
Matches(rows, column) == Values(rows, column) \subseteq {"ok"}

Casts(rows, column) == "garbage" \notin Values(rows, column)

\* The reference data that evaluate_rule is given: no caller has any.
ReferenceData == {}
Refers(rows, column) ==
  column \in ReferenceData => "unknown" \notin Values(rows, column)

RecordCount(rows) == rows # {}

\* The latest value is recent enough; a column that is missing, or without
\* rows, passes, which is what becomes of "__table__".
Freshness(columns, rows, column) ==
  column \in columns /\ rows # {} => "ok" \in Values(rows, column)

\* The hooks pass whatever the frame.
Hooks == {"BUSINESS_RULE", "SCHEMA_MATCH"}

ColumnRules == {"NOT_NULL", "UNIQUE", "DUPLICATE", "RANGE", "REGEX", "DATA_TYPE"}

EvaluateRule(columns, rows, rule) ==
  LET column == rule.column IN
  \/ rule.type \in Hooks
  \/ /\ rule.type \in ColumnRules              => column \in columns
     /\ rule.type = "NOT_NULL"                 => NotNull(rows, column)
     /\ rule.type \in {"UNIQUE", "DUPLICATE"}  => Unique(rows, column)
     /\ rule.type = "RANGE"                    => InRange(rows, column)
     /\ rule.type = "REGEX"                    => Matches(rows, column)
     /\ rule.type = "DATA_TYPE"                => Casts(rows, column)
     /\ rule.type = "REFERENTIAL_INTEGRITY"    => Refers(rows, column)
     /\ rule.type = "RECORD_COUNT"             => RecordCount(rows)
     /\ rule.type = "FRESHNESS"                => Freshness(columns, rows, column)

(***************************************************************************)
(* The framework.                                                          *)
(***************************************************************************)
Rule(column, type, severity) ==
  [column |-> column, type |-> type, severity |-> severity]

OrdersStandard ==
  {Rule(c, "NOT_NULL", "CRITICAL") :
     c \in {"order_id", "customer_id", "order_date", "amount"}}
  \union
  {Rule("order_id", "UNIQUE", "CRITICAL"),
   Rule("customer_id", "REFERENTIAL_INTEGRITY", "ERROR"),
   Rule("order_date", "DATA_TYPE", "ERROR"),
   Rule("amount", "RANGE", "ERROR"),
   Rule("status", "REGEX", "WARNING"),
   Rule("__table__", "RECORD_COUNT", "WARNING"),
   Rule("__table__", "FRESHNESS", "WARNING"),
   Rule("__table__", "SCHEMA_MATCH", "CRITICAL")}

\* critical_failures and error_failures of run_data_quality.
Failures(columns, rows, severity) ==
  {rule \in OrdersStandard :
     rule.severity = severity /\ ~EvaluateRule(columns, rows, rule)}

BlocksPromotion(columns, rows) == Failures(columns, rows, "CRITICAL") # {}
=============================================================================
