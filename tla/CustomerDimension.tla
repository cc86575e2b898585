------------------------- MODULE CustomerDimension -------------------------
(***************************************************************************)
(* The SCD type 2 dimension dim_customer: the scd2_merge task of           *)
(* airflow/dags/customer_pipeline.py runs the transaction of               *)
(* sql/dimensions/scd2_merge_dim_customer.sql on a staged batch that has   *)
(* one row per customer.                                                   *)
(*                                                                         *)
(* The DAG has max_active_runs=1, so batches come one after another. The   *)
(* task is retried when it fails; its transaction may have been rolled     *)
(* back, or committed without the task being told. Days pass meanwhile.    *)
(*                                                                         *)
(* Besides, apply_scd2 of src/dimensional_model/scd_type2.py, the Python   *)
(* reference that the script says it mirrors exactly.                      *)
(***************************************************************************)
EXTENDS Integers, SequencesExt

CONSTANTS
  Customers,    \* customer_id values
  Attributes,   \* values of the tracked attributes; one stands for its hash
  NoHash,       \* a customer that the staged batch does not hold
  NoDate,       \* effective_end_date of a current version
  MaxDays,      \* bound: the last day
  MaxBatches,   \* bound: runs of the DAG
  Retries       \* retries of the task

ASSUME ConstantsAssumption ==
  /\ IsFiniteSet(Customers)
  /\ NoHash \notin Attributes
  /\ NoDate \notin Nat
  /\ MaxDays \in Nat /\ MaxBatches \in Nat /\ Retries \in Nat

VARIABLES
  today,
  dim,       \* the rows of curated.dim_customer, committed
  nextSk,    \* the IDENTITY column's next value
  staged,    \* staging.stg_customers_cdc: the record_hash of each customer
  pc,        \* the state of the task
  work,      \* dim_customer as the open transaction sees it
  asOf,      \* CURRENT_DATE, the day the transaction began
  attempt,   \* retries used
  \* history and bounds
  committed, \* whether this batch's transaction ever committed
  batches

taskVars == <<pc, work, asOf, attempt, committed>>
vars == <<today, dim, nextSk, staged, taskVars, batches>>

Version == [customer_sk: Nat \ {0}, customer_id: Customers,
            record_hash: Attributes, effective_start_date: Nat,
            effective_end_date: Int \union {NoDate}, is_current: BOOLEAN]

Staged == {c \in Customers : staged[c] # NoHash}

Init ==
  /\ today = 1 /\ dim = {} /\ nextSk = 1
  /\ staged = [c \in Customers |-> NoHash]
  /\ pc = "done" /\ work = {} /\ asOf = 0 /\ attempt = 0
  /\ committed = FALSE /\ batches = 0

NewDay ==
  /\ today < MaxDays
  /\ today' = today + 1
  /\ UNCHANGED <<dim, nextSk, staged, taskVars, batches>>

\* A run of the DAG stages the deduplicated changes. One that follows a
\* failed run stages what it finds, whatever became of the failed batch.
Stage ==
  /\ pc \in {"done", "failed"}
  /\ batches < MaxBatches
  /\ batches' = batches + 1
  /\ \E batch \in [Customers -> Attributes \union {NoHash}] :
       /\ \E c \in Customers : batch[c] # NoHash
       /\ staged' = batch
  /\ pc' = "begin" /\ attempt' = 0 /\ committed' = FALSE
  /\ UNCHANGED <<today, dim, nextSk, work, asOf>>

(***************************************************************************)
(* The transaction.                                                        *)
(***************************************************************************)
Begin ==
  /\ pc = "begin"
  /\ pc' = "update"
  /\ work' = dim
  /\ asOf' = today
  /\ UNCHANGED <<today, dim, nextSk, staged, attempt, committed, batches>>

\* An end date that is the start date of the next version.
ExpiredToday(v, day) ==
  [v EXCEPT !.is_current = FALSE, !.effective_end_date = day]

Expired(v, day) ==
  [v EXCEPT !.is_current = FALSE, !.effective_end_date = day - 1]

\* A WHERE without AND d.record_hash <> s.record_hash, and one without AND
\* d.is_current = TRUE.
ExpiresUnchanged(v) == v.is_current /\ v.customer_id \in Staged
ExpiresHistory(v) ==
  v.customer_id \in Staged /\ v.record_hash # staged[v.customer_id]

\* The WHERE of the UPDATE.
Expires(v) ==
  /\ v.customer_id \in Staged
  /\ v.is_current
  /\ v.record_hash # staged[v.customer_id]

\* An UPDATE outside of a transaction, which everybody sees at once.
ExpireChangedAtOnce ==
  /\ pc = "update"
  /\ pc' = "insert"
  /\ work' = {IF Expires(v) THEN Expired(v, asOf) ELSE v : v \in work}
  /\ dim' = work'
  /\ UNCHANGED <<today, nextSk, staged, asOf, attempt, committed, batches>>

\* 1. UPDATE: the current versions whose tracked attributes changed.
ExpireChanged ==
  /\ pc = "update"
  /\ pc' = "insert"
  /\ work' = {IF Expires(v) THEN Expired(v, asOf) ELSE v : v \in work}
  /\ UNCHANGED <<today, dim, nextSk, staged, asOf, attempt, committed, batches>>

\* An INSERT for customers the dimension has never seen, and one for every
\* staged customer.
OnlyNewCustomers(versions) ==
  {c \in Staged : \A v \in versions : v.customer_id # c}
AllStaged(versions) == Staged

\* The WHERE of the INSERT ... SELECT: the LEFT JOIN with the current
\* versions finds none, or one whose hash differs.
NeedVersion(versions) ==
  {c \in Staged :
     \/ \A v \in versions : v.customer_id = c => ~v.is_current
     \/ \E v \in versions :
          v.customer_id = c /\ v.is_current /\ v.record_hash # staged[c]}

\* Surrogate keys counted from 0.
VersionFromZero(c, sk) ==
  [customer_sk |-> sk - 1, customer_id |-> c, record_hash |-> staged[c],
   effective_start_date |-> asOf, effective_end_date |-> NoDate,
   is_current |-> TRUE]

NewVersion(c, sk) ==
  [customer_sk |-> sk, customer_id |-> c, record_hash |-> staged[c],
   effective_start_date |-> asOf, effective_end_date |-> NoDate,
   is_current |-> TRUE]

\* 2. INSERT: a current version for new customers and for those whose
\* version was just expired. The IDENTITY values are given out in any order,
\* and are not given back by a rollback.
InsertCurrent ==
  LET new == NeedVersion(work) IN
  /\ pc = "insert"
  /\ pc' = "commit"
  /\ LET order == CHOOSE s \in SetToSeqs(new) : TRUE IN
     work' = work \union
               {NewVersion(order[i], nextSk + i - 1) : i \in DOMAIN order}
  /\ nextSk' = nextSk + Cardinality(new)
  /\ UNCHANGED <<today, dim, staged, asOf, attempt, committed, batches>>

Close == work' = {} /\ asOf' = 0

\* COMMIT, and the task succeeds ...
Commit ==
  /\ pc = "commit"
  /\ dim' = work
  /\ committed' = TRUE
  /\ pc' = "done" /\ attempt' = 0 /\ Close
  /\ UNCHANGED <<today, nextSk, staged, batches>>

\* The task is retried until its retries are used up.
Retry ==
  IF attempt < Retries
    THEN pc' = "begin" /\ attempt' = attempt + 1
    ELSE pc' = "failed" /\ attempt' = 0

\* ... or its connection drops before it learns that the COMMIT was done.
CommitUnseen ==
  /\ pc = "commit"
  /\ dim' = work
  /\ committed' = TRUE
  /\ Retry /\ Close
  /\ UNCHANGED <<today, nextSk, staged, batches>>

\* The task fails before the COMMIT and the transaction is rolled back.
Rollback ==
  /\ pc \in {"begin", "update", "insert", "commit"}
  /\ Retry /\ Close
  /\ UNCHANGED <<today, dim, nextSk, staged, committed, batches>>

Next ==
  \/ NewDay \/ Stage
  \/ Begin \/ ExpireChanged \/ InsertCurrent \/ Commit \/ CommitUnseen
  \/ Rollback

Spec == Init /\ [][Next]_vars
-----------------------------------------------------------------------------
(***************************************************************************)
(* The Python reference.                                                   *)
(***************************************************************************)
\* Round i of the loop of apply_scd2. New rows are collected aside: a later
\* round looks customers up in the rows that were there before.
ApplyRow(state, c) ==
  LET current == {v \in state.rows : v.customer_id = c /\ v.is_current}
      new == Append(state.new, c)
  IN  IF current = {} THEN [state EXCEPT !.new = new]
      ELSE IF \E v \in current : v.record_hash = staged[c] THEN state
      ELSE [rows |-> {IF v \in current THEN Expired(v, asOf) ELSE v :
                        v \in state.rows},
            new  |-> new]

ApplyScd2(rows, incoming) ==
  LET after[n \in 0..Len(incoming)] ==
        IF n = 0 THEN [rows |-> rows, new |-> <<>>]
        ELSE ApplyRow(after[n - 1], incoming[n])
      end == after[Len(incoming)]
      top == IF rows = {} THEN 0
             ELSE CHOOSE n \in {v.customer_sk : v \in rows} :
                    \A v \in rows : v.customer_sk <= n
  IN  end.rows \union
        {NewVersion(end.new[i], top + i) : i \in DOMAIN end.new}

\* A version without its surrogate key, which the two number differently.
Business(rows) ==
  {<<v.customer_id, v.record_hash, v.effective_start_date,
     v.effective_end_date, v.is_current>> : v \in rows}
-----------------------------------------------------------------------------
(***************************************************************************)
(* Properties.                                                             *)
(***************************************************************************)
\* Every variable has its type.
TypeOK ==
  /\ today \in Nat /\ dim \in SUBSET Version /\ nextSk \in Nat \ {0}
  /\ staged \in [Customers -> Attributes \union {NoHash}]
  /\ pc \in {"begin", "update", "insert", "commit", "done", "failed"}
  /\ work \in SUBSET Version /\ asOf \in Nat /\ attempt \in 0..Retries
  /\ committed \in BOOLEAN /\ batches \in Nat

\* One current version per customer, the invariant that the DDL leaves to
\* this code (sql/dimensions/ddl_dim_customer.sql), and no surrogate key
\* twice.
OneCurrentVersion ==
  \A v, w \in dim :
    /\ v.customer_sk = w.customer_sk => v = w
    /\ v.customer_id = w.customer_id /\ v.is_current /\ w.is_current => v = w

\* On every day from a customer's first version until today exactly one
\* version is valid, its end date included. Batches may change a customer
\* several times a day, and retries may come on another day.
ValidOn(v, day) ==
  /\ v.effective_start_date <= day
  /\ v.effective_end_date = NoDate \/ day <= v.effective_end_date
OneVersionPerDay ==
  \A first \in dim, day \in 1..today :
    first.effective_start_date <= day =>
      \E v \in dim :
        /\ v.customer_id = first.customer_id /\ ValidOn(v, day)
        /\ \A w \in dim :
             w.customer_id = first.customer_id /\ ValidOn(w, day) => w = v

\* History is never rewritten: a version stays as it is, but for the expiry
\* of a current one.
HistoryIsKept ==
  [][\A v \in dim :
       \/ v \in dim'
       \/ v.is_current /\ \E w \in dim' :
            w = [v EXCEPT !.is_current = FALSE,
                          !.effective_end_date = w.effective_end_date]]_vars

\* A retry after the batch was committed changes nothing, on a later day
\* neither.
RetryIsIdempotent == [][committed /\ committed' => dim' = dim]_vars

\* When the task is done, every staged customer has its staged attributes.
BatchIsApplied ==
  pc = "done" => \A c \in Staged : \E v \in dim :
    v.customer_id = c /\ v.is_current /\ v.record_hash = staged[c]

\* The script does what apply_scd2 does with the rows in any order, as its
\* comment says, up to the surrogate keys.
MirrorsPython ==
  pc = "commit" => \A incoming \in SetToSeqs(Staged) :
    Business(work) = Business(ApplyScd2(dim, incoming))

\* Those who join on is_current never see a half applied batch, and never a
\* batch that was applied twice, whatever fails and is retried: the script
\* implements a table of profiles.
CurrentProfile ==
  [c \in Customers |->
     IF \E v \in dim : v.customer_id = c /\ v.is_current
       THEN (CHOOSE v \in dim : v.customer_id = c /\ v.is_current).record_hash
       ELSE NoHash]
Table == INSTANCE ProfileTable WITH
           current <- CurrentProfile, batch <- staged, applied <- committed
ImplementsProfileTable == Table!Spec

(***************************************************************************)
(* A statement of the documentation that the code does not keep.           *)
(***************************************************************************)
\* Joining on "effective_start_date <= order_date < effective_end_date"
\* finds the version of a customer on every day since its first
\* (docs/adr/ADR-006-scd-type2.md).
HalfOpenJoinFindsVersion ==
  \A first \in dim, day \in 1..today :
    first.effective_start_date <= day =>
      \E v \in dim :
        /\ v.customer_id = first.customer_id
        /\ v.effective_start_date <= day
        /\ v.effective_end_date = NoDate \/ day < v.effective_end_date
=============================================================================
