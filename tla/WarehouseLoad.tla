---------------------------- MODULE WarehouseLoad ----------------------------
(***************************************************************************)
(* Loading the facts: the staging scripts (sql/staging), the MERGE of      *)
(* sql/facts/merge_fact_sales.sql, and the customer dimension it looks     *)
(* surrogate keys up in, which CustomerDimension changes meanwhile.        *)
(*                                                                         *)
(* Nothing in the repository orders the scripts: redshift_load is an empty *)
(* task in every DAG. So each may run at any time, and again, beside the   *)
(* SCD2 transaction. The keys that ddl_fact_sales.sql declares are not     *)
(* enforced by Redshift: that they hold is up to these scripts.            *)
(***************************************************************************)
EXTENDS CustomerDimension

CONSTANTS
  Orders,       \* order_id values
  OrderItems    \* order_item_id values, unique within an order only

VARIABLES
  stg_orders,       \* staging.stg_orders
  stg_order_items,  \* staging.stg_order_items
  fact_sales,       \* curated.fact_sales
  merged            \* history: what is staged has been merged before

loadVars == <<stg_orders, stg_order_items, fact_sales, merged>>
warehouseVars == <<vars, loadVars>>

NoSk == 0           \* NULL of customer_sk: IDENTITY(1,1) starts at 1

StagedOrder == [order_id: Orders, customer_id: Customers]
StagedItem == [order_id: Orders, order_item_id: OrderItems]
Fact == [order_id: Orders, order_item_id: OrderItems, customer_sk: Nat]

WarehouseInit ==
  /\ Init
  /\ stg_orders = {} /\ stg_order_items = {} /\ fact_sales = {}
  /\ merged = FALSE

\* What the prefixes hold: one row of an order, as the UNIQUE rule of
\* orders_standard leaves it (StagingPassedGates), and one of an item.
OrderBatch ==
  {rows \in SUBSET StagedOrder :
     \A r, s \in rows : r.order_id = s.order_id => r = s}

\* TRUNCATE commits at once: a COPY that fails leaves the table empty.
LoadOrders ==
  /\ stg_orders' \in OrderBatch \union {{}}
  /\ merged' = FALSE
  /\ UNCHANGED <<vars, stg_order_items, fact_sales>>

LoadOrderItems ==
  /\ stg_order_items' \in SUBSET StagedItem
  /\ merged' = FALSE
  /\ UNCHANGED <<vars, stg_orders, fact_sales>>

\* The LEFT JOIN with dim_customer: the committed current versions.
CurrentSks(c) ==
  {v.customer_sk : v \in {w \in dim : w.customer_id = c /\ w.is_current}}
CustomerSk(c) == IF CurrentSks(c) = {} THEN {NoSk} ELSE CurrentSks(c)

\* The USING clause: staged items whose order is staged as well. An item that
\* comes without its order is left out. The LEFT JOIN of dim_store adds no
\* row as long as a store has one row there, which no constraint asks for.
FactsOf(item, order) ==
  {[order_id |-> item.order_id, order_item_id |-> item.order_item_id,
    customer_sk |-> sk] : sk \in CustomerSk(order.customer_id)}
Source ==
  UNION {FactsOf(p[1], p[2]) :
           p \in {q \in stg_order_items \X stg_orders :
                    q[1].order_id = q[2].order_id}}

\* The ON clause.
Matches(target, source) ==
  /\ target.order_id = source.order_id
  /\ target.order_item_id = source.order_item_id

\* WHEN MATCHED UPDATE, WHEN NOT MATCHED INSERT: every row of the source ends
\* up in the target, in the place of the row it matches.
Merged(target) == {t \in target : \A s \in Source : ~Matches(t, s)} \union Source

\* MERGE raises an error when several rows of the source match one of the
\* target, and the transaction is rolled back.
MergeFactSales ==
  /\ \A t \in fact_sales, r, s \in Source :
       Matches(t, r) /\ Matches(t, s) => r = s
  /\ fact_sales' = Merged(fact_sales)
  /\ merged' = TRUE
  /\ UNCHANGED <<vars, stg_orders, stg_order_items>>

WarehouseNext ==
  \/ Next /\ UNCHANGED loadVars
  \/ LoadOrders \/ LoadOrderItems \/ MergeFactSales

WarehouseSpec == WarehouseInit /\ [][WarehouseNext]_warehouseVars
-----------------------------------------------------------------------------
(***************************************************************************)
(* Properties.                                                             *)
(***************************************************************************)
\* Every variable has its type.
WarehouseTypeOK ==
  /\ TypeOK
  /\ stg_orders \in SUBSET StagedOrder
  /\ stg_order_items \in SUBSET StagedItem
  /\ fact_sales \in SUBSET Fact /\ merged \in BOOLEAN

\* PRIMARY KEY (order_id, order_item_id), which holds only as long as the
\* dimension never shows two current versions of a customer to the join.
FactKeyIsUnique ==
  \A f, g \in fact_sales : Matches(f, g) => f = g

\* customer_sk REFERENCES dim_customer: a fact's customer is a version that
\* is still there, whatever SCD2 transactions began, failed or were retried
\* around the MERGE.
FactCustomerExists ==
  \A f \in fact_sales :
    f.customer_sk = NoSk \/ \E v \in dim : v.customer_sk = f.customer_sk

(***************************************************************************)
(* A statement of the documentation that the code does not keep.           *)
(***************************************************************************)
\* "A rerun of the same run_id's staging batch is a no-op overwrite"
\* (sql/facts/merge_fact_sales.sql).
MergeRerunIsNoOp == merged => Merged(fact_sales) = fact_sales
=============================================================================
