------------------------ MODULE WarehouseLoad_proofs ------------------------
(***************************************************************************)
(* Proofs about WarehouseLoad: the keys that fact_sales declares and       *)
(* Redshift does not enforce, for every set of orders, items and customers *)
(* and every interleaving of the scripts with the SCD2 transaction.        *)
(***************************************************************************)
EXTENDS WarehouseLoad, CustomerDimension_proofs

\* The inductive invariant: that of the dimension, and one staged row of an
\* order, so that the join cannot multiply an item.
StagingInv ==
  \A r, s \in stg_orders : r.order_id = s.order_id => r = s

LoadTypeOK ==
  /\ stg_orders \in SUBSET StagedOrder
  /\ stg_order_items \in SUBSET StagedItem
  /\ fact_sales \in SUBSET Fact /\ merged \in BOOLEAN

WarehouseInv ==
  /\ Inv
  /\ LoadTypeOK
  /\ StagingInv
  /\ FactKeyIsUnique
  /\ FactCustomerExists

\* What the USING clause returns.
LEMMA SourceRows ==
  ASSUME WarehouseInv
  PROVE  /\ Source \in SUBSET Fact
         /\ \A r, s \in Source : Matches(r, s) => r = s
         /\ \A s \in Source :
              s.customer_sk = NoSk \/ \E v \in dim : v.customer_sk = s.customer_sk
<1>1. \A c : \A x, y \in CustomerSk(c) : x = y
  BY DEF WarehouseInv, Inv, RowsInv, CurrentInv, CustomerSk, CurrentSks
<1>2. \A c : \A x \in CustomerSk(c) :
        /\ x \in Nat
        /\ x = NoSk \/ \E v \in dim : v.customer_sk = x
  BY DEF WarehouseInv, Inv, TypeOK, Version, CustomerSk, CurrentSks, NoSk
<1>3. \A s \in Source : \E i \in stg_order_items, o \in stg_orders :
        /\ i.order_id = o.order_id
        /\ \E sk \in CustomerSk(o.customer_id) :
             s = [order_id |-> i.order_id, order_item_id |-> i.order_item_id,
                  customer_sk |-> sk]
  BY DEF Source, FactsOf
<1>4. \A i \in stg_order_items : i \in StagedItem
  BY DEF WarehouseInv, LoadTypeOK
<1>5. ASSUME NEW r \in Source, NEW s \in Source, Matches(r, s)
      PROVE  r = s
  <2>1. PICK i \in stg_order_items, o \in stg_orders :
        /\ i.order_id = o.order_id
        /\ \E sk \in CustomerSk(o.customer_id) :
             r = [order_id |-> i.order_id, order_item_id |-> i.order_item_id,
                  customer_sk |-> sk]
    BY <1>3
  <2>2. PICK j \in stg_order_items, p \in stg_orders :
        /\ j.order_id = p.order_id
        /\ \E sk \in CustomerSk(p.customer_id) :
             s = [order_id |-> j.order_id, order_item_id |-> j.order_item_id,
                  customer_sk |-> sk]
    BY <1>3
  <2>3. i.order_id = j.order_id /\ i.order_item_id = j.order_item_id
    BY <1>5, <2>1, <2>2 DEF Matches
  <2>4. o = p
    BY <2>1, <2>2, <2>3 DEF WarehouseInv, StagingInv
  <2> HIDE DEF CustomerSk
  <2> QED
    BY <1>1, <2>1, <2>2, <2>3, <2>4
<1>6. \A s \in Source : s \in Fact
  BY <1>2, <1>3, <1>4 DEF Fact, StagedItem
<1>7. \A s \in Source :
        s.customer_sk = NoSk \/ \E v \in dim : v.customer_sk = s.customer_sk
  BY <1>2, <1>3
<1> QED
  BY <1>5, <1>6, <1>7

LEMMA WarehouseInitInv == WarehouseInit => WarehouseInv
<1> SUFFICES ASSUME WarehouseInit PROVE WarehouseInv
  OBVIOUS
<1>1. Inv
  BY InitInv DEF WarehouseInit
<1>2. stg_orders = {} /\ stg_order_items = {} /\ fact_sales = {} /\ merged = FALSE
  BY DEF WarehouseInit
<1> QED
  BY <1>1, <1>2 DEF WarehouseInv, LoadTypeOK, StagingInv, FactKeyIsUnique,
                    FactCustomerExists

\* A surrogate key that is in the dimension stays there.
LEMMA KeysStay ==
  ASSUME Inv, [Next]_vars
  PROVE  \A v \in dim : \E w \in dim' : w.customer_sk = v.customer_sk
<1>1. Kept(dim, dim')
  BY StepKeeps DEF Inv, TransactionInv, Kept
<1> SUFFICES ASSUME NEW v \in dim, v \notin dim'
             PROVE  \E w \in dim' : w.customer_sk = v.customer_sk
  OBVIOUS
<1>2. PICK w \in dim' :
        w = [v EXCEPT !.is_current = FALSE, !.effective_end_date = w.effective_end_date]
  BY <1>1 DEF Kept
<1>3. v \in Version
  BY DEF Inv, TypeOK
<1>4. w.customer_sk = v.customer_sk
  <2> DEFINE e == w.effective_end_date
  <2>1. w = [v EXCEPT !.is_current = FALSE, !.effective_end_date = e]
    BY <1>2
  <2> HIDE DEF e
  <2> QED
    BY <1>3, <2>1 DEF Version
<1> QED
  BY <1>4

LEMMA DimensionStepInv ==
  WarehouseInv /\ [Next]_vars /\ UNCHANGED loadVars => WarehouseInv'
<1> SUFFICES ASSUME WarehouseInv, [Next]_vars, UNCHANGED loadVars
             PROVE  WarehouseInv'
  OBVIOUS
<1>1. Inv'
  BY StepInv DEF WarehouseInv
<1>2. LoadTypeOK' /\ StagingInv' /\ FactKeyIsUnique'
  BY DEF WarehouseInv, loadVars, LoadTypeOK, StagingInv, FactKeyIsUnique, Matches
<1>3. FactCustomerExists'
  BY KeysStay DEF WarehouseInv, loadVars, FactCustomerExists
<1> QED
  BY <1>1, <1>2, <1>3 DEF WarehouseInv

LEMMA LoadStagingInv ==
  WarehouseInv /\ (LoadOrders \/ LoadOrderItems) => WarehouseInv'
<1> SUFFICES ASSUME WarehouseInv, LoadOrders \/ LoadOrderItems
             PROVE  WarehouseInv'
  OBVIOUS
<1>1. UNCHANGED vars /\ UNCHANGED fact_sales /\ merged' = FALSE
  BY DEF LoadOrders, LoadOrderItems
<1>2. Inv' /\ dim' = dim
  BY <1>1, StutterInv DEF WarehouseInv, vars
<1>3. /\ stg_orders' \in SUBSET StagedOrder
      /\ \A r, s \in stg_orders' : r.order_id = s.order_id => r = s
  BY DEF WarehouseInv, LoadTypeOK, StagingInv, LoadOrders, LoadOrderItems, OrderBatch
<1>4. stg_order_items' \in SUBSET StagedItem
  BY DEF WarehouseInv, LoadTypeOK, LoadOrders, LoadOrderItems
<1>5. LoadTypeOK' /\ StagingInv'
  BY <1>1, <1>3, <1>4 DEF WarehouseInv, LoadTypeOK, StagingInv
<1>6. FactKeyIsUnique' /\ FactCustomerExists'
  BY <1>1, <1>2 DEF WarehouseInv, FactKeyIsUnique, FactCustomerExists, Matches
<1> QED
  BY <1>2, <1>5, <1>6 DEF WarehouseInv

LEMMA MergeInv == WarehouseInv /\ MergeFactSales => WarehouseInv'
<1> SUFFICES ASSUME WarehouseInv, MergeFactSales
             PROVE  WarehouseInv'
  OBVIOUS
<1>1. /\ UNCHANGED vars /\ UNCHANGED <<stg_orders, stg_order_items>>
      /\ merged' = TRUE
      /\ fact_sales' = {t \in fact_sales : \A s \in Source : ~Matches(t, s)} \union Source
  BY DEF MergeFactSales, Merged
<1>2. Inv' /\ dim' = dim
  BY <1>1, StutterInv DEF WarehouseInv, vars
<1>3. /\ Source \in SUBSET Fact
      /\ \A r, s \in Source : Matches(r, s) => r = s
      /\ \A s \in Source :
              s.customer_sk = NoSk \/ \E v \in dim : v.customer_sk = s.customer_sk
  BY SourceRows
<1> HIDE DEF Source
<1>4. LoadTypeOK' /\ StagingInv'
  BY <1>1, <1>3 DEF WarehouseInv, LoadTypeOK, StagingInv
<1>5. FactKeyIsUnique'
  BY <1>1, <1>3 DEF WarehouseInv, FactKeyIsUnique, Matches
<1>6. FactCustomerExists'
  BY <1>1, <1>2, <1>3 DEF WarehouseInv, FactCustomerExists
<1> QED
  BY <1>2, <1>4, <1>5, <1>6 DEF WarehouseInv

LEMMA WarehouseStepInv == WarehouseInv /\ [WarehouseNext]_warehouseVars => WarehouseInv'
<1>1. UNCHANGED warehouseVars => UNCHANGED vars /\ UNCHANGED loadVars
  BY DEF warehouseVars
<1> QED
  BY <1>1, DimensionStepInv, LoadStagingInv, MergeInv DEF WarehouseNext

LEMMA WarehouseInvariance == WarehouseSpec => []WarehouseInv
BY WarehouseInitInv, WarehouseStepInv, PTL DEF WarehouseSpec

-----------------------------------------------------------------------------
\* Every variable keeps its type, those of the dimension included.
THEOREM WarehouseTypeCorrect == WarehouseSpec => []WarehouseTypeOK
<1>1. WarehouseInv => WarehouseTypeOK
  BY DEF WarehouseInv, Inv, LoadTypeOK, WarehouseTypeOK
<1> QED
  BY <1>1, WarehouseInvariance, PTL

\* The primary key of fact_sales holds although nothing enforces it: the
\* MERGE never inserts an item twice, when it is rerun or when customers
\* change around it.
THEOREM FactKeyIsUniqueAlways == WarehouseSpec => []FactKeyIsUnique
<1>1. WarehouseInv => FactKeyIsUnique
  BY DEF WarehouseInv
<1> QED
  BY <1>1, WarehouseInvariance, PTL

\* The foreign key of fact_sales holds as well: no SCD2 transaction takes a
\* version away that a fact names.
THEOREM FactCustomerExistsAlways == WarehouseSpec => []FactCustomerExists
<1>1. WarehouseInv => FactCustomerExists
  BY DEF WarehouseInv
<1> QED
  BY <1>1, WarehouseInvariance, PTL

\* MERGE never stops because two rows of its source match one fact: its
\* condition holds in every state.
THEOREM MergeIsUnambiguous ==
  WarehouseSpec =>
    [](\A t \in fact_sales, r, s \in Source :
         Matches(t, r) /\ Matches(t, s) => r = s)
<1>1. WarehouseInv => \A t \in fact_sales, r, s \in Source :
                        Matches(t, r) /\ Matches(t, s) => r = s
  BY SourceRows DEF Matches
<1> QED
  BY <1>1, WarehouseInvariance, PTL

\* The loads do not disturb the dimension: seen in its own variables the
\* composed system behaves as the SCD2 task alone, so that every theorem of
\* CustomerDimension_proofs holds of it ...
THEOREM DimensionImplemented == WarehouseSpec => Spec
<1>1. WarehouseInit => Init
  BY DEF WarehouseInit
<1>2. [WarehouseNext]_warehouseVars => [Next]_vars
  <2>1. UNCHANGED warehouseVars => UNCHANGED vars
    BY DEF warehouseVars
  <2>2. LoadOrders \/ LoadOrderItems \/ MergeFactSales => UNCHANGED vars
    BY DEF LoadOrders, LoadOrderItems, MergeFactSales
  <2> QED
    BY <2>1, <2>2 DEF WarehouseNext
<1> QED
  BY <1>1, <1>2, PTL DEF WarehouseSpec, Spec

\* ... among them that a MERGE, which joins on is_current, sees each batch of
\* customers whole or not at all.
THEOREM MergeSeesWholeBatches == WarehouseSpec => ImplementsProfileTable
BY DimensionImplemented, ProfileTableImplemented, PTL
=============================================================================
