---------------------------- MODULE MarketCancel ----------------------------
(***************************************************************************)
(* cancelOrder of backend/services/marketOrderStateMachine.service.js.  It *)
(* takes no lock: the order it saves at the end is the one it loaded at    *)
(* the start, and the stock and the ledger are written in between.         *)
(***************************************************************************)
EXTENDS MarketStores

(* Mutant: validateTransition is not asked, a cancelled order is cancelled  *)
(* again.                                                                   *)
LoadOrderUnchecked(x) ==
  /\ \E o \in Checkouts, who \in Customers :
       LET order == db.orders[o]
           mine  == /\ order # NoOrder
                    /\ TenantOf[order.customer] = TenantOf[who]
                    /\ order.customer = who
       IN \/ /\ ~mine
             /\ Step(x, "start", "done")
             /\ Reply(x, "not_found")
             /\ UNCHANGED loaded
          \/ /\ mine
             /\ Step(x, "start", "restockReadProducts")
             /\ loaded' = [loaded EXCEPT ![x] = [id |-> o, order |-> order]]
             /\ UNCHANGED answer
  /\ UNCHANGED <<db, lockVars, view, ctx, faults, crashes>>

(* Load, ownership and transition checks.  An unknown order and another     *)
(* customer's order get the same answer.                                    *)
LoadOrder(x) ==
  /\ \E o \in Checkouts, who \in Customers :
       LET order == db.orders[o]
           mine  == /\ order # NoOrder
                    /\ TenantOf[order.customer] = TenantOf[who]
                    /\ order.customer = who
       IN \/ /\ ~mine
             /\ Step(x, "start", "done")
             /\ Reply(x, "not_found")
             /\ UNCHANGED loaded
          \/ /\ mine /\ order.status # "received"
             /\ Step(x, "start", "done")
             /\ Reply(x, "invalid_state")
             /\ UNCHANGED loaded
          \/ /\ mine /\ order.status = "received"
             /\ Step(x, "start", "restockReadProducts")
             /\ loaded' = [loaded EXCEPT ![x] = [id |-> o, order |-> order]]
             /\ UNCHANGED answer
  /\ UNCHANGED <<db, lockVars, view, ctx, faults, crashes>>

-----------------------------------------------------------------------------
(* _restoreInventory: both documents are read before either is written.     *)
RestockReadProducts(x) ==
  /\ Step(x, "restockReadProducts", "restockReadTransactions")
  /\ view' = [view EXCEPT ![x].products = db.products]
  /\ UNCHANGED <<db, lockVars, ctx, loaded, answer, faults, crashes>>

RestockReadTransactions(x) ==
  /\ Step(x, "restockReadTransactions", "restockProducts")
  /\ view' = [view EXCEPT ![x].transactions = db.transactions]
  /\ UNCHANGED <<db, lockVars, ctx, loaded, answer, faults, crashes>>

Restocked(products, cart) == Shift(products, LAMBDA p : Demand(cart, p), cart)

RestockProducts(x) ==
  /\ \/ /\ Step(x, "restockProducts", "restockTransactions")
        /\ db' = [db EXCEPT !.products =
                    Restocked(view[x].products, loaded[x].order.cart)]
        /\ UNCHANGED <<view, answer, faults>>
     \/ /\ Step(x, "restockProducts", "done")
        /\ WriteFails
        /\ Reply(x, "products_write_failed")
        /\ Forget(x)
  /\ UNCHANGED <<lockVars, ctx, loaded, crashes>>

(* When the ledger write fails the stock stays increased.                   *)
RestockTransactions(x) ==
  /\ \/ /\ Step(x, "restockTransactions", "saveReadOrders")
        /\ db' = [db EXCEPT !.transactions =
                    view[x].transactions \cup EntriesOf(x, loaded[x].order.cart, "in")]
        /\ UNCHANGED <<view, answer, faults>>
     \/ /\ Step(x, "restockTransactions", "done")
        /\ WriteFails
        /\ Reply(x, "transactions_write_failed")
        /\ Forget(x)
  /\ UNCHANGED <<lockVars, ctx, loaded, crashes>>

-----------------------------------------------------------------------------
(* _saveOrder: read the orders again, replace the record by id, write.      *)
SaveReadOrders(x) ==
  /\ view' = [view EXCEPT ![x].orders = db.orders]
  /\ \/ /\ db.orders[loaded[x].id] # NoOrder
        /\ Step(x, "saveReadOrders", "saveOrder")
     \/ /\ db.orders[loaded[x].id] = NoOrder
        /\ Step(x, "saveReadOrders", "retakeReadProducts")
  /\ UNCHANGED <<db, lockVars, ctx, loaded, answer, faults, crashes>>

SaveOrder(x) ==
  /\ \/ /\ Step(x, "saveOrder", "done")
        /\ db' = [db EXCEPT !.orders =
                    [view[x].orders EXCEPT ![loaded[x].id] =
                       [loaded[x].order EXCEPT !.status = "cancelled"]]]
        /\ Reply(x, "cancelled")
        /\ Forget(x)
        /\ UNCHANGED faults
     \/ /\ Step(x, "saveOrder", "retakeReadProducts")
        /\ WriteFails
        /\ UNCHANGED <<view, answer>>
  /\ UNCHANGED <<lockVars, ctx, loaded, crashes>>

-----------------------------------------------------------------------------
(* Compensation of the restock when the order could not be saved.           *)
(* stockDelta is keyed by product, so a product named on two lines is       *)
(* re-decremented by its last line only.                                    *)
RetakeReadProducts(x) ==
  /\ Step(x, "retakeReadProducts", "retakeProducts")
  /\ view' = [view EXCEPT ![x].products = db.products]
  /\ UNCHANGED <<db, lockVars, ctx, loaded, answer, faults, crashes>>

Retaken(products, cart) == Shift(products, LAMBDA p : -LastQty(cart, p), cart)

RetakeProducts(x) ==
  /\ Step(x, "retakeProducts", "retakeReadTransactions")
  /\ BestEffort(db' = [db EXCEPT !.products =
                         Retaken(view[x].products, loaded[x].order.cart)])
  /\ UNCHANGED <<lockVars, view, ctx, loaded, answer, crashes>>

RetakeReadTransactions(x) ==
  /\ Step(x, "retakeReadTransactions", "retakeTransactions")
  /\ view' = [view EXCEPT ![x].transactions = db.transactions]
  /\ UNCHANGED <<db, lockVars, ctx, loaded, answer, faults, crashes>>

RetakeTransactions(x) ==
  /\ Step(x, "retakeTransactions", "done")
  /\ BestEffort(db' = [db EXCEPT !.transactions =
                         {t \in view[x].transactions : t.by # x}])
  /\ Reply(x, "persist_failed")
  /\ Forget(x)
  /\ UNCHANGED <<lockVars, ctx, loaded, crashes>>

-----------------------------------------------------------------------------
CancelStep(x) ==
  \/ RestockReadProducts(x) \/ RestockReadTransactions(x)
  \/ RestockProducts(x) \/ RestockTransactions(x)
  \/ SaveReadOrders(x) \/ SaveOrder(x)
  \/ RetakeReadProducts(x) \/ RetakeProducts(x)
  \/ RetakeReadTransactions(x) \/ RetakeTransactions(x)
=============================================================================
