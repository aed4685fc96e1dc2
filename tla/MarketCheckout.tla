--------------------------- MODULE MarketCheckout ---------------------------
(***************************************************************************)
(* processCheckout of backend/services/marketCheckout.service.js: four     *)
(* document writes under stockLock (W1 products, W2 inventoryTransactions, *)
(* W3 sales, W4 marketOrders) and the compensating rollback that undoes    *)
(* the earlier ones when a later one fails.                                *)
(***************************************************************************)
EXTENDS MarketStores

(* Mutant: a cancelled order is not found by its key again.                 *)
FoundByKeyIfOpen(who, key) ==
  {o \in Checkouts : /\ db.orders[o].status = "received"
                     /\ TenantOf[db.orders[o].customer] = TenantOf[who]
                     /\ db.orders[o].key = key}

(* The orders of the customer's tenant that were placed with the key.       *)
FoundByKey(who, key) ==
  {o \in Checkouts : /\ db.orders[o] # NoOrder
                     /\ TenantOf[db.orders[o].customer] = TenantOf[who]
                     /\ db.orders[o].key = key}

(* Input validation, then the replay lookup of _findByIdempotency, which    *)
(* runs BEFORE the lock is asked for and is not repeated under it.          *)
Submit(c) ==
  /\ \E who \in Customers, cart \in Carts, key \in Keys \cup {NoKey}, payable \in BOOLEAN :
       /\ ctx' = [ctx EXCEPT ![c] = [@ EXCEPT !.customer = who, !.cart = cart,
                                              !.key = key, !.payable = payable]]
       /\ \/ /\ key \in Keys /\ FoundByKey(who, key) # {}
             /\ Step(c, "start", "done")
             /\ Reply(c, "replayed")
          \/ /\ key = NoKey \/ FoundByKey(who, key) = {}
             /\ Step(c, "start", "acquire")
             /\ UNCHANGED answer
  /\ UNCHANGED <<db, lockVars, view, loaded, faults, crashes>>

AcquireLock(c) ==
  /\ Step(c, "acquire", "readProducts")
  /\ StockLock!Acquire(c)
  /\ UNCHANGED <<db, view, ctx, loaded, answer, faults, crashes>>

-----------------------------------------------------------------------------
(* Under the lock.  The stock check is per line: a cart that names a        *)
(* product twice passes with each line alone within stock.                  *)
Sellable(products, cart) ==
  \A i \in DOMAIN cart :
    /\ cart[i].product \in DOMAIN products
    /\ products[cart[i].product] >= cart[i].qty

(* Mutant: a refusal that returns before the try block, so that finally is  *)
(* never reached and the lock is kept.                                      *)
ReadProductsKeepsLock(c) ==
  /\ c \in granted
  /\ view' = [view EXCEPT ![c].products = db.products]
  /\ \/ /\ Sellable(db.products, ctx[c].cart)
        /\ Step(c, "readProducts", "writeProducts")
        /\ ctx' = [ctx EXCEPT ![c].original = db.products]
        /\ UNCHANGED answer
     \/ /\ ~Sellable(db.products, ctx[c].cart)
        /\ Step(c, "readProducts", "done")
        /\ Reply(c, "unavailable")
        /\ UNCHANGED ctx
  /\ UNCHANGED <<db, lockVars, loaded, faults, crashes>>

ReadProducts(c) ==
  /\ c \in granted
  /\ view' = [view EXCEPT ![c].products = db.products]
  /\ \/ /\ Sellable(db.products, ctx[c].cart)
        /\ Step(c, "readProducts", "writeProducts")
        /\ ctx' = [ctx EXCEPT ![c].original = db.products]
        /\ UNCHANGED answer
     \/ /\ ~Sellable(db.products, ctx[c].cart)
        /\ Step(c, "readProducts", "release")
        /\ Reply(c, "unavailable")
        /\ UNCHANGED ctx
  /\ UNCHANGED <<db, lockVars, loaded, faults, crashes>>

Sold(products, cart) == Shift(products, LAMBDA p : -Demand(cart, p), cart)

WriteProducts(c) ==
  /\ \/ /\ Step(c, "writeProducts", "readTransactions")
        /\ db' = [db EXCEPT !.products = Sold(view[c].products, ctx[c].cart)]
        /\ UNCHANGED <<answer, faults>>
     \/ /\ Step(c, "writeProducts", "release")
        /\ WriteFails
        /\ Reply(c, "failed")
  /\ UNCHANGED <<lockVars, view, ctx, loaded, crashes>>

ReadTransactions(c) ==
  /\ Step(c, "readTransactions", "writeTransactions")
  /\ view' = [view EXCEPT ![c].transactions = db.transactions]
  /\ UNCHANGED <<db, lockVars, ctx, loaded, answer, faults, crashes>>

(* Mutant: the ledger write fails and stage 1 is not compensated.           *)
WriteTransactionsNotUndone(c) ==
  /\ \/ /\ db' = [db EXCEPT !.transactions =
                    view[c].transactions \cup EntriesOf(c, ctx[c].cart, "out")]
        /\ \/ ctx[c].payable /\ Step(c, "writeTransactions", "readInvoices")
           \/ ~ctx[c].payable /\ Step(c, "writeTransactions", "undoReadTransactions")
        /\ UNCHANGED <<answer, faults>>
     \/ /\ Step(c, "writeTransactions", "release")
        /\ WriteFails
        /\ Reply(c, "failed")
  /\ UNCHANGED <<lockVars, view, ctx, loaded, crashes>>

(* W2, and the payment and total checks that follow it in the same turn:    *)
(* an unusable payment method is only noticed with W1 and W2 written.       *)
WriteTransactions(c) ==
  /\ \/ /\ db' = [db EXCEPT !.transactions =
                    view[c].transactions \cup EntriesOf(c, ctx[c].cart, "out")]
        /\ \/ ctx[c].payable /\ Step(c, "writeTransactions", "readInvoices")
           \/ ~ctx[c].payable /\ Step(c, "writeTransactions", "undoReadTransactions")
        /\ UNCHANGED faults
     \/ /\ Step(c, "writeTransactions", "undoReadProducts")
        /\ WriteFails
  /\ UNCHANGED <<lockVars, view, ctx, loaded, answer, crashes>>

(* Mutant: the duplicate-id guard is gone.                                  *)
ReadInvoicesUnguarded(c) ==
  /\ view' = [view EXCEPT ![c].invoices = db.invoices]
  /\ \E id \in InvoiceIds :
       /\ Step(c, "readInvoices", "writeInvoice")
       /\ ctx' = [ctx EXCEPT ![c].invoice = id]
  /\ UNCHANGED <<db, lockVars, answer, loaded, faults, crashes>>

(* salesService.create: an invoice id that is already in the sales document *)
(* is a business error and ends the checkout without compensation.          *)
ReadInvoices(c) ==
  /\ view' = [view EXCEPT ![c].invoices = db.invoices]
  /\ \E id \in InvoiceIds :
       \/ /\ \A i \in db.invoices : i.id # id
          /\ Step(c, "readInvoices", "writeInvoice")
          /\ ctx' = [ctx EXCEPT ![c].invoice = id]
          /\ UNCHANGED answer
       \/ /\ \E i \in db.invoices : i.id = id
          /\ Step(c, "readInvoices", "release")
          /\ Reply(c, "duplicate")
          /\ UNCHANGED ctx
  /\ UNCHANGED <<db, lockVars, loaded, faults, crashes>>

(* Mutant: the result of the sales write is not looked at.                  *)
WriteInvoiceUnchecked(c) ==
  /\ Step(c, "writeInvoice", "readOrders")
  /\ BestEffort(db' = [db EXCEPT !.invoices =
                         view[c].invoices \cup {[id |-> ctx[c].invoice, by |-> c]}])
  /\ UNCHANGED <<lockVars, view, ctx, loaded, answer, crashes>>

WriteInvoice(c) ==
  /\ \/ /\ Step(c, "writeInvoice", "readOrders")
        /\ db' = [db EXCEPT !.invoices =
                    view[c].invoices \cup {[id |-> ctx[c].invoice, by |-> c]}]
        /\ UNCHANGED faults
     \/ /\ Step(c, "writeInvoice", "undoReadTransactions")
        /\ WriteFails
  /\ UNCHANGED <<lockVars, view, ctx, loaded, answer, crashes>>

ReadOrders(c) ==
  /\ Step(c, "readOrders", "writeOrder")
  /\ view' = [view EXCEPT ![c].orders = db.orders]
  /\ UNCHANGED <<db, lockVars, ctx, loaded, answer, faults, crashes>>

(* Mutant: a status the state machine does not know.                        *)
NewOrderPending(c) ==
  [status |-> "pending", customer |-> ctx[c].customer, cart |-> ctx[c].cart,
   key |-> ctx[c].key, invoice |-> ctx[c].invoice]

NewOrder(c) ==
  [status |-> "received", customer |-> ctx[c].customer, cart |-> ctx[c].cart,
   key |-> ctx[c].key, invoice |-> ctx[c].invoice]

(* Mutant: the result of the orders write is not looked at.                 *)
WriteOrderUnchecked(c) ==
  /\ Step(c, "writeOrder", "release")
  /\ BestEffort(db' = [db EXCEPT !.orders = [view[c].orders EXCEPT ![c] = NewOrder(c)]])
  /\ Reply(c, "placed")
  /\ UNCHANGED <<lockVars, view, ctx, loaded, crashes>>

WriteOrder(c) ==
  /\ \/ /\ Step(c, "writeOrder", "release")
        /\ db' = [db EXCEPT !.orders = [view[c].orders EXCEPT ![c] = NewOrder(c)]]
        /\ Reply(c, "placed")
        /\ UNCHANGED faults
     \/ /\ Step(c, "writeOrder", "undoReadInvoices")
        /\ WriteFails
        /\ UNCHANGED answer
  /\ UNCHANGED <<lockVars, view, ctx, loaded, crashes>>

-----------------------------------------------------------------------------
(* _compensate({stage}): stage 3 starts at the sale, stage 2 at the ledger, *)
(* stage 1 at the stock.  The results of its writes are not looked at.      *)
UndoReadInvoices(c) ==
  /\ Step(c, "undoReadInvoices", "undoInvoice")
  /\ view' = [view EXCEPT ![c].invoices = db.invoices]
  /\ UNCHANGED <<db, lockVars, ctx, loaded, answer, faults, crashes>>

UndoInvoice(c) ==
  /\ Step(c, "undoInvoice", "undoReadTransactions")
  /\ BestEffort(db' = [db EXCEPT !.invoices =
                         {i \in view[c].invoices : i.id # ctx[c].invoice}])
  /\ UNCHANGED <<lockVars, view, ctx, loaded, answer, crashes>>

UndoReadTransactions(c) ==
  /\ Step(c, "undoReadTransactions", "undoTransactions")
  /\ view' = [view EXCEPT ![c].transactions = db.transactions]
  /\ UNCHANGED <<db, lockVars, ctx, loaded, answer, faults, crashes>>

(* Mutant: the ledger rollback picks entries by product, not by id.         *)
UndoTransactionsByProduct(c) ==
  /\ Step(c, "undoTransactions", "undoReadProducts")
  /\ BestEffort(db' = [db EXCEPT !.transactions =
                         {t \in view[c].transactions : ~InCart(ctx[c].cart, t.product)}])
  /\ UNCHANGED <<lockVars, view, ctx, loaded, answer, crashes>>

UndoTransactions(c) ==
  /\ Step(c, "undoTransactions", "undoReadProducts")
  /\ BestEffort(db' = [db EXCEPT !.transactions =
                         {t \in view[c].transactions : t.by # c}])
  /\ UNCHANGED <<lockVars, view, ctx, loaded, answer, crashes>>

UndoReadProducts(c) ==
  /\ Step(c, "undoReadProducts", "undoProducts")
  /\ view' = [view EXCEPT ![c].products = db.products]
  /\ UNCHANGED <<db, lockVars, ctx, loaded, answer, faults, crashes>>

(* The stock of the cart's products goes back to the absolute value read    *)
(* before W1, not up by the quantity taken.                                 *)
Unsold(products, original, cart) ==
  [p \in DOMAIN products |-> IF InCart(cart, p) THEN original[p] ELSE products[p]]

UndoProducts(c) ==
  /\ Step(c, "undoProducts", "release")
  /\ BestEffort(db' = [db EXCEPT !.products =
                         Unsold(view[c].products, ctx[c].original, ctx[c].cart)])
  /\ Reply(c, "compensated")
  /\ UNCHANGED <<lockVars, view, ctx, loaded, crashes>>

(* The finally block: every path that holds the lock ends here, and the     *)
(* function's variables go with it.                                         *)
ReleaseLock(c) ==
  /\ Step(c, "release", "done")
  /\ StockLock!Release(c)
  /\ Forget(c)
  /\ ctx' = [ctx EXCEPT ![c] = [@ EXCEPT !.original = InitialStock, !.key = NoKey,
                                         !.payable = TRUE]]
  /\ UNCHANGED <<db, loaded, answer, faults, crashes>>

-----------------------------------------------------------------------------
CheckoutStep(c) ==
  \/ AcquireLock(c)
  \/ ReadProducts(c) \/ WriteProducts(c)
  \/ ReadTransactions(c) \/ WriteTransactions(c)
  \/ ReadInvoices(c) \/ WriteInvoice(c)
  \/ ReadOrders(c) \/ WriteOrder(c)
  \/ UndoReadInvoices(c) \/ UndoInvoice(c)
  \/ UndoReadTransactions(c) \/ UndoTransactions(c)
  \/ UndoReadProducts(c) \/ UndoProducts(c)
  \/ ReleaseLock(c)
=============================================================================
