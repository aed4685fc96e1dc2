---------------------------- MODULE MarketOrders ----------------------------
(***************************************************************************)
(* Checkouts and cancellations running together in one backend process:    *)
(* the composition of MarketCheckout and MarketCancel over the shared      *)
(* documents and stockLock, with process restarts.                         *)
(***************************************************************************)
EXTENDS MarketCheckout, MarketCancel

CheckoutLabels ==
  {"start", "acquire", "readProducts", "writeProducts", "readTransactions",
   "writeTransactions", "readInvoices", "writeInvoice", "readOrders", "writeOrder",
   "undoReadInvoices", "undoInvoice", "undoReadTransactions", "undoTransactions",
   "undoReadProducts", "undoProducts", "release", "done", "lost"}

CancelLabels ==
  {"start", "restockReadProducts", "restockReadTransactions", "restockProducts",
   "restockTransactions", "saveReadOrders", "saveOrder", "retakeReadProducts",
   "retakeProducts", "retakeReadTransactions", "retakeTransactions", "done", "lost"}

Answers == {"none", "replayed", "unavailable", "failed", "duplicate", "compensated",
            "placed", "not_found", "invalid_state", "products_write_failed",
            "transactions_write_failed", "persist_failed", "cancelled"}

Context == [customer : Customers, cart : Carts, key : Keys \cup {NoKey},
            payable : BOOLEAN, original : [Catalog -> Int], invoice : InvoiceIds]

(* Before a request arrives its variables hold nothing meaningful.          *)
BlankContext ==
  [customer |-> CHOOSE w \in Customers : TRUE, cart |-> CHOOSE k \in Carts : TRUE,
   key |-> NoKey, payable |-> TRUE, original |-> InitialStock,
   invoice |-> CHOOSE i \in InvoiceIds : TRUE]

Init ==
  /\ db = FreshDatabase
  /\ StockLock!Init
  /\ pc = [r \in Requests |-> "start"]
  /\ view = [r \in Requests |-> FreshDatabase]
  /\ ctx = [c \in Checkouts |-> BlankContext]
  /\ loaded = [x \in Cancels |-> [id |-> CHOOSE o \in Checkouts : TRUE, order |-> NoOrder]]
  /\ answer = [r \in Requests |-> "none"]
  /\ faults = 0
  /\ crashes = 0

(* The process dies: every request in flight is dropped where it stands and *)
(* the lock is rebuilt; only the documents survive.                         *)
Crash ==
  /\ crashes < MaxCrashes
  /\ crashes' = crashes + 1
  /\ \E r \in Requests : InFlight(r)
  /\ pc' = [r \in Requests |-> IF InFlight(r) THEN "lost" ELSE pc[r]]
  /\ view' = [r \in Requests |-> FreshDatabase]
  /\ StockLock!Restart
  /\ UNCHANGED <<db, ctx, loaded, answer, faults>>

Next ==
  \/ \E c \in Checkouts : Submit(c) \/ CheckoutStep(c)
  \/ \E x \in Cancels : LoadOrder(x) \/ CancelStep(x)
  \/ Crash

(* The event loop keeps running every request that has arrived; clients     *)
(* owe nothing.                                                             *)
Fairness ==
  /\ \A c \in Checkouts : WF_vars(CheckoutStep(c))
  /\ \A x \in Cancels : WF_vars(CancelStep(x))

Spec == Init /\ [][Next]_vars /\ Fairness

(* With the synchronous JSON engine behind it, a cancellation that arrives  *)
(* in an event-loop turn of its own runs to its end before anything else.   *)
CancelsRunAlone ==
  \A x \in Cancels : InFlight(x) => \A r \in Requests \ {x} : ~InFlight(r)

(* The rollback is best effort: the store failure that triggers it is not   *)
(* followed by another one while it runs.  A cancellation whose ledger      *)
(* write fails has no rollback at all, so that write does not fail either.  *)
RollbackHolds ==
  (\E r \in Requests :
     /\ pc[r] \in {"undoInvoice", "undoTransactions", "undoProducts",
                   "restockTransactions", "retakeProducts", "retakeTransactions"}
     /\ pc'[r] # pc[r])
    => UNCHANGED faults

SerialSpec ==
  Init /\ [][Next /\ CancelsRunAlone' /\ RollbackHolds]_vars /\ Fairness

-----------------------------------------------------------------------------
TypeOK ==
  /\ db \in Database
  /\ StockLock!LockTypeOK
  /\ pc \in [Requests -> CheckoutLabels \cup CancelLabels]
  /\ view \in [Requests -> Database]
  /\ ctx \in [Checkouts -> Context]
  /\ loaded \in [Cancels -> [id : Checkouts, order : Order \cup {NoOrder}]]
  /\ answer \in [Requests -> Answers]
  /\ faults \in 0..MaxFaults
  /\ crashes \in 0..MaxCrashes

(* The labels between acquire() and release() of processCheckout.           *)
UnderLock == CheckoutLabels \ {"start", "acquire", "readProducts", "done", "lost"}

(* At most one checkout is inside its read-modify-write of the stores       *)
(* (asyncLock.js:1-5), whatever paths it takes out of it and however often  *)
(* the process restarts.                                                    *)
OneCheckoutAtATime ==
  \A a, b \in Checkouts : pc[a] \in UnderLock /\ pc[b] \in UnderLock => a = b

(* Every order on file, received or cancelled, has its own invoice in the   *)
(* sales document: the order of the writes W3, W4 and of their compensation *)
(* guarantees it through store failures, restarts and cancellations that    *)
(* rewrite the orders document from a stale copy.                           *)
OrderHasInvoice ==
  \A o \in Checkouts :
    db.orders[o] # NoOrder => [id |-> db.orders[o].invoice, by |-> o] \in db.invoices

(* Two orders never share an invoice.                                       *)
InvoicesDistinct ==
  \A i, j \in db.invoices : i.id = j.id => i = j

(* An order on file has taken its cart out of the ledger, and a cancelled   *)
(* one has given it back: the ledger is written before the order.           *)
LedgerBacksOrders ==
  \A o \in Checkouts :
    LET order == db.orders[o]
    IN /\ order # NoOrder => EntriesOf(o, order.cart, "out") \subseteq db.transactions
       /\ order.status = "cancelled" =>
            \E x \in Cancels : EntriesOf(x, order.cart, "in") \subseteq db.transactions

(* A checkout that was answered "Order placed" stays on file.               *)
PlacedIsDurable ==
  \A c \in Checkouts : answer[c] = "placed" => db.orders[c] # NoOrder

(* A checkout sent again with its key after the first answer "Order placed" *)
(* places no second order, though the lookup runs outside stockLock: also   *)
(* when the order is being cancelled, when writes fail and after a restart. *)
(* Two requests with one key that overlap do place two orders.              *)
SameKey(a, b) ==
  /\ a # NoOrder /\ b # NoOrder
  /\ a.key # NoKey /\ a.key = b.key
  /\ TenantOf[a.customer] = TenantOf[b.customer]

RetryPlacesNothing ==
  \A c, d \in Checkouts :
    [](answer[c] = "placed" /\ pc[d] = "start"
         => []~SameKey(db.orders[c], db.orders[d]))

(* A cancelled order is terminal.                                           *)
CancelledIsTerminal ==
  [][\A o \in Checkouts : db.orders[o].status = "cancelled"
                            => db'.orders[o].status = "cancelled"]_vars

(* A checkout the customer was refused leaves no trace: no ledger entry, no *)
(* invoice, no order.                                                       *)
Refusals == {"unavailable", "failed", "duplicate", "compensated"}
RefusedLeavesNoTrace ==
  \A c \in Checkouts :
    pc[c] = "done" /\ answer[c] \in Refusals =>
      /\ \A t \in db.transactions : t.by # c
      /\ \A i \in db.invoices : i.by # c
      /\ db.orders[c] = NoOrder

(* Every request that arrives is answered: no path keeps stockLock.         *)
EveryRequestAnswered ==
  \A r \in Requests : InFlight(r) ~> (answer[r] # "none" \/ pc[r] = "lost")

-----------------------------------------------------------------------------
(* The stock the customers have been promised: what the document says, plus *)
(* what checkouts took for orders that are not placed, minus what           *)
(* cancellations returned for orders that are not cancelled.  A checkout    *)
(* that ended on a duplicate invoice id keeps what it took for good.        *)
Taking ==
  {c \in Checkouts :
     \/ pc[c] \in {"readTransactions", "writeTransactions", "readInvoices",
                   "writeInvoice", "readOrders", "writeOrder", "undoReadInvoices",
                   "undoInvoice", "undoReadTransactions", "undoTransactions",
                   "undoReadProducts", "undoProducts"}
     \/ answer[c] = "duplicate"}

Returning ==
  {x \in Cancels : pc[x] \in {"restockTransactions", "saveReadOrders", "saveOrder",
                               "retakeReadProducts", "retakeProducts"}}

PromisedStock ==
  [p \in Catalog |->
     db.products[p] + SumFunction([c \in Taking |-> Demand(ctx[c].cart, p)])
                    - SumFunction([x \in Returning |-> Demand(loaded[x].order.cart, p)])]

PlacedOrders ==
  [o \in Checkouts |->
     IF db.orders[o] = NoOrder THEN NoOrder
     ELSE [status |-> db.orders[o].status, cart |-> db.orders[o].cart]]

Book == INSTANCE OrderBook WITH
          Orders <- Checkouts, stock <- PromisedStock, book <- PlacedOrders

(* Checkouts and cancellations implement the order book: each one takes     *)
(* effect at one instant, all or nothing, and every failed one is           *)
(* invisible.                                                               *)
ImplementsOrderBook == Book!Spec

(* Nothing is sold twice and no unit gets lost: at every moment a unit is   *)
(* on the shelf, in the hands of a request (as above), or in an order that  *)
(* has been received and not cancelled.                                     *)
Received == {o \in Checkouts : db.orders[o].status = "received"}

StockAccounted ==
  \A p \in Catalog :
    /\ db.products[p] >= 0
    /\ PromisedStock[p] + SumFunction([o \in Received |-> Demand(db.orders[o].cart, p)])
         = InitialStock[p]
=============================================================================
