------------------------- MODULE MarketSerial_proofs -------------------------
(***************************************************************************)
(* Cancellations that run alone, as they do over the synchronous JSON      *)
(* engine: for any number of checkouts, cancellations, store failures and  *)
(* restarts, the ledger stands behind every order on file and an order     *)
(* that was placed stays there.  Without CancelsRunAlone neither holds.    *)
(***************************************************************************)
EXTENDS MarketOrders_proofs

(* A copy that is about to be written back is the document it was read      *)
(* from, and the order a cancellation works for is the order on file.       *)
CopiesInv ==
  /\ \A c \in Checkouts :
       /\ pc[c] = "writeOrder" => view[c].orders = db.orders
       /\ pc[c] \in {"writeTransactions", "undoTransactions"} =>
            view[c].transactions = db.transactions
  /\ \A x \in Cancels :
       /\ pc[x] = "saveOrder" => view[x].orders = db.orders
       /\ pc[x] \in {"restockProducts", "restockTransactions", "retakeTransactions"} =>
            view[x].transactions = db.transactions
       /\ pc[x] \in AfterLoad => loaded[x].order = db.orders[loaded[x].id]

(* Labels of a checkout between its ledger entries and its order, and of a  *)
(* cancellation between its ledger entries and the saved order.             *)
Charged  == {"readInvoices", "writeInvoice", "readOrders", "writeOrder"}
Credited == {"saveReadOrders", "saveOrder"}

(* The ledger a request needs when it writes the order, and the ledger that *)
(* stands behind the orders on file: the entries of a cancelled order are   *)
(* those of a cancellation that is over and cannot take them back.          *)
LedgerInv ==
  /\ \A c \in Checkouts :
       pc[c] \in Charged => EntriesOf(c, ctx[c].cart, "out") \subseteq db.transactions
  /\ \A x \in Cancels :
       pc[x] \in Credited =>
         EntriesOf(x, loaded[x].order.cart, "in") \subseteq db.transactions
  /\ \A o \in Checkouts :
       db.orders[o] # NoOrder =>
         EntriesOf(o, db.orders[o].cart, "out") \subseteq db.transactions
  /\ \A o \in Checkouts :
       db.orders[o].status = "cancelled" =>
         \E x \in Cancels :
           /\ pc[x] = "done"
           /\ EntriesOf(x, db.orders[o].cart, "in") \subseteq db.transactions

SerialInv == IInv /\ CancelsRunAlone /\ CopiesInv /\ LedgerInv /\ PlacedIsDurable

-----------------------------------------------------------------------------
(* The ledger entries of a request carry its name.                          *)
LEMMA EntriesSigned ==
  ASSUME NEW r, NEW cart, NEW type, NEW t \in EntriesOf(r, cart, type)
  PROVE  t.by = r
BY DEF EntriesOf

(* A new order is an order.                                                 *)
LEMMA NewOrderPlaced ==
  ASSUME NEW c \in Checkouts
  PROVE  /\ NewOrder(c) # NoOrder
         /\ NewOrder(c).status # "cancelled"
         /\ NewOrder(c).cart = ctx[c].cart
BY DEF NewOrder, NoOrder

(* What the data documents, the copies and the answer of a checkout may do  *)
(* in one step of it, when its copies are those CopiesInv promises.         *)
LEMMA CheckoutEffect ==
  ASSUME SerialInv, NEW c \in Checkouts, Submit(c) \/ CheckoutStep(c)
  PROVE  /\ \A r \in Requests \ {c} : answer'[r] = answer[r]
         /\ InFlight(c) \/ db' = db
         /\ \/ db'.transactions = db.transactions
            \/ /\ pc[c] = "writeTransactions"
               /\ db'.transactions =
                    db.transactions \cup EntriesOf(c, ctx[c].cart, "out")
            \/ /\ pc[c] = "undoTransactions"
               /\ pc'[c] = "undoReadProducts"
               /\ db'.transactions = {t \in db.transactions : t.by # c}
         /\ \/ db'.orders = db.orders
            \/ /\ pc[c] = "writeOrder"
               /\ pc'[c] = "release"
               /\ db'.orders = [db.orders EXCEPT ![c] = NewOrder(c)]
         /\ answer'[c] = "placed" => answer[c] = "placed" \/ db'.orders[c] = NewOrder(c)
         /\ pc[c] = "start" \/ InFlight(c)
         /\ pc[c] = "release" => answer'[c] = answer[c]
         /\ \/ Submit(c)
            \/ pc'[c] = "done"
            \/ ctx'[c].key = ctx[c].key /\ ctx'[c].customer = ctx[c].customer
         /\ pc'[c] = "writeOrder" => view'[c].orders = db'.orders
         /\ pc'[c] \in {"writeTransactions", "undoTransactions"} =>
              view'[c].transactions = db'.transactions
         /\ pc'[c] \in Charged =>
              /\ ctx'[c].cart = ctx[c].cart
              /\ \/ pc[c] \in Charged /\ db'.transactions = db.transactions
                 \/ EntriesOf(c, ctx[c].cart, "out") \subseteq db'.transactions
<1>0. /\ c \in Requests
      /\ view[c] \in Database
      /\ ctx[c] \in Context
      /\ pc \in [Requests -> CheckoutLabels \cup CancelLabels]
      /\ view \in [Requests -> Database]
      /\ ctx \in [Checkouts -> Context]
      /\ answer \in [Requests -> Answers]
      /\ db \in Database
      /\ db.orders \in [Checkouts -> Order \cup {NoOrder}]
      /\ pc[c] = "writeOrder" => view[c].orders = db.orders
      /\ pc[c] \in {"writeTransactions", "undoTransactions"} =>
           view[c].transactions = db.transactions
  BY DEF SerialInv, IInv, TypeOK, Requests, CopiesInv, Database
<1> USE <1>0 DEF Step, Reply, Forget, WriteFails, BestEffort, InFlight, Charged
<1> USE DEF Database
<1>1. CASE Submit(c)
  BY <1>1 DEF Submit
<1>2. CASE AcquireLock(c)
  BY <1>2 DEF AcquireLock
<1>3. CASE ReadProducts(c)
  BY <1>3 DEF ReadProducts, Context
<1>4. CASE WriteProducts(c)
  BY <1>4 DEF WriteProducts
<1>5. CASE ReadTransactions(c)
  BY <1>5 DEF ReadTransactions
<1>6. CASE WriteTransactions(c)
  BY <1>6 DEF WriteTransactions
<1>7. CASE ReadInvoices(c)
  BY <1>7 DEF ReadInvoices, Context
<1>8. CASE WriteInvoice(c)
  BY <1>8 DEF WriteInvoice
<1>9. CASE ReadOrders(c)
  BY <1>9 DEF ReadOrders
<1>10. CASE WriteOrder(c)
  BY <1>10 DEF WriteOrder
<1>11. CASE UndoReadInvoices(c)
  BY <1>11 DEF UndoReadInvoices
<1>12. CASE UndoInvoice(c)
  BY <1>12 DEF UndoInvoice
<1>13. CASE UndoReadTransactions(c)
  BY <1>13 DEF UndoReadTransactions
<1>14. CASE UndoTransactions(c)
  BY <1>14 DEF UndoTransactions
<1>15. CASE UndoReadProducts(c)
  BY <1>15 DEF UndoReadProducts
<1>16. CASE UndoProducts(c)
  BY <1>16 DEF UndoProducts
<1>17. CASE ReleaseLock(c)
  BY <1>17 DEF ReleaseLock
<1> QED BY <1>1, <1>2, <1>3, <1>4, <1>5, <1>6, <1>7, <1>8, <1>9, <1>10, <1>11, <1>12,
           <1>13, <1>14, <1>15, <1>16, <1>17 DEF CheckoutStep

(* The same for a step of a cancellation.                                   *)
LEMMA CancelEffect ==
  ASSUME SerialInv, NEW x \in Cancels, LoadOrder(x) \/ CancelStep(x)
  PROVE  /\ \A r \in Requests \ {x} : answer'[r] = answer[r]
         /\ \/ InFlight(x) /\ loaded'[x] = loaded[x]
            \/ db' = db /\ pc[x] = "start" /\ pc'[x] = "done"
            \/ /\ db' = db /\ pc[x] = "start" /\ pc'[x] = "restockReadProducts"
               /\ loaded'[x].order = db.orders[loaded'[x].id]
         /\ \/ db'.transactions = db.transactions
            \/ /\ pc[x] = "restockTransactions"
               /\ db'.transactions =
                    db.transactions \cup EntriesOf(x, loaded[x].order.cart, "in")
            \/ /\ pc[x] = "retakeTransactions"
               /\ pc'[x] = "done"
               /\ db'.transactions = {t \in db.transactions : t.by # x}
         /\ \/ db'.orders = db.orders
            \/ /\ pc[x] = "saveOrder"
               /\ pc'[x] = "done"
               /\ db'.transactions = db.transactions
               /\ db'.orders = [db.orders EXCEPT ![loaded[x].id] =
                                  [loaded[x].order EXCEPT !.status = "cancelled"]]
         /\ pc'[x] = "saveOrder" => view'[x].orders = db'.orders
         /\ pc'[x] \in {"restockProducts", "restockTransactions", "retakeTransactions"} =>
              view'[x].transactions = db'.transactions
         /\ pc'[x] \in Credited =>
              \/ pc[x] \in Credited /\ db'.transactions = db.transactions
              \/ EntriesOf(x, loaded[x].order.cart, "in") \subseteq db'.transactions
         /\ db'.orders # db.orders => pc'[x] \notin AfterLoad
<1>0. /\ x \in Requests
      /\ view[x] \in Database
      /\ pc \in [Requests -> CheckoutLabels \cup CancelLabels]
      /\ view \in [Requests -> Database]
      /\ answer \in [Requests -> Answers]
      /\ loaded \in [Cancels -> [id : Checkouts, order : Order \cup {NoOrder}]]
      /\ db \in Database
      /\ pc[x] = "saveOrder" => view[x].orders = db.orders
      /\ pc[x] \in {"restockProducts", "restockTransactions", "retakeTransactions"} =>
           view[x].transactions = db.transactions
  BY DEF SerialInv, IInv, TypeOK, Requests, CopiesInv
<1> USE <1>0 DEF Step, Reply, Forget, WriteFails, BestEffort, InFlight, Credited
<1> USE DEF Database, AfterLoad, CancelLabels
<1>1. CASE LoadOrder(x)
  BY <1>1 DEF LoadOrder
<1>2. CASE RestockReadProducts(x)
  BY <1>2 DEF RestockReadProducts
<1>3. CASE RestockReadTransactions(x)
  BY <1>3 DEF RestockReadTransactions
<1>4. CASE RestockProducts(x)
  BY <1>4 DEF RestockProducts
<1>5. CASE RestockTransactions(x)
  BY <1>5 DEF RestockTransactions
<1>6. CASE SaveReadOrders(x)
  BY <1>6 DEF SaveReadOrders
<1>7. CASE SaveOrder(x)
  BY <1>7 DEF SaveOrder
<1>8. CASE RetakeReadProducts(x)
  BY <1>8 DEF RetakeReadProducts
<1>9. CASE RetakeProducts(x)
  BY <1>9 DEF RetakeProducts
<1>10. CASE RetakeReadTransactions(x)
  BY <1>10 DEF RetakeReadTransactions
<1>11. CASE RetakeTransactions(x)
  BY <1>11 DEF RetakeTransactions
<1> QED BY <1>1, <1>2, <1>3, <1>4, <1>5, <1>6, <1>7, <1>8, <1>9, <1>10, <1>11 DEF CancelStep

-----------------------------------------------------------------------------
(* While a checkout runs no cancellation does, and no other checkout is     *)
(* between its reads and its writes; its own step keeps what the orders on  *)
(* file need of the ledger.                                                 *)
LEMMA CheckoutKeepsSerial ==
  ASSUME SerialInv, NEW c \in Checkouts, Submit(c) \/ CheckoutStep(c)
  PROVE  CopiesInv' /\ LedgerInv' /\ PlacedIsDurable'
<1>0. /\ DataTypeOK
      /\ c \in Requests /\ Checkouts \subseteq Requests /\ Cancels \subseteq Requests
      /\ c \notin Cancels
      /\ db.orders \in [Checkouts -> Order \cup {NoOrder}]
      /\ db.orders[c] \in Order \cup {NoOrder}
      /\ \A x \in Cancels : loaded[x].id \in Checkouts
  BY MarketAssumption DEF SerialInv, IInv, TypeOK, DataTypeOK, Requests, Database
<1>1. /\ \A r \in Requests \ {c} : pc'[r] = pc[r] /\ view'[r] = view[r]
      /\ \A d \in Checkouts \ {c} : ctx'[d] = ctx[d]
      /\ loaded' = loaded
      /\ \A x \in Cancels : pc'[x] = pc[x] /\ view'[x] = view[x]
  BY <1>0, CheckoutFrame
<1>2. CASE db' = db /\ ~InFlight(c)
  <2>1. /\ pc'[c] = "writeOrder" => view'[c].orders = db.orders
        /\ pc'[c] \in {"writeTransactions", "undoTransactions"} =>
             view'[c].transactions = db.transactions
        /\ pc'[c] \in Charged => EntriesOf(c, ctx'[c].cart, "out") \subseteq db.transactions
    <3>1. pc[c] \notin Charged
      BY <1>2 DEF InFlight, Charged
    <3> QED BY <1>2, <3>1, CheckoutEffect
  <2>2. CopiesInv'
    BY <1>0, <1>1, <1>2, <2>1 DEF SerialInv, CopiesInv
  <2>3. LedgerInv'
    <3>1. \A d \in Checkouts : pc'[d] \in Charged =>
            EntriesOf(d, ctx'[d].cart, "out") \subseteq db.transactions
      BY <1>0, <1>1, <2>1 DEF SerialInv, LedgerInv
    <3> QED BY <1>1, <1>2, <3>1 DEF SerialInv, LedgerInv
  <2>4. PlacedIsDurable'
    BY <1>0, <1>2, CheckoutEffect, NewOrderPlaced DEF SerialInv, PlacedIsDurable
  <2> QED BY <2>2, <2>3, <2>4
<1>3. CASE InFlight(c)
  <2>1. \A x \in Cancels : ~InFlight(x)
    BY <1>0, <1>3 DEF SerialInv, CancelsRunAlone
  <2>2. \A x \in Cancels : pc[x] \in {"start", "done", "lost"}
    BY <2>1 DEF InFlight
  <2>3. \A d \in Checkouts \ {c} :
          pc[c] \in UnderLock \/ pc'[c] \in UnderLock => pc'[d] \notin UnderLock
    <3>1. HoldersInv /\ HoldersInv'
      BY <1>0, CheckoutHolds DEF SerialInv, IInv
    <3> QED BY <1>0, <1>1, <3>1 DEF HoldersInv, StockLock!LockInv, StockLock!MutualExclusion
  <2>4. /\ Charged \subseteq UnderLock
        /\ {"writeTransactions", "undoTransactions", "writeOrder", "release"} \subseteq UnderLock
        /\ {"undoTransactions", "writeOrder"} \subseteq Unplaced
    BY DEF Charged, UnderLock, CheckoutLabels, Unplaced
  <2>5. \A x \in Cancels : pc'[x] \notin AfterLoad \cup Credited
    BY <1>1, <2>2 DEF AfterLoad, CancelLabels, Credited
  <2>6. CASE db'.orders = db.orders /\ db'.transactions = db.transactions
    <3>1. CopiesInv'
      BY <1>0, <1>1, <2>2, <2>5, <2>6, CheckoutEffect DEF SerialInv, CopiesInv
    <3>2. pc'[c] \in Charged => EntriesOf(c, ctx'[c].cart, "out") \subseteq db'.transactions
      BY <2>6, CheckoutEffect DEF SerialInv, LedgerInv
    <3>3. LedgerInv'
      BY <1>0, <1>1, <2>5, <2>6, <3>2 DEF SerialInv, LedgerInv
    <3>4. PlacedIsDurable'
      BY <1>0, <2>6, CheckoutEffect, NewOrderPlaced DEF SerialInv, PlacedIsDurable
    <3> QED BY <3>1, <3>3, <3>4
  <2>7. CASE db'.transactions # db.transactions
    <3>1. /\ pc[c] \in {"writeTransactions", "undoTransactions"}
          /\ \/ db.transactions \subseteq db'.transactions
             \/ /\ pc[c] = "undoTransactions"
                /\ pc'[c] = "undoReadProducts"
                /\ db'.transactions = {t \in db.transactions : t.by # c}
          /\ db'.orders = db.orders
      <4>1. \/ /\ pc[c] = "writeTransactions"
               /\ db'.transactions =
                    db.transactions \cup EntriesOf(c, ctx[c].cart, "out")
            \/ /\ pc[c] = "undoTransactions"
               /\ pc'[c] = "undoReadProducts"
               /\ db'.transactions = {t \in db.transactions : t.by # c}
        BY <2>7, CheckoutEffect
      <4>2. db'.orders = db.orders \/ pc[c] = "writeOrder"
        BY CheckoutEffect
      <4> QED BY <4>1, <4>2
    <3>2. \A d \in Checkouts \ {c} : pc'[d] \notin UnderLock
      BY <2>3, <2>4, <3>1
    <3>3. CopiesInv'
      <4>1. /\ pc'[c] = "writeOrder" => view'[c].orders = db'.orders
            /\ pc'[c] \in {"writeTransactions", "undoTransactions"} =>
                 view'[c].transactions = db'.transactions
        BY CheckoutEffect
      <4>2. \A d \in Checkouts \ {c} :
              pc'[d] \notin {"writeTransactions", "undoTransactions", "writeOrder"}
        BY <2>4, <3>2
      <4>3. \A x \in Cancels : pc'[x] \in {"start", "done", "lost"}
        BY <1>1, <2>2
      <4>4. \A x \in Cancels : pc'[x] \notin AfterLoad
        BY <2>5
      <4> QED BY <4>1, <4>2, <4>3, <4>4 DEF CopiesInv
    <3>4. pc'[c] \in Charged => EntriesOf(c, ctx'[c].cart, "out") \subseteq db'.transactions
      BY <2>7, CheckoutEffect
    <3>5. ASSUME NEW r \in Requests \ {c}, NEW cart, NEW type,
                 EntriesOf(r, cart, type) \subseteq db.transactions
          PROVE  EntriesOf(r, cart, type) \subseteq db'.transactions
      <4>1. \A t \in EntriesOf(r, cart, type) : t.by # c
        BY EntriesSigned
      <4> QED BY <3>1, <3>5, <4>1
    <3>6. ASSUME NEW o \in Checkouts, db.orders[o] # NoOrder
          PROVE  EntriesOf(o, db.orders[o].cart, "out") \subseteq db'.transactions
      <4>1. EntriesOf(o, db.orders[o].cart, "out") \subseteq db.transactions
        BY <3>6 DEF SerialInv, LedgerInv
      <4>2. CASE o # c
        BY <1>0, <3>5, <4>1, <4>2
      <4>3. CASE o = c
        <5>1. pc[c] # "undoTransactions"
          BY <2>4, <3>6, <4>3 DEF SerialInv, IInv, OrdersInv, Agrees
        <5> QED BY <3>1, <4>1, <5>1
      <4> QED BY <4>2, <4>3
    <3>7. ASSUME NEW o \in Checkouts, db.orders[o].status = "cancelled"
          PROVE  \E x \in Cancels :
                   /\ pc'[x] = "done"
                   /\ EntriesOf(x, db.orders[o].cart, "in") \subseteq db'.transactions
      <4>1. PICK x \in Cancels :
                   /\ pc[x] = "done"
                   /\ EntriesOf(x, db.orders[o].cart, "in") \subseteq db.transactions
        BY <3>7 DEF SerialInv, LedgerInv
      <4> QED BY <1>0, <1>1, <3>5, <4>1
    <3>8. LedgerInv'
      BY <2>4, <2>5, <3>1, <3>2, <3>4, <3>6, <3>7 DEF LedgerInv
    <3>9. PlacedIsDurable'
      BY <1>0, <3>1, CheckoutEffect, NewOrderPlaced DEF SerialInv, PlacedIsDurable
    <3> QED BY <3>3, <3>8, <3>9
  <2>8. CASE db'.orders # db.orders
    <3>1. /\ pc[c] = "writeOrder" /\ pc'[c] = "release"
          /\ db'.orders = [db.orders EXCEPT ![c] = NewOrder(c)]
          /\ db'.transactions = db.transactions
      BY <2>8, CheckoutEffect
    <3>2. \A d \in Checkouts : pc'[d] \notin Charged \cup {"writeTransactions", "undoTransactions"}
      BY <2>3, <2>4, <3>1 DEF Charged
    <3>3. CopiesInv'
      BY <1>0, <1>1, <2>2, <2>5, <3>2 DEF CopiesInv, Charged
    <3>4. /\ db'.orders[c] = NewOrder(c)
          /\ \A o \in Checkouts \ {c} : db'.orders[o] = db.orders[o]
      BY <1>0, <3>1
    <3>5. EntriesOf(c, ctx[c].cart, "out") \subseteq db.transactions
      BY <3>1 DEF SerialInv, LedgerInv, Charged
    <3>6. ASSUME NEW o \in Checkouts, db'.orders[o] # NoOrder
          PROVE  EntriesOf(o, db'.orders[o].cart, "out") \subseteq db'.transactions
      BY <3>1, <3>4, <3>5, <3>6, NewOrderPlaced DEF SerialInv, LedgerInv
    <3>7. ASSUME NEW o \in Checkouts, db'.orders[o].status = "cancelled"
          PROVE  \E x \in Cancels :
                   /\ pc'[x] = "done"
                   /\ EntriesOf(x, db'.orders[o].cart, "in") \subseteq db'.transactions
      BY <1>1, <3>1, <3>4, <3>7, NewOrderPlaced DEF SerialInv, LedgerInv
    <3>8. LedgerInv'
      BY <2>5, <3>2, <3>6, <3>7 DEF LedgerInv
    <3>9. PlacedIsDurable'
      <4>1. \A d \in Checkouts : db.orders[d] # NoOrder => db'.orders[d] # NoOrder
        BY <3>4, NewOrderPlaced
      <4>2. db'.orders[c] # NoOrder
        BY <3>4, NewOrderPlaced
      <4>3. \A d \in Checkouts \ {c} : answer'[d] = answer[d]
        <5>1. \A r \in Requests \ {c} : answer'[r] = answer[r]
          BY CheckoutEffect
        <5> QED BY <1>0, <5>1
      <4>4. \A d \in Checkouts : answer[d] = "placed" => db.orders[d] # NoOrder
        BY DEF SerialInv, PlacedIsDurable
      <4> QED BY <4>1, <4>2, <4>3, <4>4 DEF PlacedIsDurable
    <3> QED BY <3>3, <3>8, <3>9
  <2> QED BY <2>6, <2>7, <2>8
<1> QED BY <1>2, <1>3, CheckoutEffect

(* While a cancellation runs nothing else does.                             *)
LEMMA CancelKeepsSerial ==
  ASSUME SerialInv, NEW x \in Cancels, LoadOrder(x) \/ CancelStep(x)
  PROVE  CopiesInv' /\ LedgerInv' /\ PlacedIsDurable'
<1>0. /\ DataTypeOK
      /\ x \in Requests /\ Checkouts \subseteq Requests /\ Cancels \subseteq Requests
      /\ x \notin Checkouts
      /\ db.orders \in [Checkouts -> Order \cup {NoOrder}]
      /\ \A y \in Cancels : loaded[y].id \in Checkouts
      /\ \A y \in Cancels : loaded[y].order \in Order \cup {NoOrder}
  BY MarketAssumption DEF SerialInv, IInv, TypeOK, DataTypeOK, Requests, Database
<1>1. /\ \A r \in Requests \ {x} : pc'[r] = pc[r] /\ view'[r] = view[r]
      /\ \A y \in Cancels \ {x} : loaded'[y] = loaded[y]
      /\ ctx' = ctx
      /\ \A c \in Checkouts : pc'[c] = pc[c] /\ view'[c] = view[c] /\ answer'[c] = answer[c]
  <2>1. \A r \in Requests \ {x} : answer'[r] = answer[r]
    BY CancelEffect
  <2>2. \A c \in Checkouts : c \in Requests \ {x}
    BY <1>0
  <2> QED BY <1>0, <2>1, <2>2, CancelFrame
<1>2. /\ pc'[x] = "saveOrder" => view'[x].orders = db'.orders
      /\ pc'[x] \in {"restockProducts", "restockTransactions", "retakeTransactions"} =>
           view'[x].transactions = db'.transactions
  BY CancelEffect
<1>3. CASE db' = db /\ pc[x] = "start"
  <2>1. /\ pc'[x] \in {"done", "restockReadProducts"}
        /\ pc'[x] \in AfterLoad => loaded'[x].order = db.orders[loaded'[x].id]
    BY <1>3, CancelEffect DEF InFlight, AfterLoad
  <2>2. CopiesInv'
    <3>1. \A y \in Cancels \ {x} :
            pc'[y] = pc[y] /\ view'[y] = view[y] /\ loaded'[y] = loaded[y]
      BY <1>0, <1>1
    <3> QED BY <1>1, <1>2, <1>3, <2>1, <3>1 DEF SerialInv, CopiesInv
  <2>3. LedgerInv'
    <3>1. \A o \in Checkouts : db.orders[o].status = "cancelled" =>
            \E y \in Cancels : /\ pc'[y] = "done"
                               /\ EntriesOf(y, db.orders[o].cart, "in") \subseteq db.transactions
      <4>1. \A y \in Cancels : pc[y] = "done" => pc'[y] = "done"
        BY <1>0, <1>1, <1>3
      <4> QED BY <4>1 DEF SerialInv, LedgerInv
    <3>2. \A y \in Cancels : pc'[y] \in Credited =>
            EntriesOf(y, loaded'[y].order.cart, "in") \subseteq db.transactions
      BY <1>0, <1>1, <2>1 DEF SerialInv, LedgerInv, Credited
    <3> QED BY <1>1, <1>3, <3>1, <3>2 DEF SerialInv, LedgerInv
  <2>4. PlacedIsDurable'
    BY <1>1, <1>3 DEF SerialInv, PlacedIsDurable
  <2> QED BY <2>2, <2>3, <2>4
<1>4. CASE InFlight(x)
  <2>0. loaded'[x] = loaded[x]
    BY <1>4, CancelEffect DEF InFlight
  <2>1. \A r \in Requests \ {x} : pc'[r] \in {"start", "done", "lost"}
    BY <1>0, <1>1, <1>4 DEF SerialInv, CancelsRunAlone, InFlight
  <2>2. /\ \A c \in Checkouts :
             pc'[c] \notin Charged \cup {"writeTransactions", "undoTransactions"}
        /\ \A y \in Cancels \ {x} : pc'[y] \notin AfterLoad \cup Credited
    BY <1>0, <2>1 DEF Charged, AfterLoad, CancelLabels, Credited
  <2>3. pc[x] \in AfterLoad
    BY <1>0, <1>4, CancelEffect DEF InFlight, AfterLoad, CancelStep, DataTypeOK, CancelLabels,
       RestockReadProducts, RestockReadTransactions, RestockProducts, RestockTransactions,
       SaveReadOrders, SaveOrder, RetakeReadProducts, RetakeProducts, RetakeReadTransactions,
       RetakeTransactions, LoadOrder, Step
  <2>4. loaded[x].order = db.orders[loaded[x].id] /\ loaded[x].order # NoOrder
    BY <2>3 DEF SerialInv, CopiesInv, IInv, LoadedInv
  <2>5. CopiesInv'
    <3>1. pc'[x] \in AfterLoad => db'.orders = db.orders
      BY CancelEffect
    <3>2. pc'[x] \in AfterLoad => loaded'[x].order = db'.orders[loaded'[x].id]
      BY <2>0, <2>4, <3>1
    <3>3. \A y \in Cancels \ {x} :
            pc'[y] \notin {"saveOrder", "restockProducts", "restockTransactions",
                           "retakeTransactions"}
      BY <1>0, <2>1
    <3>4. \A c \in Checkouts : pc'[c] # "writeOrder"
      BY <1>0, <2>1
    <3> QED BY <1>2, <2>2, <3>2, <3>3, <3>4 DEF CopiesInv
  <2>6. CASE db'.orders = db.orders
    <3>1. ASSUME NEW r \in Requests \ {x}, NEW cart, NEW type,
                 EntriesOf(r, cart, type) \subseteq db.transactions
          PROVE  EntriesOf(r, cart, type) \subseteq db'.transactions
      <4>1. \A t \in EntriesOf(r, cart, type) : t.by # x
        BY EntriesSigned
      <4>2. \/ db.transactions \subseteq db'.transactions
            \/ db'.transactions = {t \in db.transactions : t.by # x}
        <5>1. \/ db'.transactions = db.transactions
              \/ db'.transactions =
                   db.transactions \cup EntriesOf(x, loaded[x].order.cart, "in")
              \/ db'.transactions = {t \in db.transactions : t.by # x}
          BY CancelEffect
        <5> QED BY <5>1
      <4>3. CASE db.transactions \subseteq db'.transactions
        BY <3>1, <4>3
      <4>4. CASE db'.transactions = {t \in db.transactions : t.by # x}
        BY <3>1, <4>1, <4>4
      <4> QED BY <4>2, <4>3, <4>4
    <3>2. ASSUME NEW o \in Checkouts, db.orders[o] # NoOrder
          PROVE  EntriesOf(o, db.orders[o].cart, "out") \subseteq db'.transactions
      BY <1>0, <3>1, <3>2 DEF SerialInv, LedgerInv
    <3>3. ASSUME NEW o \in Checkouts, db.orders[o].status = "cancelled"
          PROVE  \E y \in Cancels :
                   /\ pc'[y] = "done"
                   /\ EntriesOf(y, db.orders[o].cart, "in") \subseteq db'.transactions
      <4>1. PICK y \in Cancels :
                   /\ pc[y] = "done"
                   /\ EntriesOf(y, db.orders[o].cart, "in") \subseteq db.transactions
        BY <3>3 DEF SerialInv, LedgerInv
      <4>2. y # x
        BY <1>4, <4>1 DEF InFlight
      <4> QED BY <1>0, <1>1, <3>1, <4>1, <4>2
    <3>4. pc'[x] \in Credited =>
            EntriesOf(x, loaded'[x].order.cart, "in") \subseteq db'.transactions
      BY <2>0, CancelEffect DEF SerialInv, LedgerInv
    <3>5. LedgerInv'
      BY <2>2, <2>6, <3>2, <3>3, <3>4 DEF LedgerInv
    <3>6. PlacedIsDurable'
      BY <1>1, <2>6 DEF SerialInv, PlacedIsDurable
    <3> QED BY <2>5, <3>5, <3>6
  <2>7. CASE db'.orders # db.orders
    <3> DEFINE order == [loaded[x].order EXCEPT !.status = "cancelled"]
    <3>1. /\ pc[x] = "saveOrder" /\ pc'[x] = "done"
          /\ db'.transactions = db.transactions
          /\ db'.orders = [db.orders EXCEPT ![loaded[x].id] = order]
      BY <2>7, CancelEffect
    <3>2. /\ loaded[x].id \in Checkouts
          /\ db'.orders[loaded[x].id] = order
          /\ \A o \in Checkouts \ {loaded[x].id} : db'.orders[o] = db.orders[o]
      BY <1>0, <3>1
    <3>3. loaded[x].order \in Order
      BY <1>0, <2>4
    <3>4. order.cart = loaded[x].order.cart /\ order # NoOrder
      BY <3>3 DEF Order, NoOrder
    <3>5. EntriesOf(x, order.cart, "in") \subseteq db.transactions
      BY <3>1, <3>4 DEF SerialInv, LedgerInv, Credited
    <3> HIDE DEF order
    <3>6. ASSUME NEW o \in Checkouts, db'.orders[o] # NoOrder
          PROVE  EntriesOf(o, db'.orders[o].cart, "out") \subseteq db'.transactions
      BY <2>4, <3>1, <3>2, <3>4, <3>6 DEF SerialInv, LedgerInv
    <3>7. ASSUME NEW o \in Checkouts, db'.orders[o].status = "cancelled"
          PROVE  \E y \in Cancels :
                   /\ pc'[y] = "done"
                   /\ EntriesOf(y, db'.orders[o].cart, "in") \subseteq db'.transactions
      <4>1. CASE o = loaded[x].id
        BY <3>1, <3>2, <3>5, <4>1
      <4>2. CASE o # loaded[x].id
        <5>1. PICK y \in Cancels :
                     /\ pc[y] = "done"
                     /\ EntriesOf(y, db.orders[o].cart, "in") \subseteq db.transactions
          BY <3>2, <3>7, <4>2 DEF SerialInv, LedgerInv
        <5>2. pc'[y] = "done"
          BY <1>0, <1>1, <3>1, <5>1
        <5> QED BY <3>1, <3>2, <4>2, <5>1, <5>2
      <4> QED BY <4>1, <4>2
    <3>8. LedgerInv'
      <4>1. pc'[x] \notin Credited
        BY <3>1 DEF Credited
      <4> QED BY <2>2, <3>6, <3>7, <4>1 DEF LedgerInv
    <3>9. PlacedIsDurable'
      <4>1. \A c \in Checkouts : db.orders[c] # NoOrder => db'.orders[c] # NoOrder
        BY <3>2, <3>4
      <4> QED BY <1>1, <4>1 DEF SerialInv, PlacedIsDurable
    <3> QED BY <2>5, <3>8, <3>9
  <2> QED BY <2>6, <2>7
<1> QED BY <1>3, <1>4, CancelEffect

(* A restart ends every request in flight and leaves the documents.         *)
LEMMA CrashKeepsSerial ==
  ASSUME SerialInv, Crash
  PROVE  CopiesInv' /\ LedgerInv' /\ PlacedIsDurable'
<1>1. /\ Checkouts \subseteq Requests /\ Cancels \subseteq Requests
      /\ db' = db /\ answer' = answer
      /\ \A r \in Requests : /\ pc'[r] \in {"start", "done", "lost"}
                             /\ pc[r] = "done" => pc'[r] = "done"
  BY DEF Requests, Crash, InFlight
<1>2. CopiesInv'
  BY <1>1 DEF CopiesInv, AfterLoad, CancelLabels
<1>3. LedgerInv'
  BY <1>1 DEF SerialInv, LedgerInv, Charged, Credited
<1>4. PlacedIsDurable'
  BY <1>1 DEF SerialInv, PlacedIsDurable
<1> QED BY <1>2, <1>3, <1>4

(* The initial states satisfy the invariant.                                *)
LEMMA InitSerial == Init => SerialInv
<1> SUFFICES ASSUME Init PROVE SerialInv
  OBVIOUS
<1>1. IInv
  BY InitInv
<1>2. Checkouts \subseteq Requests /\ Cancels \subseteq Requests
  BY DEF Requests
<1>3. /\ \A r \in Requests : pc[r] = "start" /\ answer[r] = "none"
      /\ \A o \in Checkouts : db.orders[o] = NoOrder
  BY DEF Init, FreshDatabase
<1>4. CancelsRunAlone /\ CopiesInv /\ PlacedIsDurable
  BY <1>2, <1>3 DEF CancelsRunAlone, InFlight, CopiesInv, AfterLoad, PlacedIsDurable
<1>5. LedgerInv
  BY <1>2, <1>3 DEF LedgerInv, Charged, Credited, NoOrder
<1> QED BY <1>1, <1>4, <1>5 DEF SerialInv

(* Every step with undisturbed cancellations keeps the invariant.           *)
LEMMA NextKeepsSerial ==
  ASSUME SerialInv, [Next /\ CancelsRunAlone']_vars
  PROVE  SerialInv'
<1>1. IInv'
  BY NextKeepsInv DEF SerialInv
<1>2. CASE UNCHANGED vars
  <2>1. CancelsRunAlone' /\ CopiesInv' /\ LedgerInv' /\ PlacedIsDurable'
    BY <1>2 DEF vars, SerialInv, CancelsRunAlone, InFlight, CopiesInv, LedgerInv,
                PlacedIsDurable
  <2> QED BY <1>1, <2>1 DEF SerialInv
<1>3. CASE Next /\ CancelsRunAlone'
  <2>1. CopiesInv' /\ LedgerInv' /\ PlacedIsDurable'
    BY <1>3, CheckoutKeepsSerial, CancelKeepsSerial, CrashKeepsSerial DEF Next
  <2> QED BY <1>1, <1>3, <2>1 DEF SerialInv
<1> QED BY <1>2, <1>3

-----------------------------------------------------------------------------
(* The inductive invariant of the serial market.  RollbackHolds is not      *)
(* used: what a failing rollback breaks is the stock, not the ledger.       *)
THEOREM SerialInvariant == SerialSpec => []SerialInv
<1>1. [Next /\ CancelsRunAlone' /\ RollbackHolds]_vars => [Next /\ CancelsRunAlone']_vars
  OBVIOUS
<1>2. SerialInv /\ [Next /\ CancelsRunAlone']_vars => SerialInv'
  BY NextKeepsSerial
<1> QED BY <1>1, <1>2, InitSerial, PTL DEF SerialSpec

(* Every order on file has taken its cart out of the ledger, and a          *)
(* cancelled one has given it back.                                         *)
THEOREM LedgerStandsBehindOrders == SerialSpec => []LedgerBacksOrders
<1>1. SerialInv => LedgerBacksOrders
  BY DEF SerialInv, LedgerInv, LedgerBacksOrders
<1> QED BY <1>1, SerialInvariant, PTL

(* An order whose customer was told that it is placed never disappears.     *)
THEOREM PlacedOrdersStay == SerialSpec => []PlacedIsDurable
<1>1. SerialInv => PlacedIsDurable
  BY DEF SerialInv
<1> QED BY <1>1, SerialInvariant, PTL

-----------------------------------------------------------------------------
(* What a retry d of the placed checkout c can no longer do: it has not     *)
(* placed the order of c, and while it runs it is after another order.      *)
Unlike(c, d) ==
  \/ ctx[d].key = NoKey
  \/ ctx[d].key # db.orders[c].key
  \/ TenantOf[ctx[d].customer] # TenantOf[db.orders[c].customer]

Settled(c, d) ==
  /\ answer[c] = "placed"
  /\ ~SameKey(db.orders[c], db.orders[d])
  /\ InFlight(d) => Unlike(c, d)

(* A step that leaves keys, customers and d alone keeps the pair settled.   *)
LEMMA SettledStays ==
  ASSUME NEW c \in Checkouts, NEW d \in Checkouts, Settled(c, d),
         answer'[c] = "placed",
         \A o \in {c, d} : /\ db.orders[o] = NoOrder <=> db'.orders[o] = NoOrder
                           /\ db'.orders[o].key = db.orders[o].key
                           /\ db'.orders[o].customer = db.orders[o].customer,
         InFlight(d)' => InFlight(d) /\ ctx'[d].key = ctx[d].key
                                     /\ ctx'[d].customer = ctx[d].customer
  PROVE  Settled(c, d)'
BY DEF Settled, Unlike, SameKey

(* A placed checkout has nothing left to do but to release the lock.        *)
LEMMA PlacedIsOver ==
  ASSUME SerialInv, NEW c \in Checkouts, answer[c] = "placed", pc[c] \in CheckoutLabels
  PROVE  /\ pc[c] \in {"release", "done", "lost"}
         /\ db.orders[c] # NoOrder
<1>1. db.orders[c] # NoOrder
  BY DEF SerialInv, PlacedIsDurable
<1>2. pc[c] \notin Unplaced
  BY <1>1 DEF SerialInv, IInv, OrdersInv, Agrees
<1> QED BY <1>1, <1>2 DEF Unplaced, UnderLock, CheckoutLabels

(* The steps of checkouts: the look-up of d finds the order of c, whether   *)
(* it was cancelled or not.                                                 *)
LEMMA CheckoutKeepsSettled ==
  ASSUME SerialInv, NEW c \in Checkouts, NEW d \in Checkouts \ {c}, Settled(c, d),
         NEW e \in Checkouts, Submit(e) \/ CheckoutStep(e)
  PROVE  Settled(c, d)'
<1>0. /\ DataTypeOK
      /\ d \in Requests /\ c \in Requests /\ e \in Requests
      /\ db.orders \in [Checkouts -> Order \cup {NoOrder}]
      /\ answer[c] = "placed"
  BY DEF SerialInv, IInv, TypeOK, DataTypeOK, Requests, Database, Settled
<1>1. /\ \A r \in Requests \ {e} : pc'[r] = pc[r]
      /\ \A o \in Checkouts \ {e} : ctx'[o] = ctx[o]
      /\ pc[e] \in CheckoutLabels
  BY <1>0, CheckoutFrame
<1>2. answer'[c] = "placed"
  <2>1. CASE e = c
    <3>1. pc[c] \in {"release", "done", "lost"}
      BY <1>0, <1>1, <2>1, PlacedIsOver
    <3>2. pc[c] = "start" \/ InFlight(c)
      BY <2>1, CheckoutEffect
    <3>3. pc[c] = "release"
      BY <3>1, <3>2 DEF InFlight
    <3> QED BY <1>0, <2>1, <3>3, CheckoutEffect
  <2>2. CASE e # c
    <3>1. \A r \in Requests \ {e} : answer'[r] = answer[r]
      BY CheckoutEffect
    <3> QED BY <1>0, <2>2, <3>1
  <2> QED BY <2>1, <2>2
<1>3. db.orders[c] # NoOrder
  BY <1>0 DEF SerialInv, PlacedIsDurable
<1>4. CASE db'.orders = db.orders
  <2>1. CASE e # d
    <3>1. InFlight(d)' => InFlight(d) /\ ctx'[d] = ctx[d]
      BY <1>0, <1>1, <2>1 DEF InFlight
    <3> QED BY <1>2, <1>4, <3>1, SettledStays
  <2>2. CASE e = d /\ ~Submit(d)
    <3>1. pc[d] = "start" \/ InFlight(d)
      BY <2>2, CheckoutEffect
    <3>2. pc[d] # "start"
      BY <2>2 DEF CheckoutStep, AcquireLock, ReadProducts, WriteProducts, ReadTransactions,
         WriteTransactions, ReadInvoices, WriteInvoice, ReadOrders, WriteOrder,
         UndoReadInvoices, UndoInvoice, UndoReadTransactions, UndoTransactions,
         UndoReadProducts, UndoProducts, ReleaseLock, Step
    <3>3. pc'[d] # "done" => ctx'[d].key = ctx[d].key /\ ctx'[d].customer = ctx[d].customer
      BY <2>2, CheckoutEffect
    <3>4. InFlight(d)' => InFlight(d) /\ ctx'[d].key = ctx[d].key
                                      /\ ctx'[d].customer = ctx[d].customer
      BY <3>1, <3>2, <3>3 DEF InFlight
    <3> QED BY <1>2, <1>4, <3>4, SettledStays
  <2>3. CASE e = d /\ Submit(d)
    <3>1. PICK who \in Customers, cart \in Carts, key \in Keys \cup {NoKey}, payable \in BOOLEAN :
            /\ ctx' = [ctx EXCEPT ![d] = [@ EXCEPT !.customer = who, !.cart = cart,
                                                   !.key = key, !.payable = payable]]
            /\ \/ /\ key \in Keys /\ FoundByKey(who, key) # {}
                  /\ Step(d, "start", "done")
                  /\ Reply(d, "replayed")
               \/ /\ key = NoKey \/ FoundByKey(who, key) = {}
                  /\ Step(d, "start", "acquire")
                  /\ UNCHANGED answer
      BY <2>3, Zenon DEF Submit
    <3>2. ctx'[d].customer = who /\ ctx'[d].key = key
      BY <1>0, <3>1 DEF DataTypeOK, Context
    <3>3. InFlight(d)' => key = NoKey \/ FoundByKey(who, key) = {}
      BY <1>0, <3>1 DEF InFlight, DataTypeOK, Step
    <3>4. FoundByKey(who, key) = {} =>
            \/ TenantOf[db.orders[c].customer] # TenantOf[who]
            \/ db.orders[c].key # key
      BY <1>3 DEF FoundByKey
    <3>5. InFlight(d)' => Unlike(c, d)'
      BY <1>4, <3>2, <3>3, <3>4 DEF Unlike
    <3> QED BY <1>2, <1>4, <3>5 DEF Settled, SameKey
  <2> QED BY <2>1, <2>2, <2>3
<1>5. CASE db'.orders # db.orders
  <2>1. /\ pc[e] = "writeOrder" /\ pc'[e] = "release"
        /\ db'.orders = [db.orders EXCEPT ![e] = NewOrder(e)]
    BY <1>5, CheckoutEffect
  <2>2. e # c
    BY <1>0, <1>1, <2>1, PlacedIsOver
  <2>3. db'.orders[c] = db.orders[c]
    BY <1>0, <2>1, <2>2
  <2>4. CASE e # d
    <3>1. InFlight(d)' => InFlight(d) /\ ctx'[d] = ctx[d]
      BY <1>0, <1>1, <2>4 DEF InFlight
    <3>2. db'.orders[d] = db.orders[d]
      BY <1>0, <2>1, <2>4
    <3> QED BY <1>2, <2>3, <3>1, <3>2, SettledStays
  <2>5. CASE e = d
    <3>1. Unlike(c, d)
      BY <2>1, <2>5 DEF Settled, InFlight
    <3>2. db'.orders[d] = NewOrder(d)
      BY <1>0, <2>1, <2>5
    <3>3. /\ NewOrder(d).key = ctx[d].key /\ NewOrder(d).customer = ctx[d].customer
      BY DEF NewOrder
    <3>4. ~SameKey(db'.orders[c], db'.orders[d])
      BY <2>3, <3>1, <3>2, <3>3 DEF SameKey, Unlike
    <3>5. ctx'[d].key = ctx[d].key /\ ctx'[d].customer = ctx[d].customer
      <4>1. pc'[d] = "release" /\ pc[d] = "writeOrder"
        BY <2>1, <2>5
      <4>2. ~Submit(d)
        BY <4>1 DEF Submit, Step
      <4> QED BY <2>5, <4>1, <4>2, CheckoutEffect
    <3> QED BY <1>2, <2>3, <3>1, <3>4, <3>5 DEF Settled, Unlike, SameKey
  <2> QED BY <2>4, <2>5
<1> QED BY <1>4, <1>5

(* A cancellation keeps the key and the customer of the order it saves.     *)
LEMMA CancelKeepsSettled ==
  ASSUME SerialInv, NEW c \in Checkouts, NEW d \in Checkouts \ {c}, Settled(c, d),
         NEW x \in Cancels, LoadOrder(x) \/ CancelStep(x)
  PROVE  Settled(c, d)'
<1>0. /\ DataTypeOK
      /\ c \in Requests \ {x} /\ d \in Requests \ {x}
      /\ db.orders \in [Checkouts -> Order \cup {NoOrder}]
      /\ loaded[x].id \in Checkouts
      /\ loaded[x].order \in Order \cup {NoOrder}
  BY MarketAssumption DEF SerialInv, IInv, TypeOK, DataTypeOK, Requests, Database
<1>1. /\ pc'[d] = pc[d] /\ ctx' = ctx
      /\ answer'[c] = answer[c]
  <2>1. \A r \in Requests \ {x} : answer'[r] = answer[r]
    BY CancelEffect
  <2> QED BY <1>0, <2>1, CancelFrame
<1>2. \A o \in Checkouts : /\ db.orders[o] = NoOrder <=> db'.orders[o] = NoOrder
                           /\ db'.orders[o].key = db.orders[o].key
                           /\ db'.orders[o].customer = db.orders[o].customer
  <2>1. CASE db'.orders = db.orders
    BY <2>1
  <2>2. CASE db'.orders # db.orders
    <3> DEFINE order == [loaded[x].order EXCEPT !.status = "cancelled"]
    <3>1. pc[x] = "saveOrder" /\ db'.orders = [db.orders EXCEPT ![loaded[x].id] = order]
      BY <2>2, CancelEffect
    <3>2. loaded[x].order = db.orders[loaded[x].id] /\ loaded[x].order # NoOrder
      BY <3>1 DEF SerialInv, CopiesInv, IInv, LoadedInv, AfterLoad, CancelLabels
    <3>3. order # NoOrder /\ order.key = loaded[x].order.key
                          /\ order.customer = loaded[x].order.customer
      BY <1>0, <3>2 DEF Order, NoOrder
    <3> HIDE DEF order
    <3>4. /\ db'.orders[loaded[x].id] = order
          /\ \A o \in Checkouts \ {loaded[x].id} : db'.orders[o] = db.orders[o]
      BY <1>0, <3>1
    <3> QED BY <3>2, <3>3, <3>4
  <2> QED BY <2>1, <2>2
<1>3. InFlight(d)' => InFlight(d) /\ ctx'[d].key = ctx[d].key
                                  /\ ctx'[d].customer = ctx[d].customer
  BY <1>1 DEF InFlight
<1>4. answer'[c] = "placed"
  BY <1>1 DEF Settled
<1> QED BY <1>2, <1>3, <1>4, SettledStays

(* A checkout sent again with its key, once the first one was answered      *)
(* "Order placed", places no second order: whatever is cancelled, fails or  *)
(* is restarted in between.                                                 *)
THEOREM RetriesPlaceNothing == SerialSpec => RetryPlacesNothing
<1> SUFFICES ASSUME NEW c \in Checkouts, NEW d \in Checkouts
             PROVE  SerialSpec => [](answer[c] = "placed" /\ pc[d] = "start"
                                       => []~SameKey(db.orders[c], db.orders[d]))
  BY DEF RetryPlacesNothing
<1>1. SerialInv /\ answer[c] = "placed" /\ pc[d] = "start" => d # c /\ Settled(c, d)
  <2> SUFFICES ASSUME SerialInv, answer[c] = "placed", pc[d] = "start"
               PROVE  d # c /\ Settled(c, d)
    OBVIOUS
  <2>1. db.orders[c] # NoOrder
    BY DEF SerialInv, PlacedIsDurable
  <2>2. db.orders[d] = NoOrder
    BY DEF SerialInv, IInv, OrdersInv, Agrees, Unplaced
  <2> QED BY <2>1, <2>2 DEF Settled, SameKey, InFlight
<1>2. SerialInv /\ d # c /\ Settled(c, d) /\ [Next /\ CancelsRunAlone' /\ RollbackHolds]_vars
        => (d # c /\ Settled(c, d))'
  <2> SUFFICES ASSUME SerialInv, d # c, Settled(c, d), [Next]_vars
               PROVE  Settled(c, d)'
    OBVIOUS
  <2>1. CASE UNCHANGED vars
    BY <2>1 DEF vars, Settled, SameKey, Unlike, InFlight
  <2>2. CASE Crash
    <3>1. /\ db' = db /\ answer' = answer /\ ctx' = ctx /\ ~InFlight(d)'
      BY <2>2 DEF Crash, InFlight, Requests
    <3> QED BY <3>1 DEF Settled, SameKey
  <2> QED BY <2>1, <2>2, CheckoutKeepsSettled, CancelKeepsSettled DEF Next
<1>3. d # c /\ Settled(c, d) => ~SameKey(db.orders[c], db.orders[d])
  BY DEF Settled
<1> QED BY <1>1, <1>2, <1>3, SerialInvariant, PTL DEF SerialSpec

-----------------------------------------------------------------------------
(* Stock.  What one cart does to the products document.                     *)

(* A cart that names every product on one line at most.                     *)
OneLineEach(cart) ==
  \A i, j \in DOMAIN cart : cart[i].product = cart[j].product => i = j

(* In such a cart the demand for a product, and the quantity stockDelta     *)
(* keeps of it, are both the quantity on its line.                          *)
LEMMA OneLineDemand ==
  ASSUME NEW cart \in Carts, OneLineEach(cart), NEW i \in DOMAIN cart
  PROVE  /\ Demand(cart, cart[i].product) = cart[i].qty
         /\ LastQty(cart, cart[i].product) = cart[i].qty
<1> DEFINE p == cart[i].product
           wanted == [j \in DOMAIN cart |-> IF cart[j].product = p THEN cart[j].qty ELSE 0]
           lines == {j \in DOMAIN cart : cart[j].product = p}
<1>1. /\ IsFiniteSet(DOMAIN cart) /\ DOMAIN cart \subseteq Int
      /\ \A j \in DOMAIN cart : cart[j].qty \in Int
  BY CartLines
<1>2. wanted \in [DOMAIN cart -> Int] /\ wanted[i] = cart[i].qty
  BY <1>1
<1>3. \A j \in DOMAIN cart \ {i} : wanted[j] = 0
  BY DEF OneLineEach
<1>4. lines = {i}
  BY DEF OneLineEach
<1>5. Max(lines) = i
  <2>1. {i} \in SUBSET Int /\ IsFiniteSet({i}) /\ {i} # {}
    BY <1>1, FS_Singleton
  <2>2. Max({i}) \in {i}
    BY <2>1, MaxIn
  <2> HIDE DEF lines
  <2> QED BY <1>4, <2>2
<1>6. SumFunction(wanted) = cart[i].qty
  <2> HIDE DEF wanted
  <2> QED BY <1>1, <1>2, <1>3, SumOfOne
<1>7. Demand(cart, p) = cart[i].qty
  BY <1>6 DEF Demand
<1>8. LastQty(cart, p) = cart[i].qty
  BY <1>5 DEF LastQty
<1> QED BY <1>7, <1>8

(* Selling, restocking and retaking a cart move every product by its        *)
(* demand; undoing a sale restores the document it was made from.           *)
LEMMA ShelfMoves ==
  ASSUME NEW cart \in Carts, OneLineEach(cart), NEW products \in [Catalog -> Int]
  PROVE  /\ \A p \in Catalog :
              /\ Demand(cart, p) \in Nat
              /\ Sold(products, cart)[p] = products[p] - Demand(cart, p)
              /\ Restocked(products, cart)[p] = products[p] + Demand(cart, p)
              /\ Retaken(products, cart)[p] = products[p] - Demand(cart, p)
         /\ Unsold(Sold(products, cart), products, cart) = products
<1>1. \A p \in Catalog : /\ Demand(cart, p) \in Nat
                         /\ ~InCart(cart, p) => Demand(cart, p) = 0
  BY DemandType
<1>2. \A p \in Catalog : InCart(cart, p) => LastQty(cart, p) = Demand(cart, p)
  BY OneLineDemand DEF InCart
<1> QED BY <1>1, <1>2 DEF Sold, Unsold, Restocked, Retaken, Shift

(* The per-line check of the code is a check of the demand.                 *)
LEMMA SellableDemand ==
  ASSUME NEW cart \in Carts, OneLineEach(cart), NEW products \in [Catalog -> Int],
         Sellable(products, cart), \A p \in Catalog : products[p] >= 0
  PROVE  \A p \in Catalog : Demand(cart, p) <= products[p]
<1> SUFFICES ASSUME NEW p \in Catalog PROVE Demand(cart, p) <= products[p]
  OBVIOUS
<1>1. CASE InCart(cart, p)
  <2>1. PICK i \in DOMAIN cart : cart[i].product = p
    BY <1>1 DEF InCart
  <2>2. Demand(cart, p) = cart[i].qty /\ cart[i].qty \in Nat
    BY <2>1, OneLineDemand, CartLines
  <2> QED BY <2>1, <2>2 DEF Sellable
<1>2. CASE ~InCart(cart, p)
  BY <1>2, DemandType
<1> QED BY <1>1, <1>2

(* A sum of naturals is one, and no member exceeds it.                      *)
LEMMA SumBounds ==
  ASSUME NEW S, IsFiniteSet(S), NEW f \in [S -> Nat]
  PROVE  /\ SumFunction(f) \in Nat
         /\ \A a \in S : f[a] <= SumFunction(f)
<1>1. SumFunction(f) \in Nat
  BY SumOfNaturals
<1>2. ASSUME NEW a \in S PROVE f[a] <= SumFunction(f)
  <2> DEFINE rest == [x \in S \ {a} |-> f[x]]
  <2>1. f \in [S -> Int]
    OBVIOUS
  <2>2. SumFunction(f) = f[a] + SumFunction(rest)
    BY <2>1, SumTake
  <2>3. rest \in [S \ {a} -> Nat] /\ IsFiniteSet(S \ {a})
    BY FS_RemoveElement
  <2>4. SumFunction(rest) \in Nat /\ f[a] \in Nat
    <3> HIDE DEF rest
    <3> QED BY <2>3, SumOfNaturals
  <2> HIDE DEF rest
  <2> QED BY <1>1, <2>2, <2>4
<1> QED BY <1>1, <1>2

(* A sum of naturals when its set gains a member, and when it loses one.    *)
LEMMA SumJoins ==
  ASSUME NEW S, IsFiniteSet(S), NEW f \in [S -> Nat], NEW a, a \notin S,
         NEW g \in [S \cup {a} -> Nat], \A x \in S : g[x] = f[x]
  PROVE  SumFunction(g) = SumFunction(f) + g[a]
<1>1. g[a] \in Int /\ g \in [S \cup {a} -> Int] /\ f \in [S -> Int]
  OBVIOUS
<1> QED BY <1>1, SumAdd

LEMMA SumLeaves ==
  ASSUME NEW S, IsFiniteSet(S), NEW f \in [S -> Nat], NEW a \in S,
         NEW g \in [S \ {a} -> Nat], \A x \in S \ {a} : g[x] = f[x]
  PROVE  SumFunction(g) = SumFunction(f) - f[a]
<1>1. f \in [S -> Int] /\ g = [x \in S \ {a} |-> f[x]] /\ f[a] \in Int
  OBVIOUS
<1>2. /\ SumFunction(g) \in Int
      /\ SumFunction(f) = f[a] + SumFunction(g)
  BY <1>1, SumTake
<1> QED BY <1>1, <1>2

(* One of the three cases of a change from a set S to a set T.              *)
Changed(S, T, a) ==
  T = S \/ (a \notin S /\ T = S \cup {a}) \/ (a \in S /\ T = S \ {a})

LEMMA SumMoves ==
  ASSUME NEW S, IsFiniteSet(S), NEW T, NEW a, Changed(S, T, a),
         NEW f \in [S -> Nat], NEW g \in [T -> Nat], \A x \in S \cap T : g[x] = f[x]
  PROVE  /\ IsFiniteSet(T)
         /\ SumFunction(f) \in Nat
         /\ a \in S => f[a] \in Nat /\ f[a] <= SumFunction(f)
         /\ T = S => SumFunction(g) = SumFunction(f)
         /\ a \in T \ S => SumFunction(g) = SumFunction(f) + g[a]
         /\ a \in S \ T => SumFunction(g) = SumFunction(f) - f[a]
<1>1. /\ SumFunction(f) \in Nat
      /\ a \in S => f[a] \in Nat /\ f[a] <= SumFunction(f)
  BY SumBounds
<1>2. CASE T = S
  <2>1. g = f
    BY <1>2
  <2> QED BY <1>1, <1>2, <2>1
<1>3. CASE a \notin S /\ T = S \cup {a}
  <2>1. g \in [S \cup {a} -> Nat] /\ \A x \in S : g[x] = f[x]
    BY <1>3
  <2>2. SumFunction(g) = SumFunction(f) + g[a]
    BY <1>3, <2>1, SumJoins
  <2> QED BY <1>1, <1>3, <2>2, FS_AddElement
<1>4. CASE a \in S /\ T = S \ {a}
  <2>1. g \in [S \ {a} -> Nat] /\ \A x \in S \ {a} : g[x] = f[x]
    BY <1>4
  <2>2. SumFunction(g) = SumFunction(f) - f[a]
    BY <1>4, <2>1, SumLeaves
  <2> QED BY <1>1, <1>4, <2>2, FS_RemoveElement
<1> QED BY <1>2, <1>3, <1>4 DEF Changed

-----------------------------------------------------------------------------
(* Labels at which a checkout has taken its cart off the shelf and has not  *)
(* ended, and at which a cancellation has put it back and has not ended.    *)
Busy ==
  {"readTransactions", "writeTransactions", "readInvoices", "writeInvoice", "readOrders",
   "writeOrder", "undoReadInvoices", "undoInvoice", "undoReadTransactions",
   "undoTransactions", "undoReadProducts", "undoProducts"}

Giving ==
  {"restockTransactions", "saveReadOrders", "saveOrder", "retakeReadProducts",
   "retakeProducts"}

(* A products document about to be written back is a current one, what the  *)
(* rollback of a checkout restores is what it took the cart from, and a     *)
(* cancellation that may have to take its cart back finds it on the shelf.  *)
CheckoutStock(c) ==
  /\ pc[c] \in {"writeProducts", "undoProducts"} => view[c].products = db.products
  /\ pc[c] = "writeProducts" =>
       ctx[c].original = db.products /\ Sellable(db.products, ctx[c].cart)
  /\ pc[c] \in Busy =>
       /\ db.products = Sold(ctx[c].original, ctx[c].cart)
       /\ \A p \in Catalog : ctx[c].original[p] >= 0
  /\ answer[c] = "duplicate" => pc[c] \in {"release", "done", "lost"}

CancelStock(x) ==
  /\ pc[x] \in {"restockReadTransactions", "restockProducts", "retakeProducts"} =>
       view[x].products = db.products
  /\ pc[x] \in Giving =>
       \A p \in Catalog : Demand(loaded[x].order.cart, p) <= db.products[p]
  /\ pc[x] \in AfterLoad => loaded[x].order.status = "received"

StockInv ==
  /\ SerialInv
  /\ IsFiniteSet(Taking) /\ IsFiniteSet(Returning) /\ IsFiniteSet(Received)
  /\ \A c \in Checkouts : CheckoutStock(c)
  /\ \A x \in Cancels : CancelStock(x)
  /\ StockAccounted

(* The types the steps below need.                                          *)
LEMMA StockTypes ==
  ASSUME SerialInv
  PROVE  /\ DataTypeOK
         /\ Checkouts \subseteq Requests /\ Cancels \subseteq Requests
         /\ Checkouts \cap Cancels = {}
         /\ db.products \in [Catalog -> Int]
         /\ db.orders \in [Checkouts -> Order \cup {NoOrder}]
         /\ \A c \in Checkouts : /\ ctx[c].cart \in Carts
                                 /\ ctx[c].original \in [Catalog -> Int]
         /\ \A x \in Cancels : loaded[x].id \in Checkouts
         /\ \A x \in Cancels :
              pc[x] \in AfterLoad =>
                /\ loaded[x].order \in Order /\ loaded[x].order.cart \in Carts
                /\ loaded[x].order = db.orders[loaded[x].id]
         /\ \A o \in Received : db.orders[o] \in Order /\ db.orders[o].cart \in Carts
         /\ Returning = {x \in Cancels : pc[x] \in Giving}
         /\ Taking = {c \in Checkouts : pc[c] \in Busy \/ answer[c] = "duplicate"}
<1>1. DataTypeOK
  BY DEF SerialInv, IInv, TypeOK, DataTypeOK
<1>2. /\ db.products \in [Catalog -> Int]
      /\ db.orders \in [Checkouts -> Order \cup {NoOrder}]
      /\ \A c \in Checkouts : /\ ctx[c].cart \in Carts
                              /\ ctx[c].original \in [Catalog -> Int]
      /\ \A x \in Cancels : /\ loaded[x].id \in Checkouts
                            /\ loaded[x].order \in Order \cup {NoOrder}
  BY <1>1 DEF DataTypeOK, Database, Context
<1>3. \A order \in Order : order.cart \in Carts
  BY DEF Order
<1>4. \A x \in Cancels : pc[x] \in AfterLoad =>
        loaded[x].order # NoOrder /\ loaded[x].order = db.orders[loaded[x].id]
  BY DEF SerialInv, IInv, LoadedInv, CopiesInv
<1>5. \A o \in Received : o \in Checkouts /\ db.orders[o] # NoOrder
  BY DEF Received, NoOrder
<1>6. /\ Returning = {x \in Cancels : pc[x] \in Giving}
      /\ Taking = {c \in Checkouts : pc[c] \in Busy \/ answer[c] = "duplicate"}
  BY DEF Returning, Giving, Taking, Busy
<1> QED BY <1>1, <1>2, <1>3, <1>4, <1>5, <1>6, MarketAssumption DEF Requests

(* A step of a checkout takes its cart off the shelf, puts it back, places  *)
(* its order, or changes nothing a customer could see.                      *)
LEMMA CheckoutMoves ==
  ASSUME StockInv, NEW c \in Checkouts, Submit(c) \/ CheckoutStep(c), RollbackHolds,
         \A cart \in Carts : OneLineEach(cart)
  PROVE  /\ CheckoutStock(c)'
         /\ ctx'[c].cart = ctx[c].cart \/ pc[c] = "start"
         /\ \/ /\ db'.products = db.products /\ db'.orders = db.orders
               /\ c \in Taking' <=> c \in Taking
            \/ /\ pc[c] = "writeProducts"
               /\ db'.products = Sold(db.products, ctx[c].cart) /\ db'.orders = db.orders
               /\ Sellable(db.products, ctx[c].cart)
               /\ c \notin Taking /\ c \in Taking'
            \/ /\ pc[c] = "undoProducts"
               /\ db'.products = ctx[c].original /\ db'.orders = db.orders
               /\ c \in Taking /\ c \notin Taking'
            \/ /\ pc[c] = "writeOrder"
               /\ db'.products = db.products
               /\ db'.orders = [db.orders EXCEPT ![c] = NewOrder(c)]
               /\ c \in Taking /\ c \notin Taking'
<1>0. /\ c \in Requests
      /\ view[c] \in Database
      /\ ctx[c] \in Context
      /\ ctx[c].cart \in Carts
      /\ pc \in [Requests -> CheckoutLabels \cup CancelLabels]
      /\ view \in [Requests -> Database]
      /\ ctx \in [Checkouts -> Context]
      /\ answer \in [Requests -> Answers]
      /\ db \in Database
      /\ faults \in Int
      /\ \A p \in Catalog : db.products[p] >= 0
      /\ c \in Taking <=> pc[c] \in Busy \/ answer[c] = "duplicate"
      /\ c \in Taking' <=> pc'[c] \in Busy \/ answer'[c] = "duplicate"
      /\ pc[c] = "writeOrder" => view[c].orders = db.orders
      /\ CheckoutStock(c)
      /\ pc[c] = "undoProducts" =>
           Unsold(db.products, ctx[c].original, ctx[c].cart) = ctx[c].original
  <2>1. /\ DataTypeOK /\ CheckoutStock(c) /\ SerialInv /\ StockAccounted /\ c \in Requests
    BY StockTypes DEF StockInv
  <2>2. /\ ctx[c].cart \in Carts /\ ctx[c].original \in [Catalog -> Int]
    BY <2>1, StockTypes
  <2>3. pc[c] = "undoProducts" =>
          Unsold(db.products, ctx[c].original, ctx[c].cart) = ctx[c].original
    BY <2>1, <2>2, ShelfMoves DEF CheckoutStock, Busy
  <2>4. /\ c \in Taking <=> pc[c] \in Busy \/ answer[c] = "duplicate"
        /\ c \in Taking' <=> pc'[c] \in Busy \/ answer'[c] = "duplicate"
    BY DEF Taking, Busy
  <2>5. faults \in Int
    BY <2>1, MarketAssumption DEF DataTypeOK
  <2> QED BY <2>1, <2>2, <2>3, <2>4, <2>5 DEF DataTypeOK, SerialInv, CopiesInv, StockAccounted
<1> USE <1>0 DEF Step, Reply, Forget, WriteFails, BestEffort, CheckoutStock, Busy
<1> USE DEF Database
<1>1. CASE Submit(c)
  BY <1>1 DEF Submit
<1>2. CASE AcquireLock(c)
  BY <1>2 DEF AcquireLock
<1>3. CASE ReadProducts(c)
  <2>1. /\ db' = db /\ view'[c].products = db.products /\ ctx'[c].cart = ctx[c].cart
        /\ pc[c] = "readProducts"
        /\ \/ /\ pc'[c] = "writeProducts" /\ answer'[c] = answer[c]
              /\ ctx'[c].original = db.products /\ Sellable(db.products, ctx[c].cart)
           \/ pc'[c] = "release" /\ answer'[c] = "unavailable"
    BY <1>3 DEF ReadProducts, Context
  <2> QED BY <2>1
<1>4. CASE WriteProducts(c)
  BY <1>4 DEF WriteProducts
<1>5. CASE ReadTransactions(c)
  BY <1>5 DEF ReadTransactions
<1>6. CASE WriteTransactions(c)
  BY <1>6 DEF WriteTransactions
<1>7. CASE ReadInvoices(c)
  <2>1. /\ db' = db /\ pc[c] = "readInvoices"
        /\ ctx'[c].cart = ctx[c].cart /\ ctx'[c].original = ctx[c].original
        /\ \/ pc'[c] = "writeInvoice" /\ answer'[c] = answer[c]
           \/ pc'[c] = "release" /\ answer'[c] = "duplicate"
    BY <1>7 DEF ReadInvoices, Context
  <2> QED BY <2>1
<1>8. CASE WriteInvoice(c)
  BY <1>8 DEF WriteInvoice
<1>9. CASE ReadOrders(c)
  BY <1>9 DEF ReadOrders
<1>10. CASE WriteOrder(c)
  BY <1>10 DEF WriteOrder
<1>11. CASE UndoReadInvoices(c)
  BY <1>11 DEF UndoReadInvoices
<1>12. CASE UndoInvoice(c)
  BY <1>12 DEF UndoInvoice
<1>13. CASE UndoReadTransactions(c)
  BY <1>13 DEF UndoReadTransactions
<1>14. CASE UndoTransactions(c)
  BY <1>14 DEF UndoTransactions
<1>15. CASE UndoReadProducts(c)
  BY <1>15 DEF UndoReadProducts
<1>16. CASE UndoProducts(c)
  <2>1. faults' = faults
    BY <1>16 DEF UndoProducts, RollbackHolds
  <2> QED BY <1>16, <2>1 DEF UndoProducts
<1>17. CASE ReleaseLock(c)
  BY <1>17 DEF ReleaseLock, Context
<1> QED BY <1>1, <1>2, <1>3, <1>4, <1>5, <1>6, <1>7, <1>8, <1>9, <1>10, <1>11, <1>12,
           <1>13, <1>14, <1>15, <1>16, <1>17 DEF CheckoutStep

-----------------------------------------------------------------------------
(* The three sums of the account: units taken by checkouts that have not    *)
(* ended, units put back by cancellations that have not ended, units in     *)
(* received orders.                                                         *)
Took(p)  == SumFunction([c \in Taking |-> Demand(ctx[c].cart, p)])
Gave(p)  == SumFunction([x \in Returning |-> Demand(loaded[x].order.cart, p)])
Owned(p) == SumFunction([o \in Received |-> Demand(db.orders[o].cart, p)])

LEMMA TookMoves ==
  ASSUME StockInv, SerialInv', NEW a, Changed(Taking, Taking', a), NEW p,
         \A c \in Taking \cap Taking' : ctx'[c].cart = ctx[c].cart
  PROVE  /\ IsFiniteSet(Taking')
         /\ Took(p) \in Nat
         /\ a \in Taking => Demand(ctx[a].cart, p) <= Took(p)
         /\ Taking' = Taking => Took(p)' = Took(p)
         /\ a \in Taking' \ Taking => Took(p)' = Took(p) + Demand(ctx'[a].cart, p)
         /\ a \in Taking \ Taking' => Took(p)' = Took(p) - Demand(ctx[a].cart, p)
<1> DEFINE S == Taking
           T == Taking'
           f == [c \in S |-> Demand(ctx[c].cart, p)]
           g == [c \in T |-> Demand(ctx'[c].cart, p)]
<1>1. \A c \in Checkouts : ctx[c].cart \in Carts /\ ctx'[c].cart \in Carts
  BY DEF StockInv, SerialInv, IInv, TypeOK, Context
<1>2. S \subseteq Checkouts /\ T \subseteq Checkouts
  BY DEF Taking
<1>3. f \in [S -> Nat] /\ g \in [T -> Nat]
  <2> HIDE DEF S, T
  <2> QED BY <1>1, <1>2, DemandType
<1>4. \A c \in S \cap T : g[c] = f[c]
  OBVIOUS
<1>5. IsFiniteSet(S) /\ Changed(S, T, a)
  BY DEF StockInv
<1>6. Took(p) = SumFunction(f) /\ Took(p)' = SumFunction(g)
  BY DEF Took
<1>7. /\ a \in S => f[a] = Demand(ctx[a].cart, p)
      /\ a \in T => g[a] = Demand(ctx'[a].cart, p)
  OBVIOUS
<1> HIDE DEF S, T, f, g
<1>8. /\ IsFiniteSet(T)
      /\ SumFunction(f) \in Nat
      /\ a \in S => f[a] \in Nat /\ f[a] <= SumFunction(f)
      /\ T = S => SumFunction(g) = SumFunction(f)
      /\ a \in T \ S => SumFunction(g) = SumFunction(f) + g[a]
      /\ a \in S \ T => SumFunction(g) = SumFunction(f) - f[a]
  BY <1>3, <1>4, <1>5, SumMoves
<1> QED BY <1>6, <1>7, <1>8 DEF S, T

LEMMA GaveMoves ==
  ASSUME StockInv, SerialInv', NEW a, Changed(Returning, Returning', a), NEW p,
         \A x \in Returning \cap Returning' : loaded'[x].order.cart = loaded[x].order.cart
  PROVE  /\ IsFiniteSet(Returning')
         /\ Gave(p) \in Nat
         /\ a \in Returning => Demand(loaded[a].order.cart, p) <= Gave(p)
         /\ Returning' = Returning => Gave(p)' = Gave(p)
         /\ a \in Returning' \ Returning => Gave(p)' = Gave(p) + Demand(loaded'[a].order.cart, p)
         /\ a \in Returning \ Returning' => Gave(p)' = Gave(p) - Demand(loaded[a].order.cart, p)
<1> DEFINE S == Returning
           T == Returning'
           f == [x \in S |-> Demand(loaded[x].order.cart, p)]
           g == [x \in T |-> Demand(loaded'[x].order.cart, p)]
<1>1. /\ \A x \in S : loaded[x].order.cart \in Carts
      /\ \A x \in T : loaded'[x].order.cart \in Carts
  <2>1. /\ \A x \in Cancels : pc[x] \in AfterLoad => loaded[x].order # NoOrder
        /\ \A x \in Cancels : pc'[x] \in AfterLoad => loaded'[x].order # NoOrder
    BY DEF StockInv, SerialInv, IInv, LoadedInv
  <2>2. \A x \in Cancels : /\ loaded[x].order \in Order \cup {NoOrder}
                           /\ loaded'[x].order \in Order \cup {NoOrder}
    BY DEF StockInv, SerialInv, IInv, TypeOK
  <2>3. /\ \A x \in S : x \in Cancels /\ pc[x] \in AfterLoad
        /\ \A x \in T : x \in Cancels /\ pc'[x] \in AfterLoad
    BY DEF Returning, AfterLoad, CancelLabels
  <2> HIDE DEF S, T
  <2> QED BY <2>1, <2>2, <2>3 DEF Order
<1>3. f \in [S -> Nat] /\ g \in [T -> Nat]
  <2> HIDE DEF S, T
  <2> QED BY <1>1, DemandType
<1>4. \A x \in S \cap T : g[x] = f[x]
  OBVIOUS
<1>5. IsFiniteSet(S) /\ Changed(S, T, a)
  BY DEF StockInv
<1>6. Gave(p) = SumFunction(f) /\ Gave(p)' = SumFunction(g)
  BY DEF Gave
<1>7. /\ a \in S => f[a] = Demand(loaded[a].order.cart, p)
      /\ a \in T => g[a] = Demand(loaded'[a].order.cart, p)
  OBVIOUS
<1> HIDE DEF S, T, f, g
<1>8. /\ IsFiniteSet(T)
      /\ SumFunction(f) \in Nat
      /\ a \in S => f[a] \in Nat /\ f[a] <= SumFunction(f)
      /\ T = S => SumFunction(g) = SumFunction(f)
      /\ a \in T \ S => SumFunction(g) = SumFunction(f) + g[a]
      /\ a \in S \ T => SumFunction(g) = SumFunction(f) - f[a]
  BY <1>3, <1>4, <1>5, SumMoves
<1> QED BY <1>6, <1>7, <1>8 DEF S, T

LEMMA OwnedMoves ==
  ASSUME StockInv, SerialInv', NEW a, Changed(Received, Received', a), NEW p,
         \A o \in Received \cap Received' : db'.orders[o].cart = db.orders[o].cart
  PROVE  /\ IsFiniteSet(Received')
         /\ Owned(p) \in Nat
         /\ a \in Received => Demand(db.orders[a].cart, p) <= Owned(p)
         /\ Received' = Received => Owned(p)' = Owned(p)
         /\ a \in Received' \ Received => Owned(p)' = Owned(p) + Demand(db'.orders[a].cart, p)
         /\ a \in Received \ Received' => Owned(p)' = Owned(p) - Demand(db.orders[a].cart, p)
<1> DEFINE S == Received
           T == Received'
           f == [o \in S |-> Demand(db.orders[o].cart, p)]
           g == [o \in T |-> Demand(db'.orders[o].cart, p)]
<1>1. /\ \A o \in S : db.orders[o].cart \in Carts
      /\ \A o \in T : db'.orders[o].cart \in Carts
  <2>1. \A o \in Checkouts : /\ db.orders[o] \in Order \cup {NoOrder}
                             /\ db'.orders[o] \in Order \cup {NoOrder}
    BY DEF StockInv, SerialInv, IInv, TypeOK, Database
  <2>2. /\ \A o \in S : o \in Checkouts /\ db.orders[o] # NoOrder
        /\ \A o \in T : o \in Checkouts /\ db'.orders[o] # NoOrder
    BY DEF Received, NoOrder
  <2> HIDE DEF S, T
  <2> QED BY <2>1, <2>2 DEF Order
<1>3. f \in [S -> Nat] /\ g \in [T -> Nat]
  <2> HIDE DEF S, T
  <2> QED BY <1>1, DemandType
<1>4. \A o \in S \cap T : g[o] = f[o]
  OBVIOUS
<1>5. IsFiniteSet(S) /\ Changed(S, T, a)
  BY DEF StockInv
<1>6. Owned(p) = SumFunction(f) /\ Owned(p)' = SumFunction(g)
  BY DEF Owned
<1>7. /\ a \in S => f[a] = Demand(db.orders[a].cart, p)
      /\ a \in T => g[a] = Demand(db'.orders[a].cart, p)
  OBVIOUS
<1> HIDE DEF S, T, f, g
<1>8. /\ IsFiniteSet(T)
      /\ SumFunction(f) \in Nat
      /\ a \in S => f[a] \in Nat /\ f[a] <= SumFunction(f)
      /\ T = S => SumFunction(g) = SumFunction(f)
      /\ a \in T \ S => SumFunction(g) = SumFunction(f) + g[a]
      /\ a \in S \ T => SumFunction(g) = SumFunction(f) - f[a]
  BY <1>3, <1>4, <1>5, SumMoves
<1> QED BY <1>6, <1>7, <1>8 DEF S, T

(* A step of a cancellation puts its cart back on the shelf, takes it away  *)
(* again, saves the cancelled order, or changes nothing a customer could    *)
(* see.                                                                     *)
LEMMA CancelMoves ==
  ASSUME StockInv, NEW x \in Cancels, LoadOrder(x) \/ CancelStep(x), RollbackHolds,
         \A cart \in Carts : OneLineEach(cart)
  PROVE  /\ CancelStock(x)'
         /\ loaded'[x] = loaded[x] \/ pc[x] = "start"
         /\ \/ /\ db'.products = db.products /\ db'.orders = db.orders
               /\ x \in Returning' <=> x \in Returning
            \/ /\ pc[x] = "restockProducts"
               /\ db'.products = Restocked(db.products, loaded[x].order.cart)
               /\ db'.orders = db.orders
               /\ x \notin Returning /\ x \in Returning'
            \/ /\ pc[x] = "retakeProducts"
               /\ db'.products = Retaken(db.products, loaded[x].order.cart)
               /\ db'.orders = db.orders
               /\ x \in Returning /\ x \notin Returning'
            \/ /\ pc[x] = "saveOrder"
               /\ db'.products = db.products
               /\ db'.orders = [db.orders EXCEPT ![loaded[x].id] =
                                  [loaded[x].order EXCEPT !.status = "cancelled"]]
               /\ x \in Returning /\ x \notin Returning'
<1>0. /\ x \in Requests
      /\ view[x] \in Database
      /\ pc \in [Requests -> CheckoutLabels \cup CancelLabels]
      /\ view \in [Requests -> Database]
      /\ answer \in [Requests -> Answers]
      /\ loaded \in [Cancels -> [id : Checkouts, order : Order \cup {NoOrder}]]
      /\ db \in Database
      /\ faults \in Int
      /\ x \in Returning <=> pc[x] \in Giving
      /\ x \in Returning' <=> pc'[x] \in Giving
      /\ pc[x] = "saveOrder" => view[x].orders = db.orders
      /\ CancelStock(x)
      /\ pc[x] \in AfterLoad =>
           \A p \in Catalog :
             /\ Demand(loaded[x].order.cart, p) \in Nat
             /\ Restocked(db.products, loaded[x].order.cart)[p] =
                  db.products[p] + Demand(loaded[x].order.cart, p)
      /\ \A p \in Catalog : db.products[p] \in Int /\ db.products[p] >= 0
  <2>1. /\ DataTypeOK /\ CancelStock(x) /\ SerialInv /\ StockAccounted
        /\ x \in Requests /\ db.products \in [Catalog -> Int]
        /\ pc[x] \in AfterLoad => loaded[x].order.cart \in Carts
    BY StockTypes DEF StockInv
  <2>2. x \in Returning <=> pc[x] \in Giving
    BY DEF Returning, Giving
  <2>3. x \in Returning' <=> pc'[x] \in Giving
    BY DEF Returning, Giving
  <2>4. pc[x] \in AfterLoad =>
          \A p \in Catalog :
            /\ Demand(loaded[x].order.cart, p) \in Nat
            /\ Restocked(db.products, loaded[x].order.cart)[p] =
                 db.products[p] + Demand(loaded[x].order.cart, p)
    BY <2>1, ShelfMoves
  <2>5. faults \in Int
    BY <2>1, MarketAssumption DEF DataTypeOK
  <2>6. \A p \in Catalog : db.products[p] \in Int /\ db.products[p] >= 0
    BY <2>1 DEF StockAccounted
  <2> QED BY <2>1, <2>2, <2>3, <2>4, <2>5, <2>6 DEF DataTypeOK, SerialInv, CopiesInv
<1> USE <1>0 DEF Step, Reply, Forget, WriteFails, BestEffort, CancelStock, Giving
<1> USE DEF Database, AfterLoad, CancelLabels
<1>1. CASE LoadOrder(x)
  BY <1>1 DEF LoadOrder
<1>2. CASE RestockReadProducts(x)
  BY <1>2 DEF RestockReadProducts
<1>3. CASE RestockReadTransactions(x)
  BY <1>3 DEF RestockReadTransactions
<1>4. CASE RestockProducts(x)
  BY <1>4 DEF RestockProducts
<1>5. CASE RestockTransactions(x)
  <2>1. faults' = faults
    BY <1>5 DEF RestockTransactions, RollbackHolds
  <2> QED BY <1>5, <2>1 DEF RestockTransactions
<1>6. CASE SaveReadOrders(x)
  BY <1>6 DEF SaveReadOrders
<1>7. CASE SaveOrder(x)
  <2>1. CASE pc'[x] = "done"
    <3>1. /\ db' = [db EXCEPT !.orders =
                      [view[x].orders EXCEPT ![loaded[x].id] =
                         [loaded[x].order EXCEPT !.status = "cancelled"]]]
          /\ pc[x] = "saveOrder" /\ loaded' = loaded
      BY <1>7, <2>1 DEF SaveOrder
    <3>2. /\ db'.products = db.products
          /\ db'.orders = [db.orders EXCEPT ![loaded[x].id] =
                             [loaded[x].order EXCEPT !.status = "cancelled"]]
      BY <3>1
    <3>3. CancelStock(x)'
      BY <2>1
    <3> QED BY <2>1, <3>1, <3>2, <3>3
  <2>2. CASE pc'[x] # "done"
    <3>1. /\ pc[x] = "saveOrder" /\ pc'[x] = "retakeReadProducts"
          /\ UNCHANGED <<db, loaded>>
      BY <1>7, <2>2 DEF SaveOrder
    <3> QED BY <3>1
  <2> QED BY <2>1, <2>2
<1>8. CASE RetakeReadProducts(x)
  BY <1>8 DEF RetakeReadProducts
<1>9. CASE RetakeProducts(x)
  <2>1. faults' = faults
    BY <1>9 DEF RetakeProducts, RollbackHolds
  <2> QED BY <1>9, <2>1 DEF RetakeProducts
<1>10. CASE RetakeReadTransactions(x)
  BY <1>10 DEF RetakeReadTransactions
<1>11. CASE RetakeTransactions(x)
  BY <1>11 DEF RetakeTransactions
<1> QED BY <1>1, <1>2, <1>3, <1>4, <1>5, <1>6, <1>7, <1>8, <1>9, <1>10, <1>11 DEF CancelStep

-----------------------------------------------------------------------------
(* When the shelf and the two sums in transit move together, the promised   *)
(* stock stays, and with the orders document every part of the account.     *)
BookStep == [Book!Next]_(Book!bookVars)

LEMMA QuietStep ==
  ASSUME StockInv, SerialInv', db'.orders = db.orders,
         \A p \in Catalog : db'.products[p] + Took(p)' - Gave(p)'
                              = db.products[p] + Took(p) - Gave(p)
  PROVE  /\ BookStep
         /\ IsFiniteSet(Received')
         /\ \A p \in Catalog : PromisedStock'[p] + Owned(p)' = InitialStock[p]
<1>1. PromisedStock' = PromisedStock
  BY DEF PromisedStock, Took, Gave
<1>2. PlacedOrders' = PlacedOrders
  BY DEF PlacedOrders
<1>3. Received' = Received
  BY DEF Received
<1>4. \A p \in Catalog : Owned(p)' = Owned(p)
  BY <1>3 DEF Owned
<1>5. \A p \in Catalog : PromisedStock[p] + Owned(p) = InitialStock[p]
  BY DEF StockInv, StockAccounted, Owned
<1> QED BY <1>1, <1>2, <1>3, <1>4, <1>5 DEF BookStep, Book!bookVars, StockInv

(* A checkout that writes its order takes its cart from the promised stock, *)
(* where it is: it still holds those units itself.                          *)
LEMMA PlacingStep ==
  ASSUME StockInv, SerialInv', NEW c \in Checkouts, pc[c] = "writeOrder",
         db'.products = db.products,
         db'.orders = [db.orders EXCEPT ![c] = NewOrder(c)],
         \A p \in Catalog : /\ Demand(ctx[c].cart, p) <= Took(p)
                            /\ Took(p)' = Took(p) - Demand(ctx[c].cart, p)
                            /\ Gave(p) = 0 /\ Gave(p)' = 0 /\ Took(p) \in Nat
  PROVE  /\ BookStep
         /\ IsFiniteSet(Received')
         /\ \A p \in Catalog : PromisedStock'[p] + Owned(p)' = InitialStock[p]
<1> DEFINE cart == ctx[c].cart
<1>1. /\ cart \in Carts
      /\ db.products \in [Catalog -> Int]
      /\ db.orders \in [Checkouts -> Order \cup {NoOrder}]
      /\ \A p \in Catalog : db.products[p] >= 0 /\ Demand(cart, p) \in Nat
      /\ \A p \in Catalog : PromisedStock[p] + Owned(p) = InitialStock[p]
  BY StockTypes, DemandType DEF StockInv, StockAccounted, Owned
<1>2. db.orders[c] = NoOrder
  BY DEF StockInv, SerialInv, IInv, OrdersInv, Agrees, Unplaced, UnderLock, CheckoutLabels
<1>3. /\ db'.orders[c] = NewOrder(c)
      /\ \A o \in Checkouts \ {c} : db'.orders[o] = db.orders[o]
      /\ NewOrder(c).status = "received" /\ NewOrder(c).cart = cart /\ NewOrder(c) # NoOrder
  BY <1>1 DEF NewOrder, NoOrder
<1>4. c \notin Received /\ Received' = Received \cup {c}
  BY <1>2, <1>3 DEF Received, NoOrder
<1>5. /\ IsFiniteSet(Received')
      /\ \A p \in Catalog : Owned(p)' = Owned(p) + Demand(cart, p) /\ Owned(p) \in Nat
  <2>1. Changed(Received, Received', c)
    BY <1>4 DEF Changed
  <2>2. \A o \in Received \cap Received' : db'.orders[o].cart = db.orders[o].cart
    BY <1>3, <1>4 DEF Received
  <2>3. c \in Received' \ Received
    BY <1>4
  <2> QED BY <1>3, <2>1, <2>2, <2>3, OwnedMoves
<1>6. /\ PromisedStock = [p \in Catalog |-> db.products[p] + Took(p) - Gave(p)]
      /\ PromisedStock' = [p \in Catalog |-> db'.products[p] + Took(p)' - Gave(p)']
  BY DEF PromisedStock, Took, Gave
<1>7. /\ \A p \in Catalog : Demand(cart, p) <= PromisedStock[p]
      /\ PromisedStock' = [p \in Catalog |-> PromisedStock[p] - Demand(cart, p)]
  BY <1>1, <1>6
<1>8. /\ PlacedOrders[c] = NoOrder
      /\ PlacedOrders' = [PlacedOrders EXCEPT ![c] = [status |-> "received", cart |-> cart]]
  BY <1>2, <1>3 DEF PlacedOrders
<1>9. BookStep
  BY <1>1, <1>7, <1>8 DEF BookStep, Book!Next, Book!Place, Book!Nothing, NoOrder
<1>10. \A p \in Catalog : PromisedStock'[p] + Owned(p)' = InitialStock[p]
  BY <1>1, <1>5, <1>6, <1>7
<1> QED BY <1>5, <1>9, <1>10

(* A cancellation that saves the order hands its cart over to the promised  *)
(* stock.                                                                   *)
LEMMA CancellingStep ==
  ASSUME StockInv, SerialInv', NEW x \in Cancels, pc[x] = "saveOrder",
         db'.products = db.products,
         db'.orders = [db.orders EXCEPT ![loaded[x].id] =
                         [loaded[x].order EXCEPT !.status = "cancelled"]],
         \A p \in Catalog : /\ Gave(p)' = Gave(p) - Demand(loaded[x].order.cart, p)
                            /\ Gave(p) \in Nat /\ Took(p) \in Nat
                            /\ Took(p)' = Took(p)
  PROVE  /\ BookStep
         /\ IsFiniteSet(Received')
         /\ \A p \in Catalog : PromisedStock'[p] + Owned(p)' = InitialStock[p]
<1> DEFINE o == loaded[x].id
           cart == loaded[x].order.cart
           order == [loaded[x].order EXCEPT !.status = "cancelled"]
<1>1. /\ o \in Checkouts /\ cart \in Carts
      /\ db.orders[o] = loaded[x].order /\ loaded[x].order \in Order
      /\ db.orders[o].status = "received"
      /\ db.products \in [Catalog -> Int]
      /\ db.orders \in [Checkouts -> Order \cup {NoOrder}]
      /\ \A p \in Catalog : Demand(cart, p) \in Nat
      /\ \A p \in Catalog : PromisedStock[p] + Owned(p) = InitialStock[p]
  <2>1. pc[x] \in AfterLoad
    BY DEF AfterLoad, CancelLabels
  <2> QED BY <2>1, StockTypes, DemandType DEF StockInv, StockAccounted, Owned, CancelStock
<1>2. order.status = "cancelled" /\ order.cart = cart /\ order # NoOrder
  BY <1>1 DEF Order, NoOrder
<1>3. db'.orders[o] = order /\ \A q \in Checkouts \ {o} : db'.orders[q] = db.orders[q]
  BY <1>1
<1> HIDE DEF order
<1>4. o \in Received /\ Received' = Received \ {o}
  BY <1>1, <1>2, <1>3 DEF Received
<1>5. /\ IsFiniteSet(Received')
      /\ \A p \in Catalog : /\ Owned(p)' = Owned(p) - Demand(cart, p)
                            /\ Owned(p) \in Nat
  <2>1. Changed(Received, Received', o)
    BY <1>4 DEF Changed
  <2>2. \A q \in Received \cap Received' : db'.orders[q].cart = db.orders[q].cart
    BY <1>3, <1>4 DEF Received
  <2>3. o \in Received \ Received'
    BY <1>4
  <2> QED BY <1>1, <2>1, <2>2, <2>3, OwnedMoves
<1>6. /\ PromisedStock = [p \in Catalog |-> db.products[p] + Took(p) - Gave(p)]
      /\ PromisedStock' = [p \in Catalog |-> db'.products[p] + Took(p)' - Gave(p)']
  BY DEF PromisedStock, Took, Gave
<1>7. PromisedStock' = [p \in Catalog |-> PromisedStock[p] + Demand(cart, p)]
  BY <1>1, <1>6
<1>8. /\ PlacedOrders[o] = [status |-> "received", cart |-> cart]
      /\ PlacedOrders' = [PlacedOrders EXCEPT ![o].status = "cancelled"]
  <2>1. PlacedOrders[o] = [status |-> "received", cart |-> cart]
    BY <1>1 DEF PlacedOrders, NoOrder
  <2>2. PlacedOrders'[o] = [status |-> "cancelled", cart |-> cart]
    BY <1>1, <1>2, <1>3 DEF PlacedOrders
  <2>3. \A q \in Checkouts \ {o} : PlacedOrders'[q] = PlacedOrders[q]
    BY <1>3 DEF PlacedOrders
  <2>4. DOMAIN PlacedOrders = Checkouts /\ DOMAIN PlacedOrders' = Checkouts
        /\ PlacedOrders = [q \in Checkouts |-> PlacedOrders[q]]
        /\ PlacedOrders' = [q \in Checkouts |-> PlacedOrders'[q]]
    BY DEF PlacedOrders
  <2> QED BY <1>1, <2>1, <2>2, <2>3, <2>4
<1>9. BookStep
  <2>1. PlacedOrders[o].status = "received" /\ PlacedOrders[o].cart = cart
    BY <1>8
  <2> HIDE DEF o, cart
  <2>2. PromisedStock' = [p \in Catalog |-> PromisedStock[p] + Demand(PlacedOrders[o].cart, p)]
    BY <1>7, <2>1
  <2>3. Book!Cancel(o)
    BY <1>8, <2>1, <2>2 DEF Book!Cancel
  <2> QED BY <1>1, <2>3 DEF BookStep, Book!Next
<1>10. \A p \in Catalog : PromisedStock'[p] + Owned(p)' = InitialStock[p]
  BY <1>1, <1>5, <1>6, <1>7
<1> QED BY <1>5, <1>9, <1>10

-----------------------------------------------------------------------------
(* A step of a checkout keeps the invariant and is a step of the order      *)
(* book.                                                                    *)
LEMMA CheckoutKeepsStock ==
  ASSUME StockInv, SerialInv', NEW c \in Checkouts, Submit(c) \/ CheckoutStep(c),
         RollbackHolds, \A cart \in Carts : OneLineEach(cart)
  PROVE  StockInv' /\ BookStep
<1>0. /\ SerialInv /\ DataTypeOK
      /\ Checkouts \subseteq Requests /\ Cancels \subseteq Requests /\ c \notin Cancels
      /\ db.products \in [Catalog -> Int]
      /\ ctx[c].cart \in Carts /\ ctx[c].original \in [Catalog -> Int]
      /\ CheckoutStock(c)
      /\ \A p \in Catalog : Demand(ctx[c].cart, p) \in Nat
  BY StockTypes, DemandType DEF StockInv
<1>1. /\ \A d \in Checkouts \ {c} : /\ pc'[d] = pc[d] /\ view'[d] = view[d]
                                    /\ ctx'[d] = ctx[d] /\ answer'[d] = answer[d]
      /\ \A x \in Cancels : pc'[x] = pc[x] /\ view'[x] = view[x]
      /\ loaded' = loaded
  <2>1. \A r \in Requests \ {c} : answer'[r] = answer[r]
    BY <1>0, CheckoutEffect
  <2> QED BY <1>0, <2>1, CheckoutFrame
<1>2. /\ Changed(Taking, Taking', c)
      /\ Returning' = Returning
  <2>1. \A d \in Checkouts \ {c} : d \in Taking' <=> d \in Taking
    BY <1>1 DEF Taking
  <2>2. Taking \subseteq Checkouts /\ Taking' \subseteq Checkouts
    BY DEF Taking
  <2>3. Returning' = Returning
    BY <1>1 DEF Returning
  <2> QED BY <2>1, <2>2, <2>3 DEF Changed
<1>3. \A d \in Taking \cap Taking' : ctx'[d].cart = ctx[d].cart
  <2>1. pc[c] = "start" => c \notin Taking
    BY <1>0 DEF CheckoutStock, Taking
  <2>2. ctx'[c].cart = ctx[c].cart \/ pc[c] = "start"
    BY CheckoutMoves
  <2> QED BY <1>1, <2>1, <2>2 DEF Taking
<1>4. /\ \A d \in Checkouts : CheckoutStock(d)'
      /\ \A x \in Cancels : CancelStock(x)'
  <2>1. CheckoutStock(c)'
    BY CheckoutMoves
  <2>2. CASE db'.products = db.products
    <3>1. ASSUME NEW d \in Checkouts \ {c} PROVE CheckoutStock(d)'
      BY <1>1, <2>2 DEF StockInv, CheckoutStock
    <3>2. ASSUME NEW x \in Cancels PROVE CancelStock(x)'
      BY <1>1, <2>2 DEF StockInv, CancelStock
    <3> QED BY <2>1, <3>1, <3>2
  <2>3. CASE db'.products # db.products
    <3>1. pc[c] \in {"writeProducts", "undoProducts"}
      BY <2>3, CheckoutMoves
    <3>2. \A d \in Checkouts \ {c} : pc[d] \notin UnderLock
      <4>1. pc[c] \in UnderLock
        BY <3>1 DEF UnderLock, CheckoutLabels
      <4> QED BY <1>0, <4>1 DEF SerialInv, IInv, HoldersInv, StockLock!LockInv,
                                StockLock!MutualExclusion
    <3>3. \A x \in Cancels : pc[x] \in {"start", "done", "lost"}
      BY <1>0, <3>1 DEF SerialInv, CancelsRunAlone, InFlight
    <3>4. ASSUME NEW d \in Checkouts \ {c} PROVE CheckoutStock(d)'
      <4>1. pc'[d] \notin UnderLock
        BY <1>1, <3>2
      <4>2. /\ pc'[d] \notin Busy \cup {"writeProducts", "undoProducts"}
            /\ pc'[d] = pc[d] /\ answer'[d] = answer[d]
        BY <1>1, <4>1 DEF UnderLock, CheckoutLabels, Busy
      <4>3. CheckoutStock(d)
        BY DEF StockInv
      <4> QED BY <4>2, <4>3 DEF CheckoutStock
    <3>5. ASSUME NEW x \in Cancels PROVE CancelStock(x)'
      BY <1>1, <3>3 DEF CancelStock, Giving, AfterLoad, CancelLabels
    <3> QED BY <2>1, <3>4, <3>5
  <2> QED BY <2>2, <2>3
<1>5. \A p \in Catalog :
        /\ Took(p) \in Nat
        /\ Taking' = Taking => Took(p)' = Took(p)
        /\ c \in Taking => Demand(ctx[c].cart, p) <= Took(p)
        /\ c \in Taking' \ Taking => Took(p)' = Took(p) + Demand(ctx'[c].cart, p)
        /\ c \in Taking \ Taking' => Took(p)' = Took(p) - Demand(ctx[c].cart, p)
  BY <1>2, <1>3, TookMoves
<1>6. \A p \in Catalog : Gave(p)' = Gave(p) /\ Gave(p) \in Nat
  <2>1. Changed(Returning, Returning', c)
    BY <1>2 DEF Changed
  <2>2. \A x \in Returning \cap Returning' : loaded'[x].order.cart = loaded[x].order.cart
    BY <1>1
  <2> QED BY <1>2, <2>1, <2>2, GaveMoves
<1>7. IsFiniteSet(Taking') /\ IsFiniteSet(Returning')
  <2>1. \A p : IsFiniteSet(Taking')
    BY <1>2, <1>3, TookMoves
  <2> QED BY <1>2, <2>1 DEF StockInv
<1>8. \A p \in Catalog : db.products[p] \in Nat
  <2>1. StockAccounted
    BY DEF StockInv
  <2>2. \A p \in Catalog : db.products[p] \in Int /\ db.products[p] >= 0
    BY <1>0, <2>1 DEF StockAccounted
  <2> QED BY <2>2
<1>9. SUFFICES /\ BookStep
               /\ IsFiniteSet(Received')
               /\ \A p \in Catalog : PromisedStock'[p] + Owned(p)' = InitialStock[p]
               /\ \A p \in Catalog : db'.products[p] >= 0
  BY <1>4, <1>7 DEF StockInv, StockAccounted, Owned
<1>10. CASE /\ db'.products = db.products /\ db'.orders = db.orders
            /\ c \in Taking' <=> c \in Taking
  <2>1. Taking' = Taking
    BY <1>2, <1>10 DEF Changed
  <2> QED BY <1>5, <1>6, <1>8, <1>10, <2>1, QuietStep
<1>11. CASE /\ pc[c] = "writeProducts"
            /\ db'.products = Sold(db.products, ctx[c].cart) /\ db'.orders = db.orders
            /\ Sellable(db.products, ctx[c].cart)
            /\ c \notin Taking /\ c \in Taking'
  <2>1. ctx'[c].cart = ctx[c].cart
    BY <1>11, CheckoutMoves
  <2>2. \A p \in Catalog :
          /\ db'.products[p] = db.products[p] - Demand(ctx[c].cart, p)
          /\ Took(p)' = Took(p) + Demand(ctx[c].cart, p)
          /\ Demand(ctx[c].cart, p) <= db.products[p]
    BY <1>0, <1>5, <1>8, <1>11, <2>1, ShelfMoves, SellableDemand
  <2>3. \A p \in Catalog : /\ db'.products[p] + Took(p)' - Gave(p)'
                                = db.products[p] + Took(p) - Gave(p)
                           /\ db'.products[p] >= 0
    BY <1>0, <1>5, <1>6, <1>8, <2>2
  <2> QED BY <1>11, <2>3, QuietStep
<1>12. CASE /\ pc[c] = "undoProducts"
            /\ db'.products = ctx[c].original /\ db'.orders = db.orders
            /\ c \in Taking /\ c \notin Taking'
  <2>1. db.products = Sold(ctx[c].original, ctx[c].cart)
        /\ \A p \in Catalog : ctx[c].original[p] \in Int /\ ctx[c].original[p] >= 0
    BY <1>0, <1>12 DEF CheckoutStock, Busy
  <2>2. \A p \in Catalog :
          /\ db.products[p] = db'.products[p] - Demand(ctx[c].cart, p)
          /\ Took(p)' = Took(p) - Demand(ctx[c].cart, p)
    BY <1>0, <1>5, <1>12, <2>1, ShelfMoves
  <2>3. \A p \in Catalog : /\ db'.products[p] + Took(p)' - Gave(p)'
                                = db.products[p] + Took(p) - Gave(p)
                           /\ db'.products[p] >= 0
    BY <1>0, <1>5, <1>6, <1>12, <2>1, <2>2
  <2> QED BY <1>12, <2>3, QuietStep
<1>13. CASE /\ pc[c] = "writeOrder"
            /\ db'.products = db.products
            /\ db'.orders = [db.orders EXCEPT ![c] = NewOrder(c)]
            /\ c \in Taking /\ c \notin Taking'
  <2>1. Returning = {}
    <3>1. \A x \in Cancels : pc[x] \in {"start", "done", "lost"}
      BY <1>0, <1>13 DEF SerialInv, CancelsRunAlone, InFlight
    <3> QED BY <3>1 DEF Returning
  <2>2. \A p \in Catalog : Gave(p) = 0
    BY <2>1, SumOfNone DEF Gave
  <2>3. \A p \in Catalog : /\ Demand(ctx[c].cart, p) <= Took(p)
                           /\ Took(p)' = Took(p) - Demand(ctx[c].cart, p)
                           /\ Gave(p) = 0 /\ Gave(p)' = 0 /\ Took(p) \in Nat
    BY <1>5, <1>6, <1>13, <2>2
  <2> QED BY <1>8, <1>13, <2>3, PlacingStep
<1> QED BY <1>10, <1>11, <1>12, <1>13, CheckoutMoves

(* The same for a step of a cancellation, which has the process to itself.  *)
LEMMA CancelKeepsStock ==
  ASSUME StockInv, SerialInv', NEW x \in Cancels, LoadOrder(x) \/ CancelStep(x),
         RollbackHolds, \A cart \in Carts : OneLineEach(cart)
  PROVE  StockInv' /\ BookStep
<1> DEFINE cart == loaded[x].order.cart
<1>0. /\ SerialInv /\ DataTypeOK
      /\ Checkouts \subseteq Requests /\ Cancels \subseteq Requests /\ x \notin Checkouts
      /\ db.products \in [Catalog -> Int]
      /\ CancelStock(x)
      /\ x \in Returning <=> pc[x] \in Giving
      /\ pc[x] \in AfterLoad => cart \in Carts
      /\ StockAccounted
  BY StockTypes DEF StockInv
<1>1. /\ \A y \in Cancels \ {x} : /\ pc'[y] = pc[y] /\ view'[y] = view[y]
                                  /\ loaded'[y] = loaded[y]
      /\ \A c \in Checkouts : /\ pc'[c] = pc[c] /\ view'[c] = view[c]
                              /\ answer'[c] = answer[c]
      /\ ctx' = ctx
  <2>1. \A r \in Requests \ {x} : answer'[r] = answer[r]
    BY <1>0, CancelEffect
  <2>2. \A c \in Checkouts : c \in Requests \ {x}
    BY <1>0
  <2> QED BY <1>0, <2>1, <2>2, CancelFrame
<1>2. /\ Changed(Returning, Returning', x)
      /\ Taking' = Taking
  <2>1. \A y \in Cancels \ {x} : y \in Returning' <=> y \in Returning
    BY <1>1 DEF Returning
  <2>2. Returning \subseteq Cancels /\ Returning' \subseteq Cancels
    BY DEF Returning
  <2>3. Taking' = Taking
    BY <1>1 DEF Taking
  <2> QED BY <2>1, <2>2, <2>3 DEF Changed
<1>3. \A y \in Returning \cap Returning' : loaded'[y].order.cart = loaded[y].order.cart
  <2>1. pc[x] = "start" => x \notin Returning
    BY DEF Returning
  <2>2. loaded'[x] = loaded[x] \/ pc[x] = "start"
    BY CancelMoves
  <2> QED BY <1>1, <2>1, <2>2 DEF Returning
<1>4. /\ \A c \in Checkouts : CheckoutStock(c)'
      /\ \A y \in Cancels : CancelStock(y)'
  <2>1. CancelStock(x)'
    BY CancelMoves
  <2>2. CASE db'.products = db.products
    <3>1. ASSUME NEW c \in Checkouts PROVE CheckoutStock(c)'
      BY <1>1, <2>2 DEF StockInv, CheckoutStock
    <3>2. ASSUME NEW y \in Cancels \ {x} PROVE CancelStock(y)'
      BY <1>1, <2>2 DEF StockInv, CancelStock
    <3> QED BY <2>1, <3>1, <3>2
  <2>3. CASE db'.products # db.products
    <3>1. pc[x] \in {"restockProducts", "retakeProducts"}
      BY <2>3, CancelMoves
    <3>2. \A r \in Requests \ {x} : pc[r] \in {"start", "done", "lost"}
      BY <1>0, <3>1 DEF SerialInv, CancelsRunAlone, InFlight
    <3>3. ASSUME NEW c \in Checkouts PROVE CheckoutStock(c)'
      <4>1. c \in Requests \ {x}
        BY <1>0
      <4>2. /\ pc'[c] \in {"start", "done", "lost"}
            /\ pc'[c] = pc[c] /\ answer'[c] = answer[c]
        BY <1>1, <3>2, <4>1
      <4>3. CheckoutStock(c)
        BY DEF StockInv
      <4> QED BY <4>2, <4>3 DEF CheckoutStock, Busy
    <3>4. ASSUME NEW y \in Cancels \ {x} PROVE CancelStock(y)'
      <4>1. pc'[y] \in {"start", "done", "lost"}
        BY <1>0, <1>1, <3>2
      <4> QED BY <4>1 DEF CancelStock, Giving, AfterLoad, CancelLabels
    <3> QED BY <2>1, <3>3, <3>4
  <2> QED BY <2>2, <2>3
<1>5. \A p \in Catalog :
        /\ Gave(p) \in Nat
        /\ Returning' = Returning => Gave(p)' = Gave(p)
        /\ x \in Returning' \ Returning =>
             Gave(p)' = Gave(p) + Demand(loaded'[x].order.cart, p)
        /\ x \in Returning \ Returning' => Gave(p)' = Gave(p) - Demand(cart, p)
  BY <1>2, <1>3, GaveMoves
<1>6. \A p \in Catalog : Took(p)' = Took(p) /\ Took(p) \in Nat
  <2>1. Changed(Taking, Taking', x)
    BY <1>2 DEF Changed
  <2>2. \A c \in Taking \cap Taking' : ctx'[c].cart = ctx[c].cart
    BY <1>1
  <2> QED BY <1>2, <2>1, <2>2, TookMoves
<1>7. IsFiniteSet(Taking') /\ IsFiniteSet(Returning')
  <2>1. \A p : IsFiniteSet(Returning')
    BY <1>2, <1>3, GaveMoves
  <2> QED BY <1>2, <2>1 DEF StockInv
<1>8. \A p \in Catalog : db.products[p] \in Nat
  <2>1. \A p \in Catalog : db.products[p] \in Int /\ db.products[p] >= 0
    BY <1>0 DEF StockAccounted
  <2> QED BY <2>1
<1>9. SUFFICES /\ BookStep
               /\ IsFiniteSet(Received')
               /\ \A p \in Catalog : PromisedStock'[p] + Owned(p)' = InitialStock[p]
               /\ \A p \in Catalog : db'.products[p] >= 0
  BY <1>4, <1>7 DEF StockInv, StockAccounted, Owned
<1>10. CASE /\ db'.products = db.products /\ db'.orders = db.orders
            /\ x \in Returning' <=> x \in Returning
  <2>1. Returning' = Returning
    BY <1>2, <1>10 DEF Changed
  <2> QED BY <1>5, <1>6, <1>8, <1>10, <2>1, QuietStep
<1>11. CASE /\ pc[x] = "restockProducts"
            /\ db'.products = Restocked(db.products, cart) /\ db'.orders = db.orders
            /\ x \notin Returning /\ x \in Returning'
  <2>1. cart \in Carts /\ loaded'[x] = loaded[x]
    BY <1>0, <1>11, CancelMoves DEF AfterLoad, CancelLabels
  <2>2. \A p \in Catalog :
          /\ Demand(cart, p) \in Nat
          /\ db'.products[p] = db.products[p] + Demand(cart, p)
          /\ Gave(p)' = Gave(p) + Demand(cart, p)
    BY <1>0, <1>5, <1>11, <2>1, ShelfMoves
  <2>3. \A p \in Catalog : /\ db'.products[p] + Took(p)' - Gave(p)'
                                = db.products[p] + Took(p) - Gave(p)
                           /\ db'.products[p] >= 0
    BY <1>5, <1>6, <1>8, <2>2
  <2> QED BY <1>11, <2>3, QuietStep
<1>12. CASE /\ pc[x] = "retakeProducts"
            /\ db'.products = Retaken(db.products, cart) /\ db'.orders = db.orders
            /\ x \in Returning /\ x \notin Returning'
  <2>1. /\ cart \in Carts
        /\ \A p \in Catalog : Demand(cart, p) <= db.products[p]
    BY <1>0, <1>12 DEF AfterLoad, CancelLabels, CancelStock, Giving
  <2>2. \A p \in Catalog :
          /\ Demand(cart, p) \in Nat
          /\ db'.products[p] = db.products[p] - Demand(cart, p)
          /\ Gave(p)' = Gave(p) - Demand(cart, p)
    BY <1>0, <1>5, <1>12, <2>1, ShelfMoves
  <2>3. \A p \in Catalog : /\ db'.products[p] + Took(p)' - Gave(p)'
                                = db.products[p] + Took(p) - Gave(p)
                           /\ db'.products[p] >= 0
    BY <1>5, <1>6, <1>8, <2>1, <2>2
  <2> QED BY <1>12, <2>3, QuietStep
<1>13. CASE /\ pc[x] = "saveOrder"
            /\ db'.products = db.products
            /\ db'.orders = [db.orders EXCEPT ![loaded[x].id] =
                               [loaded[x].order EXCEPT !.status = "cancelled"]]
            /\ x \in Returning /\ x \notin Returning'
  <2>1. \A p \in Catalog : /\ Gave(p)' = Gave(p) - Demand(cart, p)
                           /\ Gave(p) \in Nat /\ Took(p) \in Nat
                           /\ Took(p)' = Took(p)
    BY <1>5, <1>6, <1>13
  <2> QED BY <1>8, <1>13, <2>1, CancellingStep
<1> QED BY <1>10, <1>11, <1>12, <1>13, CancelMoves

(* Nothing has been sold before the first request.                          *)
LEMMA InitStock ==
  ASSUME Init
  PROVE  StockInv /\ Book!Init
<1>1. SerialInv
  BY InitSerial
<1>2. /\ \A r \in Requests : pc[r] = "start" /\ answer[r] = "none"
      /\ db.products = InitialStock
      /\ \A o \in Checkouts : db.orders[o] = NoOrder
      /\ Checkouts \subseteq Requests /\ Cancels \subseteq Requests
  BY DEF Init, FreshDatabase, Requests
<1>3. Taking = {} /\ Returning = {} /\ Received = {}
  BY <1>2 DEF Taking, Returning, Received, NoOrder
<1>4. \A p : Took(p) = 0 /\ Gave(p) = 0 /\ Owned(p) = 0
  BY <1>3, SumOfNone DEF Took, Gave, Owned
<1>5. InitialStock \in [Catalog -> Nat]
  BY MarketAssumption
<1>6. PromisedStock = [p \in Catalog |-> InitialStock[p]]
  <2>1. PromisedStock = [p \in Catalog |-> db.products[p] + Took(p) - Gave(p)]
    BY DEF PromisedStock, Took, Gave
  <2> QED BY <1>2, <1>4, <1>5, <2>1
<1>7. StockAccounted
  <2>1. \A p \in Catalog : db.products[p] >= 0 /\ PromisedStock[p] + Owned(p) = InitialStock[p]
    BY <1>2, <1>4, <1>5, <1>6
  <2> QED BY <2>1 DEF StockAccounted, Owned
<1>8. /\ \A c \in Checkouts : CheckoutStock(c)
      /\ \A x \in Cancels : CancelStock(x)
  BY <1>2 DEF CheckoutStock, Busy, CancelStock, Giving, AfterLoad
<1>9. Book!Init
  BY <1>2, <1>5, <1>6 DEF Book!Init, PlacedOrders, Book!Nothing, NoOrder
<1> QED BY <1>1, <1>3, <1>7, <1>8, <1>9, FS_EmptySet DEF StockInv

(* Without restarts every step keeps the invariant and is a step of the     *)
(* order book.                                                              *)
LEMMA NextKeepsStock ==
  ASSUME StockInv, [Next /\ CancelsRunAlone' /\ RollbackHolds]_vars,
         MaxCrashes = 0, \A cart \in Carts : OneLineEach(cart)
  PROVE  StockInv' /\ BookStep
<1>1. SerialInv'
  BY NextKeepsSerial DEF StockInv
<1>2. CASE UNCHANGED vars
  <2>1. /\ Taking' = Taking /\ Returning' = Returning /\ Received' = Received
        /\ PromisedStock' = PromisedStock /\ PlacedOrders' = PlacedOrders
    BY <1>2 DEF vars, Taking, Returning, Received, PromisedStock, PlacedOrders
  <2>2. StockAccounted'
    BY <1>2, <2>1 DEF vars, StockInv, StockAccounted
  <2>3. /\ \A c \in Checkouts : CheckoutStock(c)'
        /\ \A x \in Cancels : CancelStock(x)'
    BY <1>2 DEF vars, StockInv, CheckoutStock, CancelStock
  <2> QED BY <1>1, <2>1, <2>2, <2>3 DEF StockInv, BookStep, Book!bookVars
<1>3. CASE Next /\ RollbackHolds
  <2>1. ~Crash
    <3>1. crashes \in 0..MaxCrashes
      BY DEF StockInv, SerialInv, IInv, TypeOK
    <3> QED BY <3>1 DEF Crash
  <2> QED BY <1>1, <1>3, <2>1, CheckoutKeepsStock, CancelKeepsStock DEF Next
<1> QED BY <1>2, <1>3

-----------------------------------------------------------------------------
(* The inductive invariant of the stock, for a process that is not          *)
(* restarted and carts that name a product on one line at most.             *)
THEOREM StockInvariant ==
  ASSUME MaxCrashes = 0, \A cart \in Carts : OneLineEach(cart)
  PROVE  SerialSpec => []StockInv
<1>1. Init => StockInv
  BY InitStock
<1>2. StockInv /\ [Next /\ CancelsRunAlone' /\ RollbackHolds]_vars => StockInv'
  BY NextKeepsStock
<1> QED BY <1>1, <1>2, PTL DEF SerialSpec

(* No unit is sold twice and none gets lost: it is on the shelf, in the     *)
(* hands of a request, or in an order received and not cancelled.           *)
THEOREM StockIsAccounted ==
  ASSUME MaxCrashes = 0, \A cart \in Carts : OneLineEach(cart)
  PROVE  SerialSpec => []StockAccounted
<1>1. StockInv => StockAccounted
  BY DEF StockInv
<1> QED BY <1>1, StockInvariant, PTL

(* Checkouts and cancellations implement the abstract order book: each      *)
(* takes effect at one instant, all or nothing.                             *)
THEOREM MarketImplementsOrderBook ==
  ASSUME MaxCrashes = 0, \A cart \in Carts : OneLineEach(cart)
  PROVE  SerialSpec => ImplementsOrderBook
<1>1. Init => Book!Init
  BY InitStock
<1>2. StockInv /\ [Next /\ CancelsRunAlone' /\ RollbackHolds]_vars
        => [Book!Next]_(Book!bookVars)
  BY NextKeepsStock DEF BookStep
<1> QED BY <1>1, <1>2, StockInvariant, PTL DEF SerialSpec, ImplementsOrderBook, Book!Spec

=============================================================================
