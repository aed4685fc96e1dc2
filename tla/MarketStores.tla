---------------------------- MODULE MarketStores ----------------------------
(***************************************************************************)
(* What the market's two order operations share: the four JSON documents   *)
(* they read and write whole through BaseRepository, the process-wide      *)
(* stockLock, and the local state of the requests in flight.               *)
(*                                                                         *)
(* Every `await` of the code is a point where other requests run, so one   *)
(* action is one awaited storage call together with the synchronous code   *)
(* up to the next one.  A request that read a document keeps its own copy  *)
(* (`view`): what it writes later is that copy with its changes, whatever  *)
(* happened to the stored document meanwhile.                              *)
(***************************************************************************)
EXTENDS Integers, Sequences, FiniteSetsExt

CONSTANTS
  Checkouts,    \* checkout requests; a checkout names the order it creates
  Cancels,      \* cancellation requests
  Customers,    \* authenticated market customers
  TenantOf,     \* the tenant of each customer
  InitialStock, \* stockQty of every product of the catalogue
  Products,     \* product ids a client may name
  Carts,        \* the carts a client may send, sequences of lines
  Keys, NoKey,  \* idempotency keys, and none sent
  InvoiceIds,   \* ids the invoice number generator may produce
  MaxFaults,    \* bound: storage writes that return false
  MaxCrashes    \* bound: process restarts

Catalog == DOMAIN InitialStock

(* Units of product p in a cart.                                            *)
Demand(cart, p) ==
  SumFunction([i \in DOMAIN cart |-> IF cart[i].product = p THEN cart[i].qty ELSE 0])

(* Quantity on the last line of the cart that names p.                      *)
LastQty(cart, p) ==
  cart[Max({i \in DOMAIN cart : cart[i].product = p})].qty

InCart(cart, p) == \E i \in DOMAIN cart : cart[i].product = p

ASSUME MarketAssumption ==
  /\ Checkouts \cap Cancels = {}
  /\ Checkouts # {} /\ Customers # {} /\ Carts # {} /\ InvoiceIds # {}
  /\ InitialStock \in [Catalog -> Nat]
  /\ Catalog \subseteq Products
  /\ NoKey \notin Keys
  /\ MaxFaults \in Nat
  /\ MaxCrashes \in Nat

(* A cart is a non-empty list of lines with a positive integer quantity:    *)
(* processCheckout rejects anything else before it reads a store.           *)
ASSUME CartAssumption ==
  \A cart \in Carts :
    /\ cart \in Seq([product : Products, qty : Nat \ {0}])
    /\ cart # <<>>

Requests == Checkouts \cup Cancels

VARIABLES
  db,       \* the stored documents
  locked, queue, granted,  \* stockLock
  pc,       \* where each request is
  view,     \* each request's copies of the documents it has read
  ctx,      \* processCheckout: its input and its compensation context
  loaded,   \* cancelOrder: the order it loaded
  answer,   \* what each request was answered
  faults, crashes

StockLock == INSTANCE AsyncLock WITH Clients <- Checkouts

lockVars == <<locked, queue, granted>>
vars == <<db, locked, queue, granted, pc, view, ctx, loaded, answer, faults, crashes>>

-----------------------------------------------------------------------------
NoOrder == [status |-> "none"]

Order == [status : {"received", "cancelled"}, customer : Customers, cart : Carts,
          key : Keys \cup {NoKey}, invoice : InvoiceIds]

Entry == [by : Requests, line : Nat, product : Products, type : {"in", "out"}, qty : Nat]

Invoice == [id : InvoiceIds, by : Checkouts]

Database == [products     : [Catalog -> Int],
             transactions : SUBSET Entry,
             invoices     : SUBSET Invoice,
             orders       : [Checkouts -> Order \cup {NoOrder}]]

FreshDatabase == [products     |-> InitialStock,
                  transactions |-> {},
                  invoices     |-> {},
                  orders       |-> [o \in Checkouts |-> NoOrder]]

(* The ledger entries a request appends for a cart, one per line.           *)
EntriesOf(r, cart, type) ==
  {[by |-> r, line |-> i, product |-> cart[i].product, type |-> type,
    qty |-> cart[i].qty] : i \in DOMAIN cart}

(* A products document with `delta` added for every product of the cart     *)
(* that it still lists.                                                     *)
Shift(products, delta(_), cart) ==
  [p \in DOMAIN products |->
     IF InCart(cart, p) THEN products[p] + delta(p) ELSE products[p]]

-----------------------------------------------------------------------------
Step(r, from, to) ==
  /\ pc[r] = from
  /\ pc' = [pc EXCEPT ![r] = to]

Reply(r, a) == answer' = [answer EXCEPT ![r] = a]

(* The request is over: its copies of the documents are garbage.            *)
Forget(r) == view' = [view EXCEPT ![r] = FreshDatabase]

(* writeAsync resolves to false and the document keeps its old content.     *)
WriteFails ==
  /\ faults < MaxFaults
  /\ faults' = faults + 1
  /\ UNCHANGED db

(* A write whose result the caller does not look at.                        *)
BestEffort(write) ==
  \/ write /\ UNCHANGED faults
  \/ WriteFails

InFlight(r) == pc[r] \notin {"start", "done", "lost"}
=============================================================================
