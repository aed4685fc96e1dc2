------------------------------ MODULE OrderBook ------------------------------
(***************************************************************************)
(* What the market promises a customer, without stores, locks or requests: *)
(* placing an order takes its cart out of stock at once or does nothing,   *)
(* no order takes more than there is, and cancelling a received order puts *)
(* the cart back exactly once.                                             *)
(***************************************************************************)
EXTENDS Integers

CONSTANTS Orders, Catalog, InitialStock, Carts, Demand(_, _)

VARIABLES stock, book

bookVars == <<stock, book>>

Nothing == [status |-> "none"]

Init ==
  /\ stock = InitialStock
  /\ book = [o \in Orders |-> Nothing]

Place(o, cart) ==
  /\ book[o] = Nothing
  /\ \A p \in Catalog : Demand(cart, p) <= stock[p]
  /\ stock' = [p \in Catalog |-> stock[p] - Demand(cart, p)]
  /\ book' = [book EXCEPT ![o] = [status |-> "received", cart |-> cart]]

Cancel(o) ==
  /\ book[o].status = "received"
  /\ stock' = [p \in Catalog |-> stock[p] + Demand(book[o].cart, p)]
  /\ book' = [book EXCEPT ![o].status = "cancelled"]

Next == \E o \in Orders : Cancel(o) \/ \E cart \in Carts : Place(o, cart)

Spec == Init /\ [][Next]_bookVars
=============================================================================
