----------------------------- MODULE PointsBook -----------------------------
(***************************************************************************)
(* What loyalty synchronisation promises for the points of a customer: the *)
(* operations a till orders are booked once for each key, and an order is  *)
(* settled only when its key is booked or it was laid aside for a person   *)
(* to look at (loyalty/syncQueue.js, loyalty.service.js).                  *)
(***************************************************************************)
EXTENDS Naturals, SequencesExt

CONSTANT Keys

VARIABLES
  orders,   \* the key of each operation ordered, in order
  booked,   \* keys in the ledger
  settled,  \* numbers of the orders that are not tried again
  aside,    \* those laid aside
  lost      \* the ledger was lost

vars == <<orders, booked, settled, aside, lost>>

Init == orders = <<>> /\ booked = {} /\ settled = {} /\ aside = {} /\ lost = FALSE

Order ==
  /\ IsPrefix(orders, orders')
  /\ UNCHANGED <<booked, settled, aside, lost>>

Book(k) ==
  /\ k \notin booked
  /\ booked' = booked \cup {k}
  /\ UNCHANGED <<orders, settled, aside, lost>>

Settle(n) ==
  /\ orders[n] \in booked \/ lost
  /\ settled' = settled \cup {n}
  /\ UNCHANGED <<orders, booked, aside, lost>>

LayAside(n) ==
  /\ settled' = settled \cup {n}
  /\ aside' = aside \cup {n}
  /\ UNCHANGED <<orders, booked, lost>>

Lose ==
  /\ booked' = {}
  /\ lost' = TRUE
  /\ UNCHANGED <<orders, settled, aside>>

Next ==
  \/ Order
  \/ \E k \in Keys : Book(k)
  \/ \E n \in DOMAIN orders : Settle(n) \/ LayAside(n)
  \/ Lose

Spec == Init /\ [][Next]_vars
=============================================================================
