--------------------------- MODULE HostingOrders ----------------------------
(***************************************************************************)
(* The order store of game hosting and the operations that touch nothing   *)
(* else: creation, payment callbacks, refunds, renewal and the expiry      *)
(* sweep of backend/services/gameHostingOrder.service.js.                  *)
(*                                                                         *)
(* Each operation reads the document from disk, changes one order and      *)
(* writes the document back without waiting for anything but the JSON      *)
(* engine, which is synchronous: it is one turn of the event loop and one  *)
(* action here.  Only createOrder looks at the result of its write; any    *)
(* other that fails leaves the stored order as it was while the caller     *)
(* goes on as if it had been saved.                                        *)
(***************************************************************************)
EXTENDS Naturals

CONSTANTS
  Orders,        \* ids createOrder hands out
  Refs,          \* payment references a gateway sends
  Calls,         \* bound: requests that may be talking to the provider at once
  MaxAttempts,   \* bound: provisioning attempts of an order
  WritesMayFail, \* whether a store write may return false
  MayCrash       \* whether the process may be restarted

ASSUME HostingAssumption ==
  /\ MaxAttempts \in Nat
  /\ WritesMayFail \in BOOLEAN
  /\ MayCrash \in BOOLEAN

VARIABLES
  orders,   \* the gameHostingOrders document
  servers,  \* the gameHostingServers document: whether an order has its record
  faulty,   \* a write was lost
  instance, \* what the provider runs for each order's providerKey
  calls,    \* the requests waiting for the provider
  crashed   \* the process was restarted

callVars == <<instance, calls, crashed>>
vars == <<orders, servers, faulty, instance, calls, crashed>>

Statuses == {"none", "pending", "paid", "provisioning", "active", "suspended",
             "terminated", "expired", "provisioning_failed"}

(* `info` and `error` say whether providerInfo and lastProvisionError are   *)
(* set; `period` where the present is relative to periodEndsAt.             *)
Order == [status   : Statuses,
          payment  : {"pending", "paid", "failed", "refunded"},
          payments : SUBSET [ref : Refs, status : {"paid", "failed"}],
          info     : BOOLEAN,
          error    : BOOLEAN,
          attempts : Nat,
          period   : {"none", "running", "over"}]

NewOrder == [status |-> "none", payment |-> "pending", payments |-> {},
             info |-> FALSE, error |-> FALSE, attempts |-> 0, period |-> "none"]

(* ORDER_TRANSITIONS.  No route asks for "cancelled".                       *)
Transitions ==
  {<<"paid", "provisioning">>, <<"provisioning", "active">>,
   <<"provisioning", "provisioning_failed">>, <<"provisioning", "terminated">>,
   <<"provisioning_failed", "provisioning">>, <<"provisioning_failed", "terminated">>,
   <<"active", "suspended">>, <<"active", "terminated">>, <<"active", "expired">>,
   <<"suspended", "active">>, <<"suspended", "terminated">>, <<"suspended", "expired">>,
   <<"expired", "terminated">>}

CanTransition(from, to) == <<from, to>> \in Transitions

Status(o) == orders[o].status

-----------------------------------------------------------------------------
Saves == IF WritesMayFail THEN BOOLEAN ELSE {TRUE}

(* _persist of an order, its result ignored.                                *)
Persist(o, order) ==
  \E saved \in Saves :
    /\ orders' = IF saved THEN [orders EXCEPT ![o] = order] ELSE orders
    /\ faulty' = (faulty \/ ~saved)

(* createOrder alone looks at the result: a failed write creates nothing.   *)
CreateOrder(o) ==
  /\ Status(o) = "none"
  /\ orders' = [orders EXCEPT ![o] = [NewOrder EXCEPT !.status = "pending"]]
  /\ UNCHANGED <<servers, faulty, callVars>>

(* Mutant: only the terminal statuses refuse a payment.                     *)
PayableUnlessEnded(order) == order.status \notin {"none", "terminated", "expired"}

(* An order takes payment results while it is pending and not yet paid.     *)
Payable(order) == order.payment # "paid" /\ order.status = "pending"

Recorded(order, ref) == \E entry \in order.payments : entry.ref = ref

(* Mutant: the entry is not settled when it is recorded.                    *)
WithPendingEntry(order, ref, status) ==
  [order EXCEPT !.payments = @ \cup {[ref |-> ref, status |-> "pending"]}]

WithEntry(order, ref, status) ==
  [order EXCEPT !.payments = @ \cup {[ref |-> ref, status |-> status]}]

(* applyPaymentResult: a callback with a reference the order knows changes  *)
(* nothing; a paid one whose amount is wrong is recorded as failed and      *)
(* leaves the payment status alone.                                         *)
ApplyPaymentResult(o, ref, result) ==
  LET order == orders[o]
  IN /\ Payable(order)
     /\ ~Recorded(order, ref)
     /\ \/ /\ result = "mismatch"
           /\ Persist(o, WithEntry(order, ref, "failed"))
        \/ /\ result = "failed"
           /\ Persist(o, [WithEntry(order, ref, "failed") EXCEPT !.payment = "failed"])
        \/ /\ result = "paid"
           /\ Persist(o, [WithEntry(order, ref, "paid") EXCEPT
                            !.payment = "paid", !.status = "paid", !.period = "running"])
     /\ UNCHANGED <<servers, callVars>>

(* applyRefund: ends the order whatever its status, without the provider.   *)
(* The payments entry it may add is never read again and left out.          *)
ApplyRefund(o) ==
  /\ orders[o].payment = "paid"
  /\ Persist(o, [orders[o] EXCEPT !.payment = "refunded", !.status = "terminated"])
  /\ UNCHANGED <<servers, callVars>>

(* Mutant: whatever was served once can be renewed.                         *)
RenewableOnceServed(order) == order.info

Renewable(order) == order.status \in {"active", "suspended"}

(* renewOrder never calls the provider, for a suspended order neither.      *)
RenewOrder(o) ==
  /\ Renewable(orders[o])
  /\ Persist(o, [orders[o] EXCEPT !.status = "active", !.period = "running"])
  /\ UNCHANGED <<servers, callVars>>

Due(o) == Status(o) \in {"active", "suspended"} /\ orders[o].period = "over"

(* The expiry sweep: every due order in one write of the document.          *)
ExpireDueOrders ==
  /\ \E o \in Orders : Due(o)
  /\ \E saved \in Saves :
       /\ orders' = IF saved
                    THEN [o \in Orders |-> IF Due(o) THEN [orders[o] EXCEPT !.status = "expired"]
                                                     ELSE orders[o]]
                    ELSE orders
       /\ faulty' = (faulty \/ ~saved)
  /\ UNCHANGED <<servers, callVars>>

(* The clock passes periodEndsAt.                                           *)
PeriodEnds(o) ==
  /\ orders[o].period = "running"
  /\ orders' = [orders EXCEPT ![o].period = "over"]
  /\ UNCHANGED <<servers, faulty, callVars>>

OrderStep ==
  \/ \E o \in Orders :
       \/ CreateOrder(o) \/ ApplyRefund(o) \/ RenewOrder(o) \/ PeriodEnds(o)
       \/ \E ref \in Refs, result \in {"paid", "failed", "mismatch"} :
            ApplyPaymentResult(o, ref, result)
  \/ ExpireDueOrders
=============================================================================
