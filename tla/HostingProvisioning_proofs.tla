--------------------- MODULE HostingProvisioning_proofs ---------------------
(***************************************************************************)
(* Proofs about HostingProvisioning: type correctness, the safety          *)
(* invariants of orders, payments and provider calls, and that game        *)
(* hosting implements Subscription.                                        *)
(***************************************************************************)
EXTENDS HostingProvisioning, TLAPS

-----------------------------------------------------------------------------
(* Type correctness.                                                        *)

LEMMA OrderFields ==
  ASSUME NEW order \in Order
  PROVE  /\ \A s \in Statuses : [order EXCEPT !.status = s] \in Order
         /\ \A s \in Statuses, p \in {"none", "running", "over"} :
              [order EXCEPT !.status = s, !.period = p] \in Order
         /\ \A s \in Statuses, p \in {"pending", "paid", "failed", "refunded"} :
              [order EXCEPT !.payment = p, !.status = s] \in Order
         /\ \A s \in Statuses, e \in BOOLEAN :
              [order EXCEPT !.status = s, !.error = e] \in Order
         /\ \A s \in Statuses, e \in BOOLEAN, n \in Nat :
              [order EXCEPT !.status = s, !.error = e, !.attempts = n] \in Order
         /\ \A s \in Statuses, e, i \in BOOLEAN, n \in Nat :
              [order EXCEPT !.status = s, !.info = i, !.error = e, !.attempts = n] \in Order
         /\ \A p \in {"none", "running", "over"} : [order EXCEPT !.period = p] \in Order
         /\ \A p \in {"pending", "paid", "failed", "refunded"} :
              [order EXCEPT !.payment = p] \in Order
         /\ \A s \in Statuses, q \in {"pending", "paid", "failed", "refunded"},
               p \in {"none", "running", "over"} :
              [order EXCEPT !.payment = q, !.status = s, !.period = p] \in Order
  BY DEF Order

LEMMA EntryType ==
  ASSUME NEW order \in Order, NEW ref \in Refs, NEW s \in {"paid", "failed"}
  PROVE  WithEntry(order, ref, s) \in Order
  BY DEF WithEntry, Order

LEMMA NewOrderType == NewOrder \in Order
  BY DEF Order, Statuses, NewOrder

LEMMA PersistType ==
  ASSUME TypeOK, NEW o \in Orders, NEW order \in Order, Persist(o, order)
  PROVE  orders' \in [Orders -> Order] /\ faulty' \in BOOLEAN
  BY HostingAssumption DEF Persist, Saves, TypeOK

LEMMA ReturnType ==
  ASSUME TypeOK, NEW c \in Calls, Return(c)
  PROVE  /\ calls' \in [Calls -> Call \cup {NoCall}]
         /\ instance' \in [Orders -> {"none", "active", "suspended", "terminated"}]
         /\ crashed' \in BOOLEAN
  BY DEF Return, TypeOK

LEMMA CallType ==
  ASSUME TypeOK, NEW c \in Calls, calls[c].pc # "idle"
  PROVE  /\ calls[c] \in Call
         /\ calls[c].order \in Orders /\ calls[c].attempt \in Nat
         /\ orders[calls[c].order] \in Order
  BY DEF TypeOK, Call, NoCall

LEMMA TransitionType ==
  ASSUME TypeOK, NEW c \in Calls, calls[c].pc # "idle",
         NEW order \in Order, Transition(c, order)
  PROVE  TypeOK'
<1>1. calls[c] \in Call /\ calls[c].order \in Orders
  BY CallType
<1>2. [calls[c] EXCEPT !.pc = "recording"] \in Call
  BY <1>1 DEF Call
<1>3. orders' \in [Orders -> Order] /\ faulty' \in BOOLEAN
  BY <1>1, PersistType DEF Transition
<1>4. calls' \in [Calls -> Call \cup {NoCall}]
  BY <1>2 DEF Transition, TypeOK
<1> QED
  BY <1>3, <1>4 DEF Transition, TypeOK

LEMMA SendType ==
  ASSUME TypeOK, NEW c \in Calls, NEW o \in Orders, NEW n \in Nat,
         NEW op \in {"provision", "suspend", "resume", "terminate"}, Send(c, op, o, n)
  PROVE  calls' \in [Calls -> Call \cup {NoCall}]
  BY DEF TypeOK, Send, Call

LEMMA TypeStep == TypeOK /\ [Next]_vars => TypeOK'
<1> SUFFICES ASSUME TypeOK, [Next]_vars PROVE TypeOK'
  OBVIOUS
<1> USE DEF Status
<1>0. \A o \in Orders : orders[o] \in Order /\ orders[o].attempts \in Nat
  BY DEF TypeOK, Order
<1>1. ASSUME NEW o \in Orders, CreateOrder(o) PROVE TypeOK'
  <2>1. [NewOrder EXCEPT !.status = "pending"] \in Order
    BY NewOrderType, OrderFields DEF Statuses
  <2> QED
    BY <1>1, <2>1 DEF CreateOrder, callVars, TypeOK
<1>2. ASSUME NEW o \in Orders, NEW ref \in Refs, NEW result \in {"paid", "failed", "mismatch"},
             ApplyPaymentResult(o, ref, result)
      PROVE TypeOK'
  <2>1. WithEntry(orders[o], ref, "failed") \in Order /\ WithEntry(orders[o], ref, "paid") \in Order
    BY <1>0, EntryType
  <2>2. /\ [WithEntry(orders[o], ref, "failed") EXCEPT !.payment = "failed"] \in Order
        /\ [WithEntry(orders[o], ref, "paid") EXCEPT
              !.payment = "paid", !.status = "paid", !.period = "running"] \in Order
    BY <2>1, OrderFields DEF Statuses
  <2> QED
    BY <1>2, <2>1, <2>2, PersistType DEF ApplyPaymentResult, callVars, TypeOK
<1>3. ASSUME NEW o \in Orders, ApplyRefund(o) PROVE TypeOK'
  <2>1. [orders[o] EXCEPT !.payment = "refunded", !.status = "terminated"] \in Order
    BY <1>0, OrderFields DEF Statuses
  <2> QED
    BY <1>3, <2>1, PersistType DEF ApplyRefund, callVars, TypeOK
<1>4. ASSUME NEW o \in Orders, RenewOrder(o) PROVE TypeOK'
  <2>1. [orders[o] EXCEPT !.status = "active", !.period = "running"] \in Order
    BY <1>0, OrderFields DEF Statuses
  <2> QED
    BY <1>4, <2>1, PersistType DEF RenewOrder, callVars, TypeOK
<1>5. CASE ExpireDueOrders
  <2>1. \A o \in Orders : [orders[o] EXCEPT !.status = "expired"] \in Order
    BY <1>0, OrderFields DEF Statuses
  <2> QED
    BY <1>5, <1>0, <2>1, HostingAssumption DEF ExpireDueOrders, Saves, callVars, TypeOK
<1>6. ASSUME NEW o \in Orders, PeriodEnds(o) PROVE TypeOK'
  <2>1. [orders[o] EXCEPT !.period = "over"] \in Order
    BY <1>0, OrderFields
  <2> QED
    BY <1>6, <2>1 DEF PeriodEnds, callVars, TypeOK
<1>7. ASSUME NEW c \in Calls, NEW o \in Orders, StartProvision(c, o) PROVE TypeOK'
  <2>1. [orders[o] EXCEPT !.status = "provisioning"] \in Order
    BY <1>0, OrderFields DEF Statuses
  <2>2. orders' \in [Orders -> Order] /\ faulty' \in BOOLEAN
    BY <1>7, <2>1, PersistType DEF StartProvision
  <2>3. calls' \in [Calls -> Call \cup {NoCall}]
    BY <1>7, <1>0, SendType DEF StartProvision
  <2> QED
    BY <1>7, <2>2, <2>3 DEF StartProvision, TypeOK
<1>8. ASSUME NEW c \in Calls, NEW o \in Orders,
             StartSuspend(c, o) \/ StartResume(c, o) \/ StartTerminate(c, o)
      PROVE TypeOK'
  BY <1>8, SendType DEF StartSuspend, StartResume, StartTerminate, TypeOK
<1>9. ASSUME NEW c \in Calls, ProviderActs(c) PROVE TypeOK'
  <2>1. calls[c] \in Call
    BY <1>9, CallType DEF ProviderActs
  <2>2. \A r \in {"ok", "breach", "error"} :
          [calls[c] EXCEPT !.pc = "answered", !.result = r] \in Call
    BY <2>1 DEF Call
  <2>3. calls' \in [Calls -> Call \cup {NoCall}]
    BY <1>9, <2>2 DEF ProviderActs, TypeOK
  <2>4. instance' \in [Orders -> {"none", "active", "suspended", "terminated"}]
    BY <1>9, <2>1 DEF ProviderActs, Effect, Call, TypeOK
  <2> QED
    BY <1>9, <2>3, <2>4 DEF ProviderActs, TypeOK
<1>10. ASSUME NEW c \in Calls, Activate(c) PROVE TypeOK'
  <2>1. calls[c].pc # "idle"
    BY <1>10 DEF Activate, Answered
  <2>2. [orders[calls[c].order] EXCEPT !.status = "active", !.info = TRUE, !.error = FALSE,
           !.attempts = calls[c].attempt] \in Order
    BY <2>1, CallType, OrderFields DEF Statuses
  <2> QED
    BY <1>10, <2>1, <2>2, TransitionType DEF Activate
<1>11. ASSUME NEW c \in Calls, ActivateRefused(c) \/ ProvisionFailed(c) PROVE TypeOK'
  <2>1. calls[c].pc # "idle"
    BY <1>11 DEF ActivateRefused, ProvisionFailed, Answered
  <2>2. /\ [orders[calls[c].order] EXCEPT !.status = "provisioning_failed", !.error = TRUE]
             \in Order
        /\ [orders[calls[c].order] EXCEPT !.status = "provisioning_failed", !.error = TRUE,
              !.attempts = calls[c].attempt] \in Order
    BY <2>1, CallType, OrderFields DEF Statuses
  <2>3. orders' \in [Orders -> Order] /\ faulty' \in BOOLEAN
    BY <1>11, <2>1, <2>2, CallType, PersistType DEF ActivateRefused, ProvisionFailed, TypeOK
  <2> QED
    BY <1>11, <2>3, ReturnType DEF ActivateRefused, ProvisionFailed, TypeOK
<1>12. ASSUME NEW c \in Calls, SuspendDone(c) \/ ResumeDone(c) \/ TerminateDone(c) PROVE TypeOK'
  <2> DEFINE o == calls[c].order
  <2>1. calls[c].pc # "idle"
    BY <1>12 DEF SuspendDone, ResumeDone, TerminateDone, Answered
  <2>2. o \in Orders /\ orders[o] \in Order
    BY <2>1, CallType
  <2>3. CASE ReturnUnchanged(c)
    BY <2>3, ReturnType DEF ReturnUnchanged, TypeOK
  <2>4. ASSUME NEW order \in Order, Transition(c, order) PROVE TypeOK'
    BY <2>1, <2>4, TransitionType
  <2>5. /\ [orders[o] EXCEPT !.status = "suspended"] \in Order
        /\ [orders[o] EXCEPT !.status = "active"] \in Order
        /\ [orders[o] EXCEPT !.status = "terminated", !.error = ~Succeeded(calls[c])] \in Order
    BY <2>2, OrderFields DEF Statuses, Succeeded
  <2> QED
    BY <1>12, <2>3, <2>4, <2>5 DEF SuspendDone, ResumeDone, TerminateDone
<1>13. CASE Crash
  <2>1. \A c \in Calls : calls[c].pc = "sent" => [calls[c] EXCEPT !.pc = "unheard"] \in Call
    BY CallType DEF Call
  <2> QED
    BY <1>13, <2>1 DEF Crash, TypeOK
<1>14. CASE UNCHANGED vars
  BY <1>14 DEF vars, TypeOK
<1>15. ASSUME NEW c \in Calls, Record(c) PROVE TypeOK'
  <2>1. /\ servers' \in [Orders -> {"none", "kept", "deleted"}]
        /\ faulty' \in BOOLEAN /\ orders' \in [Orders -> Order]
    BY <1>15, HostingAssumption DEF Record, Saves, TypeOK
  <2> QED
    BY <1>15, <2>1, ReturnType DEF Record, TypeOK
<1>16. ASSUME NEW o \in Orders, DeleteServer(o) PROVE TypeOK'
  BY <1>16 DEF DeleteServer, callVars, TypeOK
<1> QED
  BY <1>1, <1>2, <1>3, <1>4, <1>5, <1>6, <1>7, <1>8, <1>9, <1>10, <1>11, <1>12, <1>13, <1>14,
     <1>15, <1>16
  DEF Next, OrderStep, Start, Finish

-----------------------------------------------------------------------------
(* How one step changes the fields of an order that the invariants are      *)
(* about.                                                                   *)

Kept(o) ==
  /\ orders'[o].payment = orders[o].payment
  /\ orders'[o].payments = orders[o].payments

Same(o) == Status(o)' = Status(o) /\ Kept(o) /\ orders'[o].info = orders[o].info

Advanced(o) ==
  /\ CanTransition(Status(o), Status(o)')
  /\ Kept(o)
  /\ orders[o].info => orders'[o].info
  /\ Status(o) = "provisioning" /\ Status(o)' = "active" =>
       orders'[o].info /\ instance[o] # "none" /\ \E c \in Calls : Recording(c, o)'

Created(o) ==
  /\ Status(o) = "none" /\ Status(o)' = "pending"
  /\ orders'[o].payment = "pending" /\ orders'[o].payments = {}

Declined(o) ==
  /\ Payable(orders[o]) /\ Status(o)' = Status(o)
  /\ orders'[o].payment \in {orders[o].payment, "failed"}
  /\ \E ref \in Refs :
       orders'[o].payments = orders[o].payments \cup {[ref |-> ref, status |-> "failed"]}

Paid(o) ==
  /\ Payable(orders[o]) /\ Status(o)' = "paid"
  /\ orders'[o].payment = "paid"
  /\ \E ref \in Refs :
       orders'[o].payments = orders[o].payments \cup {[ref |-> ref, status |-> "paid"]}

Refunded(o) ==
  /\ orders[o].payment = "paid"
  /\ orders'[o].payment = "refunded" /\ orders'[o].payments = orders[o].payments
  /\ Status(o)' = "terminated"

Move(o) ==
  Same(o) \/ Advanced(o) \/ Created(o) \/ Declined(o) \/ Paid(o) \/ Refunded(o)

Alone(o) == \A p \in Orders \ {o} : orders'[p] = orders[p]

LEMMA PersistMoves ==
  ASSUME TypeOK, NEW o \in Orders, NEW order \in Order, Persist(o, order)
  PROVE  Alone(o) /\ (orders'[o] = order \/ orders'[o] = orders[o])
  BY HostingAssumption DEF Persist, Saves, TypeOK, Alone

LEMMA OnlyItsOrder ==
  ASSUME TypeOK, NEW o \in Orders, NEW order, Persist(o, order)
  PROVE  Alone(o)
  BY DEF Persist, Saves, TypeOK, Alone

(* Every step moves at most one order, but for the sweep, which moves every *)
(* due order along the transition table.                                    *)
LEMMA StepMoves ==
  ASSUME TypeOK, AnswersAreReal, ServedBeforeSuspend, [Next]_vars
  PROVE  \/ orders' = orders
         \/ ExpireDueOrders
         \/ \E o \in Orders : Move(o) /\ Alone(o)
<1> DEFINE Goal == \/ orders' = orders
                   \/ ExpireDueOrders
                   \/ \E o \in Orders : Move(o) /\ Alone(o)
<1> SUFFICES Goal
  OBVIOUS
<1> USE DEF Status
<1>0. \A o \in Orders : orders[o] \in Order
  BY DEF TypeOK
<1>a. ASSUME NEW o \in Orders, orders'[o] = orders[o] PROVE Move(o)
  BY <1>a DEF Move, Same, Kept
<1>1. ASSUME NEW o \in Orders, CreateOrder(o) PROVE Goal
  <2>1. Alone(o) /\ orders'[o] = [NewOrder EXCEPT !.status = "pending"]
    BY <1>1 DEF CreateOrder, Alone, TypeOK
  <2>2. Created(o)
    BY <1>1, <2>1 DEF CreateOrder, Created, NewOrder
  <2> QED
    BY <2>1, <2>2 DEF Move
<1>2. ASSUME NEW o \in Orders, NEW ref \in Refs, NEW result \in {"paid", "failed", "mismatch"},
             ApplyPaymentResult(o, ref, result)
      PROVE Goal
  <2> DEFINE declined == WithEntry(orders[o], ref, "failed")
             failed == [declined EXCEPT !.payment = "failed"]
             paid == [WithEntry(orders[o], ref, "paid") EXCEPT
                        !.payment = "paid", !.status = "paid", !.period = "running"]
  <2>1. declined \in Order /\ WithEntry(orders[o], ref, "paid") \in Order
    BY <1>0, EntryType
  <2>2. failed \in Order /\ paid \in Order
    BY <2>1, OrderFields DEF Statuses
  <2>3. Persist(o, declined) \/ Persist(o, failed) \/ Persist(o, paid)
    BY <1>2 DEF ApplyPaymentResult
  <2>4. Alone(o) /\ orders'[o] \in {orders[o], declined, failed, paid}
    BY <2>1, <2>2, <2>3, PersistMoves
  <2>5. orders[o] \in Order /\ Payable(orders[o])
    BY <1>0, <1>2 DEF ApplyPaymentResult
  <2>6. orders'[o] \in {declined, failed} => Declined(o)
    BY <2>5 DEF Declined, WithEntry, Order
  <2>7. orders'[o] = paid => Paid(o)
    BY <2>5 DEF Paid, WithEntry, Order
  <2> QED
    BY <1>a, <2>4, <2>6, <2>7 DEF Move
<1>3. ASSUME NEW o \in Orders, ApplyRefund(o) PROVE Goal
  <2> DEFINE refunded == [orders[o] EXCEPT !.payment = "refunded", !.status = "terminated"]
  <2>1. refunded \in Order
    BY <1>0, OrderFields DEF Statuses
  <2>2. Alone(o) /\ (orders'[o] = refunded \/ orders'[o] = orders[o])
    BY <1>3, <2>1, PersistMoves DEF ApplyRefund
  <2>3. orders'[o] = refunded => Refunded(o)
    BY <1>0, <1>3 DEF ApplyRefund, Refunded, Order
  <2> QED
    BY <1>a, <2>2, <2>3 DEF Move
<1>4. ASSUME NEW o \in Orders, RenewOrder(o) PROVE Goal
  <2> DEFINE renewed == [orders[o] EXCEPT !.status = "active", !.period = "running"]
  <2>1. renewed \in Order
    BY <1>0, OrderFields DEF Statuses
  <2>2. Alone(o) /\ (orders'[o] = renewed \/ orders'[o] = orders[o])
    BY <1>4, <2>1, PersistMoves DEF RenewOrder
  <2>3. Status(o) \in {"active", "suspended"}
    BY <1>4 DEF RenewOrder, Renewable
  <2>4. orders'[o] = renewed => Same(o) \/ Advanced(o)
    BY <1>0, <2>3 DEF Same, Advanced, Kept, Order, CanTransition, Transitions
  <2> QED
    BY <1>a, <2>2, <2>4 DEF Move
<1>5. ASSUME NEW o \in Orders, PeriodEnds(o) PROVE Goal
  <2>1. Alone(o) /\ orders'[o] = [orders[o] EXCEPT !.period = "over"]
    BY <1>5 DEF PeriodEnds, Alone, TypeOK
  <2>2. Same(o)
    BY <1>0, <2>1 DEF Same, Kept, Order
  <2> QED
    BY <2>1, <2>2 DEF Move
<1>6. ASSUME NEW c \in Calls, NEW o \in Orders, StartProvision(c, o) PROVE Goal
  <2> DEFINE started == [orders[o] EXCEPT !.status = "provisioning"]
  <2>1. started \in Order
    BY <1>0, OrderFields DEF Statuses
  <2>2. Alone(o) /\ (orders'[o] = started \/ orders'[o] = orders[o])
    BY <1>6, <2>1, PersistMoves DEF StartProvision
  <2>3. orders'[o] = started => Advanced(o)
    BY <1>0, <1>6 DEF StartProvision, ReadyToProvision, Advanced, Kept, Order
  <2> QED
    BY <1>a, <2>2, <2>3 DEF Move
<1>7. ASSUME NEW c \in Calls, Activate(c) PROVE Goal
  <2>1. calls[c].pc # "idle" /\ Answered(c, "provision") /\ Succeeded(calls[c])
    BY <1>7 DEF Activate, Answered
  <2>0. PICK o \in Orders : o = calls[c].order
    BY <2>1, CallType
  <2> DEFINE active == [orders[o] EXCEPT !.status = "active", !.info = TRUE, !.error = FALSE,
                                         !.attempts = calls[c].attempt]
  <2>2. o \in Orders /\ orders[o] \in Order /\ active \in Order
    BY <2>0, <2>1, CallType, OrderFields DEF Statuses
  <2>3. /\ Alone(o)
        /\ orders'[o] = active \/ orders'[o] = orders[o]
    BY <1>7, <2>0, <2>2, PersistMoves DEF Activate, Transition
  <2>4. instance[o] # "none"
    BY <2>0, <2>1 DEF AnswersAreReal
  <2>5. Recording(c, o)'
    <3>1. calls'[c] = [calls[c] EXCEPT !.pc = "recording"] /\ calls[c] \in Call
      BY <1>7, <2>1, CallType DEF Activate, Transition, TypeOK
    <3> QED
      BY <2>0, <2>1, <3>1 DEF Recording, Answered, Call
  <2>6. orders'[o] = active => Advanced(o)
    BY <1>7, <2>0, <2>2, <2>4, <2>5 DEF Activate, Advanced, Kept, Order
  <2> QED
    BY <1>a, <2>2, <2>3, <2>6 DEF Move
<1>8. ASSUME NEW c \in Calls, ActivateRefused(c) \/ ProvisionFailed(c) PROVE Goal
  <2>1. calls[c].pc # "idle"
    BY <1>8 DEF ActivateRefused, ProvisionFailed, Answered
  <2>0. PICK o \in Orders : o = calls[c].order
    BY <2>1, CallType
  <2> DEFINE kept == [orders[o] EXCEPT !.status = "provisioning_failed", !.error = TRUE]
             failed == [orders[o] EXCEPT !.status = "provisioning_failed", !.error = TRUE,
                                         !.attempts = calls[c].attempt]
  <2>2. o \in Orders /\ orders[o] \in Order /\ kept \in Order /\ failed \in Order
    BY <2>0, <2>1, CallType, OrderFields DEF Statuses
  <2>3. CASE UNCHANGED orders
    BY <2>3
  <2>4. CASE /\ CanTransition(Status(o), "provisioning_failed")
             /\ Persist(o, kept) \/ Persist(o, failed)
    <3>1. Alone(o) /\ orders'[o] \in {orders[o], kept, failed}
      BY <2>2, <2>4, PersistMoves
    <3>2. orders'[o] \in {kept, failed} => Advanced(o)
      BY <2>2, <2>4 DEF Advanced, Kept, Order
    <3> QED
      BY <1>a, <2>2, <3>1, <3>2 DEF Move
  <2> QED
    BY <1>8, <2>0, <2>3, <2>4 DEF ActivateRefused, ProvisionFailed
<1>9. ASSUME NEW c \in Calls, SuspendDone(c) \/ ResumeDone(c) \/ TerminateDone(c) PROVE Goal
  <2>1. calls[c].pc # "idle"
    BY <1>9 DEF SuspendDone, ResumeDone, TerminateDone, Answered
  <2>0. PICK o \in Orders : o = calls[c].order
    BY <2>1, CallType
  <2> DEFINE suspended == [orders[o] EXCEPT !.status = "suspended"]
             active == [orders[o] EXCEPT !.status = "active"]
             terminated == [orders[o] EXCEPT !.status = "terminated",
                                             !.error = ~Succeeded(calls[c])]
  <2>2. /\ o \in Orders /\ orders[o] \in Order
        /\ suspended \in Order /\ active \in Order /\ terminated \in Order
    BY <2>0, <2>1, CallType, OrderFields DEF Statuses, Succeeded
  <2>3. CASE UNCHANGED orders
    BY <2>3
  <2>4. CASE SuspendDone(c) /\ ~UNCHANGED orders
    <3>1. CanTransition(Status(o), "suspended") /\ Persist(o, suspended)
      BY <2>0, <2>4 DEF SuspendDone, ReturnUnchanged, Transition
    <3>2. Alone(o) /\ (orders'[o] = suspended \/ orders'[o] = orders[o])
      BY <2>2, <3>1, PersistMoves
    <3>3. orders'[o] = suspended => Advanced(o)
      BY <2>2, <3>1 DEF Advanced, Kept, Order
    <3> QED
      BY <1>a, <2>2, <3>2, <3>3 DEF Move
  <2>5. CASE ResumeDone(c) /\ ~UNCHANGED orders
    <3>1. CanTransition(Status(o), "active") /\ Persist(o, active)
      BY <2>0, <2>5 DEF ResumeDone, ReturnUnchanged, Transition
    <3>2. Alone(o) /\ (orders'[o] = active \/ orders'[o] = orders[o])
      BY <2>2, <3>1, PersistMoves
    <3>3. Status(o) # "provisioning"
      BY <2>0, <2>5 DEF ResumeDone, Answered, ServedBeforeSuspend, NoCall
    <3>4. orders'[o] = active => Advanced(o)
      BY <2>2, <3>1, <3>3 DEF Advanced, Kept, Order
    <3> QED
      BY <1>a, <2>2, <3>2, <3>4 DEF Move
  <2>6. CASE TerminateDone(c) /\ ~UNCHANGED orders
    <3>1. CanTransition(Status(o), "terminated") /\ Persist(o, terminated)
      BY <2>0, <2>6 DEF TerminateDone, ReturnUnchanged, Transition
    <3>2. Alone(o) /\ (orders'[o] = terminated \/ orders'[o] = orders[o])
      BY <2>2, <3>1, PersistMoves
    <3>3. orders'[o] = terminated => Advanced(o)
      BY <2>2, <3>1 DEF Advanced, Kept, Order
    <3> QED
      BY <1>a, <2>2, <3>2, <3>3 DEF Move
  <2> QED
    BY <1>9, <2>3, <2>4, <2>5, <2>6
<1>10. ASSUME NEW c \in Calls, NEW o \in Orders,
              StartSuspend(c, o) \/ StartResume(c, o) \/ StartTerminate(c, o)
       PROVE Goal
  BY <1>10 DEF StartSuspend, StartResume, StartTerminate
<1>11. ASSUME NEW c \in Calls, ProviderActs(c) PROVE Goal
  BY <1>11 DEF ProviderActs
<1>12. CASE Crash
  BY <1>12 DEF Crash
<1>13. CASE UNCHANGED vars
  BY <1>13 DEF vars
<1>14. ASSUME NEW c \in Calls, Record(c) PROVE Goal
  BY <1>14 DEF Record
<1>15. ASSUME NEW o \in Orders, DeleteServer(o) PROVE Goal
  BY <1>15 DEF DeleteServer
<1> QED
  BY <1>1, <1>2, <1>3, <1>4, <1>5, <1>6, <1>7, <1>8, <1>9, <1>10, <1>11, <1>12, <1>13, <1>14,
     <1>15
  DEF Next, OrderStep, Start, Finish

LEMMA SweepMoves ==
  ASSUME TypeOK, ExpireDueOrders
  PROVE  \A o \in Orders : /\ Move(o)
                           /\ Status(o)' = Status(o) \/ (Due(o) /\ Status(o)' = "expired")
<1> SUFFICES ASSUME NEW o \in Orders
             PROVE  /\ Move(o)
                    /\ Status(o)' = Status(o) \/ (Due(o) /\ Status(o)' = "expired")
  OBVIOUS
<1>1. orders[o] \in Order
  BY DEF TypeOK
<1>2. \/ orders'[o] = orders[o]
      \/ Due(o) /\ orders'[o] = [orders[o] EXCEPT !.status = "expired"]
  BY DEF ExpireDueOrders
<1>3. CASE orders'[o] = orders[o]
  BY <1>3 DEF Move, Same, Kept, Status
<1>4. CASE Due(o) /\ orders'[o] = [orders[o] EXCEPT !.status = "expired"]
  BY <1>1, <1>4 DEF Due, Move, Advanced, Kept, Status, CanTransition, Transitions, Order
<1> QED
  BY <1>2, <1>3, <1>4

LEMMA AllMove ==
  ASSUME TypeOK, AnswersAreReal, ServedBeforeSuspend, [Next]_vars
  PROVE  \A o \in Orders : Move(o)
<1>1. CASE ExpireDueOrders
  BY <1>1, SweepMoves
<1>2. ASSUME NEW o \in Orders, Move(o), Alone(o) PROVE \A p \in Orders : Move(p)
  BY <1>2 DEF Alone, Move, Same, Kept, Status
<1>3. CASE orders' = orders
  BY <1>3 DEF Move, Same, Kept, Status
<1> QED
  BY <1>1, <1>2, <1>3, StepMoves

(* What exists at the provider and in the server store stays known.         *)
LEMMA NothingForgotten ==
  ASSUME TypeOK, [Next]_vars
  PROVE  /\ faulty => faulty'
         /\ crashed => crashed'
         /\ \A o \in Orders : /\ instance[o] # "none" => instance'[o] # "none"
                              /\ servers[o] # "none" => servers'[o] # "none"
<1> DEFINE Goal == /\ faulty => faulty'
                   /\ crashed => crashed'
                   /\ \A o \in Orders : /\ instance[o] # "none" => instance'[o] # "none"
                                        /\ servers[o] # "none" => servers'[o] # "none"
<1>1. ASSUME NEW o \in Orders, NEW order, Persist(o, order), UNCHANGED <<instance, servers, crashed>>
      PROVE Goal
  BY <1>1 DEF Persist, TypeOK
<1>2. ASSUME NEW c \in Calls, NEW order, Transition(c, order) PROVE Goal
  BY <1>2 DEF Transition, Persist, TypeOK
<1>3. CASE OrderStep
  BY <1>1, <1>3 DEF OrderStep, CreateOrder, ApplyPaymentResult, ApplyRefund, RenewOrder,
                    PeriodEnds, ExpireDueOrders, callVars, TypeOK
<1>4. ASSUME NEW c \in Calls, NEW o \in Orders, Start(c, o) PROVE Goal
  BY <1>1, <1>4 DEF Start, StartProvision, StartSuspend, StartResume, StartTerminate
<1>5. ASSUME NEW c \in Calls, ProviderActs(c) PROVE Goal
  <2>1. calls[c] \in Call
    BY <1>5, CallType DEF ProviderActs
  <2>2. calls[c].op \in {"provision", "suspend", "resume", "terminate"}
    BY <2>1 DEF Call
  <2>3. \A state \in {"none", "active", "suspended", "terminated"} :
          state # "none" => Effect(calls[c].op, state) # "none"
    BY <2>2 DEF Effect
  <2> QED
    BY <1>5, <2>3 DEF ProviderActs, TypeOK
<1>6. ASSUME NEW c \in Calls, Activate(c) PROVE Goal
  BY <1>2, <1>6 DEF Activate
<1>7. ASSUME NEW c \in Calls, ActivateRefused(c) \/ ProvisionFailed(c) PROVE Goal
  <2>1. calls[c].pc # "idle"
    BY <1>7 DEF ActivateRefused, ProvisionFailed, Answered
  <2>2. calls[c].order \in Orders
    BY <2>1, CallType
  <2> QED
    BY <1>1, <1>7, <2>2 DEF ActivateRefused, ProvisionFailed, Return
<1>8. ASSUME NEW c \in Calls, SuspendDone(c) \/ ResumeDone(c) \/ TerminateDone(c) PROVE Goal
  BY <1>2, <1>8 DEF SuspendDone, ResumeDone, TerminateDone, Return, ReturnUnchanged
<1>9. CASE Crash
  BY <1>9 DEF Crash
<1>10. CASE UNCHANGED vars
  BY <1>10 DEF vars
<1>11. ASSUME NEW c \in Calls, Record(c) PROVE Goal
  BY <1>11 DEF Record, Return, TypeOK
<1>12. ASSUME NEW o \in Orders, DeleteServer(o) PROVE Goal
  BY <1>12 DEF DeleteServer, callVars, TypeOK
<1> QED
  BY <1>3, <1>4, <1>5, <1>6, <1>7, <1>8, <1>9, <1>10, <1>11, <1>12 DEF Next, Finish

(* An answered request returns or goes on to the server record.             *)
LEMMA EndOrRecord ==
  ASSUME NEW c \in Calls, Finish(c)
  PROVE  Return(c) \/ \E order : Transition(c, order)
<1>1. CASE Activate(c)
  BY <1>1 DEF Activate
<1>2. CASE ActivateRefused(c) \/ ProvisionFailed(c) \/ Record(c)
  BY <1>2 DEF ActivateRefused, ProvisionFailed, Record
<1>3. CASE SuspendDone(c)
  BY <1>3 DEF SuspendDone, ReturnUnchanged
<1>4. CASE ResumeDone(c)
  BY <1>4 DEF ResumeDone, ReturnUnchanged
<1>5. CASE TerminateDone(c)
  BY <1>5 DEF TerminateDone, ReturnUnchanged
<1> QED
  BY <1>1, <1>2, <1>3, <1>4, <1>5 DEF Finish

-----------------------------------------------------------------------------
(* Payments.                                                                *)

LEMMA PaymentStep ==
  ASSUME TypeOK, UnpaidUntilPaid, PaidOnce, \A o \in Orders : Move(o)
  PROVE  UnpaidUntilPaid' /\ PaidOnce'
<1>1. SUFFICES ASSUME NEW o \in Orders
               PROVE  LET paid == {entry \in orders'[o].payments : entry.status = "paid"}
                      IN /\ \A e, f \in paid : e = f
                         /\ orders'[o].payment \in {"paid", "refunded"} <=> paid # {}
                         /\ Status(o)' \notin {"none", "pending"} => paid # {}
                         /\ Status(o)' \in {"none", "pending"} =>
                              orders'[o].payment \in {"pending", "failed"}
  BY DEF UnpaidUntilPaid, PaidOnce
<1> DEFINE paid == {entry \in orders[o].payments : entry.status = "paid"}
<1>2. /\ \A e, f \in paid : e = f
      /\ orders[o].payment \in {"paid", "refunded"} <=> paid # {}
      /\ Status(o) \notin {"none", "pending"} => paid # {}
      /\ Status(o) \in {"none", "pending"} => orders[o].payment \in {"pending", "failed"}
  BY DEF UnpaidUntilPaid, PaidOnce
<1>3. orders[o] \in Order
  BY DEF TypeOK
<1>4. CASE Same(o)
  BY <1>2, <1>4 DEF Same, Kept
<1>5. CASE Advanced(o)
  BY <1>2, <1>5 DEF Advanced, Kept, CanTransition, Transitions
<1>6. CASE Created(o)
  BY <1>6 DEF Created
<1>7. CASE Declined(o)
  <2>1. {entry \in orders'[o].payments : entry.status = "paid"} = paid
    BY <1>7 DEF Declined
  <2> QED
    BY <1>2, <1>7, <2>1 DEF Declined, Payable, Status
<1>8. CASE Paid(o)
  <2>1. PICK ref \in Refs :
          orders'[o].payments = orders[o].payments \cup {[ref |-> ref, status |-> "paid"]}
    BY <1>8 DEF Paid
  <2>2. paid = {}
    BY <1>2, <1>8 DEF Paid, Payable, Status
  <2>3. {entry \in orders'[o].payments : entry.status = "paid"}
          = {[ref |-> ref, status |-> "paid"]}
    BY <2>1, <2>2
  <2> QED
    BY <1>8, <2>3 DEF Paid
<1>9. CASE Refunded(o)
  BY <1>2, <1>9 DEF Refunded
<1> QED
  BY <1>4, <1>5, <1>6, <1>7, <1>8, <1>9 DEF Move

-----------------------------------------------------------------------------
(* Served orders.                                                           *)

(* A request that activated its order goes on to the server record.         *)
LEMMA RecordComes ==
  ASSUME TypeOK, [Next]_vars, NEW c \in Calls, NEW o \in Orders, Recording(c, o)
  PROVE  Recording(c, o)' \/ servers'[o] # "none" \/ faulty' \/ crashed'
<1>1. calls'[c] = calls[c] => Recording(c, o)'
  BY DEF Recording
<1>2. calls[c].pc = "recording"
  BY DEF Recording
<1>3. CASE OrderStep \/ UNCHANGED vars \/ \E p \in Orders : DeleteServer(p)
  BY <1>1, <1>3 DEF OrderStep, CreateOrder, ApplyPaymentResult, ApplyRefund, RenewOrder,
                    PeriodEnds, ExpireDueOrders, DeleteServer, callVars, vars
<1>4. ASSUME NEW d \in Calls, NEW p \in Orders, Start(d, p) PROVE calls'[c] = calls[c]
  BY <1>2, <1>4 DEF Start, StartProvision, StartSuspend, StartResume, StartTerminate, Send,
                    NoCall, TypeOK
<1>5. ASSUME NEW d \in Calls, ProviderActs(d) PROVE calls'[c] = calls[c]
  BY <1>2, <1>5 DEF ProviderActs, TypeOK
<1>6. ASSUME NEW d \in Calls, Finish(d), c # d \/ ~Record(d) PROVE calls'[c] = calls[c]
  <2>1. c # d
    BY <1>2, <1>6 DEF Finish, Activate, ActivateRefused, ProvisionFailed, SuspendDone,
                      ResumeDone, TerminateDone, Answered
  <2>2. Return(d) \/ \E order : Transition(d, order)
    BY <1>6, EndOrRecord
  <2> QED
    BY <2>1, <2>2 DEF Return, Transition, TypeOK
<1>7. CASE Record(c)
  <2>1. Records(c) /\ calls[c].order = o
    BY DEF Records, Recording
  <2> QED
    BY <1>7, <2>1 DEF Record, TypeOK
<1>8. CASE Crash
  BY <1>8 DEF Crash
<1> QED
  BY <1>1, <1>3, <1>4, <1>5, <1>6, <1>7, <1>8 DEF Next

LEMMA ActiveStep ==
  ASSUME TypeOK, ActiveIsProvisioned, [Next]_vars, \A o \in Orders : Move(o)
  PROVE  ActiveIsProvisioned'
<1> SUFFICES ASSUME NEW o \in Orders, Status(o)' \in {"active", "suspended", "expired"}
             PROVE  /\ orders'[o].info
                    /\ instance'[o] # "none"
                    /\ \/ faulty' \/ crashed' \/ servers'[o] # "none"
                       \/ \E c \in Calls : Recording(c, o)'
  BY DEF ActiveIsProvisioned
<1>1. CASE Status(o) \in {"active", "suspended", "expired"}
  <2>1. /\ orders[o].info /\ instance[o] # "none"
        /\ faulty \/ crashed \/ servers[o] # "none" \/ \E c \in Calls : Recording(c, o)
    BY <1>1 DEF ActiveIsProvisioned
  <2>2. /\ instance'[o] # "none"
        /\ \/ faulty' \/ crashed' \/ servers'[o] # "none"
           \/ \E c \in Calls : Recording(c, o)'
    BY <2>1, NothingForgotten, RecordComes
  <2>3. orders'[o].info
    BY <1>1, <2>1 DEF Move, Same, Advanced, Created, Declined, Paid, Refunded, Payable, Status
  <2> QED
    BY <2>2, <2>3
<1>2. CASE Status(o) \notin {"active", "suspended", "expired"}
  <2>1. Advanced(o) /\ Status(o) = "provisioning" /\ Status(o)' = "active"
    BY <1>2 DEF Move, Same, Advanced, Created, Declined, Paid, Refunded, Payable, Status,
                CanTransition, Transitions
  <2> QED
    BY <2>1, NothingForgotten DEF Advanced
<1> QED
  BY <1>1, <1>2

-----------------------------------------------------------------------------
(* Provider calls.                                                          *)

(* How one step changes the calls.                                          *)
Begun(c) ==
  /\ calls[c] = NoCall
  /\ calls'[c].pc = "sent" /\ calls'[c].order \in Orders
  /\ calls'[c].op = "provision" => ReadyToProvision(Status(calls'[c].order))
  /\ calls'[c].op = "suspend" => Status(calls'[c].order) = "active"
  /\ calls'[c].op = "resume" => Status(calls'[c].order) = "suspended"

Continued(c) ==
  /\ calls[c] # NoCall
  /\ calls'[c].op = calls[c].op /\ calls'[c].order = calls[c].order
  /\ calls'[c].pc = "answered" => calls[c].pc \in {"sent", "answered"}
  /\ calls'[c].pc = "answered" /\ calls'[c].result = "ok" /\ calls'[c].op = "provision" =>
       instance'[calls[c].order] # "none"

CallMove(c) == calls'[c] = NoCall \/ Begun(c) \/ Continued(c)

LEMMA CallMoves ==
  ASSUME TypeOK, AnswersAreReal, [Next]_vars
  PROVE  \A c \in Calls : CallMove(c)
<1> SUFFICES ASSUME NEW c \in Calls PROVE CallMove(c)
  OBVIOUS
<1>1. ASSUME calls'[c] = calls[c] PROVE CallMove(c)
  <2>1. CASE Answered(c, "provision") /\ Succeeded(calls[c])
    <3>1. instance[calls[c].order] # "none" /\ calls[c].order \in Orders
      BY <2>1, CallType DEF AnswersAreReal, Answered
    <3> QED
      BY <1>1, <3>1, NothingForgotten DEF CallMove, Continued
  <2>2. CASE ~(Answered(c, "provision") /\ Succeeded(calls[c]))
    BY <1>1, <2>2 DEF CallMove, Continued, Answered, Succeeded
  <2> QED
    BY <2>1, <2>2
<1>2. CASE UNCHANGED calls
  BY <1>1, <1>2
<1>3. ASSUME NEW d \in Calls, NEW o \in Orders, Start(d, o) PROVE CallMove(c)
  <2>1. CASE c = d
    <3>1. calls[c] = NoCall
      BY <1>3, <2>1 DEF Start, StartProvision, StartSuspend, StartResume, StartTerminate, Send
    <3>2. calls'[c].pc = "sent" /\ calls'[c].order = o
      BY <1>3, <2>1 DEF Start, StartProvision, StartSuspend, StartResume, StartTerminate, Send,
                        TypeOK
    <3>3. /\ calls'[c].op = "provision" => ReadyToProvision(Status(o))
          /\ calls'[c].op = "suspend" => Status(o) = "active"
          /\ calls'[c].op = "resume" => Status(o) = "suspended"
      BY <1>3, <2>1 DEF Start, StartProvision, StartSuspend, StartResume, StartTerminate, Send,
                        TypeOK
    <3> QED
      BY <3>1, <3>2, <3>3 DEF CallMove, Begun
  <2>2. CASE c # d
    BY <1>1, <1>3, <2>2 DEF Start, StartProvision, StartSuspend, StartResume, StartTerminate,
                            Send, TypeOK
  <2> QED
    BY <2>1, <2>2
<1>4. ASSUME NEW d \in Calls, ProviderActs(d) PROVE CallMove(c)
  <2>1. CASE c # d
    BY <1>1, <1>4, <2>1 DEF ProviderActs, TypeOK
  <2>2. CASE c = d
    <3>1. calls[c] \in Call /\ calls[c].order \in Orders /\ calls[c] # NoCall
      BY <1>4, <2>2, CallType DEF ProviderActs, NoCall
    <3>2. PICK result \in {"ok", "breach", "error"}, acted \in BOOLEAN :
            /\ result = "ok" => acted
            /\ instance' = IF acted
                           THEN [instance EXCEPT ![calls[c].order] = Effect(calls[c].op, @)]
                           ELSE instance
            /\ calls' = [calls EXCEPT ![c] =
                           IF @.pc = "sent" THEN [@ EXCEPT !.pc = "answered", !.result = result]
                                            ELSE NoCall]
      BY <1>4, <2>2 DEF ProviderActs
    <3>3. CASE calls[c].pc = "sent"
      <4>1. calls'[c] = [calls[c] EXCEPT !.pc = "answered", !.result = result]
        BY <3>2, <3>3 DEF TypeOK
      <4>2. /\ calls'[c].op = calls[c].op /\ calls'[c].order = calls[c].order
            /\ calls'[c].result = result
        BY <3>1, <4>1 DEF Call
      <4>3. calls[c].op = "provision" /\ result = "ok" => instance'[calls[c].order] # "none"
        <5> SUFFICES ASSUME calls[c].op = "provision", result = "ok"
                     PROVE  instance'[calls[c].order] # "none"
          OBVIOUS
        <5>1. \A state : Effect("provision", state) # "none"
          BY DEF Effect
        <5>2. acted
          BY <3>2
        <5>3. instance' = [instance EXCEPT ![calls[c].order] = Effect(calls[c].op, @)]
          BY <3>2, <5>2, Zenon
        <5> QED
          BY <3>1, <5>1, <5>3 DEF TypeOK
      <4>4. calls[c] # NoCall
        BY <3>1
      <4>5. Continued(c)
        BY <3>3, <4>2, <4>3, <4>4 DEF Continued
      <4> QED
        BY <4>5 DEF CallMove
    <3>4. CASE calls[c].pc # "sent"
      BY <3>2, <3>4 DEF CallMove, TypeOK
    <3> QED
      BY <3>3, <3>4
  <2> QED
    BY <2>1, <2>2
<1>5. ASSUME NEW d \in Calls, Return(d) PROVE CallMove(c)
  <2>1. CASE c = d
    BY <1>5, <2>1 DEF Return, CallMove, TypeOK
  <2>2. CASE c # d
    BY <1>1, <1>5, <2>2 DEF Return, TypeOK
  <2> QED
    BY <2>1, <2>2
<1>6. ASSUME NEW d \in Calls, Finish(d), NEW order, Transition(d, order) PROVE CallMove(c)
  <2>1. CASE c = d
    <3>1. calls[c].pc # "idle"
      BY <1>6, <2>1 DEF Finish, Activate, ActivateRefused, ProvisionFailed, SuspendDone,
                        ResumeDone, TerminateDone, Record, Answered
    <3>2. calls'[c] = [calls[c] EXCEPT !.pc = "recording"] /\ calls[c] \in Call
      BY <1>6, <2>1, <3>1, CallType DEF Transition, TypeOK
    <3> QED
      BY <3>1, <3>2 DEF CallMove, Continued, Call, NoCall
  <2>2. CASE c # d
    BY <1>1, <1>6, <2>2 DEF Transition, TypeOK
  <2> QED
    BY <2>1, <2>2
<1>7. CASE Crash
  <2>1. CASE calls[c].pc = "sent"
    <3>1. calls'[c] = [calls[c] EXCEPT !.pc = "unheard"] /\ calls[c] \in Call
      BY <1>7, <2>1, CallType DEF Crash
    <3> QED
      BY <2>1, <3>1 DEF CallMove, Continued, Call, NoCall
  <2>2. CASE calls[c].pc \in {"answered", "recording"}
    BY <1>7, <2>2 DEF Crash, CallMove
  <2>3. CASE calls[c].pc \notin {"sent", "answered", "recording"}
    BY <1>1, <1>7, <2>3 DEF Crash
  <2> QED
    BY <2>1, <2>2, <2>3
<1>8. OrderStep => UNCHANGED calls
  BY DEF OrderStep, CreateOrder, ApplyPaymentResult, ApplyRefund, RenewOrder, PeriodEnds,
         ExpireDueOrders, callVars
<1>9. (\E o \in Orders : DeleteServer(o)) => UNCHANGED calls
  BY DEF DeleteServer, callVars
<1> QED
  BY <1>2, <1>3, <1>4, <1>5, <1>6, <1>7, <1>8, <1>9, EndOrRecord DEF Next, vars

LEMMA AnswersStep ==
  ASSUME TypeOK, \A c \in Calls : CallMove(c)
  PROVE  AnswersAreReal'
<1> SUFFICES ASSUME NEW c \in Calls, calls'[c].pc = "answered", calls'[c].op = "provision",
                    calls'[c].result = "ok"
             PROVE  instance'[calls'[c].order] # "none"
  BY DEF AnswersAreReal, Answered, Succeeded
<1>1. Continued(c)
  BY DEF CallMove, Begun, NoCall
<1> QED
  BY <1>1 DEF Continued

LEMMA SuspendStep ==
  ASSUME TypeOK, ServedBeforeSuspend,
         \A c \in Calls : CallMove(c), \A o \in Orders : Move(o)
  PROVE  ServedBeforeSuspend'
<1> DEFINE Served == {"active", "suspended", "expired", "terminated"}
<1> SUFFICES ASSUME NEW c \in Calls, calls'[c] # NoCall, calls'[c].op \in {"suspend", "resume"}
             PROVE  orders'[calls'[c].order].status \in Served
  BY DEF ServedBeforeSuspend, Status
<1>1. ASSUME NEW o \in Orders, Status(o) \in Served PROVE Status(o)' \in Served
  BY <1>1 DEF Move, Same, Advanced, Created, Declined, Paid, Refunded, Payable, Status,
              CanTransition, Transitions
<1>2. CASE Begun(c)
  BY <1>1, <1>2 DEF Begun, Status
<1>3. CASE Continued(c)
  <2>1. calls[c].order \in Orders
    BY <1>3 DEF Continued, TypeOK, Call
  <2>2. Status(calls[c].order) \in Served
    BY <1>3 DEF Continued, ServedBeforeSuspend
  <2>3. PICK o \in Orders : o = calls[c].order
    BY <2>1
  <2> QED
    BY <1>1, <1>3, <2>2, <2>3 DEF Continued, Status
<1> QED
  BY <1>2, <1>3 DEF CallMove

(* An order's status does not start or leave "provisioning" but for its end.*)
Settled(o) ==
  \/ Status(o)' = Status(o)
  \/ Status(o)' = "terminated"
  \/ Status(o) \notin {"provisioning", "terminated"} /\ Status(o)' # "provisioning"

LEMMA OrderStepSettles ==
  ASSUME TypeOK, OrderStep
  PROVE  \A o \in Orders : Settled(o)
<1> USE DEF Status
<1>0. \A o \in Orders : orders[o] \in Order
  BY DEF TypeOK
<1>1. ASSUME NEW p \in Orders, NEW order \in Order, Persist(p, order),
             \/ order.status = orders[p].status
             \/ order.status = "terminated"
             \/ /\ orders[p].status \notin {"provisioning", "terminated"}
                /\ order.status # "provisioning"
      PROVE \A o \in Orders : Settled(o)
  BY <1>1, PersistMoves DEF Settled, Alone
<1>2. ASSUME NEW p \in Orders, CreateOrder(p) PROVE \A o \in Orders : Settled(o)
  <2>1. Status(p) = "none" /\ Status(p)' = "pending"
    BY <1>2 DEF CreateOrder, NewOrder, TypeOK
  <2>2. \A o \in Orders \ {p} : Status(o)' = Status(o)
    BY <1>2 DEF CreateOrder, TypeOK
  <2> QED
    BY <2>1, <2>2 DEF Settled
<1>3. ASSUME NEW p \in Orders, NEW ref \in Refs, NEW result \in {"paid", "failed", "mismatch"},
             ApplyPaymentResult(p, ref, result)
      PROVE \A o \in Orders : Settled(o)
  <2> DEFINE declined == WithEntry(orders[p], ref, "failed")
             failed == [declined EXCEPT !.payment = "failed"]
             paid == [WithEntry(orders[p], ref, "paid") EXCEPT
                        !.payment = "paid", !.status = "paid", !.period = "running"]
  <2>1. declined \in Order /\ WithEntry(orders[p], ref, "paid") \in Order
    BY <1>0, EntryType
  <2>2. failed \in Order /\ paid \in Order
    BY <2>1, OrderFields DEF Statuses
  <2>3. /\ declined.status = orders[p].status /\ failed.status = orders[p].status
        /\ paid.status = "paid"
    BY <1>0, <2>1 DEF WithEntry, Order
  <2>4. orders[p].status = "pending"
    BY <1>3 DEF ApplyPaymentResult, Payable
  <2>5. Persist(p, declined) \/ Persist(p, failed) \/ Persist(p, paid)
    BY <1>3 DEF ApplyPaymentResult
  <2> QED
    BY <1>1, <2>1, <2>2, <2>3, <2>4, <2>5
<1>4. ASSUME NEW p \in Orders, ApplyRefund(p) PROVE \A o \in Orders : Settled(o)
  <2>1. [orders[p] EXCEPT !.payment = "refunded", !.status = "terminated"] \in Order
    BY <1>0, OrderFields DEF Statuses
  <2> QED
    BY <1>0, <1>1, <1>4, <2>1 DEF ApplyRefund, Order
<1>5. ASSUME NEW p \in Orders, RenewOrder(p) PROVE \A o \in Orders : Settled(o)
  <2>1. [orders[p] EXCEPT !.status = "active", !.period = "running"] \in Order
    BY <1>0, OrderFields DEF Statuses
  <2> QED
    BY <1>0, <1>1, <1>5, <2>1 DEF RenewOrder, Renewable, Order
<1>6. ASSUME NEW p \in Orders, PeriodEnds(p) PROVE \A o \in Orders : Settled(o)
  BY <1>0, <1>6 DEF PeriodEnds, Settled, Order, TypeOK
<1>7. CASE ExpireDueOrders
  BY <1>7, SweepMoves DEF Settled, Due
<1> QED
  BY <1>2, <1>3, <1>4, <1>5, <1>6, <1>7 DEF OrderStep

LEMMA ProvisioningStep ==
  ASSUME HostingInv, [Next]_vars
  PROVE  CallsOfTheirOrder' /\ OneProvisioningCall'
<1> DEFINE Goal == CallsOfTheirOrder' /\ OneProvisioningCall'
<1> SUFFICES ASSUME ~faulty' PROVE Goal
  BY DEF CallsOfTheirOrder, OneProvisioningCall
<1>0. /\ TypeOK /\ AnswersAreReal /\ ServedBeforeSuspend
      /\ ~faulty /\ CallsOfTheirOrder /\ OneProvisioningCall
  BY NothingForgotten DEF HostingInv
<1>a. ASSUME \A c \in Calls, o \in Orders : Provisioning(c, o)' <=> Provisioning(c, o),
             \A o \in Orders : Settled(o), crashed' = crashed
      PROVE  Goal
  <2>1. \A o \in Orders : Move(o)
    BY <1>0, AllMove
  <2>2. \A o \in Orders : Status(o) = "terminated" => Status(o)' = "terminated"
    BY <2>1 DEF Move, Same, Advanced, Created, Declined, Paid, Refunded, Payable, Status,
                CanTransition, Transitions
  <2>3. \A o \in Orders : Status(o)' = "provisioning" => Status(o) = "provisioning"
    BY <1>a DEF Settled
  <2>4. CallsOfTheirOrder'
    BY <1>0, <1>a, <2>2 DEF CallsOfTheirOrder, Settled
  <2>5. OneProvisioningCall'
    BY <1>0, <1>a, <2>3 DEF OneProvisioningCall
  <2> QED
    BY <2>4, <2>5
<1>b. ASSUME UNCHANGED calls PROVE \A c \in Calls, o \in Orders : Provisioning(c, o)' <=> Provisioning(c, o)
  BY <1>b DEF Provisioning
<1>c. ASSUME UNCHANGED orders PROVE \A o \in Orders : Settled(o)
  BY <1>c DEF Settled, Status
<1>1. CASE OrderStep
  <2>1. UNCHANGED <<calls, crashed>>
    BY <1>1 DEF OrderStep, CreateOrder, ApplyPaymentResult, ApplyRefund, RenewOrder, PeriodEnds,
                ExpireDueOrders, callVars
  <2> QED
    BY <1>0, <1>1, <1>a, <1>b, <2>1, OrderStepSettles
<1>2. ASSUME NEW c \in Calls, NEW o \in Orders, StartProvision(c, o) PROVE Goal
  <2>1. [orders[o] EXCEPT !.status = "provisioning"] \in Order
    BY <1>0, OrderFields DEF Statuses, TypeOK
  <2>2. orders' = [orders EXCEPT ![o] = [orders[o] EXCEPT !.status = "provisioning"]]
    BY <1>2 DEF StartProvision, Persist
  <2>3. Status(o)' = "provisioning" /\ \A p \in Orders \ {o} : Status(p)' = Status(p)
    BY <1>0, <2>2 DEF Status, TypeOK, Order
  <2>4. Status(o) \in {"paid", "provisioning_failed"}
    BY <1>2 DEF StartProvision, ReadyToProvision, CanTransition, Transitions
  <2>5. \A d \in Calls : ~Provisioning(d, o)
    BY <1>0, <2>4 DEF CallsOfTheirOrder
  <2>6. /\ Provisioning(c, o)'
        /\ \A p \in Orders \ {o} : ~Provisioning(c, p)' /\ ~Provisioning(c, p)
        /\ \A d \in Calls \ {c}, p \in Orders : Provisioning(d, p)' <=> Provisioning(d, p)
    BY <1>0, <1>2 DEF StartProvision, Send, Provisioning, NoCall, TypeOK
  <2>7. CallsOfTheirOrder'
    BY <1>0, <2>3, <2>5, <2>6 DEF CallsOfTheirOrder
  <2>8. crashed' = crashed
    BY <1>2 DEF StartProvision
  <2>9. OneProvisioningCall'
    BY <1>0, <2>3, <2>5, <2>6, <2>8 DEF OneProvisioningCall
  <2> QED
    BY <2>7, <2>9
<1>3. ASSUME NEW c \in Calls, NEW o \in Orders,
             StartSuspend(c, o) \/ StartResume(c, o) \/ StartTerminate(c, o)
      PROVE Goal
  <2>1. UNCHANGED <<orders, crashed>>
    BY <1>3 DEF StartSuspend, StartResume, StartTerminate
  <2>2. \A d \in Calls, p \in Orders : Provisioning(d, p)' <=> Provisioning(d, p)
    BY <1>0, <1>3 DEF StartSuspend, StartResume, StartTerminate, Send, Provisioning, NoCall, TypeOK
  <2> QED
    BY <1>a, <1>c, <2>1, <2>2
<1>4. ASSUME NEW c \in Calls, ProviderActs(c) PROVE Goal
  <2>1. UNCHANGED <<orders, crashed>>
    BY <1>4 DEF ProviderActs
  <2>2. calls[c] \in Call /\ calls[c].pc \in {"sent", "unheard"}
    BY <1>0, <1>4, CallType DEF ProviderActs
  <2>3. \A d \in Calls \ {c} : calls'[d] = calls[d]
    BY <1>0, <1>4 DEF ProviderActs, TypeOK
  <2>4. \A p \in Orders : Provisioning(c, p)' <=> Provisioning(c, p)
    <3>1. CASE calls[c].pc = "sent"
      <4>1. PICK r : calls'[c] = [calls[c] EXCEPT !.pc = "answered", !.result = r]
        BY <1>0, <1>4, <3>1 DEF ProviderActs, TypeOK
      <4> QED
        BY <2>2, <3>1, <4>1 DEF Provisioning, Call
    <3>2. CASE calls[c].pc = "unheard"
      <4>1. calls'[c] = NoCall
        BY <1>0, <1>4, <3>2 DEF ProviderActs, TypeOK
      <4> QED
        BY <3>2, <4>1 DEF Provisioning, NoCall
    <3> QED
      BY <2>2, <3>1, <3>2
  <2> QED
    BY <1>a, <1>c, <2>1, <2>3, <2>4 DEF Provisioning
<1>5. ASSUME NEW c \in Calls, Finish(c), ~Record(c) PROVE Goal
  <2>1. calls[c].pc = "answered"
    BY <1>5 DEF Finish, Activate, ActivateRefused, ProvisionFailed, SuspendDone, ResumeDone,
                TerminateDone, Answered
  <2>0. PICK o \in Orders : o = calls[c].order
    BY <1>0, <2>1, CallType
  <2>2. orders[o] \in Order
    BY <1>0 DEF TypeOK
  <2>3. /\ crashed' = crashed /\ calls'[c].pc \in {"idle", "recording"}
        /\ \A d \in Calls \ {c} : calls'[d] = calls[d]
    <3>1. CASE Return(c)
      BY <1>0, <3>1 DEF Return, NoCall, TypeOK
    <3>2. CASE \E order : Transition(c, order)
      <4>1. calls[c] \in Call
        BY <1>0, <2>1, CallType
      <4> QED
        BY <1>0, <3>2, <4>1 DEF Transition, Call, TypeOK
    <3> QED
      BY <1>5, <3>1, <3>2, EndOrRecord
  <2>4. /\ \A p \in Orders : ~Provisioning(c, p)'
        /\ \A d \in Calls \ {c}, p \in Orders : Provisioning(d, p)' <=> Provisioning(d, p)
    BY <2>3 DEF Provisioning
  <2>5. Alone(o)
    <3>1. CASE UNCHANGED orders
      BY <3>1 DEF Alone
    <3>2. CASE Activate(c)
      BY <1>0, <2>0, <3>2, OnlyItsOrder DEF Activate, Transition
    <3>3. CASE ActivateRefused(c)
      BY <1>0, <2>0, <3>1, <3>3, OnlyItsOrder DEF ActivateRefused
    <3>4. CASE ProvisionFailed(c)
      BY <1>0, <2>0, <3>1, <3>4, OnlyItsOrder DEF ProvisionFailed
    <3>5. CASE SuspendDone(c)
      BY <1>0, <2>0, <3>1, <3>5, OnlyItsOrder DEF SuspendDone, ReturnUnchanged, Transition
    <3>6. CASE ResumeDone(c)
      BY <1>0, <2>0, <3>1, <3>6, OnlyItsOrder DEF ResumeDone, ReturnUnchanged, Transition
    <3>7. CASE TerminateDone(c)
      BY <1>0, <2>0, <3>1, <3>7, OnlyItsOrder DEF TerminateDone, ReturnUnchanged, Transition
    <3> QED
      BY <1>5, <3>2, <3>3, <3>4, <3>5, <3>6, <3>7 DEF Finish
  <2>6. CASE calls[c].op = "provision"
    <3>1. Provisioning(c, o) /\ \A d \in Calls \ {c} : ~Provisioning(d, o)
      BY <1>0, <2>0, <2>1, <2>6 DEF Provisioning, OneProvisioningCall
    <3>2. Status(o) \in {"provisioning", "terminated"}
      BY <1>0, <3>1 DEF CallsOfTheirOrder
    <3>3. Status(o)' # "provisioning"
      <4>1. CASE Activate(c)
        <5>1. orders' = [orders EXCEPT ![o] = [orders[o] EXCEPT !.status = "active",
                !.info = TRUE, !.error = FALSE, !.attempts = calls[c].attempt]]
          BY <2>0, <4>1 DEF Activate, Transition, Persist
        <5> QED
          BY <1>0, <2>2, <5>1 DEF Status, TypeOK, Order
      <4>2. CASE ActivateRefused(c)
        <5>1. Status(o) = "terminated" /\ UNCHANGED orders
          BY <2>0, <3>2, <4>2 DEF ActivateRefused, CanTransition, Transitions
        <5> QED
          BY <5>1 DEF Status
      <4>3. CASE ProvisionFailed(c) /\ Status(o) = "provisioning"
        <5>1. orders' = [orders EXCEPT ![o] = [orders[o] EXCEPT !.status = "provisioning_failed",
                !.error = TRUE, !.attempts = calls[c].attempt]]
          BY <2>0, <4>3 DEF ProvisionFailed, Persist, CanTransition, Transitions
        <5> QED
          BY <1>0, <2>2, <5>1 DEF Status, TypeOK, Order
      <4>4. CASE ProvisionFailed(c) /\ Status(o) = "terminated"
        <5>1. UNCHANGED orders
          BY <2>0, <4>4 DEF ProvisionFailed, CanTransition, Transitions
        <5> QED
          BY <4>4, <5>1 DEF Status
      <4> QED
        BY <1>5, <2>6, <3>2, <4>1, <4>2, <4>3, <4>4
        DEF Finish, SuspendDone, ResumeDone, TerminateDone, Answered
    <3>4. CallsOfTheirOrder'
      BY <1>0, <2>4, <2>5, <3>1 DEF CallsOfTheirOrder, Alone, Status
    <3>5. OneProvisioningCall'
      <4>1. \A p \in Orders \ {o} : Status(p)' = Status(p) /\ ~Provisioning(c, p)
        BY <2>0, <2>5 DEF Alone, Status, Provisioning
      <4>2. ASSUME NEW p \in Orders, NEW d \in Calls, NEW e \in Calls,
                   Provisioning(d, p)', Provisioning(e, p)'
            PROVE  d = e
        <5>1. Provisioning(d, p) /\ Provisioning(e, p)
          BY <2>4, <4>2
        <5> QED
          BY <1>0, <5>1 DEF OneProvisioningCall
      <4>3. ASSUME NEW p \in Orders, Status(p)' = "provisioning", ~crashed'
            PROVE  \E d \in Calls : Provisioning(d, p)'
        <5>1. p # o /\ Status(p) = "provisioning" /\ ~crashed
          BY <2>3, <3>3, <4>1, <4>3
        <5>2. PICK d \in Calls : Provisioning(d, p)
          BY <1>0, <5>1 DEF OneProvisioningCall
        <5> QED
          BY <2>4, <4>1, <5>1, <5>2
      <4> QED
        BY <4>2, <4>3 DEF OneProvisioningCall
    <3> QED
      BY <3>4, <3>5
  <2>7. CASE calls[c].op # "provision"
    <3>1. \A d \in Calls, p \in Orders : Provisioning(d, p)' <=> Provisioning(d, p)
      BY <2>4, <2>7 DEF Provisioning
    <3>2. Settled(o)
      <4>1. CASE UNCHANGED orders
        BY <4>1 DEF Settled, Status
      <4>2. CASE SuspendDone(c) /\ ~UNCHANGED orders
        <5>1. /\ CanTransition(Status(o), "suspended")
              /\ orders' = [orders EXCEPT ![o] = [orders[o] EXCEPT !.status = "suspended"]]
          BY <2>0, <4>2 DEF SuspendDone, ReturnUnchanged, Transition, Persist
        <5> QED
          BY <1>0, <2>2, <5>1 DEF Settled, Status, TypeOK, Order, CanTransition, Transitions
      <4>3. CASE ResumeDone(c) /\ ~UNCHANGED orders
        <5>1. orders' = [orders EXCEPT ![o] = [orders[o] EXCEPT !.status = "active"]]
          BY <2>0, <4>3 DEF ResumeDone, ReturnUnchanged, Transition, Persist
        <5>2. Status(o) # "provisioning" /\ CanTransition(Status(o), "active")
          BY <1>0, <2>0, <4>3
          DEF ResumeDone, ReturnUnchanged, ServedBeforeSuspend, Answered, NoCall
        <5> QED
          BY <1>0, <2>2, <5>1, <5>2 DEF Settled, Status, TypeOK, Order, CanTransition, Transitions
      <4>4. CASE TerminateDone(c) /\ ~UNCHANGED orders
        <5>1. orders' = [orders EXCEPT ![o] = [orders[o] EXCEPT !.status = "terminated",
                           !.error = ~Succeeded(calls[c])]]
          BY <2>0, <4>4 DEF TerminateDone, ReturnUnchanged, Transition, Persist
        <5> QED
          BY <1>0, <2>2, <5>1 DEF Settled, Status, TypeOK, Order
      <4> QED
        BY <1>5, <2>7, <4>1, <4>2, <4>3, <4>4
        DEF Finish, Activate, ActivateRefused, ProvisionFailed, Answered
    <3>3. \A p \in Orders : Settled(p)
      BY <2>5, <3>2 DEF Alone, Settled, Status
    <3> QED
      BY <1>a, <2>3, <3>1, <3>3
  <2> QED
    BY <2>6, <2>7
<1>6. CASE Crash
  <2>1. \A c \in Calls, o \in Orders : ~Provisioning(c, o)'
    <3> SUFFICES ASSUME NEW c \in Calls PROVE calls'[c].pc \notin {"sent", "answered"}
      BY DEF Provisioning
    <3>1. CASE calls[c].pc = "sent"
      <4>1. calls'[c] = [calls[c] EXCEPT !.pc = "unheard"] /\ calls[c] \in Call
        BY <1>0, <1>6, <3>1, CallType DEF Crash
      <4> QED
        BY <4>1 DEF Call
    <3>2. CASE calls[c].pc # "sent"
      BY <1>6, <3>2 DEF Crash, NoCall
    <3> QED
      BY <3>1, <3>2
  <2>2. crashed'
    BY <1>6 DEF Crash
  <2> QED
    BY <2>1, <2>2 DEF CallsOfTheirOrder, OneProvisioningCall
<1>7. CASE UNCHANGED vars
  BY <1>7, <1>a, <1>b, <1>c DEF vars
<1>8. ASSUME NEW c \in Calls, Record(c) PROVE Goal
  <2>1. \A d \in Calls, p \in Orders : Provisioning(d, p)' <=> Provisioning(d, p)
    BY <1>0, <1>8 DEF Record, Return, Provisioning, NoCall, TypeOK
  <2> QED
    BY <1>8, <1>a, <1>c, <2>1 DEF Record, Return
<1>9. ASSUME NEW o \in Orders, DeleteServer(o) PROVE Goal
  BY <1>9, <1>a, <1>b, <1>c DEF DeleteServer, callVars
<1> QED
  BY <1>1, <1>2, <1>3, <1>4, <1>5, <1>6, <1>7, <1>8, <1>9 DEF Next, Start

-----------------------------------------------------------------------------
LEMMA InitInv == Init => HostingInv
<1> SUFFICES ASSUME Init PROVE HostingInv
  OBVIOUS
<1> USE DEF Init, Status
<1>1. TypeOK
  BY NewOrderType DEF TypeOK
<1>2. AnswersAreReal /\ ServedBeforeSuspend /\ CallsOfTheirOrder
  BY DEF AnswersAreReal, ServedBeforeSuspend, CallsOfTheirOrder, Provisioning, Answered, NoCall
<1>3. UnpaidUntilPaid /\ ActiveIsProvisioned /\ PaidOnce
  BY DEF UnpaidUntilPaid, ActiveIsProvisioned, PaidOnce, NewOrder
<1>4. OneProvisioningCall
  BY DEF OneProvisioningCall, Provisioning, NoCall, NewOrder
<1> QED
  BY <1>1, <1>2, <1>3, <1>4 DEF HostingInv

LEMMA StepInv == HostingInv /\ [Next]_vars => HostingInv'
<1> SUFFICES ASSUME HostingInv, [Next]_vars PROVE HostingInv'
  OBVIOUS
<1>1. /\ TypeOK /\ AnswersAreReal /\ ServedBeforeSuspend /\ UnpaidUntilPaid
      /\ ActiveIsProvisioned /\ PaidOnce
  BY DEF HostingInv
<1>2. /\ \A o \in Orders : Move(o)
      /\ \A c \in Calls : CallMove(c)
  BY <1>1, AllMove, CallMoves
<1>3. TypeOK'
  BY <1>1, TypeStep
<1>4. AnswersAreReal' /\ ServedBeforeSuspend'
  BY <1>1, <1>2, AnswersStep, SuspendStep
<1>5. UnpaidUntilPaid' /\ PaidOnce'
  BY <1>1, <1>2, PaymentStep
<1>6. ActiveIsProvisioned'
  BY <1>1, <1>2, ActiveStep
<1> QED
  BY <1>3, <1>4, <1>5, <1>6, ProvisioningStep DEF HostingInv

(* The inductive invariant of game hosting, for any number of orders,       *)
(* payment references and concurrent calls, with lost writes and restarts.  *)
THEOREM HostingInvariant == Spec => []HostingInv
  BY InitInv, StepInv, PTL DEF Spec

(* Every variable keeps its type: the records of the two services hold what *)
(* their code writes into them and nothing else.                            *)
THEOREM HostingTypes == Spec => []TypeOK
<1>1. HostingInv => TypeOK
  BY DEF HostingInv
<1> QED
  BY <1>1, HostingInvariant, PTL

(* Whatever is lost or restarted, an order that was served has an instance  *)
(* at the provider and its providerInfo; and while no write is lost and the *)
(* process was not restarted, it has had its server record or the request   *)
(* that activated it is about to make it.                                   *)
THEOREM ServedOrdersExist == Spec => []ActiveIsProvisioned
<1>1. HostingInv => ActiveIsProvisioned
  BY DEF HostingInv
<1> QED
  BY <1>1, HostingInvariant, PTL

(* However callbacks are duplicated or reordered, an order is paid once.    *)
THEOREM OrdersArePaidOnce == Spec => []PaidOnce
<1>1. HostingInv => PaidOnce
  BY DEF HostingInv
<1> QED
  BY <1>1, HostingInvariant, PTL

(* While no write is lost, an order has one provisioning call in flight at  *)
(* most, however often its provisioning is retried.                         *)
THEOREM ProvisioningCallsAreUnique == Spec => []OneProvisioningCall
<1>1. HostingInv => OneProvisioningCall
  BY DEF HostingInv
<1> QED
  BY <1>1, HostingInvariant, PTL
-----------------------------------------------------------------------------
(* Refinement.  Stage and Money are read from one order's fields, so a step *)
(* that moves one order moves one entry of each.                            *)

LEMMA OneEntryMoves ==
  ASSUME NEW o \in Orders, Alone(o)
  PROVE  /\ Stage' = [Stage EXCEPT ![o] = Stage'[o]]
         /\ Money' = [Money EXCEPT ![o] = Money'[o]]
<1>1. \A p \in Orders \ {o} : Stage'[p] = Stage[p]
  BY DEF Alone, Stage, Status
<1>2. \A p \in Orders \ {o} : Money'[p] = Money[p]
  BY DEF Alone, Money
<1> QED
  BY <1>1, <1>2 DEF Stage, Money

LEMMA MoveIsPromised ==
  ASSUME TypeOK, TypeOK', UnpaidUntilPaid, NEW o \in Orders, Move(o), Alone(o)
  PROVE  [Promise!Next]_(Promise!subscriptionVars)
<1> DEFINE Goal == [Promise!Next]_(Promise!subscriptionVars)
<1> SUFFICES Goal
  OBVIOUS
<1>1. /\ Stage' = [Stage EXCEPT ![o] = Stage'[o]]
      /\ Money' = [Money EXCEPT ![o] = Money'[o]]
  BY OneEntryMoves
<1>2. DOMAIN Stage = Orders /\ DOMAIN Money = Orders
  BY DEF Stage, Money
<1>3. /\ Status(o) \in Statuses /\ Status(o)' \in Statuses
      /\ orders[o].payment \in {"pending", "paid", "failed", "refunded"}
      /\ orders'[o].payment \in {"pending", "paid", "failed", "refunded"}
  BY DEF TypeOK, Order, Status
<1>e. /\ Stage[o] = StageOf(Status(o)) /\ Stage'[o] = StageOf(Status(o)')
      /\ Money[o] = MoneyOf(orders[o].payment) /\ Money'[o] = MoneyOf(orders'[o].payment)
  BY DEF Stage, Money
<1>4. ASSUME Stage'[o] = Stage[o], Money'[o] = Money[o] PROVE Goal
  BY <1>1, <1>2, <1>4 DEF Promise!subscriptionVars, Stage, Money
<1>5. ASSUME Status(o)' = Status(o) PROVE Stage'[o] = Stage[o]
  BY <1>5, <1>e
<1>6. ASSUME orders'[o].payment = orders[o].payment PROVE Money'[o] = Money[o] /\ Money' = Money
  <2>1. Money'[o] = Money[o]
    BY <1>6, <1>e
  <2> QED
    BY <1>1, <2>1 DEF Money
<1>7. CASE Same(o)
  BY <1>4, <1>5, <1>6, <1>7 DEF Same, Kept
<1>8. CASE Advanced(o)
  <2>1. Money' = Money /\ Money'[o] = Money[o]
    BY <1>6, <1>8 DEF Advanced, Kept
  <2>2. \/ Stage'[o] = Stage[o]
        \/ Stage[o] = "paid" /\ Stage'[o] = "served"
        \/ Stage[o] \in {"paid", "served"} /\ Stage'[o] = "ended"
    BY <1>3, <1>8, <1>e DEF Advanced, CanTransition, Transitions, StageOf, Statuses
  <2>3. CASE Stage[o] = "paid" /\ Stage'[o] = "served"
    <3>1. Promise!Serve(o)
      BY <1>1, <2>1, <2>3 DEF Promise!Serve
    <3> QED
      BY <3>1 DEF Promise!Next
  <2>4. CASE Stage[o] \in {"paid", "served"} /\ Stage'[o] = "ended"
    <3>1. Stage' = [p \in Orders |-> IF p \in {o} THEN "ended" ELSE Stage[p]]
      BY <1>1, <2>4 DEF Stage
    <3>2. Promise!End({o})
      BY <2>1, <2>4, <3>1 DEF Promise!End
    <3> QED
      BY <3>2 DEF Promise!Next
  <2> QED
    BY <1>4, <2>1, <2>2, <2>3, <2>4
<1>9. CASE Created(o)
  <2>1. Stage[o] = "none" /\ Stage'[o] = "unpaid"
    BY <1>9, <1>e DEF Created, StageOf
  <2>2. Money[o] = "none" /\ Money'[o] = "none"
    BY <1>9, <1>e DEF Created, UnpaidUntilPaid, MoneyOf
  <2>3. Money' = Money
    BY <1>1, <2>2 DEF Money
  <2>4. Promise!Place(o)
    BY <1>1, <2>1, <2>3 DEF Promise!Place
  <2> QED
    BY <2>4 DEF Promise!Next
<1>10. CASE Declined(o)
  <2>1. Money[o] = "none" /\ Money'[o] = "none"
    BY <1>10, <1>e DEF Declined, Payable, UnpaidUntilPaid, MoneyOf, Status
  <2> QED
    BY <1>4, <1>5, <1>10, <2>1 DEF Declined
<1>11. CASE Paid(o)
  <2>1. Stage[o] = "unpaid" /\ Stage'[o] = "paid" /\ Money'[o] = "taken"
    BY <1>11, <1>e DEF Paid, Payable, StageOf, MoneyOf, Status
  <2>2. Promise!Pay(o)
    BY <1>1, <2>1 DEF Promise!Pay
  <2> QED
    BY <2>2 DEF Promise!Next
<1>12. CASE Refunded(o)
  <2>1. Money[o] = "taken" /\ Money'[o] = "returned" /\ Stage'[o] = "ended"
    BY <1>12, <1>e DEF Refunded, StageOf, MoneyOf
  <2>2. Promise!Refund(o)
    BY <1>1, <2>1 DEF Promise!Refund
  <2> QED
    BY <2>2 DEF Promise!Next
<1> QED
  BY <1>7, <1>8, <1>9, <1>10, <1>11, <1>12 DEF Move

LEMMA SweepIsPromised ==
  ASSUME TypeOK, ExpireDueOrders
  PROVE  [Promise!Next]_(Promise!subscriptionVars)
<1> DEFINE ending == {o \in Orders : Status(o)' # Status(o)}
<1>1. \A o \in Orders : Status(o)' = Status(o) \/ (Due(o) /\ Status(o)' = "expired")
  BY SweepMoves
<1>2. \A o \in Orders : orders'[o].payment = orders[o].payment
  BY DEF ExpireDueOrders, TypeOK, Order
<1>3. Money' = Money
  BY <1>2 DEF Money
<1>4. \A o \in ending : Stage[o] \in {"paid", "served"}
  BY <1>1 DEF Due, Stage, StageOf
<1>5. \A o \in Orders : Stage'[o] = IF o \in ending THEN "ended" ELSE Stage[o]
  BY <1>1 DEF Stage, StageOf
<1>6. Stage' = [o \in Orders |-> IF o \in ending THEN "ended" ELSE Stage[o]]
  BY <1>5 DEF Stage
<1>7. Promise!End(ending)
  BY <1>3, <1>4, <1>6 DEF Promise!End
<1> HIDE DEF ending
<1>8. ending \in SUBSET Orders
  BY DEF ending
<1> QED
  BY <1>7, <1>8 DEF Promise!Next

(* Game hosting implements Subscription: money is taken once and before     *)
(* anything is served, what has ended stays ended, and a refund ends its    *)
(* order in the same step, whatever is lost, duplicated or restarted.       *)
THEOREM HostingImplementsSubscription == Spec => ImplementsSubscription
<1>1. Init => Promise!Init
  BY DEF Init, Promise!Init, Stage, Money, StageOf, MoneyOf, Status, NewOrder
<1>2. ASSUME HostingInv, [Next]_vars, HostingInv'
      PROVE  [Promise!Next]_(Promise!subscriptionVars)
  <2>1. TypeOK /\ TypeOK' /\ AnswersAreReal /\ ServedBeforeSuspend /\ UnpaidUntilPaid
    BY <1>2 DEF HostingInv
  <2>2. CASE orders' = orders
    BY <2>2 DEF Promise!subscriptionVars, Stage, Money, Status
  <2>3. CASE ExpireDueOrders
    BY <2>1, <2>3, SweepIsPromised
  <2>4. ASSUME NEW o \in Orders, Move(o), Alone(o) PROVE [Promise!Next]_(Promise!subscriptionVars)
    BY <2>1, <2>4, MoveIsPromised
  <2> QED
    BY <1>2, <2>1, <2>2, <2>3, <2>4, StepMoves
<1>3. Spec => Promise!Spec
  BY <1>1, <1>2, HostingInvariant, PTL DEF Spec, Promise!Spec
<1> QED
  BY <1>3 DEF ImplementsSubscription
=============================================================================
