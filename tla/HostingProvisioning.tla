------------------------ MODULE HostingProvisioning -------------------------
(***************************************************************************)
(* The conversation between game hosting and the provider,                 *)
(* backend/services/gameHostingProvisioning.service.js over the order      *)
(* store.  A request reads the order, calls the provider and, when the     *)
(* answer comes, moves the order and then, in a second write to another    *)
(* document, its server record.  Between call and answer, and between the  *)
(* two writes, any other request runs and the process may be restarted;    *)
(* the provider acts when it likes.                                        *)
(***************************************************************************)
EXTENDS HostingOrders

NoCall == [pc |-> "idle"]

(* `attempt` is the number provisionOrder computed when it made the call, 0 *)
(* for the other operations.                                                *)
(* A call is "unheard" when the process that made it is gone, and           *)
(* "recording" between the write of its order and that of the server record.*)
Call == [pc      : {"sent", "answered", "recording", "unheard"},
         op      : {"provision", "suspend", "resume", "terminate"},
         order   : Orders,
         attempt : Nat,
         result  : {"none", "ok", "breach", "error"}]

Init ==
  /\ orders = [o \in Orders |-> NewOrder]
  /\ servers = [o \in Orders |-> "none"]
  /\ faulty = FALSE
  /\ instance = [o \in Orders |-> "none"]
  /\ calls = [c \in Calls |-> NoCall]
  /\ crashed = FALSE

-----------------------------------------------------------------------------
Send(c, op, o, attempt) ==
  /\ calls[c] = NoCall
  /\ calls' = [calls EXCEPT ![c] = [pc |-> "sent", op |-> op, order |-> o,
                                    attempt |-> attempt, result |-> "none"]]

(* Mutant: a retry does not ask whether a call is in flight.                *)
ReadyUnlessServed(status) ==
  status \notin {"none", "active", "pending", "expired", "terminated", "suspended"}

(* provisionOrder refuses the orders that are served or on their way, the   *)
(* unpaid and the ended ones, and what the transition table refuses.        *)
ReadyToProvision(status) ==
  /\ status \notin {"active", "provisioning"}
  /\ status \notin {"none", "pending", "expired", "terminated"}
  /\ CanTransition(status, "provisioning")

StartProvision(c, o) ==
  /\ ReadyToProvision(Status(o))
  /\ orders[o].attempts < MaxAttempts
  /\ Persist(o, [orders[o] EXCEPT !.status = "provisioning"])
  /\ Send(c, "provision", o, orders[o].attempts + 1)
  /\ UNCHANGED <<servers, instance, crashed>>

StartSuspend(c, o) ==
  /\ Status(o) = "active"
  /\ Send(c, "suspend", o, 0)
  /\ UNCHANGED <<orders, servers, faulty, instance, crashed>>

StartResume(c, o) ==
  /\ Status(o) = "suspended"
  /\ Send(c, "resume", o, 0)
  /\ UNCHANGED <<orders, servers, faulty, instance, crashed>>

(* Any order that has not ended, a pending one too.                         *)
StartTerminate(c, o) ==
  /\ Status(o) \notin {"none", "terminated"}
  /\ Send(c, "terminate", o, 0)
  /\ UNCHANGED <<orders, servers, faulty, instance, crashed>>

-----------------------------------------------------------------------------
(* What a call does at the provider.  The providerKey makes provisioning    *)
(* idempotent: an instance that exists is returned as it is.                *)
Effect(op, state) ==
  IF op = "provision"
  THEN IF state = "none" THEN "active" ELSE state
  ELSE IF state = "none" THEN "none"
       ELSE CASE op = "suspend"   -> "suspended"
              [] op = "resume"    -> "active"
              [] op = "terminate" -> "terminated"

(* An "ok" is the truth; a call that failed may have had its effect all the *)
(* same.  A "breach" is an ok without an externalId.                        *)
ProviderActs(c) ==
  /\ calls[c].pc \in {"sent", "unheard"}
  /\ \E result \in {"ok", "breach", "error"}, acted \in BOOLEAN :
       /\ result = "ok" => acted
       /\ result = "breach" => calls[c].op = "provision"
       /\ instance' = IF acted
                      THEN [instance EXCEPT ![calls[c].order] = Effect(calls[c].op, @)]
                      ELSE instance
       /\ calls' = [calls EXCEPT ![c] =
                      IF @.pc = "sent" THEN [@ EXCEPT !.pc = "answered", !.result = result]
                                       ELSE NoCall]
  /\ UNCHANGED <<orders, servers, faulty, crashed>>

-----------------------------------------------------------------------------
Answered(c, op) == calls[c].pc = "answered" /\ calls[c].op = op

Return(c) ==
  /\ calls' = [calls EXCEPT ![c] = NoCall]
  /\ UNCHANGED <<instance, crashed>>

ReturnUnchanged(c) == Return(c) /\ UNCHANGED <<orders, servers, faulty>>

(* Mutant: ok is enough, whatever came with it.                             *)
SucceededOnOk(call) == call.result \in {"ok", "breach"}

Succeeded(call) == call.result = "ok"

(* transitionOrder of an answered call: the order is written, its server    *)
(* record is still to come, whether or not the write was saved.             *)
Transition(c, order) ==
  /\ Persist(calls[c].order, order)
  /\ calls' = [calls EXCEPT ![c].pc = "recording"]
  /\ UNCHANGED <<servers, instance, crashed>>

Activate(c) ==
  LET o == calls[c].order
  IN /\ Answered(c, "provision")
     /\ Succeeded(calls[c])
     /\ CanTransition(Status(o), "active")
     /\ Transition(c, [orders[o] EXCEPT !.status = "active", !.info = TRUE, !.error = FALSE,
                                        !.attempts = calls[c].attempt])

(* The order moved on during the call: the provider's result is to be kept  *)
(* as an error, by a second transition from the same status.                *)
ActivateRefused(c) ==
  LET o == calls[c].order
  IN /\ Answered(c, "provision")
     /\ Succeeded(calls[c])
     /\ ~CanTransition(Status(o), "active")
     /\ IF CanTransition(Status(o), "provisioning_failed")
        THEN Persist(o, [orders[o] EXCEPT !.status = "provisioning_failed", !.error = TRUE])
        ELSE UNCHANGED <<orders, faulty>>
     /\ UNCHANGED servers
     /\ Return(c)

(* Mutant: the failure is returned to the client and not recorded.          *)
ProvisionFailedUnrecorded(c) ==
  /\ Answered(c, "provision")
  /\ ~Succeeded(calls[c])
  /\ ReturnUnchanged(c)

ProvisionFailed(c) ==
  LET o == calls[c].order
  IN /\ Answered(c, "provision")
     /\ ~Succeeded(calls[c])
     /\ IF CanTransition(Status(o), "provisioning_failed")
        THEN Persist(o, [orders[o] EXCEPT !.status = "provisioning_failed", !.error = TRUE,
                                          !.attempts = calls[c].attempt])
        ELSE UNCHANGED <<orders, faulty>>
     /\ UNCHANGED servers
     /\ Return(c)

SuspendDone(c) ==
  LET o == calls[c].order
  IN /\ Answered(c, "suspend")
     /\ IF Succeeded(calls[c]) /\ CanTransition(Status(o), "suspended")
        THEN Transition(c, [orders[o] EXCEPT !.status = "suspended"])
        ELSE ReturnUnchanged(c)

ResumeDone(c) ==
  LET o == calls[c].order
  IN /\ Answered(c, "resume")
     /\ IF Succeeded(calls[c]) /\ CanTransition(Status(o), "active")
        THEN Transition(c, [orders[o] EXCEPT !.status = "active"])
        ELSE ReturnUnchanged(c)

(* The order is terminated even when the provider failed, which is noted.   *)
TerminateDone(c) ==
  LET o == calls[c].order
  IN /\ Answered(c, "terminate")
     /\ IF CanTransition(Status(o), "terminated")
        THEN Transition(c, [orders[o] EXCEPT !.status = "terminated",
                                             !.error = ~Succeeded(calls[c])])
        ELSE ReturnUnchanged(c)

(* Only a provisioning makes a record where there is none; the others       *)
(* change the one they find.                                                *)
Records(c) == calls[c].op = "provision" \/ servers[calls[c].order] = "kept"

(* The second write, on the records as they are by then.                    *)
Record(c) ==
  /\ calls[c].pc = "recording"
  /\ IF Records(c)
     THEN \E saved \in Saves :
            /\ servers' = IF saved THEN [servers EXCEPT ![calls[c].order] = "kept"] ELSE servers
            /\ faulty' = (faulty \/ ~saved)
     ELSE UNCHANGED <<servers, faulty>>
  /\ UNCHANGED orders
  /\ Return(c)

(* deleteServer, a request of its own; a failed write deletes nothing.      *)
DeleteServer(o) ==
  /\ servers[o] = "kept"
  /\ servers' = [servers EXCEPT ![o] = "deleted"]
  /\ UNCHANGED <<orders, faulty, callVars>>

(* The process is restarted: what the provider was asked, it may still do.  *)
Crash ==
  /\ MayCrash
  /\ crashed' = TRUE
  /\ calls' = [c \in Calls |->
                 CASE calls[c].pc = "sent"                     -> [calls[c] EXCEPT !.pc = "unheard"]
                   [] calls[c].pc \in {"answered", "recording"} -> NoCall
                   [] OTHER                                    -> calls[c]]
  /\ UNCHANGED <<orders, servers, faulty, instance>>

Start(c, o) ==
  \/ StartProvision(c, o) \/ StartSuspend(c, o) \/ StartResume(c, o) \/ StartTerminate(c, o)

Finish(c) ==
  \/ Activate(c) \/ ActivateRefused(c) \/ ProvisionFailed(c)
  \/ SuspendDone(c) \/ ResumeDone(c) \/ TerminateDone(c)
  \/ Record(c)

Next ==
  \/ OrderStep
  \/ \E o \in Orders : DeleteServer(o)
  \/ \E c \in Calls :
       \/ \E o \in Orders : Start(c, o)
       \/ ProviderActs(c)
       \/ Finish(c)
  \/ Crash

(* Every provider call settles, and the request that made it goes on.       *)
Fairness == \A c \in Calls : WF_vars(ProviderActs(c)) /\ WF_vars(Finish(c))

Spec == Init /\ [][Next]_vars /\ Fairness

-----------------------------------------------------------------------------
TypeOK ==
  /\ orders \in [Orders -> Order]
  /\ servers \in [Orders -> {"none", "kept", "deleted"}]
  /\ faulty \in BOOLEAN
  /\ instance \in [Orders -> {"none", "active", "suspended", "terminated"}]
  /\ calls \in [Calls -> Call \cup {NoCall}]
  /\ crashed \in BOOLEAN

Provisioning(c, o) ==
  /\ calls[c].pc \in {"sent", "answered"}
  /\ calls[c].op = "provision"
  /\ calls[c].order = o

Recording(c, o) ==
  /\ calls[c].pc = "recording"
  /\ calls[c].op = "provision"
  /\ calls[c].order = o

(* What makes the invariants below inductive: a successful answer stands    *)
(* for an instance, only served orders were asked to suspend or resume, a   *)
(* provision call outlives "provisioning" only by the end of its order, and *)
(* an order nobody paid has no successful entry.                            *)
AnswersAreReal ==
  \A c \in Calls :
    Answered(c, "provision") /\ Succeeded(calls[c]) => instance[calls[c].order] # "none"

ServedBeforeSuspend ==
  \A c \in Calls :
    calls[c] # NoCall /\ calls[c].op \in {"suspend", "resume"} =>
      Status(calls[c].order) \in {"active", "suspended", "expired", "terminated"}

CallsOfTheirOrder ==
  ~faulty => \A c \in Calls, o \in Orders :
    Provisioning(c, o) => Status(o) \in {"provisioning", "terminated"}

UnpaidUntilPaid ==
  \A o \in Orders :
    Status(o) \in {"none", "pending"} => orders[o].payment \in {"pending", "failed"}

(* An order never becomes active before the provider confirmed a real       *)
(* instance, whatever is lost or restarted: what was served has one.  Its   *)
(* server record was made too, or the request that activated the order is   *)
(* about to make it; only a lost write or a restart between the two writes  *)
(* (gameHostingProvisioning.service.js:75-104) leaves a served order with   *)
(* no record.                                                               *)
ActiveIsProvisioned ==
  \A o \in Orders : Status(o) \in {"active", "suspended", "expired"} =>
    /\ orders[o].info
    /\ instance[o] # "none"
    /\ faulty \/ crashed \/ servers[o] # "none" \/ \E c \in Calls : Recording(c, o)

(* However often a provisioning is retried, an order has one provision call *)
(* in flight at most, and has one for as long as it says "provisioning"     *)
(* unless a restart forgot it; a lost write spoils both.                    *)
OneProvisioningCall ==
  ~faulty => \A o \in Orders :
    /\ \A c, d \in Calls : Provisioning(c, o) /\ Provisioning(d, o) => c = d
    /\ Status(o) = "provisioning" /\ ~crashed => \E c \in Calls : Provisioning(c, o)

(* Duplicated, reordered and late callbacks pay an order once, no order is  *)
(* past "pending" without a payment, and only a refund takes it back.       *)
PaidOnce ==
  \A o \in Orders :
    LET paid == {entry \in orders[o].payments : entry.status = "paid"}
    IN /\ \A e, f \in paid : e = f
       /\ orders[o].payment \in {"paid", "refunded"} <=> paid # {}
       /\ Status(o) \notin {"none", "pending"} => paid # {}

(* A provisioning ends, one way or the other, unless the process was        *)
(* restarted or a write was lost meanwhile.                                 *)
ProvisioningEnds ==
  \A o \in Orders : []<>(Status(o) # "provisioning" \/ crashed \/ faulty)

StageOf(status) ==
  CASE status = "none" -> "none"
    [] status = "pending" -> "unpaid"
    [] status \in {"paid", "provisioning", "provisioning_failed"} -> "paid"
    [] status \in {"active", "suspended"} -> "served"
    [] OTHER -> "ended"

MoneyOf(payment) ==
  CASE payment = "paid" -> "taken"
    [] payment = "refunded" -> "returned"
    [] OTHER -> "none"

Stage == [o \in Orders |-> StageOf(Status(o))]
Money == [o \in Orders |-> MoneyOf(orders[o].payment)]

Promise == INSTANCE Subscription WITH stage <- Stage, money <- Money

HostingInv ==
  /\ TypeOK /\ AnswersAreReal /\ ServedBeforeSuspend /\ CallsOfTheirOrder
  /\ UnpaidUntilPaid
  /\ ActiveIsProvisioned /\ OneProvisioningCall /\ PaidOnce

(* Game hosting implements Subscription, whatever is lost or restarted.     *)
ImplementsSubscription == Promise!Spec

(* "Never lose the provider result" (gameHostingProvisioning.service.js:94):*)
(* once a successful provision call has been dealt with, its order holds    *)
(* the provider's information or an error.                                  *)
ProviderResultKept ==
  [][\A c \in Calls :
       /\ Answered(c, "provision")
       /\ Succeeded(calls[c])
       /\ ~Answered(c, "provision")'
       /\ crashed' = crashed
       => LET order == orders'[calls[c].order] IN order.info \/ order.error]_vars
=============================================================================
