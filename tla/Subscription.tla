---------------------------- MODULE Subscription ----------------------------
(***************************************************************************)
(* What game hosting promises a customer and a bookkeeper, without         *)
(* providers, stores or callbacks: money is taken once and before anything *)
(* is served, an order is served at most once, an ended order stays ended, *)
(* and money that goes back ends the order in the same step.               *)
(***************************************************************************)
EXTENDS Naturals

CONSTANT Orders

VARIABLES stage, money

subscriptionVars == <<stage, money>>

Init ==
  /\ stage = [o \in Orders |-> "none"]
  /\ money = [o \in Orders |-> "none"]

Place(o) ==
  /\ stage[o] = "none"
  /\ stage' = [stage EXCEPT ![o] = "unpaid"]
  /\ UNCHANGED money

Pay(o) ==
  /\ stage[o] = "unpaid"
  /\ stage' = [stage EXCEPT ![o] = "paid"]
  /\ money' = [money EXCEPT ![o] = "taken"]

Serve(o) ==
  /\ stage[o] = "paid"
  /\ stage' = [stage EXCEPT ![o] = "served"]
  /\ UNCHANGED money

End(ending) ==
  /\ \A o \in ending : stage[o] \in {"paid", "served"}
  /\ stage' = [o \in Orders |-> IF o \in ending THEN "ended" ELSE stage[o]]
  /\ UNCHANGED money

Refund(o) ==
  /\ money[o] = "taken"
  /\ money' = [money EXCEPT ![o] = "returned"]
  /\ stage' = [stage EXCEPT ![o] = "ended"]

Next ==
  \/ \E o \in Orders : Place(o) \/ Pay(o) \/ Serve(o) \/ Refund(o)
  \/ \E ending \in SUBSET Orders : End(ending)

Spec == Init /\ [][Next]_subscriptionVars
=============================================================================
