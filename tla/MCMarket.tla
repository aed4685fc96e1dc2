------------------------------ MODULE MCMarket ------------------------------
(* Small instances of MarketOrders for TLC. *)
EXTENDS MarketOrders

CONSTANTS p1, p2, alice, bob, shop

OneEach == <<[product |-> p1, qty |-> 1]>>
Pair    == <<[product |-> p1, qty |-> 1], [product |-> p2, qty |-> 1]>>
Unknown == <<[product |-> p2, qty |-> 1]>>

TwoUnits     == [p \in {p1} |-> 2]
OneUnitEach  == [p \in {p1, p2} |-> 1]
TwoAndOne    == [p \in {p1, p2} |-> IF p = p1 THEN 2 ELSE 1]

SmallCarts == {OneEach, Unknown}
PairCarts  == {OneEach, Pair}

SameTenant == [w \in Customers |-> shop]
=============================================================================
