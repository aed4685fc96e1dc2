------------------------- MODULE MarketOrders_proofs -------------------------
(***************************************************************************)
(* For any number of checkouts and cancellations, overlapping in any way,  *)
(* with any number of store failures and restarts: the type invariant, the *)
(* exclusion of checkouts under stockLock, and the agreement of the        *)
(* marketOrders document with the sales document.                          *)
(***************************************************************************)
EXTENDS MarketOrders, FiniteSetTheorems, TLAPS

LockProofs == INSTANCE AsyncLock_proofs WITH Clients <- Checkouts

-----------------------------------------------------------------------------
(* Induction over the natural numbers, and sums over finite sets.           *)

(* What holds of 0 and passes from n to n + 1 holds of every natural.       *)
LEMMA Induction ==
  ASSUME NEW P \in SUBSET Nat, 0 \in P, \A n \in P : n + 1 \in P
  PROVE  P = Nat
<1> DEFINE LT == {p \in Nat \X Nat : p[1] < p[2]}
<1> SUFFICES ASSUME Nat \ P # {} PROVE FALSE
  OBVIOUS
<1>1. IsWellFoundedOn(LT, Nat)
  BY NatLessThanWellFounded DEF OpToRel
<1>2. PICK m \in Nat \ P : \A n \in Nat \ P : <<n, m>> \notin LT
  <2> HIDE DEF LT
  <2> QED BY <1>1, WFMin
<1>3. m # 0 /\ m - 1 \in Nat
  BY <1>2
<1>4. <<m - 1, m>> \in LT
  BY <1>3
<1>5. m - 1 \in P
  BY <1>2, <1>3, <1>4
<1> QED BY <1>2, <1>3, <1>5

(* The recursion behind SumFunction: g gives the sum of f over each s.      *)
Pick(s) == CHOOSE x \in s : TRUE

Sums(f, g) ==
  g = [s \in SUBSET DOMAIN f |-> IF s = {} THEN 0 ELSE f[Pick(s)] + g[s \ {Pick(s)}]]

LEMMA PickIn == ASSUME NEW s, s # {} PROVE Pick(s) \in s
BY DEF Pick

LEMMA SumsExist ==
  ASSUME NEW f, IsFiniteSet(DOMAIN f)
  PROVE  \E g : Sums(f, g)
<1> DEFINE S == DOMAIN f
           Small(n) == {s \in SUBSET S : Cardinality(s) <= n}
           Solves(n, g) == g = [s \in Small(n) |-> IF s = {} THEN 0
                                  ELSE f[Pick(s)] + g[s \ {Pick(s)}]]
           P == {n \in Nat : \E g : Solves(n, g)}
<1>1. \A s \in SUBSET S : IsFiniteSet(s) /\ Cardinality(s) \in Nat
  BY FS_Subset, FS_CardinalityType
<1>2. 0 \in P
  <2>1. \A s \in Small(0) : s = {}
    BY <1>1, FS_EmptySet
  <2>2. Solves(0, [s \in Small(0) |-> 0])
    BY <2>1
  <2> QED BY <2>2
<1>3. ASSUME NEW n \in P PROVE n + 1 \in P
  <2>1. PICK g : Solves(n, g)
    OBVIOUS
  <2> DEFINE h == [s \in Small(n + 1) |-> IF s = {} THEN 0 ELSE f[Pick(s)] + g[s \ {Pick(s)}]]
  <2>2. \A s \in Small(n) : h[s] = g[s]
    <3>1. Small(n) \subseteq Small(n + 1)
      BY <1>1
    <3> HIDE DEF Small
    <3> QED BY <2>1, <3>1
  <2>3. \A s \in Small(n + 1) : s # {} => s \ {Pick(s)} \in Small(n)
    BY <1>1, PickIn, FS_RemoveElement
  <2>4. Solves(n + 1, h)
    <3> HIDE DEF Small
    <3> QED BY <2>2, <2>3
  <2>5. \E k : Solves(n + 1, k)
    <3> HIDE DEF h, Solves
    <3> QED BY <2>4
  <2>6. n + 1 \in Nat
    BY <1>3
  <2> HIDE DEF Solves
  <2> QED BY <2>5, <2>6
<1>4. Cardinality(S) \in P
  <2> HIDE DEF P
  <2>1. P \in SUBSET Nat
    BY DEF P
  <2>2. P = Nat
    BY <1>2, <1>3, <2>1, Induction
  <2> QED BY <1>1, <2>2
<1>5. Small(Cardinality(S)) = SUBSET S
  BY <1>1, FS_Subset
<1>6. PICK g : Solves(Cardinality(S), g)
  BY <1>4
<1> QED BY <1>5, <1>6 DEF Sums

LEMMA SumIs ==
  ASSUME NEW f, IsFiniteSet(DOMAIN f)
  PROVE  \E g : Sums(f, g) /\ SumFunction(f) = g[DOMAIN f]
<1> DEFINE G == CHOOSE g : Sums(f, g)
<1>1. Sums(f, G)
  BY SumsExist
<1>2. SumFunction(f) = G[DOMAIN f]
  BY DEF SumFunction, SumFunctionOnSet, FoldFunctionOnSet, MapThenFoldSet, Sums, Pick
<1> QED BY <1>1, <1>2

(* A set of subsets of S that holds every set whose smaller subsets it      *)
(* holds is all of them.                                                    *)
LEMMA SubsetInduction ==
  ASSUME NEW S, IsFiniteSet(S), NEW Q,
         \A s \in SUBSET S : (\A t \in SUBSET s : t # s => t \in Q) => s \in Q
  PROVE  SUBSET S \subseteq Q
<1> DEFINE T == (SUBSET S) \ Q
<1> SUFFICES ASSUME T # {} PROVE FALSE
  OBVIOUS
<1>1. T \subseteq FiniteSubsetsOf(S)
  BY FS_Subset DEF FiniteSubsetsOf
<1>2. PICK s \in T : \A t \in T : <<t, s>> \notin StrictSubsetOrdering(S)
  <2> HIDE DEF T
  <2> QED BY <1>1, FS_StrictSubsetOrderingWellFounded, WFMin
<1>3. \A t \in SUBSET s : t # s => t \in Q
  <2> SUFFICES ASSUME NEW t \in SUBSET s, t # s, t \in T PROVE FALSE
    OBVIOUS
  <2>1. <<t, s>> \in StrictSubsetOrdering(S)
    BY <1>1 DEF StrictSubsetOrdering, FiniteSubsetsOf
  <2> QED BY <1>2, <2>1
<1> QED BY <1>2, <1>3

(* What g is: the sum of f over s is f of any element of s, plus the rest.  *)
Takes(f, g, s) == g[s] \in Int /\ \A a \in s : g[s] = f[a] + g[s \ {a}]

LEMMA SumsTake ==
  ASSUME NEW f, IsFiniteSet(DOMAIN f), f \in [DOMAIN f -> Int], NEW g, Sums(f, g)
  PROVE  \A s \in SUBSET DOMAIN f : Takes(f, g, s)
<1> DEFINE Q == {s \in SUBSET DOMAIN f : Takes(f, g, s)}
<1>1. \A s \in SUBSET DOMAIN f :
        g[s] = IF s = {} THEN 0 ELSE f[Pick(s)] + g[s \ {Pick(s)}]
  BY DEF Sums
<1>2. ASSUME NEW s \in SUBSET DOMAIN f, \A t \in SUBSET s : t # s => t \in Q
      PROVE  Takes(f, g, s)
  <2>1. CASE s = {}
    <3>1. g[s] = 0
      BY <1>1, <2>1
    <3> QED BY <2>1, <3>1 DEF Takes
  <2>2. CASE s # {}
    <3>1. PICK x \in s : x = Pick(s)
      BY <2>2, PickIn
    <3>2. g[s] = f[x] + g[s \ {x}]
      BY <1>1, <2>2, <3>1
    <3>3. \A a \in s : f[a] \in Int /\ g[s \ {a}] \in Int
      BY <1>2 DEF Takes
    <3>4. ASSUME NEW a \in s, a # x PROVE g[s] = f[a] + g[s \ {a}]
      <4>1. g[s \ {x}] = f[a] + g[(s \ {x}) \ {a}]
        BY <1>2, <3>4 DEF Takes
      <4>2. g[s \ {a}] = f[x] + g[(s \ {x}) \ {a}]
        <5>1. (s \ {x}) \ {a} = (s \ {a}) \ {x}
          OBVIOUS
        <5>2. s \ {a} \in SUBSET s /\ s \ {a} # s /\ x \in s \ {a}
          BY <3>4
        <5>3. Takes(f, g, s \ {a})
          BY <1>2, <5>2
        <5> QED BY <5>1, <5>2, <5>3 DEF Takes
      <4>3. g[(s \ {x}) \ {a}] \in Int
        <5>1. (s \ {x}) \ {a} \in SUBSET s /\ (s \ {x}) \ {a} # s
          BY <3>4
        <5> QED BY <1>2, <5>1 DEF Takes
      <4>4. f[a] \in Int /\ f[x] \in Int
        BY <3>3
      <4> DEFINE r == g[(s \ {x}) \ {a}]
      <4> HIDE DEF r
      <4> QED BY <3>2, <4>1, <4>2, <4>3, <4>4 DEF r
    <3>5. f[x] \in Int /\ g[s \ {x}] \in Int
      BY <3>3
    <3>6. g[s] \in Int
      BY <3>2, <3>5
    <3> QED BY <3>2, <3>4, <3>6 DEF Takes
  <2> QED BY <2>1, <2>2
<1>3. SUBSET DOMAIN f \subseteq Q
  <2>1. \A s \in SUBSET DOMAIN f : (\A t \in SUBSET s : t # s => t \in Q) => s \in Q
    BY <1>2
  <2> HIDE DEF Q
  <2> QED BY <2>1, SubsetInduction
<1> QED BY <1>3

(* Two sums agree where the functions do.                                   *)
LEMMA SumsAgree ==
  ASSUME NEW f, IsFiniteSet(DOMAIN f), NEW g, Sums(f, g),
         NEW T \in SUBSET DOMAIN f, NEW h, Sums([x \in T |-> f[x]], h)
  PROVE  h[T] = g[T]
<1> DEFINE Q == {s \in SUBSET T : h[s] = g[s]}
<1>1. \A s \in SUBSET T :
        /\ g[s] = IF s = {} THEN 0 ELSE f[Pick(s)] + g[s \ {Pick(s)}]
        /\ h[s] = IF s = {} THEN 0 ELSE f[Pick(s)] + h[s \ {Pick(s)}]
  BY PickIn DEF Sums
<1>2. ASSUME NEW s \in SUBSET T, \A t \in SUBSET s : t # s => t \in Q
      PROVE  s \in Q
  <2>1. CASE s = {}
    BY <1>1, <2>1
  <2>2. CASE s # {}
    <3>1. h[s \ {Pick(s)}] = g[s \ {Pick(s)}]
      BY <1>2, <2>2, PickIn
    <3> QED BY <1>1, <2>2, <3>1
  <2> QED BY <2>1, <2>2
<1>3. IsFiniteSet(T)
  BY FS_Subset
<1>4. SUBSET T \subseteq Q
  <2> HIDE DEF Q
  <2> QED BY <1>2, <1>3, SubsetInduction
<1> QED BY <1>4

-----------------------------------------------------------------------------
(* The sum over nothing, and the sum with one element taken out.            *)
LEMMA SumOfNone ==
  ASSUME NEW f, DOMAIN f = {}
  PROVE  SumFunction(f) = 0
<1>1. IsFiniteSet(DOMAIN f)
  BY FS_EmptySet
<1>2. PICK g : Sums(f, g) /\ SumFunction(f) = g[DOMAIN f]
  BY <1>1, SumIs
<1> QED BY <1>2 DEF Sums

LEMMA SumTake ==
  ASSUME NEW S, IsFiniteSet(S), NEW f \in [S -> Int], NEW a \in S
  PROVE  /\ SumFunction(f) \in Int
         /\ SumFunction([x \in S \ {a} |-> f[x]]) \in Int
         /\ SumFunction(f) = f[a] + SumFunction([x \in S \ {a} |-> f[x]])
<1>1. PICK g : Sums(f, g) /\ SumFunction(f) = g[S]
  BY SumIs
<1>2. Takes(f, g, S) /\ Takes(f, g, S \ {a})
  BY <1>1, SumsTake
<1>3. g[S] \in Int /\ g[S \ {a}] \in Int /\ g[S] = f[a] + g[S \ {a}]
  BY <1>2 DEF Takes
<1>4. PICK r : r = [x \in S \ {a} |-> f[x]]
  OBVIOUS
<1>5. DOMAIN r = S \ {a} /\ IsFiniteSet(DOMAIN r)
  BY <1>4, FS_RemoveElement
<1>6. PICK h : Sums(r, h) /\ SumFunction(r) = h[S \ {a}]
  BY <1>5, SumIs
<1>7. h[S \ {a}] = g[S \ {a}]
  <2>1. S \ {a} \in SUBSET DOMAIN f /\ IsFiniteSet(DOMAIN f)
    OBVIOUS
  <2> QED BY <1>1, <1>4, <1>6, <2>1, SumsAgree
<1> QED BY <1>1, <1>3, <1>4, <1>6, <1>7

(* The sum of natural numbers is one.                                       *)
LEMMA SumOfNaturals ==
  ASSUME NEW S, IsFiniteSet(S), NEW f \in [S -> Nat]
  PROVE  SumFunction(f) \in Nat
<1> DEFINE R(s) == [x \in s |-> f[x]]
           Q == {s \in SUBSET S : SumFunction(R(s)) \in Nat}
<1>1. ASSUME NEW s \in SUBSET S, \A t \in SUBSET s : t # s => t \in Q
      PROVE  SumFunction(R(s)) \in Nat
  <2>1. CASE s = {}
    BY <2>1, SumOfNone
  <2>2. CASE s # {}
    <3>1. PICK a \in s : TRUE
      BY <2>2
    <3>2. R(s) \in [s -> Int] /\ R(s)[a] \in Nat /\ IsFiniteSet(s)
      BY FS_Subset
    <3>3. [x \in s \ {a} |-> R(s)[x]] = R(s \ {a})
      OBVIOUS
    <3>4. SumFunction(R(s \ {a})) \in Nat
      BY <1>1
    <3> HIDE DEF R
    <3>5. SumFunction(R(s)) = R(s)[a] + SumFunction(R(s \ {a}))
      BY <3>2, <3>3, SumTake
    <3> QED BY <3>2, <3>4, <3>5
  <2> QED BY <2>1, <2>2
<1>2. SUBSET S \subseteq Q
  <2>1. \A s \in SUBSET S : (\A t \in SUBSET s : t # s => t \in Q) => s \in Q
    <3> HIDE DEF R
    <3> QED BY <1>1
  <2> HIDE DEF Q
  <2> QED BY <2>1, SubsetInduction
<1>3. SumFunction(R(S)) \in Nat /\ R(S) = f
  <2>1. R(S) = f
    OBVIOUS
  <2> HIDE DEF R
  <2> QED BY <1>2, <2>1
<1> QED BY <1>3

(* One element joins a sum.                                                 *)
LEMMA SumAdd ==
  ASSUME NEW S, IsFiniteSet(S), NEW f \in [S -> Int], NEW a, a \notin S, NEW v \in Int,
         NEW h \in [S \cup {a} -> Int], h[a] = v, \A x \in S : h[x] = f[x]
  PROVE  SumFunction(h) = SumFunction(f) + v
<1>1. IsFiniteSet(S \cup {a})
  BY FS_AddElement
<1>2. f = [x \in (S \cup {a}) \ {a} |-> h[x]]
  OBVIOUS
<1>3. /\ SumFunction(f) \in Int
      /\ SumFunction(h) = h[a] + SumFunction(f)
  BY <1>1, <1>2, SumTake
<1> QED BY <1>3

(* The sum of zeros is zero, and a sum with one entry that is not zero.     *)
LEMMA SumOfZeros ==
  ASSUME NEW S, IsFiniteSet(S)
  PROVE  SumFunction([x \in S |-> 0]) = 0
<1> DEFINE Zero(s) == [x \in s |-> 0]
           Q == {s \in SUBSET S : SumFunction(Zero(s)) = 0}
<1>1. ASSUME NEW s \in SUBSET S, \A t \in SUBSET s : t # s => t \in Q
      PROVE  SumFunction(Zero(s)) = 0
  <2>1. CASE s = {}
    BY <2>1, SumOfNone
  <2>2. CASE s # {}
    <3>1. PICK a \in s : TRUE
      BY <2>2
    <3>2. Zero(s) \in [s -> Int] /\ Zero(s)[a] = 0 /\ IsFiniteSet(s)
      BY FS_Subset
    <3>3. [x \in s \ {a} |-> Zero(s)[x]] = Zero(s \ {a})
      OBVIOUS
    <3>4. SumFunction(Zero(s \ {a})) = 0
      BY <1>1
    <3> HIDE DEF Zero
    <3>5. SumFunction(Zero(s)) = Zero(s)[a] + SumFunction(Zero(s \ {a}))
      BY <3>2, <3>3, SumTake
    <3> QED BY <3>2, <3>4, <3>5
  <2> QED BY <2>1, <2>2
<1>2. SUBSET S \subseteq Q
  <2>1. \A s \in SUBSET S : (\A t \in SUBSET s : t # s => t \in Q) => s \in Q
    <3> HIDE DEF Zero
    <3> QED BY <1>1
  <2> HIDE DEF Q
  <2> QED BY <2>1, SubsetInduction
<1>3. SumFunction(Zero(S)) = 0
  <2> HIDE DEF Zero
  <2> QED BY <1>2
<1> QED BY <1>3

LEMMA SumOfOne ==
  ASSUME NEW S, IsFiniteSet(S), NEW f \in [S -> Int], NEW a \in S,
         \A x \in S \ {a} : f[x] = 0
  PROVE  SumFunction(f) = f[a]
<1>1. [x \in S \ {a} |-> f[x]] = [x \in S \ {a} |-> 0]
  OBVIOUS
<1>2. SumFunction([x \in S \ {a} |-> f[x]]) = 0
  BY <1>1, SumOfZeros, FS_RemoveElement
<1> QED BY <1>2, SumTake

(* A finite set of numbers that is not empty has a largest one.             *)
LEMMA MaxIn ==
  ASSUME NEW S \in SUBSET Int, IsFiniteSet(S), S # {}
  PROVE  Max(S) \in S
<1> DEFINE Q == {s \in SUBSET S : s = {} \/ \E x \in s : \A y \in s : x >= y}
<1>1. ASSUME NEW s \in SUBSET S, \A t \in SUBSET s : t # s => t \in Q
      PROVE  s \in Q
  <2>1. CASE s = {}
    BY <2>1
  <2>2. CASE s # {}
    <3>1. PICK a \in s : TRUE
      BY <2>2
    <3>2. s \ {a} \in Q
      BY <1>1
    <3>3. CASE s \ {a} = {}
      <4>1. \A y \in s : a >= y
        BY <3>3
      <4> QED BY <4>1
    <3>4. CASE s \ {a} # {}
      <4>1. PICK x \in s \ {a} : \A y \in s \ {a} : x >= y
        BY <3>2, <3>4
      <4>2. (\A y \in s : x >= y) \/ (\A y \in s : a >= y)
        <5>1. x \in Int /\ a \in Int /\ \A y \in s : y \in Int
          OBVIOUS
        <5> QED BY <4>1, <5>1
      <4> QED BY <4>1, <4>2
    <3> QED BY <3>3, <3>4
  <2> QED BY <2>1, <2>2
<1>2. S \in Q
  <2> HIDE DEF Q
  <2> QED BY <1>1, SubsetInduction
<1> QED BY <1>2 DEF Max

-----------------------------------------------------------------------------
(* A cart is a finite list of lines.                                        *)
LEMMA CartLines ==
  ASSUME NEW cart \in Carts
  PROVE  /\ IsFiniteSet(DOMAIN cart) /\ DOMAIN cart \subseteq Nat
         /\ \A i \in DOMAIN cart : /\ cart[i].product \in Products
                                   /\ cart[i].qty \in Nat /\ cart[i].qty # 0
<1> DEFINE Line == [product : Products, qty : Nat \ {0}]
<1>1. cart \in Seq(Line)
  BY CartAssumption
<1>2. DOMAIN cart = 1..Len(cart) /\ Len(cart) \in Nat
  <2> HIDE DEF Line
  <2> QED BY <1>1
<1>3. \A i \in DOMAIN cart : cart[i] \in Line
  <2> HIDE DEF Line
  <2> QED BY <1>1
<1>4. IsFiniteSet(1..Len(cart))
  BY <1>2, FS_Interval
<1> QED BY <1>2, <1>3, <1>4

(* A cart wants a number of units of each product.                          *)
LEMMA DemandType ==
  ASSUME NEW cart \in Carts, NEW p
  PROVE  /\ Demand(cart, p) \in Nat
         /\ ~InCart(cart, p) => Demand(cart, p) = 0
         /\ InCart(cart, p) => LastQty(cart, p) \in Nat
<1> DEFINE wanted == [i \in DOMAIN cart |-> IF cart[i].product = p THEN cart[i].qty ELSE 0]
           lines == {i \in DOMAIN cart : cart[i].product = p}
<1>1. wanted \in [DOMAIN cart -> Nat]
  BY CartLines
<1>2. Demand(cart, p) \in Nat
  <2> HIDE DEF wanted
  <2>1. SumFunction(wanted) \in Nat
    BY <1>1, CartLines, SumOfNaturals
  <2> QED BY <2>1 DEF Demand, wanted
<1>3. ASSUME ~InCart(cart, p) PROVE Demand(cart, p) = 0
  <2>1. wanted = [i \in DOMAIN cart |-> 0]
    BY <1>3 DEF InCart
  <2>2. SumFunction([i \in DOMAIN cart |-> 0]) = 0
    BY CartLines, SumOfZeros
  <2> QED BY <2>1, <2>2 DEF Demand
<1>4. ASSUME InCart(cart, p) PROVE LastQty(cart, p) \in Nat
  <2>1. /\ lines \in SUBSET DOMAIN cart /\ lines # {}
        /\ lines \in SUBSET Int
    BY <1>4, CartLines DEF InCart
  <2> HIDE DEF lines
  <2>2. IsFiniteSet(lines)
    BY <2>1, CartLines, FS_Subset
  <2>3. Max(lines) \in DOMAIN cart
    BY <2>1, <2>2, MaxIn
  <2> QED BY <2>3, CartLines DEF LastQty, lines
<1> QED BY <1>2, <1>3, <1>4

-----------------------------------------------------------------------------
(* stockLock, used through its own actions only, keeps its invariant, and a *)
(* checkout between acquire() and release() is a holder.                    *)
HoldersInv ==
  /\ StockLock!LockInv
  /\ \A c \in Checkouts : pc[c] \in UnderLock => c \in granted

(* A cancellation past its checks carries the order it loaded.              *)
AfterLoad == CancelLabels \ {"start", "done", "lost"}

LoadedInv == \A x \in Cancels : pc[x] \in AfterLoad => loaded[x].order # NoOrder

(* Labels at which the checkout's own order has been written nowhere.       *)
Unplaced == (UnderLock \ {"release"}) \cup {"start", "acquire", "readProducts"}

(* An order document (the stored one or a copy) agrees with the sales       *)
(* document: every order in it has its invoice on file, and the orders of   *)
(* checkouts that have not placed theirs are not in it.                     *)
Agrees(orders) ==
  \A o \in Checkouts :
    /\ orders[o] # NoOrder => [id |-> orders[o].invoice, by |-> o] \in db.invoices
    /\ pc[o] \in Unplaced => orders[o] = NoOrder

OrdersInv ==
  /\ Agrees(db.orders)
  /\ \A r \in Requests : Agrees(view[r].orders)
  /\ \A x \in Cancels :
       loaded[x].order # NoOrder =>
         /\ [id |-> loaded[x].order.invoice, by |-> loaded[x].id] \in db.invoices
         /\ pc[loaded[x].id] \notin Unplaced

(* The lock holder's copy of the sales document is current when it writes   *)
(* it back, and its own invoice is on file from W3 until it is rolled back. *)
InvoiceInv ==
  /\ InvoicesDistinct
  /\ \A c \in Checkouts :
       /\ pc[c] = "writeInvoice" =>
            /\ view[c].invoices = db.invoices
            /\ \A i \in db.invoices : i.id # ctx[c].invoice
       /\ pc[c] = "undoInvoice" => view[c].invoices = db.invoices
       /\ pc[c] \in {"readOrders", "writeOrder", "undoReadInvoices", "undoInvoice"} =>
            [id |-> ctx[c].invoice, by |-> c] \in db.invoices

IInv == TypeOK /\ HoldersInv /\ LoadedInv /\ OrdersInv /\ InvoiceInv

-----------------------------------------------------------------------------
(* The ledger entries of a cart are ledger entries.                         *)
LEMMA EntriesType ==
  ASSUME NEW r \in Requests, NEW cart \in Carts, NEW type \in {"in", "out"}
  PROVE  EntriesOf(r, cart, type) \subseteq Entry
<1> DEFINE Line == [product : Products, qty : Nat \ {0}]
<1>1. cart \in Seq(Line)
  BY CartAssumption
<1>2. \A i \in DOMAIN cart : i \in Nat /\ cart[i] \in Line
  <2> HIDE DEF Line
  <2> QED BY <1>1
<1> QED BY <1>2 DEF EntriesOf, Entry

(* Taking a cart out of a products document, putting it back or restoring   *)
(* an earlier one gives a products document.                                *)
LEMMA ProductsType ==
  ASSUME NEW cart \in Carts, NEW products \in [Catalog -> Int],
         NEW original \in [Catalog -> Int]
  PROVE  /\ Sold(products, cart) \in [Catalog -> Int]
         /\ Unsold(products, original, cart) \in [Catalog -> Int]
         /\ Restocked(products, cart) \in [Catalog -> Int]
         /\ Retaken(products, cart) \in [Catalog -> Int]
<1>1. \A p \in Catalog : /\ Demand(cart, p) \in Int
                         /\ InCart(cart, p) => LastQty(cart, p) \in Int
  BY DemandType
<1> QED BY <1>1 DEF Sold, Unsold, Restocked, Retaken, Shift

(* Init satisfies the type invariant.                                       *)
LEMMA InitType == Init => TypeOK
<1> SUFFICES ASSUME Init PROVE TypeOK
  OBVIOUS
<1>1. FreshDatabase \in Database
  BY MarketAssumption DEF FreshDatabase, Database, NoOrder
<1>2. BlankContext \in Context
  BY MarketAssumption DEF BlankContext, Context
<1>3. StockLock!LockTypeOK
  <2>1. <<>> \in Seq(Checkouts)
    OBVIOUS
  <2> QED BY <2>1 DEF Init, StockLock!Init, StockLock!LockTypeOK
<1>4. [id |-> CHOOSE o \in Checkouts : TRUE, order |-> NoOrder]
        \in [id : Checkouts, order : Order \cup {NoOrder}]
  BY MarketAssumption
<1>5. faults \in 0..MaxFaults /\ crashes \in 0..MaxCrashes
  BY MarketAssumption DEF Init
<1> QED BY <1>1, <1>2, <1>3, <1>4, <1>5 DEF Init, TypeOK, CheckoutLabels, Answers

-----------------------------------------------------------------------------
(* The type of everything but the lock.                                     *)
DataTypeOK ==
  /\ db \in Database
  /\ pc \in [Requests -> CheckoutLabels \cup CancelLabels]
  /\ view \in [Requests -> Database]
  /\ ctx \in [Checkouts -> Context]
  /\ loaded \in [Cancels -> [id : Checkouts, order : Order \cup {NoOrder}]]
  /\ answer \in [Requests -> Answers]
  /\ faults \in 0..MaxFaults
  /\ crashes \in 0..MaxCrashes

(* Replacing one document of a database, with the document types it takes.  *)
LEMMA DocumentUpdate ==
  ASSUME NEW d \in Database
  PROVE  /\ d.products \in [Catalog -> Int]
         /\ d.transactions \in SUBSET Entry
         /\ d.invoices \in SUBSET Invoice
         /\ d.orders \in [Checkouts -> Order \cup {NoOrder}]
         /\ \A v \in [Catalog -> Int] : [d EXCEPT !.products = v] \in Database
         /\ \A v \in SUBSET Entry : [d EXCEPT !.transactions = v] \in Database
         /\ \A v \in SUBSET Invoice : [d EXCEPT !.invoices = v] \in Database
         /\ \A v \in [Checkouts -> Order \cup {NoOrder}] :
              [d EXCEPT !.orders = v] \in Database
BY DEF Database

(* Reading a document into a request's copies, and dropping the copies.     *)
LEMMA ViewUpdate ==
  ASSUME view \in [Requests -> Database], db \in Database, NEW r \in Requests
  PROVE  /\ [view EXCEPT ![r].products = db.products] \in [Requests -> Database]
         /\ [view EXCEPT ![r].transactions = db.transactions] \in [Requests -> Database]
         /\ [view EXCEPT ![r].invoices = db.invoices] \in [Requests -> Database]
         /\ [view EXCEPT ![r].orders = db.orders] \in [Requests -> Database]
         /\ [view EXCEPT ![r] = FreshDatabase] \in [Requests -> Database]
<1>1. view[r] \in Database
  OBVIOUS
<1>2. FreshDatabase \in Database
  BY MarketAssumption DEF FreshDatabase, Database, NoOrder
<1> QED BY <1>1, <1>2, DocumentUpdate

(* Every step of a checkout keeps the types.                                *)
LEMMA CheckoutType ==
  ASSUME DataTypeOK, NEW c \in Checkouts, Submit(c) \/ CheckoutStep(c)
  PROVE  DataTypeOK'
<1>0. /\ c \in Requests
      /\ view[c] \in Database
      /\ ctx[c] \in Context
      /\ ctx[c].cart \in Carts
      /\ ctx[c].original \in [Catalog -> Int]
      /\ ctx[c].invoice \in InvoiceIds
  BY DEF DataTypeOK, Requests, Context
<1>1. CASE Submit(c)
  <2>1. ctx' \in [Checkouts -> Context]
    <3>1. ASSUME NEW who \in Customers, NEW cart \in Carts, NEW key \in Keys \cup {NoKey},
                 NEW payable \in BOOLEAN
          PROVE  [ctx[c] EXCEPT !.customer = who, !.cart = cart, !.key = key,
                                !.payable = payable] \in Context
      BY <1>0 DEF Context
    <3>2. PICK input \in Context : ctx' = [ctx EXCEPT ![c] = input]
      BY <1>1, <3>1 DEF Submit
    <3> QED BY <3>2 DEF DataTypeOK
  <2>2. pc' \in [Requests -> CheckoutLabels \cup CancelLabels]
    <3>1. \/ pc' = [pc EXCEPT ![c] = "done"]
          \/ pc' = [pc EXCEPT ![c] = "acquire"]
      BY <1>1 DEF Submit, Step
    <3> QED BY <1>0, <3>1 DEF DataTypeOK, CheckoutLabels
  <2>3. answer' \in [Requests -> Answers]
    BY <1>1, <1>0 DEF Submit, Reply, DataTypeOK, Answers
  <2> QED BY <1>1, <2>1, <2>2, <2>3 DEF Submit, DataTypeOK
<1>2. CASE AcquireLock(c)
  BY <1>2, <1>0 DEF AcquireLock, DataTypeOK, Step, CheckoutLabels
<1>3. CASE ReadProducts(c)
  <2>1. ctx' \in [Checkouts -> Context]
    <3>1. [ctx[c] EXCEPT !.original = db.products] \in Context
      BY <1>0, DocumentUpdate DEF Context, DataTypeOK
    <3> QED BY <1>3, <3>1 DEF ReadProducts, DataTypeOK
  <2>2. pc' \in [Requests -> CheckoutLabels \cup CancelLabels]
    BY <1>3, <1>0 DEF ReadProducts, Step, DataTypeOK, CheckoutLabels
  <2>3. answer' \in [Requests -> Answers]
    BY <1>3, <1>0 DEF ReadProducts, Reply, DataTypeOK, Answers
  <2> QED BY <1>3, <1>0, <2>1, <2>2, <2>3, ViewUpdate DEF ReadProducts, DataTypeOK
<1>4. CASE WriteProducts(c)
  <2>1. db' \in Database /\ faults' \in 0..MaxFaults
    <3>1. [db EXCEPT !.products = Sold(view[c].products, ctx[c].cart)] \in Database
      BY <1>0, ProductsType, DocumentUpdate DEF DataTypeOK
    <3> QED BY <1>4, <3>1, MarketAssumption DEF WriteProducts, WriteFails, DataTypeOK
  <2>2. pc' \in [Requests -> CheckoutLabels \cup CancelLabels]
    BY <1>4, <1>0 DEF WriteProducts, Step, DataTypeOK, CheckoutLabels
  <2>3. answer' \in [Requests -> Answers]
    BY <1>4, <1>0 DEF WriteProducts, Reply, DataTypeOK, Answers
  <2> QED BY <1>4, <2>1, <2>2, <2>3 DEF WriteProducts, DataTypeOK
<1>5. CASE ReadTransactions(c)
  BY <1>5, <1>0, ViewUpdate DEF ReadTransactions, DataTypeOK, Step, CheckoutLabels
<1>6. CASE WriteTransactions(c)
  <2>1. EntriesOf(c, ctx[c].cart, "out") \subseteq Entry
    BY <1>0, EntriesType
  <2>2. db' \in Database /\ faults' \in 0..MaxFaults
    <3> DEFINE written == [db EXCEPT !.transactions =
            view[c].transactions \cup EntriesOf(c, ctx[c].cart, "out")]
    <3>1. written \in Database
      BY <1>0, <2>1, DocumentUpdate DEF DataTypeOK
    <3>2. \/ db' = written /\ faults' = faults
          \/ db' = db /\ faults < MaxFaults /\ faults' = faults + 1
      BY <1>6 DEF WriteTransactions, WriteFails
    <3> HIDE DEF written
    <3> QED BY <3>1, <3>2, MarketAssumption DEF DataTypeOK
  <2>3. pc' \in [Requests -> CheckoutLabels \cup CancelLabels]
    BY <1>6, <1>0 DEF WriteTransactions, Step, DataTypeOK, CheckoutLabels
  <2> QED BY <1>6, <2>2, <2>3 DEF WriteTransactions, DataTypeOK
<1>7. CASE ReadInvoices(c)
  <2>1. ctx' \in [Checkouts -> Context]
    BY <1>7, <1>0 DEF ReadInvoices, DataTypeOK, Context
  <2>2. pc' \in [Requests -> CheckoutLabels \cup CancelLabels]
    BY <1>7, <1>0 DEF ReadInvoices, Step, DataTypeOK, CheckoutLabels
  <2>3. answer' \in [Requests -> Answers]
    BY <1>7, <1>0 DEF ReadInvoices, Reply, DataTypeOK, Answers
  <2> QED BY <1>7, <1>0, <2>1, <2>2, <2>3, ViewUpdate DEF ReadInvoices, DataTypeOK
<1>8. CASE WriteInvoice(c)
  <2>1. [id |-> ctx[c].invoice, by |-> c] \in Invoice
    BY <1>0 DEF Invoice
  <2>2. db' \in Database /\ faults' \in 0..MaxFaults
    <3> DEFINE written == [db EXCEPT !.invoices =
            view[c].invoices \cup {[id |-> ctx[c].invoice, by |-> c]}]
    <3>1. written \in Database
      BY <1>0, <2>1, DocumentUpdate DEF DataTypeOK
    <3>2. \/ db' = written /\ faults' = faults
          \/ db' = db /\ faults < MaxFaults /\ faults' = faults + 1
      BY <1>8 DEF WriteInvoice, WriteFails
    <3> HIDE DEF written
    <3> QED BY <3>1, <3>2, MarketAssumption DEF DataTypeOK
  <2>3. pc' \in [Requests -> CheckoutLabels \cup CancelLabels]
    BY <1>8, <1>0 DEF WriteInvoice, Step, DataTypeOK, CheckoutLabels
  <2> QED BY <1>8, <2>2, <2>3 DEF WriteInvoice, DataTypeOK
<1>9. CASE ReadOrders(c)
  BY <1>9, <1>0, ViewUpdate DEF ReadOrders, DataTypeOK, Step, CheckoutLabels
<1>10. CASE WriteOrder(c)
  <2>1. NewOrder(c) \in Order
    BY <1>0 DEF NewOrder, Order, Context
  <2>2. [view[c].orders EXCEPT ![c] = NewOrder(c)] \in [Checkouts -> Order \cup {NoOrder}]
    BY <2>1, <1>0, DocumentUpdate
  <2>3. db' \in Database /\ faults' \in 0..MaxFaults
    <3>1. [db EXCEPT !.orders = [view[c].orders EXCEPT ![c] = NewOrder(c)]] \in Database
      BY <1>0, <2>2, DocumentUpdate DEF DataTypeOK
    <3> QED BY <1>10, <3>1, MarketAssumption DEF WriteOrder, WriteFails, DataTypeOK
  <2>4. pc' \in [Requests -> CheckoutLabels \cup CancelLabels]
    BY <1>10, <1>0 DEF WriteOrder, Step, DataTypeOK, CheckoutLabels
  <2>5. answer' \in [Requests -> Answers]
    BY <1>10, <1>0 DEF WriteOrder, Reply, DataTypeOK, Answers
  <2> QED BY <1>10, <2>3, <2>4, <2>5 DEF WriteOrder, DataTypeOK
<1>11. CASE UndoReadInvoices(c)
  BY <1>11, <1>0, ViewUpdate DEF UndoReadInvoices, DataTypeOK, Step, CheckoutLabels
<1>12. CASE UndoInvoice(c)
  <2>1. db' \in Database /\ faults' \in 0..MaxFaults
    <3> DEFINE written == [db EXCEPT !.invoices = {i \in view[c].invoices : i.id # ctx[c].invoice}]
    <3>1. written \in Database
      BY <1>0, DocumentUpdate DEF DataTypeOK
    <3>2. \/ db' = written /\ faults' = faults
          \/ db' = db /\ faults < MaxFaults /\ faults' = faults + 1
      BY <1>12 DEF UndoInvoice, BestEffort, WriteFails
    <3> HIDE DEF written
    <3> QED BY <3>1, <3>2, MarketAssumption DEF DataTypeOK
  <2> QED BY <1>12, <2>1 DEF UndoInvoice, DataTypeOK, Step, CheckoutLabels
<1>13. CASE UndoReadTransactions(c)
  BY <1>13, <1>0, ViewUpdate DEF UndoReadTransactions, DataTypeOK, Step, CheckoutLabels
<1>14. CASE UndoTransactions(c)
  <2>1. db' \in Database /\ faults' \in 0..MaxFaults
    <3> DEFINE written == [db EXCEPT !.transactions = {t \in view[c].transactions : t.by # c}]
    <3>1. written \in Database
      BY <1>0, DocumentUpdate DEF DataTypeOK
    <3>2. \/ db' = written /\ faults' = faults
          \/ db' = db /\ faults < MaxFaults /\ faults' = faults + 1
      BY <1>14 DEF UndoTransactions, BestEffort, WriteFails
    <3> HIDE DEF written
    <3> QED BY <3>1, <3>2, MarketAssumption DEF DataTypeOK
  <2> QED BY <1>14, <2>1 DEF UndoTransactions, DataTypeOK, Step, CheckoutLabels
<1>15. CASE UndoReadProducts(c)
  BY <1>15, <1>0, ViewUpdate DEF UndoReadProducts, DataTypeOK, Step, CheckoutLabels
<1>16. CASE UndoProducts(c)
  <2>1. db' \in Database /\ faults' \in 0..MaxFaults
    <3>1. [db EXCEPT !.products =
            Unsold(view[c].products, ctx[c].original, ctx[c].cart)] \in Database
      BY <1>0, ProductsType, DocumentUpdate DEF DataTypeOK
    <3> QED BY <1>16, <3>1, MarketAssumption DEF UndoProducts, BestEffort, WriteFails, DataTypeOK
  <2>2. pc' \in [Requests -> CheckoutLabels \cup CancelLabels]
    BY <1>16, <1>0 DEF UndoProducts, Step, DataTypeOK, CheckoutLabels
  <2>3. answer' \in [Requests -> Answers]
    BY <1>16, <1>0 DEF UndoProducts, Reply, DataTypeOK, Answers
  <2> QED BY <1>16, <2>1, <2>2, <2>3 DEF UndoProducts, DataTypeOK
<1>17. CASE ReleaseLock(c)
  <2>1. ctx' \in [Checkouts -> Context]
    <3>0. InitialStock \in [Catalog -> Int]
      BY MarketAssumption
    <3>1. [ctx[c] EXCEPT !.original = InitialStock, !.key = NoKey, !.payable = TRUE]
            \in Context
      BY <1>0, <3>0 DEF Context
    <3>2. PICK rest \in Context : ctx' = [ctx EXCEPT ![c] = rest]
      BY <1>17, <3>1 DEF ReleaseLock
    <3> QED BY <3>2 DEF DataTypeOK
  <2>2. view' \in [Requests -> Database]
    BY <1>17, <1>0, ViewUpdate DEF ReleaseLock, Forget, DataTypeOK
  <2>3. pc' \in [Requests -> CheckoutLabels \cup CancelLabels]
    BY <1>17, <1>0 DEF ReleaseLock, Step, DataTypeOK, CheckoutLabels
  <2> QED BY <1>17, <2>1, <2>2, <2>3 DEF ReleaseLock, DataTypeOK
<1> QED BY <1>1, <1>2, <1>3, <1>4, <1>5, <1>6, <1>7, <1>8, <1>9, <1>10, <1>11, <1>12,
           <1>13, <1>14, <1>15, <1>16, <1>17 DEF CheckoutStep

(* Every step of a cancellation keeps the types.                            *)
LEMMA CancelType ==
  ASSUME DataTypeOK, LoadedInv, NEW x \in Cancels, LoadOrder(x) \/ CancelStep(x)
  PROVE  DataTypeOK'
<1>0. /\ x \in Requests
      /\ view[x] \in Database
      /\ loaded[x].id \in Checkouts
      /\ pc[x] \in AfterLoad => loaded[x].order \in Order /\ loaded[x].order.cart \in Carts
  BY DEF DataTypeOK, Requests, LoadedInv, Order
<1>1. CASE LoadOrder(x)
  <2>1. \A o \in Checkouts : db.orders[o] \in Order \cup {NoOrder}
    BY DocumentUpdate DEF DataTypeOK
  <2>2. loaded' \in [Cancels -> [id : Checkouts, order : Order \cup {NoOrder}]]
    BY <1>1, <2>1 DEF LoadOrder, DataTypeOK
  <2>3. pc' \in [Requests -> CheckoutLabels \cup CancelLabels]
    BY <1>1, <1>0 DEF LoadOrder, Step, DataTypeOK, CancelLabels
  <2>4. answer' \in [Requests -> Answers]
    BY <1>1, <1>0 DEF LoadOrder, Reply, DataTypeOK, Answers
  <2> QED BY <1>1, <2>2, <2>3, <2>4 DEF LoadOrder, DataTypeOK
<1>2. CASE RestockReadProducts(x)
  BY <1>2, <1>0, ViewUpdate DEF RestockReadProducts, DataTypeOK, Step, CancelLabels
<1>3. CASE RestockReadTransactions(x)
  BY <1>3, <1>0, ViewUpdate DEF RestockReadTransactions, DataTypeOK, Step, CancelLabels
<1>4. CASE RestockProducts(x)
  <2>0. loaded[x].order.cart \in Carts
    BY <1>4, <1>0 DEF RestockProducts, Step, AfterLoad, CancelLabels
  <2>1. db' \in Database /\ faults' \in 0..MaxFaults
    <3>1. [db EXCEPT !.products = Restocked(view[x].products, loaded[x].order.cart)] \in Database
      BY <1>0, <2>0, ProductsType, DocumentUpdate DEF DataTypeOK
    <3> QED BY <1>4, <3>1, MarketAssumption DEF RestockProducts, WriteFails, DataTypeOK
  <2>2. view' \in [Requests -> Database]
    BY <1>4, <1>0, ViewUpdate DEF RestockProducts, Forget, DataTypeOK
  <2>3. pc' \in [Requests -> CheckoutLabels \cup CancelLabels]
    BY <1>4, <1>0 DEF RestockProducts, Step, DataTypeOK, CancelLabels
  <2>4. answer' \in [Requests -> Answers]
    BY <1>4, <1>0 DEF RestockProducts, Reply, DataTypeOK, Answers
  <2> QED BY <1>4, <2>1, <2>2, <2>3, <2>4 DEF RestockProducts, DataTypeOK
<1>5. CASE RestockTransactions(x)
  <2>0. EntriesOf(x, loaded[x].order.cart, "in") \subseteq Entry
    BY <1>5, <1>0, EntriesType DEF RestockTransactions, Step, AfterLoad, CancelLabels
  <2>1. db' \in Database /\ faults' \in 0..MaxFaults
    <3> DEFINE written == [db EXCEPT !.transactions =
            view[x].transactions \cup EntriesOf(x, loaded[x].order.cart, "in")]
    <3>1. written \in Database
      BY <1>0, <2>0, DocumentUpdate DEF DataTypeOK
    <3>2. \/ db' = written /\ faults' = faults
          \/ db' = db /\ faults < MaxFaults /\ faults' = faults + 1
      BY <1>5 DEF RestockTransactions, WriteFails
    <3> HIDE DEF written
    <3> QED BY <3>1, <3>2, MarketAssumption DEF DataTypeOK
  <2>2. view' \in [Requests -> Database]
    BY <1>5, <1>0, ViewUpdate DEF RestockTransactions, Forget, DataTypeOK
  <2>3. pc' \in [Requests -> CheckoutLabels \cup CancelLabels]
    BY <1>5, <1>0 DEF RestockTransactions, Step, DataTypeOK, CancelLabels
  <2>4. answer' \in [Requests -> Answers]
    BY <1>5, <1>0 DEF RestockTransactions, Reply, DataTypeOK, Answers
  <2> QED BY <1>5, <2>1, <2>2, <2>3, <2>4 DEF RestockTransactions, DataTypeOK
<1>6. CASE SaveReadOrders(x)
  <2>1. pc' \in [Requests -> CheckoutLabels \cup CancelLabels]
    BY <1>6, <1>0 DEF SaveReadOrders, Step, DataTypeOK, CancelLabels
  <2> QED BY <1>6, <1>0, <2>1, ViewUpdate DEF SaveReadOrders, DataTypeOK
<1>7. CASE SaveOrder(x)
  <2>0. [loaded[x].order EXCEPT !.status = "cancelled"] \in Order
    BY <1>7, <1>0 DEF SaveOrder, Step, AfterLoad, CancelLabels, Order
  <2>1. [view[x].orders EXCEPT ![loaded[x].id] = [loaded[x].order EXCEPT !.status = "cancelled"]]
          \in [Checkouts -> Order \cup {NoOrder}]
    BY <1>0, <2>0, DocumentUpdate
  <2>2. db' \in Database /\ faults' \in 0..MaxFaults
    <3>1. [db EXCEPT !.orders =
            [view[x].orders EXCEPT ![loaded[x].id] = [loaded[x].order EXCEPT !.status = "cancelled"]]] \in Database
      BY <1>0, <2>1, DocumentUpdate DEF DataTypeOK
    <3> QED BY <1>7, <3>1, MarketAssumption DEF SaveOrder, WriteFails, DataTypeOK
  <2>3. view' \in [Requests -> Database]
    BY <1>7, <1>0, ViewUpdate DEF SaveOrder, Forget, DataTypeOK
  <2>4. pc' \in [Requests -> CheckoutLabels \cup CancelLabels]
    BY <1>7, <1>0 DEF SaveOrder, Step, DataTypeOK, CancelLabels
  <2>5. answer' \in [Requests -> Answers]
    BY <1>7, <1>0 DEF SaveOrder, Reply, DataTypeOK, Answers
  <2> QED BY <1>7, <2>2, <2>3, <2>4, <2>5 DEF SaveOrder, DataTypeOK
<1>8. CASE RetakeReadProducts(x)
  BY <1>8, <1>0, ViewUpdate DEF RetakeReadProducts, DataTypeOK, Step, CancelLabels
<1>9. CASE RetakeProducts(x)
  <2>0. loaded[x].order.cart \in Carts
    BY <1>9, <1>0 DEF RetakeProducts, Step, AfterLoad, CancelLabels
  <2>1. db' \in Database /\ faults' \in 0..MaxFaults
    <3>1. [db EXCEPT !.products = Retaken(view[x].products, loaded[x].order.cart)] \in Database
      BY <1>0, <2>0, ProductsType, DocumentUpdate DEF DataTypeOK
    <3> QED BY <1>9, <3>1, MarketAssumption DEF RetakeProducts, BestEffort, WriteFails, DataTypeOK
  <2> QED BY <1>9, <1>0, <2>1 DEF RetakeProducts, DataTypeOK, Step, CancelLabels
<1>10. CASE RetakeReadTransactions(x)
  BY <1>10, <1>0, ViewUpdate DEF RetakeReadTransactions, DataTypeOK, Step, CancelLabels
<1>11. CASE RetakeTransactions(x)
  <2>1. db' \in Database /\ faults' \in 0..MaxFaults
    <3> DEFINE written == [db EXCEPT !.transactions = {t \in view[x].transactions : t.by # x}]
    <3>1. written \in Database
      BY <1>0, DocumentUpdate DEF DataTypeOK
    <3>2. \/ db' = written /\ faults' = faults
          \/ db' = db /\ faults < MaxFaults /\ faults' = faults + 1
      BY <1>11 DEF RetakeTransactions, BestEffort, WriteFails
    <3> HIDE DEF written
    <3> QED BY <3>1, <3>2, MarketAssumption DEF DataTypeOK
  <2>2. view' \in [Requests -> Database]
    BY <1>11, <1>0, ViewUpdate DEF RetakeTransactions, Forget, DataTypeOK
  <2>3. pc' \in [Requests -> CheckoutLabels \cup CancelLabels]
    BY <1>11, <1>0 DEF RetakeTransactions, Step, DataTypeOK, CancelLabels
  <2>4. answer' \in [Requests -> Answers]
    BY <1>11, <1>0 DEF RetakeTransactions, Reply, DataTypeOK, Answers
  <2> QED BY <1>11, <2>1, <2>2, <2>3, <2>4 DEF RetakeTransactions, DataTypeOK
<1> QED BY <1>1, <1>2, <1>3, <1>4, <1>5, <1>6, <1>7, <1>8, <1>9, <1>10, <1>11 DEF CancelStep

-----------------------------------------------------------------------------
(* What a step of a checkout leaves alone, and which actions touch the      *)
(* sales and the orders documents.                                          *)
LEMMA CheckoutFrame ==
  ASSUME DataTypeOK, NEW c \in Checkouts, Submit(c) \/ CheckoutStep(c)
  PROVE  /\ \A r \in Requests \ {c} : pc'[r] = pc[r] /\ view'[r] = view[r]
         /\ \A d \in Checkouts \ {c} : ctx'[d] = ctx[d]
         /\ loaded' = loaded
         /\ pc[c] \in CheckoutLabels
         /\ pc'[c] \in Unplaced => pc[c] \in Unplaced
         /\ WriteInvoice(c) \/ UndoInvoice(c) \/ db'.invoices = db.invoices
         /\ WriteOrder(c) \/ db'.orders = db.orders
         /\ \/ view'[c].orders = view[c].orders
            \/ view'[c].orders = db.orders
            \/ view'[c].orders = FreshDatabase.orders
<1>0. /\ c \in Requests
      /\ view[c] \in Database
      /\ ctx[c] \in Context
      /\ pc \in [Requests -> CheckoutLabels \cup CancelLabels]
      /\ view \in [Requests -> Database]
      /\ ctx \in [Checkouts -> Context]
      /\ db \in Database
  BY DEF DataTypeOK, Requests
<1> USE <1>0 DEF Step, Reply, Forget, WriteFails, BestEffort
<1> USE DEF Database
<1>1. CASE Submit(c)
  BY <1>1 DEF Submit, Unplaced, UnderLock, CheckoutLabels
<1>2. CASE AcquireLock(c)
  BY <1>2 DEF AcquireLock, Unplaced, UnderLock, CheckoutLabels
<1>3. CASE ReadProducts(c)
  BY <1>3 DEF ReadProducts, Unplaced, UnderLock, CheckoutLabels
<1>4. CASE WriteProducts(c)
  BY <1>4 DEF WriteProducts, Unplaced, UnderLock, CheckoutLabels
<1>5. CASE ReadTransactions(c)
  BY <1>5 DEF ReadTransactions, Unplaced, UnderLock, CheckoutLabels
<1>6. CASE WriteTransactions(c)
  BY <1>6 DEF WriteTransactions, Unplaced, UnderLock, CheckoutLabels
<1>7. CASE ReadInvoices(c)
  BY <1>7 DEF ReadInvoices, Unplaced, UnderLock, CheckoutLabels
<1>8. CASE WriteInvoice(c)
  BY <1>8 DEF WriteInvoice, Unplaced, UnderLock, CheckoutLabels
<1>9. CASE ReadOrders(c)
  BY <1>9 DEF ReadOrders, Unplaced, UnderLock, CheckoutLabels
<1>10. CASE WriteOrder(c)
  BY <1>10 DEF WriteOrder, Unplaced, UnderLock, CheckoutLabels
<1>11. CASE UndoReadInvoices(c)
  BY <1>11 DEF UndoReadInvoices, Unplaced, UnderLock, CheckoutLabels
<1>12. CASE UndoInvoice(c)
  BY <1>12 DEF UndoInvoice, Unplaced, UnderLock, CheckoutLabels
<1>13. CASE UndoReadTransactions(c)
  BY <1>13 DEF UndoReadTransactions, Unplaced, UnderLock, CheckoutLabels
<1>14. CASE UndoTransactions(c)
  BY <1>14 DEF UndoTransactions, Unplaced, UnderLock, CheckoutLabels
<1>15. CASE UndoReadProducts(c)
  BY <1>15 DEF UndoReadProducts, Unplaced, UnderLock, CheckoutLabels
<1>16. CASE UndoProducts(c)
  BY <1>16 DEF UndoProducts, Unplaced, UnderLock, CheckoutLabels
<1>17. CASE ReleaseLock(c)
  BY <1>17 DEF ReleaseLock, Unplaced, UnderLock, CheckoutLabels
<1> QED BY <1>1, <1>2, <1>3, <1>4, <1>5, <1>6, <1>7, <1>8, <1>9, <1>10, <1>11, <1>12,
           <1>13, <1>14, <1>15, <1>16, <1>17 DEF CheckoutStep

(* What a step of a cancellation leaves alone.                              *)
LEMMA CancelFrame ==
  ASSUME DataTypeOK, NEW x \in Cancels, LoadOrder(x) \/ CancelStep(x)
  PROVE  /\ \A r \in Requests \ {x} : pc'[r] = pc[r] /\ view'[r] = view[r]
         /\ \A y \in Cancels \ {x} : loaded'[y] = loaded[y]
         /\ UNCHANGED <<lockVars, ctx, crashes>>
         /\ db'.invoices = db.invoices
         /\ LoadOrder(x) \/ loaded'[x] = loaded[x]
         /\ SaveOrder(x) \/ db'.orders = db.orders
         /\ pc'[x] \in AfterLoad => LoadOrder(x) \/ pc[x] \in AfterLoad
         /\ \/ view'[x].orders = view[x].orders
            \/ view'[x].orders = db.orders
            \/ view'[x].orders = FreshDatabase.orders
<1>0. /\ x \in Requests
      /\ view[x] \in Database
      /\ pc \in [Requests -> CheckoutLabels \cup CancelLabels]
      /\ view \in [Requests -> Database]
      /\ loaded \in [Cancels -> [id : Checkouts, order : Order \cup {NoOrder}]]
      /\ db \in Database
  BY DEF DataTypeOK, Requests
<1> USE <1>0 DEF Step, Reply, Forget, WriteFails, BestEffort
<1> USE DEF Database
<1>1. CASE LoadOrder(x)
  BY <1>1 DEF LoadOrder, lockVars
<1>2. CASE RestockReadProducts(x)
  BY <1>2 DEF RestockReadProducts, AfterLoad, CancelLabels, lockVars
<1>3. CASE RestockReadTransactions(x)
  BY <1>3 DEF RestockReadTransactions, AfterLoad, CancelLabels, lockVars
<1>4. CASE RestockProducts(x)
  BY <1>4 DEF RestockProducts, AfterLoad, CancelLabels, lockVars
<1>5. CASE RestockTransactions(x)
  BY <1>5 DEF RestockTransactions, AfterLoad, CancelLabels, lockVars
<1>6. CASE SaveReadOrders(x)
  BY <1>6 DEF SaveReadOrders, AfterLoad, CancelLabels, lockVars
<1>7. CASE SaveOrder(x)
  BY <1>7 DEF SaveOrder, AfterLoad, CancelLabels, lockVars
<1>8. CASE RetakeReadProducts(x)
  BY <1>8 DEF RetakeReadProducts, AfterLoad, CancelLabels, lockVars
<1>9. CASE RetakeProducts(x)
  BY <1>9 DEF RetakeProducts, AfterLoad, CancelLabels, lockVars
<1>10. CASE RetakeReadTransactions(x)
  BY <1>10 DEF RetakeReadTransactions, AfterLoad, CancelLabels, lockVars
<1>11. CASE RetakeTransactions(x)
  BY <1>11 DEF RetakeTransactions, AfterLoad, CancelLabels, lockVars
<1> QED BY <1>1, <1>2, <1>3, <1>4, <1>5, <1>6, <1>7, <1>8, <1>9, <1>10, <1>11 DEF CancelStep

-----------------------------------------------------------------------------
(* A step that leaves the lock alone keeps its invariant.                   *)
LEMMA LockUntouched ==
  ASSUME StockLock!LockInv, UNCHANGED lockVars
  PROVE  StockLock!LockInv'
BY DEF lockVars, StockLock!LockInv, StockLock!LockTypeOK, StockLock!Waiting,
       StockLock!MutualExclusion

(* acquire() and release() as the checkout calls them.                      *)
LEMMA LockCalls ==
  ASSUME NEW c \in Checkouts, StockLock!LockInv
  PROVE  /\ StockLock!Acquire(c) => StockLock!LockInv'
         /\ StockLock!Release(c) => StockLock!LockInv'
         /\ StockLock!Restart => StockLock!LockInv'
<1> USE DEF StockLock!LockInv, StockLock!LockTypeOK, StockLock!Waiting,
            StockLock!MutualExclusion, StockLock!Acquire, StockLock!Release,
            StockLock!Restart, LockProofs!LockInv, LockProofs!LockTypeOK,
            LockProofs!Waiting, LockProofs!MutualExclusion, LockProofs!Acquire,
            LockProofs!Release, LockProofs!Restart
<1>1. StockLock!Acquire(c) => StockLock!LockInv'
  BY LockProofs!AcquireKeepsInv
<1>2. StockLock!Release(c) => StockLock!LockInv'
  BY LockProofs!ReleaseKeepsInv
<1>3. StockLock!Restart => StockLock!LockInv'
  BY LockProofs!FreshLockInv
<1> QED BY <1>1, <1>2, <1>3

(* A checkout takes part in the lock by AcquireLock and ReleaseLock alone,  *)
(* and is a holder wherever it is between the two.                          *)
LEMMA CheckoutHolds ==
  ASSUME DataTypeOK, HoldersInv, NEW c \in Checkouts, Submit(c) \/ CheckoutStep(c)
  PROVE  HoldersInv'
<1>0. pc \in [Requests -> CheckoutLabels \cup CancelLabels] /\ Checkouts \subseteq Requests
  BY DEF DataTypeOK, Requests
<1>1. CASE AcquireLock(c)
  <2>1. StockLock!LockInv'
    BY <1>1, LockCalls DEF AcquireLock, HoldersInv
  <2>2. granted \subseteq granted'
    BY <1>1 DEF AcquireLock, StockLock!Acquire
  <2>3. pc'[c] \notin UnderLock
    BY <1>0, <1>1 DEF AcquireLock, Step, UnderLock
  <2>4. \A d \in Checkouts \ {c} : pc'[d] = pc[d]
    BY <1>0, <1>1 DEF AcquireLock, Step
  <2> QED BY <2>1, <2>2, <2>3, <2>4 DEF HoldersInv
<1>2. CASE ReleaseLock(c)
  <2>1. StockLock!LockInv'
    BY <1>2, LockCalls DEF ReleaseLock, HoldersInv
  <2>2. \A d \in Checkouts \ {c} : pc[d] \notin UnderLock
    BY <1>2 DEF ReleaseLock, StockLock!Release, HoldersInv, StockLock!LockInv,
                StockLock!MutualExclusion
  <2>3. \A d \in Checkouts : pc'[d] \notin UnderLock
    BY <1>0, <1>2, <2>2 DEF ReleaseLock, Step, UnderLock
  <2> QED BY <2>1, <2>3 DEF HoldersInv
<1>3. CASE ~AcquireLock(c) /\ ~ReleaseLock(c)
  <2>1. /\ UNCHANGED lockVars
        /\ pc'[c] \in UnderLock => c \in granted
        /\ \A d \in Checkouts \ {c} : pc'[d] = pc[d]
    <3> USE <1>0 DEF Step, HoldersInv
    <3>1. CASE Submit(c)
      BY <3>1 DEF Submit, UnderLock
    <3>2. CASE ReadProducts(c)
      BY <3>2 DEF ReadProducts
    <3>3. CASE WriteProducts(c)
      BY <3>3 DEF WriteProducts, UnderLock, CheckoutLabels
    <3>4. CASE ReadTransactions(c)
      BY <3>4 DEF ReadTransactions, UnderLock, CheckoutLabels
    <3>5. CASE WriteTransactions(c)
      BY <3>5 DEF WriteTransactions, UnderLock, CheckoutLabels
    <3>6. CASE ReadInvoices(c)
      BY <3>6 DEF ReadInvoices, UnderLock, CheckoutLabels
    <3>7. CASE WriteInvoice(c)
      BY <3>7 DEF WriteInvoice, UnderLock, CheckoutLabels
    <3>8. CASE ReadOrders(c)
      BY <3>8 DEF ReadOrders, UnderLock, CheckoutLabels
    <3>9. CASE WriteOrder(c)
      BY <3>9 DEF WriteOrder, UnderLock, CheckoutLabels
    <3>10. CASE UndoReadInvoices(c)
      BY <3>10 DEF UndoReadInvoices, UnderLock, CheckoutLabels
    <3>11. CASE UndoInvoice(c)
      BY <3>11 DEF UndoInvoice, UnderLock, CheckoutLabels
    <3>12. CASE UndoReadTransactions(c)
      BY <3>12 DEF UndoReadTransactions, UnderLock, CheckoutLabels
    <3>13. CASE UndoTransactions(c)
      BY <3>13 DEF UndoTransactions, UnderLock, CheckoutLabels
    <3>14. CASE UndoReadProducts(c)
      BY <3>14 DEF UndoReadProducts, UnderLock, CheckoutLabels
    <3>15. CASE UndoProducts(c)
      BY <3>15 DEF UndoProducts, UnderLock, CheckoutLabels
    <3> QED BY <1>3, <3>1, <3>2, <3>3, <3>4, <3>5, <3>6, <3>7, <3>8, <3>9, <3>10, <3>11,
               <3>12, <3>13, <3>14, <3>15 DEF CheckoutStep
  <2>2. StockLock!LockInv'
    BY <2>1, LockUntouched DEF HoldersInv
  <2> QED BY <2>1, <2>2 DEF HoldersInv, lockVars
<1> QED BY <1>1, <1>2, <1>3

-----------------------------------------------------------------------------
(* An order document that agrees with the stores before a step of a         *)
(* checkout agrees with them after it: an invoice only leaves the sales     *)
(* document by the rollback of its own checkout, whose order is on no file. *)
LEMMA CheckoutKeepsAgreement ==
  ASSUME IInv, NEW c \in Checkouts, Submit(c) \/ CheckoutStep(c)
  PROVE  /\ \A i \in db.invoices : i \in db'.invoices \/ pc[i.by] = "undoInvoice"
         /\ \A o \in Checkouts : pc'[o] \in Unplaced => pc[o] \in Unplaced
         /\ \A r \in Requests : Agrees(view[r].orders)'
         /\ Agrees(db.orders)'
<1>0. DataTypeOK /\ Checkouts \subseteq Requests
  BY DEF IInv, TypeOK, DataTypeOK, Requests
<1>1. \A i \in db.invoices : i \in db'.invoices \/ pc[i.by] = "undoInvoice"
  <2>1. CASE WriteInvoice(c)
    <3>1. pc[c] = "writeInvoice"
      BY <2>1 DEF WriteInvoice, Step
    <3>2. view[c].invoices = db.invoices
      BY <3>1 DEF IInv, InvoiceInv
    <3>3. \/ db'.invoices = view[c].invoices \cup {[id |-> ctx[c].invoice, by |-> c]}
          \/ db'.invoices = db.invoices
      BY <1>0, <2>1 DEF WriteInvoice, WriteFails, DataTypeOK, Database
    <3> QED BY <3>2, <3>3
  <2>2. CASE UndoInvoice(c)
    <3>1. pc[c] = "undoInvoice"
      BY <2>2 DEF UndoInvoice, Step
    <3>2. /\ view[c].invoices = db.invoices
          /\ [id |-> ctx[c].invoice, by |-> c] \in db.invoices
      BY <3>1 DEF IInv, InvoiceInv
    <3>3. \/ db'.invoices = {i \in view[c].invoices : i.id # ctx[c].invoice}
          \/ db'.invoices = db.invoices
      BY <1>0, <2>2 DEF UndoInvoice, BestEffort, WriteFails, DataTypeOK, Database
    <3>4. \A i \in db.invoices : i.id = ctx[c].invoice => i.by = c
      BY <3>2 DEF IInv, InvoiceInv, InvoicesDistinct
    <3> QED BY <3>1, <3>2, <3>3, <3>4
  <2>3. CASE db'.invoices = db.invoices
    BY <2>3
  <2> QED BY <1>0, <2>1, <2>2, <2>3, CheckoutFrame
<1>2. \A o \in Checkouts : pc'[o] \in Unplaced => pc[o] \in Unplaced
  BY <1>0, CheckoutFrame
<1>3. "undoInvoice" \in Unplaced
  BY DEF Unplaced, UnderLock, CheckoutLabels
<1>4. ASSUME NEW orders, Agrees(orders)
      PROVE  Agrees(orders)'
  BY <1>1, <1>2, <1>3, <1>4 DEF Agrees
<1>5. Agrees(FreshDatabase.orders)
  BY DEF Agrees, FreshDatabase
<1>6. \A r \in Requests : Agrees(view[r].orders)'
  <2> SUFFICES ASSUME NEW r \in Requests PROVE Agrees(view[r].orders)'
    OBVIOUS
  <2>1. \/ view'[r].orders = view[r].orders
        \/ view'[r].orders = db.orders
        \/ view'[r].orders = FreshDatabase.orders
    BY <1>0, CheckoutFrame
  <2>2. Agrees(view[r].orders) /\ Agrees(db.orders)
    BY DEF IInv, OrdersInv
  <2> QED BY <1>4, <1>5, <2>1, <2>2 DEF Agrees
<1>7. Agrees(db.orders)'
  <2>1. CASE db'.orders = db.orders
    BY <2>1, <1>4 DEF IInv, OrdersInv, Agrees
  <2>2. CASE WriteOrder(c) /\ db'.orders # db.orders
    <3>1. pc[c] = "writeOrder"
      BY <2>2 DEF WriteOrder, Step
    <3>2. /\ pc'[c] = "release"
          /\ db'.orders = [view[c].orders EXCEPT ![c] = NewOrder(c)]
      BY <1>0, <2>2 DEF WriteOrder, WriteFails, Step, DataTypeOK, Database
    <3>3. [id |-> ctx[c].invoice, by |-> c] \in db.invoices
      BY <3>1 DEF IInv, InvoiceInv
    <3>4. db'.invoices = db.invoices
      BY <1>0, <2>2 DEF WriteOrder, WriteFails, DataTypeOK, Database
    <3>5. pc'[c] \notin Unplaced
      BY <3>2 DEF Unplaced, UnderLock
    <3>6. Agrees(view[c].orders)'
      BY <1>0, <1>6
    <3>7. view[c].orders \in [Checkouts -> Order \cup {NoOrder}]
      BY <1>0, DocumentUpdate DEF DataTypeOK
    <3>8. \A o \in Checkouts \ {c} : db'.orders[o] = view[c].orders[o]
      BY <3>2, <3>7
    <3>9. \A o \in Checkouts \ {c} : view'[c].orders[o] = view[c].orders[o]
      BY <2>2 DEF WriteOrder
    <3>10. db'.orders[c].invoice = ctx[c].invoice
      BY <3>2, <3>7 DEF NewOrder
    <3> QED BY <3>3, <3>4, <3>5, <3>6, <3>8, <3>9, <3>10 DEF Agrees
  <2> QED BY <1>0, <2>1, <2>2, CheckoutFrame
<1> QED BY <1>1, <1>2, <1>6, <1>7

(* The orders part of the invariant over a step of a checkout.              *)
LEMMA CheckoutKeepsOrders ==
  ASSUME IInv, NEW c \in Checkouts, Submit(c) \/ CheckoutStep(c)
  PROVE  OrdersInv' /\ LoadedInv'
<1>0. DataTypeOK /\ c \notin Cancels /\ Cancels \subseteq Requests
  BY MarketAssumption DEF IInv, TypeOK, DataTypeOK, Requests
<1>1. loaded' = loaded /\ \A x \in Cancels : pc'[x] = pc[x]
  BY <1>0, CheckoutFrame
<1>2. "undoInvoice" \in Unplaced
  BY DEF Unplaced, UnderLock, CheckoutLabels
<1>3. ASSUME NEW x \in Cancels, loaded[x].order # NoOrder
      PROVE  /\ [id |-> loaded[x].order.invoice, by |-> loaded[x].id] \in db'.invoices
             /\ pc'[loaded[x].id] \notin Unplaced
  <2>1. /\ [id |-> loaded[x].order.invoice, by |-> loaded[x].id] \in db.invoices
        /\ pc[loaded[x].id] \notin Unplaced
    BY <1>3 DEF IInv, OrdersInv
  <2>2. loaded[x].id \in Checkouts
    BY <1>0 DEF DataTypeOK
  <2> QED BY <1>2, <2>1, <2>2, CheckoutKeepsAgreement
<1>4. LoadedInv'
  BY <1>1 DEF IInv, LoadedInv
<1> QED BY <1>1, <1>3, <1>4, CheckoutKeepsAgreement DEF OrdersInv

(* The lock makes the copy of the sales document current: while a checkout  *)
(* is between reading and writing it, no other checkout is, and nothing     *)
(* else writes it.                                                          *)
LEMMA CheckoutKeepsInvoices ==
  ASSUME IInv, NEW c \in Checkouts, Submit(c) \/ CheckoutStep(c)
  PROVE  InvoiceInv'
<1> DEFINE OnFile == {"readOrders", "writeOrder", "undoReadInvoices", "undoInvoice"}
           Mine(d) == [id |-> ctx[d].invoice, by |-> d]
<1>0. /\ DataTypeOK
      /\ Checkouts \subseteq Requests
      /\ db \in Database
      /\ view \in [Requests -> Database]
      /\ ctx \in [Checkouts -> Context]
      /\ pc \in [Requests -> CheckoutLabels \cup CancelLabels]
  BY DEF IInv, TypeOK, DataTypeOK, Requests
<1>1. /\ InvoicesDistinct
      /\ pc[c] = "writeInvoice" => /\ view[c].invoices = db.invoices
                                   /\ \A i \in db.invoices : i.id # ctx[c].invoice
      /\ pc[c] = "undoInvoice" => view[c].invoices = db.invoices
      /\ pc[c] \in OnFile => Mine(c) \in db.invoices
  BY DEF IInv, InvoiceInv
<1>2. ASSUME NEW d \in Checkouts \ {c}
      PROVE  pc'[d] = pc[d] /\ view'[d] = view[d] /\ ctx'[d] = ctx[d]
  BY <1>0, <1>2, CheckoutFrame
<1>3. ASSUME NEW d \in Checkouts \ {c}, pc[d] \in UnderLock
      PROVE  pc[c] \notin UnderLock
  BY <1>3 DEF IInv, HoldersInv, StockLock!LockInv, StockLock!MutualExclusion
<1>4. /\ "writeInvoice" \in UnderLock /\ "undoInvoice" \in UnderLock
      /\ OnFile \subseteq UnderLock
  BY DEF UnderLock, CheckoutLabels
<1>5. CASE WriteInvoice(c)
  <2>1. pc[c] = "writeInvoice" /\ pc[c] \in UnderLock
    BY <1>4, <1>5 DEF WriteInvoice, Step
  <2>2. \A d \in Checkouts \ {c} : pc[d] \notin UnderLock
    BY <1>3, <2>1
  <2>3. ctx' = ctx /\ view' = view
    BY <1>5 DEF WriteInvoice
  <2>4. \/ /\ pc'[c] = "readOrders"
           /\ db'.invoices = db.invoices \cup {Mine(c)}
        \/ /\ pc'[c] = "undoReadTransactions"
           /\ db'.invoices = db.invoices
    BY <1>0, <1>1, <1>5, <2>1 DEF WriteInvoice, WriteFails, Step, Database
  <2>5. InvoicesDistinct'
    BY <1>1, <2>1, <2>4 DEF InvoicesDistinct
  <2> QED BY <1>2, <1>4, <2>2, <2>3, <2>4, <2>5 DEF InvoiceInv
<1>6. CASE UndoInvoice(c)
  <2>1. pc[c] = "undoInvoice" /\ pc[c] \in UnderLock
    BY <1>4, <1>6 DEF UndoInvoice, Step
  <2>2. \A d \in Checkouts \ {c} : pc[d] \notin UnderLock
    BY <1>3, <2>1
  <2>3. pc'[c] = "undoReadTransactions" /\ db'.invoices \subseteq db.invoices
    BY <1>0, <1>1, <1>6, <2>1 DEF UndoInvoice, BestEffort, WriteFails, Step, Database
  <2>4. InvoicesDistinct'
    BY <1>1, <2>3 DEF InvoicesDistinct
  <2> QED BY <1>2, <1>4, <2>2, <2>3, <2>4 DEF InvoiceInv
<1>7. CASE ~WriteInvoice(c) /\ ~UndoInvoice(c)
  <2>1. db'.invoices = db.invoices
    BY <1>0, <1>7, CheckoutFrame
  <2>2. /\ pc'[c] = "writeInvoice" => /\ view'[c].invoices = db.invoices
                                      /\ \A i \in db.invoices : i.id # ctx'[c].invoice
        /\ pc'[c] = "undoInvoice" => view'[c].invoices = db.invoices
        /\ pc'[c] \in OnFile => pc[c] \in OnFile /\ ctx'[c] = ctx[c]
    <3> USE <1>0 DEF Step, Reply, Forget, WriteFails, BestEffort, Database
    <3>1. CASE Submit(c)
      BY <3>1 DEF Submit
    <3>2. CASE AcquireLock(c)
      BY <3>2 DEF AcquireLock
    <3>3. CASE ReadProducts(c)
      BY <3>3 DEF ReadProducts
    <3>4. CASE WriteProducts(c)
      BY <3>4 DEF WriteProducts
    <3>5. CASE ReadTransactions(c)
      BY <3>5 DEF ReadTransactions
    <3>6. CASE WriteTransactions(c)
      BY <3>6 DEF WriteTransactions
    <3>7. CASE ReadInvoices(c)
      BY <3>7 DEF ReadInvoices, Context
    <3>8. CASE ReadOrders(c)
      BY <3>8 DEF ReadOrders
    <3>9. CASE WriteOrder(c)
      BY <3>9 DEF WriteOrder
    <3>10. CASE UndoReadInvoices(c)
      BY <3>10 DEF UndoReadInvoices
    <3>11. CASE UndoReadTransactions(c)
      BY <3>11 DEF UndoReadTransactions
    <3>12. CASE UndoTransactions(c)
      BY <3>12 DEF UndoTransactions
    <3>13. CASE UndoReadProducts(c)
      BY <3>13 DEF UndoReadProducts
    <3>14. CASE UndoProducts(c)
      BY <3>14 DEF UndoProducts
    <3>15. CASE ReleaseLock(c)
      BY <3>15 DEF ReleaseLock
    <3> QED BY <1>7, <3>1, <3>2, <3>3, <3>4, <3>5, <3>6, <3>7, <3>8, <3>9, <3>10, <3>11,
               <3>12, <3>13, <3>14, <3>15 DEF CheckoutStep
  <2>3. InvoicesDistinct'
    BY <1>1, <2>1 DEF InvoicesDistinct
  <2>4. \A d \in Checkouts \ {c} :
          /\ pc'[d] = "writeInvoice" => /\ view'[d].invoices = db.invoices
                                        /\ \A i \in db.invoices : i.id # ctx'[d].invoice
          /\ pc'[d] = "undoInvoice" => view'[d].invoices = db.invoices
          /\ pc'[d] \in OnFile => Mine(d)' \in db.invoices
    BY <1>2 DEF IInv, InvoiceInv
  <2>5. pc'[c] \in OnFile => Mine(c)' \in db.invoices
    BY <1>1, <2>2
  <2> QED BY <2>1, <2>2, <2>3, <2>4, <2>5 DEF InvoiceInv
<1> QED BY <1>5, <1>6, <1>7

-----------------------------------------------------------------------------
(* A cancellation writes nothing the invariant is about but the orders, and *)
(* the record it saves is an order it has loaded, which is past placing.    *)
LEMMA CancelKeepsInv ==
  ASSUME IInv, NEW x \in Cancels, LoadOrder(x) \/ CancelStep(x)
  PROVE  IInv'
<1>0. /\ DataTypeOK
      /\ x \in Requests /\ x \notin Checkouts
      /\ Checkouts \subseteq Requests
      /\ db \in Database
      /\ \A y \in Cancels : loaded[y].id \in Checkouts
  BY MarketAssumption DEF IInv, TypeOK, DataTypeOK, Requests
<1>1. /\ \A c \in Checkouts : pc'[c] = pc[c] /\ view'[c] = view[c]
      /\ UNCHANGED <<lockVars, ctx, crashes>>
      /\ db'.invoices = db.invoices
  BY <1>0, CancelFrame
<1>2. HoldersInv'
  <2>1. StockLock!LockInv'
    BY <1>1, LockUntouched DEF IInv, HoldersInv
  <2> QED BY <1>1, <2>1 DEF IInv, HoldersInv, lockVars
<1>3. TypeOK'
  <2>1. DataTypeOK'
    BY <1>0, CancelType DEF IInv
  <2> QED BY <1>2, <2>1 DEF TypeOK, DataTypeOK, HoldersInv, StockLock!LockInv
<1>4. InvoiceInv'
  BY <1>1 DEF IInv, InvoiceInv, InvoicesDistinct
<1>5. \A o \in Checkouts : loaded'[x].id = o /\ LoadOrder(x) /\ loaded'[x] # loaded[x]
        => loaded'[x].order = db.orders[o]
  BY <1>0 DEF LoadOrder, DataTypeOK
<1>6. ASSUME NEW y \in Cancels, loaded'[y].order # NoOrder
      PROVE  /\ [id |-> loaded'[y].order.invoice, by |-> loaded'[y].id] \in db.invoices
             /\ pc[loaded'[y].id] \notin Unplaced
  <2>1. CASE loaded'[y] = loaded[y]
    BY <1>6, <2>1 DEF IInv, OrdersInv
  <2>2. CASE loaded'[y] # loaded[y]
    <3>1. y = x /\ LoadOrder(x)
      BY <1>0, <2>2, CancelFrame
    <3>2. loaded'[x].id \in Checkouts
      BY <1>3 DEF TypeOK
    <3> QED BY <1>5, <1>6, <2>2, <3>1, <3>2 DEF IInv, OrdersInv, Agrees
  <2> QED BY <2>1, <2>2
<1>7. ASSUME NEW orders, Agrees(orders)
      PROVE  Agrees(orders)'
  BY <1>1, <1>7 DEF Agrees
<1>8. Agrees(FreshDatabase.orders)
  BY DEF Agrees, FreshDatabase
<1>9. \A r \in Requests : Agrees(view[r].orders)'
  <2> SUFFICES ASSUME NEW r \in Requests PROVE Agrees(view[r].orders)'
    OBVIOUS
  <2>1. \/ view'[r].orders = view[r].orders
        \/ view'[r].orders = db.orders
        \/ view'[r].orders = FreshDatabase.orders
    BY <1>0, CancelFrame
  <2>2. Agrees(view[r].orders) /\ Agrees(db.orders)
    BY DEF IInv, OrdersInv
  <2> QED BY <1>7, <1>8, <2>1, <2>2 DEF Agrees
<1>10. LoadedInv'
  <2> SUFFICES ASSUME NEW y \in Cancels, pc'[y] \in AfterLoad
               PROVE  loaded'[y].order # NoOrder
    BY DEF LoadedInv
  <2>1. CASE y # x
    <3>1. pc'[y] = pc[y] /\ loaded'[y] = loaded[y]
      BY <1>0, <2>1, CancelFrame DEF Requests
    <3> QED BY <3>1 DEF IInv, LoadedInv
  <2>2. CASE y = x /\ LoadOrder(x)
    <3>1. pc'[x] \in AfterLoad
      BY <2>2
    <3>2. \E o \in Checkouts :
             db.orders[o] # NoOrder /\ loaded'[x] = [id |-> o, order |-> db.orders[o]]
      BY <1>0, <2>2, <3>1 DEF LoadOrder, Step, AfterLoad, DataTypeOK
    <3>3. loaded'[x].order # NoOrder
      BY <3>2
    <3> QED BY <2>2, <3>3
  <2>3. CASE y = x /\ ~LoadOrder(x)
    <3>1. pc[x] \in AfterLoad /\ loaded'[x] = loaded[x]
      BY <1>0, <2>3, CancelFrame
    <3> QED BY <2>3, <3>1 DEF IInv, LoadedInv
  <2> QED BY <2>1, <2>2, <2>3
<1>11. Agrees(db.orders)'
  <2>1. CASE db'.orders = db.orders
    BY <2>1, <1>7 DEF IInv, OrdersInv, Agrees
  <2>2. CASE SaveOrder(x) /\ db'.orders # db.orders
    <3> DEFINE o == loaded[x].id
               saved == [loaded[x].order EXCEPT !.status = "cancelled"]
    <3>1. pc[x] \in AfterLoad
      BY <2>2 DEF SaveOrder, Step, AfterLoad, CancelLabels
    <3>2. loaded[x].order \in Order /\ loaded[x].order # NoOrder
      BY <1>0, <3>1 DEF IInv, LoadedInv, DataTypeOK
    <3>3. saved.invoice = loaded[x].order.invoice
      BY <3>2 DEF Order
    <3>4. /\ [id |-> loaded[x].order.invoice, by |-> o] \in db.invoices
          /\ pc[o] \notin Unplaced
      BY <3>2 DEF IInv, OrdersInv
    <3>5. db'.orders = [view[x].orders EXCEPT ![o] = saved]
      BY <1>0, <2>2 DEF SaveOrder, WriteFails, Database
    <3>6. view[x].orders \in [Checkouts -> Order \cup {NoOrder}]
      BY <1>0, DocumentUpdate DEF DataTypeOK
    <3>7. \A d \in Checkouts \ {o} : db'.orders[d] = view[x].orders[d]
      BY <3>5, <3>6
    <3>8. db'.orders[o] = saved
      BY <1>0, <3>5, <3>6
    <3>9. Agrees(view[x].orders)
      BY <1>0 DEF IInv, OrdersInv
    <3> HIDE DEF saved
    <3> QED BY <1>1, <3>3, <3>4, <3>7, <3>8, <3>9 DEF Agrees
  <2> QED BY <1>0, <2>1, <2>2, CancelFrame
<1>12. OrdersInv'
  <2>1. \A y \in Cancels : loaded'[y].id \in Checkouts
    BY <1>3 DEF TypeOK
  <2> QED BY <1>1, <1>6, <1>9, <1>11, <2>1 DEF OrdersInv
<1> QED BY <1>2, <1>3, <1>4, <1>10, <1>12 DEF IInv

(* A restart keeps the documents and drops everything that could disagree   *)
(* with them.                                                               *)
LEMMA CrashKeepsInv ==
  ASSUME IInv, Crash
  PROVE  IInv'
<1>0. /\ DataTypeOK
      /\ Checkouts \subseteq Requests /\ Cancels \subseteq Requests
      /\ db' = db /\ ctx' = ctx /\ loaded' = loaded
      /\ \A r \in Requests : /\ pc'[r] \in {"start", "done", "lost"}
                             /\ pc'[r] = pc[r] \/ pc'[r] = "lost"
                             /\ view'[r] = FreshDatabase
  BY DEF IInv, TypeOK, DataTypeOK, Requests, Crash, InFlight
<1>1. /\ "lost" \notin Unplaced /\ "done" \notin Unplaced
      /\ UnderLock \cap {"start", "done", "lost"} = {}
      /\ AfterLoad \cap {"start", "done", "lost"} = {}
  BY DEF Unplaced, UnderLock, CheckoutLabels, AfterLoad, CancelLabels
<1>2. HoldersInv'
  <2>1. StockLock!LockInv'
    <3>1. PICK c \in Checkouts : TRUE
      BY MarketAssumption
    <3> QED BY <3>1, LockCalls DEF Crash, IInv, HoldersInv
  <2>2. \A c \in Checkouts : pc'[c] \notin UnderLock
    BY <1>0, <1>1
  <2> QED BY <2>1, <2>2 DEF HoldersInv
<1>3. TypeOK'
  <2>1. view' \in [Requests -> Database]
    <3>1. FreshDatabase \in Database
      BY MarketAssumption DEF FreshDatabase, Database, NoOrder
    <3> QED BY <3>1 DEF Crash
  <2>2. pc' \in [Requests -> CheckoutLabels \cup CancelLabels]
    BY <1>0 DEF Crash, DataTypeOK, CheckoutLabels
  <2>3. crashes' \in 0..MaxCrashes
    BY <1>0, MarketAssumption DEF Crash, DataTypeOK
  <2> QED BY <1>0, <1>2, <2>1, <2>2, <2>3
       DEF Crash, TypeOK, DataTypeOK, HoldersInv, StockLock!LockInv
<1>4. LoadedInv' /\ InvoiceInv'
  BY <1>0, <1>1 DEF IInv, LoadedInv, InvoiceInv, InvoicesDistinct
<1>5. OrdersInv'
  <2>1. \A c \in Checkouts : pc'[c] \in Unplaced => pc[c] \in Unplaced
    BY <1>0, <1>1
  <2>2. Agrees(db.orders)'
    BY <1>0, <2>1 DEF IInv, OrdersInv, Agrees
  <2>3. \A r \in Requests : Agrees(view[r].orders)'
    BY <1>0 DEF Agrees, FreshDatabase
  <2>4. \A y \in Cancels : loaded[y].id \in Checkouts
    BY <1>0 DEF DataTypeOK
  <2> QED BY <1>0, <2>1, <2>2, <2>3, <2>4 DEF IInv, OrdersInv
<1> QED BY <1>2, <1>3, <1>4, <1>5 DEF IInv

(* The initial states satisfy the invariant.                                *)
LEMMA InitInv == Init => IInv
<1> SUFFICES ASSUME Init PROVE IInv
  OBVIOUS
<1>1. TypeOK
  BY InitType
<1>2. Checkouts \subseteq Requests /\ Cancels \subseteq Requests
  BY DEF Requests
<1>3. /\ db = FreshDatabase
      /\ \A r \in Requests : pc[r] = "start" /\ view[r] = FreshDatabase
      /\ \A x \in Cancels : loaded[x].order = NoOrder
  BY DEF Init
<1>4. HoldersInv
  <2>1. StockLock!LockInv
    BY LockProofs!FreshLockInv
       DEF Init, StockLock!Init, StockLock!LockInv, StockLock!LockTypeOK,
           StockLock!Waiting, StockLock!MutualExclusion, LockProofs!Init,
           LockProofs!LockInv, LockProofs!LockTypeOK, LockProofs!Waiting,
           LockProofs!MutualExclusion
  <2> QED BY <1>2, <1>3, <2>1 DEF HoldersInv, UnderLock
<1>5. LoadedInv
  BY <1>2, <1>3 DEF LoadedInv, AfterLoad
<1>6. OrdersInv
  BY <1>3 DEF OrdersInv, Agrees, FreshDatabase
<1>7. InvoiceInv
  BY <1>2, <1>3 DEF InvoiceInv, InvoicesDistinct, FreshDatabase
<1> QED BY <1>1, <1>4, <1>5, <1>6, <1>7 DEF IInv

(* Every step keeps the invariant.                                          *)
LEMMA NextKeepsInv ==
  ASSUME IInv, [Next]_vars
  PROVE  IInv'
<1>1. ASSUME NEW c \in Checkouts, Submit(c) \/ CheckoutStep(c)
      PROVE  IInv'
  <2>1. DataTypeOK /\ HoldersInv
    BY DEF IInv, TypeOK, DataTypeOK
  <2>2. DataTypeOK' /\ HoldersInv'
    BY <1>1, <2>1, CheckoutType, CheckoutHolds
  <2>3. TypeOK'
    BY <2>2 DEF TypeOK, DataTypeOK, HoldersInv, StockLock!LockInv
  <2> QED BY <1>1, <2>2, <2>3, CheckoutKeepsOrders, CheckoutKeepsInvoices DEF IInv
<1>2. ASSUME NEW x \in Cancels, LoadOrder(x) \/ CancelStep(x)
      PROVE  IInv'
  BY <1>2, CancelKeepsInv
<1>3. CASE Crash
  BY <1>3, CrashKeepsInv
<1>4. CASE UNCHANGED vars
  BY <1>4 DEF vars, lockVars, IInv, TypeOK, HoldersInv, LoadedInv, OrdersInv, Agrees,
              InvoiceInv, InvoicesDistinct, StockLock!LockInv, StockLock!LockTypeOK,
              StockLock!Waiting, StockLock!MutualExclusion
<1> QED BY <1>1, <1>2, <1>3, <1>4 DEF Next

-----------------------------------------------------------------------------
(* The inductive invariant holds in every reachable state.                  *)
THEOREM MarketInvariant == Spec => []IInv
BY InitInv, NextKeepsInv, PTL DEF Spec

(* Every variable keeps its type.                                           *)
THEOREM TypeCorrect == Spec => []TypeOK
<1>1. IInv => TypeOK
  BY DEF IInv
<1> QED BY <1>1, MarketInvariant, PTL

(* No two checkouts are ever inside the locked section of processCheckout.  *)
THEOREM LockExcludesCheckouts == Spec => []OneCheckoutAtATime
<1>1. IInv => OneCheckoutAtATime
  BY DEF IInv, HoldersInv, OneCheckoutAtATime, StockLock!LockInv, StockLock!MutualExclusion
<1> QED BY <1>1, MarketInvariant, PTL

(* Invoice ids are unique: the duplicate check of salesService.create and   *)
(* the write that follows it are not interleaved with another checkout's.   *)
THEOREM InvoicesStayDistinct == Spec => []InvoicesDistinct
<1>1. IInv => InvoicesDistinct
  BY DEF IInv, InvoiceInv
<1> QED BY <1>1, MarketInvariant, PTL

(* Every order on file has its invoice on file, through rollbacks, store    *)
(* failures, restarts and cancellations that write back stale orders.       *)
THEOREM OrdersAreInvoiced == Spec => []OrderHasInvoice
<1>1. IInv => OrderHasInvoice
  BY DEF IInv, OrdersInv, Agrees, OrderHasInvoice
<1> QED BY <1>1, MarketInvariant, PTL

-----------------------------------------------------------------------------
(* Nobody is left behind at stockLock: its holder and its queue are         *)
(* together exactly the checkouts between acquire() and release().          *)
Inside == UnderLock \cup {"readProducts"}

InsideInv == granted \cup StockLock!Waiting = {c \in Checkouts : pc[c] \in Inside}

(* A checkout that asks for the lock is not in the queue already, one that  *)
(* is past acquire() may release it, and one that waits waits behind a      *)
(* checkout on its way to release(), after refusals, rollbacks and restarts *)
(* too: the safety half of EveryRequestAnswered.                            *)
NobodyIsForgotten ==
  \A c \in Checkouts :
    /\ pc[c] = "acquire" => c \notin granted \cup StockLock!Waiting
    /\ pc[c] \in UnderLock => c \in granted
    /\ pc[c] = "readProducts" => \E d \in granted : pc[d] \in Inside

(* acquire() and release() change who is inside by their caller.            *)
LEMMA LockChanges ==
  ASSUME NEW c \in Checkouts, StockLock!LockInv
  PROVE  /\ StockLock!Acquire(c) =>
              granted' \cup StockLock!Waiting' = (granted \cup StockLock!Waiting) \cup {c}
         /\ StockLock!Release(c) =>
              granted' \cup StockLock!Waiting' = (granted \cup StockLock!Waiting) \ {c}
<1> USE DEF StockLock!LockInv, StockLock!LockTypeOK, StockLock!Waiting,
            StockLock!MutualExclusion, StockLock!Acquire, StockLock!Release,
            LockProofs!LockInv, LockProofs!LockTypeOK, LockProofs!Waiting,
            LockProofs!MutualExclusion, LockProofs!Acquire, LockProofs!Release
<1>1. StockLock!Acquire(c) =>
        granted' \cup StockLock!Waiting' = (granted \cup StockLock!Waiting) \cup {c}
  BY LockProofs!AcquireAdmits
<1>2. StockLock!Release(c) =>
        granted' \cup StockLock!Waiting' = (granted \cup StockLock!Waiting) \ {c}
  BY LockProofs!ReleaseDismisses
<1> QED BY <1>1, <1>2

(* A step of a checkout goes in by acquire(), out by release(), or neither. *)
LEMMA CheckoutKeepsInside ==
  ASSUME IInv, InsideInv, NEW c \in Checkouts, Submit(c) \/ CheckoutStep(c)
  PROVE  InsideInv'
<1>0. /\ pc \in [Requests -> CheckoutLabels \cup CancelLabels] /\ Checkouts \subseteq Requests
      /\ DataTypeOK /\ StockLock!LockInv
  BY DEF IInv, TypeOK, DataTypeOK, HoldersInv, Requests
<1>1. \A d \in Checkouts \ {c} : pc'[d] = pc[d]
  BY <1>0, CheckoutFrame
<1>2. CASE AcquireLock(c)
  <2>1. pc'[c] = "readProducts"
    BY <1>0, <1>2 DEF AcquireLock, Step
  <2>2. granted' \cup StockLock!Waiting' = (granted \cup StockLock!Waiting) \cup {c}
    BY <1>0, <1>2, LockChanges DEF AcquireLock
  <2> QED BY <1>1, <2>1, <2>2 DEF InsideInv, Inside
<1>3. CASE ReleaseLock(c)
  <2>1. pc'[c] = "done"
    BY <1>0, <1>3 DEF ReleaseLock, Step
  <2>2. granted' \cup StockLock!Waiting' = (granted \cup StockLock!Waiting) \ {c}
    BY <1>0, <1>3, LockChanges DEF ReleaseLock
  <2> QED BY <1>1, <2>1, <2>2 DEF InsideInv, Inside, UnderLock, CheckoutLabels
<1>4. CASE ~AcquireLock(c) /\ ~ReleaseLock(c)
  <2>1. UNCHANGED lockVars /\ (pc'[c] \in Inside <=> pc[c] \in Inside)
    <3> USE <1>0 DEF Step, Inside, UnderLock, CheckoutLabels
    <3>1. CASE Submit(c)
      BY <3>1 DEF Submit
    <3>2. CASE ReadProducts(c)
      BY <3>2 DEF ReadProducts
    <3>3. CASE WriteProducts(c)
      BY <3>3 DEF WriteProducts
    <3>4. CASE ReadTransactions(c)
      BY <3>4 DEF ReadTransactions
    <3>5. CASE WriteTransactions(c)
      BY <3>5 DEF WriteTransactions
    <3>6. CASE ReadInvoices(c)
      BY <3>6 DEF ReadInvoices
    <3>7. CASE WriteInvoice(c)
      BY <3>7 DEF WriteInvoice
    <3>8. CASE ReadOrders(c)
      BY <3>8 DEF ReadOrders
    <3>9. CASE WriteOrder(c)
      BY <3>9 DEF WriteOrder
    <3>10. CASE UndoReadInvoices(c)
      BY <3>10 DEF UndoReadInvoices
    <3>11. CASE UndoInvoice(c)
      BY <3>11 DEF UndoInvoice
    <3>12. CASE UndoReadTransactions(c)
      BY <3>12 DEF UndoReadTransactions
    <3>13. CASE UndoTransactions(c)
      BY <3>13 DEF UndoTransactions
    <3>14. CASE UndoReadProducts(c)
      BY <3>14 DEF UndoReadProducts
    <3>15. CASE UndoProducts(c)
      BY <3>15 DEF UndoProducts
    <3> QED BY <1>4, <3>1, <3>2, <3>3, <3>4, <3>5, <3>6, <3>7, <3>8, <3>9, <3>10, <3>11,
               <3>12, <3>13, <3>14, <3>15 DEF CheckoutStep
  <2>2. granted' = granted /\ StockLock!Waiting' = StockLock!Waiting
    BY <2>1 DEF lockVars, StockLock!Waiting
  <2> QED BY <1>1, <2>1, <2>2 DEF InsideInv
<1> QED BY <1>2, <1>3, <1>4

(* No path through processCheckout, no rollback and no restart leaves a     *)
(* checkout waiting for a lock that nobody is going to release.             *)
THEOREM NoLostWakeUp == Spec => []NobodyIsForgotten
<1>1. Init => InsideInv
  <2> SUFFICES ASSUME Init PROVE InsideInv
    OBVIOUS
  <2>1. granted = {} /\ StockLock!Waiting = {}
    BY DEF Init, StockLock!Init, StockLock!Waiting
  <2>2. \A c \in Checkouts : pc[c] = "start"
    BY DEF Init, Requests
  <2> QED BY <2>1, <2>2 DEF InsideInv, Inside, UnderLock
<1>2. IInv /\ InsideInv /\ [Next]_vars => InsideInv'
  <2> SUFFICES ASSUME IInv, InsideInv, [Next]_vars PROVE InsideInv'
    OBVIOUS
  <2>1. ASSUME NEW x \in Cancels, LoadOrder(x) \/ CancelStep(x) PROVE InsideInv'
    <3>1. DataTypeOK /\ \A c \in Checkouts : c \in Requests \ {x}
      BY MarketAssumption DEF IInv, TypeOK, DataTypeOK, Requests
    <3>2. UNCHANGED lockVars /\ \A c \in Checkouts : pc'[c] = pc[c]
      BY <2>1, <3>1, CancelFrame
    <3> QED BY <3>2 DEF InsideInv, lockVars, StockLock!Waiting
  <2>2. CASE Crash
    <3>1. granted' = {} /\ StockLock!Waiting' = {}
      BY <2>2 DEF Crash, StockLock!Restart, StockLock!Waiting
    <3>2. \A c \in Checkouts : pc'[c] \in {"start", "done", "lost"}
      BY <2>2 DEF Crash, InFlight, Requests
    <3> QED BY <3>1, <3>2 DEF InsideInv, Inside, UnderLock
  <2>3. CASE UNCHANGED vars
    BY <2>3 DEF vars, InsideInv, StockLock!Waiting
  <2> QED BY <2>1, <2>2, <2>3, CheckoutKeepsInside DEF Next
<1>3. IInv /\ InsideInv => NobodyIsForgotten
  <2> SUFFICES ASSUME IInv, InsideInv, NEW c \in Checkouts
               PROVE  /\ pc[c] = "acquire" => c \notin granted \cup StockLock!Waiting
                      /\ pc[c] \in UnderLock => c \in granted
                      /\ pc[c] = "readProducts" => \E d \in granted : pc[d] \in Inside
    BY DEF NobodyIsForgotten
  <2>1. pc[c] = "acquire" => c \notin granted \cup StockLock!Waiting
    BY DEF InsideInv, Inside, UnderLock
  <2>2. pc[c] \in UnderLock => c \in granted
    BY DEF IInv, HoldersInv
  <2>3. granted \subseteq Checkouts /\ \A d \in granted : pc[d] \in Inside
    BY DEF InsideInv
  <2>4. ASSUME pc[c] = "readProducts" PROVE granted # {}
    <3>1. c \in granted \cup StockLock!Waiting
      BY <2>4 DEF InsideInv, Inside
    <3>2. StockLock!Waiting # {} => queue # <<>>
      BY DEF StockLock!Waiting
    <3>3. queue # <<>> => granted # {}
      BY DEF IInv, HoldersInv, StockLock!LockInv
    <3> QED BY <3>1, <3>2, <3>3
  <2> QED BY <2>1, <2>2, <2>3, <2>4
<1> QED BY <1>1, <1>2, <1>3, MarketInvariant, PTL DEF Spec
=============================================================================
