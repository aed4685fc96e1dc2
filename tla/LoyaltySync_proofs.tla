------------------------- MODULE LoyaltySync_proofs -------------------------
(***************************************************************************)
(* What LoyaltySync promises, for any number of sales, returns, awards,    *)
(* operations, runs and attempts.                                          *)
(***************************************************************************)
EXTENDS LoyaltySync, TLAPS, WellFoundedInduction

(* The keys in the ledger.                                                  *)
Booked == {Key(ledger[i].op) : i \in DOMAIN ledger}

(* Only the head of the chain is inside the mutex; what it looked up still  *)
(* holds.                                                                   *)
Mutex ==
  /\ \A i \in DOMAIN chain : chain[i].looked => i = 1
  /\ \A i \in DOMAIN chain : chain[i].looked =>
       /\ Key(chain[i].op) \notin Booked
       /\ lost \/ chain[i].seen = Len(ledger)

(* A run has one request on its way while it is calling, for the first      *)
(* operation of its list, and an answer that is true of it.                 *)
Calls ==
  \A r \in Runs :
    /\ todo[r] \subseteq DOMAIN ops
    /\ pc[r] # "idle" => todo[r] # {}
    /\ \A i \in DOMAIN chain : chain[i].from = r =>
         /\ pc[r] = "calling"
         /\ chain[i].op = ops[First(todo[r])]
         /\ \A j \in DOMAIN chain : chain[j].from = r => j = i
    /\ pc[r] \in {"created", "duplicate"} => lost \/ Key(ops[First(todo[r])]) \in Booked

(* Where each operation is.                                                 *)
Fates ==
  \A n \in Ids :
    /\ n \notin DOMAIN ops => status[n] = "none"
    /\ n \in DOMAIN ops /\ status[n] \in {"none", "confirmed", "duplicate"}
         => n \in dead \/ lost \/ Key(ops[n]) \in Booked
    /\ status[n] \in {"conflict", "dead_letter"} => n \in dead

Statuses == {"none", "pending", "confirmed", "duplicate", "conflict", "dead_letter"}

LoyaltyInv == TypeOK /\ Mutex /\ Calls /\ Fates /\ BookedOnce /\ NothingBetween

-----------------------------------------------------------------------------
(* A list of operations has a first one.                                    *)
LEMMA FirstIn ==
  ASSUME NEW S \in SUBSET Nat, S # {}
  PROVE  First(S) \in S
<1> DEFINE LT == {p \in Nat \X Nat : p[1] < p[2]}
<1>1. IsWellFoundedOn(LT, Nat)
  BY NatLessThanWellFounded DEF OpToRel
<1>2. PICK x \in S : \A y \in S : <<y, x>> \notin LT
  <2> HIDE DEF LT
  <2> QED BY <1>1, WFMin
<1>3. \A y \in S : x <= y
  <2> SUFFICES ASSUME NEW y \in S PROVE x <= y
    OBVIOUS
  <2>1. <<y, x>> \in Nat \X Nat /\ ~(y < x)
    BY <1>2
  <2> QED BY <2>1
<1> QED
  BY <1>3 DEF First

(* Init establishes the invariant.                                          *)
LEMMA InitHolds == Init => LoyaltyInv
<1> SUFFICES ASSUME Init PROVE LoyaltyInv
  OBVIOUS
<1> USE LoyaltyAssumption
<1>1. TypeOK
  <2>1. Len(ops) <= MaxOps
    BY DEF Init
  <2>2. ops \in Seq(Operation) /\ chain \in Seq(Handler) /\ ledger \in Seq(Transaction)
    BY DEF Init
  <2>3. attempts \in [Ids -> Nat]
    BY DEF Init
  <2>4. status \in [Ids -> {"none", "pending", "confirmed", "duplicate", "conflict", "dead_letter"}]
    BY DEF Init
  <2>5. pc \in [Runs -> {"idle", "calling", "created", "duplicate", "refused"}]
    BY DEF Init
  <2>6. dead \subseteq Ids /\ todo \in [Runs -> SUBSET Ids] /\ lost \in BOOLEAN
    BY DEF Init
  <2> QED BY <2>1, <2>2, <2>3, <2>4, <2>5, <2>6 DEF TypeOK
<1>2. Mutex /\ BookedOnce /\ NothingBetween
  BY DEF Init, Mutex, BookedOnce, NothingBetween
<1>3. Calls /\ Fates
  BY DEF Init, Calls, Fates
<1> QED
  BY <1>1, <1>2, <1>3 DEF LoyaltyInv
-----------------------------------------------------------------------------
(* Enqueue adds pending operations at the end; nothing else changes.        *)
LEMMA EnqueueKeeps ==
  ASSUME LoyaltyInv, NEW new \in Seq(Operation), Enqueue(new)
  PROVE  LoyaltyInv'
<1> USE LoyaltyAssumption
<1> USE DEF LoyaltyInv
<1>a. ops' = ops \o new /\ Len(ops) + Len(new) <= MaxOps
  BY DEF Enqueue
<1>b. ops \in Seq(Operation) /\ status \in [Ids -> {"none", "pending", "confirmed", "duplicate", "conflict", "dead_letter"}]
  BY DEF TypeOK
<1>1. UNCHANGED <<attempts, dead, pc, todo, chain, ledger, lost>>
  BY DEF Enqueue, serverVars
<1>2. /\ ops' \in Seq(Operation) /\ Len(ops') = Len(ops) + Len(new)
      /\ DOMAIN ops \subseteq DOMAIN ops'
      /\ \A n \in DOMAIN ops : ops'[n] = ops[n]
  BY <1>a, <1>b
<1>3. /\ \A n \in Ids : status'[n] = IF n \in Len(ops) + 1 .. Len(ops) + Len(new) THEN "pending" ELSE status[n]
      /\ status' \in [Ids -> {"none", "pending", "confirmed", "duplicate", "conflict", "dead_letter"}]
  BY <1>b DEF Enqueue
<1>4. TypeOK'
  BY <1>a, <1>1, <1>2, <1>3 DEF TypeOK
<1>5. Booked' = Booked
  BY <1>1 DEF Booked
<1>6. Mutex' /\ BookedOnce' /\ NothingBetween'
  BY <1>1, <1>5 DEF Mutex, BookedOnce, NothingBetween
<1>7. \A r \in Runs : todo[r] # {} => First(todo[r]) \in DOMAIN ops
  <2> SUFFICES ASSUME NEW r \in Runs, todo[r] # {} PROVE First(todo[r]) \in DOMAIN ops
    OBVIOUS
  <2>1. todo[r] \subseteq DOMAIN ops /\ DOMAIN ops \subseteq Nat
    BY <1>b DEF Calls
  <2> QED BY <2>1, FirstIn
<1>8. Calls'
  <2> SUFFICES ASSUME NEW r \in Runs
               PROVE  /\ todo[r] \subseteq DOMAIN ops'
                      /\ pc[r] # "idle" => todo[r] # {}
                      /\ \A i \in DOMAIN chain : chain[i].from = r =>
                           /\ pc[r] = "calling"
                           /\ chain[i].op = ops'[First(todo[r])]
                           /\ \A j \in DOMAIN chain : chain[j].from = r => j = i
                      /\ pc[r] \in {"created", "duplicate"} => lost \/ Key(ops'[First(todo[r])]) \in Booked
    BY <1>1, <1>5 DEF Calls
  <2>1. pc[r] # "idle" => ops'[First(todo[r])] = ops[First(todo[r])]
    BY <1>2, <1>7 DEF Calls
  <2> QED BY <1>2, <2>1 DEF Calls
<1>9. Fates'
  <2> SUFFICES ASSUME NEW n \in Ids
               PROVE  /\ n \notin DOMAIN ops' => status'[n] = "none"
                      /\ n \in DOMAIN ops' /\ status'[n] \in {"none", "confirmed", "duplicate"}
                            => n \in dead \/ lost \/ Key(ops'[n]) \in Booked
                      /\ status'[n] \in {"conflict", "dead_letter"} => n \in dead
    BY <1>1, <1>5 DEF Fates
  <2>1. CASE n \in DOMAIN ops
    BY <2>1, <1>b, <1>2, <1>3 DEF Fates
  <2>2. CASE n \notin DOMAIN ops
    BY <2>2, <1>a, <1>b, <1>2, <1>3 DEF Fates, Ids
  <2> QED BY <2>1, <2>2
<1> QED
  BY <1>4, <1>6, <1>8, <1>9

(* Sale and Return put operations at the end of the queue.                  *)
LEMMA SaleQueues ==
  ASSUME NEW i \in Sales, Sale(i)
  PROVE  \E new \in Seq(Operation) : Enqueue(new)
<1> DEFINE earn == [kind |-> "earn", ref |-> i]
           redeem == [kind |-> "redeem", ref |-> i]
<1>1. earn \in Operation /\ redeem \in Operation
  BY DEF Operation
<1>2. (IF i \in Redeeming THEN New(redeem) ELSE <<>>) \o New(earn) \in Seq(Operation)
  <2>1. New(earn) \in Seq(Operation) /\ New(redeem) \in Seq(Operation)
    BY <1>1 DEF New
  <2>2. (IF i \in Redeeming THEN New(redeem) ELSE <<>>) \in Seq(Operation)
    BY <2>1
  <2> HIDE DEF earn, redeem
  <2> QED BY <2>1, <2>2
<1>3. PICK new \in Seq(Operation) :
        new = (IF i \in Redeeming THEN New(redeem) ELSE <<>>) \o New(earn)
  BY ONLY <1>2
<1>4. Enqueue(new)
  BY <1>3 DEF Sale, Enqueue
<1> QED
  BY <1>4

LEMMA ReturnQueues ==
  ASSUME NEW r \in Returns, Return(r)
  PROVE  \E new \in Seq(Operation) : Enqueue(new)
<1>1. [kind |-> "reverse", ref |-> r] \in Operation
  BY DEF Operation
<1>2. New([kind |-> "reverse", ref |-> r]) \in Seq(Operation)
  BY <1>1 DEF New
<1>3. PICK new \in Seq(Operation) : new = New([kind |-> "reverse", ref |-> r])
  BY ONLY <1>2
<1>4. Enqueue(new)
  BY <1>3 DEF Return, Enqueue
<1> QED
  BY <1>4

-----------------------------------------------------------------------------
(* A list of operations of the queue has a first one, which was created.    *)
LEMMA FirstOp ==
  ASSUME TypeOK, NEW S \in SUBSET (DOMAIN ops), S # {}
  PROVE  /\ First(S) \in S /\ First(S) \in DOMAIN ops /\ First(S) \in Ids
         /\ ops[First(S)] \in Operation
<1> USE LoyaltyAssumption
<1>1. ops \in Seq(Operation) /\ Len(ops) <= MaxOps
  BY DEF TypeOK
<1>2. DOMAIN ops \subseteq Nat /\ DOMAIN ops \subseteq Ids
  BY <1>1 DEF Ids
<1>3. First(S) \in S
  BY <1>2, FirstIn
<1> QED
  BY <1>1, <1>2, <1>3

(* A run begins: its request goes to the end of the chain.                  *)
LEMMA StartKeeps ==
  ASSUME LoyaltyInv, NEW r \in Runs, NEW due, Start(r, due)
  PROVE  LoyaltyInv'
<1> USE LoyaltyAssumption
<1> USE DEF LoyaltyInv
<1>1. due # {} /\ due \subseteq DOMAIN ops
  BY DEF Start, Pending, Fates
<1>2. First(due) \in due /\ First(due) \in Ids /\ ops[First(due)] \in Operation
  BY <1>1, FirstOp
<1> DEFINE req == Request(ops[First(due)], r)
<1>3. /\ req \in Handler /\ ~req.looked /\ req.from = r /\ req.op = ops[First(due)]
  BY <1>2 DEF Request, Handler
<1>4. /\ UNCHANGED <<ops, status, attempts, dead, ledger, lost>>
      /\ pc[r] = "idle"
      /\ pc' = [pc EXCEPT ![r] = "calling"]
      /\ todo' = [todo EXCEPT ![r] = due]
      /\ chain' = Append(chain, req)
  BY DEF Start
<1>b. due \subseteq Ids
  BY <1>4 DEF Start, Pending
<1> HIDE DEF req
<1>5. /\ chain' \in Seq(Handler) /\ Len(chain') = Len(chain) + 1
      /\ chain'[Len(chain) + 1] = req
      /\ \A i \in DOMAIN chain : chain'[i] = chain[i]
      /\ DOMAIN chain' = DOMAIN chain \cup {Len(chain) + 1}
      /\ Len(chain) + 1 \notin DOMAIN chain
  BY <1>3, <1>4 DEF TypeOK
<1>6. TypeOK'
  BY <1>4, <1>5, <1>b DEF TypeOK
<1>7. Booked' = Booked
  BY <1>4 DEF Booked
<1>8. Mutex'
  BY <1>3, <1>4, <1>5, <1>7 DEF Mutex
<1>9. Fates' /\ BookedOnce' /\ NothingBetween'
  BY <1>4, <1>7 DEF Fates, BookedOnce, NothingBetween
<1>10. Calls'
  <2> SUFFICES ASSUME NEW q \in Runs
               PROVE  /\ todo'[q] \subseteq DOMAIN ops
                      /\ pc'[q] # "idle" => todo'[q] # {}
                      /\ \A i \in DOMAIN chain' : chain'[i].from = q =>
                           /\ pc'[q] = "calling"
                           /\ chain'[i].op = ops[First(todo'[q])]
                           /\ \A j \in DOMAIN chain' : chain'[j].from = q => j = i
                      /\ pc'[q] \in {"created", "duplicate"} => lost \/ Key(ops[First(todo'[q])]) \in Booked
    BY <1>4, <1>7 DEF Calls
  <2>1. CASE q = r
    <3>1. todo'[q] = due /\ pc'[q] = "calling"
      BY <2>1, <1>4 DEF TypeOK
    <3>2. \A i \in DOMAIN chain : chain[i].from # q
      BY <2>1, <1>4 DEF Calls
    <3> QED BY <3>1, <3>2, <2>1, <1>1, <1>3, <1>5
  <2>2. CASE q # r
    <3>1. todo'[q] = todo[q] /\ pc'[q] = pc[q]
      BY <2>2, <1>4 DEF TypeOK
    <3>2. \A i \in DOMAIN chain' : chain'[i].from = q => i \in DOMAIN chain
      BY <2>2, <1>3, <1>5
    <3> QED BY <3>1, <3>2, <1>5 DEF Calls
  <2> QED BY <2>1, <2>2
<1> QED
  BY <1>6, <1>8, <1>9, <1>10

-----------------------------------------------------------------------------
(* The chain w is the chain with none of the runs rs waiting any longer.    *)
Without(w, rs) ==
  /\ w \in Seq(Handler) /\ DOMAIN w = DOMAIN chain
  /\ \A i \in DOMAIN chain :
       /\ w[i].op = chain[i].op /\ w[i].looked = chain[i].looked /\ w[i].seen = chain[i].seen
       /\ w[i].from \notin rs
       /\ w[i].from \in Runs => w[i].from = chain[i].from

LEMMA AbandonedWithout ==
  ASSUME TypeOK, NEW rs \in SUBSET Runs
  PROVE  Without(Abandoned(rs), rs)
<1> USE LoyaltyAssumption
<1>1. chain \in Seq(Handler)
  BY DEF TypeOK
<1>2. \A i \in DOMAIN chain : chain[i] \in Handler
  BY <1>1
<1>3. Nobody \notin Runs
  BY DEF Nobody, Runs
<1>4. \A h \in Handler : [h EXCEPT !.from = Nobody] \in Handler
  BY DEF Handler
<1>5. Abandoned(rs) \in Seq(Handler) /\ DOMAIN Abandoned(rs) = DOMAIN chain
  BY <1>1, <1>2, <1>4 DEF Abandoned
<1> QED
  BY <1>2, <1>3, <1>5 DEF Without, Abandoned, Handler

(* A run goes on with a queue st in which every operation has its fate.     *)
LEMMA GoOnKeeps ==
  ASSUME LoyaltyInv, NEW r \in Runs, NEW rest \in SUBSET (DOMAIN ops),
         NEW st \in [Ids -> Statuses], NEW waiting, Without(waiting, {r}),
         UNCHANGED <<ops, ledger, lost>>, attempts' \in [Ids -> Nat], dead' \subseteq Ids,
         \A n \in Ids :
           /\ n \notin DOMAIN ops => st[n] = "none"
           /\ n \in DOMAIN ops /\ st[n] \in {"none", "confirmed", "duplicate"}
                => n \in dead' \/ lost \/ Key(ops[n]) \in Booked
           /\ st[n] \in {"conflict", "dead_letter"} => n \in dead',
         GoOn(r, rest, st, waiting)
  PROVE  LoyaltyInv'
<1> USE LoyaltyAssumption
<1> USE DEF LoyaltyInv
<1>1. Booked' = Booked
  BY DEF Booked
<1>2. BookedOnce' /\ NothingBetween'
  BY DEF BookedOnce, NothingBetween
<1>3. rest \subseteq Ids
  BY DEF TypeOK, Ids
<1>4. todo' = [todo EXCEPT ![r] = rest]
  BY DEF GoOn
<1>5. todo' \in [Runs -> SUBSET Ids]
  BY <1>3, <1>4 DEF TypeOK
<1>6. /\ waiting \in Seq(Handler)
      /\ \A i \in DOMAIN waiting :
           /\ waiting[i].from # r
           /\ waiting[i].looked => /\ i = 1 /\ Key(waiting[i].op) \notin Booked
                                   /\ lost \/ waiting[i].seen = Len(ledger)
  BY DEF Without, Mutex
<1>7. ASSUME NEW q \in Runs, q # r
      PROVE  /\ todo[q] \subseteq DOMAIN ops
             /\ pc[q] # "idle" => todo[q] # {}
             /\ \A i \in DOMAIN waiting : waiting[i].from = q =>
                  /\ pc[q] = "calling"
                  /\ waiting[i].op = ops[First(todo[q])]
                  /\ \A j \in DOMAIN waiting : waiting[j].from = q => j = i
             /\ pc[q] \in {"created", "duplicate"} => lost \/ Key(ops[First(todo[q])]) \in Booked
  BY <1>7 DEF Calls, Without
<1>8. CASE rest = {}
  <2>1. status' = Cleared(st) /\ pc' = [pc EXCEPT ![r] = "idle"] /\ chain' = waiting
    BY <1>8 DEF GoOn
  <2>2. status' \in [Ids -> Statuses] /\ \A n \in Ids : status'[n] = IF st[n] = "confirmed" THEN "none" ELSE st[n]
    BY <2>1 DEF Cleared, Statuses
  <2>3. TypeOK'
    BY <2>1, <2>2, <1>5, <1>6 DEF TypeOK, Statuses
  <2>4. Fates'
    BY <2>2, <1>1 DEF Fates
  <2>5. Mutex'
    BY <2>1, <1>1, <1>6 DEF Mutex
  <2>6. todo'[r] = {} /\ pc'[r] = "idle"
    BY <2>1, <1>4, <1>8 DEF TypeOK
  <2>7. \A q \in Runs \ {r} : todo'[q] = todo[q] /\ pc'[q] = pc[q]
    BY <2>1, <1>4 DEF TypeOK
  <2>8. Calls'
    BY <2>1, <2>6, <2>7, <1>1, <1>6, <1>7 DEF Calls
  <2> QED BY <2>3, <2>4, <2>5, <2>8, <1>2
<1>9. CASE rest # {}
  <2> DEFINE req == Request(ops[First(rest)], r)
  <2>1. status' = st /\ pc' = [pc EXCEPT ![r] = "calling"] /\ chain' = Append(waiting, req)
    BY <1>9 DEF GoOn
  <2>2. ops[First(rest)] \in Operation
    BY <1>9, FirstOp
  <2>3. /\ req \in Handler /\ ~req.looked /\ req.from = r /\ req.op = ops[First(rest)]
    BY <2>2 DEF Request, Handler
  <2> HIDE DEF req
  <2>4. /\ chain' \in Seq(Handler) /\ Len(chain') = Len(waiting) + 1
        /\ chain'[Len(waiting) + 1] = req
        /\ \A i \in DOMAIN waiting : chain'[i] = waiting[i]
        /\ DOMAIN chain' = DOMAIN waiting \cup {Len(waiting) + 1}
        /\ Len(waiting) + 1 \notin DOMAIN waiting
    BY <2>1, <2>3, <1>6
  <2>5. TypeOK'
    BY <2>1, <2>4, <1>5 DEF TypeOK, Statuses
  <2>6. Fates'
    BY <2>1, <1>1 DEF Fates
  <2>7. Mutex'
    BY <2>3, <2>4, <1>1, <1>6 DEF Mutex
  <2>8. todo'[r] = rest /\ pc'[r] = "calling"
    BY <2>1, <1>4 DEF TypeOK
  <2>9. \A q \in Runs \ {r} : todo'[q] = todo[q] /\ pc'[q] = pc[q]
    BY <2>1, <1>4 DEF TypeOK
  <2>10. Calls'
    <3> SUFFICES ASSUME NEW q \in Runs
                 PROVE  /\ todo'[q] \subseteq DOMAIN ops
                        /\ pc'[q] # "idle" => todo'[q] # {}
                        /\ \A i \in DOMAIN chain' : chain'[i].from = q =>
                             /\ pc'[q] = "calling"
                             /\ chain'[i].op = ops[First(todo'[q])]
                             /\ \A j \in DOMAIN chain' : chain'[j].from = q => j = i
                        /\ pc'[q] \in {"created", "duplicate"} => lost \/ Key(ops[First(todo'[q])]) \in Booked
      BY <1>1 DEF Calls
    <3>1. CASE q = r
      BY <3>1, <2>3, <2>4, <2>8, <1>6, <1>9
    <3>2. CASE q # r
      <4>1. \A i \in DOMAIN chain' : chain'[i].from = q => i \in DOMAIN waiting
        BY <3>2, <2>3, <2>4
      <4> QED BY <3>2, <4>1, <2>4, <2>9, <1>7
    <3> QED BY <3>1, <3>2
  <2> QED BY <2>5, <2>6, <2>7, <2>10, <1>2
<1> QED
  BY <1>8, <1>9

(* A call of a run ends with a reply that is true.                          *)
LEMMA MarkKeeps ==
  ASSUME LoyaltyInv, NEW r \in Runs, pc[r] # "idle",
         NEW reply \in {"created", "duplicate", "refused", "failed"},
         reply \in {"created", "duplicate"} => lost \/ Key(ops[First(todo[r])]) \in Booked,
         NEW waiting, Without(waiting, {r}), Mark(r, reply, waiting)
  PROVE  LoyaltyInv'
<1> USE LoyaltyAssumption
<1>1. todo[r] \subseteq DOMAIN ops /\ todo[r] # {}
  BY DEF LoyaltyInv, Calls
<1>2. PICK n \in Ids : n = First(todo[r]) /\ n \in DOMAIN ops
  BY <1>1, FirstOp DEF LoyaltyInv
<1>3. PICK rest \in SUBSET (DOMAIN ops) : rest = todo[r] \ {n}
  BY <1>1
<1>4. UNCHANGED <<ops, ledger, lost>>
  BY DEF Mark
<1>a. status \in [Ids -> Statuses] /\ attempts \in [Ids -> Nat] /\ dead \subseteq Ids
  BY DEF LoyaltyInv, TypeOK, Statuses
<1>5. CASE status[n] = "none"
  <2>1. PICK st \in [Ids -> Statuses] : st = status
    BY <1>a
  <2>2. GoOn(r, rest, st, waiting) /\ UNCHANGED <<attempts, dead>>
    BY <1>2, <1>3, <1>5, <2>1 DEF Mark, GoOn
  <2> QED
    BY <1>4, <1>a, <2>1, <2>2, GoOnKeeps DEF LoyaltyInv, Fates
<1>6. CASE status[n] # "none"
  <2>1. Marked(n, reply) \in Statuses /\ Tried(n, reply) \in Nat
    BY <1>a DEF Marked, Tried, Statuses
  <2>2. PICK st \in [Ids -> Statuses] : st = [status EXCEPT ![n] = Marked(n, reply)]
    BY <1>a, <2>1
  <2>3. /\ GoOn(r, rest, st, waiting)
        /\ attempts' = [attempts EXCEPT ![n] = Tried(n, reply)]
        /\ dead' = IF LaidAside(n, reply) THEN dead \cup {n} ELSE dead
    BY <1>2, <1>3, <1>6, <2>2 DEF Mark, GoOn
  <2>4. attempts' \in [Ids -> Nat] /\ dead' \subseteq Ids /\ dead \subseteq dead'
    BY <1>a, <2>1, <2>3
  <2>5. \A m \in Ids \ {n} : st[m] = status[m]
    BY <1>a, <2>2
  <2>6. st[n] = Marked(n, reply)
    BY <1>a, <2>2
  <2>7. /\ st[n] \in {"none", "confirmed", "duplicate"}
             => n \in dead' \/ lost \/ Key(ops[n]) \in Booked
        /\ st[n] \in {"conflict", "dead_letter"} => n \in dead'
    BY <1>2, <1>6, <2>3, <2>6 DEF Marked, LaidAside, LoyaltyInv, Fates
  <2>8. \A m \in Ids :
           /\ m \notin DOMAIN ops => st[m] = "none"
           /\ m \in DOMAIN ops /\ st[m] \in {"none", "confirmed", "duplicate"}
                => m \in dead' \/ lost \/ Key(ops[m]) \in Booked
           /\ st[m] \in {"conflict", "dead_letter"} => m \in dead'
    BY <1>2, <2>4, <2>5, <2>7 DEF LoyaltyInv, Fates
  <2> QED
    BY <1>4, <2>3, <2>4, <2>8, GoOnKeeps
<1> QED
  BY <1>5, <1>6

(* Settle, GiveUp: calls end with an answer or without.                     *)
LEMMA CallEndKeeps ==
  ASSUME LoyaltyInv, NEW r \in Runs
  PROVE  (Settle(r) => LoyaltyInv') /\ (GiveUp(r) => LoyaltyInv')
<1>a. pc[r] \in {"idle", "calling", "created", "duplicate", "refused"}
  BY DEF LoyaltyInv, TypeOK
<1>1. ASSUME Settle(r) PROVE LoyaltyInv'
  <2>1. PICK reply \in {"created", "duplicate", "refused"} : reply = pc[r]
    BY <1>a, <1>1 DEF Settle
  <2>2. PICK waiting : waiting = chain
    OBVIOUS
  <2>3. Without(waiting, {r})
    BY <2>1, <2>2 DEF Without, LoyaltyInv, TypeOK, Calls
  <2>4. Mark(r, reply, waiting)
    BY <1>1, <2>1, <2>2 DEF Settle, Mark, GoOn
  <2>5. reply \in {"created", "duplicate"} => lost \/ Key(ops[First(todo[r])]) \in Booked
    BY <2>1 DEF LoyaltyInv, Calls
  <2> QED
    BY <1>1, <2>1, <2>3, <2>4, <2>5, MarkKeeps DEF Settle
<1>2. ASSUME GiveUp(r) PROVE LoyaltyInv'
  <2>1. PICK waiting : waiting = Abandoned({r})
    OBVIOUS
  <2>2. Without(Abandoned({r}), {r})
    BY AbandonedWithout DEF LoyaltyInv
  <2>3. Without(waiting, {r})
    BY <2>1, <2>2 DEF Without
  <2>4. Mark(r, "failed", waiting)
    BY <1>2, <2>1 DEF GiveUp, Mark, GoOn
  <2> QED
    BY <1>2, <2>3, <2>4, MarkKeeps DEF GiveUp
<1> QED
  BY <1>1, <1>2

LEMMA ReloadKeeps ==
  ASSUME LoyaltyInv, Reload
  PROVE  LoyaltyInv'
<1> USE LoyaltyAssumption
<1> USE DEF LoyaltyInv
<1>1. Without(Abandoned(Runs), Runs)
  BY AbandonedWithout
<1>2. PICK w : w = Abandoned(Runs)
  OBVIOUS
<1>3. Without(w, Runs)
  BY <1>1, <1>2 DEF Without
<1>4. /\ UNCHANGED <<ops, status, attempts, dead, ledger, lost>> /\ chain' = w
      /\ pc' = [r \in Runs |-> "idle"] /\ todo' = [r \in Runs |-> {}]
  BY <1>2 DEF Reload
<1>5. Booked' = Booked
  BY <1>4 DEF Booked
<1>6. TypeOK'
  BY <1>3, <1>4 DEF TypeOK, Without
<1>7. Fates' /\ BookedOnce' /\ NothingBetween'
  BY <1>4, <1>5 DEF Fates, BookedOnce, NothingBetween
<1>8. Mutex'
  BY <1>3, <1>4, <1>5 DEF Mutex, Without
<1>9. Calls'
  BY <1>3, <1>4, <1>5 DEF Calls, Without
<1> QED
  BY <1>6, <1>7, <1>8, <1>9

-----------------------------------------------------------------------------
(* A birthday bonus is asked for: nobody's request at the end of the chain. *)
LEMMA AwardKeeps ==
  ASSUME LoyaltyInv, NEW y \in Awards, Award(y)
  PROVE  LoyaltyInv'
<1> USE LoyaltyAssumption
<1> USE DEF LoyaltyInv
<1> DEFINE req == Request([kind |-> "bonus", ref |-> y], Nobody)
<1>1. req \in Handler /\ ~req.looked /\ req.from \notin Runs
  BY DEF Request, Handler, Operation, Nobody, Runs
<1>2. UNCHANGED <<ops, status, attempts, dead, pc, todo, ledger, lost>> /\ chain' = Append(chain, req)
  BY DEF Award, tillVars
<1> HIDE DEF req
<1>3. /\ chain' \in Seq(Handler)
      /\ chain'[Len(chain) + 1] = req
      /\ \A i \in DOMAIN chain : chain'[i] = chain[i]
      /\ DOMAIN chain' = DOMAIN chain \cup {Len(chain) + 1}
  BY <1>1, <1>2 DEF TypeOK
<1>4. Booked' = Booked
  BY <1>2 DEF Booked
<1>5. TypeOK'
  BY <1>2, <1>3 DEF TypeOK
<1>6. Fates' /\ BookedOnce' /\ NothingBetween'
  BY <1>2, <1>4 DEF Fates, BookedOnce, NothingBetween
<1>7. Mutex'
  BY <1>1, <1>2, <1>3, <1>4 DEF Mutex
<1>8. \A i \in DOMAIN chain' : chain'[i].from \in Runs => i \in DOMAIN chain
  BY <1>1, <1>3
<1>9. Calls'
  BY <1>2, <1>3, <1>4, <1>8 DEF Calls
<1> QED
  BY <1>5, <1>6, <1>7, <1>9

(* The handler at the head of the chain ends with a true reply.             *)
LEMMA DoneKeeps ==
  ASSUME LoyaltyInv, chain # <<>>, NEW reply \in {"created", "duplicate", "refused"},
         Done(Head(chain), reply), UNCHANGED <<ops, status, attempts, dead, todo>>,
         ledger' \in Seq(Transaction), lost' \in BOOLEAN, BookedOnce', NothingBetween',
         lost => lost', lost' \/ Booked \subseteq Booked',
         reply \in {"created", "duplicate"} => lost' \/ Key(Head(chain).op) \in Booked'
  PROVE  LoyaltyInv'
<1> USE LoyaltyAssumption
<1> USE DEF LoyaltyInv
<1>1. chain \in Seq(Handler) /\ chain' = Tail(chain)
  BY DEF TypeOK, Done
<1>2. /\ 1 \in DOMAIN chain /\ Head(chain) = chain[1]
      /\ chain' \in Seq(Handler)
      /\ \A i \in DOMAIN chain' : i + 1 \in DOMAIN chain /\ i + 1 # 1 /\ chain'[i] = chain[i + 1]
  BY <1>1
<1>3. Reply(chain[1].from, reply)
  BY <1>2 DEF Done
<1>4. pc' \in [Runs -> {"idle", "calling", "created", "duplicate", "refused"}]
  BY <1>3 DEF TypeOK, Reply
<1>5. TypeOK'
  BY <1>2, <1>4 DEF TypeOK
<1>6. Mutex'
  BY <1>2 DEF Mutex
<1>7. Fates'
  BY DEF Fates
<1>8. Calls'
  <2> SUFFICES ASSUME NEW q \in Runs
               PROVE  /\ todo[q] \subseteq DOMAIN ops
                      /\ pc'[q] # "idle" => todo[q] # {}
                      /\ \A i \in DOMAIN chain' : chain'[i].from = q =>
                           /\ pc'[q] = "calling"
                           /\ chain'[i].op = ops[First(todo[q])]
                           /\ \A j \in DOMAIN chain' : chain'[j].from = q => j = i
                      /\ pc'[q] \in {"created", "duplicate"} => lost' \/ Key(ops[First(todo[q])]) \in Booked'
    BY DEF Calls
  <2>a. q # Nobody
    BY DEF Nobody, Runs
  <2>1. CASE chain[1].from = q
    <3>1. pc'[q] = reply
      BY <1>3, <2>a, <2>1 DEF Reply, TypeOK
    <3>2. pc[q] = "calling" /\ chain[1].op = ops[First(todo[q])]
      BY <1>2, <2>1 DEF Calls
    <3>3. \A i \in DOMAIN chain' : chain'[i].from # q
      BY <1>2, <2>1 DEF Calls
    <3> QED BY <3>1, <3>2, <3>3, <1>2 DEF Calls
  <2>2. CASE chain[1].from # q
    <3>1. pc'[q] = pc[q]
      BY <1>3, <2>2 DEF Reply, TypeOK
    <3>2. /\ todo[q] \subseteq DOMAIN ops
          /\ pc[q] # "idle" => todo[q] # {}
          /\ pc[q] \in {"created", "duplicate"} => lost' \/ Key(ops[First(todo[q])]) \in Booked'
      BY DEF Calls
    <3>3. ASSUME NEW i \in DOMAIN chain', chain'[i].from = q
          PROVE  /\ pc[q] = "calling"
                 /\ chain'[i].op = ops[First(todo[q])]
                 /\ \A j \in DOMAIN chain' : chain'[j].from = q => j = i
      <4>1. pc[q] = "calling" /\ chain[i + 1].op = ops[First(todo[q])]
        BY <1>2, <3>3 DEF Calls
      <4>2. \A j \in DOMAIN chain' : chain'[j].from = q => j + 1 = i + 1
        BY <1>2, <3>3 DEF Calls
      <4>3. \A j \in DOMAIN chain' : j \in Nat
        BY <1>2
      <4> QED BY <1>2, <4>1, <4>2, <4>3
    <3> QED BY <3>1, <3>2, <3>3
  <2> QED BY <2>1, <2>2
<1> QED
  BY <1>5, <1>6, <1>7, <1>8

LEMMA FoundBooked ==
  ASSUME NEW op
  PROVE  Found(op) <=> Key(op) \in Booked
BY DEF Found, Booked

(* A request is refused, found booked, or goes on.                          *)
LEMMA LookKeeps ==
  ASSUME LoyaltyInv, Look
  PROVE  LoyaltyInv'
<1> USE LoyaltyAssumption
<1>1. chain # <<>> /\ ~Head(chain).looked /\ UNCHANGED <<ops, status, attempts, dead, todo, ledger, lost>>
  BY DEF Look
<1>2. Booked' = Booked
  BY <1>1 DEF Booked
<1>3. BookedOnce' /\ NothingBetween' /\ ledger' \in Seq(Transaction) /\ lost' \in BOOLEAN
  BY <1>1 DEF LoyaltyInv, TypeOK, BookedOnce, NothingBetween
<1>4. CASE Done(Head(chain), "refused")
  BY <1>1, <1>2, <1>3, <1>4, DoneKeeps
<1>5. CASE Key(Head(chain).op) \in Booked /\ Done(Head(chain), "duplicate")
  BY <1>1, <1>2, <1>3, <1>5, DoneKeeps
<1>6. CASE /\ Key(Head(chain).op) \notin Booked
           /\ chain' = [chain EXCEPT ![1].looked = TRUE, ![1].seen = Len(ledger)]
           /\ UNCHANGED pc
  <2> USE DEF LoyaltyInv
  <2>1. chain \in Seq(Handler) /\ ledger \in Seq(Transaction)
    BY DEF TypeOK
  <2>2. 1 \in DOMAIN chain /\ Head(chain) = chain[1] /\ chain[1] \in Handler
    BY <1>1, <2>1
  <2>3. chain' = [chain EXCEPT ![1] = [chain[1] EXCEPT !.looked = TRUE, !.seen = Len(ledger)]]
    BY <1>6, <2>1, <2>2
  <2>4. [chain[1] EXCEPT !.looked = TRUE, !.seen = Len(ledger)] \in Handler
    <3>1. \A h \in Handler, k \in Nat : [h EXCEPT !.looked = TRUE, !.seen = k] \in Handler
      BY DEF Handler
    <3>2. Len(ledger) \in Nat
      BY <2>1
    <3> QED BY <2>2, <3>1, <3>2
  <2>5. /\ chain' \in Seq(Handler) /\ DOMAIN chain' = DOMAIN chain
        /\ \A i \in DOMAIN chain : i # 1 => chain'[i] = chain[i]
    BY <2>1, <2>2, <2>3, <2>4
  <2>6. /\ chain'[1].op = chain[1].op /\ chain'[1].from = chain[1].from
        /\ chain'[1].seen = Len(ledger)
    BY <2>1, <2>2, <2>3 DEF Handler
  <2>7. \A i \in DOMAIN chain : chain'[i].op = chain[i].op /\ chain'[i].from = chain[i].from
    BY <2>5, <2>6
  <2>8. TypeOK'
    BY <1>1, <1>6, <2>5 DEF TypeOK
  <2>9. Mutex'
    BY <1>1, <1>2, <1>6, <2>2, <2>5, <2>6 DEF Mutex
  <2>10. Fates'
    BY <1>1, <1>2 DEF Fates
  <2>11. Calls'
    BY <1>1, <1>2, <1>6, <2>5, <2>7 DEF Calls
  <2> QED BY <1>3, <2>8, <2>9, <2>10, <2>11
<1> QED
  BY <1>4, <1>5, <1>6, FoundBooked DEF Look

-----------------------------------------------------------------------------
(* What a write of the ledger leaves: the new one, the old one, or nothing. *)
LEMMA WriteFate ==
  ASSUME TypeOK, NEW new, new # <<>> \/ new = ledger,
         NEW w \in WriteOutcomes(ledger, new, <<>>), WriteLedger(w)
  PROVE  \/ ledger' = new /\ lost' = lost
         \/ ledger' = ledger /\ lost' = lost /\ ~w.ok
         \/ ledger' = <<>> /\ ledger # <<>> /\ lost' = TRUE /\ ~w.ok
<1>1. lost \in BOOLEAN
  BY DEF TypeOK
<1>2. ledger' = w.disk /\ lost' = (lost \/ (ledger # <<>> /\ w.disk = <<>>))
  BY DEF WriteLedger
<1>3. CASE w = [ok |-> TRUE, disk |-> new]
  <2>1. ledger' = new
    BY <1>2, <1>3
  <2>2. lost' = lost
    BY <1>1, <1>2, <1>3
  <2> QED BY <2>1, <2>2
<1>4. CASE w = [ok |-> FALSE, disk |-> ledger]
  <2>1. ledger' = ledger /\ ~w.ok
    BY <1>2, <1>4
  <2>2. lost' = lost
    BY <1>1, <1>2, <1>4
  <2> QED BY <2>1, <2>2
<1>5. CASE w = [ok |-> FALSE, disk |-> <<>>]
  <2>1. ledger' = <<>> /\ ~w.ok
    BY <1>2, <1>5
  <2>2. ledger # <<>> => lost' = TRUE
    BY <1>1, <1>2, <1>5
  <2>3. ledger = <<>> => lost' = lost
    BY <1>1, <1>2, <1>5
  <2> QED BY <2>1, <2>2, <2>3
<1> QED
  BY <1>3, <1>4, <1>5 DEF WriteOutcomes

(* The ledger is empty after a loss.                                        *)
LEMMA LossKeeps ==
  ASSUME ledger' = <<>>, lost' = TRUE
  PROVE  ledger' \in Seq(Transaction) /\ lost' \in BOOLEAN /\ BookedOnce' /\ NothingBetween' /\ Booked' = {}
BY DEF BookedOnce, NothingBetween, Booked

(* A transaction that is appended is the only one with its key.             *)
LEMMA AppendKeeps ==
  ASSUME TypeOK, BookedOnce, NothingBetween, NEW t \in Transaction, Key(t.op) \notin Booked,
         lost \/ t.seen = Len(ledger), ledger' = Append(ledger, t), lost' = lost
  PROVE  /\ ledger' \in Seq(Transaction) /\ BookedOnce' /\ NothingBetween'
         /\ Booked' = Booked \cup {Key(t.op)}
<1>1. /\ ledger' \in Seq(Transaction)
      /\ DOMAIN ledger' = DOMAIN ledger \cup {Len(ledger) + 1}
      /\ ledger'[Len(ledger) + 1] = t
      /\ \A i \in DOMAIN ledger : ledger'[i] = ledger[i]
  BY DEF TypeOK
<1>2. Len(ledger) \in Nat
  BY DEF TypeOK
<1>3. Booked' = Booked \cup {Key(t.op)}
  BY <1>1 DEF Booked
<1>4. \A i \in DOMAIN ledger : Key(ledger[i].op) # Key(t.op)
  BY DEF Booked
<1>5. BookedOnce'
  BY <1>1, <1>4 DEF BookedOnce
<1>6. NothingBetween'
  BY <1>1, <1>2 DEF NothingBetween
<1> QED
  BY <1>1, <1>3, <1>5, <1>6

LEMMA BookKeeps ==
  ASSUME LoyaltyInv, Book
  PROVE  LoyaltyInv'
<1> USE LoyaltyAssumption
<1> DEFINE t == [op |-> Head(chain).op, seen |-> Head(chain).seen]
<1>1. chain # <<>> /\ Head(chain).looked /\ UNCHANGED <<ops, status, attempts, dead, todo>>
  BY DEF Book
<1>2. chain \in Seq(Handler) /\ ledger \in Seq(Transaction) /\ lost \in BOOLEAN
  BY DEF LoyaltyInv, TypeOK
<1>3. 1 \in DOMAIN chain /\ Head(chain) = chain[1] /\ chain[1] \in Handler
  BY <1>1, <1>2
<1>4. t \in Transaction /\ t.op = Head(chain).op /\ t.seen = Head(chain).seen
  BY <1>3 DEF Transaction, Handler
<1>5. Key(t.op) \notin Booked /\ (lost \/ t.seen = Len(ledger))
  BY <1>1, <1>3, <1>4 DEF LoyaltyInv, Mutex
<1>6. PICK w \in WriteOutcomes(ledger, Append(ledger, t), <<>>) :
        WriteLedger(w) /\ Done(Head(chain), IF w.ok THEN "created" ELSE "refused")
  BY DEF Book
<1>7. PICK tx \in Transaction : tx = t
  BY <1>4
<1> HIDE DEF t
<1>8. Append(ledger, tx) # <<>>
  <2>1. Len(Append(ledger, tx)) = Len(ledger) + 1 /\ Len(ledger) \in Nat
    BY <1>2, <1>7
  <2> QED BY <2>1
<1>9. \/ ledger' = Append(ledger, tx) /\ lost' = lost
      \/ ledger' = ledger /\ lost' = lost /\ ~w.ok
      \/ ledger' = <<>> /\ ledger # <<>> /\ lost' = TRUE /\ ~w.ok
  <2>1. PICK new : new = Append(ledger, t)
    OBVIOUS
  <2> QED BY <1>6, <1>7, <1>8, <2>1, WriteFate DEF LoyaltyInv
<1>10. CASE ledger' = Append(ledger, tx) /\ lost' = lost
  <2>1. /\ ledger' \in Seq(Transaction) /\ BookedOnce' /\ NothingBetween'
        /\ Booked' = Booked \cup {Key(tx.op)}
    BY <1>5, <1>7, <1>10, AppendKeeps DEF LoyaltyInv
  <2>2. PICK reply \in {"created", "refused"} : Done(Head(chain), reply)
    BY <1>6
  <2>3. Key(Head(chain).op) \in Booked'
    BY <2>1, <1>4, <1>7
  <2>4. lost' \in BOOLEAN /\ (lost => lost') /\ (lost' \/ Booked \subseteq Booked')
    BY <2>1, <1>2, <1>10
  <2> QED BY <1>1, <2>1, <2>2, <2>3, <2>4, DoneKeeps
<1>11. CASE ledger' = ledger /\ lost' = lost /\ ~w.ok
  <2>1. BookedOnce' /\ NothingBetween' /\ Booked' = Booked
    BY <1>11 DEF LoyaltyInv, BookedOnce, NothingBetween, Booked
  <2>2. Done(Head(chain), "refused")
    BY <1>6, <1>11
  <2> QED BY <1>1, <1>2, <1>11, <2>1, <2>2, DoneKeeps
<1>12. CASE ledger' = <<>> /\ lost' = TRUE /\ ~w.ok
  <2>1. Done(Head(chain), "refused")
    BY <1>6, <1>12
  <2> QED BY <1>1, <1>12, <2>1, LossKeeps, DoneKeeps
<1> QED
  BY <1>9, <1>10, <1>11, <1>12

LEMMA ConfigKeeps ==
  ASSUME LoyaltyInv, UpdateConfig
  PROVE  LoyaltyInv'
<1> USE DEF LoyaltyInv
<1>1. PICK w \in WriteOutcomes(ledger, ledger, <<>>) : WriteLedger(w)
  BY DEF UpdateConfig
<1>2. UNCHANGED <<ops, status, attempts, dead, pc, todo, chain>>
  BY DEF UpdateConfig, tillVars
<1>3. \/ ledger' = ledger /\ lost' = lost
      \/ ledger' = <<>> /\ lost' = TRUE
  BY <1>1, WriteFate
<1>4. CASE ledger' = ledger /\ lost' = lost
  <2>1. Booked' = Booked
    BY <1>4 DEF Booked
  <2> QED BY <1>2, <1>4, <2>1 DEF TypeOK, Mutex, Calls, Fates, BookedOnce, NothingBetween
<1>5. CASE ledger' = <<>> /\ lost' = TRUE
  <2>1. ledger' \in Seq(Transaction) /\ lost' \in BOOLEAN /\ BookedOnce' /\ NothingBetween' /\ Booked' = {}
    BY <1>5, LossKeeps
  <2>2. TypeOK'
    BY <1>2, <2>1 DEF TypeOK
  <2>3. Mutex' /\ Calls' /\ Fates'
    BY <1>2, <1>5, <2>1 DEF Mutex, Calls, Fates
  <2> QED BY <2>1, <2>2, <2>3
<1> QED
  BY <1>3, <1>4, <1>5

LEMMA CrashKeeps ==
  ASSUME LoyaltyInv, Crash
  PROVE  LoyaltyInv'
<1> USE DEF LoyaltyInv
<1>1. UNCHANGED <<ops, status, attempts, dead, pc, todo, ledger, lost>> /\ chain' = <<>>
  BY DEF Crash, tillVars
<1>2. Booked' = Booked
  BY <1>1 DEF Booked
<1> QED
  BY <1>1, <1>2 DEF TypeOK, Mutex, Calls, Fates, BookedOnce, NothingBetween

-----------------------------------------------------------------------------
LEMMA StepHolds == LoyaltyInv /\ [Next]_vars => LoyaltyInv'
<1> SUFFICES ASSUME LoyaltyInv, [Next]_vars PROVE LoyaltyInv'
  OBVIOUS
<1>1. ASSUME NEW i \in Sales, Sale(i) PROVE LoyaltyInv'
  BY <1>1, SaleQueues, EnqueueKeeps
<1>2. ASSUME NEW r \in Returns, Return(r) PROVE LoyaltyInv'
  BY <1>2, ReturnQueues, EnqueueKeeps
<1>3. ASSUME NEW r \in Runs, NEW due \in SUBSET Pending, Start(r, due) PROVE LoyaltyInv'
  BY <1>3, StartKeeps
<1>4. ASSUME NEW r \in Runs, Settle(r) \/ GiveUp(r) PROVE LoyaltyInv'
  BY <1>4, CallEndKeeps
<1>5. CASE Reload
  BY <1>5, ReloadKeeps
<1>6. ASSUME NEW y \in Awards, Award(y) PROVE LoyaltyInv'
  BY <1>6, AwardKeeps
<1>7. CASE Look
  BY <1>7, LookKeeps
<1>8. CASE Book
  BY <1>8, BookKeeps
<1>9. CASE UpdateConfig
  BY <1>9, ConfigKeeps
<1>10. CASE Crash
  BY <1>10, CrashKeeps
<1>11. CASE UNCHANGED vars
  <2>1. UNCHANGED <<ops, status, attempts, dead, pc, todo, chain, ledger, lost>>
    BY <1>11 DEF vars, tillVars, serverVars
  <2>2. Booked' = Booked
    BY <2>1 DEF Booked
  <2> QED
    BY <2>1, <2>2 DEF LoyaltyInv, TypeOK, Mutex, Calls, Fates, BookedOnce, NothingBetween
<1> QED
  BY <1>1, <1>2, <1>3, <1>4, <1>5, <1>6, <1>7, <1>8, <1>9, <1>10, <1>11 DEF Next

LEMMA Invariance == Spec => []LoyaltyInv
BY InitHolds, StepHolds, PTL DEF Spec

(* The queue, the runs, the chain of the mutex and the ledger keep their    *)
(* types.                                                                   *)
THEOREM LoyaltyTypes == Spec => []TypeOK
BY Invariance, PTL DEF LoyaltyInv

(* Whatever a till repeats and whatever is lost, no key is in the ledger    *)
(* twice.                                                                   *)
THEOREM BooksEachKeyOnce == Spec => []BookedOnce
BY Invariance, PTL DEF LoyaltyInv

(* No transaction is appended between the look at the ledger that another   *)
(* one rests on and its save, unless the file was lost.                     *)
THEOREM NothingAppendedBetween == Spec => []NothingBetween
BY Invariance, PTL DEF LoyaltyInv

(* Each operation waits, is in the dead letter, or has its key booked.      *)
THEOREM NothingIsForgotten == Spec => []NothingForgotten
<1>1. LoyaltyInv => NothingForgotten
  <2> SUFFICES ASSUME LoyaltyInv, NEW n \in DOMAIN ops
               PROVE  status[n] = "pending" \/ n \in dead \/ lost \/ Found(ops[n])
    BY DEF NothingForgotten
  <2>1. n \in Ids /\ status[n] \in Statuses
    BY LoyaltyAssumption DEF LoyaltyInv, TypeOK, Ids, Statuses
  <2> QED
    BY <2>1, FoundBooked DEF LoyaltyInv, Fates, Statuses
<1> QED
  BY <1>1, Invariance, PTL

-----------------------------------------------------------------------------
(* The refinement of PointsBook                                             *)

Orders == [n \in DOMAIN ops |-> Key(ops[n])]

Settled == {n \in DOMAIN ops : status[n] # "pending"}

(* The steps of PointsBook, in the terms of this module.                    *)
LEMMA OrderMapped ==
  ASSUME Len(Orders) <= Len(Orders'), SubSeq(Orders, 1, Len(Orders)) = SubSeq(Orders', 1, Len(Orders)),
         UNCHANGED <<Booked, Settled, dead, lost>>
  PROVE  Promise!Next
BY DEF Promise!Next, Promise!Order, Promise!IsPrefix, Orders, Settled, Booked

LEMMA BookMapped ==
  ASSUME NEW op \in Operation, Key(op) \notin Booked, Booked' = Booked \cup {Key(op)},
         UNCHANGED <<ops, status, dead, lost>>
  PROVE  Promise!Next
<1>1. UNCHANGED Settled /\ UNCHANGED Orders
  BY DEF Settled, Orders
<1>2. Promise!Book(Key(op))
  BY <1>1 DEF Promise!Book, Orders, Settled, Booked
<1> QED
  BY <1>2 DEF Promise!Next

LEMMA SettleMapped ==
  ASSUME NEW n \in DOMAIN ops, Key(ops[n]) \in Booked \/ lost,
         Settled' = Settled \cup {n}, UNCHANGED <<ops, ledger, dead, lost>>
  PROVE  Promise!Next
<1>1. UNCHANGED Booked /\ UNCHANGED Orders /\ n \in DOMAIN Orders /\ Orders[n] = Key(ops[n])
  BY DEF Booked, Orders
<1>2. Promise!Settle(n)
  BY <1>1 DEF Promise!Settle, Orders, Settled, Booked
<1> QED
  BY <1>1, <1>2 DEF Promise!Next, Orders

LEMMA LayAsideMapped ==
  ASSUME NEW n \in DOMAIN ops,
         Settled' = Settled \cup {n}, dead' = dead \cup {n}, UNCHANGED <<ops, ledger, lost>>
  PROVE  Promise!Next
<1>1. UNCHANGED Booked /\ UNCHANGED Orders /\ n \in DOMAIN Orders
  BY DEF Booked, Orders
<1>2. Promise!LayAside(n)
  BY <1>1 DEF Promise!LayAside, Orders, Settled, Booked
<1> QED
  BY <1>1, <1>2 DEF Promise!Next, Orders

LEMMA LoseMapped ==
  ASSUME ledger' = <<>>, lost' = TRUE, UNCHANGED <<ops, status, dead>>
  PROVE  Promise!Next
<1>1. UNCHANGED Settled /\ UNCHANGED Orders /\ Booked' = {}
  BY DEF Settled, Orders, Booked
<1>2. Promise!Lose
  BY <1>1 DEF Promise!Lose, Orders, Settled, Booked
<1> QED
  BY <1>2 DEF Promise!Next

LEMMA StutterMapped ==
  ASSUME UNCHANGED <<ops, ledger, dead, lost>>, Settled' = Settled
  PROVE  UNCHANGED Promise!vars
BY DEF Promise!vars, Settled

-----------------------------------------------------------------------------
LEMMA EnqueueRefines ==
  ASSUME LoyaltyInv, NEW new \in Seq(Operation), Enqueue(new)
  PROVE  Promise!Next
<1> USE LoyaltyAssumption
<1>1. /\ ops \in Seq(Operation) /\ status \in [Ids -> Statuses]
  BY DEF LoyaltyInv, TypeOK, Statuses
<1>2. /\ ops' = ops \o new /\ Len(ops) + Len(new) <= MaxOps
      /\ UNCHANGED <<attempts, dead, pc, todo, chain, ledger, lost>>
  BY DEF Enqueue, serverVars
<1>3. \A n \in Ids : status'[n] = IF n \in Len(ops) + 1 .. Len(ops) + Len(new) THEN "pending" ELSE status[n]
  BY <1>1 DEF Enqueue
<1>4. /\ ops' \in Seq(Operation) /\ Len(ops') = Len(ops) + Len(new)
      /\ \A n \in DOMAIN ops : n \in DOMAIN ops' /\ ops'[n] = ops[n]
  BY <1>1, <1>2
<1>5. Settled' = Settled
  <2>1. \A n \in DOMAIN ops' : n \in Ids /\ (n \in DOMAIN ops \/ n \in Len(ops) + 1 .. Len(ops) + Len(new))
    BY <1>1, <1>2, <1>4 DEF Ids
  <2>2. \A n \in DOMAIN ops : n \notin Len(ops) + 1 .. Len(ops) + Len(new)
    BY <1>1
  <2> QED BY <1>3, <1>4, <2>1, <2>2 DEF Settled
<1>6. Booked' = Booked
  BY <1>2 DEF Booked
<1>7. /\ Len(Orders) = Len(ops) /\ DOMAIN Orders = DOMAIN ops
      /\ Len(Orders') = Len(ops') /\ DOMAIN Orders' = DOMAIN ops'
  BY <1>1, <1>4 DEF Orders
<1>8. \A n \in DOMAIN ops : Orders[n] = Key(ops[n]) /\ Orders'[n] = Key(ops'[n])
  BY <1>4 DEF Orders
<1>9. SubSeq(Orders, 1, Len(Orders)) = SubSeq(Orders', 1, Len(Orders))
  BY <1>1, <1>4, <1>7, <1>8
<1>10. Len(Orders) <= Len(Orders')
  BY <1>1, <1>4, <1>7
<1> QED
  BY <1>2, <1>5, <1>6, <1>9, <1>10, OrderMapped

(* A mark settles an operation whose key is booked, lays one aside, or does *)
(* not change whether it is settled.                                        *)
LEMMA MarkRefines ==
  ASSUME LoyaltyInv, NEW r \in Runs, pc[r] # "idle",
         NEW reply \in {"created", "duplicate", "refused", "failed"},
         reply \in {"created", "duplicate"} => lost \/ Key(ops[First(todo[r])]) \in Booked,
         NEW waiting, Mark(r, reply, waiting)
  PROVE  Promise!Next \/ UNCHANGED Promise!vars
<1> USE LoyaltyAssumption
<1>1. todo[r] \subseteq DOMAIN ops /\ todo[r] # {}
  BY DEF LoyaltyInv, Calls
<1>2. PICK n \in Ids : n = First(todo[r]) /\ n \in DOMAIN ops
  BY <1>1, FirstOp DEF LoyaltyInv
<1>3. UNCHANGED <<ops, ledger, lost>>
  BY DEF Mark
<1>4. status \in [Ids -> Statuses] /\ DOMAIN ops \subseteq Ids
  BY DEF LoyaltyInv, TypeOK, Statuses, Ids
<1>5. ASSUME NEW rest, NEW st \in [Ids -> Statuses], GoOn(r, rest, st, waiting)
      PROVE  Settled' = {m \in DOMAIN ops : st[m] # "pending"}
  <2>1. \A m \in Ids : status'[m] # "pending" <=> st[m] # "pending"
    BY <1>5 DEF GoOn, Cleared
  <2> QED BY <1>3, <1>4, <2>1 DEF Settled
<1>6. CASE status[n] = "none"
  <2>a. PICK st \in [Ids -> Statuses], rest \in SUBSET todo[r] :
               st = status /\ rest = todo[r] \ {n}
    BY <1>4
  <2>1. st = status /\ GoOn(r, rest, st, waiting) /\ UNCHANGED <<attempts, dead>>
    BY <1>2, <1>6, <2>a DEF Mark, GoOn
  <2>2. Settled' = Settled
    BY <1>5, <2>1 DEF Settled
  <2> QED BY <1>3, <2>1, <2>2, StutterMapped
<1>7. CASE status[n] # "none"
  <2>1. Marked(n, reply) \in Statuses
    BY <1>4 DEF Marked, Statuses
  <2>2. PICK st \in [Ids -> Statuses] : st = [status EXCEPT ![n] = Marked(n, reply)]
    BY <1>4, <2>1
  <2>3. PICK rest : /\ GoOn(r, rest, st, waiting)
                    /\ dead' = IF LaidAside(n, reply) THEN dead \cup {n} ELSE dead
    BY <1>2, <1>7, <2>2 DEF Mark, GoOn
  <2>4. Settled' = {m \in DOMAIN ops : st[m] # "pending"}
    BY <1>5, <2>3
  <2>5. st[n] = Marked(n, reply) /\ \A m \in Ids \ {n} : st[m] = status[m]
    BY <1>4, <2>2
  <2>6. CASE reply \in {"created", "duplicate"}
    <3>1. st[n] # "pending" /\ ~LaidAside(n, reply)
      BY <2>5, <2>6 DEF Marked, LaidAside
    <3>2. Settled' = Settled \cup {n}
      BY <1>2, <1>4, <2>4, <2>5, <3>1 DEF Settled
    <3> QED BY <1>2, <1>3, <2>3, <2>6, <3>1, <3>2, SettleMapped
  <2>7. CASE LaidAside(n, reply) /\ reply \notin {"created", "duplicate"}
    <3>1. st[n] # "pending"
      BY <2>5, <2>7 DEF Marked
    <3>2. Settled' = Settled \cup {n}
      BY <1>2, <1>4, <2>4, <2>5, <3>1 DEF Settled
    <3> QED BY <1>2, <1>3, <2>3, <2>7, <3>2, LayAsideMapped
  <2>8. CASE ~LaidAside(n, reply) /\ reply \notin {"created", "duplicate"}
    <3>1. st[n] = status[n]
      BY <2>5, <2>8 DEF Marked, LaidAside
    <3>2. Settled' = Settled
      BY <1>4, <2>4, <2>5, <3>1 DEF Settled
    <3> QED BY <1>3, <2>3, <2>8, <3>2, StutterMapped
  <2> QED BY <2>6, <2>7, <2>8
<1> QED
  BY <1>6, <1>7

(* A write of the ledger books a new key, changes nothing or loses it.      *)
LEMMA BookRefines ==
  ASSUME LoyaltyInv, Book
  PROVE  Promise!Next \/ UNCHANGED Promise!vars
<1>1. chain # <<>> /\ Head(chain).looked /\ UNCHANGED <<ops, status, attempts, dead, todo>>
  BY DEF Book
<1>2. chain \in Seq(Handler) /\ ledger \in Seq(Transaction)
  BY DEF LoyaltyInv, TypeOK
<1>3. 1 \in DOMAIN chain /\ Head(chain) = chain[1] /\ chain[1] \in Handler
  BY <1>1, <1>2
<1>4. PICK h \in Handler : h = Head(chain) /\ Key(h.op) \notin Booked
  BY <1>1, <1>3 DEF LoyaltyInv, Mutex
<1>5. PICK tx \in Transaction : tx = [op |-> h.op, seen |-> h.seen]
  BY DEF Transaction, Handler
<1>6. h.op \in Operation /\ tx.op = h.op
  BY <1>5 DEF Handler
<1>7. PICK new : new = Append(ledger, tx)
  OBVIOUS
<1>8. new # <<>>
  <2>1. Len(new) = Len(ledger) + 1 /\ Len(ledger) \in Nat
    BY <1>2, <1>7
  <2> QED BY <2>1
<1>9. \E w \in WriteOutcomes(ledger, new, <<>>) : WriteLedger(w)
  BY <1>4, <1>5, <1>7 DEF Book
<1>10. \/ ledger' = new /\ lost' = lost
       \/ ledger' = ledger /\ lost' = lost
       \/ ledger' = <<>> /\ lost' = TRUE
  BY <1>8, <1>9, WriteFate DEF LoyaltyInv
<1>a. Settled' = Settled
  BY <1>1 DEF Settled
<1>11. CASE ledger' = new /\ lost' = lost
  <2>1. /\ DOMAIN ledger' = DOMAIN ledger \cup {Len(ledger) + 1}
        /\ ledger'[Len(ledger) + 1] = tx
        /\ \A i \in DOMAIN ledger : ledger'[i] = ledger[i]
    BY <1>2, <1>7, <1>11
  <2>2. Booked' = Booked \cup {Key(h.op)}
    BY <1>6, <2>1 DEF Booked
  <2> QED BY <1>1, <1>4, <1>6, <1>11, <2>2, BookMapped
<1>12. CASE ledger' = ledger /\ lost' = lost
  BY <1>1, <1>12, <1>a, StutterMapped
<1>13. CASE ledger' = <<>> /\ lost' = TRUE
  BY <1>1, <1>13, LoseMapped
<1> QED
  BY <1>10, <1>11, <1>12, <1>13

LEMMA StepRefines ==
  ASSUME LoyaltyInv, [Next]_vars
  PROVE  [Promise!Next]_(Promise!vars)
<1>1. ASSUME NEW new \in Seq(Operation), Enqueue(new) PROVE Promise!Next
  BY <1>1, EnqueueRefines
<1>2. ASSUME NEW r \in Runs, Settle(r) \/ GiveUp(r) PROVE Promise!Next \/ UNCHANGED Promise!vars
  <2>1. pc[r] \in {"idle", "calling", "created", "duplicate", "refused"}
    BY DEF LoyaltyInv, TypeOK
  <2>2. CASE Settle(r)
    <3>1. PICK reply \in {"created", "duplicate", "refused"} : reply = pc[r]
      BY <2>1, <2>2 DEF Settle
    <3>a. PICK waiting : waiting = chain
      OBVIOUS
    <3>2. Mark(r, reply, waiting)
      BY <2>2, <3>1, <3>a DEF Settle, Mark, GoOn
    <3>3. reply \in {"created", "duplicate"} => lost \/ Key(ops[First(todo[r])]) \in Booked
      BY <3>1 DEF LoyaltyInv, Calls
    <3> QED BY <2>2, <3>1, <3>2, <3>3, MarkRefines DEF Settle
  <2>3. CASE GiveUp(r)
    <3>1. PICK waiting : waiting = Abandoned({r})
      OBVIOUS
    <3>2. Mark(r, "failed", waiting)
      BY <2>3, <3>1 DEF GiveUp, Mark, GoOn
    <3> QED BY <2>3, <3>2, MarkRefines DEF GiveUp
  <2> QED BY <1>2, <2>2, <2>3
<1>3. ASSUME UNCHANGED <<ops, status, dead, ledger, lost>> PROVE UNCHANGED Promise!vars
  <2>1. Settled' = Settled
    BY <1>3 DEF Settled
  <2> QED BY <1>3, <2>1, StutterMapped
<1>4. CASE Book
  BY <1>4, BookRefines
<1>5. CASE UpdateConfig
  <2>1. PICK w \in WriteOutcomes(ledger, ledger, <<>>) : WriteLedger(w)
    BY <1>5 DEF UpdateConfig
  <2>2. UNCHANGED <<ops, status, dead>>
    BY <1>5 DEF UpdateConfig, tillVars
  <2>3. \/ ledger' = ledger /\ lost' = lost
        \/ ledger' = <<>> /\ lost' = TRUE
    BY <2>1, WriteFate DEF LoyaltyInv
  <2> QED BY <2>2, <2>3, <1>3, LoseMapped
<1>6. CASE Look \/ Reload \/ Crash \/ UNCHANGED vars
  BY <1>3, <1>6 DEF Look, Reload, Crash, vars, tillVars, serverVars
<1>7. ASSUME NEW y \in Awards, Award(y) PROVE UNCHANGED Promise!vars
  BY <1>3, <1>7 DEF Award, tillVars
<1>8. ASSUME NEW r \in Runs, NEW due, Start(r, due) PROVE UNCHANGED Promise!vars
  BY <1>3, <1>8 DEF Start
<1>9. ASSUME NEW i \in Sales, Sale(i) PROVE Promise!Next
  <2>1. \E new \in Seq(Operation) : Enqueue(new)
    BY <1>9, SaleQueues
  <2> QED BY <1>1, <2>1
<1>10. ASSUME NEW t \in Returns, Return(t) PROVE Promise!Next
  <2>1. \E new \in Seq(Operation) : Enqueue(new)
    BY <1>10, ReturnQueues
  <2> QED BY <1>1, <2>1
<1> QED
  BY <1>2, <1>4, <1>5, <1>6, <1>7, <1>8, <1>9, <1>10 DEF Next

(* The queue and the backend implement PointsBook: a key is booked once,    *)
(* and an order is settled only when its key is booked or it is laid aside. *)
THEOREM SyncImplementsPointsBook == Spec => ImplementsPointsBook
<1>1. Init => Promise!Init
  BY DEF Init, Promise!Init
<1>2. LoyaltyInv /\ [Next]_vars => [Promise!Next]_(Promise!vars)
  BY StepRefines
<1> QED
  BY <1>1, <1>2, Invariance, PTL DEF Spec, ImplementsPointsBook, Promise!Spec

-----------------------------------------------------------------------------
(* Retries run out.  EveryOperationSettles rests on it: an operation that   *)
(* waits has tries left, it never comes back into the queue, and each call  *)
(* that ends settles it or uses up one.                                     *)

RetriesLeft ==
  \A n \in Ids :
    /\ n \notin DOMAIN ops => attempts[n] = 0
    /\ status[n] = "pending" => attempts[n] < MaxRetries

(* What a step may do to an operation in the queue.                         *)
Onward ==
  /\ \A n \in DOMAIN ops :
       status'[n] = "pending" => status[n] = "pending" /\ attempts'[n] >= attempts[n]
  /\ \A r \in Runs :
       LET n == First(todo[r])
       IN  (Settle(r) \/ GiveUp(r)) /\ status'[n] = "pending" => attempts'[n] = attempts[n] + 1

LEMMA EnqueueUsesNone ==
  ASSUME LoyaltyInv, RetriesLeft, NEW new \in Seq(Operation), Enqueue(new)
  PROVE  RetriesLeft' /\ \A n \in DOMAIN ops : status'[n] = status[n]
<1> USE LoyaltyAssumption
<1>1. /\ ops \in Seq(Operation) /\ ops' = ops \o new /\ attempts' = attempts
      /\ attempts \in [Ids -> Nat]
      /\ status' = [n \in Ids |-> IF n \in Len(ops) + 1 .. Len(ops) + Len(new)
                                  THEN "pending" ELSE status[n]]
      /\ Len(ops) \in Nat /\ Len(ops) <= MaxOps
  BY DEF Enqueue, LoyaltyInv, TypeOK
<1>2. /\ DOMAIN ops = 1..Len(ops) /\ DOMAIN ops \subseteq DOMAIN ops'
      /\ DOMAIN ops \subseteq Ids
  BY <1>1 DEF Ids
<1>3. \A n \in Len(ops) + 1 .. Len(ops) + Len(new) : n \notin DOMAIN ops
  BY <1>1, <1>2
<1> QED
  BY <1>1, <1>2, <1>3 DEF RetriesLeft

(* A call that ends: what it does to its own operation, and to the others.  *)
LEMMA MarkUsesOne ==
  ASSUME LoyaltyInv, RetriesLeft, NEW r \in Runs, pc[r] # "idle",
         NEW reply \in {"created", "duplicate", "refused", "failed"},
         NEW waiting, Mark(r, reply, waiting)
  PROVE  /\ RetriesLeft'
         /\ \A n \in DOMAIN ops :
              status'[n] = "pending" => status[n] = "pending" /\ attempts'[n] >= attempts[n]
         /\ LET n == First(todo[r])
            IN  status'[n] = "pending" => attempts'[n] = attempts[n] + 1
<1> USE LoyaltyAssumption
<1>1. PICK n \in Ids : n = First(todo[r]) /\ n \in DOMAIN ops
  BY FirstOp DEF LoyaltyInv, Calls
<1>2. /\ status \in [Ids -> Statuses] /\ attempts \in [Ids -> Nat] /\ DOMAIN ops \subseteq Ids
      /\ ops' = ops
  BY DEF LoyaltyInv, TypeOK, Statuses, Ids, Mark
<1>3. CASE status[n] = "none"
  <2>1. attempts' = attempts /\ (status' = status \/ status' = Cleared(status))
    BY <1>1, <1>3 DEF Mark, GoOn
  <2>2. \A m \in Ids : status'[m] = "pending" => status[m] = "pending"
    BY <2>1 DEF Cleared
  <2> QED
    BY <1>1, <1>2, <1>3, <2>1, <2>2 DEF RetriesLeft
<1>4. CASE status[n] # "none"
  <2> DEFINE st == [status EXCEPT ![n] = Marked(n, reply)]
  <2>1. /\ attempts' = [attempts EXCEPT ![n] = Tried(n, reply)]
        /\ status' = st \/ status' = Cleared(st)
    BY <1>1, <1>4 DEF Mark, GoOn
  <2>2. \A m \in Ids : status'[m] = "pending" => st[m] = "pending"
    BY <2>1 DEF Cleared
  <2>3. st[n] = Marked(n, reply) /\ \A m \in Ids \ {n} : st[m] = status[m]
    BY <1>2
  <2>4. Marked(n, reply) = "pending" =>
          /\ status[n] = "pending" /\ ~LaidAside(n, reply)
          /\ Tried(n, reply) = attempts[n] + 1 /\ Tried(n, reply) < MaxRetries
    BY <1>2 DEF Marked, LaidAside, Tried
  <2>5. attempts'[n] = Tried(n, reply) /\ \A m \in Ids \ {n} : attempts'[m] = attempts[m]
    BY <1>2, <2>1
  <2> HIDE DEF st
  <2>6. /\ status'[n] = "pending" => /\ status[n] = "pending"
                                     /\ attempts'[n] = attempts[n] + 1
                                     /\ attempts'[n] < MaxRetries
        /\ \A m \in Ids \ {n} : status'[m] = "pending" => status[m] = "pending"
    BY <2>2, <2>3, <2>4, <2>5
  <2>7. RetriesLeft'
    BY <1>1, <1>2, <2>5, <2>6 DEF RetriesLeft
  <2>8. \A m \in DOMAIN ops :
          status'[m] = "pending" => status[m] = "pending" /\ attempts'[m] >= attempts[m]
    BY <1>2, <2>5, <2>6
  <2> QED
    BY <1>1, <2>6, <2>7, <2>8
<1> QED
  BY <1>3, <1>4

LEMMA CallEndUsesOne ==
  ASSUME LoyaltyInv, RetriesLeft, NEW r \in Runs, Settle(r) \/ GiveUp(r)
  PROVE  /\ RetriesLeft'
         /\ \A n \in DOMAIN ops :
              status'[n] = "pending" => status[n] = "pending" /\ attempts'[n] >= attempts[n]
         /\ LET n == First(todo[r])
            IN  status'[n] = "pending" => attempts'[n] = attempts[n] + 1
<1>1. PICK reply \in {"created", "duplicate", "refused", "failed"} :
        pc[r] # "idle" /\ \E waiting : Mark(r, reply, waiting)
  <2>1. CASE Settle(r)
    <3>1. PICK reply \in {"created", "duplicate", "refused"} : reply = pc[r]
      BY <2>1 DEF Settle, LoyaltyInv, TypeOK
    <3>2. PICK waiting : waiting = chain
      OBVIOUS
    <3>3. Mark(r, reply, waiting)
      BY <2>1, <3>1, <3>2 DEF Settle, Mark, GoOn
    <3> QED
      BY <2>1, <3>1, <3>3 DEF Settle
  <2>2. CASE GiveUp(r)
    <3>1. PICK waiting : waiting = Abandoned({r})
      OBVIOUS
    <3>2. Mark(r, "failed", waiting)
      BY <2>2, <3>1 DEF GiveUp, Mark, GoOn
    <3> QED
      BY <2>2, <3>2 DEF GiveUp
  <2> QED
    BY <2>1, <2>2
<1>2. PICK waiting : Mark(r, reply, waiting)
  BY <1>1
<1> QED
  BY <1>1, <1>2, MarkUsesOne

LEMMA RetriesStep ==
  ASSUME LoyaltyInv, RetriesLeft, [Next]_vars
  PROVE  RetriesLeft' /\ (Onward \/ UNCHANGED vars)
<1>0. status \in [Ids -> Statuses] /\ attempts \in [Ids -> Nat] /\ DOMAIN ops \subseteq Ids
  BY LoyaltyAssumption DEF LoyaltyInv, TypeOK, Statuses, Ids
<1>1. ASSUME NEW r \in Runs, Settle(r) \/ GiveUp(r)
      PROVE  LET n == First(todo[r])
             IN  status'[n] = "pending" => attempts'[n] = attempts[n] + 1
  BY <1>1, CallEndUsesOne
<1>2. SUFFICES /\ RetriesLeft'
               /\ \A n \in DOMAIN ops :
                    status'[n] = "pending" => status[n] = "pending" /\ attempts'[n] >= attempts[n]
  BY <1>1 DEF Onward
<1>3. ASSUME NEW new \in Seq(Operation), Enqueue(new)
      PROVE  /\ RetriesLeft'
             /\ \A n \in DOMAIN ops :
                  status'[n] = "pending" => status[n] = "pending" /\ attempts'[n] >= attempts[n]
  <2>1. attempts' = attempts
    BY <1>3 DEF Enqueue
  <2> QED
    BY <1>0, <1>3, <2>1, EnqueueUsesNone
<1>4. CASE UNCHANGED <<ops, status, attempts>>
  BY <1>0, <1>4 DEF RetriesLeft
<1>5. CASE \E i \in Sales : Sale(i)
  BY <1>3, <1>5, SaleQueues
<1>6. CASE \E r \in Returns : Return(r)
  BY <1>3, <1>6, ReturnQueues
<1>7. ASSUME NEW r \in Runs, Settle(r) \/ GiveUp(r)
      PROVE  /\ RetriesLeft'
             /\ \A n \in DOMAIN ops :
                  status'[n] = "pending" => status[n] = "pending" /\ attempts'[n] >= attempts[n]
  BY <1>7, CallEndUsesOne
<1>8. ASSUME NEW r \in Runs, NEW due \in SUBSET Pending, Start(r, due)
      PROVE  UNCHANGED <<ops, status, attempts>>
  BY <1>8 DEF Start
<1>9. Reload \/ Look \/ Book \/ UpdateConfig \/ Crash \/ UNCHANGED vars \/ (\E y \in Awards : Award(y))
        => UNCHANGED <<ops, status, attempts>>
  BY DEF Reload, Look, Book, UpdateConfig, Crash, Award, vars, tillVars
<1> QED
  BY <1>4, <1>5, <1>6, <1>7, <1>8, <1>9 DEF Next

(* What waits in the queue has tries left, so the next failures lay it      *)
(* aside: MAX_RETRIES is never overrun by runs that overlap.                *)
THEOREM TriesRemain == Spec => []RetriesLeft
<1>1. Init => RetriesLeft
  BY LoyaltyAssumption DEF Init, RetriesLeft
<1>2. LoyaltyInv /\ RetriesLeft /\ [Next]_vars => RetriesLeft'
  BY RetriesStep
<1> QED
  BY <1>1, <1>2, Invariance, PTL DEF Spec

(* Each call that ends, whatever its answer and whichever runs overlap,     *)
(* takes its operation out of the queue or uses up one of its tries; no     *)
(* operation gets its tries back or waits again.                            *)
THEOREM EachCallCounts == Spec => [][Onward]_vars
<1>1. LoyaltyInv /\ RetriesLeft /\ [Next]_vars => [Onward]_vars
  BY RetriesStep
<1> QED
  BY <1>1, Invariance, TriesRemain, PTL DEF Spec
=============================================================================
