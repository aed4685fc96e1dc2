---------------------------- MODULE LoyaltySync ----------------------------
(***************************************************************************)
(* Loyalty points of one customer: the retry queue of a till               *)
(* (services/loyalty/syncQueue.js, syncPost.js, processor.js), the API of  *)
(* the backend (controllers/loyalty.controller.js) and the ledger          *)
(* (services/loyalty.service.js, repositories/loyalty.repository.js).      *)
(*                                                                         *)
(* After a sale or a return the till puts operations into a queue in       *)
(* localStorage.  Runs of processSyncQueue, started by timers, by loading  *)
(* the page and by returning to it, send what is due, one operation after  *)
(* the other; nothing keeps two runs apart.  The backend handles requests  *)
(* under a mutex.                                                          *)
(*                                                                         *)
(* Faults: a request or its answer is lost, also after the backend acted;  *)
(* the page is reloaded; the backend dies; a write of the ledger fails or  *)
(* loses it (FileStore).                                                   *)
(***************************************************************************)
EXTENDS Naturals, Sequences, FiniteSets, FileStore

CONSTANTS
  Sales, Returns,  \* invoices and return records
  Redeeming,       \* sales paid with points
  Awards,          \* years: birthday bonuses, asked for without the queue
  MaxRetries,      \* MAX_RETRIES: 5 in the code
  MaxOps,          \* bound: operations put into the queue
  MaxRuns,         \* bound: runs of processSyncQueue at one time
  MaxAlone         \* bound: requests in the backend that nobody waits for

ASSUME LoyaltyAssumption ==
  /\ Redeeming \subseteq Sales
  /\ MaxRetries \in Nat \ {0} /\ MaxOps \in Nat /\ MaxRuns \in Nat /\ MaxAlone \in Nat

VARIABLES
  ops,       \* operations created, in order; an operation's id is its number
  status,    \* of each operation in the queue; "none" before and after
  attempts,
  dead,      \* ids in the dead letter
  pc,        \* of each run: idle, calling, or the answer it got
  todo,      \* the operations a run has still to settle
  chain,     \* handlers waiting for or inside the mutex, one inside at most
  ledger,    \* the transactions, oldest first
  lost       \* history: the ledger's file was lost

tillVars == <<ops, status, attempts, dead, pc, todo>>
serverVars == <<chain, ledger, lost>>
vars == <<tillVars, serverVars>>

Ids == 1..MaxOps

Runs == 1..MaxRuns

(* Nobody waits for the answer.                                             *)
Nobody == 0

Operation == [kind : {"earn", "redeem"}, ref : Sales]
               \cup [kind : {"reverse"}, ref : Returns]
               \cup [kind : {"bonus"}, ref : Awards]

(* What the backend looks an operation up by: earn and redeem by reference  *)
(* and refType, which is "sale" for both; a reversal by its return.         *)
Key(op) == <<IF op.kind \in {"earn", "redeem"} THEN "sale" ELSE op.kind, op.ref>>

(* `seen' is how long the ledger was when the handler looked at it.  It says *)
(* when the handler looked, not what it made of it: the balance of a        *)
(* redemption or a reversal is computed from some of the entries only.      *)
Handler == [op : Operation, from : Runs \cup {Nobody}, looked : BOOLEAN, seen : Nat]

Transaction == [op : Operation, seen : Nat]

Init ==
  /\ ops = <<>>
  /\ status = [n \in Ids |-> "none"]
  /\ attempts = [n \in Ids |-> 0]
  /\ dead = {}
  /\ pc = [r \in Runs |-> "idle"]
  /\ todo = [r \in Runs |-> {}]
  /\ chain = <<>>
  /\ ledger = <<>>
  /\ lost = FALSE

-----------------------------------------------------------------------------
(* The queue                                                                *)

Pending == {n \in Ids : status[n] = "pending"}

(* findPending *)
Waiting(op) == \E n \in Pending : ops[n] = op

New(op) == IF Waiting(op) THEN <<>> ELSE <<op>>

(* The operations `new' go to the end of the queue.                         *)
Enqueue(new) ==
  /\ Len(ops) + Len(new) <= MaxOps
  /\ ops' = ops \o new
  /\ status' = [n \in Ids |-> IF n \in Len(ops) + 1 .. Len(ops) + Len(new)
                              THEN "pending" ELSE status[n]]
  /\ UNCHANGED <<attempts, dead, pc, todo, serverVars>>

(* syncLoyaltyForSale: what waits already is not queued again.              *)
Sale(i) ==
  LET earn == [kind |-> "earn", ref |-> i]
      redeem == [kind |-> "redeem", ref |-> i]
  IN  Enqueue((IF i \in Redeeming THEN New(redeem) ELSE <<>>) \o New(earn))

(* syncLoyaltyForReturn *)
Return(r) == Enqueue(New([kind |-> "reverse", ref |-> r]))

-----------------------------------------------------------------------------
(* The runs                                                                 *)

(* The list of a run is in the order of the queue.                          *)
First(ids) == CHOOSE n \in ids : \A m \in ids : n <= m

(* A request that comes to the mutex.                                       *)
Request(op, from) == [op |-> op, from |-> from, looked |-> FALSE, seen |-> 0]

(* getPendingOperations: which of them are due depends on the clock.        *)
Start(r, due) ==
  /\ pc[r] = "idle" /\ \A q \in 1..r - 1 : pc[q] # "idle"
  /\ due # {} /\ due \subseteq Pending
  /\ todo' = [todo EXCEPT ![r] = due]
  /\ pc' = [pc EXCEPT ![r] = "calling"]
  /\ chain' = Append(chain, Request(ops[First(due)], r))
  /\ UNCHANGED <<ops, status, attempts, dead, ledger, lost>>

(* Mutant: a refusal is not laid aside.                                     *)
LaidAsideOnRetries(n, reply) == reply = "failed" /\ attempts[n] + 1 >= MaxRetries

(* The answer to an operation that is still in the queue: confirmed or a    *)
(* duplicate; refused (400, 404), which lays it aside at once; or no answer *)
(* (network, 401, 5xx), which lays it aside after MAX_RETRIES.  The status  *)
(* it has by then is not looked at.                                         *)
LaidAside(n, reply) ==
  \/ reply = "refused"
  \/ reply = "failed" /\ attempts[n] + 1 >= MaxRetries

(* Mutant: the dead letter's status is misspelt.                            *)
MarkedMisspelt(n, reply) ==
  CASE reply = "created"   -> "confirmed"
    [] reply = "duplicate" -> "duplicate"
    [] reply = "refused"   -> "conflict"
    [] reply = "failed"    -> IF LaidAside(n, reply) THEN "dead-letter" ELSE status[n]

Marked(n, reply) ==
  CASE reply = "created"   -> "confirmed"
    [] reply = "duplicate" -> "duplicate"
    [] reply = "refused"   -> "conflict"
    [] reply = "failed"    -> IF LaidAside(n, reply) THEN "dead_letter" ELSE status[n]

(* Mutant: only answers count.                                              *)
TriedUncounted(n, reply) == IF reply = "refused" THEN MaxRetries ELSE attempts[n]

Tried(n, reply) ==
  CASE reply = "refused" -> MaxRetries
    [] reply = "failed"  -> attempts[n] + 1
    [] OTHER             -> attempts[n]

(* clearConfirmed *)
Cleared(st) == [n \in Ids |-> IF st[n] = "confirmed" THEN "none" ELSE st[n]]

(* r goes on with the next operation of its list, or clears the queue.  The *)
(* handlers in `waiting' are those of others.                               *)
GoOn(r, rest, st, waiting) ==
  /\ todo' = [todo EXCEPT ![r] = rest]
  /\ IF rest # {}
     THEN /\ status' = st
          /\ pc' = [pc EXCEPT ![r] = "calling"]
          /\ chain' = Append(waiting, Request(ops[First(rest)], r))
     ELSE /\ status' = Cleared(st)
          /\ pc' = [pc EXCEPT ![r] = "idle"]
          /\ chain' = waiting

(* The call of r ends with a reply: markConfirmed, markDuplicate,           *)
(* markConflict, updateRetrySchedule.                                       *)
Mark(r, reply, waiting) ==
  /\ LET n == First(todo[r])
         rest == todo[r] \ {n}
     IN  IF status[n] = "none"
         THEN GoOn(r, rest, status, waiting) /\ UNCHANGED <<attempts, dead>>
         ELSE /\ GoOn(r, rest, [status EXCEPT ![n] = Marked(n, reply)], waiting)
              /\ attempts' = [attempts EXCEPT ![n] = Tried(n, reply)]
              /\ dead' = IF LaidAside(n, reply) THEN dead \cup {n} ELSE dead
  /\ UNCHANGED <<ops, ledger, lost>>

Settle(r) ==
  /\ pc[r] \notin {"idle", "calling"}
  /\ Mark(r, pc[r], chain)

(* The runs rs do not wait any longer: their requests go on for nobody.  One *)
(* that never came to the backend is one that is refused there.             *)
Abandoned(rs) ==
  [i \in DOMAIN chain |->
     IF chain[i].from \in rs THEN [chain[i] EXCEPT !.from = Nobody] ELSE chain[i]]

Alone(s) == {i \in DOMAIN s : s[i].from = Nobody}

(* The call of r ends without a result: network, expired token, exception.  *)
GiveUp(r) ==
  /\ pc[r] = "calling"
  /\ Cardinality(Alone(Abandoned({r}))) <= MaxAlone
  /\ Mark(r, "failed", Abandoned({r}))

(* The page is left and loaded again: localStorage stays.                   *)
Reload ==
  /\ pc' = [r \in Runs |-> "idle"]
  /\ todo' = [r \in Runs |-> {}]
  /\ Cardinality(Alone(Abandoned(Runs))) <= MaxAlone
  /\ chain' = Abandoned(Runs)
  /\ UNCHANGED <<ops, status, attempts, dead, ledger, lost>>

-----------------------------------------------------------------------------
(* The backend                                                              *)

(* awardBirthdayBonus, asked for by a person, who is not part of the model. *)
Award(y) ==
  /\ Cardinality(Alone(chain)) < MaxAlone
  /\ chain' = Append(chain, Request([kind |-> "bonus", ref |-> y], Nobody))
  /\ UNCHANGED <<tillVars, ledger, lost>>

Reply(r, what) == pc' = IF r = Nobody THEN pc ELSE [pc EXCEPT ![r] = what]

Done(h, what) ==
  /\ chain' = Tail(chain)
  /\ Reply(h.from, what)

Found(op) == \E i \in DOMAIN ledger : Key(ledger[i].op) = Key(op)

(* Mutant: nothing is looked up.                                            *)
LookAtNothing ==
  /\ chain # <<>> /\ ~Head(chain).looked
  /\ chain' = [chain EXCEPT ![1].looked = TRUE, ![1].seen = Len(ledger)]
  /\ UNCHANGED <<tillVars, ledger, lost>>

(* Mutant: the mutex is released while the handler awaits.                  *)
LookUnlocked ==
  /\ chain # <<>> /\ ~Head(chain).looked
  /\ ~Found(Head(chain).op)
  /\ chain' = Append(Tail(chain), [Head(chain) EXCEPT !.looked = TRUE, !.seen = Len(ledger)])
  /\ UNCHANGED <<tillVars, ledger, lost>>

(* The first step inside the mutex.  The request is refused (too few        *)
(* points; or, before the mutex, configuration, customer, a missing field); *)
(* or getTransactionByRef or getReversalForReturn finds its transaction; or *)
(* the ledger is read for the new one, by getBalance (all transactions) for *)
(* an earn or a bonus, by listTransactions (its first page, of which the    *)
(* unexpired earn and bonus entries count) for a redeem or a reverse.       *)
Look ==
  /\ chain # <<>> /\ ~Head(chain).looked
  /\ LET h == Head(chain)
     IN  \/ Done(h, "refused")
         \/ Found(h.op) /\ Done(h, "duplicate")
         \/ /\ ~Found(h.op)
            /\ chain' = [chain EXCEPT ![1].looked = TRUE, ![1].seen = Len(ledger)]
            /\ UNCHANGED pc
  /\ UNCHANGED <<ops, status, attempts, dead, todo, ledger, lost>>

WriteLedger(w) ==
  /\ ledger' = w.disk
  /\ lost' = (lost \/ (ledger # <<>> /\ w.disk = <<>>))

(* Mutant: what the repository answers is not looked at.                    *)
BookUnchecked ==
  /\ chain # <<>> /\ Head(chain).looked
  /\ LET h == Head(chain)
         new == Append(ledger, [op |-> h.op, seen |-> h.seen])
     IN  \E w \in WriteOutcomes(ledger, new, <<>>) : WriteLedger(w) /\ Done(h, "created")
  /\ UNCHANGED <<ops, status, attempts, dead, todo>>

(* appendTransaction: a transaction that cannot be saved is an error (400). *)
Book ==
  /\ chain # <<>> /\ Head(chain).looked
  /\ LET h == Head(chain)
         new == Append(ledger, [op |-> h.op, seen |-> h.seen])
     IN  \E w \in WriteOutcomes(ledger, new, <<>>) :
           /\ WriteLedger(w)
           /\ Done(h, IF w.ok THEN "created" ELSE "refused")
  /\ UNCHANGED <<ops, status, attempts, dead, todo>>

(* updateConfig, outside the mutex: the configurations are in the same      *)
(* document.                                                                *)
UpdateConfig ==
  /\ \E w \in WriteOutcomes(ledger, ledger, <<>>) : WriteLedger(w)
  /\ UNCHANGED <<tillVars, chain>>

(* The backend dies and starts again: the file stays.                       *)
Crash ==
  /\ chain' = <<>>
  /\ UNCHANGED <<tillVars, ledger, lost>>

Next ==
  \/ \E i \in Sales : Sale(i)
  \/ \E r \in Returns : Return(r)
  \/ \E r \in Runs : (\E due \in SUBSET Pending : Start(r, due)) \/ Settle(r) \/ GiveUp(r)
  \/ Reload
  \/ \E y \in Awards : Award(y)
  \/ Look
  \/ Book
  \/ UpdateConfig
  \/ Crash

(* Handlers run.  A fetch ends, at the latest with an error of the browser, *)
(* and not every call is cut off by a reload before.  Timers fire for ever, *)
(* every 60 s: again and again a run begins when no retry is put off (30 s  *)
(* at most).                                                                *)
Fairness ==
  /\ WF_vars(Look \/ Book)
  /\ SF_vars(\E r \in Runs : Settle(r) \/ GiveUp(r))
  /\ SF_vars(\E r \in Runs : Start(r, Pending))

Spec == Init /\ [][Next]_vars /\ Fairness

-----------------------------------------------------------------------------
(* Properties                                                               *)

(* Every variable has its type.                                             *)
TypeOK ==
  /\ ops \in Seq(Operation) /\ Len(ops) <= MaxOps
  /\ status \in [Ids -> {"none", "pending", "confirmed", "duplicate", "conflict", "dead_letter"}]
  /\ attempts \in [Ids -> Nat]
  /\ dead \subseteq Ids
  /\ pc \in [Runs -> {"idle", "calling", "created", "duplicate", "refused"}]
  /\ todo \in [Runs -> SUBSET Ids]
  /\ chain \in Seq(Handler)
  /\ ledger \in Seq(Transaction)
  /\ lost \in BOOLEAN

(* However often a till repeats an operation, in how many runs, and whatever *)
(* answers are lost, the ledger has one transaction for it at most (the     *)
(* look-up under the mutex, loyalty.service.js lines 177-180).              *)
BookedOnce ==
  \A i, j \in DOMAIN ledger : Key(ledger[i].op) = Key(ledger[j].op) => i = j

(* Nothing is appended between a handler's look at the ledger and its save, *)
(* whatever requests overlap (the mutex, loyalty.service.js lines 176, 230, *)
(* 296 and 364): a transaction follows the very entries its handler saw.    *)
(* That the balance in it counts all of them is not claimed: redeem and     *)
(* reverse leave the earlier deductions out.                                *)
NothingBetween ==
  lost \/ \A i \in DOMAIN ledger : ledger[i].seen = i - 1

(* No operation is forgotten, whatever runs overlap, answers get lost or    *)
(* processes die: it waits in the queue, or it is in the dead letter, or    *)
(* the ledger has its key.  (For the backend a sale that was paid with      *)
(* points and earns some is one key: of its two operations the second is a  *)
(* duplicate.)                                                              *)
NothingForgotten ==
  \A n \in DOMAIN ops :
    \/ status[n] = "pending"
    \/ n \in dead
    \/ lost
    \/ Found(ops[n])

(* Orders are booked once and settled honestly (PointsBook).                *)
Promise == INSTANCE PointsBook WITH
  Keys <- {Key(op) : op \in Operation},
  orders <- [n \in DOMAIN ops |-> Key(ops[n])],
  booked <- {Key(ledger[i].op) : i \in DOMAIN ledger},
  settled <- {n \in DOMAIN ops : status[n] # "pending"},
  aside <- dead

ImplementsPointsBook == Promise!Spec

(* No operation waits for ever: the queue empties again and again, each     *)
(* operation being answered or, after MAX_RETRIES, laid aside               *)
(* (updateRetrySchedule).                                                   *)
EveryOperationSettles == []<>(Pending = {})
=============================================================================
