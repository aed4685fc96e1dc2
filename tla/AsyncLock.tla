----------------------------- MODULE AsyncLock -----------------------------
(***************************************************************************)
(* The in-process lock of backend/utils/asyncLock.js: a FIFO queue of      *)
(* pending promises and a flag.  `stockLock`, the instance every checkout  *)
(* holds, is used by the market modules through INSTANCE.                  *)
(*                                                                         *)
(* The queue holds the tasks whose promise is still pending; `granted` is  *)
(* the set of clients whose promise was resolved with a release function   *)
(* they have not called yet.  _release hands the lock straight to the head *)
(* of the queue: the flag stays set, so a client that calls acquire at     *)
(* that moment queues behind everyone already waiting.                     *)
(***************************************************************************)
EXTENDS Naturals, Sequences

CONSTANT Clients

VARIABLES locked, queue, granted

lockVars == <<locked, queue, granted>>

Waiting == {queue[i] : i \in DOMAIN queue}

LockTypeOK ==
  /\ locked \in BOOLEAN
  /\ queue \in Seq(Clients)
  /\ granted \in SUBSET Clients

Init ==
  /\ locked = FALSE
  /\ queue = <<>>
  /\ granted = {}

(* Mutant: the free lock is taken without setting the flag.                 *)
AcquireForgetsFlag(c) ==
  /\ c \notin granted \cup Waiting
  /\ \/ /\ locked
        /\ queue' = Append(queue, c)
        /\ UNCHANGED <<locked, granted>>
     \/ /\ ~locked
        /\ granted' = granted \cup {c}
        /\ UNCHANGED <<locked, queue>>

(* acquire(): take the free lock at once, or join the queue.  A request     *)
(* awaits the promise, so it never asks again while it waits or holds.      *)
Acquire(c) ==
  /\ c \notin granted \cup Waiting
  /\ \/ /\ locked
        /\ queue' = Append(queue, c)
        /\ UNCHANGED <<locked, granted>>
     \/ /\ ~locked
        /\ locked' = TRUE
        /\ granted' = granted \cup {c}
        /\ UNCHANGED queue

(* _release(): resolve the promise at the head of the queue, or clear the   *)
(* flag when nobody waits.                                                  *)
Release(c) ==
  /\ c \in granted
  /\ \/ /\ queue # <<>>
        /\ granted' = (granted \ {c}) \cup {Head(queue)}
        /\ queue' = Tail(queue)
        /\ UNCHANGED locked
     \/ /\ queue = <<>>
        /\ granted' = granted \ {c}
        /\ locked' = FALSE
        /\ UNCHANGED queue

(* The lock lives in the memory of the process: a restart builds a new one. *)
Restart ==
  /\ locked' = FALSE
  /\ queue' = <<>>
  /\ granted' = {}

Next == Restart \/ \E c \in Clients : Acquire(c) \/ Release(c)

Spec == Init /\ [][Next]_lockVars

-----------------------------------------------------------------------------
(* At most one client is between the resolution of its promise and its      *)
(* release() call: what the header of asyncLock.js promises the checkouts.  *)
MutualExclusion == \A a, b \in granted : a = b

(* The strengthening that makes it inductive: the flag is set exactly while *)
(* somebody holds the lock, tasks are only queued behind a holder, and no   *)
(* client is queued twice or queued while it holds the lock.                *)
LockInv ==
  /\ LockTypeOK
  /\ MutualExclusion
  /\ locked <=> granted # {}
  /\ queue # <<>> => locked
  /\ Waiting \cap granted = {}
  /\ \A i, j \in DOMAIN queue : queue[i] = queue[j] => i = j
=============================================================================
