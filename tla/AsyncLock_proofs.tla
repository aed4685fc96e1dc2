-------------------------- MODULE AsyncLock_proofs --------------------------
(***************************************************************************)
(* Mutual exclusion of the FIFO lock of asyncLock.js, for any clients.     *)
(***************************************************************************)
EXTENDS AsyncLock, SequenceTheorems, TLAPS

(* Whoever asks is not queued twice: appending keeps the queue injective.  *)
LEMMA AcquireKeepsInv ==
  ASSUME NEW c \in Clients, LockInv, Acquire(c)
  PROVE  LockInv'
<1> USE DEF LockInv, LockTypeOK, Waiting, Acquire, MutualExclusion
<1>1. CASE locked
  <2>1. queue' = Append(queue, c) /\ UNCHANGED <<locked, granted>>
    BY <1>1
  <2>2. queue' \in Seq(Clients) /\ Len(queue') = Len(queue) + 1
    BY <2>1
  <2>3. \A i \in 1..Len(queue) : queue'[i] = queue[i]
    BY <2>1
  <2>4. queue'[Len(queue) + 1] = c
    BY <2>1
  <2>5. DOMAIN queue' = 1..(Len(queue) + 1) /\ DOMAIN queue = 1..Len(queue)
    BY <2>1, <2>2
  <2>6. \A i \in DOMAIN queue : queue[i] # c
    OBVIOUS
  <2>7. Waiting' \cap granted' = {}
    <3>1. c \notin granted
      OBVIOUS
    <3>2. \A i \in DOMAIN queue' : queue'[i] \notin granted
      BY <2>3, <2>4, <2>5, <3>1
    <3> QED BY <3>2, <2>1
  <2>8. \A i, j \in DOMAIN queue' : queue'[i] = queue'[j] => i = j
    <3> SUFFICES ASSUME NEW i \in DOMAIN queue', NEW j \in DOMAIN queue',
                        queue'[i] = queue'[j]
                 PROVE  i = j
      OBVIOUS
    <3>1. CASE i \in DOMAIN queue /\ j \in DOMAIN queue
      BY <3>1, <2>3, <2>5
    <3>2. CASE i \notin DOMAIN queue \/ j \notin DOMAIN queue
      BY <3>2, <2>3, <2>4, <2>5, <2>6
    <3> QED BY <3>1, <3>2
  <2> QED BY <1>1, <2>1, <2>2, <2>7, <2>8
<1>2. CASE ~locked
  <2>1. queue = <<>> /\ granted = {}
    BY <1>2
  <2>2. locked' = TRUE /\ granted' = {c} /\ queue' = queue
    BY <1>2, <2>1
  <2> QED BY <2>1, <2>2
<1> QED BY <1>1, <1>2

(* Handing over: the head of the queue was not a holder and appears once,   *)
(* so removing it from the queue keeps holders and waiters apart.           *)
LEMMA ReleaseKeepsInv ==
  ASSUME NEW c \in Clients, LockInv, Release(c)
  PROVE  LockInv'
<1> USE DEF LockInv, LockTypeOK, Waiting, Release, MutualExclusion
<1>0. granted = {c} /\ locked
  OBVIOUS
<1>1. CASE queue # <<>>
  <2>1. /\ granted' = (granted \ {c}) \cup {Head(queue)}
        /\ queue' = Tail(queue)
        /\ UNCHANGED locked
    BY <1>1
  <2>2. Head(queue) = queue[1] /\ 1 \in DOMAIN queue /\ queue[1] \in Clients
    BY <1>1
  <2>3. granted' = {queue[1]}
    BY <1>0, <2>1, <2>2
  <2>4. queue' \in Seq(Clients) /\ Len(queue') = Len(queue) - 1
    BY <1>1, <2>1
  <2>5. \A i \in 1..(Len(queue) - 1) : queue'[i] = queue[i + 1]
    BY <1>1, <2>1
  <2>6. DOMAIN queue' = 1..(Len(queue) - 1) /\ DOMAIN queue = 1..Len(queue)
    BY <2>4
  <2>7. \A i \in DOMAIN queue' : i \in Nat /\ i + 1 \in DOMAIN queue /\ queue'[i] = queue[i + 1]
    BY <2>5, <2>6
  <2>8. Waiting' \cap granted' = {}
    <3>1. \A i \in DOMAIN queue' : queue'[i] # queue[1]
      BY <2>2, <2>7
    <3> QED BY <2>3, <3>1
  <2>9. \A i, j \in DOMAIN queue' : queue'[i] = queue'[j] => i = j
    BY <2>7
  <2> QED BY <1>0, <2>1, <2>2, <2>3, <2>4, <2>8, <2>9
<1>2. CASE queue = <<>>
  <2>1. granted' = {} /\ locked' = FALSE /\ queue' = <<>>
    BY <1>0, <1>2
  <2> QED BY <2>1
<1> QED BY <1>1, <1>2

(* Init establishes the invariant; so does a restart.                       *)
LEMMA FreshLockInv ==
  /\ Init => LockInv
  /\ Restart => LockInv'
<1> USE DEF LockInv, LockTypeOK, Waiting, MutualExclusion
<1>0. <<>> \in Seq(Clients) /\ DOMAIN <<>> = {}
  OBVIOUS
<1>1. ASSUME Init PROVE LockInv
  <2>1. Waiting = {}
    BY <1>0, <1>1 DEF Init
  <2> QED BY <1>0, <1>1, <2>1 DEF Init
<1>2. ASSUME Restart PROVE LockInv'
  <2>1. Waiting' = {}
    BY <1>0, <1>2 DEF Restart
  <2> QED BY <1>0, <1>2, <2>1 DEF Restart
<1> QED BY <1>1, <1>2

(* acquire() lets its caller in or queues it, and nobody else; release()    *)
(* lets its caller out, and nobody else: the client at the head of the      *)
(* queue is taken off it only to become the holder.                         *)
LEMMA AcquireAdmits ==
  ASSUME NEW c \in Clients, LockInv, Acquire(c)
  PROVE  granted' \cup Waiting' = (granted \cup Waiting) \cup {c}
<1> USE DEF LockInv, LockTypeOK, Waiting, Acquire
<1>1. CASE locked
  <2>1. queue' = Append(queue, c) /\ granted' = granted
    BY <1>1
  <2>2. DOMAIN queue' = DOMAIN queue \cup {Len(queue) + 1}
    BY <2>1
  <2>3. \A i \in DOMAIN queue : queue'[i] = queue[i]
    BY <2>1
  <2>4. queue'[Len(queue) + 1] = c
    BY <2>1
  <2> QED BY <2>1, <2>2, <2>3, <2>4
<1>2. CASE ~locked
  BY <1>2
<1> QED BY <1>1, <1>2

LEMMA ReleaseDismisses ==
  ASSUME NEW c \in Clients, LockInv, Release(c)
  PROVE  granted' \cup Waiting' = (granted \cup Waiting) \ {c}
<1> USE DEF LockInv, LockTypeOK, Waiting, Release, MutualExclusion
<1>0. granted = {c} /\ c \notin Waiting
  OBVIOUS
<1>1. CASE queue # <<>>
  <2>1. queue' = Tail(queue) /\ granted' = {queue[1]} /\ 1 \in DOMAIN queue
    <3>1. queue' = Tail(queue) /\ granted' = (granted \ {c}) \cup {Head(queue)}
      BY <1>1
    <3>2. Head(queue) = queue[1] /\ 1 \in DOMAIN queue
      BY <1>1
    <3> QED BY <1>0, <3>1, <3>2
  <2>2. \A i \in DOMAIN queue' : i + 1 \in DOMAIN queue /\ queue'[i] = queue[i + 1]
    BY <1>1, <2>1
  <2>3. \A j \in DOMAIN queue : j # 1 => j - 1 \in DOMAIN queue' /\ queue[j] = queue'[j - 1]
    BY <1>1, <2>1
  <2>4. Waiting' \cup {queue[1]} = Waiting
    BY <2>1, <2>2, <2>3
  <2> QED BY <1>0, <2>1, <2>4
<1>2. CASE queue = <<>>
  BY <1>0, <1>2
<1> QED BY <1>1, <1>2

(* Every behaviour of the lock keeps its invariant: at most one client is   *)
(* in the section between acquire() and release().                          *)
THEOREM LockSafe == Spec => [](LockInv /\ MutualExclusion)
<1>1. Init => LockInv
  BY FreshLockInv
<1>2. LockInv /\ [Next]_lockVars => LockInv'
  <2> SUFFICES ASSUME LockInv, [Next]_lockVars PROVE LockInv'
    OBVIOUS
  <2>1. CASE Restart
    BY <2>1, FreshLockInv
  <2>2. ASSUME NEW c \in Clients, Acquire(c) PROVE LockInv'
    BY <2>2, AcquireKeepsInv
  <2>3. ASSUME NEW c \in Clients, Release(c) PROVE LockInv'
    BY <2>3, ReleaseKeepsInv
  <2>4. CASE UNCHANGED lockVars
    BY <2>4 DEF lockVars, LockInv, LockTypeOK, Waiting, MutualExclusion
  <2> QED BY <2>1, <2>2, <2>3, <2>4 DEF Next
<1>3. LockInv => MutualExclusion
  BY DEF LockInv
<1> QED BY <1>1, <1>2, <1>3, PTL DEF Spec
=============================================================================
