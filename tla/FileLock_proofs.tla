--------------------------- MODULE FileLock_proofs ---------------------------
(***************************************************************************)
(* Mutual exclusion of the file lock of fileLock.js for any number of      *)
(* attempts, processes and crashes.  Most of it holds only of behaviours   *)
(* in which no take-over is disturbed, and the theorems that need this say *)
(* so: []TakeOverUndisturbed is a hypothesis that nothing in the code      *)
(* guarantees.  Without it mutual exclusion is false (MCFileLockTakeOver). *)
(***************************************************************************)
EXTENDS FileLock, TLAPS

(* The initial state, with nobody at the lock, satisfies the invariant.     *)
LEMMA InitLockInv == Init => LockInv
BY FileLockAssumption
   DEF Init, LockInv, TypeOK, OwnersHold, HoldersWrote, BeatsOfHolders, LiveProcesses,
       CondemnedIsDead, TakeOverUndisturbed, NoOrphan, Files, Labels

(* The part of the invariant that every step keeps on its own account; that *)
(* take-overs stay undisturbed is the assumption on the steps.              *)
Kept ==
  /\ TypeOK /\ OwnersHold /\ HoldersWrote /\ BeatsOfHolders /\ LiveProcesses
  /\ CondemnedIsDead /\ NoOrphan

(* acquire(): the steps from the request to the wait.                       *)
LEMMA AcquireKeeps ==
  ASSUME LockInv, NEW a \in Attempts,
         \/ Acquire(a) \/ Create(a) \/ WriteMeta(a) \/ ReadMeta(a) \/ Stat(a)
         \/ Sleep(a) \/ TimeOut(a)
  PROVE  Kept'
<1> USE FileLockAssumption
    DEF LockInv, Kept, TypeOK, OwnersHold, HoldersWrote, BeatsOfHolders, LiveProcesses,
        CondemnedIsDead, TakeOverUndisturbed, NoOrphan, Files, Labels, Step, Dead
<1>1. CASE Acquire(a)
  BY <1>1 DEF Acquire
<1>2. CASE Create(a)
  BY <1>2 DEF Create
<1>3. CASE WriteMeta(a)
  BY <1>3 DEF WriteMeta
<1>4. CASE ReadMeta(a)
  BY <1>4 DEF ReadMeta, Token
<1>5. CASE Stat(a)
  BY <1>5 DEF Stat, Stale, BlankIsAbandoned
<1>6. CASE Sleep(a)
  BY <1>6 DEF Sleep
<1>7. CASE TimeOut(a)
  BY <1>7 DEF TimeOut
<1> QED BY <1>1, <1>2, <1>3, <1>4, <1>5, <1>6, <1>7

(* _breakStale: what it moves aside, and may put back, is a dead lock.      *)
LEMMA TakeOverKeeps ==
  ASSUME LockInv, NEW a \in Attempts, BreakRename(a) \/ Verify(a) \/ Restore(a)
  PROVE  Kept'
<1> USE FileLockAssumption
    DEF LockInv, Kept, TypeOK, OwnersHold, HoldersWrote, BeatsOfHolders, LiveProcesses,
        CondemnedIsDead, TakeOverUndisturbed, NoOrphan, Files, Labels, Step, Dead
<1>1. CASE BreakRename(a)
  BY <1>1 DEF BreakRename
<1>2. CASE Verify(a)
  BY <1>2 DEF Verify
<1>3. CASE Restore(a)
  BY <1>3 DEF Restore, LinkBack
<1> QED BY <1>1, <1>2, <1>3

(* Heartbeats rename over the lock path only while their owner holds it.    *)
LEMMA BeatKeeps ==
  ASSUME LockInv, NEW a \in Attempts, BeatRead(a) \/ BeatStep(a)
  PROVE  Kept'
<1> USE FileLockAssumption
    DEF LockInv, Kept, TypeOK, OwnersHold, HoldersWrote, BeatsOfHolders, LiveProcesses,
        CondemnedIsDead, TakeOverUndisturbed, NoOrphan, Files, Labels, Dead
<1>1. CASE BeatRead(a)
  BY <1>1 DEF BeatRead
<1>2. CASE BeatReread(a)
  BY <1>2 DEF BeatReread
<1>3. CASE BeatRename(a)
  BY <1>3 DEF BeatRename
<1> QED BY <1>1, <1>2, <1>3 DEF BeatStep

(* release(): once the heartbeat in flight is through, the file is moved    *)
(* and deleted by its owner only.                                           *)
LEMMA ReleaseKeeps ==
  ASSUME LockInv, NEW a \in Attempts,
         Release(a) \/ RemoveRead(a) \/ RemoveRename(a) \/ RemoveVerify(a)
  PROVE  Kept'
<1> USE FileLockAssumption
    DEF LockInv, Kept, TypeOK, OwnersHold, HoldersWrote, BeatsOfHolders, LiveProcesses,
        CondemnedIsDead, TakeOverUndisturbed, NoOrphan, Files, Labels, Step, Dead
<1>1. CASE Release(a)
  BY <1>1 DEF Release
<1>2. CASE RemoveRead(a)
  BY <1>2 DEF RemoveRead, Owns, Token
<1>3. CASE RemoveRename(a)
  BY <1>3 DEF RemoveRename
<1>4. CASE RemoveVerify(a)
  <2>1. moved[a] = a /\ a \in written
    BY <1>4 DEF RemoveVerify
  <2>2. UNCHANGED lockFile /\ moved' = [moved EXCEPT ![a] = NoFile]
    BY <1>4, <2>1 DEF RemoveVerify, Token
  <2> QED BY <1>4, <2>2 DEF RemoveVerify
<1> QED BY <1>1, <1>2, <1>3, <1>4

(* A process that dies leaves no attempt of its own behind that could act.  *)
LEMMA CrashKeeps ==
  ASSUME LockInv, NEW p \in Procs, Crash(p)
  PROVE  Kept'
<1> USE FileLockAssumption
    DEF LockInv, Kept, TypeOK, Files, Labels, Dead, Crash
<1>1. TypeOK'
  OBVIOUS
<1>2. OwnersHold' /\ HoldersWrote' /\ BeatsOfHolders' /\ LiveProcesses'
  BY DEF OwnersHold, HoldersWrote, BeatsOfHolders, LiveProcesses
<1>3. CondemnedIsDead'
  BY DEF CondemnedIsDead
<1>4. NoOrphan'
  BY DEF NoOrphan
<1> QED BY <1>1, <1>2, <1>3, <1>4

(* One step of the lock keeps the invariant.                                *)
LEMMA StepKeepsLockInv ==
  LockInv /\ [Next /\ TakeOverUndisturbed']_vars => LockInv'
<1> SUFFICES ASSUME LockInv, [Next /\ TakeOverUndisturbed']_vars
             PROVE  LockInv'
  OBVIOUS
<1>1. CASE UNCHANGED vars
  BY <1>1 DEF vars, LockInv, TypeOK, OwnersHold, HoldersWrote, BeatsOfHolders, LiveProcesses,
        CondemnedIsDead, TakeOverUndisturbed, NoOrphan, Dead
<1>2. CASE Next /\ TakeOverUndisturbed'
  <2>1. Kept'
    BY <1>2, AcquireKeeps, TakeOverKeeps, BeatKeeps, ReleaseKeeps, CrashKeeps
       DEF Next, LockStep
  <2> QED BY <1>2, <2>1 DEF Kept, LockInv
<1> QED BY <1>1, <1>2

(* The behaviours that the quiet run checks are those of the lock in which  *)
(* no take-over is ever disturbed.                                          *)
LEMMA QuietIsUndisturbed == QuietSpec <=> Spec /\ []TakeOverUndisturbed
<1>1. Init => TakeOverUndisturbed
  BY DEF Init, TakeOverUndisturbed
<1>2. TakeOverUndisturbed /\ [Next /\ TakeOverUndisturbed']_vars => TakeOverUndisturbed'
  BY DEF TakeOverUndisturbed, Dead, vars
<1>3. [Next /\ TakeOverUndisturbed']_vars => [Next]_vars
  OBVIOUS
<1>4. [Next]_vars /\ TakeOverUndisturbed' => [Next /\ TakeOverUndisturbed']_vars
  OBVIOUS
<1> QED BY <1>1, <1>2, <1>3, <1>4, PTL DEF QuietSpec, Spec

(* As long as no take-over is disturbed: whoever is between its creation    *)
(* and its release has its file at the lock path, and whatever a take-over  *)
(* moved aside is dead.                                                     *)
THEOREM LockInvariant == Spec /\ []TakeOverUndisturbed => []LockInv
<1>1. QuietSpec => []LockInv
  BY InitLockInv, StepKeepsLockInv, PTL DEF QuietSpec
<1> QED BY <1>1, QuietIsUndisturbed, PTL

(* Steps, files and tokens keep their types through every crash, as long as *)
(* no take-over is disturbed.                                               *)
THEOREM FileLockTypes == Spec /\ []TakeOverUndisturbed => []TypeOK
<1>1. LockInv => TypeOK
  BY DEF LockInv
<1> QED BY <1>1, LockInvariant, PTL

(* As long as no take-over is disturbed, a heartbeat in flight at release() *)
(* never leaves the file of a live process at the lock path with nobody to  *)
(* remove it.  (A disturbed take-over does: it may put a lock back that its *)
(* owner has given up on.)                                                  *)
THEOREM LiveLocksHaveOwners == Spec /\ []TakeOverUndisturbed => []NoOrphan
<1>1. LockInv => NoOrphan
  BY DEF LockInv
<1> QED BY <1>1, LockInvariant, PTL

(* As long as no take-over is disturbed, two attempts never run their       *)
(* callback at the same time: both would have their own file at the one     *)
(* lock path.                                                               *)
THEOREM FileLockExcludes == Spec /\ []TakeOverUndisturbed => []MutualExclusion
<1>1. LockInv => MutualExclusion
  BY DEF LockInv, OwnersHold, MutualExclusion
<1> QED BY <1>1, LockInvariant, PTL

(* As long as no take-over is disturbed, a live process's lock file leaves  *)
(* the lock path by its owner's release only: what could still remove or    *)
(* replace it is another owner's release, or a heartbeat, and they do not.  *)
THEOREM LiveLockNeverStolen == Spec /\ []TakeOverUndisturbed => NeverStolen
<1>1. ASSUME LockInv, [Next /\ TakeOverUndisturbed']_vars, NEW a \in Attempts,
             lockFile = a, lockFile' # a
      PROVE  Dead(a) \/ pc[a] = "remove"
  <2> USE FileLockAssumption
      DEF LockInv, TypeOK, OwnersHold, BeatsOfHolders, CondemnedIsDead, TakeOverUndisturbed,
          NoOrphan, Files, Step, Dead
  <2>1. CASE UNCHANGED vars
    BY <1>1, <2>1 DEF vars
  <2>2. ASSUME NEW b \in Attempts, Acquire(b) \/ LockStep(b) \/ BeatRead(b) \/ TimeOut(b)
        PROVE  Dead(a) \/ pc[a] = "remove"
    <3>1. CASE BreakRename(b)
      BY <1>1, <3>1 DEF BreakRename
    <3>2. CASE RemoveRename(b)
      BY <1>1, <3>2 DEF RemoveRename
    <3>3. CASE ~BreakRename(b) /\ ~RemoveRename(b)
      <4>1. lockFile' = lockFile
        BY <1>1, <2>2, <3>3
           DEF LockStep, Acquire, Create, WriteMeta, ReadMeta, Stat, Verify, Restore, LinkBack,
               Sleep, Release, RemoveRead, RemoveVerify, BeatRead, TimeOut
      <4> QED BY <1>1, <4>1
    <3> QED BY <3>1, <3>2, <3>3
  <2>3. ASSUME NEW b \in Attempts, BeatStep(b)
        PROVE  Dead(a) \/ pc[a] = "remove"
    BY <1>1, <2>3 DEF BeatStep, BeatReread, BeatRename
  <2>4. ASSUME NEW p \in Procs, Crash(p)
        PROVE  Dead(a) \/ pc[a] = "remove"
    BY <1>1, <2>4 DEF Crash
  <2> QED BY <1>1, <2>1, <2>2, <2>3, <2>4 DEF Next
<1>2. LockInv /\ [Next /\ TakeOverUndisturbed']_vars
      => [\A a \in Attempts :
            lockFile = a /\ lockFile' # a => Dead(a) \/ pc[a] = "remove"]_vars
  BY <1>1
<1>3. [Next]_vars /\ TakeOverUndisturbed' => [Next /\ TakeOverUndisturbed']_vars
  OBVIOUS
<1> QED BY <1>2, <1>3, LockInvariant, PTL DEF Spec, NeverStolen

-----------------------------------------------------------------------------
(* What holds with no assumption on how take-overs overlap: a token is only *)
(* ever condemned when its process is dead, and dead processes stay dead.   *)
CondemnedTokenIsDead ==
  \A a \in Attempts : pc[a] \in {"break", "verify"} /\ seen[a] # NoFile => Dead(seen[a])

TokensTyped ==
  /\ pc \in [Attempts -> Labels]
  /\ seen \in [Attempts -> Files]
  /\ moved \in [Attempts -> Files]
  /\ lockFile \in Files
  /\ written \in SUBSET Attempts
  /\ alive \in SUBSET Procs

JudgedInv == TokensTyped /\ CondemnedTokenIsDead

(* Every step of the unrestricted lock keeps it.                            *)
LEMMA StepKeepsJudgedInv == JudgedInv /\ [Next]_vars => JudgedInv'
<1> SUFFICES ASSUME JudgedInv, [Next]_vars PROVE JudgedInv'
  OBVIOUS
<1> USE FileLockAssumption
    DEF JudgedInv, TokensTyped, CondemnedTokenIsDead, Files, Labels, Step, Dead
<1>1. CASE UNCHANGED vars
  BY <1>1 DEF vars
<1>2. ASSUME NEW a \in Attempts,
             Acquire(a) \/ Create(a) \/ WriteMeta(a) \/ ReadMeta(a) \/ Sleep(a) \/ TimeOut(a)
      PROVE  JudgedInv'
  BY <1>2 DEF Acquire, Create, WriteMeta, ReadMeta, Sleep, TimeOut, Token
<1>3. ASSUME NEW a \in Attempts, Stat(a)
      PROVE  JudgedInv'
  BY <1>3 DEF Stat, Stale
<1>4. ASSUME NEW a \in Attempts, BreakRename(a) \/ Verify(a) \/ Restore(a)
      PROVE  JudgedInv'
  BY <1>4 DEF BreakRename, Verify, Restore, LinkBack
<1>5. ASSUME NEW a \in Attempts, BeatRead(a) \/ BeatStep(a)
      PROVE  JudgedInv'
  BY <1>5 DEF BeatRead, BeatStep, BeatReread, BeatRename
<1>6. ASSUME NEW a \in Attempts,
             Release(a) \/ RemoveRead(a) \/ RemoveRename(a) \/ RemoveVerify(a)
      PROVE  JudgedInv'
  BY <1>6 DEF Release, RemoveRead, RemoveRename, RemoveVerify, LinkBack
<1>7. ASSUME NEW p \in Procs, Crash(p)
      PROVE  JudgedInv'
  BY <1>7 DEF Crash
<1> QED BY <1>1, <1>2, <1>3, <1>4, <1>5, <1>6, <1>7 DEF Next, LockStep

(* However take-overs, releases and crashes interleave: a lock with its     *)
(* metadata on disk is never deleted by anyone but its owner, or because    *)
(* its process is dead; one that was moved aside by mistake goes back       *)
(* unless the lock path is taken again.                                     *)
THEOREM MovedLockGoesBack == Spec => OnlyJudgedLockDeleted
<1>1. Init => JudgedInv
  BY FileLockAssumption
     DEF Init, JudgedInv, TokensTyped, CondemnedTokenIsDead, Files, Labels
<1>2. ASSUME JudgedInv, [Next]_vars, NEW a \in Attempts,
             moved[a] \in written \ {a}, moved'[a] = NoFile, ~Dead(moved[a]), moved[a] # NoFile
      PROVE  lockFile' # NoFile
  <2> USE FileLockAssumption DEF JudgedInv, TokensTyped, CondemnedTokenIsDead, Files, Step
  <2>1. CASE Verify(a)
    BY <1>2, <2>1 DEF Verify, Token
  <2>2. CASE Restore(a)
    BY <1>2, <2>2 DEF Restore, LinkBack
  <2>3. CASE RemoveVerify(a)
    BY <1>2, <2>3 DEF RemoveVerify, LinkBack, Token
  <2>4. ASSUME NEW b \in Attempts, Verify(b) \/ Restore(b) \/ RemoveVerify(b), b # a
        PROVE  FALSE
    BY <1>2, <2>4 DEF Verify, Restore, RemoveVerify, LinkBack
  <2>5. ASSUME NEW b \in Attempts, BreakRename(b) \/ RemoveRename(b)
        PROVE  FALSE
    BY <1>2, <2>5 DEF BreakRename, RemoveRename
  <2>6. CASE UNCHANGED moved
    BY <1>2, <2>6
  <2>7. CASE UNCHANGED vars
    BY <1>2, <2>7 DEF vars
  <2>8. ASSUME NEW b \in Attempts,
               \/ Acquire(b) \/ Create(b) \/ WriteMeta(b) \/ ReadMeta(b) \/ Stat(b)
               \/ Sleep(b) \/ TimeOut(b) \/ BeatRead(b) \/ BeatStep(b) \/ Release(b) \/ RemoveRead(b)
        PROVE  UNCHANGED moved
    BY <2>8 DEF Acquire, Create, WriteMeta, ReadMeta, Stat, Sleep, TimeOut, BeatRead,
                BeatStep, BeatReread, BeatRename, Release, RemoveRead
  <2>9. ASSUME NEW p \in Procs, Crash(p)
        PROVE  UNCHANGED moved
    BY <2>9 DEF Crash
  <2> QED BY <1>2, <2>1, <2>2, <2>3, <2>4, <2>5, <2>6, <2>7, <2>8, <2>9 DEF Next, LockStep
<1>3. JudgedInv /\ [Next]_vars
      => [\A a \in Attempts :
            LET file == moved[a]
            IN /\ file \in written \ {a}
               /\ moved'[a] = NoFile
               /\ ~Dead(file)
               => lockFile' # NoFile]_vars
  <2> SUFFICES ASSUME JudgedInv, [Next]_vars, NEW a \in Attempts,
                      moved[a] \in written \ {a}, moved'[a] = NoFile, ~Dead(moved[a])
               PROVE  lockFile' # NoFile \/ UNCHANGED vars
    OBVIOUS
  <2>1. moved[a] # NoFile
    BY FileLockAssumption DEF JudgedInv, TokensTyped
  <2> QED BY <1>2, <2>1
<1> QED BY <1>1, <1>3, StepKeepsJudgedInv, PTL DEF Spec, OnlyJudgedLockDeleted
=============================================================================
