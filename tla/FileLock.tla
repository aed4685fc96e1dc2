------------------------------ MODULE FileLock ------------------------------
(***************************************************************************)
(* The cross-process advisory lock of backend/utils/fileLock.js, on one    *)
(* host.  An attempt is one call of acquire() with the release() that      *)
(* follows it; its random token names it.  One action is one call to the   *)
(* file system with the synchronous code up to the next await.             *)
(*                                                                         *)
(* `lockFile` is the attempt whose file stands at the shared lock path and *)
(* `written` the attempts whose file holds its metadata: between           *)
(* openSync('wx') and writeFileSync the file is there and blank.  A file   *)
(* that an attempt renamed to its private quarantine name is `moved`.      *)
(***************************************************************************)
EXTENDS Naturals

CONSTANTS
  Attempts,   \* calls of acquire()
  Procs,      \* processes, each with its own PID
  ProcOf,     \* the process that makes each attempt
  NoFile,     \* no file at a path; no token read
  MaxCrashes  \* bound: processes that die

ASSUME FileLockAssumption ==
  /\ ProcOf \in [Attempts -> Procs]
  /\ NoFile \notin Attempts
  /\ MaxCrashes \in Nat

VARIABLES
  lockFile,   \* the file at the lock path
  written,    \* the files whose metadata is on disk
  pc,         \* where each attempt is
  seen,       \* _readMeta's token, NoFile when there was none
  moved,      \* the file in each attempt's quarantine
  beat,       \* the heartbeat of each attempt
  alive,      \* the PIDs the OS knows
  crashes

vars == <<lockFile, written, pc, seen, moved, beat, alive, crashes>>

Files == Attempts \cup {NoFile}

Token(file) == IF file \in written THEN file ELSE NoFile

Dead(file) == file # NoFile /\ ProcOf[file] \notin alive

Init ==
  /\ lockFile = NoFile
  /\ written = {}
  /\ pc = [a \in Attempts |-> "idle"]
  /\ seen = [a \in Attempts |-> NoFile]
  /\ moved = [a \in Attempts |-> NoFile]
  /\ beat = [a \in Attempts |-> "idle"]
  /\ alive = Procs
  /\ crashes = 0

Step(a, from, to) ==
  /\ pc[a] = from
  /\ pc' = [pc EXCEPT ![a] = to]

-----------------------------------------------------------------------------
(* acquire()                                                                *)
Acquire(a) ==
  /\ ProcOf[a] \in alive
  /\ Step(a, "idle", "create")
  /\ UNCHANGED <<lockFile, written, seen, moved, beat, alive, crashes>>

(* Mutant: open(..., 'w').                                                  *)
CreateAnyway(a) ==
  /\ Step(a, "create", "write")
  /\ lockFile' = a
  /\ UNCHANGED <<written, seen, moved, beat, alive, crashes>>

(* _tryCreate: open(..., 'wx').                                             *)
Create(a) ==
  /\ \/ /\ lockFile = NoFile
        /\ Step(a, "create", "write")
        /\ lockFile' = a
     \/ /\ lockFile # NoFile
        /\ Step(a, "create", "read")
        /\ UNCHANGED lockFile
  /\ UNCHANGED <<written, seen, moved, beat, alive, crashes>>

(* _tryCreate: the metadata goes to the open descriptor, wherever the file  *)
(* is by now.                                                               *)
WriteMeta(a) ==
  /\ Step(a, "write", "held")
  /\ written' = written \cup {a}
  /\ UNCHANGED <<lockFile, seen, moved, beat, alive, crashes>>

ReadMeta(a) ==
  /\ Step(a, "read", "stat")
  /\ seen' = [seen EXCEPT ![a] = Token(lockFile)]
  /\ UNCHANGED <<lockFile, written, moved, beat, alive, crashes>>

(* Mutant: age alone makes a lock stale, whether its owner lives or not.    *)
StaleByAge(token, file) == TRUE

(* _isStale: a lock with metadata is stale when its PID is dead, so never   *)
(* one of the own process.  A lock read blank is stale when the file is     *)
(* older than `stale`.  No call is taken to stall that long between two of  *)
(* its steps: the creator is then dead and never wrote.                     *)
BlankIsAbandoned(file) == Dead(file) /\ file \notin written

Stale(token, file) == IF token # NoFile THEN Dead(token) ELSE BlankIsAbandoned(file)

(* The stat that follows the read, and the verdict.                         *)
Stat(a) ==
  /\ \/ lockFile = NoFile /\ Step(a, "stat", "create")
     \/ lockFile # NoFile /\ Stale(seen[a], lockFile) /\ Step(a, "stat", "break")
     \/ lockFile # NoFile /\ ~Stale(seen[a], lockFile) /\ Step(a, "stat", "wait")
  /\ UNCHANGED <<lockFile, written, seen, moved, beat, alive, crashes>>

(* _breakStale: whatever stands at the lock path is moved aside ...         *)
BreakRename(a) ==
  /\ \/ /\ lockFile = NoFile
        /\ Step(a, "break", "wait")
        /\ UNCHANGED <<lockFile, moved>>
     \/ /\ lockFile # NoFile
        /\ Step(a, "break", "verify")
        /\ moved' = [moved EXCEPT ![a] = lockFile]
        /\ lockFile' = NoFile
  /\ UNCHANGED <<written, seen, beat, alive, crashes>>

(* Mutant: the lock that was moved is deleted unread.                       *)
VerifyNothing(a) ==
  /\ Step(a, "verify", "create")
  /\ moved' = [moved EXCEPT ![a] = NoFile]
  /\ UNCHANGED <<lockFile, written, seen, beat, alive, crashes>>

(* Mutant: the moved lock is compared with the caller's own token.          *)
VerifyOwnToken(a) ==
  /\ \/ /\ Token(moved[a]) = a
        /\ Step(a, "verify", "create")
        /\ moved' = [moved EXCEPT ![a] = NoFile]
     \/ /\ Token(moved[a]) # a
        /\ Step(a, "verify", "restore")
        /\ UNCHANGED moved
  /\ UNCHANGED <<lockFile, written, seen, beat, alive, crashes>>

(* ... deleted when it is the lock that was judged stale ...                *)
Verify(a) ==
  /\ \/ /\ Token(moved[a]) = seen[a]
        /\ Step(a, "verify", "create")
        /\ moved' = [moved EXCEPT ![a] = NoFile]
     \/ /\ Token(moved[a]) # seen[a]
        /\ Step(a, "verify", "restore")
        /\ UNCHANGED moved
  /\ UNCHANGED <<lockFile, written, seen, beat, alive, crashes>>

(* link(quarantine, lockPath) fails when the path is taken again.           *)
LinkBack(a) ==
  /\ lockFile' = IF lockFile = NoFile THEN moved[a] ELSE lockFile
  /\ moved' = [moved EXCEPT ![a] = NoFile]

(* ... and put back when it is not.                                         *)
Restore(a) ==
  /\ Step(a, "restore", "wait")
  /\ LinkBack(a)
  /\ UNCHANGED <<written, seen, beat, alive, crashes>>

(* Mutant: nothing wakes the waiter.                                        *)
SleepUnwoken(a) ==
  /\ Step(a, "wait", "asleep")
  /\ UNCHANGED <<lockFile, written, seen, moved, beat, alive, crashes>>

Sleep(a) ==
  /\ Step(a, "wait", "create")
  /\ UNCHANGED <<lockFile, written, seen, moved, beat, alive, crashes>>

TimeOut(a) ==
  /\ Step(a, "wait", "elocked")
  /\ UNCHANGED <<lockFile, written, seen, moved, beat, alive, crashes>>

-----------------------------------------------------------------------------
(* The heartbeat of a holder: read, write a temporary copy, read again,     *)
(* rename the copy over the lock path.                                      *)
Owns(a) == Token(lockFile) = a

BeatRead(a) ==
  /\ pc[a] = "held" /\ beat[a] = "idle"
  /\ Owns(a)
  /\ beat' = [beat EXCEPT ![a] = "copied"]
  /\ UNCHANGED <<lockFile, written, pc, seen, moved, alive, crashes>>

BeatReread(a) ==
  /\ beat[a] = "copied"
  /\ beat' = [beat EXCEPT ![a] = IF pc[a] = "held" /\ Owns(a) THEN "renaming" ELSE "idle"]
  /\ UNCHANGED <<lockFile, written, pc, seen, moved, alive, crashes>>

BeatRename(a) ==
  /\ beat[a] = "renaming"
  /\ beat' = [beat EXCEPT ![a] = "idle"]
  /\ lockFile' = a
  /\ UNCHANGED <<written, pc, seen, moved, alive, crashes>>

BeatStep(a) == BeatReread(a) \/ BeatRename(a)

-----------------------------------------------------------------------------
(* release(): `released` is set before anything else, which stops the       *)
(* heartbeats that have not started.                                        *)
Release(a) ==
  /\ Step(a, "held", "released")
  /\ UNCHANGED <<lockFile, written, seen, moved, beat, alive, crashes>>

(* Mutant: the heartbeat chain is not awaited.                              *)
RemoveReadNow(a) ==
  /\ \/ Owns(a) /\ Step(a, "released", "remove")
     \/ ~Owns(a) /\ Step(a, "released", "done")
  /\ UNCHANGED <<lockFile, written, seen, moved, beat, alive, crashes>>

(* _removeIfOwner, once the heartbeat in flight is through.                 *)
RemoveRead(a) ==
  /\ beat[a] = "idle"
  /\ \/ Owns(a) /\ Step(a, "released", "remove")
     \/ ~Owns(a) /\ Step(a, "released", "done")
  /\ UNCHANGED <<lockFile, written, seen, moved, beat, alive, crashes>>

RemoveRename(a) ==
  /\ \/ /\ lockFile = NoFile
        /\ Step(a, "remove", "done")
        /\ UNCHANGED <<lockFile, moved>>
     \/ /\ lockFile # NoFile
        /\ Step(a, "remove", "removed")
        /\ moved' = [moved EXCEPT ![a] = lockFile]
        /\ lockFile' = NoFile
  /\ UNCHANGED <<written, seen, beat, alive, crashes>>

(* A file with another token goes back, one without metadata does not.      *)
RemoveVerify(a) ==
  /\ Step(a, "removed", "done")
  /\ IF Token(moved[a]) \in {a, NoFile}
     THEN moved' = [moved EXCEPT ![a] = NoFile] /\ UNCHANGED lockFile
     ELSE LinkBack(a)
  /\ UNCHANGED <<written, seen, beat, alive, crashes>>

-----------------------------------------------------------------------------
(* A process dies at any of its steps; what it left on disk stays.          *)
Crash(p) ==
  /\ crashes < MaxCrashes
  /\ crashes' = crashes + 1
  /\ p \in alive
  /\ alive' = alive \ {p}
  /\ pc' = [a \in Attempts |-> IF ProcOf[a] = p THEN "dead" ELSE pc[a]]
  /\ beat' = [a \in Attempts |-> IF ProcOf[a] = p THEN "idle" ELSE beat[a]]
  /\ UNCHANGED <<lockFile, written, seen, moved>>

LockStep(a) ==
  \/ Create(a) \/ WriteMeta(a)
  \/ ReadMeta(a) \/ Stat(a)
  \/ BreakRename(a) \/ Verify(a) \/ Restore(a) \/ Sleep(a)
  \/ Release(a) \/ RemoveRead(a) \/ RemoveRename(a) \/ RemoveVerify(a)

Next ==
  \/ \E a \in Attempts : Acquire(a) \/ LockStep(a) \/ BeatRead(a) \/ BeatStep(a) \/ TimeOut(a)
  \/ \E p \in Procs : Crash(p)

(* The callback under the lock settles, and the file system answers.        *)
Fairness ==
  \A a \in Attempts : WF_vars(LockStep(a)) /\ WF_vars(BeatStep(a))

Spec == Init /\ [][Next]_vars /\ Fairness

(* The window of a take-over, from the read of the lock to its rename: the  *)
(* lock path does not pass to another attempt meanwhile.  Nothing in the    *)
(* code closes this window.                                                 *)
TakeOverUndisturbed ==
  \A a \in Attempts :
    pc[a] = "break" /\ lockFile # NoFile =>
      IF seen[a] # NoFile THEN lockFile = seen[a] ELSE Dead(lockFile)

QuietSpec == Init /\ [][Next /\ TakeOverUndisturbed']_vars /\ Fairness

-----------------------------------------------------------------------------
Labels == {"idle", "create", "write", "held", "read", "stat", "break", "verify",
           "restore", "wait", "elocked", "released", "remove", "removed", "done", "dead"}

TypeOK ==
  /\ lockFile \in Files
  /\ written \in SUBSET Attempts
  /\ pc \in [Attempts -> Labels]
  /\ seen \in [Attempts -> Files]
  /\ moved \in [Attempts -> Files]
  /\ beat \in [Attempts -> {"idle", "copied", "renaming"}]
  /\ alive \in SUBSET Procs
  /\ crashes \in 0..MaxCrashes

(* The strengthening that makes mutual exclusion inductive: whoever is      *)
(* between its creation and its release has its file at the lock path, and  *)
(* whatever a take-over moved aside is dead.                                *)
OwnersHold ==
  \A a \in Attempts : pc[a] \in {"write", "held", "released", "remove"} => lockFile = a

HoldersWrote ==
  \A a \in Attempts : pc[a] \in {"held", "released", "remove", "removed"} => a \in written

BeatsOfHolders ==
  \A a \in Attempts : beat[a] # "idle" => pc[a] \in {"held", "released"}

LiveProcesses ==
  \A a \in Attempts : pc[a] # "dead" => ProcOf[a] \in alive

CondemnedIsDead ==
  \A a \in Attempts :
    /\ pc[a] = "break" /\ seen[a] # NoFile => Dead(seen[a])
    /\ pc[a] \in {"verify", "restore"} => Dead(moved[a])
    /\ pc[a] = "removed" => moved[a] = a

(* Two attempts never run their callback at the same time.                  *)
MutualExclusion ==
  \A a, b \in Attempts : pc[a] = "held" /\ pc[b] = "held" => a = b

(* On the same host a lock whose process is alive is never stolen: its file *)
(* leaves the lock path by its owner's release only.                        *)
NeverStolen ==
  [][\A a \in Attempts :
       lockFile = a /\ lockFile' # a => Dead(a) \/ pc[a] = "remove"]_vars

(* A lock with metadata that was moved aside is only deleted if it was the  *)
(* mover's own or a dead process's; any other goes back to the lock path,   *)
(* unless the path is taken again.                                          *)
OnlyJudgedLockDeleted ==
  [][\A a \in Attempts :
       LET file == moved[a]
       IN /\ file \in written \ {a}
          /\ moved'[a] = NoFile
          /\ ~Dead(file)
          => lockFile' # NoFile]_vars

(* No lock file outlives its owner's release: a heartbeat that was under    *)
(* way when release() was called never brings it back.                      *)
NoOrphan ==
  lockFile # NoFile /\ ~Dead(lockFile) =>
    pc[lockFile] \in {"write", "held", "released", "remove"}

LockInv ==
  /\ TypeOK /\ OwnersHold /\ HoldersWrote /\ BeatsOfHolders /\ LiveProcesses
  /\ CondemnedIsDead /\ TakeOverUndisturbed /\ NoOrphan

(* A dead process's lock is recovered, for good, by whoever asks next,      *)
(* before its deadline can pass.                                            *)
DeadLockRecovered ==
  \A a, w \in Attempts :
    (lockFile = a /\ Dead(a) /\ pc[w] = "create") ~> ([](lockFile # a) \/ pc[w] = "dead")
=============================================================================
