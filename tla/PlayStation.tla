---------------------------- MODULE PlayStation ----------------------------
(***************************************************************************)
(* Sessions on PlayStation devices and their payment,                      *)
(* backend/services/playstationSessions.service.js with the status changes *)
(* of playstationDevices.service.js.  start, stop and cancel do not await  *)
(* inside sessionLock: each is one action, with its two writes.            *)
(* finalizePayment awaits the sales and the treasury service and keeps the *)
(* document it read meanwhile; create takes no lock.                       *)
(*                                                                         *)
(* Faults: every write of a document can fail (FileStore), the sales and   *)
(* the treasury service can refuse, the process can die between any two    *)
(* actions.  A death between two writes of one action leaves what a failed *)
(* second write and a death after it leave.                                *)
(***************************************************************************)
EXTENDS Naturals, FileStore

CONSTANTS
  Sessions,   \* ids of sessions
  Devices,    \* ids of devices
  Finals,     \* calls of finalizePayment
  Keys,       \* idempotency keys
  None,
  MaxFaults,  \* bound: writes that fail
  MaxCrashes  \* bound: restarts

ASSUME PlayStationAssumption ==
  /\ None \notin Devices \cup Finals \cup Keys
  /\ MaxFaults \in Nat /\ MaxCrashes \in Nat

VARIABLES
  disk,      \* the sessions document in its file
  view,      \* what read returns: the cached object
  devices,   \* status of each device (cache and file never differ)
  pc,        \* where each finalization is
  on, key,   \* its session and its key
  attached,  \* those that hold the object that is cached
  held,      \* the object of those that hold another one
  answer,    \* what each finalization answered
  sales,     \* invoices made for each session
  entries,   \* treasury entries made for each session
  made,      \* history: ids given out
  faults, crashes

docVars == <<disk, view, attached, held>>
callVars == <<pc, on, key, answer>>
bookVars == <<sales, entries>>
vars == <<disk, view, devices, pc, on, key, attached, held, answer,
          sales, entries, made, faults, crashes>>

(* A session of the document.  `sale' and `entry' stand for saleId and      *)
(* treasuryEntryId with payment_status; recovery_required is left out: a    *)
(* key without both references is answered the same way with or without it. *)
Session == [status : {"none", "pending", "active", "completed", "cancelled"},
            device : Devices \cup {None}, charged : BOOLEAN,
            key : Keys \cup {None}, sale : BOOLEAN, entry : BOOLEAN]

NoSession == [status |-> "none", device |-> None, charged |-> FALSE,
              key |-> None, sale |-> FALSE, entry |-> FALSE]

Empty == [s \in Sessions |-> NoSession]

NoDevices == [d \in Devices |-> "none"]

Init ==
  /\ disk = Empty /\ view = Empty
  /\ devices = [d \in Devices |-> "available"]
  /\ pc = [f \in Finals |-> "idle"]
  /\ on = [f \in Finals |-> None]
  /\ key = [f \in Finals |-> None]
  /\ attached = {}
  /\ held = [f \in Finals |-> Empty]
  /\ answer = [f \in Finals |-> "none"]
  /\ sales = [s \in Sessions |-> 0]
  /\ entries = [s \in Sessions |-> 0]
  /\ made = {}
  /\ faults = 0 /\ crashes = 0

-----------------------------------------------------------------------------
(* Helpers                                                                  *)

(* sessionLock is free: no finalization awaits inside it.                   *)
Free == \A f \in Finals : pc[f] \in {"idle", "over"}

(* The document that f holds; None holds what read has just returned.       *)
Document(f) == IF f = None \/ f \in attached THEN view ELSE held[f]

(* _save(doc) with the outcome w, by f or by None.  The object saved is the  *)
(* cached one afterwards, or none is: other finalizations that held the     *)
(* cached object keep theirs.  A finalization does nothing after it saved.  *)
Save(f, doc, w) ==
  LET same == f = None \/ f \in attached
      others == attached \ {f}
      stay == IF w.ok /\ same THEN others ELSE {}
  IN  /\ disk' = w.disk
      /\ view' = w.disk
      /\ attached' = stay
      /\ held' = [g \in Finals |->
                    IF g = f THEN Empty
                    ELSE IF g \in others \ stay THEN IF same THEN doc ELSE view
                    ELSE held[g]]

(* An outcome of a write of the sessions document, and of the devices.      *)
SessionWrites(doc) == WriteOutcomes(disk, doc, Empty)

DeviceWrites(new) == WriteOutcomes(devices, new, NoDevices)

Failed(w) == IF w.ok THEN 0 ELSE 1

Fault(n) ==
  /\ faults + n <= MaxFaults
  /\ faults' = faults + n

Active(doc, d) == {s \in Sessions : doc[s].status = "active" /\ doc[s].device = d}

-----------------------------------------------------------------------------
(* Devices                                                                  *)

(* transitionStatus; maintenance, offline and disabled are one here.        *)
SetDevice(d, to) ==
  /\ devices[d] \notin {"none", to}
  /\ ~(devices[d] = "out" /\ to = "occupied")
  /\ \E w \in DeviceWrites([devices EXCEPT ![d] = to]) :
       /\ devices' = w.disk
       /\ Fault(Failed(w))
  /\ UNCHANGED <<docVars, callVars, bookVars, made, crashes>>

(* remove                                                                   *)
RemoveDevice(d) ==
  /\ devices[d] # "none"
  /\ \E w \in DeviceWrites([devices EXCEPT ![d] = "none"]) :
       /\ devices' = w.disk
       /\ Fault(Failed(w))
  /\ UNCHANGED <<docVars, callVars, bookVars, made, crashes>>

-----------------------------------------------------------------------------
(* Sessions                                                                 *)

(* create, without the lock                                                 *)
Create(s, d) ==
  /\ s \notin made
  /\ made' = made \cup {s}
  /\ LET doc == [view EXCEPT ![s] = [NoSession EXCEPT !.status = "pending", !.device = d]]
     IN  \E w \in SessionWrites(doc) : Save(None, doc, w) /\ Fault(Failed(w))
  /\ UNCHANGED <<devices, callVars, bookVars, crashes>>

(* Mutant: without the look for an active session on the device.            *)
StartOnAvailable(s) ==
  /\ Free
  /\ view[s].status = "pending"
  /\ LET d == view[s].device
         doc == [view EXCEPT ![s].status = "active"]
     IN  /\ devices[d] = "available"
         /\ \E w \in DeviceWrites([devices EXCEPT ![d] = "occupied"]), v \in SessionWrites(doc) :
              /\ devices' = w.disk
              /\ Save(None, doc, v)
              /\ Fault(Failed(w) + Failed(v))
  /\ UNCHANGED <<callVars, bookVars, made, crashes>>

(* start: the devices are saved, then the sessions, whatever became of the  *)
(* devices.                                                                 *)
Start(s) ==
  /\ Free
  /\ view[s].status = "pending"
  /\ LET d == view[s].device
         doc == [view EXCEPT ![s].status = "active"]
     IN  /\ devices[d] = "available"
         /\ Active(view, d) = {}
         /\ \E w \in DeviceWrites([devices EXCEPT ![d] = "occupied"]), v \in SessionWrites(doc) :
              /\ devices' = w.disk
              /\ Save(None, doc, v)
              /\ Fault(Failed(w) + Failed(v))
  /\ UNCHANGED <<callVars, bookVars, made, crashes>>

(* The device of a session that ends, if it is there, is saved as available. *)
FreeDevice(s) ==
  LET d == view[s].device
  IN  IF devices[d] = "none"
      THEN {[ok |-> TRUE, disk |-> devices]}
      ELSE DeviceWrites([devices EXCEPT ![d] = "available"])

(* Mutant: stop without sessionLock.                                        *)
StopUnlocked(s) ==
  /\ view[s].status = "active"
  /\ \E charged \in BOOLEAN :
       LET doc == [view EXCEPT ![s].status = "completed", ![s].charged = charged]
       IN  \E w \in FreeDevice(s), v \in SessionWrites(doc) :
             /\ devices' = w.disk
             /\ Save(None, doc, v)
             /\ Fault(Failed(w) + Failed(v))
  /\ UNCHANGED <<callVars, bookVars, made, crashes>>

(* Mutant: without a price the charges stay null.                           *)
StopNull(s) ==
  /\ Free
  /\ view[s].status = "active"
  /\ \E charged \in {TRUE, None} :
       LET doc == [view EXCEPT ![s].status = "completed", ![s].charged = charged]
       IN  \E w \in FreeDevice(s), v \in SessionWrites(doc) :
             /\ devices' = w.disk
             /\ Save(None, doc, v)
             /\ Fault(Failed(w) + Failed(v))
  /\ UNCHANGED <<callVars, bookVars, made, crashes>>

(* stop: charges are zero without a price.                                  *)
Stop(s) ==
  /\ Free
  /\ view[s].status = "active"
  /\ \E charged \in BOOLEAN :
       LET doc == [view EXCEPT ![s].status = "completed", ![s].charged = charged]
       IN  \E w \in FreeDevice(s), v \in SessionWrites(doc) :
             /\ devices' = w.disk
             /\ Save(None, doc, v)
             /\ Fault(Failed(w) + Failed(v))
  /\ UNCHANGED <<callVars, bookVars, made, crashes>>

(* cancel: of a pending session it changes the cached object and saves      *)
(* nothing; of an active one it gives up when the device is not saved, with *)
(* the session already cancelled in the cached object.                      *)
Cancel(s) ==
  /\ Free
  /\ LET doc == [view EXCEPT ![s].status = "cancelled"]
     IN  \/ /\ view[s].status = "pending"
            /\ view' = doc
            /\ UNCHANGED <<disk, attached, held, devices, faults>>
         \/ /\ view[s].status = "active"
            /\ \E w \in FreeDevice(s) :
                 /\ devices' = w.disk
                 /\ \/ /\ w.ok
                       /\ \E v \in SessionWrites(doc) : Save(None, doc, v) /\ Fault(Failed(v))
                    \/ /\ ~w.ok
                       /\ view' = doc
                       /\ Fault(Failed(w))
                       /\ UNCHANGED <<disk, attached, held>>
  /\ UNCHANGED <<callVars, bookVars, made, crashes>>

-----------------------------------------------------------------------------
(* finalizePayment                                                          *)

Answer(f, what) ==
  /\ pc' = [pc EXCEPT ![f] = "over"]
  /\ answer' = [answer EXCEPT ![f] = what]

(* Mutant: the key is stamped in memory only.                               *)
FinalizeUnsaved(f, s, k) ==
  /\ Free
  /\ pc[f] = "idle"
  /\ view[s].status = "completed" /\ view[s].charged
  /\ on' = [on EXCEPT ![f] = s]
  /\ key' = [key EXCEPT ![f] = k]
  /\ view[s].key = None
  /\ view' = [view EXCEPT ![s].key = k]
  /\ attached' = attached \cup {f}
  /\ pc' = [pc EXCEPT ![f] = "sale"]
  /\ UNCHANGED <<disk, held, answer, faults, devices, bookVars, made, crashes>>

(* Mutant: a second key replaces the first.                                 *)
FinalizeAnyKey(f, s, k) ==
  /\ Free
  /\ pc[f] = "idle"
  /\ view[s].status = "completed" /\ view[s].charged
  /\ on' = [on EXCEPT ![f] = s]
  /\ key' = [key EXCEPT ![f] = k]
  /\ view[s].key # k
  /\ view' = [view EXCEPT ![s].key = k]
  /\ disk' = view'
  /\ attached' = attached \cup {f}
  /\ pc' = [pc EXCEPT ![f] = "sale"]
  /\ UNCHANGED <<held, answer, faults, devices, bookVars, made, crashes>>

(* Up to the first await.  A session that is not completed and charged is   *)
(* refused, which changes nothing and is left out.  With a key stamped,     *)
(* another key is refused, the same key is told the result; without, the    *)
(* key is saved first.                                                      *)
Finalize(f, s, k) ==
  /\ Free
  /\ pc[f] = "idle"
  /\ view[s].status = "completed" /\ view[s].charged
  /\ on' = [on EXCEPT ![f] = s]
  /\ key' = [key EXCEPT ![f] = k]
  /\ \/ /\ view[s].key # None
        /\ Answer(f, IF view[s].key # k THEN "refused"
                     ELSE IF view[s].sale /\ view[s].entry THEN "paid" ELSE "recovery")
        /\ UNCHANGED <<docVars, faults>>
     \/ /\ view[s].key = None
        /\ LET doc == [view EXCEPT ![s].key = k]
           IN  \E w \in SessionWrites(doc) :
                 /\ Fault(Failed(w))
                 /\ \/ /\ w.ok
                       /\ disk' = doc /\ view' = doc
                       /\ attached' = attached \cup {f}
                       /\ pc' = [pc EXCEPT ![f] = "sale"]
                       /\ UNCHANGED <<held, answer>>
                    \/ /\ ~w.ok
                       /\ Save(None, doc, w)
                       /\ Answer(f, "refused")
  /\ UNCHANGED <<devices, bookVars, made, crashes>>

SaveAndAnswer(f, doc, w, what) ==
  /\ Save(f, doc, w)
  /\ Fault(Failed(w))
  /\ Answer(f, what)

(* The sales service answers: an invoice, or an error.                      *)
MakeSale(f) ==
  /\ pc[f] = "sale"
  /\ LET s == on[f]
         doc == [Document(f) EXCEPT ![s].sale = TRUE]
     IN  \/ /\ sales' = [sales EXCEPT ![s] = @ + 1]
            /\ pc' = [pc EXCEPT ![f] = "treasury"]
            /\ IF f \in attached
               THEN view' = doc /\ UNCHANGED held
               ELSE held' = [held EXCEPT ![f] = doc] /\ UNCHANGED view
            /\ UNCHANGED <<disk, attached, answer, faults>>
         \/ /\ \E w \in SessionWrites(Document(f)) :
                 SaveAndAnswer(f, Document(f), w, "recovery")
            /\ UNCHANGED sales
  /\ UNCHANGED <<devices, on, key, entries, made, crashes>>

(* Mutant: the result of the last save is not looked at.                    *)
MakeEntryUnchecked(f) ==
  /\ pc[f] = "treasury"
  /\ LET s == on[f]
         doc == [Document(f) EXCEPT ![s].entry = TRUE]
     IN  \/ /\ entries' = [entries EXCEPT ![s] = @ + 1]
            /\ \E w \in SessionWrites(doc) : SaveAndAnswer(f, doc, w, "paid")
         \/ /\ \E w \in SessionWrites(Document(f)) :
                 SaveAndAnswer(f, Document(f), w, "recovery")
            /\ UNCHANGED entries
  /\ UNCHANGED <<devices, on, key, sales, made, crashes>>

(* The treasury service answers: an entry, or an error.                     *)
MakeEntry(f) ==
  /\ pc[f] = "treasury"
  /\ LET s == on[f]
         doc == [Document(f) EXCEPT ![s].entry = TRUE]
     IN  \/ /\ entries' = [entries EXCEPT ![s] = @ + 1]
            /\ \E w \in SessionWrites(doc) :
                 SaveAndAnswer(f, doc, w, IF w.ok THEN "paid" ELSE "recovery")
         \/ /\ \E w \in SessionWrites(Document(f)) :
                 SaveAndAnswer(f, Document(f), w, "recovery")
            /\ UNCHANGED entries
  /\ UNCHANGED <<devices, on, key, sales, made, crashes>>

-----------------------------------------------------------------------------
(* The process dies and starts again: the files stay.                       *)
Crash ==
  /\ crashes < MaxCrashes
  /\ crashes' = crashes + 1
  /\ view' = disk
  /\ attached' = {}
  /\ held' = [f \in Finals |-> Empty]
  /\ pc' = [f \in Finals |-> IF pc[f] = "idle" THEN "idle" ELSE "over"]
  /\ UNCHANGED <<disk, devices, on, key, answer, bookVars, made, faults>>

Next ==
  \/ \E d \in Devices, to \in {"available", "occupied", "out"} : SetDevice(d, to)
  \/ \E d \in Devices : RemoveDevice(d)
  \/ \E s \in Sessions, d \in Devices : Create(s, d)
  \/ \E s \in Sessions : Start(s) \/ Stop(s) \/ Cancel(s)
  \/ \E f \in Finals, s \in Sessions, k \in Keys : Finalize(f, s, k)
  \/ \E f \in Finals : MakeSale(f) \/ MakeEntry(f)
  \/ Crash

Spec == Init /\ [][Next]_vars

-----------------------------------------------------------------------------
(* Properties                                                               *)

(* Every variable has its type.                                             *)
TypeOK ==
  /\ disk \in [Sessions -> Session] /\ view \in [Sessions -> Session]
  /\ held \in [Finals -> [Sessions -> Session]]
  /\ devices \in [Devices -> {"none", "available", "occupied", "out"}]
  /\ pc \in [Finals -> {"idle", "sale", "treasury", "over"}]
  /\ on \in [Finals -> Sessions \cup {None}]
  /\ key \in [Finals -> Keys \cup {None}]
  /\ attached \subseteq Finals
  /\ answer \in [Finals -> {"none", "refused", "paid", "recovery"}]
  /\ sales \in [Sessions -> Nat] /\ entries \in [Sessions -> Nat]
  /\ made \subseteq Sessions
  /\ faults \in Nat /\ crashes \in Nat

(* A device serves at most one session, in the file and for every reader,   *)
(* also after one of the two writes of start or stop failed or somebody set *)
(* the status of the device by hand (activeOnDevice, line 227).             *)
OneActivePerDevice ==
  \A doc \in {disk, view}, s, t \in Sessions :
    ({s, t} \subseteq Active(doc, doc[s].device)) => s = t

(* "exactly one Sale invoice and one Treasury entry" (line 458), never more *)
(* and never an entry without its invoice, however often the till repeats   *)
(* the call, fails or dies between the records.                             *)
BookedOnce ==
  \A s \in Sessions : sales[s] <= 1 /\ entries[s] <= sales[s]

(* A payment reported as complete is one: both records exist and the        *)
(* session in the file refers to them, unless the file itself is lost.      *)
PaidAnswerIsDurable ==
  \A f \in Finals :
    answer[f] = "paid" =>
      /\ sales[on[f]] = 1 /\ entries[on[f]] = 1
      /\ disk[on[f]].status = "none" \/ (disk[on[f]].sale /\ disk[on[f]].entry)

(* "A different key is rejected once a key is already set" (lines 466-467): *)
(* what the file says of the key of a session never changes, whoever writes *)
(* the whole document.                                                      *)
KeyIsForever ==
  [][\A s \in Sessions :
       (disk[s].key # None /\ disk'[s].status # "none") => disk'[s].key = disk[s].key]_vars

(* In the file a session moves only along ALLOWED_TRANSITIONS (lines 35-44): *)
(* no write of the whole document takes one back.                           *)
LegalTransitions ==
  [][\A s \in Sessions :
       LET from == disk[s].status
           to == disk'[s].status
       IN  \/ to \in {from, "none"} \/ from = "none"
           \/ from = "pending" /\ to \in {"active", "cancelled"}
           \/ from = "active" /\ to \in {"completed", "cancelled"}]_vars
=============================================================================
