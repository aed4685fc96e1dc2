------------------------ MODULE PlayStation_proofs ------------------------
(***************************************************************************)
(* Proofs about PlayStation, for any number of sessions, devices, calls of *)
(* finalizePayment, failed writes and restarts.  The inductive invariant   *)
(* TillInv says of every document that may still be written (the file, the *)
(* cached object and the objects that finalizations kept) what the         *)
(* properties say of the file.                                             *)
(***************************************************************************)
EXTENDS PlayStation, TLAPS

(* All documents that may still be written: the file, the cached object and *)
(* the objects held elsewhere.                                              *)
Docs == {disk, view} \cup {held[f] : f \in Finals}

Doc == [Sessions -> Session]

-----------------------------------------------------------------------------
(* What the updates of a document do.                                       *)

LEMMA EmptyDoc == Empty \in Doc /\ NoSession \in Session
BY DEF Empty, Doc, NoSession, Session

LEMMA NewStatus ==
  ASSUME NEW doc \in Doc, NEW s \in Sessions,
         NEW x \in {"none", "pending", "active", "completed", "cancelled"}
  PROVE  LET new == [doc EXCEPT ![s].status = x]
         IN  /\ new \in Doc
             /\ new[s] \in Session /\ new[s].status = x
             /\ \A t \in Sessions : t # s => new[t] = doc[t]
             /\ \A t \in Sessions : /\ new[t].device = doc[t].device
                                    /\ new[t].key = doc[t].key
                                    /\ new[t].sale = doc[t].sale
                                    /\ new[t].entry = doc[t].entry
BY DEF Doc, Session

LEMMA NewCharged ==
  ASSUME NEW doc \in Doc, NEW s \in Sessions, NEW c \in BOOLEAN
  PROVE  LET new == [doc EXCEPT ![s].status = "completed", ![s].charged = c]
         IN  /\ new \in Doc
             /\ new[s] \in Session /\ new[s].status = "completed"
             /\ \A t \in Sessions : t # s => new[t] = doc[t]
             /\ \A t \in Sessions : /\ new[t].device = doc[t].device
                                    /\ new[t].key = doc[t].key
                                    /\ new[t].sale = doc[t].sale
                                    /\ new[t].entry = doc[t].entry
BY DEF Doc, Session

LEMMA NewKey ==
  ASSUME NEW doc \in Doc, NEW s \in Sessions, NEW k \in Keys
  PROVE  LET new == [doc EXCEPT ![s].key = k]
         IN  /\ new \in Doc
             /\ new[s].key = k
             /\ \A t \in Sessions : t # s => new[t] = doc[t]
             /\ \A t \in Sessions : /\ new[t].device = doc[t].device
                                    /\ new[t].status = doc[t].status
                                    /\ new[t].sale = doc[t].sale
                                    /\ new[t].entry = doc[t].entry
BY DEF Doc, Session

LEMMA NewSale ==
  ASSUME NEW doc \in Doc, NEW s \in Sessions
  PROVE  LET new == [doc EXCEPT ![s].sale = TRUE]
         IN  /\ new \in Doc
             /\ new[s].sale
             /\ \A t \in Sessions : t # s => new[t] = doc[t]
             /\ \A t \in Sessions : /\ new[t].device = doc[t].device
                                    /\ new[t].status = doc[t].status
                                    /\ new[t].key = doc[t].key
                                    /\ new[t].entry = doc[t].entry
BY DEF Doc, Session

LEMMA NewEntry ==
  ASSUME NEW doc \in Doc, NEW s \in Sessions
  PROVE  LET new == [doc EXCEPT ![s].entry = TRUE]
         IN  /\ new \in Doc
             /\ new[s].entry
             /\ \A t \in Sessions : t # s => new[t] = doc[t]
             /\ \A t \in Sessions : /\ new[t].device = doc[t].device
                                    /\ new[t].status = doc[t].status
                                    /\ new[t].key = doc[t].key
                                    /\ new[t].sale = doc[t].sale
BY DEF Doc, Session

LEMMA NewSession ==
  ASSUME NEW doc \in Doc, NEW s \in Sessions, NEW d \in Devices
  PROVE  LET new == [doc EXCEPT ![s] = [NoSession EXCEPT !.status = "pending", !.device = d]]
         IN  /\ new \in Doc
             /\ new[s].status = "pending" /\ new[s].device = d
             /\ new[s].key = None /\ ~new[s].sale /\ ~new[s].entry
             /\ \A t \in Sessions : t # s => new[t] = doc[t]
BY DEF Doc, Session, NoSession

(* What a write leaves, and a save.                                         *)
LEMMA Outcomes ==
  ASSUME NEW old, NEW new, NEW empty, NEW w \in WriteOutcomes(old, new, empty)
  PROVE  /\ w.ok => w.disk = new
         /\ ~w.ok => w.disk \in {old, empty}
         /\ w.ok \in BOOLEAN
         /\ Failed(w) \in Nat
<1>1. CASE w = [ok |-> TRUE, disk |-> new]
  BY <1>1 DEF Failed
<1>2. CASE w = [ok |-> FALSE, disk |-> old]
  BY <1>2 DEF Failed
<1>3. CASE w = [ok |-> FALSE, disk |-> empty]
  BY <1>3 DEF Failed
<1> QED
  BY <1>1, <1>2, <1>3 DEF WriteOutcomes

LEMMA SaveDocs ==
  ASSUME TypeOK, NEW f \in Finals \cup {None}, NEW doc \in Doc,
         NEW w \in SessionWrites(doc), Save(f, doc, w)
  PROVE  /\ disk' \in Doc /\ view' = disk'
         /\ w.ok => disk' = doc
         /\ ~w.ok => disk' \in {disk, Empty}
         /\ attached' \subseteq attached
         /\ held' \in [Finals -> Doc]
         /\ \A g \in Finals : held'[g] \in {held[g], doc, view, Empty}
         /\ Docs' \subseteq Docs \cup {doc, Empty}
         /\ Failed(w) \in Nat
<1>1. view \in Doc /\ disk \in Doc /\ held \in [Finals -> Doc]
  BY DEF TypeOK, Doc
<1>2. disk' = w.disk /\ view' = w.disk
  BY DEF Save
<1>3. /\ w.ok => w.disk = doc
      /\ ~w.ok => w.disk \in {disk, Empty}
      /\ Failed(w) \in Nat
  BY Outcomes DEF SessionWrites
<1>4. \A g \in Finals : held'[g] \in {held[g], doc, view, Empty}
  <2> DEFINE same == f = None \/ f \in attached
             others == attached \ {f}
             stay == IF w.ok /\ same THEN others ELSE {}
  <2>1. held' = [g \in Finals |->
                   IF g = f THEN Empty
                   ELSE IF g \in others \ stay THEN IF same THEN doc ELSE view
                   ELSE held[g]]
    BY DEF Save
  <2> HIDE DEF same, others, stay
  <2> QED
    BY <2>1
<1>5. held' \in [Finals -> Doc]
  BY <1>1, <1>4, EmptyDoc DEF Save
<1>6. attached' \subseteq attached
  BY DEF Save
<1>7. Docs' \subseteq Docs \cup {doc, Empty}
  BY <1>2, <1>3, <1>4 DEF Docs
<1> QED
  BY <1>1, <1>2, <1>3, <1>4, <1>5, <1>6, <1>7, EmptyDoc

LEMMA SaveByNone ==
  ASSUME TypeOK, NEW doc \in Doc, NEW w \in SessionWrites(doc), Save(None, doc, w)
  PROVE  /\ attached = {} => attached' = {} /\ held' = held
         /\ w.ok => attached' = attached /\ held' = held
         /\ ~w.ok =>
              /\ attached' = {}
              /\ \A g \in Finals : held'[g] = IF g \in attached THEN doc ELSE held[g]
<1>1. attached \subseteq Finals /\ None \notin Finals /\ held \in [Finals -> Doc]
  BY PlayStationAssumption DEF TypeOK, Doc
<1>2. attached \ {None} = attached
  BY <1>1
<1>3. /\ attached' = IF w.ok THEN attached ELSE {}
      /\ held' = [g \in Finals |-> IF g \in attached \ attached' THEN doc ELSE held[g]]
  BY <1>1, <1>2 DEF Save
<1>4. attached' = attached => held' = held
  BY <1>1, <1>3
<1> QED
  BY <1>3, <1>4

LEMMA SaveByHolder ==
  ASSUME TypeOK, NEW f \in Finals, NEW doc \in Doc, NEW w \in SessionWrites(doc),
         Save(f, doc, w), attached \subseteq {f}
  PROVE  /\ attached' = {}
         /\ \A g \in Finals : held'[g] = IF g = f THEN Empty ELSE held[g]
<1>1. attached \ {f} = {}
  OBVIOUS
<1> QED
  BY <1>1 DEF Save

-----------------------------------------------------------------------------
(* What the properties rest on.                                             *)

Busy(f) == pc[f] \in {"sale", "treasury"}

(* One finalization at a time holds a document; one that lost the cached    *)
(* object left the file as the cache.                                       *)
Calls ==
  /\ \A f, g \in Finals : Busy(f) /\ Busy(g) => f = g
  /\ \A f \in Finals : ~Busy(f) => f \notin attached
  /\ \A f \in Finals : ~Busy(f) \/ f \in attached => held[f] = Empty
  /\ \A f \in Finals : Busy(f) /\ f \notin attached => view = disk
  /\ \A f \in Finals : Busy(f) => on[f] \in made /\ Document(f)[on[f]].status # "none"
  /\ \A f \in Finals : pc[f] = "treasury" => Document(f)[on[f]].sale
  /\ \A f \in Finals : answer[f] # "none" => pc[f] = "over"

(* What is booked when.                                                     *)
Books ==
  /\ BookedOnce
  /\ \A s \in Sessions : sales[s] > 0 => s \in made
  /\ \A f \in Finals : Busy(f) => entries[on[f]] = 0
  /\ \A f \in Finals : pc[f] = "sale" => sales[on[f]] = 0
  /\ \A f \in Finals : pc[f] = "treasury" => sales[on[f]] = 1
  /\ \A f \in Finals : answer[f] = "paid" =>
       on[f] \in Sessions /\ sales[on[f]] = 1 /\ entries[on[f]] = 1

(* A document knows of what was begun and of what was reported.             *)
Fit(doc) ==
  \A s \in Sessions :
    /\ doc[s].status = "none" => doc[s].key = None /\ ~doc[s].entry
    /\ doc[s].status # "none" => s \in made
    /\ doc[s].status # "none" /\ sales[s] > 0 => doc[s].key # None
    /\ doc[s].entry => sales[s] = 1 /\ entries[s] = 1
    /\ \A f \in Finals : on[f] = s /\ doc[s].status # "none" =>
         /\ Busy(f) => doc[s].key # None
         /\ answer[f] = "paid" => doc[s].sale /\ doc[s].entry

Known == \A doc \in Docs : Fit(doc)

(* Documents that have a session agree on its key; outside a finalization   *)
(* the cached object says of a payment what the file says.                  *)
SameKeys(doc, other) ==
  \A s \in Sessions :
    doc[s].status # "none" /\ other[s].status # "none" => doc[s].key = other[s].key

Agree ==
  /\ \A doc, other \in Docs : SameKeys(doc, other)
  /\ Free => \A s \in Sessions :
       /\ view[s].status = "none" <=> disk[s].status = "none"
       /\ view[s].sale = disk[s].sale /\ view[s].entry = disk[s].entry

(* Against the file, other documents are ahead by cancellations only.       *)
Cancels(doc, other) ==
  \A s \in Sessions :
    \/ doc[s].status \in {"none", other[s].status} \/ other[s].status = "none"
    \/ doc[s].status = "cancelled" /\ other[s].status \in {"pending", "active"}

Ahead == \A doc \in Docs : Cancels(doc, disk)

OneEach(doc) ==
  \A s, t \in Sessions :
    (/\ doc[s].status = "active" /\ doc[t].status = "active"
     /\ doc[s].device = doc[t].device) => s = t

Single == \A doc \in Docs : OneEach(doc)

TillInv == TypeOK /\ Calls /\ Books /\ Known /\ Agree /\ Ahead /\ Single

LEMMA EmptyFits == Fit(Empty) /\ OneEach(Empty)
BY DEF Fit, Empty, NoSession, OneEach

LEMMA EmptyPairs ==
  ASSUME NEW doc
  PROVE  SameKeys(doc, Empty) /\ SameKeys(Empty, doc) /\ Cancels(doc, Empty) /\ Cancels(Empty, doc)
BY DEF SameKeys, Cancels, Empty, NoSession

LEMMA SelfPairs ==
  ASSUME NEW doc
  PROVE  SameKeys(doc, doc) /\ Cancels(doc, doc)
BY DEF SameKeys, Cancels

LEMMA TillInit == Init => TillInv
<1> SUFFICES ASSUME Init PROVE TillInv
  OBVIOUS
<1>1. TypeOK
  BY EmptyDoc DEF Init, TypeOK, Doc
<1>2. Docs \subseteq {Empty}
  BY DEF Init, Docs
<1>3. Calls /\ Books
  BY DEF Init, Calls, Books, Busy, BookedOnce
<1>4. Known /\ Single /\ Ahead
  BY <1>2, EmptyFits, EmptyPairs DEF Init, Known, Single, Ahead
<1>5. Agree
  BY <1>2, EmptyPairs DEF Init, Agree
<1> QED
  BY <1>1, <1>3, <1>4, <1>5 DEF TillInv

(* Nothing that the invariant is about changes.                             *)
LEMMA DevicesStep ==
  ASSUME TillInv, UNCHANGED <<docVars, callVars, bookVars, made, crashes>>,
         devices' \in [Devices -> {"none", "available", "occupied", "out"}], faults' \in Nat
  PROVE  TillInv'
<1>1. TypeOK'
  BY DEF TillInv, TypeOK, docVars, callVars, bookVars
<1>2. Docs' = Docs
  BY DEF Docs, docVars
<1>3. Calls' /\ Books'
  BY DEF TillInv, Calls, Books, BookedOnce, Busy, Document, docVars, callVars, bookVars
<1>4. Known'
  BY <1>2 DEF TillInv, Known, Fit, Busy, callVars, bookVars
<1>5. Agree' /\ Ahead' /\ Single'
  BY <1>2 DEF TillInv, Agree, SameKeys, Free, Ahead, Cancels, Single, OneEach, docVars, callVars
<1> QED
  BY <1>1, <1>3, <1>4, <1>5 DEF TillInv

LEMMA DeviceTypes ==
  ASSUME TypeOK, NEW d \in Devices \cup {None},
         NEW x \in {"none", "available", "occupied", "out"},
         NEW w \in DeviceWrites([devices EXCEPT ![d] = x])
  PROVE  w.disk \in [Devices -> {"none", "available", "occupied", "out"}] /\ Failed(w) \in Nat
<1> DEFINE new == [devices EXCEPT ![d] = x]
           Statuses == [Devices -> {"none", "available", "occupied", "out"}]
<1>1. new \in Statuses /\ devices \in Statuses /\ NoDevices \in Statuses
  BY DEF TypeOK, NoDevices
<1>2. w \in WriteOutcomes(devices, new, NoDevices)
  BY DEF DeviceWrites
<1> HIDE DEF new, Statuses
<1>3. w.disk \in {new, devices, NoDevices} /\ Failed(w) \in Nat
  BY <1>2, Outcomes
<1>4. w.disk \in Statuses /\ Failed(w) \in Nat
  BY <1>1, <1>3
<1> QED
  BY <1>4 DEF Statuses

(* A change of one session by start, stop or cancel.                        *)
LEMMA StatusStep ==
  ASSUME TillInv, Free, NEW doc \in Doc, NEW s \in Sessions,
         \A t \in Sessions : t # s => doc[t] = view[t],
         \A t \in Sessions : /\ doc[t].device = view[t].device /\ doc[t].key = view[t].key
                             /\ doc[t].sale = view[t].sale /\ doc[t].entry = view[t].entry,
         \/ /\ view[s].status = "pending" /\ doc[s].status = "active"
            /\ Active(view, view[s].device) = {}
         \/ view[s].status = "active" /\ doc[s].status = "completed"
         \/ view[s].status \in {"pending", "active"} /\ doc[s].status = "cancelled",
         \/ \E w \in SessionWrites(doc) : Save(None, doc, w)
         \/ /\ doc[s].status = "cancelled"
            /\ view' = doc /\ UNCHANGED <<disk, attached, held>>,
         devices' \in [Devices -> {"none", "available", "occupied", "out"}], faults' \in Nat,
         UNCHANGED <<callVars, bookVars, made, crashes>>
  PROVE  TillInv'
<1>1. attached = {} /\ \A f \in Finals : held[f] = Empty /\ ~Busy(f)
  BY DEF TillInv, TypeOK, Calls, Free, Busy
<1>2. /\ view' \in Doc /\ disk' \in Doc /\ attached' = {} /\ held' = held
      /\ \/ view' = disk' /\ disk' \in {doc, disk, Empty}
         \/ view' = doc /\ disk' = disk /\ doc[s].status = "cancelled"
  <2>1. CASE \E w \in SessionWrites(doc) : Save(None, doc, w)
    <3>1. PICK w \in SessionWrites(doc) : Save(None, doc, w)
      BY <2>1
    <3>2. w.ok \in BOOLEAN
      BY Outcomes DEF SessionWrites
    <3>3. TypeOK
      BY DEF TillInv
    <3>4. view' = disk' /\ disk' \in Doc /\ disk' \in {doc, disk, Empty}
      BY <3>1, <3>2, <3>3, SaveDocs
    <3> QED
      BY <1>1, <3>1, <3>3, <3>4, SaveByNone
  <2>2. CASE view' = doc /\ UNCHANGED <<disk, attached, held>> /\ doc[s].status = "cancelled"
    BY <1>1, <2>2 DEF TillInv, TypeOK, Doc
  <2> QED
    BY <2>1, <2>2
<1>3. Docs' \subseteq {doc, disk, Empty} /\ Docs' \subseteq {disk', view', Empty}
  BY <1>1, <1>2 DEF Docs
<1>4. TypeOK'
  BY <1>2 DEF TillInv, TypeOK, Doc, callVars, bookVars
<1>5. Calls' /\ Books'
  BY <1>1, <1>2 DEF TillInv, Calls, Books, BookedOnce, Busy, Document, callVars, bookVars
<1>6. Fit(view) /\ Fit(disk) /\ OneEach(view) /\ OneEach(disk) /\ Cancels(view, disk)
      /\ SameKeys(view, disk)
  BY DEF TillInv, Known, Single, Docs, Agree, Ahead
<1>7. view[s].status # "none" /\ doc[s].status # "none" /\ view \in Doc /\ disk \in Doc
  BY DEF TillInv, TypeOK, Doc
<1>8. Known'
  <2>1. Fit(doc)
    BY <1>6, <1>7 DEF Fit
  <2>2. ASSUME NEW x, Fit(x) PROVE Fit(x)'
    BY <2>2 DEF Fit, Busy, callVars, bookVars
  <2> QED
    BY <1>3, <1>6, <2>1, <2>2, EmptyFits DEF Known
<1>9. Single'
  <2>1. OneEach(doc)
    BY <1>6, <1>7 DEF OneEach, Active
  <2> QED
    BY <1>3, <1>6, <2>1, EmptyFits DEF Single
<1>10. SameKeys(doc, disk) /\ SameKeys(disk, doc)
  BY <1>6, <1>7 DEF SameKeys
<1>11. Ahead'
  <2>1. doc[s].status = "cancelled" => Cancels(doc, disk)
    BY <1>6, <1>7 DEF Cancels
  <2> QED
    BY <1>2, <1>3, <2>1, SelfPairs, EmptyPairs DEF Ahead
<1>12. Agree'
  <2>1. \A x, y \in Docs' : SameKeys(x, y)
    BY <1>3, <1>10, SelfPairs, EmptyPairs
  <2>2. \A t \in Sessions :
          /\ view'[t].status = "none" <=> disk'[t].status = "none"
          /\ view'[t].sale = disk'[t].sale /\ view'[t].entry = disk'[t].entry
    BY <1>2, <1>7 DEF TillInv, Agree
  <2> QED
    BY <2>1, <2>2 DEF Agree
<1> QED
  BY <1>4, <1>5, <1>8, <1>9, <1>11, <1>12 DEF TillInv

LEMMA StartStep == ASSUME TillInv, NEW s \in Sessions, Start(s) PROVE TillInv'
<1> DEFINE d == view[s].device
           doc == [view EXCEPT ![s].status = "active"]
<1>1. TypeOK /\ view \in Doc /\ d \in Devices \cup {None} /\ Free
  BY DEF TillInv, TypeOK, Doc, Session, Start
<1>2. PICK w \in DeviceWrites([devices EXCEPT ![d] = "occupied"]), v \in SessionWrites(doc) :
        devices' = w.disk /\ Save(None, doc, v) /\ Fault(Failed(w) + Failed(v))
  BY DEF Start
<1>3. devices' \in [Devices -> {"none", "available", "occupied", "out"}] /\ Failed(w) \in Nat
  BY <1>1, <1>2, DeviceTypes
<1>4. Failed(v) \in Nat
  BY Outcomes DEF SessionWrites
<1>5. faults' \in Nat
  BY <1>1, <1>2, <1>3, <1>4 DEF Fault, TypeOK
<1>6. /\ view[s].status = "pending" /\ Active(view, d) = {}
      /\ UNCHANGED <<callVars, bookVars, made, crashes>>
  BY DEF Start
<1>7. /\ doc \in Doc /\ doc[s].status = "active"
      /\ \A t \in Sessions : t # s => doc[t] = view[t]
      /\ \A t \in Sessions : /\ doc[t].device = view[t].device /\ doc[t].key = view[t].key
                             /\ doc[t].sale = view[t].sale /\ doc[t].entry = view[t].entry
  BY <1>1 DEF Doc, Session
<1> HIDE DEF doc
<1> QED
  BY <1>1, <1>2, <1>3, <1>5, <1>6, <1>7, StatusStep

LEMMA DeviceFreed ==
  ASSUME TypeOK, NEW s \in Sessions, NEW w \in FreeDevice(s)
  PROVE  w.disk \in [Devices -> {"none", "available", "occupied", "out"}] /\ Failed(w) \in Nat
<1>1. view[s].device \in Devices \cup {None}
  BY DEF TypeOK, Session
<1>2. CASE w = [ok |-> TRUE, disk |-> devices]
  BY <1>2 DEF TypeOK, Failed
<1>3. CASE w \in DeviceWrites([devices EXCEPT ![view[s].device] = "available"])
  BY <1>1, <1>3, DeviceTypes
<1> QED
  BY <1>2, <1>3 DEF FreeDevice

LEMMA StopStep == ASSUME TillInv, NEW s \in Sessions, Stop(s) PROVE TillInv'
<1>1. TypeOK /\ view \in Doc /\ Free
  BY DEF TillInv, TypeOK, Doc, Stop
<1>2. PICK c \in BOOLEAN :
        \E w \in FreeDevice(s),
           v \in SessionWrites([view EXCEPT ![s].status = "completed", ![s].charged = c]) :
          /\ devices' = w.disk
          /\ Save(None, [view EXCEPT ![s].status = "completed", ![s].charged = c], v)
          /\ Fault(Failed(w) + Failed(v))
  BY DEF Stop
<1> DEFINE doc == [view EXCEPT ![s].status = "completed", ![s].charged = c]
<1>3. PICK w \in FreeDevice(s), v \in SessionWrites(doc) :
        devices' = w.disk /\ Save(None, doc, v) /\ Fault(Failed(w) + Failed(v))
  BY <1>2
<1>4. devices' \in [Devices -> {"none", "available", "occupied", "out"}] /\ Failed(w) \in Nat
  BY <1>1, <1>3, DeviceFreed
<1>5. Failed(v) \in Nat
  BY Outcomes DEF SessionWrites
<1>6. faults' \in Nat
  BY <1>1, <1>3, <1>4, <1>5 DEF Fault, TypeOK
<1>7. view[s].status = "active" /\ UNCHANGED <<callVars, bookVars, made, crashes>>
  BY DEF Stop
<1>8. /\ doc \in Doc /\ doc[s].status = "completed"
      /\ \A t \in Sessions : t # s => doc[t] = view[t]
      /\ \A t \in Sessions : /\ doc[t].device = view[t].device /\ doc[t].key = view[t].key
                             /\ doc[t].sale = view[t].sale /\ doc[t].entry = view[t].entry
  BY <1>1 DEF Doc, Session
<1> HIDE DEF doc
<1> QED
  BY <1>1, <1>3, <1>4, <1>6, <1>7, <1>8, StatusStep

LEMMA CancelStep == ASSUME TillInv, NEW s \in Sessions, Cancel(s) PROVE TillInv'
<1> DEFINE doc == [view EXCEPT ![s].status = "cancelled"]
<1>1. TypeOK /\ view \in Doc /\ Free /\ UNCHANGED <<callVars, bookVars, made, crashes>>
  BY DEF TillInv, TypeOK, Doc, Cancel
<1>2. /\ doc \in Doc /\ doc[s].status = "cancelled"
      /\ \A t \in Sessions : t # s => doc[t] = view[t]
      /\ \A t \in Sessions : /\ doc[t].device = view[t].device /\ doc[t].key = view[t].key
                             /\ doc[t].sale = view[t].sale /\ doc[t].entry = view[t].entry
  BY <1>1 DEF Doc, Session
<1>3. CASE /\ view[s].status = "pending"
           /\ view' = doc
           /\ UNCHANGED <<disk, attached, held, devices, faults>>
  <2>1. devices' \in [Devices -> {"none", "available", "occupied", "out"}] /\ faults' \in Nat
    BY <1>1, <1>3 DEF TypeOK
  <2> HIDE DEF doc
  <2> QED
    BY <1>1, <1>2, <1>3, <2>1, StatusStep
<1>4. ASSUME view[s].status = "active", NEW w \in FreeDevice(s), devices' = w.disk,
             \/ \E v \in SessionWrites(doc) : Save(None, doc, v) /\ Fault(Failed(v))
             \/ view' = doc /\ Fault(Failed(w)) /\ UNCHANGED <<disk, attached, held>>
      PROVE  TillInv'
  <2>1. devices' \in [Devices -> {"none", "available", "occupied", "out"}] /\ Failed(w) \in Nat
    BY <1>1, <1>4, DeviceFreed
  <2>2. \A v \in SessionWrites(doc) : Failed(v) \in Nat
    BY Outcomes DEF SessionWrites
  <2> HIDE DEF doc
  <2>3. faults' \in Nat
    BY <1>1, <1>4, <2>1, <2>2 DEF Fault, TypeOK
  <2>4. \/ \E v \in SessionWrites(doc) : Save(None, doc, v)
        \/ view' = doc /\ UNCHANGED <<disk, attached, held>>
    BY <1>4
  <2> QED
    BY <1>1, <1>2, <1>4, <2>1, <2>3, <2>4, StatusStep
<1> QED
  BY <1>3, <1>4 DEF Cancel

-----------------------------------------------------------------------------
(* A new session is in no document, and nothing was begun about it.         *)
LEMMA CreateStep ==
  ASSUME TillInv, NEW s \in Sessions, NEW d \in Devices, Create(s, d)
  PROVE  TillInv'
<1> PICK doc : doc = [view EXCEPT ![s] = [NoSession EXCEPT !.status = "pending", !.device = d]]
  OBVIOUS
<1>1. TypeOK /\ view \in Doc /\ disk \in Doc
  BY DEF TillInv, TypeOK, Doc
<1>2. PICK w \in SessionWrites(doc) : Save(None, doc, w) /\ Fault(Failed(w))
  BY DEF Create
<1>3. /\ s \notin made /\ made' = made \cup {s}
      /\ UNCHANGED <<devices, callVars, bookVars, crashes>>
  BY DEF Create
<1>4. /\ doc \in Doc
      /\ doc[s].status = "pending" /\ doc[s].device = d
      /\ doc[s].key = None /\ ~doc[s].sale /\ ~doc[s].entry
      /\ \A t \in Sessions : t # s => doc[t] = view[t]
  BY <1>1 DEF Doc, Session, NoSession
<1>5. /\ disk' \in Doc /\ view' = disk' /\ held' \in [Finals -> Doc]
      /\ attached' \subseteq attached /\ Failed(w) \in Nat
      /\ w.ok => disk' = doc
      /\ ~w.ok => disk' \in {disk, Empty}
  <2>1. w \in SessionWrites(doc) /\ Save(None, doc, w) /\ doc \in Doc /\ TypeOK
        /\ None \in Finals \cup {None}
    BY <1>1, <1>2, <1>4
  <2> QED
    BY <2>1, SaveDocs
<1>6. /\ w.ok => attached' = attached /\ held' = held
      /\ ~w.ok => /\ attached' = {}
                  /\ \A g \in Finals : held'[g] = IF g \in attached THEN doc ELSE held[g]
  BY <1>1, <1>2, <1>4, SaveByNone
<1>7. TypeOK'
  BY <1>1, <1>2, <1>3, <1>5 DEF TypeOK, Doc, callVars, bookVars, Fault
<1>8. \A f \in Finals : Busy(f)' <=> Busy(f)
  BY <1>3 DEF Busy, callVars
<1>9. \A f \in Finals : Busy(f) => on[f] \in Sessions /\ on[f] # s
  BY <1>1, <1>3 DEF TillInv, Calls, TypeOK
<1>10. \A f \in Finals : Busy(f) =>
         Document(f)' \in IF f \in attached THEN {doc} ELSE {held[f]}
  BY <1>5, <1>6, PlayStationAssumption DEF Document
<1>11. \A f \in Finals : Busy(f) => Document(f)'[on[f]] = Document(f)[on[f]]
  BY <1>4, <1>9, <1>10, PlayStationAssumption DEF Document
<1>12. Calls'
  <2>1. \A f \in Finals : ~Busy(f)' \/ f \in attached' => held'[f] = Empty
    BY <1>5, <1>6, <1>8 DEF TillInv, Calls
  <2>2. \A f \in Finals : Busy(f)' => on'[f] \in made' /\ Document(f)'[on'[f]].status # "none"
    BY <1>3, <1>8, <1>11 DEF TillInv, Calls, callVars
  <2>3. \A f \in Finals : pc'[f] = "treasury" => Document(f)'[on'[f]].sale
    BY <1>3, <1>11 DEF TillInv, Calls, callVars, Busy
  <2> HIDE DEF Busy, Document
  <2> QED
    BY <1>3, <1>5, <1>8, <2>1, <2>2, <2>3 DEF TillInv, Calls, callVars
<1>13. Books'
  BY <1>3 DEF TillInv, Books, BookedOnce, Busy, callVars, bookVars
<1>14. Docs' \subseteq Docs \cup {doc, Empty}
  BY <1>5, <1>6 DEF Docs
<1>15. \A x \in Docs : x[s].status = "none" /\ Fit(x)
  BY <1>3 DEF TillInv, Known, Fit
<1>16. Known'
  <2>1. ASSUME NEW x, Fit(x) PROVE Fit(x)'
    BY <1>3, <2>1 DEF Fit, Busy, callVars, bookVars
  <2>2. Fit(view)
    BY <1>15 DEF Docs
  <2>3. sales[s] = 0
    BY <1>1, <1>3 DEF TillInv, Books, TypeOK
  <2>4. \A f \in Finals : on[f] = s => ~Busy(f) /\ answer[f] # "paid"
    BY <1>9, <2>3 DEF TillInv, Books
  <2>5. Fit(doc)'
    <3> SUFFICES ASSUME NEW t \in Sessions
                 PROVE  /\ doc[t].status = "none" => doc[t].key = None /\ ~doc[t].entry
                        /\ doc[t].status # "none" => t \in made'
                        /\ doc[t].status # "none" /\ sales[t] > 0 => doc[t].key # None
                        /\ doc[t].entry => sales[t] = 1 /\ entries[t] = 1
                        /\ \A f \in Finals : on[f] = t /\ doc[t].status # "none" =>
                             /\ Busy(f) => doc[t].key # None
                             /\ answer[f] = "paid" => doc[t].sale /\ doc[t].entry
      BY <1>3, <1>8 DEF Fit, callVars, bookVars
    <3>1. CASE t = s
      BY <1>3, <1>4, <2>3, <2>4, <3>1
    <3>2. CASE t # s
      BY <1>3, <1>4, <2>2, <3>2 DEF Fit
    <3> QED
      BY <3>1, <3>2
  <2> QED
    BY <1>14, <1>15, <2>1, <2>5, EmptyFits DEF Known
<1>17. Single'
  <2>1. OneEach(view) /\ \A x \in Docs : OneEach(x)
    BY DEF TillInv, Single, Docs
  <2>2. OneEach(doc)
    BY <1>4, <2>1 DEF OneEach
  <2> QED
    BY <1>14, <2>1, <2>2, EmptyFits DEF Single
<1>18. Agree'
  <2>1. ASSUME NEW x \in Docs PROVE SameKeys(doc, x) /\ SameKeys(x, doc)
    <3>1. SameKeys(view, x) /\ x[s].status = "none"
      BY <1>15 DEF TillInv, Agree, Docs
    <3> QED
      BY <1>4, <3>1 DEF SameKeys
  <2>2. \A x, y \in Docs' : SameKeys(x, y)
    BY <1>14, <2>1, SelfPairs, EmptyPairs DEF TillInv, Agree
  <2> QED
    BY <1>5, <2>2 DEF Agree
<1>19. Ahead'
  <2>1. CASE w.ok
    <3>1. Docs' \subseteq {doc} \cup {held[g] : g \in Finals}
      BY <1>5, <1>6, <2>1 DEF Docs
    <3>2. ASSUME NEW g \in Finals PROVE Cancels(held[g], doc)
      <4>1. CASE held[g] = Empty
        BY <4>1, EmptyPairs
      <4>2. CASE held[g] # Empty
        <5>1. view = disk /\ Cancels(held[g], view) /\ held[g][s].status = "none"
          BY <1>15, <4>2 DEF TillInv, Calls, Ahead, Docs
        <5> QED
          BY <1>4, <5>1 DEF Cancels
      <4> QED
        BY <4>1, <4>2
    <3> QED
      BY <1>5, <2>1, <3>1, <3>2, SelfPairs DEF Ahead
  <2>2. CASE ~w.ok
    <3>1. Cancels(view, disk) /\ disk[s].status = "none"
      BY <1>15 DEF TillInv, Ahead, Docs
    <3>2. Cancels(doc, disk)
      BY <1>4, <3>1 DEF Cancels
    <3> QED
      BY <1>5, <1>14, <2>2, <3>2, EmptyPairs DEF TillInv, Ahead
  <2> QED
    BY <2>1, <2>2
<1> QED
  BY <1>7, <1>12, <1>13, <1>16, <1>17, <1>18, <1>19 DEF TillInv

-----------------------------------------------------------------------------
(* A finalization that begins: the document is the cached one.              *)
LEMMA FinalizeStep ==
  ASSUME TillInv, NEW f \in Finals, NEW s \in Sessions, NEW k \in Keys, Finalize(f, s, k)
  PROVE  TillInv'
<1> PICK doc : doc = [view EXCEPT ![s].key = k]
  OBVIOUS
<1>1. TypeOK /\ view \in Doc /\ disk \in Doc /\ held \in [Finals -> Doc]
  BY DEF TillInv, TypeOK, Doc
<1>2. attached = {} /\ \A g \in Finals : held[g] = Empty /\ ~Busy(g)
  BY DEF TillInv, TypeOK, Calls, Finalize, Free, Busy
<1>3. /\ Free /\ pc[f] = "idle" /\ answer[f] = "none"
      /\ view[s].status = "completed"
      /\ on' = [on EXCEPT ![f] = s] /\ key' = [key EXCEPT ![f] = k]
      /\ UNCHANGED <<devices, bookVars, made, crashes>>
  BY <1>1 DEF Finalize, TillInv, Calls, TypeOK
<1>4. /\ doc \in Doc /\ doc[s].key = k /\ k # None
      /\ \A t \in Sessions : t # s => doc[t] = view[t]
      /\ \A t \in Sessions : /\ doc[t].device = view[t].device
                             /\ doc[t].status = view[t].status
                             /\ doc[t].sale = view[t].sale
                             /\ doc[t].entry = view[t].entry
  <2>1. k # None
    BY PlayStationAssumption
  <2>2. doc \in Doc /\ doc[s].key = k
    <3>1. view \in [Sessions -> Session]
      BY <1>1 DEF Doc
    <3>2. doc = [view EXCEPT ![s] = [view[s] EXCEPT !.key = k]]
      BY <3>1
    <3>3. view[s] \in Session /\ [view[s] EXCEPT !.key = k] \in Session
      BY <3>1 DEF Session
    <3>4. [view[s] EXCEPT !.key = k].key = k
      BY <3>3 DEF Session
    <3> QED
      BY <3>1, <3>2, <3>3, <3>4 DEF Doc
  <2>3. \A t \in Sessions : t # s => doc[t] = view[t]
    BY <1>1 DEF Doc
  <2>4. \A t \in Sessions : /\ doc[t].device = view[t].device
                           /\ doc[t].status = view[t].status
                           /\ doc[t].sale = view[t].sale
                           /\ doc[t].entry = view[t].entry
    BY <1>1, NewKey
  <2> QED
    BY <2>1, <2>2, <2>3, <2>4
<1>5. /\ Fit(view) /\ Fit(disk) /\ OneEach(view) /\ OneEach(disk) /\ Cancels(view, disk)
      /\ SameKeys(view, disk) /\ SameKeys(disk, view)
  BY DEF TillInv, Known, Single, Docs, Agree, Ahead
<1>6. s \in made
  BY <1>3, <1>5 DEF Fit
<1>7. \A g \in Finals : g # f => on'[g] = on[g]
  BY <1>1, <1>3 DEF TypeOK
<1>8. CASE /\ view[s].key # None
           /\ Answer(f, IF view[s].key # k THEN "refused"
                        ELSE IF view[s].sale /\ view[s].entry THEN "paid" ELSE "recovery")
           /\ UNCHANGED <<docVars, faults>>
  <2> PICK what : /\ what = IF view[s].key # k THEN "refused"
                             ELSE IF view[s].sale /\ view[s].entry THEN "paid" ELSE "recovery"
    OBVIOUS
  <2>1. /\ pc' = [pc EXCEPT ![f] = "over"] /\ answer' = [answer EXCEPT ![f] = what]
        /\ what \in {"refused", "paid", "recovery"}
        /\ what = "paid" => view[s].sale /\ view[s].entry
    BY <1>8 DEF Answer
  <2>2. what = "paid" => disk[s].sale /\ disk[s].entry /\ sales[s] = 1 /\ entries[s] = 1
    BY <1>3, <1>5, <2>1 DEF TillInv, Agree, Fit
  <2>3. TypeOK'
    BY <1>1, <1>3, <1>8, <2>1 DEF TypeOK, docVars, bookVars
  <2>4. /\ \A g \in Finals : ~Busy(g)'
        /\ \A g \in Finals : answer'[g] = "paid" =>
             \/ g # f /\ answer[g] = "paid"
             \/ g = f /\ what = "paid"
    BY <1>1, <1>2, <2>1 DEF Busy, TypeOK
  <2>5. Docs' = Docs /\ Docs \subseteq {disk, view, Empty}
    BY <1>2, <1>8 DEF Docs, docVars
  <2>6. Calls'
    <3>1. \A g \in Finals : answer'[g] # "none" => pc'[g] = "over"
      BY <1>1, <2>1 DEF TillInv, Calls, TypeOK
    <3>2. \A g \in Finals : g \notin attached' /\ held'[g] = Empty /\ pc'[g] # "treasury"
      BY <1>2, <1>8, <2>4 DEF docVars, Busy
    <3> QED
      BY <2>4, <3>1, <3>2 DEF Calls
  <2>7. Books'
    <3>1. \A g \in Finals : answer'[g] = "paid" =>
            on'[g] \in Sessions /\ sales[on'[g]] = 1 /\ entries[on'[g]] = 1
      BY <1>1, <1>3, <1>7, <2>2, <2>4 DEF TillInv, Books, TypeOK
    <3>2. \A g \in Finals : pc'[g] \notin {"sale", "treasury"}
      BY <2>4 DEF Busy
    <3> QED
      BY <1>3, <3>1, <3>2 DEF TillInv, Books, BookedOnce, Busy, bookVars
  <2>8. Known'
    <3>1. ASSUME NEW x, Fit(x), x[s].status = "none" \/ what # "paid" \/ (x[s].sale /\ x[s].entry)
          PROVE  Fit(x)'
      BY <1>1, <1>3, <1>7, <2>4, <3>1 DEF Fit, bookVars, TypeOK
    <3>2. Empty[s].status = "none"
      BY DEF Empty, NoSession
    <3> QED
      BY <1>5, <2>1, <2>2, <2>5, <3>1, <3>2, EmptyFits DEF Known
  <2>9. Agree' /\ Ahead' /\ Single'
    <3>1. view' = view /\ disk' = disk
      BY <1>8 DEF docVars
    <3> QED
      BY <1>3, <2>5, <3>1 DEF TillInv, Agree, SameKeys, Ahead, Cancels, Single, OneEach
  <2> QED
    BY <2>3, <2>6, <2>7, <2>8, <2>9 DEF TillInv
<1>9. ASSUME view[s].key = None, NEW w \in SessionWrites(doc), Fault(Failed(w)),
             \/ /\ w.ok
                /\ disk' = doc /\ view' = doc
                /\ attached' = attached \cup {f}
                /\ pc' = [pc EXCEPT ![f] = "sale"]
                /\ UNCHANGED <<held, answer>>
             \/ /\ ~w.ok
                /\ Save(None, doc, w)
                /\ Answer(f, "refused")
      PROVE  TillInv'
  <2>1. sales[s] = 0 /\ entries[s] = 0
    BY <1>1, <1>3, <1>5, <1>9 DEF Fit, TillInv, Books, BookedOnce, TypeOK
  <2>2. \A g \in Finals : answer[g] = "paid" => g # f /\ on[g] # s
    BY <1>3, <2>1 DEF TillInv, Books
  <2>3. Failed(w) \in Nat
    BY Outcomes DEF SessionWrites
  <2>4. CASE /\ w.ok
             /\ disk' = doc /\ view' = doc
             /\ attached' = attached \cup {f}
             /\ pc' = [pc EXCEPT ![f] = "sale"]
             /\ UNCHANGED <<held, answer>>
    <3>1. TypeOK'
      BY <1>1, <1>3, <1>4, <1>9, <2>3, <2>4 DEF TypeOK, Doc, bookVars, Fault
    <3>2. Docs' \subseteq {disk', Empty} /\ view' = disk' /\ disk' = doc
      BY <1>2, <2>4 DEF Docs
    <3>3. /\ pc'[f] = "sale" /\ on'[f] = s
          /\ \A g \in Finals : g # f => pc'[g] \notin {"sale", "treasury"}
      BY <1>1, <1>2, <1>3, <2>4 DEF TypeOK, Busy
    <3>4. Calls'
      <4>1. \A g \in Finals : Busy(g)' =>
              on'[g] \in made' /\ Document(g)'[on'[g]].status # "none"
        BY <1>3, <1>4, <1>6, <2>4, <3>3 DEF Document, Busy
      <4>2. \A g \in Finals : answer'[g] # "none" => pc'[g] = "over"
        BY <1>1, <1>3, <2>4 DEF TillInv, Calls, TypeOK
      <4>3. \A g \in Finals : (g \in attached' <=> g = f) /\ held'[g] = Empty
        BY <1>2, <2>4
      <4> QED
        BY <3>3, <4>1, <4>2, <4>3 DEF Calls, Busy
    <3>5. Books'
      <4>1. \A g \in Finals : answer'[g] = "paid" =>
              on'[g] \in Sessions /\ sales[on'[g]] = 1 /\ entries[on'[g]] = 1
        BY <1>7, <2>2, <2>4 DEF TillInv, Books
      <4>2. \A g \in Finals : pc'[g] \in {"sale", "treasury"} => g = f /\ pc'[g] = "sale"
        BY <3>3
      <4> QED
        BY <1>3, <2>1, <3>3, <4>1, <4>2 DEF TillInv, Books, BookedOnce, Busy, bookVars
    <3>6. Fit(doc)'
      <4> SUFFICES ASSUME NEW t \in Sessions
                   PROVE  /\ doc[t].status = "none" => doc[t].key = None /\ ~doc[t].entry
                          /\ doc[t].status # "none" => t \in made'
                          /\ doc[t].status # "none" /\ sales'[t] > 0 => doc[t].key # None
                          /\ doc[t].entry => sales'[t] = 1 /\ entries'[t] = 1
                          /\ \A g \in Finals : on'[g] = t /\ doc[t].status # "none" =>
                               /\ Busy(g)' => doc[t].key # None
                               /\ answer'[g] = "paid" => doc[t].sale /\ doc[t].entry
        BY DEF Fit
      <4>1. \A g \in Finals : on'[g] = t =>
              /\ Busy(g)' => t = s
              /\ answer'[g] = "paid" => answer[g] = "paid" /\ on[g] = t
        BY <1>7, <2>2, <2>4, <3>3 DEF Busy
      <4>2. CASE t = s
        BY <1>3, <1>4, <1>5, <1>6, <2>2, <4>1, <4>2 DEF Fit, bookVars
      <4>3. CASE t # s
        BY <1>3, <1>4, <1>5, <4>1, <4>3 DEF Fit, bookVars
      <4> QED
        BY <4>2, <4>3
    <3>7. Known' /\ Single'
      <4>1. Fit(Empty)'
        BY DEF Fit, Empty, NoSession
      <4>2. OneEach(doc)
        BY <1>4, <1>5 DEF OneEach
      <4> QED
        BY <3>2, <3>6, <4>1, <4>2, EmptyFits DEF Known, Single
    <3>8. Agree' /\ Ahead'
      BY <3>2, SelfPairs, EmptyPairs DEF Agree, Ahead
    <3> QED
      BY <3>1, <3>4, <3>5, <3>7, <3>8 DEF TillInv
  <2>5. CASE ~w.ok /\ Save(None, doc, w) /\ Answer(f, "refused")
    <3>1. /\ disk' \in {disk, Empty} /\ view' = disk' /\ attached' = {} /\ held' = held
          /\ disk' \in Doc
      <4>1. None \in Finals \cup {None} /\ doc \in Doc /\ w \in SessionWrites(doc) /\ Save(None, doc, w)
        BY <1>4, <1>9, <2>5
      <4>2. disk' \in {disk, Empty} /\ view' = disk' /\ disk' \in Doc
        BY <1>1, <2>5, <4>1, SaveDocs
      <4> QED
        BY <1>1, <1>2, <4>1, <4>2, SaveByNone
    <3>2. /\ pc' = [pc EXCEPT ![f] = "over"] /\ answer' = [answer EXCEPT ![f] = "refused"]
      BY <2>5 DEF Answer
    <3>3. TypeOK'
      BY <1>1, <1>3, <1>9, <2>3, <3>1, <3>2 DEF TypeOK, Doc, bookVars, Fault
    <3>4. Docs' \subseteq {disk', Empty}
      BY <1>2, <3>1 DEF Docs
    <3>5. /\ \A g \in Finals : ~Busy(g)' /\ pc'[g] # "treasury" /\ pc'[g] # "sale"
          /\ \A g \in Finals : answer'[g] = "paid" => g # f /\ answer[g] = "paid" /\ on'[g] = on[g]
      BY <1>1, <1>2, <1>7, <3>2 DEF Busy, TypeOK
    <3>6. Calls'
      <4>1. \A g \in Finals : answer'[g] # "none" => pc'[g] = "over"
        BY <1>1, <3>2 DEF TillInv, Calls, TypeOK
      <4> QED
        BY <1>2, <3>1, <3>5, <4>1 DEF Calls
    <3>7. Books'
      BY <1>3, <3>5 DEF TillInv, Books, BookedOnce, bookVars
    <3>8. Known' /\ Single'
      <4>1. ASSUME NEW x, Fit(x) PROVE Fit(x)'
        BY <1>3, <3>5, <4>1 DEF Fit, bookVars
      <4> QED
        BY <1>5, <3>1, <3>4, <4>1, EmptyFits DEF Known, Single
    <3>9. Agree' /\ Ahead'
      BY <3>1, <3>4, SelfPairs, EmptyPairs DEF Agree, Ahead
    <3> QED
      BY <3>3, <3>6, <3>7, <3>8, <3>9 DEF TillInv
  <2> QED
    BY <1>9, <2>4, <2>5
<1> QED
  BY <1>8, <1>9 DEF Finalize

(* While f is busy, nobody else holds a document.                           *)
LEMMA OneHolder ==
  ASSUME TillInv, NEW f \in Finals, Busy(f)
  PROVE  /\ TypeOK /\ disk \in Doc /\ Document(f) \in Docs /\ Document(f) \in Doc
         /\ \A g \in Finals : g # f => ~Busy(g) /\ held[g] = Empty
         /\ attached \subseteq {f}
         /\ on[f] \in Sessions /\ on[f] \in made
         /\ entries[on[f]] = 0
         /\ f \notin attached => view = disk
         /\ f \in attached => held[f] = Empty
         /\ disk \in Docs
         /\ answer[f] = "none"
         /\ f # None
<1>1. TypeOK /\ Calls /\ Books /\ f # None
  BY PlayStationAssumption DEF TillInv
<1>2. disk \in Doc /\ Document(f) \in Docs /\ Document(f) \in Doc /\ disk \in Docs
  BY <1>1 DEF Document, Docs, Doc, TypeOK
<1>3. /\ \A g \in Finals : g # f => ~Busy(g) /\ held[g] = Empty
      /\ attached \subseteq {f}
      /\ f \notin attached => view = disk
      /\ f \in attached => held[f] = Empty
  BY <1>1 DEF Calls, TypeOK
<1>4. on[f] \in made /\ entries[on[f]] = 0 /\ answer[f] = "none"
  BY <1>1 DEF Calls, Books, Busy
<1> QED
  BY <1>1, <1>2, <1>3, <1>4 DEF TypeOK

(* The last save of a finalization: of the document it holds, with the     *)
(* entry if there is one.                                                   *)
LEMMA EndStep ==
  ASSUME TillInv, NEW f \in Finals, Busy(f), NEW doc \in Doc,
         NEW w \in SessionWrites(doc), NEW what \in {"paid", "recovery"},
         SaveAndAnswer(f, doc, w, what),
         \A t \in Sessions : t # on[f] => doc[t] = Document(f)[t],
         LET new == doc[on[f]]
             old == Document(f)[on[f]]
         IN  /\ new.status = old.status /\ new.device = old.device
             /\ new.key = old.key /\ new.sale = old.sale,
         UNCHANGED <<devices, on, key, sales, made, crashes>>,
         \/ entries' = entries /\ doc = Document(f) /\ what = "recovery"
         \/ /\ entries' = [entries EXCEPT ![on[f]] = @ + 1]
            /\ pc[f] = "treasury" /\ doc[on[f]].entry
            /\ what = IF w.ok THEN "paid" ELSE "recovery"
  PROVE  TillInv'
<1> PICK s : s = on[f]
  OBVIOUS
<1>1. /\ TypeOK /\ disk \in Doc /\ Document(f) \in Docs /\ Document(f) \in Doc
      /\ \A g \in Finals : g # f => ~Busy(g) /\ held[g] = Empty
      /\ attached \subseteq {f}
      /\ s \in Sessions /\ s \in made /\ entries[s] = 0 /\ answer[f] = "none"
      /\ disk \in Docs
  BY OneHolder
<1>2. Save(f, doc, w) /\ Fault(Failed(w)) /\ Answer(f, what)
  BY DEF SaveAndAnswer
<1>3. /\ disk' \in Doc /\ view' = disk' /\ held' \in [Finals -> Doc]
      /\ w.ok => disk' = doc
      /\ ~w.ok => disk' \in {disk, Empty}
      /\ Failed(w) \in Nat
  BY <1>1, <1>2, SaveDocs
<1>4. attached' = {} /\ \A g \in Finals : held'[g] = Empty
  BY <1>1, <1>2, SaveByHolder
<1>5. Docs' \subseteq {disk', Empty}
  BY <1>3, <1>4 DEF Docs
<1>6. /\ pc' = [pc EXCEPT ![f] = "over"] /\ answer' = [answer EXCEPT ![f] = what]
      /\ on' = on /\ sales' = sales /\ made' = made
  BY <1>2 DEF Answer
<1>7. entries' \in [Sessions -> Nat] /\ \A t \in Sessions : t # s => entries'[t] = entries[t]
  BY <1>1 DEF TypeOK
<1>8. /\ entries'[s] = 0 /\ what = "recovery" /\ doc = Document(f)
      \/ /\ entries'[s] = 1 /\ pc[f] = "treasury" /\ doc[s].entry
         /\ what = IF w.ok THEN "paid" ELSE "recovery"
  BY <1>1 DEF TypeOK
<1>9. \A g \in Finals : /\ ~Busy(g)' /\ pc'[g] \notin {"sale", "treasury"}
                        /\ answer'[g] = "paid" => IF g = f THEN what = "paid" ELSE answer[g] = "paid"
  BY <1>1, <1>6 DEF Busy, TypeOK
<1>10. TypeOK'
  BY <1>1, <1>2, <1>3, <1>4, <1>6, <1>7 DEF TypeOK, Doc, Fault
<1>11. Calls'
  <2>1. \A g \in Finals : answer'[g] # "none" => pc'[g] = "over"
    BY <1>1, <1>6 DEF TillInv, Calls, TypeOK
  <2> QED
    BY <1>4, <1>9, <2>1 DEF Calls
<1>12. pc[f] = "treasury" => sales[s] = 1 /\ Document(f)[s].sale
  BY DEF TillInv, Books, Calls
<1>13. \A g \in Finals : answer[g] = "paid" =>
         on[g] \in Sessions /\ on[g] # s /\ sales[on[g]] = 1 /\ entries[on[g]] = 1
  BY <1>1 DEF TillInv, Books
<1>14. Books'
  <2>1. \A t \in Sessions : sales'[t] <= 1 /\ entries'[t] <= sales'[t]
    BY <1>1, <1>6, <1>7, <1>8, <1>12 DEF TillInv, Books, BookedOnce, TypeOK
  <2>2. \A g \in Finals : answer'[g] = "paid" =>
          on'[g] \in Sessions /\ sales'[on'[g]] = 1 /\ entries'[on'[g]] = 1
    BY <1>1, <1>6, <1>7, <1>8, <1>9, <1>12, <1>13
  <2>3. \A t \in Sessions : sales'[t] > 0 => t \in made'
    BY <1>6 DEF TillInv, Books
  <2> QED
    BY <1>9, <2>1, <2>2, <2>3 DEF Books, BookedOnce
<1>15. Known'
  <2>1. ASSUME NEW y, Fit(y), NEW x, \A t \in Sessions : t # s => x[t] = y[t],
               x[s].status = y[s].status, x[s].key = y[s].key,
               x[s].status = "none" => ~x[s].entry,
               x[s].entry => sales[s] = 1 /\ entries'[s] = 1,
               what = "paid" /\ x[s].status # "none" => x[s].sale /\ x[s].entry
        PROVE  Fit(x)'
    <3> SUFFICES ASSUME NEW t \in Sessions
                 PROVE  /\ x[t].status = "none" => x[t].key = None /\ ~x[t].entry
                        /\ x[t].status # "none" => t \in made'
                        /\ x[t].status # "none" /\ sales'[t] > 0 => x[t].key # None
                        /\ x[t].entry => sales'[t] = 1 /\ entries'[t] = 1
                        /\ \A g \in Finals : on'[g] = t /\ x[t].status # "none" =>
                             /\ Busy(g)' => x[t].key # None
                             /\ answer'[g] = "paid" => x[t].sale /\ x[t].entry
      BY DEF Fit
    <3>1. CASE t = s
      <4>1. \A g \in Finals : on'[g] = t => ~Busy(g)' /\ (answer'[g] = "paid" => what = "paid")
        BY <1>6, <1>9, <1>13, <3>1
      <4> QED
        BY <1>6, <2>1, <3>1, <4>1 DEF Fit
    <3>2. CASE t # s
      <4>1. \A g \in Finals : on'[g] = t => ~Busy(g)' /\ (answer'[g] = "paid" => answer[g] = "paid" /\ on[g] = t)
        BY <1>6, <1>9, <3>2
      <4> QED
        BY <1>6, <1>7, <2>1, <3>2, <4>1 DEF Fit
    <3> QED
      BY <3>1, <3>2
  <2>2. Fit(Document(f)) /\ Fit(disk) /\ Document(f)[s].status # "none"
    BY <1>1 DEF TillInv, Known, Calls
  <2>3. ~disk[s].entry /\ ~Empty[s].entry /\ ~Document(f)[s].entry
    BY <1>1, <2>2 DEF Fit, Empty, NoSession
  <2>4. ASSUME NEW x \in {disk', Empty} PROVE Fit(x)'
    <3>1. CASE w.ok /\ x = disk'
      <4>1. x = doc
        BY <1>3, <3>1
      <4>2. x[s].entry => sales[s] = 1 /\ entries'[s] = 1
        BY <1>8, <1>12, <2>3, <4>1
      <4>3. what = "paid" => x[s].sale /\ x[s].entry
        BY <1>8, <1>12, <4>1
      <4>4. \A t \in Sessions : t # s => x[t] = Document(f)[t]
        BY <4>1
      <4>5. x[s].status = Document(f)[s].status /\ x[s].key = Document(f)[s].key
        BY <4>1
      <4> QED
        BY <2>1, <2>2, <4>2, <4>3, <4>4, <4>5
    <3>2. CASE ~w.ok /\ x = disk'
      <4>1. x \in {disk, Empty} /\ what # "paid"
        BY <1>3, <1>8, <3>2
      <4>2. Fit(x) /\ ~x[s].entry
        BY <2>2, <2>3, <4>1, EmptyFits
      <4> QED
        BY <2>1, <4>1, <4>2
    <3>3. CASE x = Empty
      <4>1. Fit(x) /\ ~x[s].entry /\ x[s].status = "none"
        BY <1>1, <2>3, <3>3, EmptyFits DEF Empty, NoSession
      <4> QED
        BY <2>1, <4>1
    <3> QED
      BY <2>4, <3>1, <3>2, <3>3
  <2> QED
    BY <1>5, <2>4 DEF Known
<1>16. Single'
  <2>1. OneEach(Document(f)) /\ OneEach(disk)
    BY <1>1 DEF TillInv, Single
  <2>2. OneEach(doc)
    <3>1. \A t \in Sessions : doc[t].status = Document(f)[t].status /\ doc[t].device = Document(f)[t].device
      OBVIOUS
    <3> QED
      BY <2>1, <3>1 DEF OneEach
  <2> QED
    BY <1>3, <1>5, <2>1, <2>2, EmptyFits DEF Single
<1>17. Agree' /\ Ahead'
  BY <1>3, <1>5, SelfPairs, EmptyPairs DEF Agree, Ahead
<1> QED
  BY <1>10, <1>11, <1>14, <1>15, <1>16, <1>17 DEF TillInv

(* The records are set in the document that is held.                        *)
WithSale(doc, old, s) == doc = [old EXCEPT ![s].sale = TRUE]

WithEntry(doc, old, s) == doc = [old EXCEPT ![s].entry = TRUE]

LEMMA SaleSet ==
  ASSUME NEW old \in Doc, NEW s \in Sessions, NEW doc, WithSale(doc, old, s)
  PROVE  /\ doc \in Doc /\ doc[s].sale
         /\ \A t \in Sessions : t # s => doc[t] = old[t]
         /\ \A t \in Sessions : /\ doc[t].device = old[t].device
                                /\ doc[t].status = old[t].status
                                /\ doc[t].key = old[t].key
                                /\ doc[t].entry = old[t].entry
<1>1. doc \in Doc /\ doc[s].sale
  <2>1. old \in [Sessions -> Session]
    BY DEF Doc
  <2>2. doc = [old EXCEPT ![s] = [old[s] EXCEPT !.sale = TRUE]]
    BY <2>1 DEF WithSale
  <2>3. old[s] \in Session /\ [old[s] EXCEPT !.sale = TRUE] \in Session
    BY <2>1 DEF Session
  <2>4. [old[s] EXCEPT !.sale = TRUE].sale
    BY <2>3 DEF Session
  <2> QED
    BY <2>1, <2>2, <2>3, <2>4 DEF Doc
<1>2. \A t \in Sessions : t # s => doc[t] = old[t]
  BY DEF WithSale, Doc
<1>3. \A t \in Sessions : /\ doc[t].device = old[t].device
                         /\ doc[t].status = old[t].status
                         /\ doc[t].key = old[t].key
                         /\ doc[t].entry = old[t].entry
  BY NewSale DEF WithSale
<1> QED
  BY <1>1, <1>2, <1>3

LEMMA EntrySet ==
  ASSUME NEW old \in Doc, NEW s \in Sessions, NEW doc, WithEntry(doc, old, s)
  PROVE  /\ doc \in Doc /\ doc[s].entry
         /\ \A t \in Sessions : t # s => doc[t] = old[t]
         /\ \A t \in Sessions : /\ doc[t].device = old[t].device
                                /\ doc[t].status = old[t].status
                                /\ doc[t].key = old[t].key
                                /\ doc[t].sale = old[t].sale
<1>1. doc \in Doc /\ doc[s].entry
  <2>1. old \in [Sessions -> Session]
    BY DEF Doc
  <2>2. doc = [old EXCEPT ![s] = [old[s] EXCEPT !.entry = TRUE]]
    BY <2>1 DEF WithEntry
  <2>3. old[s] \in Session /\ [old[s] EXCEPT !.entry = TRUE] \in Session
    BY <2>1 DEF Session
  <2>4. [old[s] EXCEPT !.entry = TRUE].entry
    BY <2>3 DEF Session
  <2> QED
    BY <2>1, <2>2, <2>3, <2>4 DEF Doc
<1>2. \A t \in Sessions : t # s => doc[t] = old[t]
  BY DEF WithEntry, Doc
<1>3. \A t \in Sessions : /\ doc[t].device = old[t].device
                         /\ doc[t].status = old[t].status
                         /\ doc[t].key = old[t].key
                         /\ doc[t].sale = old[t].sale
  BY NewEntry DEF WithEntry
<1> QED
  BY <1>1, <1>2, <1>3

LEMMA MakeEntryStep == ASSUME TillInv, NEW f \in Finals, MakeEntry(f) PROVE TillInv'
<1>a. PICK s : s = on[f]
  OBVIOUS
<1>b. PICK old : old = Document(f)
  OBVIOUS
<1>c. PICK doc : WithEntry(doc, old, s)
  BY DEF WithEntry
<1>1. Busy(f) /\ pc[f] = "treasury"
  BY DEF MakeEntry, Busy
<1>2. old \in Doc /\ s \in Sessions
  BY <1>a, <1>b, <1>1, OneHolder
<1>3. UNCHANGED <<devices, on, key, sales, made, crashes>>
  BY DEF MakeEntry
<1>4. /\ doc \in Doc /\ doc[s].entry
      /\ \A t \in Sessions : t # s => doc[t] = old[t]
      /\ doc[s].device = old[s].device /\ doc[s].status = old[s].status
      /\ doc[s].key = old[s].key /\ doc[s].sale = old[s].sale
  BY <1>2, <1>c, EntrySet
<1>5. ASSUME NEW w \in SessionWrites(doc), SaveAndAnswer(f, doc, w, IF w.ok THEN "paid" ELSE "recovery"),
             entries' = [entries EXCEPT ![s] = @ + 1]
      PROVE  TillInv'
  <2> PICK what : what = IF w.ok THEN "paid" ELSE "recovery"
    OBVIOUS
  <2>1. what \in {"paid", "recovery"} /\ SaveAndAnswer(f, doc, w, what)
    BY <1>5
  <2>2. /\ \A t \in Sessions : t # on[f] => doc[t] = Document(f)[t]
        /\ doc[on[f]].status = Document(f)[on[f]].status
        /\ doc[on[f]].device = Document(f)[on[f]].device
        /\ doc[on[f]].key = Document(f)[on[f]].key
        /\ doc[on[f]].sale = Document(f)[on[f]].sale
        /\ doc[on[f]].entry
    BY <1>a, <1>b, <1>4
  <2>3. entries' = [entries EXCEPT ![on[f]] = @ + 1]
    BY <1>a, <1>5
  <2> QED
    BY <1>1, <1>3, <1>4, <1>5, <2>1, <2>2, <2>3, EndStep
<1>6. ASSUME NEW w \in SessionWrites(old), SaveAndAnswer(f, old, w, "recovery"), entries' = entries
      PROVE  TillInv'
  BY <1>a, <1>b, <1>1, <1>2, <1>3, <1>6, EndStep
<1>7. \/ /\ entries' = [entries EXCEPT ![s] = @ + 1]
         /\ \E w \in SessionWrites(doc) : SaveAndAnswer(f, doc, w, IF w.ok THEN "paid" ELSE "recovery")
      \/ /\ \E w \in SessionWrites(old) : SaveAndAnswer(f, old, w, "recovery")
         /\ entries' = entries
  BY <1>a, <1>b, <1>c DEF MakeEntry, WithEntry
<1> QED
  BY <1>5, <1>6, <1>7

LEMMA MakeSaleStep == ASSUME TillInv, NEW f \in Finals, MakeSale(f) PROVE TillInv'
<1>a. PICK s : s = on[f]
  OBVIOUS
<1>b. PICK old : old = Document(f)
  OBVIOUS
<1>c. PICK doc : WithSale(doc, old, s)
  BY DEF WithSale
<1>1. Busy(f) /\ pc[f] = "sale" /\ sales[s] = 0
  BY <1>a DEF MakeSale, Busy, TillInv, Books
<1>2. /\ TypeOK /\ disk \in Doc /\ old \in Docs /\ old \in Doc
      /\ \A g \in Finals : g # f => ~Busy(g) /\ held[g] = Empty
      /\ attached \subseteq {f}
      /\ s \in Sessions /\ s \in made /\ entries[s] = 0
      /\ f \notin attached => view = disk
      /\ f \in attached => held[f] = Empty
      /\ disk \in Docs
      /\ answer[f] = "none"
      /\ f # None
  BY <1>a, <1>b, <1>1, OneHolder
<1>3. UNCHANGED <<devices, on, key, entries, made, crashes>>
  BY DEF MakeSale
<1>4. /\ doc \in Doc /\ doc[s].sale
      /\ \A t \in Sessions : t # s => doc[t] = old[t]
      /\ \A t \in Sessions : /\ doc[t].device = old[t].device
                             /\ doc[t].status = old[t].status
                             /\ doc[t].key = old[t].key
                             /\ doc[t].entry = old[t].entry
  BY <1>2, <1>c, SaleSet
<1>5. ASSUME NEW w \in SessionWrites(old), SaveAndAnswer(f, old, w, "recovery"), sales' = sales
      PROVE  TillInv'
  BY <1>a, <1>b, <1>1, <1>2, <1>3, <1>5, EndStep
<1>6. ASSUME sales' = [sales EXCEPT ![s] = @ + 1],
             pc' = [pc EXCEPT ![f] = "treasury"],
             IF f \in attached
             THEN view' = doc /\ UNCHANGED held
             ELSE held' = [held EXCEPT ![f] = doc] /\ UNCHANGED view,
             UNCHANGED <<disk, attached, answer, faults>>
      PROVE  TillInv'
  <2>1. TypeOK'
    <3>1. view' \in Doc /\ held' \in [Finals -> Doc] /\ disk' \in Doc
      <4>1. view \in Doc /\ held \in [Finals -> Doc]
        BY <1>2 DEF TypeOK, Doc
      <4> QED
        BY <1>2, <1>4, <1>6, <4>1
    <3>2. pc' \in [Finals -> {"idle", "sale", "treasury", "over"}] /\ sales' \in [Sessions -> Nat]
      BY <1>2, <1>6 DEF TypeOK
    <3> QED
      BY <1>2, <1>3, <1>6, <3>1, <3>2 DEF TypeOK, Doc
  <2>2. /\ sales'[s] = 1
        /\ \A t \in Sessions : t # s => sales'[t] = sales[t]
    BY <1>1, <1>2, <1>6 DEF TypeOK
  <2>3. /\ pc'[f] = "treasury"
        /\ \A g \in Finals : g # f => ~Busy(g)' /\ pc'[g] \notin {"sale", "treasury"}
        /\ \A g \in Finals : answer'[g] # "none" => pc'[g] = "over"
    BY <1>2, <1>6 DEF TypeOK, Busy, TillInv, Calls
  <2>4. /\ \A g \in Finals : g # f => held'[g] = Empty
        /\ IF f \in attached THEN view' = doc /\ held'[f] = Empty
           ELSE view' = disk /\ held'[f] = doc
        /\ disk' = disk /\ attached' = attached
    BY <1>2, <1>6 DEF TypeOK
  <2>5. \A x \in Docs' : x \in {disk, doc, Empty}
    BY <2>4 DEF Docs
  <2>6. \A g \in Finals : Busy(g)' => g = f /\ Document(g)' = doc
    BY <1>2, <2>3, <2>4 DEF Document
  <2>7. doc[s].status # "none" /\ old[s].status # "none"
    BY <1>a, <1>b, <1>1, <1>2, <1>4 DEF TillInv, Calls
  <2>8. Calls'
    <3>1. \A g \in Finals : pc'[g] = "treasury" => Busy(g)'
      BY DEF Busy
    <3>2. \A g \in Finals : Busy(g)' => on'[g] = s
      BY <1>a, <1>3, <2>6
    <3>3. \A g \in Finals : Busy(g)' =>
            on'[g] \in made' /\ Document(g)'[on'[g]].status # "none" /\ Document(g)'[on'[g]].sale
      BY <1>2, <1>3, <1>4, <2>6, <2>7, <3>2
    <3>4. \A g \in Finals :
            /\ ~Busy(g)' => g \notin attached'
            /\ ~Busy(g)' \/ g \in attached' => held'[g] = Empty
            /\ Busy(g)' /\ g \notin attached' => view' = disk'
      <4>1. Busy(f)'
        BY <2>3 DEF Busy
      <4> QED
        BY <1>2, <2>4, <2>6, <4>1
    <3> QED
      BY <2>3, <2>6, <3>1, <3>3, <3>4 DEF Calls
  <2>9. \A g \in Finals : answer[g] = "paid" =>
          on[g] \in Sessions /\ on[g] # s /\ sales[on[g]] = 1 /\ entries[on[g]] = 1
    BY <1>1 DEF TillInv, Books
  <2>10. Books'
    <3>1. \A t \in Sessions : sales'[t] <= 1 /\ entries'[t] <= sales'[t]
      BY <1>2, <1>3, <2>2 DEF TillInv, Books, BookedOnce
    <3>2. \A t \in Sessions : sales'[t] > 0 => t \in made'
      BY <1>2, <1>3, <2>2 DEF TillInv, Books
    <3>3. \A g \in Finals : answer'[g] = "paid" =>
            on'[g] \in Sessions /\ sales'[on'[g]] = 1 /\ entries'[on'[g]] = 1
      BY <1>3, <1>6, <2>2, <2>9
    <3>4. \A g \in Finals : Busy(g)' => pc'[g] = "treasury" /\ entries'[on'[g]] = 0 /\ sales'[on'[g]] = 1
      BY <1>a, <1>2, <1>3, <2>2, <2>3, <2>6
    <3>5. \A g \in Finals : pc'[g] \in {"sale", "treasury"} => Busy(g)'
      BY DEF Busy
    <3> QED
      BY <3>1, <3>2, <3>3, <3>4, <3>5 DEF Books, BookedOnce
  <2>11. Known'
    <3>1. Fit(old) /\ Fit(disk)
      BY <1>2 DEF TillInv, Known
    <3>2. ASSUME NEW y, Fit(y), NEW x, \A t \in Sessions : t # s => x[t] = y[t],
                 x[s].status = y[s].status, x[s].key = y[s].key, x[s].entry = y[s].entry
          PROVE  Fit(x)'
      <4> SUFFICES ASSUME NEW t \in Sessions
                   PROVE  /\ x[t].status = "none" => x[t].key = None /\ ~x[t].entry
                          /\ x[t].status # "none" => t \in made'
                          /\ x[t].status # "none" /\ sales'[t] > 0 => x[t].key # None
                          /\ x[t].entry => sales'[t] = 1 /\ entries'[t] = 1
                          /\ \A g \in Finals : on'[g] = t /\ x[t].status # "none" =>
                               /\ Busy(g)' => x[t].key # None
                               /\ answer'[g] = "paid" => x[t].sale /\ x[t].entry
        BY DEF Fit
      <4>1. \A g \in Finals : Busy(g)' => Busy(g)
        BY <1>1, <2>6
      <4>2. \A g \in Finals : answer'[g] = "paid" => answer[g] = "paid" /\ on[g] # s
        BY <1>6, <2>9
      <4>3. CASE t = s
        BY <1>a, <1>1, <1>2, <1>3, <2>2, <3>2, <4>1, <4>2, <4>3 DEF Fit
      <4>4. CASE t # s
        BY <1>3, <2>2, <3>2, <4>1, <4>2, <4>4 DEF Fit
      <4> QED
        BY <4>3, <4>4
    <3>3. ASSUME NEW x \in {disk, doc, Empty} PROVE Fit(x)'
      <4>1. CASE x = doc
        <5>1. /\ \A t \in Sessions : t # s => x[t] = old[t]
              /\ x[s].status = old[s].status /\ x[s].key = old[s].key
              /\ x[s].entry = old[s].entry
          BY <1>2, <1>4, <4>1
        <5> QED
          BY <3>1, <3>2, <5>1
      <4>2. CASE x # doc
        BY <1>2, <3>1, <3>2, <3>3, <4>2, EmptyFits
      <4> QED
        BY <4>1, <4>2
    <3> QED
      BY <2>5, <3>3 DEF Known
  <2>12. Single'
    <3>1. OneEach(old) /\ OneEach(disk)
      BY <1>2 DEF TillInv, Single
    <3>2. OneEach(doc)
      BY <1>4, <3>1 DEF OneEach
    <3> QED
      BY <2>5, <3>1, <3>2, EmptyFits DEF Single
  <2>13. Agree'
    <3>1. SameKeys(old, disk) /\ SameKeys(disk, old)
      BY <1>2 DEF TillInv, Agree
    <3>2. SameKeys(doc, disk) /\ SameKeys(disk, doc)
      BY <1>4, <3>1 DEF SameKeys
    <3>3. ~Free'
      BY <2>3 DEF Free
    <3>4. \A x, y \in {disk, doc, Empty} : SameKeys(x, y)
      <4>1. SameKeys(disk, disk) /\ SameKeys(doc, doc)
        BY SelfPairs
      <4>2. \A x : SameKeys(x, Empty) /\ SameKeys(Empty, x)
        BY EmptyPairs
      <4> QED
        BY <3>2, <4>1, <4>2
    <3>5. \A x, y \in Docs' : SameKeys(x, y)
      BY <2>5, <3>4
    <3> QED
      BY <3>3, <3>5 DEF Agree
  <2>14. Ahead'
    <3>1. Cancels(old, disk)
      BY <1>2 DEF TillInv, Ahead
    <3>2. Cancels(doc, disk)
      BY <1>4, <3>1 DEF Cancels
    <3> QED
      BY <2>4, <2>5, <3>2, SelfPairs, EmptyPairs DEF Ahead
  <2> QED
    BY <2>1, <2>8, <2>10, <2>11, <2>12, <2>13, <2>14 DEF TillInv
<1>7. \/ /\ sales' = [sales EXCEPT ![s] = @ + 1]
         /\ pc' = [pc EXCEPT ![f] = "treasury"]
         /\ IF f \in attached
            THEN view' = doc /\ UNCHANGED held
            ELSE held' = [held EXCEPT ![f] = doc] /\ UNCHANGED view
         /\ UNCHANGED <<disk, attached, answer, faults>>
      \/ /\ \E w \in SessionWrites(old) : SaveAndAnswer(f, old, w, "recovery")
         /\ sales' = sales
  BY <1>a, <1>b, <1>c DEF MakeSale, WithSale
<1> QED
  BY <1>5, <1>6, <1>7

-----------------------------------------------------------------------------
LEMMA CrashStep == ASSUME TillInv, Crash PROVE TillInv'
<1>1. TypeOK /\ view' = disk /\ disk' = disk /\ attached' = {}
      /\ held' = [f \in Finals |-> Empty]
      /\ pc' = [f \in Finals |-> IF pc[f] = "idle" THEN "idle" ELSE "over"]
      /\ UNCHANGED <<devices, on, key, answer, bookVars, made, faults>>
      /\ crashes' = crashes + 1
  BY DEF TillInv, Crash
<1>2. TypeOK'
  BY <1>1, EmptyDoc DEF TypeOK, Doc, bookVars
<1>3. \A f \in Finals : ~Busy(f)' /\ pc'[f] \notin {"sale", "treasury"}
                       /\ (pc[f] = "over" => pc'[f] = "over") /\ held'[f] = Empty
  BY <1>1 DEF Busy
<1>4. Docs' \subseteq {disk', Empty}
  BY <1>1 DEF Docs
<1>5. Calls' /\ Books'
  <2>1. Calls'
    BY <1>1, <1>3 DEF TillInv, Calls
  <2>2. Books'
    BY <1>1, <1>3 DEF TillInv, Books, BookedOnce, bookVars
  <2> QED
    BY <2>1, <2>2
<1>6. Known' /\ Single'
  <2>1. Fit(disk) /\ OneEach(disk)
    BY DEF TillInv, Known, Single, Docs
  <2>2. ASSUME NEW x, Fit(x) PROVE Fit(x)'
    BY <1>1, <1>3, <2>2 DEF Fit, bookVars
  <2> QED
    BY <1>1, <1>4, <2>1, <2>2, EmptyFits DEF Known, Single
<1>7. Agree' /\ Ahead'
  BY <1>1, <1>4, SelfPairs, EmptyPairs DEF Agree, Ahead
<1> QED
  BY <1>2, <1>5, <1>6, <1>7 DEF TillInv

LEMMA SetDeviceStep ==
  ASSUME TillInv, NEW d \in Devices, NEW to \in {"available", "occupied", "out"}, SetDevice(d, to)
  PROVE  TillInv'
<1>1. PICK w \in DeviceWrites([devices EXCEPT ![d] = to]) : devices' = w.disk /\ Fault(Failed(w))
  BY DEF SetDevice
<1>2. TypeOK /\ UNCHANGED <<docVars, callVars, bookVars, made, crashes>>
  BY DEF TillInv, SetDevice
<1>3. devices' \in [Devices -> {"none", "available", "occupied", "out"}] /\ Failed(w) \in Nat
  BY <1>1, <1>2, DeviceTypes
<1>4. faults' \in Nat
  BY <1>1, <1>2, <1>3 DEF Fault, TypeOK
<1> QED
  BY <1>2, <1>3, <1>4, DevicesStep

LEMMA RemoveDeviceStep == ASSUME TillInv, NEW d \in Devices, RemoveDevice(d) PROVE TillInv'
<1>1. PICK w \in DeviceWrites([devices EXCEPT ![d] = "none"]) : devices' = w.disk /\ Fault(Failed(w))
  BY DEF RemoveDevice
<1>2. TypeOK /\ UNCHANGED <<docVars, callVars, bookVars, made, crashes>>
  BY DEF TillInv, RemoveDevice
<1>3. devices' \in [Devices -> {"none", "available", "occupied", "out"}] /\ Failed(w) \in Nat
  BY <1>1, <1>2, DeviceTypes
<1>4. faults' \in Nat
  BY <1>1, <1>2, <1>3 DEF Fault, TypeOK
<1> QED
  BY <1>2, <1>3, <1>4, DevicesStep

LEMMA TillStep == TillInv /\ [Next]_vars => TillInv'
<1> SUFFICES ASSUME TillInv, [Next]_vars PROVE TillInv'
  OBVIOUS
<1>1. ASSUME NEW d \in Devices, NEW to \in {"available", "occupied", "out"}, SetDevice(d, to)
      PROVE  TillInv'
  BY <1>1, SetDeviceStep
<1>2. ASSUME NEW d \in Devices, RemoveDevice(d) PROVE TillInv'
  BY <1>2, RemoveDeviceStep
<1>3. ASSUME NEW s \in Sessions, NEW d \in Devices, Create(s, d) PROVE TillInv'
  BY <1>3, CreateStep
<1>4. ASSUME NEW s \in Sessions, Start(s) \/ Stop(s) \/ Cancel(s) PROVE TillInv'
  BY <1>4, StartStep, StopStep, CancelStep
<1>5. ASSUME NEW f \in Finals, NEW s \in Sessions, NEW k \in Keys, Finalize(f, s, k) PROVE TillInv'
  BY <1>5, FinalizeStep
<1>6. ASSUME NEW f \in Finals, MakeSale(f) \/ MakeEntry(f) PROVE TillInv'
  BY <1>6, MakeSaleStep, MakeEntryStep
<1>7. CASE Crash
  BY <1>7, CrashStep
<1>8. CASE UNCHANGED vars
  <2>1. /\ UNCHANGED <<docVars, callVars, bookVars, made, crashes>>
        /\ devices' = devices /\ faults' = faults
    BY <1>8 DEF vars, docVars, callVars, bookVars
  <2> QED
    BY <2>1, DevicesStep DEF TillInv, TypeOK
<1> QED
  BY <1>1, <1>2, <1>3, <1>4, <1>5, <1>6, <1>7, <1>8 DEF Next

LEMMA TillAlways == Spec => []TillInv
<1>1. Init => TillInv
  BY TillInit
<1>2. TillInv /\ [Next]_vars => TillInv'
  BY TillStep
<1> QED
  BY <1>1, <1>2, PTL DEF Spec

-----------------------------------------------------------------------------
(* Every variable always has its type.                                      *)
THEOREM PlayStationTypes == Spec => []TypeOK
<1>1. TillInv => TypeOK
  BY DEF TillInv
<1> QED
  BY <1>1, TillAlways, PTL

(* No device serves two sessions, whatever writes fail, whoever sets the    *)
(* status of a device and whenever the process dies (activeOnDevice, line   *)
(* 227).                                                                    *)
THEOREM DeviceServesOne == Spec => []OneActivePerDevice
<1>1. TillInv => OneActivePerDevice
  <2> SUFFICES ASSUME TillInv, NEW doc \in {disk, view}, NEW s \in Sessions, NEW t \in Sessions,
                      {s, t} \subseteq Active(doc, doc[s].device)
               PROVE  s = t
    BY DEF OneActivePerDevice
  <2>1. OneEach(doc)
    BY DEF TillInv, Single, Docs
  <2>2. doc[s].status = "active" /\ doc[t].status = "active" /\ doc[t].device = doc[s].device
    BY DEF Active
  <2> QED
    BY <2>1, <2>2 DEF OneEach
<1> QED
  BY <1>1, TillAlways, PTL

(* A session is never invoiced or booked twice, and never booked without an *)
(* invoice (line 458), for any number of tills, keys, retries, failures and *)
(* restarts.                                                                *)
THEOREM BooksOnce == Spec => []BookedOnce
<1>1. TillInv => BookedOnce
  BY DEF TillInv, Books
<1> QED
  BY <1>1, TillAlways, PTL

(* A payment reported as complete exists and is referred to by the file,    *)
(* unless the file itself is lost.                                          *)
THEOREM PaidIsDurable == Spec => []PaidAnswerIsDurable
<1>1. TillInv => PaidAnswerIsDurable
  <2> SUFFICES ASSUME TillInv, NEW f \in Finals, answer[f] = "paid"
               PROVE  /\ sales[on[f]] = 1 /\ entries[on[f]] = 1
                      /\ disk[on[f]].status = "none" \/ (disk[on[f]].sale /\ disk[on[f]].entry)
    BY DEF PaidAnswerIsDurable
  <2>1. on[f] \in Sessions /\ sales[on[f]] = 1 /\ entries[on[f]] = 1
    BY DEF TillInv, Books
  <2>2. Fit(disk)
    BY DEF TillInv, Known, Docs
  <2> QED
    BY <2>1, <2>2 DEF Fit
<1> QED
  BY <1>1, TillAlways, PTL

-----------------------------------------------------------------------------
(* What a write of the whole document may do to the sessions in the file.   *)
Legal(from, to) ==
  \/ to \in {from, "none"} \/ from = "none"
  \/ from = "pending" /\ to \in {"active", "cancelled"}
  \/ from = "active" /\ to \in {"completed", "cancelled"}

Moves(new) ==
  \A t \in Sessions :
    /\ disk[t].key # None /\ new[t].status # "none" => new[t].key = disk[t].key
    /\ Legal(disk[t].status, new[t].status)

LEMMA OutcomeMoves ==
  ASSUME TillInv, NEW f \in Finals \cup {None}, NEW doc \in Doc, Moves(doc),
         NEW w \in SessionWrites(doc), Save(f, doc, w)
  PROVE  Moves(disk')
<1>1. disk' \in {doc, disk, Empty}
  <2>1. TypeOK /\ w.ok \in BOOLEAN
    BY Outcomes DEF SessionWrites, TillInv
  <2> QED
    BY <2>1, SaveDocs
<1>2. Moves(disk) /\ Moves(Empty)
  BY DEF Moves, Legal, Empty, NoSession
<1> QED
  BY <1>1, <1>2

(* A document that may still be written moves no session back.              *)
LEMMA HeldMoves ==
  ASSUME TillInv, NEW x \in Docs
  PROVE  /\ Moves(x)
         /\ \A t \in Sessions :
              /\ disk[t].key # None => disk[t].status # "none"
              /\ disk[t].status # "none" /\ x[t].status \in {"pending", "active"} =>
                   disk[t].status = x[t].status
              /\ disk[t].key # None /\ x[t].status # "none" => disk[t].key = x[t].key
<1>1. Fit(disk) /\ Cancels(x, disk) /\ SameKeys(x, disk)
  BY DEF TillInv, Known, Agree, Ahead, Docs
<1>2. \A t \in Sessions : disk[t].key # None => disk[t].status # "none"
  BY <1>1 DEF Fit
<1>3. \A t \in Sessions : disk[t].key # None /\ x[t].status # "none" => disk[t].key = x[t].key
  BY <1>1, <1>2 DEF SameKeys
<1>4. \A t \in Sessions :
        /\ disk[t].status # "none" /\ x[t].status \in {"pending", "active"} =>
             disk[t].status = x[t].status
        /\ Legal(disk[t].status, x[t].status)
  BY <1>1 DEF Cancels, Legal
<1> QED
  BY <1>2, <1>3, <1>4 DEF Moves

LEMMA StatusMoves ==
  ASSUME TillInv, NEW s \in Sessions, NEW doc,
         \A t \in Sessions : t # s => doc[t] = view[t],
         doc[s].key = view[s].key,
         \/ view[s].status = "pending" /\ doc[s].status \in {"active", "cancelled"}
         \/ view[s].status = "active" /\ doc[s].status \in {"completed", "cancelled"}
  PROVE  Moves(doc)
<1>1. view \in Docs
  BY DEF Docs
<1>2. /\ Moves(view)
      /\ \A t \in Sessions :
           /\ disk[t].key # None => disk[t].status # "none"
           /\ disk[t].status # "none" /\ view[t].status \in {"pending", "active"} =>
                disk[t].status = view[t].status
           /\ disk[t].key # None /\ view[t].status # "none" => disk[t].key = view[t].key
  BY <1>1, HeldMoves
<1> SUFFICES ASSUME NEW t \in Sessions
             PROVE  /\ disk[t].key # None /\ doc[t].status # "none" => doc[t].key = disk[t].key
                    /\ Legal(disk[t].status, doc[t].status)
  BY DEF Moves
<1>3. CASE t = s
  BY <1>2, <1>3 DEF Legal
<1>4. CASE t # s
  BY <1>2, <1>4 DEF Moves
<1> QED
  BY <1>3, <1>4

LEMMA FileMoves == ASSUME TillInv, [Next]_vars PROVE Moves(disk')
<1>1. /\ TypeOK /\ view \in Doc /\ view \in Docs
      /\ None \in Finals \cup {None} /\ disk \in Docs
  BY DEF TillInv, TypeOK, Doc, Docs
<1>2. Moves(disk) /\ Moves(view)
  BY <1>1, HeldMoves
<1>3. CASE disk' = disk
  BY <1>2, <1>3
<1>4. ASSUME NEW s \in Sessions, NEW d \in Devices, Create(s, d) PROVE Moves(disk')
  <2> DEFINE doc == [view EXCEPT ![s] = [NoSession EXCEPT !.status = "pending", !.device = d]]
  <2>1. PICK w \in SessionWrites(doc) : Save(None, doc, w)
    BY <1>4 DEF Create
  <2>2. doc \in Doc /\ \A t \in Sessions : t # s => doc[t] = view[t]
    BY <1>1 DEF Doc, Session, NoSession
  <2>3. disk[s].status = "none" /\ disk[s].key = None
    BY <1>1, <1>4 DEF TillInv, Known, Fit, Create
  <2> HIDE DEF doc
  <2>4. Moves(doc)
    BY <1>2, <2>2, <2>3 DEF Moves, Legal
  <2> QED
    BY <1>1, <2>1, <2>2, <2>4, OutcomeMoves
<1>5. ASSUME NEW s \in Sessions, Start(s) PROVE Moves(disk')
  <2> DEFINE doc == [view EXCEPT ![s].status = "active"]
  <2>1. PICK w \in SessionWrites(doc) : Save(None, doc, w)
    BY <1>5 DEF Start
  <2>2. /\ doc \in Doc /\ doc[s].status = "active" /\ doc[s].key = view[s].key
        /\ \A t \in Sessions : t # s => doc[t] = view[t]
    BY <1>1 DEF Doc, Session
  <2>3. view[s].status = "pending"
    BY <1>5 DEF Start
  <2> HIDE DEF doc
  <2>4. Moves(doc)
    BY <2>2, <2>3, StatusMoves
  <2> QED
    BY <1>1, <2>1, <2>2, <2>4, OutcomeMoves
<1>6. ASSUME NEW s \in Sessions, Stop(s) PROVE Moves(disk')
  <2>1. PICK c \in BOOLEAN :
          \E w \in SessionWrites([view EXCEPT ![s].status = "completed", ![s].charged = c]) :
            Save(None, [view EXCEPT ![s].status = "completed", ![s].charged = c], w)
    BY <1>6 DEF Stop
  <2> DEFINE doc == [view EXCEPT ![s].status = "completed", ![s].charged = c]
  <2>2. PICK w \in SessionWrites(doc) : Save(None, doc, w)
    BY <2>1
  <2>3. /\ doc \in Doc /\ doc[s].status = "completed" /\ doc[s].key = view[s].key
        /\ \A t \in Sessions : t # s => doc[t] = view[t]
    BY <1>1 DEF Doc, Session
  <2>4. view[s].status = "active"
    BY <1>6 DEF Stop
  <2> HIDE DEF doc
  <2>5. Moves(doc)
    BY <2>3, <2>4, StatusMoves
  <2> QED
    BY <1>1, <2>2, <2>3, <2>5, OutcomeMoves
<1>7. ASSUME NEW s \in Sessions, Cancel(s), disk' # disk PROVE Moves(disk')
  <2> DEFINE doc == [view EXCEPT ![s].status = "cancelled"]
  <2>1. view[s].status = "active" /\ \E w \in SessionWrites(doc) : Save(None, doc, w)
    BY <1>7 DEF Cancel
  <2>2. PICK w \in SessionWrites(doc) : Save(None, doc, w)
    BY <2>1
  <2>3. /\ doc \in Doc /\ doc[s].status = "cancelled" /\ doc[s].key = view[s].key
        /\ \A t \in Sessions : t # s => doc[t] = view[t]
    BY <1>1 DEF Doc, Session
  <2> HIDE DEF doc
  <2>4. Moves(doc)
    BY <2>1, <2>3, StatusMoves
  <2> QED
    BY <1>1, <2>2, <2>3, <2>4, OutcomeMoves
<1>8. ASSUME NEW f \in Finals, NEW s \in Sessions, NEW k \in Keys, Finalize(f, s, k), disk' # disk
      PROVE  Moves(disk')
  <2> DEFINE doc == [view EXCEPT ![s].key = k]
  <2>1. view[s].key = None /\ view[s].status = "completed"
    BY <1>8 DEF Finalize, docVars
  <2>2. \/ disk' = doc
        \/ \E w \in SessionWrites(doc) : Save(None, doc, w)
    BY <1>8 DEF Finalize, docVars
  <2>3. doc \in Doc /\ \A t \in Sessions : doc[t].status = view[t].status
    BY <1>1, NewKey
  <2>4. \A t \in Sessions : t # s => doc[t].key = view[t].key
    BY <1>1 DEF Doc, Session
  <2>5. disk[s].key = None
    BY <1>1, <2>1, HeldMoves
  <2> HIDE DEF doc
  <2>6. Moves(doc)
    BY <1>2, <2>3, <2>4, <2>5 DEF Moves
  <2> QED
    BY <1>1, <2>2, <2>3, <2>6, OutcomeMoves
<1>9. ASSUME NEW f \in Finals, MakeSale(f) \/ MakeEntry(f), disk' # disk PROVE Moves(disk')
  <2>a. PICK s : s = on[f]
    OBVIOUS
  <2>b. PICK old : old = Document(f)
    OBVIOUS
  <2>c. PICK doc : WithEntry(doc, old, s)
    BY DEF WithEntry
  <2>1. Busy(f)
    BY <1>9 DEF MakeSale, MakeEntry, Busy
  <2>2. old \in Docs /\ old \in Doc /\ s \in Sessions
    BY <2>a, <2>b, <2>1, OneHolder
  <2>3. /\ doc \in Doc
        /\ \A t \in Sessions : doc[t].status = old[t].status /\ doc[t].key = old[t].key
    BY <2>2, <2>c, EntrySet
  <2>4. \/ \E w \in SessionWrites(old) : Save(f, old, w)
        \/ \E w \in SessionWrites(doc) : Save(f, doc, w)
    <3>1. CASE MakeSale(f)
      BY <1>9, <2>b, <3>1 DEF MakeSale, SaveAndAnswer
    <3>2. CASE MakeEntry(f)
      BY <2>a, <2>b, <2>c, <3>2 DEF MakeEntry, SaveAndAnswer, WithEntry
    <3> QED
      BY <1>9, <3>1, <3>2
  <2>5. Moves(old)
    BY <2>2, HeldMoves
  <2>6. Moves(doc)
    BY <2>3, <2>5 DEF Moves
  <2> QED
    BY <2>2, <2>3, <2>4, <2>5, <2>6, OutcomeMoves
<1>10. CASE UNCHANGED vars
  BY <1>3, <1>10 DEF vars
<1>11. ASSUME \/ \E d \in Devices, to \in {"available", "occupied", "out"} : SetDevice(d, to)
              \/ \E d \in Devices : RemoveDevice(d)
              \/ Crash
       PROVE  Moves(disk')
  BY <1>3, <1>11 DEF SetDevice, RemoveDevice, Crash, docVars
<1> QED
  BY <1>3, <1>4, <1>5, <1>6, <1>7, <1>8, <1>9, <1>10, <1>11 DEF Next

(* Whatever document is written, and whoever kept it for how long: the key  *)
(* of a session in the file stays (lines 466-467).                          *)
THEOREM KeysStay == Spec => KeyIsForever
<1>1. TillInv /\ [Next]_vars =>
        [\A s \in Sessions :
           (disk[s].key # None /\ disk'[s].status # "none") => disk'[s].key = disk[s].key]_vars
  BY FileMoves DEF Moves
<1> QED
  BY <1>1, TillAlways, PTL DEF Spec, KeyIsForever

(* In the file a session moves only along ALLOWED_TRANSITIONS (lines        *)
(* 35-44), whatever document is written.                                    *)
THEOREM TransitionsLegal == Spec => LegalTransitions
<1>1. TillInv /\ [Next]_vars =>
        [\A s \in Sessions :
           LET from == disk[s].status
               to == disk'[s].status
           IN  \/ to \in {from, "none"} \/ from = "none"
               \/ from = "pending" /\ to \in {"active", "cancelled"}
               \/ from = "active" /\ to \in {"completed", "cancelled"}]_vars
  BY FileMoves DEF Moves, Legal
<1> QED
  BY <1>1, TillAlways, PTL DEF Spec, LegalTransitions

=============================================================================
