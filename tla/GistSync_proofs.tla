-------------------------- MODULE GistSync_proofs --------------------------
(***************************************************************************)
(* Proofs about GistSync, for a provider that does not carry out calls the *)
(* server has given up (LateEffects = FALSE): type correctness, the three  *)
(* safety invariants of pushes and bindings, that synchronisation          *)
(* implements Dataset, and that the lock is always passed on.              *)
(***************************************************************************)
EXTENDS GistSync, TLAPS

-----------------------------------------------------------------------------
(* Type correctness, with the objects: what is stored or held was made, an  *)
(* open request holds one, and only pushes write to the provider.           *)

Objects ==
  /\ bound \in configured \cup {None}
  /\ \A r \in Requests : mine[r] \in configured \cup {None}
  /\ \A r \in Requests : pc[r] \in {"queued", "get", "patch", "create"} => mine[r] # None
  /\ \A r \in Requests : pc[r] \in {"patch", "create"} => r \in Pushes

ObjectInv == TypeOK /\ Objects

LEMMA PushesAsk == Pushes \subseteq Requests
BY DEF Requests

LEMMA EntryFields ==
  \A e \in Entry :
    /\ e.gist \in Gists \cup {None}
    /\ e.lastRevision \in Revisions \cup {None}
    /\ \A v \in Revisions \cup {None} : [e EXCEPT !.lastRevision = v] \in Entry
    /\ \A g \in Gists \cup {None}, v \in Revisions \cup {None} :
         [e EXCEPT !.gist = g, !.lastRevision = v] \in Entry
    /\ \A g \in Gists \cup {None}, u \in BOOLEAN :
         [e EXCEPT !.usable = u, !.gist = g] \in Entry
BY DEF Entry

LEMMA EntryUpdates ==
  \A e \in Entry :
    /\ \A v \in Revisions \cup {None} :
         /\ [e EXCEPT !.lastRevision = v].gist = e.gist
         /\ [e EXCEPT !.lastRevision = v].lastRevision = v
    /\ \A g \in Gists \cup {None}, v \in Revisions \cup {None} :
         /\ [e EXCEPT !.gist = g, !.lastRevision = v].gist = g
         /\ [e EXCEPT !.gist = g, !.lastRevision = v].lastRevision = v
    /\ \A g \in Gists \cup {None}, u \in BOOLEAN :
         /\ [e EXCEPT !.usable = u, !.gist = g].gist = g
         /\ [e EXCEPT !.usable = u, !.gist = g].lastRevision = e.lastRevision
BY DEF Entry

LEMMA LeaveType ==
  ASSUME queue \in Seq(Pushes \cup Pulls), NEW r, Leave(r)
  PROVE  queue' \in Seq(Pushes \cup Pulls)
BY DEF Leave

LEMMA EndType ==
  ASSUME ObjectInv, NEW r \in Requests, End(r)
  PROVE  /\ pc' \in [Requests -> {"idle", "queued", "get", "patch", "create", "over"}]
         /\ mine' \in [Requests -> Configs \cup {None}]
         /\ \A s \in Requests : s # r => pc'[s] = pc[s] /\ mine'[s] = mine[s]
         /\ pc'[r] = "over" /\ mine'[r] = None
BY DEF End, ObjectInv, TypeOK

LEMMA ObjectInit == Init => ObjectInv
<1> SUFFICES ASSUME Init PROVE ObjectInv
  OBVIOUS
<1>1. entry \in [Configs -> Entry]
  BY DEF Init, NewEntry, Entry
<1>2. /\ pc \in [Requests -> {"idle", "queued", "get", "patch", "create", "over"}]
      /\ mine \in [Requests -> Configs \cup {None}]
      /\ base \in [Pushes -> Revisions \cup {None}]
      /\ target \in [Pushes -> Gists \cup {None}]
  BY DEF Init
<1>3. remote \in [Gists -> Revisions \cup {None}]
  BY DEF Init, Revisions
<1>4. queue \in Seq(Pushes \cup Pulls)
  BY DEF Init
<1>5. Objects
  BY DEF Init, Objects, Requests
<1> QED
  BY <1>1, <1>2, <1>3, <1>4, <1>5 DEF Init, ObjectInv, TypeOK

LEMMA HeldType ==
  ASSUME ObjectInv, NEW r \in Requests, mine[r] # None
  PROVE  mine[r] \in configured /\ mine[r] \in Configs /\ entry[mine[r]] \in Entry
BY DEF ObjectInv, TypeOK, Objects

LEMMA GotType ==
  ASSUME ObjectInv, NEW r \in Requests, mine[r] # None, entry[mine[r]].gist # None
  PROVE  Got(r) \in Revisions \cup {None}
<1>1. entry[mine[r]].gist \in Gists
  BY HeldType, EntryFields
<1> QED
  BY <1>1 DEF ObjectInv, TypeOK, Got

LEMMA FreshType ==
  ASSUME ObjectInv, NEW r \in Requests, mine[r] # None
  PROVE  Fresh(r) \in configured /\ Fresh(r) \in Configs /\ Fresh(r) # None
BY DEF ObjectInv, TypeOK, Objects, Fresh

LEMMA ObjectStep == ObjectInv /\ [Next]_vars => ObjectInv'
<1> SUFFICES ASSUME ObjectInv, [Next]_vars PROVE ObjectInv'
  OBVIOUS
<1> USE PushesAsk
<1>1. ASSUME NEW c \in Configs, Configure(c) PROVE ObjectInv'
  <2> DEFINE existing == IF bound = None THEN NewEntry ELSE entry[bound]
  <2>1. existing \in Entry
    BY DEF ObjectInv, TypeOK, NewEntry, Entry
  <2>2. PICK usable \in BOOLEAN, g \in {existing.gist, Gist, None} :
          /\ Upsert(c, [existing EXCEPT !.usable = usable, !.gist = g])
          /\ unbound' = (unbound \/ (existing.gist # None /\ g = None))
    BY <1>1 DEF Configure
  <2>3. g \in Gists \cup {None}
    BY <2>1, EntryFields DEF Gists
  <2>4. [existing EXCEPT !.usable = usable, !.gist = g] \in Entry
    BY <2>1, <2>3, EntryFields
  <2>5. entry' \in [Configs -> Entry] /\ bound' = c /\ unbound' \in BOOLEAN
    <3> HIDE DEF existing
    <3> QED BY <2>2, <2>4 DEF Upsert, ObjectInv, TypeOK
  <2> HIDE DEF existing
  <2> QED
    BY <1>1, <2>5 DEF Configure, ObjectInv, TypeOK, Objects, remoteVars
<1>2. CASE Disconnect
  BY <1>2 DEF Disconnect, ObjectInv, TypeOK, Objects, remoteVars
<1>3. ASSUME NEW r \in Requests, Ask(r) PROVE ObjectInv'
  <2>1. queue' \in Seq(Pushes \cup Pulls)
    BY <1>3 DEF Ask, ObjectInv, TypeOK, Requests
  <2> QED
    BY <1>3, <2>1 DEF Ask, Usable, ObjectInv, TypeOK, Objects, remoteVars, historyVars
<1>4. ASSUME NEW r \in Requests, Enter(r) PROVE ObjectInv'
  <2>1. queue' \in Seq(Pushes \cup Pulls)
    BY <1>4, LeaveType DEF Enter, ObjectInv, TypeOK
  <2>2. Fresh(r) \in configured /\ Fresh(r) \in Configs /\ Fresh(r) # None
    BY <1>4, FreshType DEF Enter, ObjectInv, Objects
  <2>3. CASE Go(r, "get") /\ UNCHANGED <<bound, entry, target, queue, sent>>
    BY <1>4, <2>1, <2>2, <2>3 DEF Enter, Go, ObjectInv, TypeOK, Objects, historyVars
  <2>4. CASE /\ r \in Pushes /\ Go(r, "create")
             /\ target' = [target EXCEPT ![r] = r] /\ sent' = sent \cup {r}
             /\ UNCHANGED <<bound, entry, queue>>
    BY <1>4, <2>1, <2>2, <2>4 DEF Enter, Go, ObjectInv, TypeOK, Objects, historyVars, Gists
  <2>5. CASE End(r) /\ UNCHANGED <<bound, entry, target, sent>>
    BY <1>4, <2>1, <2>5, EndType DEF Enter, ObjectInv, TypeOK, Objects, historyVars
  <2> QED
    BY <1>4, <2>3, <2>4, <2>5 DEF Enter
<1>5. ASSUME NEW r \in Requests, FinishPull(r) PROVE ObjectInv'
  <2>1. queue' \in Seq(Pushes \cup Pulls)
    BY <1>5, LeaveType DEF FinishPull, ObjectInv, TypeOK
  <2>2. mine[r] \in configured /\ mine[r] \in Configs /\ mine[r] # None
    BY <1>5 DEF FinishPull, ObjectInv, TypeOK, Objects
  <2>3. [entry[mine[r]] EXCEPT !.lastRevision = Got(r)] \in Entry
    BY <1>5, <2>2, GotType, EntryFields DEF FinishPull, ObjectInv, TypeOK
  <2>4. entry' \in [Configs -> Entry] /\ bound' \in configured \cup {None}
    BY <1>5, <2>2, <2>3 DEF FinishPull, Upsert, ObjectInv, TypeOK, Objects
  <2> QED
    BY <1>5, <2>1, <2>4, EndType DEF FinishPull, ObjectInv, TypeOK, Objects, remoteVars, historyVars
<1>6. ASSUME NEW p \in Pushes, CheckBase(p) PROVE ObjectInv'
  <2>1. p \in Requests
    BY DEF Requests
  <2>2. mine[p] \in configured /\ mine[p] \in Configs
    BY <1>6, <2>1 DEF CheckBase, ObjectInv, TypeOK, Objects
  <2>3. PICK b \in Revisions \cup {None} :
          \/ /\ SendPatch(p, b) /\ UNCHANGED <<bound, entry, mine, queue>>
          \/ Conflict(p)
    BY <1>6 DEF CheckBase
  <2>4. CASE SendPatch(p, b) /\ UNCHANGED <<bound, entry, mine, queue>>
    BY <1>6, <2>1, <2>2, <2>4, EntryFields DEF CheckBase, SendPatch, ObjectInv, TypeOK, Objects, historyVars
  <2>5. CASE Conflict(p)
    BY <1>6, <2>1, <2>5, EndType, LeaveType
       DEF CheckBase, Conflict, ObjectInv, TypeOK, Objects, historyVars
  <2> QED
    BY <2>3, <2>4, <2>5
<1>7. ASSUME NEW p \in Pushes, FinishPush(p) PROVE ObjectInv'
  <2>1. p \in Requests /\ p \in Revisions
    BY DEF Requests, Revisions
  <2>2. mine[p] \in configured /\ mine[p] \in Configs
    BY <1>7, <2>1 DEF FinishPush, ObjectInv, TypeOK, Objects
  <2>3. [entry[mine[p]] EXCEPT !.gist = target[p], !.lastRevision = p] \in Entry
    BY <2>1, <2>2, EntryFields DEF ObjectInv, TypeOK
  <2>4. entry' \in [Configs -> Entry] /\ bound' \in configured
    BY <1>7, <2>2, <2>3 DEF FinishPush, Upsert, ObjectInv, TypeOK
  <2> QED
    BY <1>7, <2>1, <2>4, EndType, LeaveType
       DEF FinishPush, ObjectInv, TypeOK, Objects, remoteVars
<1>8. ASSUME NEW t \in Requests, FinishTest(t) PROVE ObjectInv'
  <2>1. bound' \in configured \cup {None} /\ bound' \in Configs \cup {None}
    BY <1>8, FreshType DEF FinishTest, ObjectInv, TypeOK, Objects
  <2> QED
    BY <1>8, <2>1, EndType DEF FinishTest, ObjectInv, TypeOK, Objects, remoteVars, historyVars
<1>9. ASSUME NEW r \in Requests, UpstreamFails(r) PROVE ObjectInv'
  BY <1>9, EndType, LeaveType DEF UpstreamFails, ObjectInv, TypeOK, Objects, historyVars
<1>10. ASSUME NEW p \in Pushes, Lands(p) PROVE ObjectInv'
  <2>1. remote' \in [Gists -> Revisions \cup {None}]
    BY <1>10 DEF Lands, ObjectInv, TypeOK, Objects, Revisions
  <2> QED
    BY <1>10, <2>1 DEF Lands, ObjectInv, TypeOK, Objects, historyVars
<1>11. ASSUME NEW e \in Edits, Edit(e) PROVE ObjectInv'
  <2>1. remote' \in [Gists -> Revisions \cup {None}]
    BY <1>11 DEF Edit, ObjectInv, TypeOK, Revisions
  <2> QED
    BY <1>11, <2>1 DEF Edit, ObjectInv, TypeOK, Objects, historyVars
<1>12. CASE Crash
  BY <1>12 DEF Crash, ObjectInv, TypeOK, Objects, historyVars
<1>13. CASE UNCHANGED vars
  BY <1>13 DEF vars, ObjectInv, TypeOK, Objects
<1> QED
  BY <1>1, <1>2, <1>3, <1>4, <1>5, <1>6, <1>7, <1>8, <1>9, <1>10, <1>11, <1>12, <1>13
     DEF Next, Continue, CheckBase

-----------------------------------------------------------------------------
(* What the safety invariants rest on.                                      *)

(* Who is inside the section of _withTenantLock is at the head of the chain. *)
Section ==
  \A r \in Pushes \cup Pulls :
    pc[r] \in {"get", "patch", "create"} => queue # <<>> /\ Head(queue) = r

(* A push that reads has a gist to read; one that writes knows where to.    *)
Targets ==
  /\ \A p \in Pushes : pc[p] = "get" => entry[mine[p]].gist # None
  /\ \A p \in Pushes : pc[p] \in {"patch", "create"} => target[p] # None
  /\ \A p \in sent : pc[p] \in {"patch", "create"}

(* A push takes effect at most once, while it waits for the provider, and   *)
(* is built on nothing before.                                              *)
Sending ==
  /\ sent \cap landed = {}
  /\ \A p \in Pushes : pc[p] \in {"patch", "create"} => p \in sent \cup landed
  /\ \A p \in Pushes : pc[p] \in {"idle", "queued", "get"} => p \notin landed /\ base[p] = None
  /\ \A p \in Pushes : pc[p] = "create" => target[p] = p
  /\ \A p \in landed : target[p] # None
  /\ \A p \in accepted : p \in landed /\ pc[p] = "over"

(* A gist that somebody knows of exists; the gist of a push, once it landed. *)
Provider ==
  /\ remote[Gist] # None
  /\ \A c \in Configs : entry[c].gist # None => remote[entry[c].gist] # None
  /\ \A p \in landed : remote[target[p]] # None
  /\ \A p \in sent : target[p] = p \/ remote[target[p]] # None
  /\ \A p \in Pushes : remote[p] # None => p \in landed
  /\ \A p \in Pushes : pc[p] = "patch" => target[p] # p
  /\ \A g \in Gists : remote[g] \in landed \cup edited \cup {Original, None}

(* A PATCH under way was built on what its gist holds, unless somebody      *)
(* edited that since; one that landed replaced it for good.                 *)
Bases ==
  /\ \A p \in sent \cup landed :
       target[p] # p => base[p] \in landed \cup edited \cup {Original}
  /\ \A p \in sent :
       target[p] # p => remote[target[p]] \in edited \cup {base[p]}
  /\ \A p \in landed : target[p] # p => remote[target[p]] # base[p]
  /\ \A p \in landed, q \in sent :
       (target[p] = target[q] /\ target[p] # p /\ target[q] # q) => base[p] # base[q]
  /\ ExactlyOneWinner

(* What an object tracks stood in a gist.                                   *)
Tracked ==
  \A c \in Configs : entry[c].lastRevision \in landed \cup edited \cup {Original, None}

(* While nobody takes the binding away, it leads to the gist that an        *)
(* accepted push created, and no other push creates one.                    *)
Bootstrap ==
  ~unbound =>
    /\ bound = None => configured = {} /\ accepted = {}
    /\ \A p \in accepted : target[p] = p => entry[bound].gist # None
    /\ \A p \in accepted, q \in Pushes : target[p] = p => pc[q] # "create"
    /\ BootstrapOnce

SyncInv ==
  /\ ObjectInv
  /\ Section
  /\ Targets
  /\ Sending
  /\ Provider
  /\ Bases
  /\ Tracked
  /\ Bootstrap

-----------------------------------------------------------------------------
(* Sections do not overlap.                                                 *)

LEMMA AppendHead ==
  ASSUME NEW S, NEW q \in Seq(S), NEW x \in S
  PROVE  /\ Append(q, x) # <<>>
         /\ q # <<>> => Head(Append(q, x)) = Head(q)
<1>1. Append(q, x) \in Seq(S) /\ Len(Append(q, x)) = Len(q) + 1 /\ Len(q) \in Nat
  OBVIOUS
<1>2. ASSUME q # <<>> PROVE Append(q, x)[1] = q[1]
  BY <1>2
<1> QED
  BY <1>1, <1>2

LEMMA SectionStep ==
  ASSUME ObjectInv, Section, [Next]_vars
  PROVE  Section'
<1>0. /\ pc \in [Requests -> {"idle", "queued", "get", "patch", "create", "over"}]
      /\ queue \in Seq(Pushes \cup Pulls)
      /\ \A r \in Requests : pc[r] \in {"patch", "create"} => r \in Pushes
  BY DEF ObjectInv, TypeOK, Objects
<1> USE <1>0, GistAssumption DEF Requests
<1>1. ASSUME NEW c \in Configs, Configure(c) PROVE Section'
  BY <1>1 DEF Configure, Upsert, remoteVars, Section
<1>2. CASE Disconnect
  BY <1>2 DEF Disconnect, remoteVars, Section
<1>3. ASSUME NEW r \in Requests, Ask(r) PROVE Section'
  BY <1>3, AppendHead DEF Ask, remoteVars, historyVars, Section
<1>4. ASSUME NEW r \in Requests, Enter(r) PROVE Section'
  BY <1>4 DEF Enter, Go, End, Leave, historyVars, Section
<1>5. ASSUME NEW r \in Requests, FinishPull(r) PROVE Section'
  BY <1>5 DEF FinishPull, Upsert, End, Leave, remoteVars, historyVars,
     Section
<1>6. ASSUME NEW p \in Pushes, CheckBase(p) PROVE Section'
  BY <1>6 DEF CheckBase, SendPatch, Conflict, End, Leave, historyVars,
     Section
<1>7. ASSUME NEW p \in Pushes, FinishPush(p) PROVE Section'
  BY <1>7 DEF FinishPush, Upsert, End, Leave, remoteVars, Section
<1>8. ASSUME NEW t \in Requests, FinishTest(t) PROVE Section'
  BY <1>8 DEF FinishTest, End, remoteVars, historyVars, Section
<1>9. ASSUME NEW r \in Requests, UpstreamFails(r) PROVE Section'
  BY <1>9 DEF UpstreamFails, End, Leave, historyVars, Section
<1>10. ASSUME NEW p \in Pushes, Lands(p) PROVE Section'
  BY <1>10 DEF Lands, historyVars, Section
<1>11. ASSUME NEW e \in Edits, Edit(e) PROVE Section'
  BY <1>11 DEF Edit, historyVars, Section
<1>12. CASE Crash
  BY <1>12 DEF Crash, historyVars, Section
<1>13. CASE UNCHANGED vars
  BY <1>13 DEF vars, Section
<1> QED
  BY <1>1, <1>2, <1>3, <1>4, <1>5, <1>6, <1>7, <1>8, <1>9, <1>10, <1>11,
     <1>12, <1>13 DEF Next, Continue, CheckBase

LEMMA TargetsStep ==
  ASSUME ObjectInv, Targets, LateEffects = FALSE, [Next]_vars
  PROVE  Targets'
<1>0. /\ pc \in [Requests -> {"idle", "queued", "get", "patch", "create", "over"}]
      /\ mine \in [Requests -> Configs \cup {None}]
      /\ target \in [Pushes -> Gists \cup {None}]
      /\ entry \in [Configs -> Entry]
      /\ configured \subseteq Configs /\ sent \subseteq Pushes
      /\ \A r \in Requests : pc[r] \in {"queued", "get", "patch", "create"} =>
           mine[r] # None /\ mine[r] \in configured
      /\ \A r \in Requests : pc[r] \in {"patch", "create"} => r \in Pushes
  BY DEF ObjectInv, TypeOK, Objects
<1> USE <1>0, GistAssumption DEF Requests
<1>1. ASSUME NEW c \in Configs, Configure(c) PROVE Targets'
  BY <1>1 DEF Configure, Upsert, remoteVars, Targets
<1>2. CASE Disconnect
  BY <1>2 DEF Disconnect, remoteVars, Targets
<1>3. ASSUME NEW r \in Requests, Ask(r) PROVE Targets'
  BY <1>3 DEF Ask, remoteVars, historyVars, Targets
<1>4. ASSUME NEW r \in Requests, Enter(r) PROVE Targets'
  <2>1. Fresh(r) \in configured /\ Fresh(r) # None
    BY <1>4, FreshType DEF Enter
  <2>2. \A s \in Requests : s # r => pc'[s] = pc[s] /\ mine'[s] = mine[s]
    BY <1>4 DEF Enter, Go, End
  <2>3. CASE Go(r, "get") /\ UNCHANGED <<bound, entry, target, queue, sent>>
             /\ (r \in Pulls \/ entry[Fresh(r)].gist # None)
    <3>1. r \in Pushes => entry[Fresh(r)].gist # None
      BY <2>3
    <3>2. mine'[r] = Fresh(r) /\ pc'[r] = "get"
      BY <2>3 DEF Go
    <3>3. \A p \in Pushes : pc'[p] = "get" => entry'[mine'[p]].gist # None
      BY <2>2, <2>3, <3>1, <3>2 DEF Targets
    <3>4. \A p \in Pushes : pc'[p] \in {"patch", "create"} => target'[p] # None
      BY <2>2, <2>3, <3>2 DEF Targets
    <3>5. \A p \in sent' : pc'[p] \in {"patch", "create"}
      BY <1>4, <2>2, <2>3, <3>2 DEF Enter, Targets
    <3> QED
      BY <3>3, <3>4, <3>5 DEF Targets
  <2>4. CASE /\ r \in Pushes /\ Go(r, "create")
             /\ target' = [target EXCEPT ![r] = r] /\ sent' = sent \cup {r}
             /\ UNCHANGED <<bound, entry, queue>>
    BY <2>1, <2>2, <2>4 DEF Go, Targets
  <2>5. CASE End(r) /\ UNCHANGED <<bound, entry, target, sent>>
    BY <1>4, <2>2, <2>5 DEF Enter, End, Targets
  <2> QED
    BY <1>4, <2>3, <2>4, <2>5 DEF Enter
<1>5. ASSUME NEW r \in Requests, FinishPull(r) PROVE Targets'
  <2>1. mine[r] \in Configs /\ entry[mine[r]] \in Entry /\ Got(r) \in Revisions \cup {None}
    BY <1>5, HeldType, GotType DEF FinishPull
  <2>2. \A c \in Configs : entry'[c].gist = entry[c].gist
    <3>1. [entry[mine[r]] EXCEPT !.lastRevision = Got(r)].gist = entry[mine[r]].gist
      BY <2>1, EntryUpdates
    <3>2. \/ entry' = entry
          \/ entry' = [entry EXCEPT ![mine[r]] = [entry[mine[r]] EXCEPT !.lastRevision = Got(r)]]
      BY <1>5 DEF FinishPull, Upsert
    <3> QED
      BY <3>1, <3>2
  <2>3. \A p \in Pushes : pc'[p] = pc[p] /\ mine'[p] = mine[p]
    BY <1>5 DEF FinishPull, End
  <2> QED
    BY <1>5, <2>2, <2>3 DEF FinishPull, remoteVars, Targets
<1>6. ASSUME NEW p \in Pushes, CheckBase(p) PROVE Targets'
  <2>1. \A s \in Requests : s # p => pc'[s] = pc[s] /\ mine'[s] = mine[s]
    BY <1>6 DEF CheckBase, SendPatch, Conflict, End
  <2>2. PICK b \in Revisions \cup {None} :
          \/ SendPatch(p, b) /\ UNCHANGED <<bound, entry, mine, queue>>
          \/ Conflict(p)
    BY <1>6 DEF CheckBase
  <2>3. CASE SendPatch(p, b) /\ UNCHANGED <<bound, entry, mine, queue>>
    BY <1>6, <2>1, <2>3 DEF CheckBase, SendPatch, Targets
  <2>4. CASE Conflict(p)
    BY <1>6, <2>1, <2>4 DEF CheckBase, Conflict, End, Targets
  <2> QED
    BY <2>2, <2>3, <2>4
<1>7. ASSUME NEW p \in Pushes, FinishPush(p) PROVE Targets'
  BY <1>7 DEF FinishPush, Upsert, End, Leave, remoteVars, Targets
<1>8. ASSUME NEW t \in Requests, FinishTest(t) PROVE Targets'
  <2>1. \A p \in Pushes : pc'[p] = pc[p] /\ mine'[p] = mine[p]
    BY <1>8 DEF FinishTest, End
  <2> QED
    BY <1>8, <2>1 DEF FinishTest, remoteVars, Targets
<1>9. ASSUME NEW r \in Requests, UpstreamFails(r) PROVE Targets'
  BY <1>9 DEF UpstreamFails, End, Leave, historyVars, Targets
<1>10. ASSUME NEW p \in Pushes, Lands(p) PROVE Targets'
  BY <1>10 DEF Lands, historyVars, Targets
<1>11. ASSUME NEW e \in Edits, Edit(e) PROVE Targets'
  BY <1>11 DEF Edit, historyVars, Targets
<1>12. CASE Crash
  BY <1>12 DEF Crash, historyVars, Targets
<1>13. CASE UNCHANGED vars
  BY <1>13 DEF vars, Targets
<1> QED
  BY <1>1, <1>2, <1>3, <1>4, <1>5, <1>6, <1>7, <1>8, <1>9, <1>10, <1>11,
     <1>12, <1>13 DEF Next, Continue, CheckBase

LEMMA SendingStep ==
  ASSUME ObjectInv, Targets, Sending, LateEffects = FALSE, [Next]_vars
  PROVE  Sending'
<1>0. /\ pc \in [Requests -> {"idle", "queued", "get", "patch", "create", "over"}]
      /\ base \in [Pushes -> Revisions \cup {None}]
      /\ target \in [Pushes -> Gists \cup {None}]
      /\ sent \subseteq Pushes /\ landed \subseteq Pushes /\ accepted \subseteq Pushes
      /\ \A r \in Requests : pc[r] \in {"patch", "create"} => r \in Pushes
      /\ \A p \in sent : pc[p] \in {"patch", "create"} /\ target[p] # None
  BY DEF ObjectInv, TypeOK, Objects, Targets
<1> USE <1>0, GistAssumption DEF Requests
<1>1. ASSUME NEW c \in Configs, Configure(c) PROVE Sending'
  BY <1>1 DEF Configure, Upsert, remoteVars, Sending
<1>2. CASE Disconnect
  BY <1>2 DEF Disconnect, remoteVars, Sending
<1>3. ASSUME NEW r \in Requests, Ask(r) PROVE Sending'
  BY <1>3 DEF Ask, remoteVars, historyVars, Sending
<1>4. ASSUME NEW r \in Requests, Enter(r) PROVE Sending'
  BY <1>4 DEF Enter, Go, End, Leave, historyVars, Sending
<1>5. ASSUME NEW r \in Requests, FinishPull(r) PROVE Sending'
  BY <1>5 DEF FinishPull, Upsert, End, Leave, remoteVars, historyVars,
     Sending
<1>6. ASSUME NEW p \in Pushes, CheckBase(p) PROVE Sending'
  BY <1>6 DEF CheckBase, SendPatch, Conflict, End, Leave, historyVars,
     Sending
<1>7. ASSUME NEW p \in Pushes, FinishPush(p) PROVE Sending'
  BY <1>7 DEF FinishPush, Upsert, End, Leave, remoteVars, Sending
<1>8. ASSUME NEW t \in Requests, FinishTest(t) PROVE Sending'
  BY <1>8 DEF FinishTest, End, remoteVars, historyVars, Sending
<1>9. ASSUME NEW r \in Requests, UpstreamFails(r) PROVE Sending'
  BY <1>9 DEF UpstreamFails, End, Leave, historyVars, Sending
<1>10. ASSUME NEW p \in Pushes, Lands(p) PROVE Sending'
  BY <1>10 DEF Lands, historyVars, Sending
<1>11. ASSUME NEW e \in Edits, Edit(e) PROVE Sending'
  BY <1>11 DEF Edit, historyVars, Sending
<1>12. CASE Crash
  BY <1>12 DEF Crash, historyVars, Sending
<1>13. CASE UNCHANGED vars
  BY <1>13 DEF vars, Sending
<1> QED
  BY <1>1, <1>2, <1>3, <1>4, <1>5, <1>6, <1>7, <1>8, <1>9, <1>10, <1>11,
     <1>12, <1>13 DEF Next, Continue, CheckBase

LEMMA ProviderStep ==
  ASSUME ObjectInv, Targets, Sending, Provider, LateEffects = FALSE, [Next]_vars
  PROVE  Provider'
<1>0. /\ pc \in [Requests -> {"idle", "queued", "get", "patch", "create", "over"}]
      /\ target \in [Pushes -> Gists \cup {None}]
      /\ entry \in [Configs -> Entry]
      /\ remote \in [Gists -> Revisions \cup {None}]
      /\ sent \subseteq Pushes /\ landed \subseteq Pushes
      /\ \A p \in landed : target[p] \in Gists
      /\ bound \in Configs \cup {None}
      /\ \A r \in Requests : pc[r] \in {"queued", "get", "patch", "create"} => mine[r] # None
      /\ \A r \in Requests : pc[r] \in {"patch", "create"} => r \in Pushes
  BY DEF ObjectInv, TypeOK, Objects, Sending
<1> USE <1>0, GistAssumption DEF Requests
<1>1. ASSUME NEW c \in Configs, Configure(c) PROVE Provider'
  <2> DEFINE existing == IF bound = None THEN NewEntry ELSE entry[bound]
  <2>1. existing \in Entry
    BY DEF ObjectInv, TypeOK, NewEntry, Entry
  <2>2. existing.gist # None => remote[existing.gist] # None
    BY DEF Provider, NewEntry
  <2> HIDE DEF existing
  <2>3. PICK usable \in BOOLEAN, g \in {existing.gist, Gist, None} :
          entry' = [entry EXCEPT ![c] = [existing EXCEPT !.usable = usable, !.gist = g]]
    BY <1>1 DEF Configure, Upsert, existing
  <2>4. g \in Gists \cup {None}
    BY <2>1, EntryFields DEF Gists
  <2>5. [existing EXCEPT !.usable = usable, !.gist = g].gist = g
    BY <2>1, <2>4, EntryUpdates
  <2>6. g # None => remote[g] # None
    BY <2>2 DEF Provider
  <2>7. \A d \in Configs : entry'[d].gist # None => remote[entry'[d].gist] # None
    BY <2>3, <2>5, <2>6 DEF Provider
  <2> QED
    BY <1>1, <2>7 DEF Configure, remoteVars, Provider
<1>2. CASE Disconnect
  BY <1>2 DEF Disconnect, remoteVars, Provider
<1>3. ASSUME NEW r \in Requests, Ask(r) PROVE Provider'
  BY <1>3 DEF Ask, remoteVars, historyVars, Provider
<1>4. ASSUME NEW r \in Requests, Enter(r) PROVE Provider'
  <2>1. \A s \in Pushes : pc'[s] = "patch" => pc[s] = "patch" /\ s # r
    BY <1>4 DEF Enter, Go, End
  <2>2. \/ sent' = sent /\ target' = target
        \/ r \in Pushes /\ sent' = sent \cup {r} /\ target' = [target EXCEPT ![r] = r]
    BY <1>4 DEF Enter
  <2>3. entry' = entry /\ remote' = remote /\ landed' = landed /\ edited' = edited
    BY <1>4 DEF Enter
  <2>4. r \in Pushes => r \notin landed /\ r \notin sent
    BY <1>4 DEF Enter, Sending, Targets
  <2> QED
    BY <2>1, <2>2, <2>3, <2>4 DEF Provider
<1>5. ASSUME NEW r \in Requests, FinishPull(r) PROVE Provider'
  <2>1. mine[r] \in Configs /\ entry[mine[r]] \in Entry /\ Got(r) \in Revisions \cup {None}
    BY <1>5, HeldType, GotType DEF FinishPull
  <2>2. \A c \in Configs : entry'[c].gist = entry[c].gist
    <3>1. [entry[mine[r]] EXCEPT !.lastRevision = Got(r)].gist = entry[mine[r]].gist
      BY <2>1, EntryUpdates
    <3>2. \/ entry' = entry
          \/ entry' = [entry EXCEPT ![mine[r]] = [entry[mine[r]] EXCEPT !.lastRevision = Got(r)]]
      BY <1>5 DEF FinishPull, Upsert
    <3> QED
      BY <3>1, <3>2
  <2>3. pc' = [pc EXCEPT ![r] = "over"]
    BY <1>5 DEF FinishPull, End
  <2> QED
    BY <1>5, <2>2, <2>3 DEF FinishPull, remoteVars, Provider
<1>6. ASSUME NEW p \in Pushes, CheckBase(p) PROVE Provider'
  <2>1. PICK b \in Revisions \cup {None} :
          \/ SendPatch(p, b) /\ UNCHANGED <<bound, entry, mine, queue>>
          \/ Conflict(p)
    BY <1>6 DEF CheckBase
  <2>2. entry' = entry /\ remote' = remote /\ landed' = landed /\ edited' = edited
    BY <1>6 DEF CheckBase, SendPatch, Conflict
  <2>3. CASE SendPatch(p, b)
    <3>1. mine[p] \in Configs /\ entry[mine[p]].gist \in Gists
      BY <1>6, HeldType, EntryFields DEF CheckBase, Targets
    <3>2. remote[entry[mine[p]].gist] # None
      BY <3>1 DEF Provider
    <3>3. p \notin landed /\ entry[mine[p]].gist # p
      BY <1>6, <3>2 DEF CheckBase, Sending, Provider
    <3> QED
      BY <2>2, <2>3, <3>1, <3>2, <3>3 DEF SendPatch, Provider
  <2>4. CASE Conflict(p)
    BY <2>2, <2>4 DEF Conflict, End, Provider
  <2> QED
    BY <2>1, <2>3, <2>4
<1>7. ASSUME NEW p \in Pushes, FinishPush(p) PROVE Provider'
  <2>1. p \in landed /\ mine[p] \in Configs /\ entry[mine[p]] \in Entry /\ p \in Revisions
    BY <1>7, HeldType DEF FinishPush, Sending, Revisions
  <2>2. entry' = [entry EXCEPT ![mine[p]] =
                    [entry[mine[p]] EXCEPT !.gist = target[p], !.lastRevision = p]]
    BY <1>7 DEF FinishPush, Upsert
  <2>3. [entry[mine[p]] EXCEPT !.gist = target[p], !.lastRevision = p].gist = target[p]
    BY <2>1, EntryUpdates
  <2>4. \A c \in Configs : entry'[c].gist # None => remote[entry'[c].gist] # None
    BY <2>1, <2>2, <2>3 DEF Provider
  <2>5. pc' = [pc EXCEPT ![p] = "over"]
    BY <1>7 DEF FinishPush, End
  <2> QED
    BY <1>7, <2>4, <2>5 DEF FinishPush, remoteVars, Provider
<1>8. ASSUME NEW t \in Requests, FinishTest(t) PROVE Provider'
  BY <1>8 DEF FinishTest, End, remoteVars, historyVars, Provider
<1>9. ASSUME NEW r \in Requests, UpstreamFails(r) PROVE Provider'
  BY <1>9 DEF UpstreamFails, End, Leave, historyVars, Provider
<1>10. ASSUME NEW p \in Pushes, Lands(p) PROVE Provider'
  <2>1. target[p] \in Gists /\ p # None
    BY <1>10 DEF Lands, Targets, Revisions
  <2>2. remote' = [remote EXCEPT ![target[p]] = p] /\ landed' = landed \cup {p}
        /\ sent' = sent \ {p} /\ edited' = edited
        /\ UNCHANGED <<entry, target, pc>>
    BY <1>10 DEF Lands
  <2>3. \A g \in Gists : remote'[g] = IF g = target[p] THEN p ELSE remote[g]
    BY <2>1, <2>2
  <2>4. \A q \in Pushes : remote'[q] # None => q \in landed'
    BY <1>10, <2>2, <2>3 DEF Lands, Provider, Gists
  <2>5. \A q \in landed' : remote'[target[q]] # None
    BY <1>10, <2>1, <2>2, <2>3 DEF Provider, Lands, Targets
  <2>6. \A c \in Configs : entry[c].gist # None => remote'[entry[c].gist] # None
    BY <2>1, <2>3, EntryFields DEF Provider
  <2>7. \A q \in sent' : target[q] = q \/ remote'[target[q]] # None
    BY <2>1, <2>2, <2>3 DEF Provider, Targets
  <2> QED
    BY <2>1, <2>2, <2>3, <2>4, <2>5, <2>6, <2>7 DEF Provider, Gists
<1>11. ASSUME NEW e \in Edits, Edit(e) PROVE Provider'
  <2>1. PICK g \in Gists : remote[g] # None /\ remote' = [remote EXCEPT ![g] = e]
    BY <1>11 DEF Edit
  <2>2. e # None
    BY DEF Revisions
  <2>3. \A h \in Gists : remote'[h] = IF h = g THEN e ELSE remote[h]
    BY <2>1
  <2>4. \A h \in Gists : remote[h] # None => remote'[h] # None
    BY <2>2, <2>3
  <2>5. \A c \in Configs : entry[c].gist # None => remote'[entry[c].gist] # None
    BY <2>4, EntryFields DEF Provider
  <2>6. /\ \A p \in landed : remote'[target[p]] # None
        /\ \A p \in sent : target[p] = p \/ remote'[target[p]] # None
    BY <2>1, <2>2, <2>3, <2>4 DEF Provider, Targets
  <2>7. \A p \in Pushes : remote'[p] # None => p \in landed
    BY <2>1, <2>3 DEF Provider, Gists
  <2>8. \A h \in Gists : remote'[h] \in landed \cup edited' \cup {Original, None}
    BY <1>11, <2>3 DEF Edit, Provider
  <2> QED
    BY <1>11, <2>1, <2>2, <2>3, <2>5, <2>6, <2>7, <2>8 DEF Edit, historyVars, Provider, Gists
<1>12. CASE Crash
  BY <1>12 DEF Crash, historyVars, Provider
<1>13. CASE UNCHANGED vars
  BY <1>13 DEF vars, Provider
<1> QED
  BY <1>1, <1>2, <1>3, <1>4, <1>5, <1>6, <1>7, <1>8, <1>9, <1>10, <1>11,
     <1>12, <1>13 DEF Next, Continue, CheckBase

LEMMA BasesStep ==
  ASSUME ObjectInv, Section, Targets, Sending, Provider, Bases, LateEffects = FALSE, [Next]_vars
  PROVE  Bases'
<1>0. /\ pc \in [Requests -> {"idle", "queued", "get", "patch", "create", "over"}]
      /\ target \in [Pushes -> Gists \cup {None}]
      /\ base \in [Pushes -> Revisions \cup {None}]
      /\ entry \in [Configs -> Entry]
      /\ remote \in [Gists -> Revisions \cup {None}]
      /\ sent \subseteq Pushes /\ landed \subseteq Pushes /\ edited \subseteq Edits
      /\ \A p \in landed : target[p] \in Gists
      /\ bound \in Configs \cup {None}
      /\ \A r \in Requests : pc[r] \in {"queued", "get", "patch", "create"} => mine[r] # None
      /\ \A r \in Requests : pc[r] \in {"patch", "create"} => r \in Pushes
  BY DEF ObjectInv, TypeOK, Objects, Sending
<1> USE <1>0, GistAssumption DEF Requests
<1>1. ASSUME NEW c \in Configs, Configure(c) PROVE Bases'
  BY <1>1 DEF Configure, Upsert, remoteVars, Bases, ExactlyOneWinner
<1>2. CASE Disconnect
  BY <1>2 DEF Disconnect, remoteVars, Bases, ExactlyOneWinner
<1>3. ASSUME NEW r \in Requests, Ask(r) PROVE Bases'
  BY <1>3 DEF Ask, remoteVars, historyVars, Bases, ExactlyOneWinner
<1>4. ASSUME NEW r \in Requests, Enter(r) PROVE Bases'
  <2>1. \/ sent' = sent /\ target' = target
        \/ r \in Pushes /\ sent' = sent \cup {r} /\ target' = [target EXCEPT ![r] = r]
    BY <1>4 DEF Enter
  <2>2. remote' = remote /\ landed' = landed /\ edited' = edited /\ base' = base
    BY <1>4 DEF Enter
  <2>3. r \in Pushes => r \notin landed /\ r \notin sent
    BY <1>4 DEF Enter, Sending, Targets
  <2> QED
    BY <2>1, <2>2, <2>3 DEF Bases, ExactlyOneWinner
<1>5. ASSUME NEW r \in Requests, FinishPull(r) PROVE Bases'
  BY <1>5 DEF FinishPull, Upsert, End, Leave, remoteVars, historyVars,
     Bases, ExactlyOneWinner
<1>6. ASSUME NEW p \in Pushes, CheckBase(p) PROVE Bases'
  <2>1. PICK b \in Revisions \cup {None} :
          \/ b = Got(p) /\ SendPatch(p, b) /\ UNCHANGED <<bound, entry, mine, queue>>
          \/ Conflict(p) /\ UNCHANGED base
    BY <1>6 DEF CheckBase, Conflict
  <2>2. remote' = remote /\ landed' = landed /\ edited' = edited
    BY <1>6 DEF CheckBase
  <2>3. CASE b = Got(p) /\ SendPatch(p, b)
    <3> DEFINE g == entry[mine[p]].gist
    <3>1. g \in Gists
      BY <1>6, HeldType, EntryFields DEF CheckBase, Targets
    <3>2. b = remote[g] /\ remote[g] # None
      BY <2>3, <3>1, HeldType, <1>6 DEF Got, Provider, CheckBase
    <3>3. b \in landed \cup edited \cup {Original}
      BY <3>1, <3>2 DEF Provider
    <3>4. p \notin landed /\ p \notin sent
      BY <1>6 DEF CheckBase, Sending, Targets
    <3>5. base' = [base EXCEPT ![p] = b] /\ target' = [target EXCEPT ![p] = g] /\ sent' = sent \cup {p}
      BY <2>3 DEF SendPatch
    <3> HIDE DEF g
    <3>6. \A q \in Pushes : q # p => base'[q] = base[q] /\ target'[q] = target[q]
      BY <3>5
    <3>7. base'[p] = b /\ target'[p] = g
      BY <3>1, <3>5
    <3>8. \A q \in landed : base'[q] = base[q] /\ target'[q] = target[q]
      BY <3>4, <3>6
    <3>9. \A q \in landed : (target[q] = g /\ target[q] # q) => base[q] # b
      BY <3>2 DEF Bases
    <3>10. sent' = {p}
      BY <1>6, <3>5 DEF CheckBase, Section, Targets
    <3>11. ExactlyOneWinner'
      BY <2>2, <3>8 DEF Bases, ExactlyOneWinner
    <3>12. \A q \in landed : target'[q] # q => base'[q] \in landed \cup edited \cup {Original}
                                              /\ remote[target'[q]] # base'[q]
      BY <3>8 DEF Bases
    <3> QED
      BY <2>2, <3>2, <3>3, <3>7, <3>8, <3>9, <3>10, <3>11, <3>12 DEF Bases
  <2>4. CASE Conflict(p) /\ UNCHANGED base
    BY <2>2, <2>4 DEF Conflict, Bases, ExactlyOneWinner
  <2> QED
    BY <2>1, <2>3, <2>4
<1>7. ASSUME NEW p \in Pushes, FinishPush(p) PROVE Bases'
  BY <1>7 DEF FinishPush, Upsert, End, Leave, remoteVars, Bases,
     ExactlyOneWinner
<1>8. ASSUME NEW t \in Requests, FinishTest(t) PROVE Bases'
  BY <1>8 DEF FinishTest, End, remoteVars, historyVars, Bases,
     ExactlyOneWinner
<1>9. ASSUME NEW r \in Requests, UpstreamFails(r) PROVE Bases'
  BY <1>9 DEF UpstreamFails, End, Leave, historyVars, Bases,
     ExactlyOneWinner
<1>10. ASSUME NEW p \in Pushes, Lands(p) PROVE Bases'
  <2>1. /\ remote' = [remote EXCEPT ![target[p]] = p] /\ landed' = landed \cup {p}
        /\ sent' = sent \ {p} /\ UNCHANGED <<base, target, edited>>
    BY <1>10 DEF Lands
  <2>2. target[p] \in Gists
    BY <1>10 DEF Lands, Targets
  <2>3. \A g \in Gists : remote'[g] = IF g = target[p] THEN p ELSE remote[g]
    BY <2>1, <2>2
  <2>4. sent' = {}
    BY <2>1, <1>10 DEF Lands, Section, Targets
  <2>5. p \notin landed /\ p \notin edited /\ p # Original /\ p \in sent
    BY <1>10 DEF Lands, Sending, ObjectInv, TypeOK
  <2>6. \A q \in landed' : target[q] # q => base[q] \in landed \cup edited \cup {Original}
    BY <2>1, <2>5 DEF Bases
  <2>7. \A q \in landed' : target[q] # q => remote'[target[q]] # base[q]
    <3> SUFFICES ASSUME NEW q \in landed', target[q] # q PROVE remote'[target[q]] # base[q]
      OBVIOUS
    <3>1. base[q] # p
      BY <2>5, <2>6
    <3>2. CASE target[q] = target[p]
      BY <2>2, <2>3, <3>1, <3>2
    <3>3. CASE target[q] # target[p]
      BY <2>1, <2>3, <3>3 DEF Bases
    <3> QED
      BY <3>2, <3>3
  <2>8. \A q \in landed : (target[q] = target[p] /\ target[q] # q /\ target[p] # p) => base[q] # base[p]
    BY <2>5 DEF Bases
  <2>9. ExactlyOneWinner'
    BY <2>1, <2>8 DEF Bases, ExactlyOneWinner
  <2> QED
    BY <2>1, <2>4, <2>6, <2>7, <2>9 DEF Bases
<1>11. ASSUME NEW e \in Edits, Edit(e) PROVE Bases'
  <2>1. PICK g \in Gists : remote[g] # None /\ remote' = [remote EXCEPT ![g] = e]
    BY <1>11 DEF Edit
  <2>2. edited' = edited \cup {e} /\ e \notin edited /\ UNCHANGED <<base, target, sent, landed>>
    BY <1>11 DEF Edit
  <2>3. \A h \in Gists : remote'[h] = IF h = g THEN e ELSE remote[h]
    BY <2>1
  <2>4. e \notin landed /\ e # Original
    OBVIOUS
  <2>5. \A q \in landed : target[q] # q => remote'[target[q]] # base[q]
    BY <2>2, <2>3, <2>4 DEF Bases
  <2>6. \A q \in sent : target[q] # q => remote'[target[q]] \in edited' \cup {base[q]}
    BY <2>2, <2>3 DEF Bases, Targets
  <2>7. ExactlyOneWinner'
    BY <2>2 DEF Bases, ExactlyOneWinner
  <2> QED
    BY <2>2, <2>5, <2>6, <2>7 DEF Bases
<1>12. CASE Crash
  BY <1>12 DEF Crash, historyVars, Bases, ExactlyOneWinner
<1>13. CASE UNCHANGED vars
  BY <1>13 DEF vars, Bases, ExactlyOneWinner
<1> QED
  BY <1>1, <1>2, <1>3, <1>4, <1>5, <1>6, <1>7, <1>8, <1>9, <1>10, <1>11,
     <1>12, <1>13 DEF Next, Continue, CheckBase

LEMMA TrackedStep ==
  ASSUME ObjectInv, Sending, Provider, Tracked, [Next]_vars
  PROVE  Tracked'
<1>0. /\ pc \in [Requests -> {"idle", "queued", "get", "patch", "create", "over"}]
      /\ target \in [Pushes -> Gists \cup {None}]
      /\ base \in [Pushes -> Revisions \cup {None}]
      /\ entry \in [Configs -> Entry]
      /\ remote \in [Gists -> Revisions \cup {None}]
      /\ sent \subseteq Pushes /\ landed \subseteq Pushes /\ edited \subseteq Edits
      /\ \A p \in landed : target[p] \in Gists
      /\ bound \in Configs \cup {None}
      /\ \A r \in Requests : pc[r] \in {"queued", "get", "patch", "create"} => mine[r] # None
      /\ \A r \in Requests : pc[r] \in {"patch", "create"} => r \in Pushes
  BY DEF ObjectInv, TypeOK, Objects, Sending
<1> USE <1>0, GistAssumption DEF Requests
<1>1. ASSUME NEW c \in Configs, Configure(c) PROVE Tracked'
  <2> DEFINE existing == IF bound = None THEN NewEntry ELSE entry[bound]
  <2>1. existing \in Entry
    BY DEF ObjectInv, TypeOK, NewEntry, Entry
  <2>2. existing.lastRevision \in landed \cup edited \cup {Original, None}
    BY DEF Tracked, NewEntry
  <2> HIDE DEF existing
  <2>3. PICK usable \in BOOLEAN, g \in {existing.gist, Gist, None} :
          entry' = [entry EXCEPT ![c] = [existing EXCEPT !.usable = usable, !.gist = g]]
    BY <1>1 DEF Configure, Upsert, existing
  <2>4. g \in Gists \cup {None}
    BY <2>1, EntryFields DEF Gists
  <2>5. [existing EXCEPT !.usable = usable, !.gist = g].lastRevision = existing.lastRevision
    BY <2>1, <2>4, EntryUpdates
  <2> QED
    BY <1>1, <2>2, <2>3, <2>5 DEF Configure, remoteVars, Tracked
<1>2. CASE Disconnect
  BY <1>2 DEF Disconnect, remoteVars, Tracked
<1>3. ASSUME NEW r \in Requests, Ask(r) PROVE Tracked'
  BY <1>3 DEF Ask, remoteVars, historyVars, Tracked
<1>4. ASSUME NEW r \in Requests, Enter(r) PROVE Tracked'
  BY <1>4 DEF Enter, Go, End, Leave, historyVars, Tracked
<1>5. ASSUME NEW r \in Requests, FinishPull(r) PROVE Tracked'
  <2>1. mine[r] \in Configs /\ entry[mine[r]] \in Entry /\ Got(r) \in Revisions \cup {None}
    BY <1>5, HeldType, GotType DEF FinishPull
  <2>2. entry[mine[r]].gist \in Gists
    BY <1>5, <2>1, EntryFields DEF FinishPull
  <2>3. Got(r) \in landed \cup edited \cup {Original, None}
    BY <2>2 DEF Got, Provider
  <2>4. [entry[mine[r]] EXCEPT !.lastRevision = Got(r)].lastRevision = Got(r)
    BY <2>1, EntryUpdates
  <2>5. \/ entry' = entry
        \/ entry' = [entry EXCEPT ![mine[r]] = [entry[mine[r]] EXCEPT !.lastRevision = Got(r)]]
    BY <1>5 DEF FinishPull, Upsert
  <2> QED
    BY <1>5, <2>1, <2>3, <2>4, <2>5 DEF FinishPull, remoteVars, Tracked
<1>6. ASSUME NEW p \in Pushes, CheckBase(p) PROVE Tracked'
  BY <1>6 DEF CheckBase, SendPatch, Conflict, End, Leave, historyVars,
     Tracked
<1>7. ASSUME NEW p \in Pushes, FinishPush(p) PROVE Tracked'
  <2>1. p \in landed /\ mine[p] \in Configs /\ entry[mine[p]] \in Entry /\ p \in Revisions
    BY <1>7, HeldType DEF FinishPush, Sending, Revisions
  <2>2. entry' = [entry EXCEPT ![mine[p]] =
                    [entry[mine[p]] EXCEPT !.gist = target[p], !.lastRevision = p]]
    BY <1>7 DEF FinishPush, Upsert
  <2>3. [entry[mine[p]] EXCEPT !.gist = target[p], !.lastRevision = p].lastRevision = p
    BY <2>1, EntryUpdates
  <2> QED
    BY <1>7, <2>1, <2>2, <2>3 DEF FinishPush, remoteVars, Tracked
<1>8. ASSUME NEW t \in Requests, FinishTest(t) PROVE Tracked'
  BY <1>8 DEF FinishTest, End, remoteVars, historyVars, Tracked
<1>9. ASSUME NEW r \in Requests, UpstreamFails(r) PROVE Tracked'
  BY <1>9 DEF UpstreamFails, End, Leave, historyVars, Tracked
<1>10. ASSUME NEW p \in Pushes, Lands(p) PROVE Tracked'
  BY <1>10 DEF Lands, historyVars, Tracked
<1>11. ASSUME NEW e \in Edits, Edit(e) PROVE Tracked'
  BY <1>11 DEF Edit, historyVars, Tracked
<1>12. CASE Crash
  BY <1>12 DEF Crash, historyVars, Tracked
<1>13. CASE UNCHANGED vars
  BY <1>13 DEF vars, Tracked
<1> QED
  BY <1>1, <1>2, <1>3, <1>4, <1>5, <1>6, <1>7, <1>8, <1>9, <1>10, <1>11,
     <1>12, <1>13 DEF Next, Continue, CheckBase

LEMMA BootstrapStep ==
  ASSUME ObjectInv, Section, Targets, Sending, Provider, Bootstrap, [Next]_vars
  PROVE  Bootstrap'
<1>0. /\ pc \in [Requests -> {"idle", "queued", "get", "patch", "create", "over"}]
      /\ target \in [Pushes -> Gists \cup {None}]
      /\ entry \in [Configs -> Entry]
      /\ accepted \subseteq Pushes /\ landed \subseteq Pushes /\ configured \subseteq Configs
      /\ bound \in configured \cup {None}
      /\ \A r \in Requests : pc[r] \in {"queued", "get", "patch", "create"} =>
           mine[r] # None /\ mine[r] \in configured
      /\ \A r \in Requests : pc[r] \in {"patch", "create"} => r \in Pushes
      /\ unbound \in BOOLEAN
  BY DEF ObjectInv, TypeOK, Objects
<1> USE <1>0, GistAssumption DEF Requests
<1>1. ASSUME NEW c \in Configs, Configure(c) PROVE Bootstrap'
  <2> DEFINE existing == IF bound = None THEN NewEntry ELSE entry[bound]
  <2>1. existing \in Entry
    BY DEF ObjectInv, TypeOK, NewEntry, Entry
  <2>2. (bound # None) => (existing = entry[bound])
    OBVIOUS
  <2> HIDE DEF existing
  <2>3. PICK usable \in BOOLEAN, g \in {existing.gist, Gist, None} :
          /\ entry' = [entry EXCEPT ![c] = [existing EXCEPT !.usable = usable, !.gist = g]]
          /\ bound' = c
          /\ unbound' = (unbound \/ (existing.gist # None /\ g = None))
    BY <1>1 DEF Configure, Upsert, existing
  <2>4. g \in Gists \cup {None}
    BY <2>1, EntryFields DEF Gists
  <2>5. entry'[c].gist = g
    BY <2>1, <2>3, <2>4, EntryUpdates
  <2>6. UNCHANGED <<pc, target, accepted>>
    BY <1>1 DEF Configure
  <2>7. ASSUME ~unbound' PROVE \A p \in accepted : target[p] = p => g # None
    BY <2>2, <2>3, <2>7 DEF Bootstrap
  <2> QED
    BY <2>3, <2>5, <2>6, <2>7 DEF Bootstrap, BootstrapOnce
<1>2. CASE Disconnect
  BY <1>2 DEF Disconnect, remoteVars, Bootstrap, BootstrapOnce
<1>3. ASSUME NEW r \in Requests, Ask(r) PROVE Bootstrap'
  BY <1>3 DEF Ask, remoteVars, historyVars, Bootstrap, BootstrapOnce
<1>4. ASSUME NEW r \in Requests, Enter(r) PROVE Bootstrap'
  <2>1. UNCHANGED <<bound, entry, accepted, unbound, configured>>
    BY <1>4 DEF Enter, Go, End, historyVars
  <2>2. mine[r] \in configured /\ mine[r] # None
    BY <1>4 DEF Enter
  <2>3. \A p \in Pushes : pc'[p] = "create" => pc[p] = "create" \/ p = r
    BY <1>4 DEF Enter, Go, End
  <2>4. r \in Pushes => r \notin accepted
    BY <1>4 DEF Enter, Sending
  <2>5. \A p \in accepted : target'[p] = target[p]
    BY <1>4, <2>4 DEF Enter
  <2>6. ASSUME ~unbound, NEW p \in accepted, target[p] = p, r \in Pushes PROVE pc'[r] # "create"
    <3>1. bound # None
      BY <2>2, <2>6 DEF Bootstrap
    <3>2. entry[Fresh(r)].gist # None
      BY <2>6, <3>1 DEF Bootstrap, Fresh
    <3> QED
      BY <1>4, <2>6, <3>2 DEF Enter, Go, End
  <2> QED
    BY <2>1, <2>3, <2>5, <2>6 DEF Bootstrap, BootstrapOnce
<1>5. ASSUME NEW r \in Requests, FinishPull(r) PROVE Bootstrap'
  <2>1. mine[r] \in Configs /\ entry[mine[r]] \in Entry /\ Got(r) \in Revisions \cup {None}
    BY <1>5, HeldType, GotType DEF FinishPull
  <2>2. [entry[mine[r]] EXCEPT !.lastRevision = Got(r)].gist = entry[mine[r]].gist
    BY <2>1, EntryUpdates
  <2>3. \/ entry' = entry /\ bound' = bound
        \/ /\ entry' = [entry EXCEPT ![mine[r]] = [entry[mine[r]] EXCEPT !.lastRevision = Got(r)]]
           /\ bound' = mine[r]
    BY <1>5 DEF FinishPull, Upsert
  <2>4. UNCHANGED <<target, accepted, unbound, configured>> /\ pc' = [pc EXCEPT ![r] = "over"]
        /\ entry[mine[r]].gist # None /\ mine[r] # None
    BY <1>5, <2>1 DEF FinishPull, End, historyVars
  <2>5. \A q \in Pushes : pc'[q] = "create" => pc[q] = "create"
    BY <2>4
  <2>6. \A c \in Configs : entry'[c].gist = entry[c].gist
    BY <2>1, <2>2, <2>3
  <2>7. (bound # None => bound' # None) /\ (bound' = bound \/ entry'[bound'].gist # None)
    BY <2>1, <2>3, <2>4, <2>6
  <2>8. ASSUME ~unbound PROVE \A p \in accepted : target[p] = p => entry'[bound'].gist # None
    BY <2>6, <2>7, <2>8 DEF Bootstrap
  <2> QED
    BY <2>4, <2>5, <2>7, <2>8 DEF Bootstrap, BootstrapOnce
<1>6. ASSUME NEW p \in Pushes, CheckBase(p) PROVE Bootstrap'
  <2>1. UNCHANGED <<bound, entry, accepted, unbound, configured>>
    BY <1>6 DEF CheckBase, SendPatch, Conflict, historyVars
  <2>2. \A q \in Pushes : pc'[q] = "create" => pc[q] = "create"
    BY <1>6 DEF CheckBase, SendPatch, Conflict, End
  <2>3. p \notin accepted
    BY <1>6 DEF CheckBase, Sending
  <2>4. \A q \in accepted : target'[q] = target[q]
    BY <1>6, <2>3 DEF CheckBase, SendPatch, Conflict
  <2> QED
    BY <2>1, <2>2, <2>4 DEF Bootstrap, BootstrapOnce
<1>7. ASSUME NEW p \in Pushes, FinishPush(p) PROVE Bootstrap'
  <2>1. /\ p \in landed /\ mine[p] \in Configs /\ entry[mine[p]] \in Entry /\ p \in Revisions
        /\ mine[p] # None
    BY <1>7, HeldType DEF FinishPush, Sending, Revisions
  <2>2. entry' = [entry EXCEPT ![mine[p]] =
                    [entry[mine[p]] EXCEPT !.gist = target[p], !.lastRevision = p]]
        /\ bound' = mine[p]
    BY <1>7 DEF FinishPush, Upsert
  <2>3. entry'[bound'].gist = target[p]
    BY <2>1, <2>2, EntryUpdates
  <2>4. target[p] # None
    BY <1>7 DEF FinishPush, Targets
  <2>5. UNCHANGED <<target, unbound, configured>> /\ accepted' = accepted \cup {p}
        /\ pc' = [pc EXCEPT ![p] = "over"]
    BY <1>7 DEF FinishPush, End, remoteVars
  <2>6. target[p] = p => pc[p] = "create"
    BY <1>7 DEF FinishPush, Provider
  <2>7. \A q \in Pushes : pc'[q] # "create"
    BY <1>7, <2>5 DEF FinishPush, Section
  <2>8. ~unbound => BootstrapOnce'
    BY <2>5, <2>6 DEF Bootstrap, BootstrapOnce
  <2> QED
    BY <2>1, <2>2, <2>3, <2>4, <2>5, <2>7, <2>8 DEF Bootstrap
<1>8. ASSUME NEW t \in Requests, FinishTest(t) PROVE Bootstrap'
  <2>1. UNCHANGED <<entry, target, accepted, unbound, configured>>
    BY <1>8 DEF FinishTest, historyVars
  <2>2. \A q \in Pushes : pc'[q] = "create" => pc[q] = "create"
    BY <1>8 DEF FinishTest, End
  <2>3. ~unbound => bound' = bound /\ bound # None
    BY <1>8 DEF FinishTest, Fresh, Bootstrap
  <2> QED
    BY <2>1, <2>2, <2>3 DEF Bootstrap, BootstrapOnce
<1>9. ASSUME NEW r \in Requests, UpstreamFails(r) PROVE Bootstrap'
  BY <1>9 DEF UpstreamFails, End, Leave, historyVars, Bootstrap,
     BootstrapOnce
<1>10. ASSUME NEW p \in Pushes, Lands(p) PROVE Bootstrap'
  BY <1>10 DEF Lands, historyVars, Bootstrap, BootstrapOnce
<1>11. ASSUME NEW e \in Edits, Edit(e) PROVE Bootstrap'
  BY <1>11 DEF Edit, historyVars, Bootstrap, BootstrapOnce
<1>12. CASE Crash
  BY <1>12 DEF Crash, historyVars, Bootstrap, BootstrapOnce
<1>13. CASE UNCHANGED vars
  BY <1>13 DEF vars, Bootstrap, BootstrapOnce
<1> QED
  BY <1>1, <1>2, <1>3, <1>4, <1>5, <1>6, <1>7, <1>8, <1>9, <1>10, <1>11,
     <1>12, <1>13 DEF Next, Continue, CheckBase

-----------------------------------------------------------------------------
(* The theorems.                                                            *)

LEMMA SyncInit == Init => SyncInv
<1> SUFFICES ASSUME Init PROVE SyncInv
  OBVIOUS
<1>1. ObjectInv
  BY ObjectInit
<1>2. \A r \in Requests : pc[r] = "idle"
  BY DEF Init
<1>3. Section /\ Targets /\ Sending
  BY <1>2, PushesAsk DEF Init, Section, Targets, Sending, Requests
<1>4. Provider
  BY <1>2, PushesAsk, GistAssumption DEF Init, Provider, NewEntry, Gists, Revisions
<1>5. Bases /\ Tracked /\ Bootstrap
  BY <1>2, PushesAsk DEF Init, Bases, ExactlyOneWinner, Tracked, NewEntry, Bootstrap, BootstrapOnce
<1> QED
  BY <1>1, <1>3, <1>4, <1>5 DEF SyncInv

LEMMA SyncStep ==
  ASSUME LateEffects = FALSE, SyncInv, [Next]_vars
  PROVE  SyncInv'
<1>1. ObjectInv'
  BY ObjectStep DEF SyncInv
<1>2. Section' /\ Targets' /\ Sending'
  BY SectionStep, TargetsStep, SendingStep DEF SyncInv
<1>3. Provider' /\ Bases'
  BY ProviderStep, BasesStep DEF SyncInv
<1>4. Tracked' /\ Bootstrap'
  BY TrackedStep, BootstrapStep DEF SyncInv
<1> QED
  BY <1>1, <1>2, <1>3, <1>4 DEF SyncInv

LEMMA SyncAlways ==
  ASSUME LateEffects = FALSE
  PROVE  Spec => []SyncInv
<1>1. SyncInv /\ [Next]_vars => SyncInv'
  BY SyncStep
<1> QED
  BY <1>1, SyncInit, PTL DEF Spec

(* Every variable has its type, also when an abandoned call takes effect    *)
(* late.                                                                    *)
THEOREM GistTypes == Spec => []TypeOK
<1>1. ObjectInv => TypeOK
  BY DEF ObjectInv
<1> QED
  BY <1>1, ObjectInit, ObjectStep, PTL DEF Spec

(* Of any number of pushes built on one revision of a gist at most one      *)
(* takes effect: the section of _withTenantLock lies between the read that  *)
(* is compared with and the write.  Assumed: no call that was given up      *)
(* after 15 s takes effect later, which line 278 does not guarantee.        *)
THEOREM OnePushWins ==
  ASSUME LateEffects = FALSE
  PROVE  Spec => []ExactlyOneWinner
<1>1. SyncInv => ExactlyOneWinner
  BY DEF SyncInv, Bases
<1> QED
  BY <1>1, SyncAlways, PTL

(* However many devices push first, one gist is created for the tenant      *)
(* while the master leaves its binding alone; no call that was given up     *)
(* takes effect later.                                                      *)
THEOREM OneGistCreated ==
  ASSUME LateEffects = FALSE
  PROVE  Spec => []BootstrapOnce
<1>1. SyncInv => BootstrapOnce
  BY DEF SyncInv, Bootstrap, BootstrapOnce
<1> QED
  BY <1>1, SyncAlways, PTL

(* The stored binding tracks only what stood in a gist, whatever failed or  *)
(* died, if no call that was given up takes effect later.                   *)
THEOREM OnlyRealRevisionsTracked ==
  ASSUME LateEffects = FALSE
  PROVE  Spec => []TrackedRevisionStood
<1>1. SyncInv => TrackedRevisionStood
  <2> SUFFICES ASSUME SyncInv, bound # None
               PROVE  entry[bound].lastRevision \in landed \cup edited \cup {Original, None}
    BY DEF TrackedRevisionStood
  <2>1. bound \in Configs
    BY DEF SyncInv, ObjectInv, TypeOK
  <2> QED
    BY <2>1 DEF SyncInv, Tracked
<1> QED
  BY <1>1, SyncAlways, PTL

(* A step keeps what Dataset sees, or is one of its steps: the PATCH that is *)
(* sent names its base, the one that lands replaces that base.              *)
LEMMA DatasetStep ==
  ASSUME SyncInv, [Next]_vars
  PROVE  [Promise!Next]_(Promise!vars)
<1>0. /\ target \in [Pushes -> Gists \cup {None}]
      /\ base \in [Pushes -> Revisions \cup {None}]
      /\ entry \in [Configs -> Entry]
      /\ remote \in [Gists -> Revisions \cup {None}]
      /\ sent \subseteq Pushes /\ landed \subseteq Pushes /\ edited \subseteq Edits
      /\ Promise!Gists = Gists /\ Promise!Revisions = Revisions
  BY DEF SyncInv, ObjectInv, TypeOK, Promise!Gists, Gists, Promise!Revisions, Revisions
<1> USE <1>0 DEF Promise!vars
<1>1. ASSUME NEW c \in Configs, Configure(c) PROVE UNCHANGED Promise!vars
  BY <1>1 DEF Configure, remoteVars
<1>2. CASE Disconnect
  BY <1>2 DEF Disconnect, remoteVars
<1>3. ASSUME NEW r \in Requests, Ask(r) PROVE UNCHANGED Promise!vars
  BY <1>3 DEF Ask, remoteVars
<1>4. ASSUME NEW r \in Requests, Enter(r) PROVE UNCHANGED Promise!vars
  BY <1>4 DEF Enter
<1>5. ASSUME NEW r \in Requests, FinishPull(r) PROVE UNCHANGED Promise!vars
  BY <1>5 DEF FinishPull, remoteVars
<1>6. ASSUME NEW p \in Pushes, CheckBase(p) PROVE [Promise!Next]_(Promise!vars)
  <2>1. UNCHANGED <<remote, landed, edited>>
    BY <1>6 DEF CheckBase
  <2>2. PICK b \in Revisions \cup {None} :
          \/ b = Got(p) /\ SendPatch(p, b)
          \/ Conflict(p) /\ UNCHANGED base
    BY <1>6 DEF CheckBase, Conflict
  <2>3. CASE b = Got(p) /\ SendPatch(p, b)
    <3>1. entry[mine[p]].gist \in Gists /\ entry[mine[p]].gist # None /\ mine[p] \in Configs
      BY <1>6, PushesAsk, HeldType, EntryFields DEF CheckBase, SyncInv, ObjectInv, Objects, Targets
    <3>2. b \in Revisions
      BY <2>3, <3>1 DEF Got, SyncInv, Provider
    <3>3. base[p] = None /\ p \notin landed
      BY <1>6 DEF CheckBase, SyncInv, Sending
    <3>4. Promise!Build(p, b)
      BY <2>1, <2>3, <3>3 DEF SendPatch, Promise!Build
    <3> QED
      BY <3>2, <3>4 DEF Promise!Next
  <2>4. CASE Conflict(p) /\ UNCHANGED base
    BY <2>1, <2>4
  <2> QED
    BY <2>2, <2>3, <2>4
<1>7. ASSUME NEW p \in Pushes, FinishPush(p) PROVE UNCHANGED Promise!vars
  BY <1>7 DEF FinishPush, remoteVars
<1>8. ASSUME NEW t \in Requests, FinishTest(t) PROVE UNCHANGED Promise!vars
  BY <1>8 DEF FinishTest, remoteVars
<1>9. ASSUME NEW r \in Requests, UpstreamFails(r) PROVE UNCHANGED Promise!vars
  BY <1>9 DEF UpstreamFails
<1>10. ASSUME NEW p \in Pushes, Lands(p) PROVE Promise!Next
  <2>1. /\ remote' = [remote EXCEPT ![target[p]] = p] /\ landed' = landed \cup {p}
        /\ UNCHANGED <<base, edited>> /\ p \in sent
    BY <1>10 DEF Lands
  <2>2. target[p] \in Gists /\ p \notin landed
    BY <2>1 DEF SyncInv, Targets, Sending
  <2>3. target[p] = p => remote[p] = None
    BY <2>2 DEF SyncInv, Provider
  <2>4. target[p] # p => /\ remote[target[p]] # None
                         /\ remote[target[p]] \in Edits \cup {base[p]}
    BY <2>1 DEF SyncInv, Provider, Bases
  <2>5. Promise!Push(p, target[p])
    BY <2>1, <2>2, <2>3, <2>4 DEF Promise!Push
  <2> QED
    BY <2>2, <2>5 DEF Promise!Next
<1>11. ASSUME NEW e \in Edits, Edit(e) PROVE Promise!Next
  <2>1. PICK g \in Gists : remote[g] # None /\ remote' = [remote EXCEPT ![g] = e]
    BY <1>11 DEF Edit
  <2>2. Promise!Edit(e, g)
    BY <1>11, <2>1 DEF Edit, Promise!Edit
  <2> QED
    BY <2>2 DEF Promise!Next
<1>12. CASE Crash
  BY <1>12 DEF Crash
<1>13. CASE UNCHANGED vars
  BY <1>13 DEF vars
<1> QED
  BY <1>1, <1>2, <1>3, <1>4, <1>5, <1>6, <1>7, <1>8, <1>9, <1>10, <1>11, <1>12, <1>13
     DEF Next, Continue, CheckBase

(* Synchronisation does to the gists what Dataset allows: a push replaces   *)
(* the revision it was built on, or what somebody edited since, or creates  *)
(* a gist of its own.  This is so only as long as no call given up after    *)
(* 15 s lands later (LateEffects = FALSE): the service does not guarantee   *)
(* it (gistSync.service.js:278), and without it a push is overwritten.      *)
THEOREM SyncImplementsDataset ==
  ASSUME LateEffects = FALSE
  PROVE  Spec => ImplementsDataset
<1>1. Init => Promise!Init
  BY DEF Init, Promise!Init, Gists, Promise!Gists
<1>2. SyncInv /\ [Next]_vars => [Promise!Next]_(Promise!vars)
  BY DatasetStep
<1> QED
  BY <1>1, <1>2, SyncAlways, PTL DEF Spec, ImplementsDataset, Promise!Spec

-----------------------------------------------------------------------------
(* The lock is passed on.  Everybody who asked for it and is not yet over   *)
(* has one place in the chain, and only they have.                          *)

Open == {"queued", "get", "patch", "create"}

InLine(r) == \E i \in DOMAIN queue : queue[i] = r

Chain ==
  /\ \A i, j \in DOMAIN queue : queue[i] = queue[j] => i = j
  /\ \A r \in Pushes \cup Pulls : pc[r] \in Open <=> InLine(r)

(* Whoever waits for the lock waits for somebody who is alive: the first of *)
(* the chain is about to enter or inside, where its own steps take it out.  *)
LockIsPassedOn ==
  \A r \in Pushes \cup Pulls :
    pc[r] = "queued" => InLine(r) /\ pc[Head(queue)] \in Open

LEMMA Joins ==
  ASSUME Chain, queue \in Seq(Pushes \cup Pulls), NEW r \in Pushes \cup Pulls, ~InLine(r),
         queue' = Append(queue, r)
  PROVE  /\ \A i, j \in DOMAIN queue' : queue'[i] = queue'[j] => i = j
         /\ \A s \in Pushes \cup Pulls : InLine(s)' <=> s = r \/ InLine(s)
<1>1. /\ Len(queue) \in Nat
      /\ DOMAIN queue = 1..Len(queue) /\ DOMAIN queue' = 1..Len(queue) + 1
      /\ queue'[Len(queue) + 1] = r
      /\ \A i \in DOMAIN queue : queue'[i] = queue[i]
  OBVIOUS
<1>2. \A i \in DOMAIN queue' : i \in DOMAIN queue \/ i = Len(queue) + 1
  BY <1>1
<1> QED
  BY <1>1, <1>2 DEF Chain, InLine

LEMMA LeavesTheLine ==
  ASSUME Chain, queue \in Seq(Pushes \cup Pulls), NEW r \in Pushes \cup Pulls,
         queue # <<>>, Head(queue) = r, queue' = Tail(queue)
  PROVE  /\ \A i, j \in DOMAIN queue' : queue'[i] = queue'[j] => i = j
         /\ \A s \in Pushes \cup Pulls : InLine(s)' <=> s # r /\ InLine(s)
<1>1. /\ Len(queue) \in Nat \ {0}
      /\ DOMAIN queue = 1..Len(queue) /\ DOMAIN queue' = 1..Len(queue) - 1
      /\ queue[1] = r
      /\ \A i \in DOMAIN queue' : queue'[i] = queue[i + 1]
  OBVIOUS
<1>2. \A i \in DOMAIN queue : i = 1 \/ (i - 1 \in DOMAIN queue' /\ queue'[i - 1] = queue[i])
  BY <1>1
<1>3. \A i \in DOMAIN queue' : i + 1 \in DOMAIN queue /\ i + 1 # 1
  BY <1>1
<1>4. \A i, j \in DOMAIN queue' : queue'[i] = queue'[j] => i = j
  BY <1>1, <1>3 DEF Chain
<1>5. ASSUME NEW s \in Pushes \cup Pulls PROVE InLine(s)' <=> s # r /\ InLine(s)
  <2>1. ASSUME InLine(s)' PROVE s # r /\ InLine(s)
    <3>1. PICK i \in DOMAIN queue' : queue'[i] = s
      BY <2>1 DEF InLine
    <3>2. /\ i + 1 \in DOMAIN queue /\ i + 1 # 1 /\ queue[i + 1] = s
          /\ 1 \in DOMAIN queue
      BY <1>1, <1>3, <3>1
    <3> QED
      BY <1>1, <3>2 DEF Chain, InLine
  <2>2. ASSUME s # r, InLine(s) PROVE InLine(s)'
    <3>1. PICK i \in DOMAIN queue : queue[i] = s
      BY <2>2 DEF InLine
    <3> QED
      BY <1>1, <1>2, <2>2, <3>1 DEF InLine
  <2> QED
    BY <2>1, <2>2
<1> QED
  BY <1>4, <1>5

(* Whoever is over leaves: it was the first.                                *)
LEMMA OverLeaves ==
  ASSUME ObjectInv, Section, Chain, NEW r \in Pushes \cup Pulls, pc[r] \in Open,
         pc[r] = "queued" => queue # <<>> /\ Head(queue) = r,
         End(r), Leave(r)
  PROVE  Chain'
<1>1. queue # <<>> /\ Head(queue) = r /\ queue' = Tail(queue)
  BY DEF Section, Open, Leave
<1>2. queue \in Seq(Pushes \cup Pulls)
  BY DEF ObjectInv, TypeOK
<1>3. /\ pc'[r] = "over"
      /\ \A s \in Pushes \cup Pulls : s # r => pc'[s] = pc[s]
  BY EndType DEF Requests
<1> QED
  BY <1>1, <1>2, <1>3, LeavesTheLine DEF Chain, Open

(* A step that leaves everybody where it is, or moves one on inside.        *)
LEMMA StaysInLine ==
  ASSUME Chain, UNCHANGED queue,
         \A r \in Pushes \cup Pulls : pc'[r] = pc[r] \/ (pc[r] \in Open /\ pc'[r] \in Open)
  PROVE  Chain'
BY DEF Chain, InLine

LEMMA ChainStep ==
  ASSUME ObjectInv, Section, Chain, [Next]_vars
  PROVE  Chain'
<1>0. /\ pc \in [Requests -> {"idle", "queued", "get", "patch", "create", "over"}]
      /\ queue \in Seq(Pushes \cup Pulls)
      /\ Pushes \cup Pulls \subseteq Requests
      /\ \A t \in Tests : t \notin Pushes \cup Pulls
  BY GistAssumption DEF ObjectInv, TypeOK, Requests
<1>1. ASSUME NEW c \in Configs, Configure(c) PROVE Chain'
  BY <1>1, StaysInLine DEF Configure
<1>2. CASE Disconnect
  BY <1>2, StaysInLine DEF Disconnect
<1>3. ASSUME NEW r \in Requests, Ask(r) PROVE Chain'
  <2>1. CASE r \in Tests
    BY <1>0, <1>3, <2>1, StaysInLine DEF Ask
  <2>2. CASE r \notin Tests
    <3>1. r \in Pushes \cup Pulls /\ queue' = Append(queue, r)
      BY <1>3, <2>2 DEF Ask, Requests
    <3>2. ~InLine(r) /\ pc'[r] = "queued"
      BY <1>0, <1>3, <2>2, <3>1 DEF Ask, Chain, Open
    <3>3. \A s \in Pushes \cup Pulls : s # r => pc'[s] = pc[s]
      BY <1>0, <1>3 DEF Ask
    <3> QED
      BY <1>0, <3>1, <3>2, <3>3, Joins DEF Chain, Open
  <2> QED
    BY <2>1, <2>2
<1>4. ASSUME NEW r \in Requests, Enter(r) PROVE Chain'
  <2>1. r \in Pushes \cup Pulls
    BY <1>0, <1>4 DEF Enter
  <2>2. CASE queue' = queue /\ pc' \in {[pc EXCEPT ![r] = "get"], [pc EXCEPT ![r] = "create"]}
    BY <1>0, <1>4, <2>2, StaysInLine DEF Enter, Open
  <2>3. CASE End(r) /\ Leave(r)
    BY <1>4, <2>1, <2>3, OverLeaves DEF Enter, Open
  <2> QED
    BY <1>4, <2>2, <2>3 DEF Enter, Go
<1>5. ASSUME NEW r \in Requests, FinishPull(r) PROVE Chain'
  BY <1>5, OverLeaves DEF FinishPull, Open
<1>6. ASSUME NEW p \in Pushes, CheckBase(p) PROVE Chain'
  <2>1. CASE queue' = queue /\ pc' = [pc EXCEPT ![p] = "patch"]
    BY <1>0, <1>6, <2>1, StaysInLine DEF CheckBase, Open
  <2>2. CASE Conflict(p)
    BY <1>6, <2>2, OverLeaves DEF CheckBase, Conflict, Open
  <2> QED
    BY <1>6, <2>1, <2>2 DEF CheckBase, SendPatch
<1>7. ASSUME NEW p \in Pushes, FinishPush(p) PROVE Chain'
  BY <1>7, OverLeaves DEF FinishPush, Open
<1>8. ASSUME NEW t \in Requests, FinishTest(t) PROVE Chain'
  BY <1>0, <1>8, StaysInLine DEF FinishTest, End
<1>9. ASSUME NEW r \in Requests, UpstreamFails(r) PROVE Chain'
  <2>1. CASE r \in Pushes \cup Pulls
    BY <1>9, <2>1, OverLeaves DEF UpstreamFails, Open
  <2>2. CASE r \notin Pushes \cup Pulls
    <3>1. queue' = queue
      BY <1>0, <1>9, <2>2 DEF UpstreamFails, Leave
    <3> QED
      BY <1>0, <1>9, <2>2, <3>1, StaysInLine DEF UpstreamFails, End
  <2> QED
    BY <2>1, <2>2
<1>10. ASSUME NEW p \in Pushes, Lands(p) PROVE Chain'
  BY <1>10, StaysInLine DEF Lands
<1>11. ASSUME NEW e \in Edits, Edit(e) PROVE Chain'
  BY <1>11, StaysInLine DEF Edit
<1>12. CASE Crash
  <2>1. queue' = <<>> /\ \A r \in Pushes \cup Pulls : pc'[r] \notin Open
    BY <1>0, <1>12 DEF Crash, Open
  <2> QED
    BY <2>1 DEF Chain, InLine
<1>13. CASE UNCHANGED vars
  BY <1>13, StaysInLine DEF vars
<1> QED
  BY <1>1, <1>2, <1>3, <1>4, <1>5, <1>6, <1>7, <1>8, <1>9, <1>10, <1>11,
     <1>12, <1>13 DEF Next, Continue, CheckBase

(* EveryRequestEnds needs that nobody waits for a lock that was never       *)
(* passed on (_withTenantLock, lines 235-246): each queued pull or push is  *)
(* in the chain, and the first of the chain can go on, whatever failed      *)
(* before.                                                                  *)
THEOREM LockAlwaysPassedOn == Spec => []LockIsPassedOn
<1>1. Init => ObjectInv /\ Section /\ Chain
  <2>1. Init => Section
    BY DEF Init, Section, Requests
  <2>2. Init => Chain
    BY DEF Init, Chain, InLine, Open, Requests
  <2> QED
    BY <2>1, <2>2, ObjectInit
<1>2. ObjectInv /\ Section /\ Chain /\ [Next]_vars => (ObjectInv /\ Section /\ Chain)'
  BY ObjectStep, SectionStep, ChainStep
<1>3. ObjectInv /\ Section /\ Chain => LockIsPassedOn
  <2> SUFFICES ASSUME ObjectInv, Section, Chain, NEW r \in Pushes \cup Pulls, pc[r] = "queued"
               PROVE  InLine(r) /\ pc[Head(queue)] \in Open
    BY DEF LockIsPassedOn
  <2>1. InLine(r)
    BY DEF Chain, Open
  <2>2. queue \in Seq(Pushes \cup Pulls) /\ queue # <<>>
    BY <2>1 DEF InLine, ObjectInv, TypeOK
  <2>3. 1 \in DOMAIN queue /\ Head(queue) = queue[1] /\ queue[1] \in Pushes \cup Pulls
    BY <2>2
  <2> QED
    BY <2>1, <2>3 DEF Chain, InLine
<1> QED
  BY <1>1, <1>2, <1>3, PTL DEF Spec
=============================================================================
