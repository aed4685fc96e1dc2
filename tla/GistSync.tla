------------------------------ MODULE GistSync ------------------------------
(***************************************************************************)
(* Cloud synchronisation of one tenant's dataset,                          *)
(* backend/services/gistSync.service.js (lock and state are per tenant):   *)
(* pulls, pushes, connectivity tests, configure and disconnect in one      *)
(* process, and the gists of the provider.  An action runs from one await  *)
(* to the next.                                                            *)
(*                                                                         *)
(* The stored binding is an object: what a request holds across an await   *)
(* is the object it found, which meanwhile may have been replaced by       *)
(* configure or removed by disconnect.  Objects are named by the configure *)
(* call that made them.                                                    *)
(*                                                                         *)
(* Faults: any upstream call fails, also after it took effect (the 15 s    *)
(* time-out); the process dies at any point; other people edit a gist.     *)
(* LateEffects says whether a call that was given up may still take effect *)
(* later.                                                                  *)
(***************************************************************************)
EXTENDS Naturals, Sequences

CONSTANTS
  Pushes, Pulls, Tests,  \* requests; a push names the dataset it carries
  Configs,               \* calls of configure
  Edits,                 \* datasets other people write into a gist
  Foreign,               \* those that are no dataset of this tenant
  Gist,                  \* a gist that exists from the start
  Original,              \* the dataset in it
  None,                  \* null
  LateEffects,           \* may an abandoned call take effect?
  MaxCrashes             \* bound: restarts

Requests == Pushes \cup Pulls \cup Tests

Gists == Pushes \cup {Gist}

Revisions == Pushes \cup Edits \cup {Original}

ASSUME GistAssumption ==
  /\ Pushes \cap (Pulls \cup Tests) = {} /\ Pulls \cap Tests = {}
  /\ Pushes \cap (Edits \cup {Original, Gist}) = {}
  /\ Original \notin Edits
  /\ None \notin Requests \cup Configs \cup Gists \cup Revisions
  /\ Foreign \subseteq Edits
  /\ LateEffects \in BOOLEAN
  /\ MaxCrashes \in Nat

VARIABLES
  bound,    \* the object in the gistSyncState store
  entry,    \* the objects
  pc,       \* where each request is
  mine,     \* the object it holds
  base,     \* body.baseRevision of each push
  target,   \* the gist its PATCH or POST is for
  queue,    \* the chain of promises of _withTenantLock
  sent,     \* PATCHes and POSTs that have not taken effect
  remote,   \* the dataset in each gist
  accepted, \* history: pushes answered with success
  landed,   \* history: pushes that took effect
  edited,   \* history: edits made
  unbound,  \* history: the binding was removed or its gist cleared
  configured, \* the objects made so far
  crashes

remoteVars == <<sent, remote, landed, edited>>
historyVars == <<accepted, unbound, configured>>
vars == <<bound, entry, pc, mine, base, target, queue, sent, remote,
          landed, edited, accepted, unbound, configured, crashes>>

(* `usable` stands for enabled and encryptedToken.  lastErrorCode is left    *)
(* out: it decides one thing, see FinishTest.                               *)
Entry == [usable : BOOLEAN, gist : Gists \cup {None},
          lastRevision : Revisions \cup {None}]

NewEntry == [usable |-> FALSE, gist |-> None, lastRevision |-> None]

Init ==
  /\ bound = None
  /\ entry = [c \in Configs |-> NewEntry]
  /\ pc = [r \in Requests |-> "idle"]
  /\ mine = [r \in Requests |-> None]
  /\ base = [p \in Pushes |-> None]
  /\ target = [p \in Pushes |-> None]
  /\ queue = <<>>
  /\ sent = {}
  /\ remote = [g \in Gists |-> IF g = Gist THEN Original ELSE None]
  /\ accepted = {}
  /\ landed = {}
  /\ edited = {}
  /\ unbound = FALSE
  /\ configured = {}
  /\ crashes = 0

-----------------------------------------------------------------------------
(* Helpers                                                                  *)

Usable(c) == c # None /\ entry[c].usable

(* _find(tenantId) || the object found earlier                              *)
Fresh(r) == IF bound # None THEN bound ELSE mine[r]

(* r is answered: with a result, an error or a conflict.                    *)
End(r) ==
  /\ pc' = [pc EXCEPT ![r] = "over"]
  /\ mine' = [mine EXCEPT ![r] = None]

(* The section of _withTenantLock is over; the next promise of the chain runs. *)
Leave(r) == queue' = IF queue # <<>> /\ Head(queue) = r THEN Tail(queue) ELSE queue

(* _upsert(o) after the fields were assigned                                *)
Upsert(o, e) ==
  /\ entry' = [entry EXCEPT ![o] = e]
  /\ bound' = o

-----------------------------------------------------------------------------
(* The platform master                                                      *)

(* configure: a new object takes over what the body does not give.  The     *)
(* body gives a gist, clears it or is silent; gives a token or not.         *)
Configure(c) ==
  /\ c \notin configured
  /\ configured' = configured \cup {c}
  /\ LET existing == IF bound = None THEN NewEntry ELSE entry[bound]
     IN  \E usable \in BOOLEAN, g \in {existing.gist, Gist, None} :
           /\ Upsert(c, [existing EXCEPT !.usable = usable, !.gist = g])
           /\ unbound' = (unbound \/ (existing.gist # None /\ g = None))
  /\ UNCHANGED <<pc, mine, base, target, queue, remoteVars, accepted, crashes>>

Disconnect ==
  /\ bound # None
  /\ bound' = None
  /\ unbound' = TRUE
  /\ UNCHANGED <<entry, pc, mine, base, target, queue, remoteVars, accepted, configured, crashes>>

-----------------------------------------------------------------------------
(* Requests                                                                 *)

(* _tenantEntry and what follows before the first await.  A request refused *)
(* here (no usable binding, a pull without a gist, a payload that is no     *)
(* dataset of this tenant) changes lastErrorCode only and is left out.      *)
(* Pulls and pushes queue for the lock, a test calls the provider at once.  *)
Ask(r) ==
  /\ pc[r] = "idle"
  /\ Usable(bound)
  /\ r \in Pulls => entry[bound].gist # None
  /\ mine' = [mine EXCEPT ![r] = bound]
  /\ pc' = [pc EXCEPT ![r] = IF r \in Tests THEN "get" ELSE "queued"]
  /\ queue' = IF r \in Tests THEN queue ELSE Append(queue, r)
  /\ UNCHANGED <<bound, entry, base, target, remoteVars, historyVars, crashes>>

Go(r, to) ==
  /\ pc' = [pc EXCEPT ![r] = to]
  /\ mine' = [mine EXCEPT ![r] = Fresh(r)]

(* Mutant: no _withTenantLock.                                              *)
EnterUnlocked(r) ==
  /\ pc[r] = "queued"
  /\ \/ /\ r \in Pulls \/ (Usable(Fresh(r)) /\ entry[Fresh(r)].gist # None)
        /\ Go(r, "get")
        /\ UNCHANGED <<bound, entry, target, queue, sent>>
     \/ /\ r \in Pushes /\ Usable(Fresh(r)) /\ entry[Fresh(r)].gist = None
        /\ Go(r, "create")
        /\ target' = [target EXCEPT ![r] = r]
        /\ sent' = sent \cup {r}
        /\ UNCHANGED <<bound, entry, queue>>
  /\ UNCHANGED <<base, remote, landed, edited, historyVars, crashes>>

(* The promise before is settled: the section runs to its first await.  A   *)
(* push finds the binding disabled, or reads the bound gist, or creates one. *)
Enter(r) ==
  /\ pc[r] = "queued"
  /\ queue # <<>> /\ Head(queue) = r
  /\ \/ /\ r \in Pulls \/ (Usable(Fresh(r)) /\ entry[Fresh(r)].gist # None)
        /\ Go(r, "get")
        /\ UNCHANGED <<bound, entry, target, queue, sent>>
     \/ /\ r \in Pushes /\ Usable(Fresh(r)) /\ entry[Fresh(r)].gist = None
        /\ Go(r, "create")
        /\ target' = [target EXCEPT ![r] = r]
        /\ sent' = sent \cup {r}
        /\ UNCHANGED <<bound, entry, queue>>
     \/ /\ r \in Pushes /\ ~Usable(Fresh(r))
        /\ End(r)
        /\ Leave(r)
        /\ UNCHANGED <<bound, entry, target, sent>>
  /\ UNCHANGED <<base, remote, landed, edited, historyVars, crashes>>

(* What the GET of a request brings: the dataset in the gist of its object. *)
Got(r) == remote[entry[mine[r]].gist]

(* Mutant: an error thrown past the chain of promises.                      *)
FailsHolding(r) ==
  /\ pc[r] \in {"get", "patch", "create"}
  /\ End(r)
  /\ sent' = IF LateEffects THEN sent ELSE sent \ {r}
  /\ UNCHANGED <<bound, entry, base, target, queue, remote, landed, edited, historyVars, crashes>>

(* An upstream call of r ends without result: time-out, refusal, network.   *)
UpstreamFails(r) ==
  /\ pc[r] \in {"get", "patch", "create"}
  /\ End(r)
  /\ Leave(r)
  /\ sent' = IF LateEffects THEN sent ELSE sent \ {r}
  /\ UNCHANGED <<bound, entry, base, target, remote, landed, edited, historyVars, crashes>>

(* _doPull after the GET: the revision found becomes the tracked one.       *)
FinishPull(r) ==
  /\ r \in Pulls /\ pc[r] = "get" /\ entry[mine[r]].gist # None
  /\ \/ /\ Got(r) \in Foreign
        /\ End(r)
        /\ UNCHANGED <<bound, entry>>
     \/ /\ Got(r) \notin Foreign
        /\ Upsert(mine[r], [entry[mine[r]] EXCEPT !.lastRevision = Got(r)])
        /\ End(r)
  /\ Leave(r)
  /\ UNCHANGED <<base, target, remoteVars, historyVars, crashes>>

(* The PATCH of a push whose base was accepted.                             *)
SendPatch(p, b) ==
  /\ base' = [base EXCEPT ![p] = b]
  /\ target' = [target EXCEPT ![p] = entry[mine[p]].gist]
  /\ sent' = sent \cup {p}
  /\ pc' = [pc EXCEPT ![p] = "patch"]

Conflict(p) ==
  /\ End(p)
  /\ Leave(p)
  /\ UNCHANGED <<bound, entry, base, target, sent>>

(* Mutant: without the comparison with the remote dataset.                  *)
TrustTracked(p) ==
  /\ p \in Pushes /\ pc[p] = "get"
  /\ \E b \in Revisions :
       /\ entry[mine[p]].lastRevision \in {None, b}
       /\ SendPatch(p, b)
       /\ UNCHANGED <<bound, entry, mine, queue>>
  /\ UNCHANGED <<remote, landed, edited, historyVars, crashes>>

(* Mutant: the tracked revision is set before the provider confirms.        *)
TrackEarly(p) ==
  /\ p \in Pushes /\ pc[p] = "get"
  /\ entry[mine[p]].lastRevision \in {None, Got(p)}
  /\ SendPatch(p, Got(p))
  /\ Upsert(mine[p], [entry[mine[p]] EXCEPT !.lastRevision = p])
  /\ UNCHANGED <<mine, queue, remote, landed, edited, historyVars, crashes>>

(* _doPush after the GET, where baseRevision is looked at: it must be there *)
(* and be both the tracked revision, if one is tracked, and what the gist   *)
(* holds.                                                                   *)
CheckBase(p) ==
  /\ p \in Pushes /\ pc[p] = "get"
  /\ \E b \in Revisions \cup {None} :
       \/ /\ b = Got(p) /\ entry[mine[p]].lastRevision \in {None, b}
          /\ SendPatch(p, b)
          /\ UNCHANGED <<bound, entry, mine, queue>>
       \/ /\ b # Got(p) \/ entry[mine[p]].lastRevision \notin {None, b}
          /\ Conflict(p)
  /\ UNCHANGED <<remote, landed, edited, historyVars, crashes>>

(* Mutant: the gist of the new dataset is not bound.                        *)
FinishPushUnbound(p) ==
  /\ pc[p] \in {"patch", "create"} /\ p \notin sent
  /\ Upsert(mine[p], [entry[mine[p]] EXCEPT !.lastRevision = p])
  /\ End(p)
  /\ accepted' = accepted \cup {p}
  /\ Leave(p)
  /\ UNCHANGED <<base, target, remoteVars, unbound, configured, crashes>>

(* Mutant: the id of the gist is tracked instead of the revision.           *)
FinishPushMixedUp(p) ==
  /\ pc[p] \in {"patch", "create"} /\ p \notin sent
  /\ Upsert(mine[p], [entry[mine[p]] EXCEPT !.gist = target[p], !.lastRevision = target[p]])
  /\ End(p)
  /\ accepted' = accepted \cup {p}
  /\ Leave(p)
  /\ UNCHANGED <<base, target, remoteVars, unbound, configured, crashes>>

(* _doPush after the PATCH or the POST.                                     *)
FinishPush(p) ==
  /\ pc[p] \in {"patch", "create"} /\ p \notin sent
  /\ Upsert(mine[p], [entry[mine[p]] EXCEPT !.gist = target[p], !.lastRevision = p])
  /\ End(p)
  /\ accepted' = accepted \cup {p}
  /\ Leave(p)
  /\ UNCHANGED <<base, target, remoteVars, unbound, configured, crashes>>

(* testConnection after its call, outside the lock.  If it went well and    *)
(* lastErrorCode is a connectivity code, the binding is written back        *)
(* without it; whether it is one is left open.                              *)
FinishTest(t) ==
  /\ t \in Tests /\ pc[t] = "get"
  /\ \/ /\ entry[mine[t]].gist # None /\ Got(t) \in Foreign
        /\ End(t)
        /\ UNCHANGED bound
     \/ /\ entry[mine[t]].gist # None => Got(t) \notin Foreign
        /\ End(t)
        /\ bound' \in {bound, Fresh(t)}
  /\ UNCHANGED <<entry, base, target, queue, remoteVars, historyVars, crashes>>

-----------------------------------------------------------------------------
(* The provider, other people, the process                                  *)

(* A PATCH or a POST takes effect.                                          *)
Lands(p) ==
  /\ p \in sent
  /\ sent' = sent \ {p}
  /\ remote' = [remote EXCEPT ![target[p]] = p]
  /\ landed' = landed \cup {p}
  /\ UNCHANGED <<bound, entry, pc, mine, base, target, queue, edited,
                 historyVars, crashes>>

Edit(e) ==
  /\ e \notin edited
  /\ \E g \in Gists :
       /\ remote[g] # None
       /\ remote' = [remote EXCEPT ![g] = e]
  /\ edited' = edited \cup {e}
  /\ UNCHANGED <<bound, entry, pc, mine, base, target, queue, sent, landed,
                 historyVars, crashes>>

(* The process dies and starts again: the store stays.                      *)
Crash ==
  /\ crashes < MaxCrashes
  /\ crashes' = crashes + 1
  /\ pc' = [r \in Requests |-> IF pc[r] \in {"idle", "over"} THEN pc[r] ELSE "over"]
  /\ mine' = [r \in Requests |-> None]
  /\ queue' = <<>>
  /\ sent' = IF LateEffects THEN sent ELSE {}
  /\ UNCHANGED <<bound, entry, base, target, remote, landed, edited, historyVars>>

-----------------------------------------------------------------------------
(* What the event loop owes a request: its own steps.  A call to the        *)
(* provider ends, at the latest after UPSTREAM_TIMEOUT_MS.                  *)
Continue(r) ==
  \/ Enter(r)
  \/ FinishPull(r)
  \/ CheckBase(r)
  \/ r \in Pushes /\ FinishPush(r)
  \/ FinishTest(r)
  \/ UpstreamFails(r)

Next ==
  \/ \E c \in Configs : Configure(c)
  \/ Disconnect
  \/ \E r \in Requests : Ask(r) \/ Continue(r)
  \/ \E p \in Pushes : Lands(p)
  \/ \E e \in Edits : Edit(e)
  \/ Crash

Spec == Init /\ [][Next]_vars /\ WF_vars(\E r \in Pushes \cup Pulls : Continue(r))

-----------------------------------------------------------------------------
(* Properties                                                               *)

(* Every variable has its type.                                             *)
TypeOK ==
  /\ bound \in Configs \cup {None}
  /\ entry \in [Configs -> Entry]
  /\ pc \in [Requests -> {"idle", "queued", "get", "patch", "create", "over"}]
  /\ mine \in [Requests -> Configs \cup {None}]
  /\ base \in [Pushes -> Revisions \cup {None}]
  /\ target \in [Pushes -> Gists \cup {None}]
  /\ queue \in Seq(Pushes \cup Pulls)
  /\ sent \subseteq Pushes
  /\ remote \in [Gists -> Revisions \cup {None}]
  /\ accepted \subseteq Pushes
  /\ landed \subseteq Pushes
  /\ edited \subseteq Edits
  /\ unbound \in BOOLEAN
  /\ configured \subseteq Configs
  /\ crashes \in Nat

(* Of the pushes that devices build on one revision of a gist, at most one  *)
(* takes effect, whatever fails or dies in between: the others are refused  *)
(* with a conflict (the check at lines 711-723 under _withTenantLock).      *)
ExactlyOneWinner ==
  \A p, q \in landed :
    (p # q /\ target[p] = target[q] /\ target[p] # p /\ target[q] # q)
      => base[p] # base[q]

(* Two first pushes that meet do not create two gists for the tenant: unless *)
(* the master removed the binding or cleared its gist, at most one push is  *)
(* answered with a gist of its own (lines 748-761).                         *)
BootstrapOnce ==
  unbound \/ \A p, q \in accepted :
    (target[p] = p /\ target[q] = q) => p = q

(* The tracked revision is one that stood in a gist: a push that failed or  *)
(* died on its way never shows up as lastRevision (lines 26-27, "Partial    *)
(* upstream failures leave state unchanged").                               *)
TrackedRevisionStood ==
  bound # None => entry[bound].lastRevision \in landed \cup edited \cup {Original, None}

(* Pushes replace what they were built on (Dataset).                        *)
Promise == INSTANCE Dataset WITH
  content <- remote, built <- base, effective <- landed

ImplementsDataset == Promise!Spec

(* Every pull and push that asked for the lock is answered, or its process  *)
(* dies: every way out of a section passes the lock on, and no call to the  *)
(* provider lasts, so the queue empties (_withTenantLock, lines 235-246).   *)
EveryRequestEnds == queue # <<>> ~> queue = <<>>
=============================================================================
