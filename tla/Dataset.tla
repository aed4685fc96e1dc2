------------------------------ MODULE Dataset ------------------------------
(***************************************************************************)
(* What cloud synchronisation promises for the shared copies of a tenant's *)
(* dataset (gistSync.service.js:22-30): a push replaces the very revision  *)
(* the device built on, or it takes no effect.  Only people who edit a     *)
(* copy behind the server's back are not seen: what such an edit put there *)
(* may be replaced by a push that was already on its way.                  *)
(***************************************************************************)
CONSTANTS
  Pushes,    \* pushes; each names the dataset it carries
  Edits,     \* datasets written by somebody else
  Gist,      \* a gist that exists from the start
  Original,  \* the dataset in it
  None       \* no dataset, no revision

VARIABLES
  content,   \* the dataset in each gist
  built,     \* the revision each push was built on
  effective, \* the pushes that took effect
  edited     \* the edits made

vars == <<content, built, effective, edited>>

Gists == Pushes \cup {Gist}

Revisions == Pushes \cup Edits \cup {Original}

Init ==
  /\ content = [g \in Gists |-> IF g = Gist THEN Original ELSE None]
  /\ built = [p \in Pushes |-> None]
  /\ effective = {}
  /\ edited = {}

(* A device names the revision it has.                                      *)
Build(p, revision) ==
  /\ built[p] = None
  /\ p \notin effective
  /\ built' = [built EXCEPT ![p] = revision]
  /\ UNCHANGED <<content, effective, edited>>

(* A push creates a gist of its own, or replaces what it was built on.      *)
Push(p, g) ==
  /\ p \notin effective
  /\ \/ g = p /\ content[g] = None
     \/ content[g] # None /\ content[g] \in Edits \cup {built[p]}
  /\ content' = [content EXCEPT ![g] = p]
  /\ effective' = effective \cup {p}
  /\ UNCHANGED <<built, edited>>

Edit(e, g) ==
  /\ e \notin edited
  /\ content[g] # None
  /\ content' = [content EXCEPT ![g] = e]
  /\ edited' = edited \cup {e}
  /\ UNCHANGED <<built, effective>>

Next ==
  \/ \E p \in Pushes, revision \in Revisions : Build(p, revision)
  \/ \E p \in Pushes, g \in Gists : Push(p, g)
  \/ \E e \in Edits, g \in Gists : Edit(e, g)

Spec == Init /\ [][Next]_vars
=============================================================================
