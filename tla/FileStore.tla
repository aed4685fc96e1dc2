----------------------------- MODULE FileStore -----------------------------
(***************************************************************************)
(* One document of the JSON store, backend/utils/fileStore.js, as its      *)
(* clients see it.  read returns the cached object, which the client       *)
(* changes in place; a failed write drops the cache, so that the next read *)
(* brings what is in the file.  A client that kept the object keeps its    *)
(* changes, and writes them with its next write.                           *)
(***************************************************************************)

(* write: the file is written; the temporary file is not, and the old one   *)
(* stays; or the old one is unlinked and the rename fails, which leaves no  *)
(* file: an empty document.                                                 *)
WriteOutcomes(old, new, empty) ==
  {[ok |-> TRUE, disk |-> new],
   [ok |-> FALSE, disk |-> old],
   [ok |-> FALSE, disk |-> empty]}
=============================================================================
