----------------------------- MODULE MCFileLock -----------------------------
(* Small instances of FileLock for TLC. *)
EXTENDS FileLock

CONSTANTS a1, a2, a3, a4, p1, p2, p3, p4

OwnerAndRest == [a \in Attempts |-> IF a = a1 THEN p1 ELSE p2]
EachItsOwn   == [a \in Attempts |->
                   CASE a = a1 -> p1 [] a = a2 -> p2 [] a = a3 -> p3 [] OTHER -> p4]
=============================================================================
