--------------------------- MODULE MCManagedFiles ---------------------------
(* Small instances of ManagedFiles: one initial file, whose content calls may upload again. *)
EXTENDS ManagedFiles, TLC

CONSTANTS r1, r2, r3, prune1, prune2, old, c1, c2

MCStoredContent == [f \in Stored |-> c1]
MCRank == [f \in Stored |-> 1] @@ [r \in Request |->
             CASE r = r1 -> 2 [] r = r2 -> 3 [] OTHER -> 4]
AllOperations == Operation
=============================================================================
