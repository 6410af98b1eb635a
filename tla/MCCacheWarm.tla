----------------------------- MODULE MCCacheWarm -----------------------------
(* Small instances of CacheWarm. *)
EXTENDS CacheWarm, TLC

CONSTANTS op1, op2, w1, w2, t1, t2

AllFaults == Fault
MCSymmetry == Permutations(Op) \cup Permutations(Worker) \cup Permutations(Target)
=============================================================================
