-------------------------- MODULE MCSystemSuspend ----------------------------
(***************************************************************************)
(* Small instances of SystemSuspend for TLC.                               *)
(***************************************************************************)
EXTENDS SystemSuspend, TLC

CONSTANTS t1, t2, c1, c2, k1, w1, w2, zygote, event, name1, name2

(* Every wake lock has a name of its own.                                  *)
DistinctNames == w1 :> name1 @@ w2 :> name2

(* Threads and callers are interchangeable, and so are wake locks when the *)
(* counter stands for them; no liveness property is checked with these.    *)
Symmetry == Permutations(Threads) \cup Permutations(Callers)
              \cup Permutations(WakeLocks)
==============================================================================
