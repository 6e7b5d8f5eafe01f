------------------------- MODULE MCWakeLockEntryList -------------------------
(***************************************************************************)
(* Small instances of WakeLockEntryList for TLC: every wake lock has a key *)
(* of its own, or two of four share one.                                   *)
(***************************************************************************)
EXTENDS WakeLockEntryList, TLC

CONSTANTS w1, w2, w3, w4, k1, k2, k3

DistinctKeys == w1 :> k1 @@ w2 :> k2
SharedKeys == w1 :> k1 @@ w2 :> k1 @@ w3 :> k2 @@ w4 :> k3

(* The two wake locks with one key are interchangeable.                    *)
Symmetry == Permutations({w1, w2})
==============================================================================
