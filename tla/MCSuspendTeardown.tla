------------------------- MODULE MCSuspendTeardown ---------------------------
(* A small instance of SuspendTeardown for TLC. *)
EXTENDS SuspendTeardown, TLC

CONSTANTS w1, name1

OneName == w1 :> name1
==============================================================================
