-------------------------- MODULE MCSuspendHost ----------------------------
(* A small instance of SuspendHost for TLC. *)
EXTENDS SuspendHost, TLC

CONSTANTS w1, name1

OneName == w1 :> name1
==============================================================================
