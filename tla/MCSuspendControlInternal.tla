--------------------- MODULE MCSuspendControlInternal ------------------------
(* A small instance of SuspendControlInternal for TLC: the methods of  *)
(* the interface, and dump with and without options.                       *)
EXTENDS SuspendControlInternal, TLC

CONSTANTS a, b

MCOptions == {<<>>, <<"help">>, <<"kernel_suspends", "other">>}

Symmetry == Permutations(Calls)
==============================================================================
