----------------------- MODULE MCSuspendControlService -----------------------
(* A small instance of SuspendControlService for TLC. *)
EXTENDS SuspendControlService

CONSTANTS cb1, cb2, wcb1, name1, name2, n1
==============================================================================
