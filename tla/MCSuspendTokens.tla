-------------------------- MODULE MCSuspendTokens ----------------------------
(* A small instance of SuspendTokens for TLC, with nothing but the thread  *)
(* and one client: no wake lock and no event keep the system awake.        *)
EXTENDS SuspendTokens

NoNames == <<>>
==============================================================================
