---------------------------- MODULE SuspendTokens ----------------------------
(***************************************************************************)
(* SystemSuspend with clients that die.  A token is a binder of the client *)
(* that enabled autosuspend; it dies with the client, and pingBinder then  *)
(* fails for ever.  checkAutosuspendClientsLivenessLocked, which would     *)
(* drop dead tokens from mAutosuspendClientTokens, is not called: the call *)
(* at SystemSuspend.cpp:353 is commented out.                              *)
(***************************************************************************)
EXTENDS SystemSuspend

VARIABLE
  deadTokens          \* the tokens whose client has died

tokenVars == <<vars, deadTokens>>

(* A client dies that has enabled autosuspend.                             *)
TokenDies(k) ==
  /\ k \in clientTokens \ deadTokens
  /\ deadTokens' = deadTokens \cup {k}
  /\ UNCHANGED vars

TokenInit == Init /\ deadTokens = {}

TokenNext == \/ Next /\ UNCHANGED deadTokens
             \/ \E k \in Tokens : TokenDies(k)

TokenFairSpec == TokenInit /\ [][TokenNext]_tokenVars /\ Fairness

AllClientsDead == clientTokens # {} /\ clientTokens \subseteq deadTokens

(* "When all registered tokens die automatic system suspension is          *)
(* disabled" (ISuspendControlServiceInternal.aidl), unless another client  *)
(* enables it, a callback hangs and the thread with it, or calls keep the  *)
(* thread from the mutexes for ever (SystemSuspend.cpp:218-231, 349-361).  *)
DeadClientsDisableAutosuspend ==
  CallbacksReturn /\ <>[](\A c \in Callers : ctl[c] = "idle") =>
    (AllClientsDead ~> (~autosuspendEnabled \/ ~AllClientsDead))
==============================================================================
