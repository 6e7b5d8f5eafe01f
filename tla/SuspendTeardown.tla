--------------------------- MODULE SuspendTeardown ---------------------------
(***************************************************************************)
(* SystemSuspend up to the end of its destructor.  ~SystemSuspend runs     *)
(* when no call of a client is in progress and no wake lock is left; it    *)
(* takes both mutexes, disables autosuspend, and waits on the condition    *)
(* variable for the autosuspend thread, for 100 ms at most.  The members   *)
(* are gone when it returns, so behaviours end there.                      *)
(***************************************************************************)
EXTENDS SystemSuspend

CONSTANT
  Destructor          \* the thread that runs ~SystemSuspend

ASSUME DestructorAssumption == Destructor \notin Threads \cup Callers \cup {Free}

VARIABLES
  dtor,               \* no, wantLock (has the tokens' mutex), waiting, destroyed
  dtorNotified        \* the condition variable has woken the destructor

teardownVars == <<vars, dtor, dtorNotified>>

(* The class does not enforce this: wake locks have a plain pointer to the *)
(* object.  It holds where main lets the object go, which is before        *)
(* clients can reach the service that makes wake locks (main.cpp:148-164). *)
NoClients ==
  /\ \A w \in WakeLocks : lockState[w] = "none"
  /\ \A c \in Callers : ctl[c] = "idle"

BeginDestruction ==
  /\ dtor = "no" /\ NoClients /\ tokensLock = Free
  /\ dtor' = "wantLock"
  /\ tokensLock' = Destructor
  /\ UNCHANGED <<kernelVars, suspendCounter, autosuspendEnabled, threadCreated,
                 clientTokens, autosuspendLock, condVar, threadVars, clientVars,
                 dtorNotified>>

(* Mutant: the thread is waited for but not told to exit.                  *)
WaitOnly ==
  /\ dtor = "wantLock" /\ Unlocked
  /\ dtor' = IF threadCreated THEN "waiting" ELSE "destroyed"
  /\ UNCHANGED <<vars, dtorNotified>>

(* disableAutosuspendLocked, then wait_for: it returns at once if there is *)
(* no thread, else it releases mAutosuspendLock, not the tokens' mutex.    *)
DisableAndWait ==
  /\ dtor = "wantLock" /\ Unlocked
  /\ DisableAutosuspendLocked
  /\ dtor' = IF threadCreated THEN "waiting" ELSE "destroyed"
  /\ UNCHANGED <<kernelVars, suspendCounter, threadCreated, autosuspendLock,
                 tokensLock, threadVars, clientVars, dtorNotified>>

(* A wakeup of the destructor's own wait, which nobody notifies.           *)
DestructorSpurious ==
  /\ dtor = "waiting" /\ ~dtorNotified
  /\ dtorNotified' = TRUE
  /\ UNCHANGED <<vars, dtor>>

DestructorWoken ==
  /\ dtor = "waiting" /\ dtorNotified /\ Unlocked
  /\ dtor' = IF threadCreated THEN "waiting" ELSE "destroyed"
  /\ dtorNotified' = FALSE
  /\ UNCHANGED vars

(* The thread can go on without anybody else's help.                       *)
ThreadRuns ==
  \E t \in Threads :
    /\ pc[t] \notin {"none", "notify"}
    /\ pc[t] = "readCount" => wakeSources = {}
    /\ pc[t] = "wantTokens" => tokensLock = Free

(* Mutant: a wait without a deadline.                                      *)
NoDeadline ==
  /\ dtor = "waiting" /\ ~threadCreated /\ Unlocked
  /\ dtor' = "destroyed"
  /\ UNCHANGED <<vars, dtorNotified>>

(* The 100 ms have passed.  They are taken to be long enough for whatever  *)
(* the thread can do by itself: they do not pass before it is blocked.     *)
DestructorTimeout ==
  /\ dtor = "waiting" /\ ~ThreadRuns /\ Unlocked
  /\ dtor' = "destroyed"
  /\ UNCHANGED <<vars, dtorNotified>>

(* Clients call only while the object is referenced.                       *)
ClientStep ==
  /\ dtor = "no"
  /\ \/ \E w \in WakeLocks : WakeLockStep(w)
     \/ \E c \in Callers : ControlStep(c)
     \/ \E ok \in BOOLEAN : ForceSuspend(ok)

(* While the object exists.                                                *)
Exists(A) == dtor # "destroyed" /\ A /\ UNCHANGED <<dtor, dtorNotified>>

TeardownNext ==
  \/ Exists(\/ \E t \in Threads : ThreadStep(t) \/ SpuriousWakeup(t)
            \/ ClientStep
            \/ \E s \in {ZygoteWakelock, EventSource} : WakeupEvent(s)
            \/ EventHandled)
  \/ BeginDestruction \/ DisableAndWait
  \/ DestructorSpurious \/ DestructorWoken \/ DestructorTimeout

TeardownInit == Init /\ dtor = "no" /\ dtorNotified = FALSE

(* Fairness as in SystemSuspend while the object exists, and the mutexes,  *)
(* the deadline and the scheduler serve the destructor too.                *)
TeardownFairness ==
  /\ \A t \in Threads :
       /\ WF_teardownVars(Exists(RunsByItself(t)))
       /\ WF_teardownVars(Exists(SleepTimeout(t)))
       /\ SF_teardownVars(Exists(ReadWakeupCount(t)))
  /\ \A w \in WakeLocks :
       /\ SF_teardownVars(Exists(IncSuspendCounter(w)))
       /\ WF_teardownVars(Exists(AcquireReturns(w)))
       /\ SF_teardownVars(Exists(DecSuspendCounter(w)))
       /\ WF_teardownVars(Exists(ReleaseReturns(w) \/ SkipRelease(w)))
  /\ \A c \in Callers :
       /\ SF_teardownVars(Exists(ControlLocksTokens(c)))
       /\ SF_teardownVars(Exists((\E token \in Tokens : EnableAutosuspend(c, token))
                                   \/ DisableAutosuspend(c)))
  /\ SF_teardownVars(DisableAndWait)
  /\ WF_teardownVars(DestructorWoken)
  /\ WF_teardownVars(DestructorTimeout)

TeardownSpec == TeardownInit /\ [][TeardownNext]_teardownVars /\ TeardownFairness

(* The destructor never hangs: it keeps the tokens' mutex while it waits   *)
(* for a thread that may itself be waiting for that mutex, or be blocked   *)
(* in the kernel (SystemSuspend.cpp:233-244, 327, 351).                    *)
DestructorReturns == (dtor # "no") ~> (dtor = "destroyed")

(* The destructor does not end the object with autosuspend enabled, and    *)
(* once it has begun to wait the thread, wherever the destructor found it, *)
(* starts no attempt to suspend (SystemSuspend.cpp:233-244).               *)
NoAttemptDuringTeardown ==
  dtor \in {"waiting", "destroyed"} =>
    /\ ~autosuspendEnabled
    /\ \A t \in Threads : pc[t] \notin {"writeCount", "writeState"}

(* "wait for autosuspend thread to exit" (SystemSuspend.cpp:240): when the *)
(* object is destroyed no thread is left that would use it.                *)
NoThreadOutlivesObject ==
  dtor = "destroyed" => \A t \in Threads : ~Alive(t)
==============================================================================
