----------------------------- MODULE SuspendHost -----------------------------
(***************************************************************************)
(* SystemSuspend on a host that has no /sys/power/wakeup_count or no       *)
(* /sys/power/state.  main then gives it the two ends of a socket pair as  *)
(* mWakeupCountFd and mStateFd (main.cpp:102-110), so that what is written *)
(* to the one can be read from the other.  Nobody else reads either end.   *)
(* The strings are not told apart: readFd takes all that is there, and     *)
(* whatever it takes is a wakeup count that is not empty.                  *)
(***************************************************************************)
EXTENDS SystemSuspend

CONSTANTS
  ForceCall,          \* the binder thread that calls forceSuspend, no other
  SocketCapacity,     \* the strings a socket buffer can hold
  MaxForced           \* bound on the calls of forceSuspend

VARIABLES
  atCountFd,          \* strings to be read from mWakeupCountFd
  atStateFd,          \* strings to be read from mStateFd
  forced              \* calls of forceSuspend so far

socketVars == <<atCountFd, atStateFd, forced>>
hostVars == <<vars, socketVars>>

HostInit == Init /\ atCountFd = 0 /\ atStateFd = 0 /\ forced = 0

(* readFd(mWakeupCountFd) blocks until there is something to read.         *)
HostReadCount(t) ==
  /\ At(t, "readCount") /\ atCountFd > 0
  /\ atCountFd' = 0
  /\ readCount' = [readCount EXCEPT ![t] = wakeupCount]
  /\ Goto(t, "gotCount")
  /\ UNCHANGED <<kernelVars, sharedVars, shouldSleep, success, clientVars,
                 atStateFd, forced>>

(* WriteStringToFd(wakeupCount, mWakeupCountFd) blocks while the buffer of *)
(* the other end is full, with both mutexes held, and does not fail.       *)
HostWriteCount(t) ==
  /\ At(t, "writeCount") /\ atStateFd < SocketCapacity
  /\ atStateFd' = atStateFd + 1
  /\ Goto(t, "writeState")
  /\ UNCHANGED <<kernelVars, sharedVars, shouldSleep, readCount, success,
                 clientVars, atCountFd, forced>>

(* WriteStringToFd(kSleepState, mStateFd): nothing is suspended.           *)
HostWriteState(t) ==
  /\ At(t, "writeState") /\ atCountFd < SocketCapacity
  /\ atCountFd' = atCountFd + 1
  /\ success' = [success EXCEPT ![t] = TRUE]
  /\ shouldSleep' = [shouldSleep EXCEPT ![t] = TRUE]
  /\ autosuspendLock' = Free
  /\ tokensLock' = Free
  /\ Goto(t, "record")
  /\ UNCHANGED <<kernelVars, suspendCounter, autosuspendEnabled, threadCreated,
                 clientTokens, condVar, readCount, clientVars, atStateFd,
                 forced>>

HostThreadStep(t) ==
  \/ /\ \/ Start(t) \/ SleepTimeout(t) \/ SleepWoken(t) \/ GotWakeupCount(t)
        \/ CounterWoken(t) \/ LockTokens(t) \/ CheckSuspend(t)
        \/ RecordAttempt(t) \/ NotifyWakeup(t) \/ Relock(t)
     /\ UNCHANGED socketVars
  \/ HostReadCount(t) \/ HostWriteCount(t) \/ HostWriteState(t)

(* forceSuspend takes mAutosuspendLock, and has it until its write is done.*)
HostForceSuspend ==
  /\ Unlocked /\ forced < MaxForced
  /\ forced' = forced + 1
  /\ autosuspendLock' = ForceCall
  /\ UNCHANGED <<kernelVars, suspendCounter, autosuspendEnabled, threadCreated,
                 clientTokens, tokensLock, condVar, threadVars, clientVars,
                 atCountFd, atStateFd>>

HostForceWrites ==
  /\ autosuspendLock = ForceCall /\ atCountFd < SocketCapacity
  /\ atCountFd' = atCountFd + 1
  /\ autosuspendLock' = Free
  /\ UNCHANGED <<kernelVars, suspendCounter, autosuspendEnabled, threadCreated,
                 clientTokens, tokensLock, condVar, threadVars, clientVars,
                 atStateFd, forced>>

HostNext ==
  \/ \E t \in Threads : HostThreadStep(t)
  \/ /\ \/ \E t \in Threads : SpuriousWakeup(t)
        \/ \E w \in WakeLocks : WakeLockStep(w)
        \/ \E c \in Callers : ControlStep(c)
     /\ UNCHANGED socketVars
  \/ HostForceSuspend \/ HostForceWrites

OnHost(A) == A /\ UNCHANGED socketVars

(* As in SystemSuspend; callbacks return.                                  *)
HostFairSpec ==
  /\ HostInit /\ [][HostNext]_hostVars
  /\ \A t \in Threads : /\ WF_hostVars(HostThreadStep(t))
                        /\ WF_hostVars(OnHost(SleepTimeout(t)))
  /\ \A w \in WakeLocks :
       /\ SF_hostVars(OnHost(IncSuspendCounter(w)))
       /\ WF_hostVars(OnHost(AcquireReturns(w)))
       /\ SF_hostVars(OnHost(DecSuspendCounter(w)))
       /\ WF_hostVars(OnHost(ReleaseReturns(w) \/ SkipRelease(w)))
  /\ \A c \in Callers :
       /\ SF_hostVars(OnHost(ControlLocksTokens(c)))
       /\ SF_hostVars(OnHost((\E token \in Tokens : EnableAutosuspend(c, token))
                               \/ DisableAutosuspend(c)))
  /\ WF_hostVars(HostForceWrites)

(* "This way this process will keep running, handle wake lock requests,    *)
(* collect stats, but won't suspend the device" (main.cpp:102-104): every  *)
(* call of acquireWakeLock returns.                                        *)
HostHandlesWakeLocks ==
  \A w \in WakeLocks : (lockState[w] = "acquiring") ~> (lockState[w] = "live")
==============================================================================
