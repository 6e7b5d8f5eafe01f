---------------------------- MODULE SystemSuspend ----------------------------
(***************************************************************************)
(* The core of the suspend service (suspend/1.0/default/SystemSuspend.cpp  *)
(* and the WakeLock objects of SystemSuspendAidl.cpp, SystemSuspendHidl.cpp*)
(* ): the autosuspend thread, the counter of wake locks it respects, the   *)
(* tokens of the clients that asked for autosuspend, the two mutexes and   *)
(* the condition variable that tie them together, and the calls of clients *)
(* that run concurrently with the thread.                                  *)
(*                                                                         *)
(* A step is what one thread does between two points where another thread  *)
(* can be seen to interfere: from taking a mutex to releasing it, or one   *)
(* access to the kernel.  mAutosuspendLock is held over several steps only *)
(* by the autosuspend thread, while it writes to /sys/power.               *)
(***************************************************************************)
EXTENDS KernelPower, FiniteSets

CONSTANTS
  Threads,            \* autosuspend threads that may exist over time
  Callers,            \* binder threads that call enable/disableAutosuspend
  Tokens,             \* client tokens
  WakeLocks,          \* IWakeLock objects (an identity is reused once freed)
  Free,               \* value of a mutex nobody holds
  UseSuspendCounter,  \* mUseSuspendCounter
  WakeLockName,       \* name each wake lock is acquired with
  ZygoteWakelock,     \* kZygoteKernelWakelock
  EventSource         \* a wakeup source of the kernel's own

ASSUME ThreadsAssumption ==
  Free \notin Threads \cup Callers /\ Threads \cap Callers = {}

ASSUME WakeLocksAssumption ==
  /\ IsFiniteSet(WakeLocks)
  /\ DOMAIN WakeLockName = WakeLocks
  /\ UseSuspendCounter \in BOOLEAN

VARIABLES
  suspendCounter,     \* mSuspendCounter
  autosuspendEnabled, \* mAutosuspendEnabled
  threadCreated,      \* mAutosuspendThreadCreated
  clientTokens,       \* mAutosuspendClientTokens (a token is in it at most once)
  autosuspendLock,    \* holder of mAutosuspendLock
  tokensLock,         \* holder of mAutosuspendClientTokensLock
  condVar,            \* threads blocked on mAutosuspendCondVar
  pc,                 \* where each autosuspend thread is
  shouldSleep,        \* its local variables: shouldSleep,
  readCount,          \*   wakeupCount (NoCount for the empty string) and
  success,            \*   success
  lockState,          \* each wake lock: none, acquiring, counted, live
  released,           \* its mReleased: unset, running, set
  call,               \* the releasing call it serves: idle, release, destroy
  ctl                 \* each caller: idle, enable, disable

threadVars == <<pc, shouldSleep, readCount, success>>
wakeLockVars == <<lockState, released, call>>
clientVars == <<wakeLockVars, ctl>>
sharedVars == <<suspendCounter, autosuspendEnabled, threadCreated, clientTokens,
                autosuspendLock, tokensLock, condVar>>
vars == <<kernelVars, sharedVars, threadVars, clientVars>>

PC == {"none", "start", "sleeping", "readCount", "gotCount", "waitCounter",
       "wantTokens", "wantLock", "writeCount", "writeState", "record",
       "notify", "relock"}

(* The types of all variables but tokensLock, which SuspendTeardown gives  *)
(* one more value.                                                         *)
CoreTypeOK ==
  /\ KernelTypeOK
  /\ suspendCounter \in Nat
  /\ autosuspendEnabled \in BOOLEAN
  /\ threadCreated \in BOOLEAN
  /\ clientTokens \subseteq Tokens
  /\ autosuspendLock \in Threads \cup {Free}
  /\ condVar \subseteq Threads
  /\ pc \in [Threads -> PC]
  /\ shouldSleep \in [Threads -> BOOLEAN]
  /\ readCount \in [Threads -> Nat \cup {NoCount}]
  /\ success \in [Threads -> BOOLEAN]
  /\ lockState \in [WakeLocks -> {"none", "acquiring", "counted", "live"}]
  /\ released \in [WakeLocks -> {"unset", "running", "set"}]
  /\ call \in [WakeLocks -> {"idle", "release", "destroy"}]
  /\ ctl \in [Callers -> {"idle", "enable", "disable"}]

TypeOK == CoreTypeOK /\ tokensLock \in Threads \cup Callers \cup {Free}

(* SystemSuspend::SystemSuspend, before any client has called.             *)
Init ==
  /\ KernelInit
  /\ suspendCounter = 0
  /\ autosuspendEnabled = FALSE
  /\ threadCreated = FALSE
  /\ clientTokens = {}
  /\ autosuspendLock = Free
  /\ tokensLock = Free
  /\ condVar = {}
  /\ pc = [t \in Threads |-> "none"]
  /\ shouldSleep = [t \in Threads |-> TRUE]
  /\ readCount = [t \in Threads |-> NoCount]
  /\ success = [t \in Threads |-> FALSE]
  /\ lockState = [w \in WakeLocks |-> "none"]
  /\ released = [w \in WakeLocks |-> "unset"]
  /\ call = [w \in WakeLocks |-> "idle"]
  /\ ctl = [c \in Callers |-> "idle"]

------------------------------------------------------------------------------
(* The autosuspend thread, the lambda of initAutosuspendLocked.            *)

At(t, p) == pc[t] = p
Goto(t, p) == pc' = [pc EXCEPT ![t] = p]
Unlocked == autosuspendLock = Free

(* The thread returns; its locals are gone.                                *)
ExitThread(t) ==
  /\ threadCreated' = FALSE
  /\ Goto(t, "none")
  /\ readCount' = [readCount EXCEPT ![t] = NoCount]

(* The head of the loop: exit, or go to sleep, or go on without sleeping.  *)
LoopTop(t, sleep) ==
  IF ~autosuspendEnabled
  THEN ExitThread(t) /\ UNCHANGED condVar
  ELSE /\ Goto(t, IF sleep THEN "sleeping" ELSE "readCount")
       /\ condVar' = IF sleep THEN condVar \cup {t} ELSE condVar
       /\ readCount' = [readCount EXCEPT ![t] = NoCount]
       /\ UNCHANGED threadCreated

Start(t) ==
  /\ At(t, "start") /\ Unlocked
  /\ LoopTop(t, shouldSleep[t])
  /\ UNCHANGED <<kernelVars, suspendCounter, autosuspendEnabled, clientTokens,
                 autosuspendLock, tokensLock, shouldSleep, success, clientVars>>

(* mAutosuspendCondVar.wait_for(autosuspendLock, mSleepTime, ...) returns, *)
(* because the time has passed or because autosuspend has been disabled.   *)
SleepEnds(t) ==
  /\ condVar' = condVar \ {t}
  /\ IF autosuspendEnabled
     THEN Goto(t, "readCount") /\ UNCHANGED <<threadCreated, readCount>>
     ELSE ExitThread(t)

SleepTimeout(t) ==
  /\ At(t, "sleeping") /\ Unlocked
  /\ SleepEnds(t)
  /\ UNCHANGED <<kernelVars, suspendCounter, autosuspendEnabled, clientTokens,
                 autosuspendLock, tokensLock, shouldSleep, success, clientVars>>

(* The thread is woken from its sleep; it sleeps on if its predicate does  *)
(* not hold.                                                               *)
SleepWoken(t) ==
  /\ At(t, "sleeping") /\ t \notin condVar /\ Unlocked
  /\ IF autosuspendEnabled
     THEN /\ condVar' = condVar \cup {t}
          /\ UNCHANGED <<threadCreated, pc, readCount>>
     ELSE SleepEnds(t)
  /\ UNCHANGED <<kernelVars, suspendCounter, autosuspendEnabled, clientTokens,
                 autosuspendLock, tokensLock, shouldSleep, success, clientVars>>

(* readFd(mWakeupCountFd): blocks while a wakeup source is active.         *)
ReadWakeupCount(t) ==
  /\ At(t, "readCount")
  /\ wakeSources = {}
  /\ readCount' = [readCount EXCEPT ![t] = wakeupCount]
  /\ Goto(t, "gotCount")
  /\ UNCHANGED <<kernelVars, sharedVars, shouldSleep, success, clientVars>>

ReadWakeupCountFails(t) ==
  /\ At(t, "readCount")
  /\ Goto(t, "gotCount")
  /\ UNCHANGED <<kernelVars, sharedVars, shouldSleep, readCount, success,
                 clientVars>>

(* mAutosuspendCondVar.wait(autosuspendLock, ...) for the last wake lock   *)
(* to be released or for autosuspend to be disabled.                       *)
AwaitCounter(t) ==
  \/ /\ ~autosuspendEnabled
     /\ ExitThread(t)
     /\ condVar' = condVar \ {t}
  \/ /\ autosuspendEnabled /\ suspendCounter = 0
     /\ Goto(t, "wantTokens")
     /\ condVar' = condVar \ {t}
     /\ UNCHANGED <<threadCreated, readCount>>
  \/ /\ autosuspendEnabled /\ suspendCounter # 0
     /\ Goto(t, "waitCounter")
     /\ condVar' = condVar \cup {t}
     /\ UNCHANGED <<threadCreated, readCount>>

GotWakeupCount(t) ==
  /\ At(t, "gotCount") /\ Unlocked
  /\ IF readCount[t] = NoCount
     THEN LoopTop(t, shouldSleep[t]) /\ UNCHANGED shouldSleep
     ELSE AwaitCounter(t) /\ shouldSleep' = [shouldSleep EXCEPT ![t] = FALSE]
  /\ UNCHANGED <<kernelVars, suspendCounter, autosuspendEnabled, clientTokens,
                 autosuspendLock, tokensLock, success, clientVars>>

CounterWoken(t) ==
  /\ At(t, "waitCounter") /\ t \notin condVar /\ Unlocked
  /\ AwaitCounter(t)
  /\ UNCHANGED <<kernelVars, suspendCounter, autosuspendEnabled, clientTokens,
                 autosuspendLock, tokensLock, shouldSleep, success, clientVars>>

(* A condition variable may wake a thread that nobody notified.            *)
SpuriousWakeup(t) ==
  /\ t \in condVar
  /\ condVar' = condVar \ {t}
  /\ UNCHANGED <<kernelVars, suspendCounter, autosuspendEnabled, threadCreated,
                 clientTokens, autosuspendLock, tokensLock, threadVars,
                 clientVars>>

LockTokens(t) ==
  /\ At(t, "wantTokens") /\ tokensLock = Free
  /\ tokensLock' = t
  /\ Goto(t, "wantLock")
  /\ UNCHANGED <<kernelVars, suspendCounter, autosuspendEnabled, threadCreated,
                 clientTokens, autosuspendLock, condVar, shouldSleep, readCount,
                 success, clientVars>>

(* Mutants: the tokens are left, or nobody is notified.                    *)
DisableKeepingTokens ==
  /\ UNCHANGED clientTokens
  /\ autosuspendEnabled' = FALSE
  /\ condVar' = {}
DisableSilently ==
  /\ clientTokens' = {}
  /\ autosuspendEnabled' = FALSE
  /\ UNCHANGED condVar

DisableAutosuspendLocked ==
  /\ clientTokens' = {}
  /\ autosuspendEnabled' = FALSE
  /\ condVar' = IF autosuspendEnabled THEN {} ELSE condVar

(* Mutants: the token is assumed, the counter is not tested again, the     *)
(* tokens' mutex is forgotten, or mAutosuspendLock is released too early.  *)
AssumeAliveToken == TRUE
IgnoreCounter == FALSE
ForgetTokensLock == UNCHANGED tokensLock
ReleaseEarly(t) == UNCHANGED autosuspendLock

HasAliveToken == clientTokens # {}
CounterIncreased == suspendCounter > 0
UnlockTokens == tokensLock' = Free
KeepLocked(t) == autosuspendLock' = t

(* With both mutexes: give up if no client is left or a wake lock has been *)
(* acquired since the wait, else keep both for the writes to /sys/power.   *)
CheckSuspend(t) ==
  /\ At(t, "wantLock") /\ Unlocked
  /\ \/ /\ ~HasAliveToken
        /\ DisableAutosuspendLocked
        /\ ExitThread(t)
        /\ UnlockTokens
        /\ UNCHANGED autosuspendLock
     \/ /\ HasAliveToken /\ CounterIncreased
        /\ LoopTop(t, shouldSleep[t])
        /\ UnlockTokens
        /\ UNCHANGED <<clientTokens, autosuspendEnabled, autosuspendLock>>
     \/ /\ HasAliveToken /\ ~CounterIncreased
        /\ Goto(t, "writeCount")
        /\ KeepLocked(t)
        /\ UNCHANGED <<clientTokens, autosuspendEnabled, condVar, threadCreated,
                       readCount, tokensLock>>
  /\ UNCHANGED <<kernelVars, suspendCounter, shouldSleep, success, clientVars>>

(* Mutant: the attempt goes on although the write has failed.              *)
IgnoreFailedWrite(t) ==
  /\ At(t, "writeCount")
  /\ savedCount' = IF CountAccepted(readCount[t]) THEN readCount[t]
                                                  ELSE savedCount
  /\ Goto(t, "writeState")
  /\ UNCHANGED <<wakeupCount, wakeSources, sharedVars, shouldSleep, readCount,
                 success, clientVars>>

(* WriteStringToFd(wakeupCount, mWakeupCountFd).                           *)
WriteWakeupCount(t) ==
  /\ At(t, "writeCount")
  /\ IF CountAccepted(readCount[t])
     THEN /\ savedCount' = readCount[t]
          /\ Goto(t, "writeState")
          /\ UNCHANGED <<autosuspendLock, tokensLock, condVar, threadCreated,
                         readCount>>
     ELSE /\ LoopTop(t, shouldSleep[t])
          /\ autosuspendLock' = Free
          /\ tokensLock' = Free
          /\ UNCHANGED savedCount
  /\ UNCHANGED <<wakeupCount, wakeSources, suspendCounter, autosuspendEnabled,
                 clientTokens, shouldSleep, success, clientVars>>

(* WriteStringToFd(kSleepState, mStateFd), then both mutexes are released. *)
WriteState(t, ok) ==
  /\ At(t, "writeState")
  /\ PmSuspend(ok)
  /\ success' = [success EXCEPT ![t] = ok]
  /\ shouldSleep' = [shouldSleep EXCEPT ![t] = TRUE]
  /\ autosuspendLock' = Free
  /\ tokensLock' = Free
  /\ Goto(t, "record")
  /\ UNCHANGED <<suspendCounter, autosuspendEnabled, threadCreated,
                 clientTokens, condVar, readCount, clientVars>>

(* readSuspendTime, updateSleepTime, readWakeupReasons, WakeupList::update:*)
(* the state they change belongs to other modules.                         *)
RecordAttempt(t) ==
  /\ At(t, "record")
  /\ Goto(t, "notify")
  /\ UNCHANGED <<kernelVars, sharedVars, shouldSleep, readCount, success,
                 clientVars>>

(* mControlService->notifyWakeup: calls every callback, holding no mutex.  *)
NotifyWakeup(t) ==
  /\ At(t, "notify")
  /\ Goto(t, "relock")
  /\ UNCHANGED <<kernelVars, sharedVars, shouldSleep, readCount, success,
                 clientVars>>

Relock(t) ==
  /\ At(t, "relock") /\ Unlocked
  /\ LoopTop(t, shouldSleep[t])
  /\ UNCHANGED <<kernelVars, suspendCounter, autosuspendEnabled, clientTokens,
                 autosuspendLock, tokensLock, shouldSleep, success, clientVars>>

(* The steps a thread takes by itself once it can.                         *)
ThreadStep(t) ==
  \/ Start(t) \/ SleepTimeout(t) \/ SleepWoken(t)
  \/ ReadWakeupCount(t) \/ ReadWakeupCountFails(t)
  \/ GotWakeupCount(t) \/ CounterWoken(t)
  \/ LockTokens(t) \/ CheckSuspend(t) \/ WriteWakeupCount(t)
  \/ \E ok \in BOOLEAN : WriteState(t, ok)
  \/ RecordAttempt(t) \/ NotifyWakeup(t) \/ Relock(t)

------------------------------------------------------------------------------
(* Wake locks.  release() is a oneway method: the binder driver delivers   *)
(* the calls on one object one after the other, and keeps the object alive *)
(* until they have returned.                                               *)

CallAcquire(w) ==
  /\ lockState[w] = "none"
  /\ lockState' = [lockState EXCEPT ![w] = "acquiring"]
  /\ UNCHANGED <<kernelVars, sharedVars, threadVars, released, call, ctl>>

(* The constructor of WakeLock: incSuspendCounter(mName).                  *)
IncSuspendCounter(w) ==
  /\ lockState[w] = "acquiring" /\ Unlocked
  /\ lockState' = [lockState EXCEPT ![w] = "counted"]
  /\ IF UseSuspendCounter
     THEN suspendCounter' = suspendCounter + 1 /\ UNCHANGED kernelVars
     ELSE Activate(WakeLockName[w]) /\ UNCHANGED suspendCounter
  /\ UNCHANGED <<autosuspendEnabled, threadCreated, clientTokens,
                 autosuspendLock, tokensLock, condVar, threadVars, released,
                 call, ctl>>

(* updateWakeLockStatOnAcquire, and the reply to the client.               *)
AcquireReturns(w) ==
  /\ lockState[w] = "counted"
  /\ lockState' = [lockState EXCEPT ![w] = "live"]
  /\ UNCHANGED <<kernelVars, sharedVars, threadVars, released, call, ctl>>

(* The client calls release(), again if it likes.                          *)
CallRelease(w) ==
  /\ lockState[w] = "live" /\ call[w] = "idle"
  /\ call' = [call EXCEPT ![w] = "release"]
  /\ UNCHANGED <<kernelVars, sharedVars, threadVars, lockState, released, ctl>>

(* Mutant: the destructor does not release.                                *)
DropUnreleased(w) ==
  /\ lockState[w] = "live" /\ call[w] = "idle"
  /\ lockState' = [lockState EXCEPT ![w] = "none"]
  /\ released' = [released EXCEPT ![w] = "unset"]
  /\ UNCHANGED <<kernelVars, sharedVars, threadVars, call, ctl>>

(* The last reference is gone (the client dropped it, or died): ~WakeLock. *)
DropWakeLock(w) ==
  /\ lockState[w] = "live" /\ call[w] = "idle"
  /\ call' = [call EXCEPT ![w] = "destroy"]
  /\ UNCHANGED <<kernelVars, sharedVars, threadVars, lockState, released, ctl>>

(* Mutants: nobody is notified, and a second release counts again.         *)
NotifyNone == UNCHANGED condVar
NotYetRunning(w) == released[w] # "running"

NotifyOne ==
  IF condVar = {} THEN condVar' = {}
  ELSE \E t \in condVar : condVar' = condVar \ {t}

NotYetReleased(w) == released[w] = "unset"

(* releaseOnce: call_once runs decSuspendCounter(mName) ...                *)
DecSuspendCounter(w) ==
  /\ call[w] # "idle" /\ NotYetReleased(w) /\ Unlocked
  /\ released' = [released EXCEPT ![w] = "running"]
  /\ IF UseSuspendCounter
     THEN /\ suspendCounter' = suspendCounter - 1
          /\ IF suspendCounter' = 0 THEN NotifyOne ELSE UNCHANGED condVar
          /\ UNCHANGED kernelVars
     ELSE Relax(WakeLockName[w]) /\ UNCHANGED <<suspendCounter, condVar>>
  /\ UNCHANGED <<autosuspendEnabled, threadCreated, clientTokens,
                 autosuspendLock, tokensLock, threadVars, lockState, call, ctl>>

(* The call returns; after the destructor the object is gone.              *)
CallReturns(w) ==
  /\ call' = [call EXCEPT ![w] = "idle"]
  /\ lockState' = IF call[w] = "destroy"
                  THEN [lockState EXCEPT ![w] = "none"] ELSE lockState
  /\ released' = [released EXCEPT ![w] =
                    IF call[w] = "destroy" THEN "unset" ELSE "set"]

(* ... then updateWakeLockStatOnRelease(mName, mPid).                      *)
ReleaseReturns(w) ==
  /\ released[w] = "running"
  /\ CallReturns(w)
  /\ UNCHANGED <<kernelVars, sharedVars, threadVars, ctl>>

(* call_once does nothing the second time.                                 *)
SkipRelease(w) ==
  /\ call[w] # "idle" /\ released[w] = "set"
  /\ CallReturns(w)
  /\ UNCHANGED <<kernelVars, sharedVars, threadVars, ctl>>

------------------------------------------------------------------------------
(* Calls of SuspendControlServiceInternal.                                 *)

CallControl(c, op) ==
  /\ ctl[c] = "idle"
  /\ ctl' = [ctl EXCEPT ![c] = op]
  /\ UNCHANGED <<kernelVars, sharedVars, threadVars, wakeLockVars>>

(* enableAutosuspend and disableAutosuspend first take the tokens' mutex.  *)
ControlLocksTokens(c) ==
  /\ ctl[c] # "idle" /\ tokensLock = Free
  /\ tokensLock' = c
  /\ UNCHANGED <<kernelVars, suspendCounter, autosuspendEnabled, threadCreated,
                 clientTokens, autosuspendLock, condVar, threadVars, clientVars>>

(* Mutant: a thread is made although there is one already.                 *)
InitAutosuspendAgain ==
  \E t \in Threads :
    /\ At(t, "none")
    /\ Goto(t, "start")
    /\ shouldSleep' = [shouldSleep EXCEPT ![t] = TRUE]
    /\ threadCreated' = TRUE

InitAutosuspendLocked ==
  IF threadCreated
  THEN UNCHANGED <<threadCreated, pc, shouldSleep>>
  ELSE \E t \in Threads :
         /\ At(t, "none")
         /\ Goto(t, "start")
         /\ shouldSleep' = [shouldSleep EXCEPT ![t] = TRUE]
         /\ threadCreated' = TRUE

EnableAutosuspend(c, token) ==
  /\ ctl[c] = "enable" /\ tokensLock = c /\ Unlocked
  /\ Relax(ZygoteWakelock)
  /\ clientTokens' = clientTokens \cup {token}
  /\ IF autosuspendEnabled
     THEN UNCHANGED <<autosuspendEnabled, threadCreated, pc, shouldSleep>>
     ELSE autosuspendEnabled' = TRUE /\ InitAutosuspendLocked
  /\ tokensLock' = Free
  /\ ctl' = [ctl EXCEPT ![c] = "idle"]
  /\ UNCHANGED <<suspendCounter, autosuspendLock, condVar, readCount, success,
                 wakeLockVars>>

DisableAutosuspend(c) ==
  /\ ctl[c] = "disable" /\ tokensLock = c /\ Unlocked
  /\ DisableAutosuspendLocked
  /\ tokensLock' = Free
  /\ ctl' = [ctl EXCEPT ![c] = "idle"]
  /\ UNCHANGED <<kernelVars, suspendCounter, threadCreated, autosuspendLock,
                 threadVars, wakeLockVars>>

(* forceSuspend: ignores the wake locks, and the count.                    *)
ForceSuspend(ok) ==
  /\ Unlocked
  /\ PmSuspend(ok)
  /\ UNCHANGED <<sharedVars, threadVars, clientVars>>

------------------------------------------------------------------------------
(* The world outside the service.                                          *)

(* A wakeup event, or init restarting zygote with its kernel wake lock.    *)
WakeupEvent(s) ==
  /\ s \in {ZygoteWakelock, EventSource} \ wakeSources
  /\ Activate(s)
  /\ UNCHANGED <<sharedVars, threadVars, clientVars>>

EventHandled ==
  /\ EventSource \in wakeSources
  /\ Relax(EventSource)
  /\ UNCHANGED <<sharedVars, threadVars, clientVars>>

------------------------------------------------------------------------------
WakeLockStep(w) ==
  \/ CallAcquire(w) \/ IncSuspendCounter(w) \/ AcquireReturns(w)
  \/ CallRelease(w) \/ DropWakeLock(w) \/ DecSuspendCounter(w)
  \/ ReleaseReturns(w) \/ SkipRelease(w)

ControlStep(c) ==
  \/ \E op \in {"enable", "disable"} : CallControl(c, op)
  \/ ControlLocksTokens(c)
  \/ \E token \in Tokens : EnableAutosuspend(c, token)
  \/ DisableAutosuspend(c)

Environment ==
  \/ \E ok \in BOOLEAN : ForceSuspend(ok)
  \/ \E s \in {ZygoteWakelock, EventSource} : WakeupEvent(s)
  \/ EventHandled

Next ==
  \/ \E t \in Threads : ThreadStep(t) \/ SpuriousWakeup(t)
  \/ \E w \in WakeLocks : WakeLockStep(w)
  \/ \E c \in Callers : ControlStep(c)
  \/ Environment

Spec == Init /\ [][Next]_vars

(***************************************************************************)
(* Fairness.  The scheduler runs a thread that can run, and wait_for keeps *)
(* its deadline whatever wakes it meanwhile (WF); the read of wakeup_count *)
(* does not fail for ever (SF); and a client call blocked on one of the    *)
(* two mutexes gets it if it is free again and again (SF): the thread      *)
(* leaves both free for at least the base sleep time after every attempt   *)
(* to suspend.  Nobody is obliged to call, to release or to handle an      *)
(* event, the callbacks notifyWakeup waits for may never return, and       *)
(* neither may a read of wakeup_count while a wakeup source is active.     *)
(***************************************************************************)
RunsByItself(t) == /\ ThreadStep(t)
                   /\ ~At(t, "notify")
                   /\ At(t, "readCount") => wakeSources = {}

Fairness ==
  /\ \A t \in Threads :
       /\ WF_vars(RunsByItself(t))
       /\ WF_vars(SleepTimeout(t))
       /\ SF_vars(ReadWakeupCount(t))
  /\ \A w \in WakeLocks :
       /\ SF_vars(IncSuspendCounter(w))
       /\ WF_vars(AcquireReturns(w))
       /\ SF_vars(DecSuspendCounter(w))
       /\ WF_vars(ReleaseReturns(w) \/ SkipRelease(w))
  /\ \A c \in Callers :
       /\ SF_vars(ControlLocksTokens(c))
       /\ SF_vars((\E token \in Tokens : EnableAutosuspend(c, token))
                    \/ DisableAutosuspend(c))

------------------------------------------------------------------------------
(* Safety.                                                                 *)

Alive(t) == pc[t] # "none"

(* The client holds the wake lock: acquireWakeLock has returned, and       *)
(* neither has release() been called nor the last reference been dropped.  *)
Held(w) == lockState[w] = "live" /\ released[w] = "unset" /\ call[w] = "idle"

(* The wake locks that mSuspendCounter stands for.                         *)
Counted == {w \in WakeLocks : /\ lockState[w] \in {"counted", "live"}
                              /\ released[w] = "unset"}

(* The autosuspend thread t has just put the system to sleep.              *)
Autosuspends(t) == At(t, "writeState") /\ pc'[t] # "writeState" /\ success'[t]

(* There is at most one autosuspend thread, and mAutosuspendThreadCreated  *)
(* tells whether there is one, however enableAutosuspend and               *)
(* disableAutosuspend are interleaved with its exit                        *)
(* (SystemSuspend.cpp:297-314, 405).                                       *)
SingleAutosuspendThread ==
  /\ \A t, u \in Threads : Alive(t) /\ Alive(u) => t = u
  /\ threadCreated <=> \E t \in Threads : Alive(t)

(* Autosuspend is enabled exactly while a client token is registered: the  *)
(* thread tests only the tokens before it suspends                         *)
(* (SystemSuspend.cpp:203-210, 358).                                       *)
TokensMatchEnabled == autosuspendEnabled <=> clientTokens # {}

(* mSuspendCounter counts the wake locks acquired and not yet released,    *)
(* whatever mixture of release() calls, repeated ones included, and of     *)
(* destructors ends them; so it never wraps below zero                     *)
(* (SystemSuspend.cpp:262-284, SystemSuspendAidl.cpp:44-49).               *)
CounterMatchesLocks ==
  suspendCounter = IF UseSuspendCounter THEN Cardinality(Counted) ELSE 0

(* No wakeup is lost: a thread blocked on mAutosuspendCondVar has reason   *)
(* to be, since what it waits for is not the case                          *)
(* (SystemSuspend.cpp:203-210, 277, 317-321, 341-343).                     *)
NoLostWakeup ==
  \A t \in condVar : /\ autosuspendEnabled
                     /\ At(t, "waitCounter") => suspendCounter > 0
                     /\ pc[t] \in {"sleeping", "waitCounter"}

(* The thread never puts the system to sleep while a client holds a wake   *)
(* lock ("Any allocated IWakeLock must block the device from suspending",  *)
(* ISystemSuspend.hal; SystemSuspend.cpp:363-377).                         *)
NoAutosuspendWhileHeld ==
  [][\A t \in Threads : Autosuspends(t) => \A w \in WakeLocks : ~Held(w)]_vars

(* The thread puts the system to sleep only if no wakeup event at all has  *)
(* happened since it read the count, long before, ahead of its wait for    *)
(* the wake locks (SystemSuspend.cpp:327-377).                             *)
SuspendUsesFreshCount ==
  [][\A t \in Threads :
       Autosuspends(t) => readCount[t] = wakeupCount /\ wakeSources = {}]_vars

(* Once autosuspend is disabled the thread does not put the system to      *)
(* sleep, even if it was past its own tests of mAutosuspendEnabled         *)
(* (SystemSuspend.cpp:212-216, 345-361).                                   *)
SuspendOnlyWhileEnabled ==
  [][\A t \in Threads : Autosuspends(t) => autosuspendEnabled]_vars

------------------------------------------------------------------------------
(* The inductive invariant behind the properties above: who holds which    *)
(* mutex and where, what the thread knows while it holds both, and how far *)
(* each wake lock is.                                                      *)

LocksMatchPc ==
  /\ \A t \in Threads :
       /\ autosuspendLock = t <=> pc[t] \in {"writeCount", "writeState"}
       /\ tokensLock = t <=> pc[t] \in {"wantLock", "writeCount", "writeState"}
  /\ \A c \in Callers : tokensLock = c => ctl[c] # "idle"

ReadyToSuspend ==
  \A t \in Threads :
    /\ pc[t] \in {"writeCount", "writeState"} =>
         suspendCounter = 0 /\ clientTokens # {}
    /\ At(t, "writeState") => savedCount = readCount[t] /\ savedCount # NoCount

WakeLockPhases ==
  \A w \in WakeLocks :
    /\ lockState[w] # "live" => released[w] = "unset" /\ call[w] = "idle"
    /\ released[w] = "running" => call[w] # "idle"

(* Without the counter the kernel stands for the wake locks, by name: no   *)
(* two wake locks, and no wake lock and kernel source, may share a name.   *)
NamesDistinct ==
  /\ \A v, w \in WakeLocks : WakeLockName[v] = WakeLockName[w] => v = w
  /\ \A w \in WakeLocks : WakeLockName[w] \notin {ZygoteWakelock, EventSource}

KernelKnowsLocks ==
  ~UseSuspendCounter => \A w \in Counted : WakeLockName[w] \in wakeSources

(* The inductive invariant: what each holder of mAutosuspendLock and       *)
(* mAutosuspendClientTokensLock may rely on, from any interleaving of the  *)
(* thread with enableAutosuspend, disableAutosuspend, acquireWakeLock and  *)
(* release (SystemSuspend.cpp:174-284, 297-407).                           *)
IndInv ==
  /\ TypeOK
  /\ LocksMatchPc
  /\ SingleAutosuspendThread
  /\ TokensMatchEnabled
  /\ NoLostWakeup
  /\ ReadyToSuspend
  /\ WakeLockPhases
  /\ CounterMatchesLocks

------------------------------------------------------------------------------
(* Liveness, under Fairness.                                               *)

(* Nothing keeps the system from suspending.                               *)
Idle == /\ autosuspendEnabled /\ suspendCounter = 0 /\ wakeSources = {}
        /\ \A c \in Callers : ctl[c] = "idle"

CallbacksReturn == []<>(\A t \in Threads : ~At(t, "notify"))

(* If nothing keeps the system from suspending any more, and the callbacks *)
(* return, the thread tries to suspend again and again: no wakeup is lost, *)
(* no lock stays held (SystemSuspend.cpp:310-403).                         *)
SuspendsWhenIdle ==
  CallbacksReturn /\ <>[]Idle => []<>(\E t \in Threads : At(t, "writeState"))

(* If autosuspend stays disabled, the callbacks return, no wakeup source   *)
(* keeps the read of wakeup_count blocked, and nobody but the thread keeps *)
(* the tokens' mutex (as the destructor does while it waits), the thread   *)
(* exits (SystemSuspend.cpp:311-314).                                      *)
ThreadExitsWhenDisabled ==
  CallbacksReturn /\ <>[](/\ ~autosuspendEnabled /\ wakeSources = {}
                          /\ tokensLock \in Threads \cup {Free})
    => <>[](\A t \in Threads : ~Alive(t))

(* A call of a client returns: with two mutexes, a thread that blocks on a *)
(* condition variable, sleeps in the kernel, and waits for callbacks that  *)
(* may hang, nobody waits for ever (SystemSuspend.cpp:174-216, 262-284,    *)
(* 398).                                                                   *)
ClientCallsReturn ==
  /\ UseSuspendCounter =>
       \A w \in WakeLocks :
         /\ (lockState[w] = "acquiring") ~> (lockState[w] = "live")
         /\ (call[w] # "idle") ~> (call[w] = "idle")
  /\ \A c \in Callers : (ctl[c] # "idle") ~> (ctl[c] = "idle")
==============================================================================
