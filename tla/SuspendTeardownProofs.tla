------------------------ MODULE SuspendTeardownProofs ------------------------
(***************************************************************************)
(* Proofs about SuspendTeardown.  The invariant of SystemSuspend holds up  *)
(* to the end of the destructor, but for the type of tokensLock: once the  *)
(* destructor has the tokens' mutex it keeps it, and that is what keeps    *)
(* the autosuspend thread from every further attempt.                      *)
(***************************************************************************)
EXTENDS SuspendTeardown, SystemSuspendProofs

TeardownInv ==
  /\ CoreTypeOK
  /\ Protocol
  /\ CounterMatchesLocks
  /\ dtor # "no" => NoClients /\ tokensLock = Destructor
  /\ dtor \in {"waiting", "destroyed"} => ~autosuspendEnabled

(* The members that the destructor's part of the invariant is about.       *)
DestructorKeeps ==
  UNCHANGED <<tokensLock, lockState, ctl>> /\ (autosuspendEnabled' => autosuspendEnabled)

(* While the destructor has the tokens' mutex the thread does not take it  *)
(* from it, and does not enable autosuspend.                               *)
LEMMA ThreadLeavesMutex ==
  ASSUME TeardownInv, tokensLock = Destructor,
         NEW t \in Threads, ThreadStep(t) \/ SpuriousWakeup(t)
  PROVE  DestructorKeeps
<1>1. pc[t] \notin {"wantLock", "writeCount", "writeState"} /\ tokensLock # Free
      /\ autosuspendEnabled \in BOOLEAN
  BY DestructorAssumption DEF TeardownInv, Protocol, LocksMatchPc, CoreTypeOK
<1> USE DEF At, DestructorKeeps, sharedVars, clientVars, wakeLockVars
<1>2. CASE SpuriousWakeup(t)
  BY <1>2 DEF SpuriousWakeup
<1>3. CASE Start(t) \/ SleepTimeout(t) \/ SleepWoken(t)
  BY <1>3 DEF Start, SleepTimeout, SleepWoken
<1>4. CASE ReadWakeupCount(t) \/ ReadWakeupCountFails(t)
  BY <1>4 DEF ReadWakeupCount, ReadWakeupCountFails
<1>5. CASE GotWakeupCount(t) \/ CounterWoken(t)
  BY <1>5 DEF GotWakeupCount, CounterWoken
<1>6. CASE LockTokens(t) \/ CheckSuspend(t) \/ WriteWakeupCount(t)
           \/ \E ok \in BOOLEAN : WriteState(t, ok)
  BY <1>1, <1>6 DEF LockTokens, CheckSuspend, WriteWakeupCount, WriteState
<1>7. CASE RecordAttempt(t) \/ NotifyWakeup(t) \/ Relock(t)
  BY <1>7 DEF RecordAttempt, NotifyWakeup, Relock
<1>8. QED
  BY <1>2, <1>3, <1>4, <1>5, <1>6, <1>7 DEF ThreadStep

(* A step of the service, while the object exists.                         *)
LEMMA ServiceStep ==
  ASSUME TeardownInv,
         Exists(\/ \E t \in Threads : ThreadStep(t) \/ SpuriousWakeup(t)
                \/ ClientStep
                \/ \E s \in {ZygoteWakelock, EventSource} : WakeupEvent(s)
                \/ EventHandled)
  PROVE  TeardownInv'
<1>1. Next /\ dtor' = dtor
  BY DEF Exists, ClientStep, Next, Environment
<1>2. Protocol' /\ CounterMatchesLocks' /\ CoreTypeOK'
  <2>1. Protocol' /\ CounterMatchesLocks'
    BY <1>1, ProtocolStep, CounterStep DEF TeardownInv, Protocol
  <2>2. QED
    BY <1>1, <2>1, TypeStep DEF TeardownInv
<1>3. ASSUME dtor # "no" PROVE DestructorKeeps
  <2>1. tokensLock = Destructor /\ ~ClientStep
    BY <1>3 DEF TeardownInv, ClientStep
  <2>2. CASE \E t \in Threads : ThreadStep(t) \/ SpuriousWakeup(t)
    BY <2>1, <2>2, ThreadLeavesMutex
  <2>3. CASE (\E s \in {ZygoteWakelock, EventSource} : WakeupEvent(s)) \/ EventHandled
    BY <2>3 DEF WakeupEvent, EventHandled, DestructorKeeps, sharedVars,
                clientVars, wakeLockVars
  <2>4. QED
    BY <2>1, <2>2, <2>3 DEF Exists
<1>4. QED
  BY <1>1, <1>2, <1>3 DEF TeardownInv, DestructorKeeps, NoClients

(* The destructor takes the tokens' mutex.                                 *)
LEMMA BeginStep ==
  ASSUME TeardownInv, BeginDestruction
  PROVE  TeardownInv'
<1>1. /\ tokensLock = Free /\ tokensLock' = Destructor /\ dtor' = "wantLock"
      /\ NoClients
      /\ UNCHANGED <<kernelVars, suspendCounter, autosuspendEnabled, threadCreated,
                     clientTokens, autosuspendLock, condVar, threadVars, clientVars>>
  BY DEF BeginDestruction
<1>2. LocksMatchPc'
  BY <1>1, ThreadsAssumption, DestructorAssumption
  DEF TeardownInv, Protocol, LocksMatchPc, threadVars, clientVars
<1>3. Protocol'
  BY <1>1, <1>2
  DEF TeardownInv, Protocol, SingleAutosuspendThread, Alive, TokensMatchEnabled,
      NoLostWakeup, ReadyToSuspend, WakeLockPhases, At, threadVars, clientVars,
      wakeLockVars, kernelVars
<1>4. CoreTypeOK' /\ CounterMatchesLocks' /\ NoClients'
  BY <1>1
  DEF TeardownInv, CoreTypeOK, KernelTypeOK, kernelVars, threadVars, clientVars,
      wakeLockVars, CounterMatchesLocks, Counted, NoClients
<1>5. QED
  BY <1>1, <1>3, <1>4 DEF TeardownInv

(* disableAutosuspendLocked, and the beginning of the wait.                *)
LEMMA DisableStep ==
  ASSUME TeardownInv, DisableAndWait
  PROVE  TeardownInv'
<1>1. /\ clientTokens' = {} /\ autosuspendEnabled' = FALSE
      /\ condVar' = IF autosuspendEnabled THEN {} ELSE condVar
      /\ dtor = "wantLock" /\ tokensLock = Destructor /\ NoClients
      /\ UNCHANGED <<kernelVars, suspendCounter, threadCreated, autosuspendLock,
                     tokensLock, threadVars, clientVars>>
  BY DEF DisableAndWait, DisableAutosuspendLocked, TeardownInv
<1>2. \A t \in Threads : pc[t] \notin {"writeCount", "writeState"}
  BY <1>1, DestructorAssumption DEF TeardownInv, Protocol, LocksMatchPc
<1>3. Protocol'
  BY <1>1, <1>2
  DEF TeardownInv, Protocol, LocksMatchPc, SingleAutosuspendThread, Alive,
      TokensMatchEnabled, NoLostWakeup, ReadyToSuspend, WakeLockPhases, At,
      threadVars, clientVars, wakeLockVars, kernelVars
<1>4. CoreTypeOK' /\ CounterMatchesLocks' /\ NoClients'
  BY <1>1
  DEF TeardownInv, CoreTypeOK, KernelTypeOK, kernelVars, threadVars, clientVars,
      wakeLockVars, CounterMatchesLocks, Counted, NoClients
<1>5. QED
  BY <1>1, <1>3, <1>4 DEF TeardownInv

(* A step that leaves the service alone.                                   *)
LEMMA WaitStep ==
  ASSUME TeardownInv, UNCHANGED vars,
         dtor' = dtor \/ (dtor = "waiting" /\ dtor' \in {"waiting", "destroyed"})
  PROVE  TeardownInv'
<1>1. Protocol' /\ CounterMatchesLocks' /\ CoreTypeOK'
  <2>1. Protocol' /\ CounterMatchesLocks'
    BY ProtocolStep, CounterStep DEF TeardownInv, Protocol
  <2>2. QED
    BY <2>1, TypeStep DEF TeardownInv
<1>2. QED
  BY <1>1 DEF TeardownInv, NoClients, vars, sharedVars, clientVars, wakeLockVars

(* TeardownInv holds up to the end of the destructor.                      *)
THEOREM TeardownInvariant == TeardownSpec => []TeardownInv
<1>1. TeardownInit => TeardownInv
  <2> SUFFICES ASSUME TeardownInit PROVE TeardownInv
    OBVIOUS
  <2>1. IndInv /\ dtor = "no"
    BY InitIndInv DEF TeardownInit
  <2>2. QED
    BY <2>1 DEF IndInv, TypeOK, TeardownInv, Protocol
<1>2. TeardownInv /\ [TeardownNext]_teardownVars => TeardownInv'
  <2> SUFFICES ASSUME TeardownInv, [TeardownNext]_teardownVars PROVE TeardownInv'
    OBVIOUS
  <2>1. CASE DestructorSpurious \/ DestructorWoken \/ DestructorTimeout
    <3>1. UNCHANGED vars /\ dtor = "waiting" /\ dtor' \in {"waiting", "destroyed"}
      BY <2>1 DEF DestructorSpurious, DestructorWoken, DestructorTimeout
    <3>2. QED
      BY <3>1, WaitStep
  <2>2. CASE UNCHANGED teardownVars
    BY <2>2, WaitStep DEF teardownVars
  <2>3. QED
    BY <2>1, <2>2, ServiceStep, BeginStep, DisableStep DEF TeardownNext
<1>3. QED
  BY <1>1, <1>2, PTL DEF TeardownSpec

(* Once the destructor has begun to wait, autosuspend is disabled and the  *)
(* thread is in no attempt to suspend, wherever it was before              *)
(* (SystemSuspend.cpp:233-244).                                            *)
THEOREM TeardownIsQuiet == TeardownSpec => []NoAttemptDuringTeardown
<1>1. ASSUME TeardownInv PROVE NoAttemptDuringTeardown
  <2> SUFFICES ASSUME dtor \in {"waiting", "destroyed"}
               PROVE  /\ ~autosuspendEnabled
                      /\ \A t \in Threads : pc[t] \notin {"writeCount", "writeState"}
    BY DEF NoAttemptDuringTeardown
  <2>1. ~autosuspendEnabled /\ tokensLock = Destructor
    BY <1>1 DEF TeardownInv
  <2>2. \A t \in Threads : pc[t] \notin {"writeCount", "writeState"}
    BY <1>1, <2>1, DestructorAssumption DEF TeardownInv, Protocol, LocksMatchPc
  <2>3. QED
    BY <2>1, <2>2
<1>2. QED
  BY <1>1, TeardownInvariant, PTL
==============================================================================
