------------------------ MODULE SystemSuspendProofs --------------------------
(***************************************************************************)
(* Proofs about SystemSuspend, for any number of threads, callers, tokens  *)
(* and wake locks.  IndInv is inductive; it is split into the types, the   *)
(* protocol of the mutexes and of the condition variable, and the count of *)
(* the wake locks, which have a lemma each.                                *)
(***************************************************************************)
EXTENDS SystemSuspend, FiniteSetTheorems, TLAPS

(* The conjuncts of IndInv that are about the mutexes, the condition       *)
(* variable and the phases of the calls.                                   *)
Protocol ==
  /\ LocksMatchPc
  /\ SingleAutosuspendThread
  /\ TokensMatchEnabled
  /\ NoLostWakeup
  /\ ReadyToSuspend
  /\ WakeLockPhases

(* The types of what the helpers LoopTop, ExitThread, SleepEnds and        *)
(* AwaitCounter assign.                                                    *)
LoopTypes ==
  /\ threadCreated \in BOOLEAN
  /\ condVar \subseteq Threads
  /\ pc \in [Threads -> PC]
  /\ readCount \in [Threads -> Nat \cup {NoCount}]

(* ExitThread keeps the types of what it assigns.                          *)
LEMMA ExitThreadTypes ==
  ASSUME LoopTypes, NEW t \in Threads, ExitThread(t)
  PROVE  /\ threadCreated' \in BOOLEAN
         /\ pc' \in [Threads -> PC]
         /\ readCount' \in [Threads -> Nat \cup {NoCount}]
BY DEF LoopTypes, ExitThread, Goto, PC

(* The head of the loop keeps the types of what it assigns.                *)
LEMMA LoopTopTypes ==
  ASSUME LoopTypes, NEW t \in Threads, NEW sleep \in BOOLEAN, LoopTop(t, sleep)
  PROVE  LoopTypes'
<1>1. CASE ~autosuspendEnabled
  BY <1>1, ExitThreadTypes DEF LoopTop, LoopTypes
<1>2. CASE autosuspendEnabled /\ sleep
  BY <1>2 DEF LoopTop, LoopTypes, Goto, PC
<1>3. CASE autosuspendEnabled /\ ~sleep
  BY <1>3 DEF LoopTop, LoopTypes, Goto, PC
<1>4. QED
  BY <1>1, <1>2, <1>3

(* So do both waits on the condition variable.                             *)
LEMMA WaitTypes ==
  ASSUME LoopTypes, NEW t \in Threads, SleepEnds(t) \/ AwaitCounter(t)
  PROVE  LoopTypes'
<1>1. CASE SleepEnds(t)
  BY <1>1, ExitThreadTypes DEF SleepEnds, LoopTypes, Goto, PC
<1>2. CASE AwaitCounter(t)
  BY <1>2, ExitThreadTypes DEF AwaitCounter, LoopTypes, Goto, PC
<1>3. QED
  BY <1>1, <1>2

(* Every step keeps the protocol of the mutexes and of the condition       *)
(* variable.                                                               *)
LEMMA ProtocolStep ==
  CoreTypeOK /\ Protocol /\ [Next]_vars => Protocol'
<1> SUFFICES ASSUME CoreTypeOK, Protocol, [Next]_vars
             PROVE  Protocol'
  OBVIOUS
<1> USE ThreadsAssumption
    DEF CoreTypeOK, PC, vars, kernelVars, sharedVars, threadVars, wakeLockVars,
        clientVars, At, Goto, Unlocked, Protocol, LocksMatchPc,
        SingleAutosuspendThread, Alive, TokensMatchEnabled, NoLostWakeup,
        ReadyToSuspend, WakeLockPhases
<1>1. ASSUME NEW t \in Threads, Start(t)
     PROVE  Protocol'
  BY <1>1 DEF Start, LoopTop, ExitThread
<1>2. ASSUME NEW t \in Threads, SleepTimeout(t)
     PROVE  Protocol'
  BY <1>2 DEF SleepTimeout, SleepEnds, ExitThread
<1>3. ASSUME NEW t \in Threads, SleepWoken(t)
     PROVE  Protocol'
  BY <1>3 DEF SleepWoken, SleepEnds, ExitThread
<1>4. ASSUME NEW t \in Threads, ReadWakeupCount(t)
     PROVE  Protocol'
  BY <1>4 DEF ReadWakeupCount
<1>5. ASSUME NEW t \in Threads, ReadWakeupCountFails(t)
     PROVE  Protocol'
  BY <1>5 DEF ReadWakeupCountFails
<1>6. ASSUME NEW t \in Threads, GotWakeupCount(t)
     PROVE  Protocol'
  BY <1>6 DEF GotWakeupCount, LoopTop, AwaitCounter, ExitThread
<1>7. ASSUME NEW t \in Threads, CounterWoken(t)
     PROVE  Protocol'
  BY <1>7 DEF CounterWoken, AwaitCounter, ExitThread
<1>8. ASSUME NEW t \in Threads, SpuriousWakeup(t)
     PROVE  Protocol'
  BY <1>8 DEF SpuriousWakeup
<1>9. ASSUME NEW t \in Threads, LockTokens(t)
     PROVE  Protocol'
  BY <1>9 DEF LockTokens
<1>10. ASSUME NEW t \in Threads, CheckSuspend(t)
     PROVE  Protocol'
  BY <1>10 DEF CheckSuspend, LoopTop, ExitThread, DisableAutosuspendLocked,
         HasAliveToken, CounterIncreased, UnlockTokens, KeepLocked
<1>11. ASSUME NEW t \in Threads, WriteWakeupCount(t)
     PROVE  Protocol'
  BY <1>11 DEF WriteWakeupCount, LoopTop, ExitThread, CountAccepted,
         KernelTypeOK, NoCount
<1>12. ASSUME NEW t \in Threads, NEW ok \in BOOLEAN, WriteState(t, ok)
     PROVE  Protocol'
  BY <1>12 DEF WriteState, PmSuspend
<1>13. ASSUME NEW t \in Threads, RecordAttempt(t)
     PROVE  Protocol'
  BY <1>13 DEF RecordAttempt
<1>14. ASSUME NEW t \in Threads, NotifyWakeup(t)
     PROVE  Protocol'
  BY <1>14 DEF NotifyWakeup
<1>15. ASSUME NEW t \in Threads, Relock(t)
     PROVE  Protocol'
  BY <1>15 DEF Relock, LoopTop, ExitThread
<1>16. ASSUME NEW w \in WakeLocks, CallAcquire(w)
     PROVE  Protocol'
  BY <1>16 DEF CallAcquire
<1>17. ASSUME NEW w \in WakeLocks, IncSuspendCounter(w)
     PROVE  Protocol'
  BY <1>17 DEF IncSuspendCounter, Activate
<1>18. ASSUME NEW w \in WakeLocks, AcquireReturns(w)
     PROVE  Protocol'
  BY <1>18 DEF AcquireReturns
<1>19. ASSUME NEW w \in WakeLocks, CallRelease(w)
     PROVE  Protocol'
  BY <1>19 DEF CallRelease
<1>20. ASSUME NEW w \in WakeLocks, DropWakeLock(w)
     PROVE  Protocol'
  BY <1>20 DEF DropWakeLock
<1>21. ASSUME NEW w \in WakeLocks, DecSuspendCounter(w)
     PROVE  Protocol'
  BY <1>21 DEF DecSuspendCounter, Relax, NotifyOne, NotYetReleased
<1>22. ASSUME NEW w \in WakeLocks, ReleaseReturns(w)
     PROVE  Protocol'
  BY <1>22 DEF ReleaseReturns, CallReturns
<1>23. ASSUME NEW w \in WakeLocks, SkipRelease(w)
     PROVE  Protocol'
  BY <1>23 DEF SkipRelease, CallReturns
<1>24. ASSUME NEW c \in Callers, NEW op \in {"enable", "disable"},
            CallControl(c, op)
     PROVE  Protocol'
  BY <1>24 DEF CallControl
<1>25. ASSUME NEW c \in Callers, ControlLocksTokens(c)
     PROVE  Protocol'
  BY <1>25 DEF ControlLocksTokens
<1>26. ASSUME NEW c \in Callers, NEW token \in Tokens,
            EnableAutosuspend(c, token)
     PROVE  Protocol'
  BY <1>26 DEF EnableAutosuspend, Relax, InitAutosuspendLocked
<1>27. ASSUME NEW c \in Callers, DisableAutosuspend(c)
     PROVE  Protocol'
  BY <1>27 DEF DisableAutosuspend, DisableAutosuspendLocked
<1>28. ASSUME NEW ok \in BOOLEAN, ForceSuspend(ok)
     PROVE  Protocol'
  BY <1>28 DEF ForceSuspend, PmSuspend
<1>29. ASSUME NEW s \in {ZygoteWakelock, EventSource}, WakeupEvent(s)
     PROVE  Protocol'
  BY <1>29 DEF WakeupEvent, Activate
<1>30. ASSUME EventHandled
     PROVE  Protocol'
  BY <1>30 DEF EventHandled, Relax
<1>31. CASE UNCHANGED vars
  BY <1>31
<1>32. QED
  BY <1>1, <1>2, <1>3, <1>4, <1>5, <1>6, <1>7, <1>8, <1>9, <1>10, <1>11,
         <1>12, <1>13, <1>14, <1>15, <1>16, <1>17, <1>18, <1>19, <1>20,
         <1>21, <1>22, <1>23, <1>24, <1>25, <1>26, <1>27, <1>28, <1>29,
         <1>30, <1>31
     DEF Next, ThreadStep, WakeLockStep, ControlStep, Environment

(* The wake locks counted are finitely many.                               *)
LEMMA CountedFinite ==
  /\ IsFiniteSet(Counted) /\ Cardinality(Counted) \in Nat
  /\ Cardinality(Counted') \in Nat
BY WakeLocksAssumption, FS_Subset, FS_CardinalityType DEF Counted

(* Every step keeps mSuspendCounter equal to the number of wake locks it   *)
(* stands for: incSuspendCounter adds one to both, decSuspendCounter takes *)
(* one from both, and nothing else changes either.                         *)
LEMMA CounterStep ==
  CoreTypeOK /\ WakeLockPhases /\ CounterMatchesLocks /\ [Next]_vars
    => CounterMatchesLocks'
<1> SUFFICES ASSUME CoreTypeOK, WakeLockPhases, CounterMatchesLocks,
                    [Next]_vars
             PROVE  CounterMatchesLocks'
  OBVIOUS
<1> USE DEF CoreTypeOK, vars, sharedVars, wakeLockVars, clientVars, At,
            WakeLockPhases, CounterMatchesLocks
<1>1. ASSUME NEW t \in Threads, Start(t)
     PROVE  CounterMatchesLocks'
  BY <1>1 DEF Start, Counted
<1>2. ASSUME NEW t \in Threads, SleepTimeout(t)
     PROVE  CounterMatchesLocks'
  BY <1>2 DEF SleepTimeout, Counted
<1>3. ASSUME NEW t \in Threads, SleepWoken(t)
     PROVE  CounterMatchesLocks'
  BY <1>3 DEF SleepWoken, Counted
<1>4. ASSUME NEW t \in Threads, ReadWakeupCount(t)
     PROVE  CounterMatchesLocks'
  BY <1>4 DEF ReadWakeupCount, Counted
<1>5. ASSUME NEW t \in Threads, ReadWakeupCountFails(t)
     PROVE  CounterMatchesLocks'
  BY <1>5 DEF ReadWakeupCountFails, Counted
<1>6. ASSUME NEW t \in Threads, GotWakeupCount(t)
     PROVE  CounterMatchesLocks'
  BY <1>6 DEF GotWakeupCount, Counted
<1>7. ASSUME NEW t \in Threads, CounterWoken(t)
     PROVE  CounterMatchesLocks'
  BY <1>7 DEF CounterWoken, Counted
<1>8. ASSUME NEW t \in Threads, SpuriousWakeup(t)
     PROVE  CounterMatchesLocks'
  BY <1>8 DEF SpuriousWakeup, Counted
<1>9. ASSUME NEW t \in Threads, LockTokens(t)
     PROVE  CounterMatchesLocks'
  BY <1>9 DEF LockTokens, Counted
<1>10. ASSUME NEW t \in Threads, CheckSuspend(t)
     PROVE  CounterMatchesLocks'
  BY <1>10 DEF CheckSuspend, Counted
<1>11. ASSUME NEW t \in Threads, WriteWakeupCount(t)
     PROVE  CounterMatchesLocks'
  BY <1>11 DEF WriteWakeupCount, Counted
<1>12. ASSUME NEW t \in Threads, NEW ok \in BOOLEAN, WriteState(t, ok)
     PROVE  CounterMatchesLocks'
  BY <1>12 DEF WriteState, Counted
<1>13. ASSUME NEW t \in Threads, RecordAttempt(t)
     PROVE  CounterMatchesLocks'
  BY <1>13 DEF RecordAttempt, Counted
<1>14. ASSUME NEW t \in Threads, NotifyWakeup(t)
     PROVE  CounterMatchesLocks'
  BY <1>14 DEF NotifyWakeup, Counted
<1>15. ASSUME NEW t \in Threads, Relock(t)
     PROVE  CounterMatchesLocks'
  BY <1>15 DEF Relock, Counted
<1>16. ASSUME NEW w \in WakeLocks, CallAcquire(w)
     PROVE  CounterMatchesLocks'
  BY <1>16 DEF CallAcquire, Counted
<1>17. ASSUME NEW w \in WakeLocks, IncSuspendCounter(w)
     PROVE  CounterMatchesLocks'
  <2>1. w \notin Counted /\ Counted' = Counted \cup {w}
    BY <1>17 DEF IncSuspendCounter, Counted
  <2>2. Cardinality(Counted') = Cardinality(Counted) + 1
    BY <2>1, CountedFinite, FS_AddElement
  <2>3. QED
    BY <1>17, <2>2 DEF IncSuspendCounter
<1>18. ASSUME NEW w \in WakeLocks, AcquireReturns(w)
     PROVE  CounterMatchesLocks'
  BY <1>18 DEF AcquireReturns, Counted
<1>19. ASSUME NEW w \in WakeLocks, CallRelease(w)
     PROVE  CounterMatchesLocks'
  BY <1>19 DEF CallRelease, Counted
<1>20. ASSUME NEW w \in WakeLocks, DropWakeLock(w)
     PROVE  CounterMatchesLocks'
  BY <1>20 DEF DropWakeLock, Counted
<1>21. ASSUME NEW w \in WakeLocks, DecSuspendCounter(w)
     PROVE  CounterMatchesLocks'
  <2>1. w \in Counted /\ Counted' = Counted \ {w}
    BY <1>21 DEF DecSuspendCounter, NotYetReleased, Counted
  <2>2. Cardinality(Counted') = Cardinality(Counted) - 1
    BY <2>1, CountedFinite, FS_RemoveElement
  <2>3. QED
    BY <1>21, <2>2 DEF DecSuspendCounter
<1>22. ASSUME NEW w \in WakeLocks, ReleaseReturns(w)
     PROVE  CounterMatchesLocks'
  BY <1>22 DEF ReleaseReturns, CallReturns, Counted
<1>23. ASSUME NEW w \in WakeLocks, SkipRelease(w)
     PROVE  CounterMatchesLocks'
  BY <1>23 DEF SkipRelease, CallReturns, Counted
<1>24. ASSUME NEW c \in Callers, NEW op \in {"enable", "disable"},
            CallControl(c, op)
     PROVE  CounterMatchesLocks'
  BY <1>24 DEF CallControl, Counted
<1>25. ASSUME NEW c \in Callers, ControlLocksTokens(c)
     PROVE  CounterMatchesLocks'
  BY <1>25 DEF ControlLocksTokens, Counted
<1>26. ASSUME NEW c \in Callers, NEW token \in Tokens,
            EnableAutosuspend(c, token)
     PROVE  CounterMatchesLocks'
  BY <1>26 DEF EnableAutosuspend, Counted
<1>27. ASSUME NEW c \in Callers, DisableAutosuspend(c)
     PROVE  CounterMatchesLocks'
  BY <1>27 DEF DisableAutosuspend, Counted
<1>28. ASSUME NEW ok \in BOOLEAN, ForceSuspend(ok)
     PROVE  CounterMatchesLocks'
  BY <1>28 DEF ForceSuspend, Counted
<1>29. ASSUME NEW s \in {ZygoteWakelock, EventSource}, WakeupEvent(s)
     PROVE  CounterMatchesLocks'
  BY <1>29 DEF WakeupEvent, Counted
<1>30. ASSUME EventHandled
     PROVE  CounterMatchesLocks'
  BY <1>30 DEF EventHandled, Counted
<1>31. CASE UNCHANGED vars
  BY <1>31 DEF Counted
<1>32. QED
  BY <1>1, <1>2, <1>3, <1>4, <1>5, <1>6, <1>7, <1>8, <1>9, <1>10, <1>11,
         <1>12, <1>13, <1>14, <1>15, <1>16, <1>17, <1>18, <1>19, <1>20,
         <1>21, <1>22, <1>23, <1>24, <1>25, <1>26, <1>27, <1>28, <1>29,
         <1>30, <1>31
     DEF Next, ThreadStep, WakeLockStep, ControlStep, Environment

(* Every step keeps the types.  That mSuspendCounter stays a natural       *)
(* number rests on its meaning after the step.                             *)
LEMMA TypeStep ==
  CoreTypeOK /\ CounterMatchesLocks' /\ [Next]_vars => CoreTypeOK'
<1> SUFFICES ASSUME CoreTypeOK, CounterMatchesLocks', [Next]_vars
             PROVE  CoreTypeOK'
  OBVIOUS
<1> USE WakeLocksAssumption
    DEF CoreTypeOK, KernelTypeOK, LoopTypes, vars, kernelVars, sharedVars,
        threadVars, wakeLockVars, clientVars, Goto
<1>1. ASSUME NEW t \in Threads, Start(t)
     PROVE  CoreTypeOK'
  BY <1>1, LoopTopTypes, WaitTypes, ExitThreadTypes DEF Start, PC
<1>2. ASSUME NEW t \in Threads, SleepTimeout(t)
     PROVE  CoreTypeOK'
  BY <1>2, LoopTopTypes, WaitTypes, ExitThreadTypes DEF SleepTimeout, PC
<1>3. ASSUME NEW t \in Threads, SleepWoken(t)
     PROVE  CoreTypeOK'
  BY <1>3, LoopTopTypes, WaitTypes, ExitThreadTypes DEF SleepWoken, PC
<1>4. ASSUME NEW t \in Threads, ReadWakeupCount(t)
     PROVE  CoreTypeOK'
  BY <1>4 DEF ReadWakeupCount, PC
<1>5. ASSUME NEW t \in Threads, ReadWakeupCountFails(t)
     PROVE  CoreTypeOK'
  BY <1>5 DEF ReadWakeupCountFails, PC
<1>6. ASSUME NEW t \in Threads, GotWakeupCount(t)
     PROVE  CoreTypeOK'
  <2>1. CASE readCount[t] = NoCount
    BY <1>6, <2>1, LoopTopTypes DEF GotWakeupCount
  <2>2. CASE readCount[t] # NoCount
    BY <1>6, <2>2, WaitTypes DEF GotWakeupCount
  <2>3. QED
    BY <2>1, <2>2
<1>7. ASSUME NEW t \in Threads, CounterWoken(t)
     PROVE  CoreTypeOK'
  BY <1>7, LoopTopTypes, WaitTypes, ExitThreadTypes DEF CounterWoken, PC
<1>8. ASSUME NEW t \in Threads, SpuriousWakeup(t)
     PROVE  CoreTypeOK'
  BY <1>8 DEF SpuriousWakeup, PC
<1>9. ASSUME NEW t \in Threads, LockTokens(t)
     PROVE  CoreTypeOK'
  BY <1>9 DEF LockTokens, PC
<1>10. ASSUME NEW t \in Threads, CheckSuspend(t)
     PROVE  CoreTypeOK'
  <2> USE DEF CheckSuspend, UnlockTokens, KeepLocked
  <2>1. CASE ~HasAliveToken
    BY <1>10, <2>1, ExitThreadTypes DEF DisableAutosuspendLocked
  <2>2. CASE HasAliveToken /\ CounterIncreased
    BY <1>10, <2>2, LoopTopTypes
  <2>3. CASE HasAliveToken /\ ~CounterIncreased
    BY <1>10, <2>3 DEF PC
  <2>4. QED
    BY <2>1, <2>2, <2>3
<1>11. ASSUME NEW t \in Threads, WriteWakeupCount(t)
     PROVE  CoreTypeOK'
  BY <1>11, LoopTopTypes, WaitTypes, ExitThreadTypes DEF WriteWakeupCount,
         CountAccepted, PC
<1>12. ASSUME NEW t \in Threads, NEW ok \in BOOLEAN, WriteState(t, ok)
     PROVE  CoreTypeOK'
  BY <1>12 DEF WriteState, PmSuspend, PC
<1>13. ASSUME NEW t \in Threads, RecordAttempt(t)
     PROVE  CoreTypeOK'
  BY <1>13 DEF RecordAttempt, PC
<1>14. ASSUME NEW t \in Threads, NotifyWakeup(t)
     PROVE  CoreTypeOK'
  BY <1>14 DEF NotifyWakeup, PC
<1>15. ASSUME NEW t \in Threads, Relock(t)
     PROVE  CoreTypeOK'
  BY <1>15, LoopTopTypes, WaitTypes, ExitThreadTypes DEF Relock, PC
<1>16. ASSUME NEW w \in WakeLocks, CallAcquire(w)
     PROVE  CoreTypeOK'
  BY <1>16 DEF CallAcquire
<1>17. ASSUME NEW w \in WakeLocks, IncSuspendCounter(w)
     PROVE  CoreTypeOK'
  BY <1>17 DEF IncSuspendCounter, Activate
<1>18. ASSUME NEW w \in WakeLocks, AcquireReturns(w)
     PROVE  CoreTypeOK'
  BY <1>18 DEF AcquireReturns
<1>19. ASSUME NEW w \in WakeLocks, CallRelease(w)
     PROVE  CoreTypeOK'
  BY <1>19 DEF CallRelease
<1>20. ASSUME NEW w \in WakeLocks, DropWakeLock(w)
     PROVE  CoreTypeOK'
  BY <1>20 DEF DropWakeLock
<1>21. ASSUME NEW w \in WakeLocks, DecSuspendCounter(w)
     PROVE  CoreTypeOK'
  <2>1. suspendCounter' \in Nat
    BY CountedFinite DEF CounterMatchesLocks
  <2>2. condVar' \subseteq Threads
    BY <1>21 DEF DecSuspendCounter, NotifyOne
  <2>3. wakeupCount' \in Nat /\ savedCount' = savedCount
    BY <1>21 DEF DecSuspendCounter, Relax
  <2>4. QED
    BY <1>21, <2>1, <2>2, <2>3 DEF DecSuspendCounter
<1>22. ASSUME NEW w \in WakeLocks, ReleaseReturns(w)
     PROVE  CoreTypeOK'
  BY <1>22 DEF ReleaseReturns, CallReturns
<1>23. ASSUME NEW w \in WakeLocks, SkipRelease(w)
     PROVE  CoreTypeOK'
  BY <1>23 DEF SkipRelease, CallReturns
<1>24. ASSUME NEW c \in Callers, NEW op \in {"enable", "disable"},
            CallControl(c, op)
     PROVE  CoreTypeOK'
  BY <1>24 DEF CallControl
<1>25. ASSUME NEW c \in Callers, ControlLocksTokens(c)
     PROVE  CoreTypeOK'
  BY <1>25 DEF ControlLocksTokens
<1>26. ASSUME NEW c \in Callers, NEW token \in Tokens,
            EnableAutosuspend(c, token)
     PROVE  CoreTypeOK'
  <2>1. wakeupCount' \in Nat /\ savedCount' = savedCount
    BY <1>26 DEF EnableAutosuspend, Relax
  <2>2. /\ autosuspendEnabled' \in BOOLEAN
        /\ threadCreated' \in BOOLEAN
        /\ pc' \in [Threads -> PC]
        /\ shouldSleep' \in [Threads -> BOOLEAN]
    <3>1. CASE autosuspendEnabled \/ threadCreated
      BY <1>26, <3>1 DEF EnableAutosuspend, InitAutosuspendLocked
    <3>2. CASE ~autosuspendEnabled /\ ~threadCreated
      BY <1>26, <3>2 DEF EnableAutosuspend, InitAutosuspendLocked, PC
    <3>3. QED
      BY <3>1, <3>2
  <2>3. QED
    BY <1>26, <2>1, <2>2 DEF EnableAutosuspend
<1>27. ASSUME NEW c \in Callers, DisableAutosuspend(c)
     PROVE  CoreTypeOK'
  BY <1>27 DEF DisableAutosuspend, DisableAutosuspendLocked
<1>28. ASSUME NEW ok \in BOOLEAN, ForceSuspend(ok)
     PROVE  CoreTypeOK'
  BY <1>28 DEF ForceSuspend, PmSuspend
<1>29. ASSUME NEW s \in {ZygoteWakelock, EventSource}, WakeupEvent(s)
     PROVE  CoreTypeOK'
  BY <1>29 DEF WakeupEvent, Activate
<1>30. ASSUME EventHandled
     PROVE  CoreTypeOK'
  BY <1>30 DEF EventHandled, Relax
<1>31. CASE UNCHANGED vars
  BY <1>31
<1>32. QED
  BY <1>1, <1>2, <1>3, <1>4, <1>5, <1>6, <1>7, <1>8, <1>9, <1>10, <1>11,
         <1>12, <1>13, <1>14, <1>15, <1>16, <1>17, <1>18, <1>19, <1>20,
         <1>21, <1>22, <1>23, <1>24, <1>25, <1>26, <1>27, <1>28, <1>29,
         <1>30, <1>31
     DEF Next, ThreadStep, WakeLockStep, ControlStep, Environment

(* When the kernel stands for the wake locks and their names are distinct, *)
(* the sources of the wake locks acquired and not released stay active.    *)
LEMMA KernelLockStep ==
  CoreTypeOK /\ WakeLockPhases /\ NamesDistinct /\ KernelKnowsLocks /\ [Next]_vars
    => KernelKnowsLocks'
<1> SUFFICES ASSUME CoreTypeOK, WakeLockPhases, NamesDistinct,
                    KernelKnowsLocks, [Next]_vars
             PROVE  KernelKnowsLocks'
  OBVIOUS
<1> USE WakeLocksAssumption
    DEF CoreTypeOK, vars, kernelVars, wakeLockVars, clientVars, NamesDistinct,
        WakeLockPhases, KernelKnowsLocks, Counted
<1>1. ASSUME NEW t \in Threads, Start(t)
     PROVE  KernelKnowsLocks'
  BY <1>1 DEF Start
<1>2. ASSUME NEW t \in Threads, SleepTimeout(t)
     PROVE  KernelKnowsLocks'
  BY <1>2 DEF SleepTimeout
<1>3. ASSUME NEW t \in Threads, SleepWoken(t)
     PROVE  KernelKnowsLocks'
  BY <1>3 DEF SleepWoken
<1>4. ASSUME NEW t \in Threads, ReadWakeupCount(t)
     PROVE  KernelKnowsLocks'
  BY <1>4 DEF ReadWakeupCount
<1>5. ASSUME NEW t \in Threads, ReadWakeupCountFails(t)
     PROVE  KernelKnowsLocks'
  BY <1>5 DEF ReadWakeupCountFails
<1>6. ASSUME NEW t \in Threads, GotWakeupCount(t)
     PROVE  KernelKnowsLocks'
  BY <1>6 DEF GotWakeupCount
<1>7. ASSUME NEW t \in Threads, CounterWoken(t)
     PROVE  KernelKnowsLocks'
  BY <1>7 DEF CounterWoken
<1>8. ASSUME NEW t \in Threads, SpuriousWakeup(t)
     PROVE  KernelKnowsLocks'
  BY <1>8 DEF SpuriousWakeup
<1>9. ASSUME NEW t \in Threads, LockTokens(t)
     PROVE  KernelKnowsLocks'
  BY <1>9 DEF LockTokens
<1>10. ASSUME NEW t \in Threads, CheckSuspend(t)
     PROVE  KernelKnowsLocks'
  BY <1>10 DEF CheckSuspend
<1>11. ASSUME NEW t \in Threads, WriteWakeupCount(t)
     PROVE  KernelKnowsLocks'
  BY <1>11 DEF WriteWakeupCount
<1>12. ASSUME NEW t \in Threads, NEW ok \in BOOLEAN, WriteState(t, ok)
     PROVE  KernelKnowsLocks'
  BY <1>12 DEF WriteState, PmSuspend
<1>13. ASSUME NEW t \in Threads, RecordAttempt(t)
     PROVE  KernelKnowsLocks'
  BY <1>13 DEF RecordAttempt
<1>14. ASSUME NEW t \in Threads, NotifyWakeup(t)
     PROVE  KernelKnowsLocks'
  BY <1>14 DEF NotifyWakeup
<1>15. ASSUME NEW t \in Threads, Relock(t)
     PROVE  KernelKnowsLocks'
  BY <1>15 DEF Relock
<1>16. ASSUME NEW w \in WakeLocks, CallAcquire(w)
     PROVE  KernelKnowsLocks'
  BY <1>16 DEF CallAcquire
<1>17. ASSUME NEW w \in WakeLocks, IncSuspendCounter(w)
     PROVE  KernelKnowsLocks'
  BY <1>17 DEF IncSuspendCounter, Activate
<1>18. ASSUME NEW w \in WakeLocks, AcquireReturns(w)
     PROVE  KernelKnowsLocks'
  BY <1>18 DEF AcquireReturns
<1>19. ASSUME NEW w \in WakeLocks, CallRelease(w)
     PROVE  KernelKnowsLocks'
  BY <1>19 DEF CallRelease
<1>20. ASSUME NEW w \in WakeLocks, DropWakeLock(w)
     PROVE  KernelKnowsLocks'
  BY <1>20 DEF DropWakeLock
<1>21. ASSUME NEW w \in WakeLocks, DecSuspendCounter(w)
     PROVE  KernelKnowsLocks'
  BY <1>21 DEF DecSuspendCounter, Relax
<1>22. ASSUME NEW w \in WakeLocks, ReleaseReturns(w)
     PROVE  KernelKnowsLocks'
  BY <1>22 DEF ReleaseReturns, CallReturns
<1>23. ASSUME NEW w \in WakeLocks, SkipRelease(w)
     PROVE  KernelKnowsLocks'
  BY <1>23 DEF SkipRelease, CallReturns
<1>24. ASSUME NEW c \in Callers, NEW op \in {"enable", "disable"},
            CallControl(c, op)
     PROVE  KernelKnowsLocks'
  BY <1>24 DEF CallControl
<1>25. ASSUME NEW c \in Callers, ControlLocksTokens(c)
     PROVE  KernelKnowsLocks'
  BY <1>25 DEF ControlLocksTokens
<1>26. ASSUME NEW c \in Callers, NEW token \in Tokens,
            EnableAutosuspend(c, token)
     PROVE  KernelKnowsLocks'
  BY <1>26 DEF EnableAutosuspend, Relax
<1>27. ASSUME NEW c \in Callers, DisableAutosuspend(c)
     PROVE  KernelKnowsLocks'
  BY <1>27 DEF DisableAutosuspend
<1>28. ASSUME NEW ok \in BOOLEAN, ForceSuspend(ok)
     PROVE  KernelKnowsLocks'
  BY <1>28 DEF ForceSuspend, PmSuspend
<1>29. ASSUME NEW s \in {ZygoteWakelock, EventSource}, WakeupEvent(s)
     PROVE  KernelKnowsLocks'
  BY <1>29 DEF WakeupEvent, Activate
<1>30. ASSUME EventHandled
     PROVE  KernelKnowsLocks'
  BY <1>30 DEF EventHandled, Relax
<1>31. CASE UNCHANGED vars
  BY <1>31
<1>32. QED
  BY <1>1, <1>2, <1>3, <1>4, <1>5, <1>6, <1>7, <1>8, <1>9, <1>10, <1>11,
         <1>12, <1>13, <1>14, <1>15, <1>16, <1>17, <1>18, <1>19, <1>20,
         <1>21, <1>22, <1>23, <1>24, <1>25, <1>26, <1>27, <1>28, <1>29,
         <1>30, <1>31
     DEF Next, ThreadStep, WakeLockStep, ControlStep, Environment

(* The mutex of the tokens is only ever taken by threads and callers.      *)
LEMMA TokensLockStep ==
  TypeOK /\ [Next]_vars => tokensLock' \in Threads \cup Callers \cup {Free}
<1> SUFFICES ASSUME TypeOK, [Next]_vars
             PROVE  tokensLock' \in Threads \cup Callers \cup {Free}
  OBVIOUS
<1> USE DEF TypeOK, sharedVars
<1>1. ASSUME NEW t \in Threads, ThreadStep(t) \/ SpuriousWakeup(t)
      PROVE  tokensLock' \in Threads \cup Callers \cup {Free}
  BY <1>1 DEF ThreadStep, SpuriousWakeup, Start, SleepTimeout, SleepWoken,
              ReadWakeupCount, ReadWakeupCountFails, GotWakeupCount,
              CounterWoken, LockTokens, CheckSuspend, UnlockTokens,
              WriteWakeupCount, WriteState, RecordAttempt, NotifyWakeup, Relock
<1>2. ASSUME NEW w \in WakeLocks, WakeLockStep(w)
      PROVE  tokensLock' = tokensLock
  BY <1>2 DEF WakeLockStep, CallAcquire, IncSuspendCounter, AcquireReturns,
              CallRelease, DropWakeLock, DecSuspendCounter, ReleaseReturns,
              SkipRelease
<1>3. ASSUME NEW c \in Callers, ControlStep(c)
      PROVE  tokensLock' \in Threads \cup Callers \cup {Free}
  BY <1>3 DEF ControlStep, CallControl, ControlLocksTokens, EnableAutosuspend,
              DisableAutosuspend
<1>4. ASSUME Environment \/ UNCHANGED vars
      PROVE  tokensLock' = tokensLock
  BY <1>4 DEF Environment, ForceSuspend, WakeupEvent, EventHandled, vars
<1>5. QED
  BY <1>1, <1>2, <1>3, <1>4 DEF Next

(* The initial state satisfies the inductive invariant.                    *)
LEMMA InitIndInv == Init => IndInv /\ KernelKnowsLocks
<1> SUFFICES ASSUME Init PROVE IndInv /\ KernelKnowsLocks
  OBVIOUS
<1>1. Counted = {}
  BY DEF Init, Counted
<1>2. TypeOK
  BY DEF Init, KernelInit, TypeOK, CoreTypeOK, KernelTypeOK, NoCount, PC
<1>3. Protocol
  BY ThreadsAssumption
     DEF Init, Protocol, LocksMatchPc, SingleAutosuspendThread, Alive,
         TokensMatchEnabled, NoLostWakeup, ReadyToSuspend, WakeLockPhases, At
<1>4. CounterMatchesLocks /\ KernelKnowsLocks
  BY <1>1, FS_EmptySet DEF Init, CounterMatchesLocks, KernelKnowsLocks
<1>5. QED
  BY <1>2, <1>3, <1>4 DEF IndInv, Protocol

(* IndInv is inductive.                                                    *)
LEMMA IndInvStep == IndInv /\ [Next]_vars => IndInv'
<1> SUFFICES ASSUME IndInv, [Next]_vars PROVE IndInv'
  OBVIOUS
<1>1. Protocol'
  BY ProtocolStep DEF IndInv, Protocol, TypeOK
<1>2. CounterMatchesLocks'
  BY CounterStep DEF IndInv, TypeOK
<1>3. TypeOK'
  BY <1>2, TypeStep, TokensLockStep DEF IndInv, TypeOK
<1>4. QED
  BY <1>1, <1>2, <1>3 DEF IndInv, Protocol

(* IndInv holds in every state of every behaviour of the suspend service   *)
(* (SystemSuspend.cpp:174-407), whatever its clients do.                   *)
THEOREM Invariance == Spec => []IndInv
<1>1. Init => IndInv
  BY InitIndInv
<1>2. QED
  BY <1>1, IndInvStep, PTL DEF Spec

(* The state of the service keeps its types; in particular mSuspendCounter *)
(* never wraps below zero.                                                 *)
THEOREM TypeCorrect == Spec => []TypeOK
<1>1. IndInv => TypeOK
  BY DEF IndInv
<1>2. QED
  BY <1>1, Invariance, PTL

(* There is never a second autosuspend thread, and the flag                *)
(* mAutosuspendThreadCreated is exact (SystemSuspend.cpp:297-314, 405).    *)
THEOREM OneThread == Spec => []SingleAutosuspendThread
<1>1. IndInv => SingleAutosuspendThread
  BY DEF IndInv
<1>2. QED
  BY <1>1, Invariance, PTL

(* Autosuspend is enabled exactly while a client token is registered, for  *)
(* any number of callers and tokens (SystemSuspend.cpp:174-216, 358).      *)
THEOREM TokensExact == Spec => []TokensMatchEnabled
<1>1. IndInv => TokensMatchEnabled
  BY DEF IndInv
<1>2. QED
  BY <1>1, Invariance, PTL

(* mSuspendCounter is the number of wake locks acquired and not released   *)
(* (SystemSuspend.cpp:262-284).                                            *)
THEOREM CounterExact == Spec => []CounterMatchesLocks
<1>1. IndInv => CounterMatchesLocks
  BY DEF IndInv
<1>2. QED
  BY <1>1, Invariance, PTL

(* No thread is left blocked on mAutosuspendCondVar once what it waits for *)
(* is the case (SystemSuspend.cpp:203-210, 277, 317-343).                  *)
THEOREM NoWakeupLost == Spec => []NoLostWakeup
<1>1. IndInv => NoLostWakeup
  BY DEF IndInv
<1>2. QED
  BY <1>1, Invariance, PTL

(* The only step in which thread t puts the system to sleep is WriteState. *)
LEMMA AutosuspendsIsWriteState ==
  ASSUME IndInv, Next, NEW t \in Threads, Autosuspends(t)
  PROVE  \E ok \in BOOLEAN : WriteState(t, ok) /\ ok
<1> USE DEF IndInv, TypeOK, CoreTypeOK, Autosuspends, At, Goto, threadVars
<1>1. ASSUME NEW u \in Threads, ThreadStep(u), u # t
      PROVE  FALSE
  BY <1>1 DEF SingleAutosuspendThread, Alive, ThreadStep, Start, SleepTimeout,
              SleepWoken, ReadWakeupCount, ReadWakeupCountFails,
              GotWakeupCount, CounterWoken, LockTokens, CheckSuspend,
              WriteWakeupCount, WriteState, RecordAttempt, NotifyWakeup, Relock
<1>2. ASSUME NEW u \in Threads, SpuriousWakeup(u)
      PROVE  FALSE
  BY <1>2 DEF SpuriousWakeup
<1>3. ASSUME NEW w \in WakeLocks, WakeLockStep(w)
      PROVE  FALSE
  BY <1>3 DEF WakeLockStep, CallAcquire, IncSuspendCounter, AcquireReturns,
              CallRelease, DropWakeLock, DecSuspendCounter, ReleaseReturns,
              SkipRelease
<1>4. ASSUME NEW c \in Callers, ControlStep(c)
      PROVE  FALSE
  BY <1>4 DEF ControlStep, CallControl, ControlLocksTokens, EnableAutosuspend,
              DisableAutosuspend, InitAutosuspendLocked
<1>5. ASSUME Environment
      PROVE  FALSE
  BY <1>5 DEF Environment, ForceSuspend, WakeupEvent, EventHandled
<1>6. ASSUME ThreadStep(t)
      PROVE  \E ok \in BOOLEAN : WriteState(t, ok) /\ ok
  BY <1>6 DEF ThreadStep, Start, SleepTimeout, SleepWoken, ReadWakeupCount,
              ReadWakeupCountFails, GotWakeupCount, CounterWoken, LockTokens,
              CheckSuspend, WriteWakeupCount, WriteState, RecordAttempt,
              NotifyWakeup, Relock, LoopTop, ExitThread
<1>7. QED
  BY <1>1, <1>2, <1>3, <1>4, <1>5, <1>6 DEF Next

(* What a successful write to /sys/power/state by the thread implies.      *)
LEMMA AutosuspendFacts ==
  ASSUME IndInv, Next, NEW t \in Threads, Autosuspends(t)
  PROVE  /\ suspendCounter = 0
         /\ autosuspendEnabled
         /\ readCount[t] = wakeupCount
         /\ wakeSources = {}
<1>1. WriteState(t, TRUE)
  BY AutosuspendsIsWriteState
<1>2. suspendCounter = 0 /\ autosuspendEnabled
  BY <1>1 DEF IndInv, ReadyToSuspend, TokensMatchEnabled, WriteState, At
<1>3. savedCount = readCount[t] /\ savedCount # NoCount
  BY <1>1 DEF IndInv, ReadyToSuspend, WriteState, At
<1>4. readCount[t] = wakeupCount /\ wakeSources = {}
  BY <1>1, <1>3 DEF WriteState, PmSuspend, WakeupPending, CountAccepted
<1>5. QED
  BY <1>2, <1>4

(* The thread puts the system to sleep only on the count it has read       *)
(* (SystemSuspend.cpp:327-377).                                            *)
THEOREM FreshCount == Spec => SuspendUsesFreshCount
<1>1. IndInv /\ [Next]_vars =>
        [\A t \in Threads :
           Autosuspends(t) => readCount[t] = wakeupCount /\ wakeSources = {}]_vars
  BY AutosuspendFacts
<1>2. QED
  BY <1>1, Invariance, PTL DEF Spec, SuspendUsesFreshCount

(* The thread does not put the system to sleep once autosuspend is         *)
(* disabled (SystemSuspend.cpp:212-216, 345-361).                          *)
THEOREM OnlyWhileEnabled == Spec => SuspendOnlyWhileEnabled
<1>1. IndInv /\ [Next]_vars =>
        [\A t \in Threads : Autosuspends(t) => autosuspendEnabled]_vars
  BY AutosuspendFacts
<1>2. QED
  BY <1>1, Invariance, PTL DEF Spec, SuspendOnlyWhileEnabled

(* With the counter no wake lock is held when the thread puts the system   *)
(* to sleep, because the counter is zero; without it, because the kernel   *)
(* refuses to sleep while the source of a wake lock is active.             *)
LEMMA NoLockIsHeld ==
  ASSUME IndInv, UseSuspendCounter \/ KernelKnowsLocks, Next,
         NEW t \in Threads, Autosuspends(t), NEW w \in WakeLocks
  PROVE  ~Held(w)
<1>1. suspendCounter = 0 /\ wakeSources = {}
  BY AutosuspendFacts
<1>2. Counted = {}
  <2>1. CASE UseSuspendCounter
    BY <1>1, <2>1, CountedFinite, FS_EmptySet DEF IndInv, CounterMatchesLocks
  <2>2. CASE ~UseSuspendCounter
    BY <1>1, <2>2 DEF KernelKnowsLocks
  <2>3. QED
    BY <2>1, <2>2
<1>3. QED
  BY <1>2 DEF Held, Counted

(* The thread never puts the system to sleep while a client holds a wake   *)
(* lock (SystemSuspend.cpp:363-377): always with mSuspendCounter, and with *)
(* /sys/power/wake_lock if no two wake locks share a name.                 *)
THEOREM WakeLocksBlockSuspend ==
  ASSUME UseSuspendCounter \/ NamesDistinct
  PROVE  Spec => NoAutosuspendWhileHeld
<1> DEFINE Inv == IndInv /\ (UseSuspendCounter \/ KernelKnowsLocks)
<1>1. Init => Inv
  BY InitIndInv
<1>2. Inv /\ [Next]_vars => Inv'
  BY IndInvStep, KernelLockStep DEF IndInv, TypeOK
<1>3. Inv /\ [Next]_vars =>
        [\A t \in Threads :
           Autosuspends(t) => \A w \in WakeLocks : ~Held(w)]_vars
  BY NoLockIsHeld
<1>4. QED
  BY <1>1, <1>2, <1>3, PTL DEF Spec, NoAutosuspendWhileHeld

==============================================================================
