--------------------------- MODULE AttemptRecords ----------------------------
(***************************************************************************)
(* What the autosuspend thread records after an attempt to suspend         *)
(* (SystemSuspend.cpp:382-396; RecordAttempt of SystemSuspend): first the  *)
(* sleep time and mSuspendInfo, from last_suspend_time, then the wakeup    *)
(* reason, from last_resume_reason.  Each has a mutex of its own, so       *)
(* getSuspendInfo and getWakeupStats may see the one without the other.    *)
(***************************************************************************)
EXTENDS SleepTime, WakeupList

CONSTANTS
  Attempts,           \* the attempts of the thread: success, the content of
                      \*   last_suspend_time and the ReasonFiles it meets
  Done,               \* there is nothing to record
  MaxAttempts         \* bound on the attempts of a behaviour

ASSUME AttemptsAssumption ==
  /\ MaxAttempts \in Nat
  /\ Done \notin Attempts
  /\ \A a \in Attempts : /\ a.success \in BOOLEAN
                          /\ a.content \in Seq(Nat)
                          /\ a.file \in ReasonFiles

VARIABLE
  pending             \* the attempt whose wakeup reason is to be recorded

vars == <<sleepTimeVars, wakeupVars, pending>>

Init == SleepTimeInit /\ WakeupInit /\ pending = Done

(* readSuspendTime, then updateSleepTime.                                  *)
RecordSleepTime(a) ==
  /\ pending = Done /\ Len(history) < MaxAttempts
  /\ a.file.readable => reasonsFd = "open"
  /\ UpdateSleepTime(a.success, a.content)
  /\ pending' = a
  /\ UNCHANGED wakeupVars

(* readWakeupReasons, reopenFileUsingFd if it failed, WakeupList::update.  *)
RecordReasons ==
  /\ pending # Done
  /\ RecordWakeup(pending.file)
  /\ pending' = Done
  /\ UNCHANGED sleepTimeVars

Next == (\E a \in Attempts : RecordSleepTime(a)) \/ RecordReasons

Spec == Init /\ [][Next]_vars

(* Every attempt is in both statistics, failed ones, ones whose suspend    *)
(* time cannot be parsed and ones whose reason cannot be read included: a  *)
(* reader of one and then of the other is at most one attempt off.  A list *)
(* with room for all reasons has each of them with all of its wakeups      *)
(* (SystemSuspend.cpp:382-396, 428-476).                                   *)
AttemptsInBoth ==
  /\ info.suspendAttemptCount =
       Len(wakeupHistory) + IF pending = Done THEN 0 ELSE 1
  /\ capacity >= Cardinality(ToSet(wakeupHistory)) =>
       \A k \in ToSet(wakeupHistory) : \E i \in DOMAIN wakeups :
         /\ wakeups[i].name = k
         /\ wakeups[i].count =
              Cardinality({m \in DOMAIN wakeupHistory : wakeupHistory[m] = k})
==============================================================================
