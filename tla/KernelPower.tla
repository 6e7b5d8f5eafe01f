----------------------------- MODULE KernelPower -----------------------------
(***************************************************************************)
(* The part of the Linux power interface that the suspend service drives:  *)
(* /sys/power/wakeup_count, /sys/power/state, /sys/power/wake_lock and     *)
(* /sys/power/wake_unlock.  The kernel is not part of the repository; this *)
(* module says only what SystemSuspend.cpp relies on:                      *)
(*   - a wakeup source is active from its event until it is relaxed, and   *)
(*     relaxing it counts one more wakeup event;                           *)
(*   - reading wakeup_count blocks while a source is active;               *)
(*   - writing a count to wakeup_count fails unless it is the current one  *)
(*     and no source is active; a write that succeeds arms the check that  *)
(*     makes the next suspend fail if a wakeup event has arrived since;    *)
(*   - a write to wake_lock / wake_unlock activates / relaxes the source   *)
(*     with the name written.                                              *)
(***************************************************************************)
EXTENDS Integers

CONSTANTS
  MaxWakeups       \* bound on the number of wakeup events of a behaviour

ASSUME MaxWakeupsAssumption == MaxWakeups \in Nat

VARIABLES
  wakeupCount,     \* number of wakeup events the kernel has counted
  wakeSources,     \* names of the wakeup sources that are active
  savedCount       \* count the suspend check is armed with, NoCount if it is not

kernelVars == <<wakeupCount, wakeSources, savedCount>>

NoCount == -1

KernelTypeOK ==
  /\ wakeupCount \in Nat
  /\ savedCount \in Nat \cup {NoCount}

KernelInit ==
  /\ wakeupCount = 0
  /\ wakeSources = {}
  /\ savedCount = NoCount

(* A source becomes active.  An event that could not be counted later is   *)
(* not considered: this is where MaxWakeups cuts behaviours off.           *)
Activate(s) ==
  /\ wakeupCount < MaxWakeups
  /\ wakeSources' = wakeSources \cup {s}
  /\ UNCHANGED <<wakeupCount, savedCount>>

(* A source is relaxed; relaxing one that is not active has no effect.     *)
Relax(s) ==
  /\ wakeupCount' = IF s \in wakeSources THEN wakeupCount + 1 ELSE wakeupCount
  /\ wakeSources' = wakeSources \ {s}
  /\ UNCHANGED savedCount

(* Whether a write of count to wakeup_count is accepted.                   *)
CountAccepted(count) == count = wakeupCount /\ wakeSources = {}

(* An event has arrived since the check was armed.                         *)
WakeupPending ==
  savedCount # NoCount /\ ~CountAccepted(savedCount)

(* A write of "mem" to /sys/power/state returns with the result ok: it     *)
(* fails when a wakeup is pending and may fail for other reasons (a driver *)
(* that refuses, for one).  If ok, the system slept and has resumed: user  *)
(* space is frozen meanwhile, so the sleep takes no step of the model.     *)
PmSuspend(ok) ==
  /\ WakeupPending => ~ok
  /\ savedCount' = NoCount
  /\ UNCHANGED <<wakeupCount, wakeSources>>
==============================================================================
