------------------------------ MODULE SleepTime ------------------------------
(***************************************************************************)
(* How long the autosuspend thread sleeps between attempts, and the        *)
(* statistics of the attempts: readSuspendTime, updateSleepTime and        *)
(* mSuspendInfo of suspend/1.0/default/SystemSuspend.cpp, and the          *)
(* configuration main.cpp gives them.  Both run in the autosuspend thread  *)
(* after each write to /sys/power/state, under mSuspendInfoLock, so one    *)
(* attempt is one step, of the module AttemptRecords.                      *)
(*                                                                         *)
(* Times reported by the kernel are in ticks, TicksPerMilli to the         *)
(* millisecond (nanoseconds in the code); a scale factor, a double in the  *)
(* code, is a fraction: 1.9 is [num |-> 19, den |-> 10].                   *)
(***************************************************************************)
EXTENDS Integers, Sequences, FiniteSetsExt

CONSTANTS
  BaseSleepTime, MaxSleepTime,       \* kSleepTimeConfig, in milliseconds
  Scales,                            \* the values of sleepTimeScaleFactor
  BackoffThreshold,
  ShortSuspendThreshold,             \* in milliseconds
  TicksPerMilli

ASSUME ConfigAssumption ==
  /\ BaseSleepTime \in Nat /\ MaxSleepTime \in Nat
  /\ Scales \subseteq [num : Nat, den : Nat \ {0}]
  /\ BackoffThreshold \in Nat /\ ShortSuspendThreshold \in Nat
  /\ TicksPerMilli \in Nat \ {0}

VARIABLES
  failedBackoffEnabled, shortBackoffEnabled,
  scale,              \* the rest of kSleepTimeConfig
  sleepTime,          \* mSleepTime
  numBad,             \* mNumConsecutiveBadSuspends
  info,               \* mSuspendInfo
  history             \* the attempts so far, for the properties only

config == <<failedBackoffEnabled, shortBackoffEnabled, scale>>
sleepTimeVars == <<config, sleepTime, numBad, info, history>>

(* main: a system property, or the default, for each of the three; the     *)
(* other fields are the constants above.                                   *)
SleepTimeConfig ==
  /\ failedBackoffEnabled \in BOOLEAN /\ shortBackoffEnabled \in BOOLEAN
  /\ scale \in Scales

SleepTimeInit ==
  /\ SleepTimeConfig
  /\ sleepTime = BaseSleepTime
  /\ numBad = 0
  /\ info = [suspendAttemptCount |-> 0, failedSuspendCount |-> 0,
             shortSuspendCount |-> 0, suspendTimeMillis |-> 0,
             shortSuspendTimeMillis |-> 0, suspendOverheadTimeMillis |-> 0,
             failedSuspendOverheadTimeMillis |-> 0, newBackoffCount |-> 0,
             backoffContinueCount |-> 0, sleepTimeMillis |-> 0]
  /\ history = <<>>

(* a / b rounded as std::chrono::round does: to nearest, halves to even.   *)
RoundDiv(a, b) ==
  LET q == a \div b
      r == 2 * (a % b)
  IN  IF r > b \/ (r = b /\ q % 2 = 1) THEN q + 1 ELSE q

Millis(ticks) == RoundDiv(ticks, TicksPerMilli)

MinOf(a, b) == IF a <= b THEN a ELSE b

(* What readSuspendTime makes of the numbers in last_suspend_time: zeros   *)
(* unless it reads both.                                                   *)
ReadSuspendTime(content) ==
  IF Len(content) < 2 THEN [overhead |-> 0, time |-> 0]
  ELSE [overhead |-> content[1], time |-> content[2]]

(* Mutant: a failed attempt may count as short.                            *)
IsShortTime(success, t) ==
  t.time > 0 /\ t.time < ShortSuspendThreshold * TicksPerMilli

IsShort(success, t) ==
  success /\ t.time > 0 /\ t.time < ShortSuspendThreshold * TicksPerMilli

IsBad(success, t) ==
  \/ failedBackoffEnabled /\ ~success
  \/ shortBackoffEnabled /\ IsShort(success, t)

(* The bookkeeping of mSuspendInfo, but for the two counts of backoffs.    *)
Account(success, t) ==
  LET n(b) == IF b THEN 1 ELSE 0
      short == IsShort(success, t)
  IN  [info EXCEPT
         !.suspendAttemptCount = @ + 1,
         !.sleepTimeMillis = @ + sleepTime,
         !.suspendOverheadTimeMillis = @ + n(success) * Millis(t.overhead),
         !.suspendTimeMillis = @ + n(success) * Millis(t.time),
         !.failedSuspendCount = @ + n(~success),
         !.failedSuspendOverheadTimeMillis =
            @ + n(~success) * Millis(t.overhead),
         !.shortSuspendCount = @ + n(short),
         !.shortSuspendTimeMillis = @ + n(short) * Millis(t.time)]

ScaledSleepTime ==
  MinOf(RoundDiv(sleepTime * scale.num, scale.den), MaxSleepTime)

(* Mutants: the run of bad attempts is not ended, and the threshold is one *)
(* too high.                                                               *)
GoodWithoutReset(success, t) ==
  /\ ~IsBad(success, t)
  /\ sleepTime' = BaseSleepTime
  /\ info' = Account(success, t)
  /\ UNCHANGED numBad
AboveThreshold == numBad > BackoffThreshold

AtThreshold == numBad >= BackoffThreshold

GoodSuspend(success, t) ==
  /\ ~IsBad(success, t)
  /\ numBad' = 0
  /\ sleepTime' = BaseSleepTime
  /\ info' = Account(success, t)

BadSuspend(success, t) ==
  /\ IsBad(success, t)
  /\ numBad' = numBad + 1
  /\ IF AtThreshold
     THEN /\ sleepTime' = ScaledSleepTime
          /\ info' = IF numBad = BackoffThreshold
                     THEN [Account(success, t) EXCEPT !.newBackoffCount = @ + 1]
                     ELSE [Account(success, t) EXCEPT
                             !.backoffContinueCount = @ + 1]
     ELSE /\ UNCHANGED sleepTime
          /\ info' = Account(success, t)

UpdateSleepTime(success, content) ==
  LET t == ReadSuspendTime(content)
  IN  /\ GoodSuspend(success, t) \/ BadSuspend(success, t)
      /\ history' = Append(history, [success |-> success, t |-> t])
      /\ UNCHANGED config

------------------------------------------------------------------------------
(* The documented behaviour, computed from the whole history.              *)

(* The number of consecutive bad attempts that end with the i-th: those    *)
(* after the last one that was not bad.                                    *)
BadRun(i) ==
  i - Max({0} \cup {j \in 1 .. i : ~IsBad(history[j].success, history[j].t)})

(* S**n, as a recursive function that can be reasoned about.               *)
Power(S, n) ==
  LET power[i \in 0 .. n] == IF i = 0 THEN 1 ELSE S * power[i - 1]
  IN  power[n]

Distance(a, b) == IF a <= b THEN b - a ELSE a - b

(* s is the time the comment at SystemSuspend.cpp:409-419 documents before *)
(* the next attempt after n bad ones, min(B * S**k, M) with S = num / den, *)
(* up to what the code's rounding to half a millisecond at each of the k   *)
(* scalings can add up to, later scalings scaling it too: the distance is  *)
(* at most 1/2 * (1 + S + ... + S**(k - 1)), and none if S is integral.    *)
(* Both sides are multiplied by den**k and by S - 1.                       *)
IsDocumented(s, n) ==
  IF n <= BackoffThreshold THEN s = BaseSleepTime
  ELSE IF scale.num = scale.den THEN s = MinOf(BaseSleepTime, MaxSleepTime)
  ELSE LET nums == Power(scale.num, n - BackoffThreshold)
           dens == Power(scale.den, n - BackoffThreshold)
       IN  (scale.num - scale.den) *
             Distance(s * dens, MinOf(BaseSleepTime * nums, MaxSleepTime * dens))
           <= (scale.den \div 2) * (nums - dens)

(* The sleep time obeys the documented formula in the number of            *)
(* consecutive bad attempts, short and failed ones mixed, whichever of the *)
(* two counts as bad, for scale factors of at least one: exactly if the    *)
(* factor is integral, and with no more than the accumulated rounding if   *)
(* not (SystemSuspend.cpp:409-476).                                        *)
SleepTimeFollowsFormula == IsDocumented(sleepTime, BadRun(Len(history)))

(* A backoff is counted as new when a run of bad attempts crosses the      *)
(* threshold and as a continuation for every bad attempt after that, and   *)
(* no attempt is counted twice (SuspendInfo.aidl,                          *)
(* SystemSuspend.cpp:460-465).                                             *)
BackoffsCounted ==
  /\ info.newBackoffCount =
       Cardinality({i \in 1 .. Len(history) : BadRun(i) = BackoffThreshold + 1})
  /\ info.backoffContinueCount =
       Cardinality({i \in 1 .. Len(history) : BadRun(i) > BackoffThreshold + 1})

(* Short suspends are successful ones and their time is part of the time   *)
(* spent in suspend, whatever the rounding; no attempt is both failed and  *)
(* short (SystemSuspend.cpp:428-451).                                      *)
ShortSuspendsArePartOfSuspends ==
  /\ info.failedSuspendCount + info.shortSuspendCount <= info.suspendAttemptCount
  /\ info.shortSuspendTimeMillis <= info.suspendTimeMillis
  /\ info.shortSuspendTimeMillis <=
       info.shortSuspendCount * ShortSuspendThreshold
==============================================================================
