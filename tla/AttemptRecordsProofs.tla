------------------------- MODULE AttemptRecordsProofs -------------------------
(***************************************************************************)
(* Proofs about AttemptRecords, and so about SleepTime and WakeupList, for *)
(* any configuration, any capacity and any attempts.                       *)
(***************************************************************************)
EXTENDS AttemptRecords, SequenceLemmas

------------------------------------------------------------------------------
(* The sleep time.                                                         *)

Times == [overhead : Nat, time : Nat]
Record == [success : BOOLEAN, t : Times]
InfoType ==
  [suspendAttemptCount : Nat, failedSuspendCount : Nat,
   shortSuspendCount : Nat, suspendTimeMillis : Nat,
   shortSuspendTimeMillis : Nat, suspendOverheadTimeMillis : Nat,
   failedSuspendOverheadTimeMillis : Nat, newBackoffCount : Nat,
   backoffContinueCount : Nat, sleepTimeMillis : Nat]

SleepTimeTypes ==
  /\ SleepTimeConfig
  /\ sleepTime \in Nat
  /\ numBad \in Nat
  /\ info \in InfoType
  /\ history \in Seq(Record)

(* The counter of the code is the length of the run of bad attempts.       *)
NumBadIsRun == numBad = BadRun(Len(history))

SleepTimeInv ==
  /\ SleepTimeTypes
  /\ NumBadIsRun
  /\ BackoffsCounted
  /\ ShortSuspendsArePartOfSuspends

(* Rounding to milliseconds gives a natural number, and does not exceed a  *)
(* threshold that the exact time is below.                                 *)
LEMMA RoundDivBounds ==
  ASSUME NEW a \in Nat, NEW b \in Nat \ {0}
  PROVE  /\ RoundDiv(a, b) \in Nat
         /\ \A c \in Nat : a < c * b => RoundDiv(a, b) <= c
<1> DEFINE q == a \div b
<1>1. q \in Nat /\ b * q <= a
  OBVIOUS
<1>2. RoundDiv(a, b) \in {q, q + 1}
  BY DEF RoundDiv
<1> HIDE DEF q
<1>3. ASSUME NEW c \in Nat, a < c * b PROVE q + 1 <= c
  <2> SUFFICES ASSUME c <= q PROVE FALSE
    BY <1>1
  <2>1. c * b <= b * q
    BY <1>1
  <2>2. c * b \in Nat /\ b * q \in Nat
    BY <1>1
  <2>3. QED
    BY <1>1, <1>3, <2>1, <2>2
<1>4. QED
  BY <1>1, <1>2, <1>3

(* An attempt that backs off, and the run of such attempts that ends with  *)
(* the i-th, of a history h and a configuration.                           *)
Bad(failed, short, r) ==
  \/ failed /\ ~r.success
  \/ short /\ IsShort(r.success, r.t)

Good(h, failed, short, i) == {0} \cup {j \in 1 .. i : ~Bad(failed, short, h[j])}

RunOf(h, failed, short, i) == i - Max(Good(h, failed, short, i))

LEMMA BadRunIsRunOf ==
  /\ \A i : BadRun(i) = RunOf(history, failedBackoffEnabled, shortBackoffEnabled, i)
  /\ \A i : BadRun(i)' =
             RunOf(history', failedBackoffEnabled', shortBackoffEnabled', i)
BY DEF BadRun, IsBad, RunOf, Good, Bad

(* One attempt more leaves the earlier runs as they were, and lengthens the*)
(* last one or ends it.                                                    *)
LEMMA RunOfAppend ==
  ASSUME NEW h \in Seq(Record), NEW r \in Record, NEW f, NEW s
  PROVE  /\ \A i \in 0 .. Len(h) :
              /\ RunOf(h, f, s, i) \in Nat
              /\ RunOf(Append(h, r), f, s, i) = RunOf(h, f, s, i)
         /\ RunOf(Append(h, r), f, s, Len(h) + 1) =
              IF Bad(f, s, r) THEN RunOf(h, f, s, Len(h)) + 1 ELSE 0
<1> DEFINE g == Append(h, r)
           n == Len(h)
<1>1. /\ n \in Nat /\ g[n + 1] = r
      /\ \A j \in 1 .. n : g[j] = h[j]
  OBVIOUS
<1> HIDE DEF g, n
<1>2. ASSUME NEW i \in 0 .. n
      PROVE  /\ Good(h, f, s, i) = Good(g, f, s, i)
             /\ Good(h, f, s, i) \in SUBSET (0 .. i) /\ 0 \in Good(h, f, s, i)
  <2>1. \A j \in 1 .. i : g[j] = h[j]
    BY <1>1
  <2>2. QED
    BY <1>1, <2>1 DEF Good
<1>3. ASSUME NEW i \in 0 .. n
      PROVE  /\ RunOf(h, f, s, i) \in Nat
             /\ RunOf(g, f, s, i) = RunOf(h, f, s, i)
  <2>1. Max(Good(h, f, s, i)) \in 0 .. i
    <3>1. i \in Nat /\ Good(h, f, s, i) \in SUBSET (0 .. i) /\ Good(h, f, s, i) # {}
      BY <1>1, <1>2
    <3>2. Max(Good(h, f, s, i)) \in Good(h, f, s, i)
      BY <3>1, MaxProperties
    <3>3. QED
      BY <3>1, <3>2
  <2>2. QED
    BY <1>1, <1>2, <2>1 DEF RunOf
<1>4. ASSUME Bad(f, s, r) PROVE RunOf(g, f, s, n + 1) = RunOf(h, f, s, n) + 1
  <2>1. Good(g, f, s, n + 1) = Good(g, f, s, n)
    BY <1>1, <1>4 DEF Good
  <2>2. Good(g, f, s, n + 1) = Good(h, f, s, n)
    BY <1>1, <1>2, <2>1
  <2>3. Max(Good(h, f, s, n)) \in 0 .. n
    <3>1. Good(h, f, s, n) \in SUBSET (0 .. n) /\ Good(h, f, s, n) # {}
      BY <1>1, <1>2
    <3>2. Max(Good(h, f, s, n)) \in Good(h, f, s, n)
      BY <1>1, <3>1, MaxProperties
    <3>3. QED
      BY <3>1, <3>2
  <2>4. RunOf(g, f, s, n + 1) = RunOf(h, f, s, n) + 1
    BY <1>1, <2>2, <2>3 DEF RunOf
  <2>5. QED
    BY <1>4, <2>4
<1>5. ASSUME ~Bad(f, s, r) PROVE RunOf(g, f, s, n + 1) = 0
  <2>1. /\ n + 1 \in Nat
        /\ n + 1 \in Good(g, f, s, n + 1)
        /\ Good(g, f, s, n + 1) \in SUBSET (0 .. n + 1)
        /\ \A y \in Good(g, f, s, n + 1) : y <= n + 1
    BY <1>1, <1>5 DEF Good
  <2>2. Max(Good(g, f, s, n + 1)) = n + 1
    BY <2>1, MaxIsUnique
  <2>3. RunOf(g, f, s, n + 1) = 0
    BY <1>1, <2>2 DEF RunOf
  <2>4. QED
    BY <1>5, <2>3
<1>6. QED
  BY <1>3, <1>4, <1>5 DEF n, g

(* The attempts that start a backoff, and those that continue one.         *)
NewBackoffs(h, f, s) == {i \in 1 .. Len(h) : RunOf(h, f, s, i) = BackoffThreshold + 1}
Continued(h, f, s) == {i \in 1 .. Len(h) : RunOf(h, f, s, i) > BackoffThreshold + 1}

LEMMA BackoffsOfAppend ==
  ASSUME NEW h \in Seq(Record), NEW r \in Record, NEW f, NEW s
  PROVE  LET g == Append(h, r)
             run == RunOf(h, f, s, Len(h))
         IN  /\ Cardinality(NewBackoffs(g, f, s)) =
                   Cardinality(NewBackoffs(h, f, s)) +
                     IF Bad(f, s, r) /\ run = BackoffThreshold THEN 1 ELSE 0
             /\ Cardinality(Continued(g, f, s)) =
                   Cardinality(Continued(h, f, s)) +
                     IF Bad(f, s, r) /\ run > BackoffThreshold THEN 1 ELSE 0
<1> DEFINE g == Append(h, r)
           n == Len(h)
           run == RunOf(h, f, s, n)
           last == RunOf(g, f, s, n + 1)
<1>1. n \in Nat /\ Len(g) = n + 1 /\ BackoffThreshold \in Nat
  BY ConfigAssumption
<1>2. /\ \A i \in 0 .. n : /\ RunOf(h, f, s, i) \in Nat
                           /\ RunOf(g, f, s, i) = RunOf(h, f, s, i)
      /\ last = IF Bad(f, s, r) THEN run + 1 ELSE 0
      /\ run \in Nat
  <2>1. /\ \A i \in 0 .. n : /\ RunOf(h, f, s, i) \in Nat
                             /\ RunOf(g, f, s, i) = RunOf(h, f, s, i)
        /\ last = IF Bad(f, s, r) THEN run + 1 ELSE 0
    BY RunOfAppend, Zenon
  <2>2. n \in 0 .. n
    BY <1>1
  <2>3. run \in Nat
    BY <2>1, <2>2, Zenon
  <2>4. QED
    BY <2>1, <2>3, Zenon
<1> HIDE DEF g, n, run, last
<1>3. \A i \in 1 .. n : i \in 0 .. n /\ i \in 1 .. n + 1
  BY <1>1
<1>4. /\ NewBackoffs(h, f, s) \in SUBSET (1 .. n)
      /\ NewBackoffs(g, f, s) \in SUBSET (1 .. n + 1)
      /\ \A i \in 1 .. n : i \in NewBackoffs(h, f, s) <=> i \in NewBackoffs(g, f, s)
      /\ n + 1 \in NewBackoffs(g, f, s) <=> last = BackoffThreshold + 1
  BY <1>1, <1>2, <1>3 DEF NewBackoffs, n, last
<1>5. /\ Continued(h, f, s) \in SUBSET (1 .. n)
      /\ Continued(g, f, s) \in SUBSET (1 .. n + 1)
      /\ \A i \in 1 .. n : i \in Continued(h, f, s) <=> i \in Continued(g, f, s)
      /\ n + 1 \in Continued(g, f, s) <=> last > BackoffThreshold + 1
  BY <1>1, <1>2, <1>3 DEF Continued, n, last
<1>6. Cardinality(NewBackoffs(g, f, s)) =
        Cardinality(NewBackoffs(h, f, s)) + IF n + 1 \in NewBackoffs(g, f, s) THEN 1 ELSE 0
  BY <1>1, <1>4, CountOneMore
<1>7. Cardinality(Continued(g, f, s)) =
        Cardinality(Continued(h, f, s)) + IF n + 1 \in Continued(g, f, s) THEN 1 ELSE 0
  BY <1>1, <1>5, CountOneMore
<1>8. (n + 1 \in NewBackoffs(g, f, s) <=> (Bad(f, s, r) /\ run = BackoffThreshold))
      /\ (n + 1 \in Continued(g, f, s) <=> (Bad(f, s, r) /\ run > BackoffThreshold))
  BY <1>1, <1>2, <1>4, <1>5
<1>9. QED
  BY <1>6, <1>7, <1>8 DEF n, g, run

(* What ShortSuspendsArePartOfSuspends says of a record of statistics.     *)
ShortArePart(x) ==
  /\ x.failedSuspendCount + x.shortSuspendCount <= x.suspendAttemptCount
  /\ x.shortSuspendTimeMillis <= x.suspendTimeMillis
  /\ x.shortSuspendTimeMillis <= x.shortSuspendCount * ShortSuspendThreshold

(* The bookkeeping of one attempt.                                         *)
LEMMA AccountStep ==
  ASSUME SleepTimeTypes, ShortSuspendsArePartOfSuspends,
         NEW success \in BOOLEAN, NEW t \in Times
  PROVE  LET x == Account(success, t)
         IN  /\ x \in InfoType
             /\ x.suspendAttemptCount = info.suspendAttemptCount + 1
             /\ x.newBackoffCount = info.newBackoffCount
             /\ x.backoffContinueCount = info.backoffContinueCount
             /\ ShortArePart(x)
<1> DEFINE x == Account(success, t)
           n(b) == IF b THEN 1 ELSE 0
           short == IsShort(success, t)
           overhead == Millis(t.overhead)
           time == Millis(t.time)
           o == n(success) * overhead
           u == n(success) * time
           c == n(~success)
           fo == n(~success) * overhead
           sc == n(short)
           st == n(short) * time
<1>1. t.overhead \in Nat /\ t.time \in Nat
  BY DEF Times
<1>2. overhead \in Nat /\ time \in Nat
  BY <1>1, RoundDivBounds, ConfigAssumption DEF Millis
<1>3. short => success /\ time <= ShortSuspendThreshold
  <2> SUFFICES ASSUME short PROVE success /\ time <= ShortSuspendThreshold
    OBVIOUS
  <2>1. success /\ t.time < ShortSuspendThreshold * TicksPerMilli
    BY DEF IsShort
  <2>2. QED
    BY <1>1, <2>1, RoundDivBounds, ConfigAssumption DEF Millis
<1> HIDE DEF short, overhead, time
<1>4. /\ o \in Nat /\ u \in Nat /\ c \in Nat /\ fo \in Nat
      /\ sc \in Nat /\ st \in Nat
      /\ c + sc <= 1 /\ st <= u /\ st <= sc * ShortSuspendThreshold
  BY <1>2, <1>3, ConfigAssumption
<1>5. x = [info EXCEPT
         !.suspendAttemptCount = @ + 1,
         !.sleepTimeMillis = @ + sleepTime,
         !.suspendOverheadTimeMillis = @ + o,
         !.suspendTimeMillis = @ + u,
         !.failedSuspendCount = @ + c,
         !.failedSuspendOverheadTimeMillis = @ + fo,
         !.shortSuspendCount = @ + sc,
         !.shortSuspendTimeMillis = @ + st]
  BY DEF Account, short, overhead, time
<1> HIDE DEF n, o, u, c, fo, sc, st, x
<1>6. info \in InfoType /\ sleepTime \in Nat
  BY DEF SleepTimeTypes
<1>7. /\ x \in InfoType
      /\ x.suspendAttemptCount = info.suspendAttemptCount + 1
      /\ x.newBackoffCount = info.newBackoffCount
      /\ x.backoffContinueCount = info.backoffContinueCount
      /\ x.suspendTimeMillis = info.suspendTimeMillis + u
      /\ x.failedSuspendCount = info.failedSuspendCount + c
      /\ x.shortSuspendCount = info.shortSuspendCount + sc
      /\ x.shortSuspendTimeMillis = info.shortSuspendTimeMillis + st
  <2> DEFINE v1 == info.suspendAttemptCount + 1
             v2 == info.sleepTimeMillis + sleepTime
             v3 == info.suspendOverheadTimeMillis + o
             v4 == info.suspendTimeMillis + u
             v5 == info.failedSuspendCount + c
             v6 == info.failedSuspendOverheadTimeMillis + fo
             v7 == info.shortSuspendCount + sc
             v8 == info.shortSuspendTimeMillis + st
  <2>1. /\ v1 \in Nat /\ v2 \in Nat /\ v3 \in Nat /\ v4 \in Nat
        /\ v5 \in Nat /\ v6 \in Nat /\ v7 \in Nat /\ v8 \in Nat
    BY <1>4, <1>6 DEF InfoType
  <2>2. x = [info EXCEPT
         !.suspendAttemptCount = v1, !.sleepTimeMillis = v2,
         !.suspendOverheadTimeMillis = v3, !.suspendTimeMillis = v4,
         !.failedSuspendCount = v5, !.failedSuspendOverheadTimeMillis = v6,
         !.shortSuspendCount = v7, !.shortSuspendTimeMillis = v8]
    BY <1>5, <1>6 DEF InfoType
  <2> HIDE DEF v1, v2, v3, v4, v5, v6, v7, v8
  <2>3. x \in InfoType
    BY <1>6, <2>1, <2>2 DEF InfoType
  <2>4. /\ x.suspendAttemptCount = v1
        /\ x.suspendTimeMillis = v4 /\ x.failedSuspendCount = v5
        /\ x.shortSuspendCount = v7 /\ x.shortSuspendTimeMillis = v8
        /\ x.newBackoffCount = info.newBackoffCount
        /\ x.backoffContinueCount = info.backoffContinueCount
    BY <1>6, <2>2 DEF InfoType
  <2>5. QED
    BY <2>3, <2>4 DEF v1, v4, v5, v7, v8
<1>8. /\ info.suspendAttemptCount \in Nat /\ info.failedSuspendCount \in Nat
      /\ info.shortSuspendCount \in Nat /\ info.suspendTimeMillis \in Nat
      /\ info.shortSuspendTimeMillis \in Nat
  BY <1>6 DEF InfoType
<1>9. ShortArePart(x)
  <2>1. x.failedSuspendCount + x.shortSuspendCount <= x.suspendAttemptCount
    BY <1>4, <1>7, <1>8 DEF ShortSuspendsArePartOfSuspends
  <2>2. x.shortSuspendTimeMillis <= x.suspendTimeMillis
    BY <1>4, <1>7, <1>8 DEF ShortSuspendsArePartOfSuspends
  <2>3. x.shortSuspendTimeMillis <= x.shortSuspendCount * ShortSuspendThreshold
    <3>1. x.shortSuspendCount * ShortSuspendThreshold =
            info.shortSuspendCount * ShortSuspendThreshold
              + sc * ShortSuspendThreshold
      BY <1>4, <1>7, <1>8, ConfigAssumption
    <3>2. /\ info.shortSuspendCount * ShortSuspendThreshold \in Nat
          /\ sc * ShortSuspendThreshold \in Nat
      BY <1>4, <1>8, ConfigAssumption
    <3>3. info.shortSuspendTimeMillis
            <= info.shortSuspendCount * ShortSuspendThreshold
      BY DEF ShortSuspendsArePartOfSuspends
    <3>4. QED
      BY <1>4, <1>7, <1>8, <3>1, <3>2, <3>3
  <2>4. QED
    BY <2>1, <2>2, <2>3 DEF ShortArePart
<1>10. QED
  BY <1>7, <1>9 DEF x

(* The count of new backoffs, or of continued ones, grows by one.          *)
LEMMA BackoffFields ==
  ASSUME NEW x \in InfoType
  PROVE  LET y == [x EXCEPT !.newBackoffCount = @ + 1]
             z == [x EXCEPT !.backoffContinueCount = @ + 1]
         IN  /\ y \in InfoType /\ z \in InfoType
             /\ y.newBackoffCount = x.newBackoffCount + 1
             /\ y.backoffContinueCount = x.backoffContinueCount
             /\ z.newBackoffCount = x.newBackoffCount
             /\ z.backoffContinueCount = x.backoffContinueCount + 1
             /\ y.suspendAttemptCount = x.suspendAttemptCount
             /\ z.suspendAttemptCount = x.suspendAttemptCount
             /\ ShortArePart(x) => ShortArePart(y) /\ ShortArePart(z)
BY DEF InfoType, ShortArePart

LEMMA ReadSuspendTimeType ==
  ASSUME NEW content \in Seq(Nat)
  PROVE  ReadSuspendTime(content) \in Times
<1>1. CASE Len(content) < 2
  BY <1>1, 0 \in Nat DEF ReadSuspendTime, Times
<1>2. CASE Len(content) >= 2
  <2>1. content[1] \in Nat /\ content[2] \in Nat
    BY <1>2
  <2>2. QED
    BY <1>2, <2>1 DEF ReadSuspendTime, Times
<1>3. QED
  BY <1>1, <1>2

(* BackoffsCounted, for the histories before and after a step.             *)
LEMMA BackoffsCountedIs ==
  /\ BackoffsCounted <=>
       /\ info.newBackoffCount = Cardinality(
            NewBackoffs(history, failedBackoffEnabled, shortBackoffEnabled))
       /\ info.backoffContinueCount = Cardinality(
            Continued(history, failedBackoffEnabled, shortBackoffEnabled))
  /\ BackoffsCounted' <=>
       /\ info'.newBackoffCount = Cardinality(
            NewBackoffs(history', failedBackoffEnabled', shortBackoffEnabled'))
       /\ info'.backoffContinueCount = Cardinality(
            Continued(history', failedBackoffEnabled', shortBackoffEnabled'))
BY BadRunIsRunOf DEF BackoffsCounted, NewBackoffs, Continued, BadRun, IsBad,
   RunOf, Good, Bad

(* updateSleepTime keeps the invariant, and counts the attempt.            *)
LEMMA UpdateSleepTimeStep ==
  ASSUME SleepTimeInv, NEW success \in BOOLEAN, NEW content \in Seq(Nat),
         UpdateSleepTime(success, content)
  PROVE  /\ SleepTimeInv'
         /\ info'.suspendAttemptCount = info.suspendAttemptCount + 1
<1> DEFINE t == ReadSuspendTime(content)
           r == [success |-> success, t |-> t]
           f == failedBackoffEnabled
           s == shortBackoffEnabled
           x == Account(success, t)
           n == Len(history)
<1>1. t \in Times
  BY ReadSuspendTimeType
<1> HIDE DEF t
<1>2. r \in Record /\ r.success = success /\ r.t = t
  BY <1>1 DEF Record
<1>3. /\ history' = Append(history, r)
      /\ failedBackoffEnabled' = f /\ shortBackoffEnabled' = s /\ scale' = scale
      /\ GoodSuspend(success, t) \/ BadSuspend(success, t)
  BY DEF UpdateSleepTime, config, t
<1>4. IsBad(success, t) <=> Bad(f, s, r)
  BY <1>2 DEF IsBad, Bad
<1> HIDE DEF r, f, s
<1>5. /\ x \in InfoType
      /\ x.suspendAttemptCount = info.suspendAttemptCount + 1
      /\ x.newBackoffCount = info.newBackoffCount
      /\ x.backoffContinueCount = info.backoffContinueCount
      /\ ShortArePart(x)
  BY <1>1, AccountStep DEF SleepTimeInv
<1> HIDE DEF x
<1>6. /\ history \in Seq(Record) /\ sleepTime \in Nat /\ numBad \in Nat
      /\ f \in BOOLEAN /\ s \in BOOLEAN /\ scale \in Scales /\ n \in Nat
      /\ BackoffThreshold \in Nat
  BY ConfigAssumption DEF SleepTimeInv, SleepTimeTypes, SleepTimeConfig, f, s
<1>7. numBad = RunOf(history, f, s, n)
  BY BadRunIsRunOf DEF SleepTimeInv, NumBadIsRun, f, s
<1>8. /\ info.newBackoffCount = Cardinality(NewBackoffs(history, f, s))
      /\ info.backoffContinueCount = Cardinality(Continued(history, f, s))
  BY BackoffsCountedIs DEF SleepTimeInv, f, s
<1>9. history' \in Seq(Record) /\ Len(history') = n + 1
  BY <1>2, <1>3, <1>6 DEF r
<1>10. /\ RunOf(history', f, s, n + 1) =
            IF Bad(f, s, r) THEN RunOf(history, f, s, n) + 1 ELSE 0
       /\ Cardinality(NewBackoffs(history', f, s)) =
            Cardinality(NewBackoffs(history, f, s)) +
              IF Bad(f, s, r) /\ RunOf(history, f, s, n) = BackoffThreshold
              THEN 1 ELSE 0
       /\ Cardinality(Continued(history', f, s)) =
            Cardinality(Continued(history, f, s)) +
              IF Bad(f, s, r) /\ RunOf(history, f, s, n) > BackoffThreshold
              THEN 1 ELSE 0
  <2>1. r \in Record /\ history \in Seq(Record) /\ history' = Append(history, r)
    BY <1>2, <1>3, <1>6
  <2> DEFINE h == history
             g == Append(h, r)
  <2>2. RunOf(g, f, s, n + 1) = IF Bad(f, s, r) THEN RunOf(h, f, s, n) + 1 ELSE 0
    BY <2>1, RunOfAppend, Zenon
  <2>3. /\ Cardinality(NewBackoffs(g, f, s)) =
             Cardinality(NewBackoffs(h, f, s)) +
               IF Bad(f, s, r) /\ RunOf(h, f, s, n) = BackoffThreshold
               THEN 1 ELSE 0
        /\ Cardinality(Continued(g, f, s)) =
             Cardinality(Continued(h, f, s)) +
               IF Bad(f, s, r) /\ RunOf(h, f, s, n) > BackoffThreshold
               THEN 1 ELSE 0
    BY <2>1, BackoffsOfAppend, Zenon
  <2>4. QED
    BY <2>1, <2>2, <2>3
<1>11. NumBadIsRun' <=> numBad' = RunOf(history', f, s, n + 1)
  BY <1>3, <1>9, BadRunIsRunOf DEF NumBadIsRun, f, s
<1>12. BackoffsCounted' <=>
        /\ info'.newBackoffCount = Cardinality(NewBackoffs(history', f, s))
        /\ info'.backoffContinueCount = Cardinality(Continued(history', f, s))
  BY <1>3, BackoffsCountedIs
<1>13. ShortSuspendsArePartOfSuspends' <=> ShortArePart(info')
  BY DEF ShortSuspendsArePartOfSuspends, ShortArePart
<1>14. CASE GoodSuspend(success, t)
  <2>1. /\ ~Bad(f, s, r) /\ numBad' = 0 /\ sleepTime' = BaseSleepTime
        /\ info' = x
    BY <1>4, <1>14 DEF GoodSuspend, x
  <2>2. SleepTimeTypes'
    BY <1>3, <1>5, <1>6, <1>9, <2>1, ConfigAssumption
    DEF SleepTimeTypes, SleepTimeConfig
  <2>3. /\ info'.newBackoffCount = Cardinality(NewBackoffs(history', f, s))
        /\ info'.backoffContinueCount = Cardinality(Continued(history', f, s))
    <3>1. info.newBackoffCount \in Nat /\ info.backoffContinueCount \in Nat
      BY DEF SleepTimeInv, SleepTimeTypes, InfoType
    <3>2. QED
      BY <1>5, <1>8, <1>10, <2>1, <3>1
  <2>4. QED
    BY <1>5, <1>10, <1>11, <1>12, <1>13, <2>1, <2>2, <2>3 DEF SleepTimeInv
<1>15. CASE BadSuspend(success, t)
  <2>1. /\ Bad(f, s, r) /\ numBad' = numBad + 1
        /\ IF numBad >= BackoffThreshold
           THEN /\ sleepTime' = ScaledSleepTime
                /\ info' = IF numBad = BackoffThreshold
                           THEN [x EXCEPT !.newBackoffCount = @ + 1]
                           ELSE [x EXCEPT !.backoffContinueCount = @ + 1]
           ELSE sleepTime' = sleepTime /\ info' = x
    BY <1>4, <1>15 DEF BadSuspend, AtThreshold, x
  <2>2. ScaledSleepTime \in Nat
    <3>1. scale.num \in Nat /\ scale.den \in Nat \ {0}
      BY <1>6, ConfigAssumption
    <3>2. sleepTime * scale.num \in Nat
      BY <1>6, <3>1
    <3>3. RoundDiv(sleepTime * scale.num, scale.den) \in Nat
      BY <3>1, <3>2, RoundDivBounds
    <3>4. QED
      BY <3>3, ConfigAssumption DEF ScaledSleepTime, MinOf
  <2>3. /\ info' \in InfoType /\ ShortArePart(info')
        /\ info'.suspendAttemptCount = x.suspendAttemptCount
        /\ info'.newBackoffCount = x.newBackoffCount
              + IF numBad = BackoffThreshold THEN 1 ELSE 0
        /\ info'.backoffContinueCount = x.backoffContinueCount
              + IF numBad > BackoffThreshold THEN 1 ELSE 0
    <3>1. x.newBackoffCount \in Nat /\ x.backoffContinueCount \in Nat
      BY <1>5 DEF InfoType
    <3> DEFINE y == [x EXCEPT !.newBackoffCount = @ + 1]
               z == [x EXCEPT !.backoffContinueCount = @ + 1]
    <3>2. /\ y \in InfoType /\ z \in InfoType
          /\ y.newBackoffCount = x.newBackoffCount + 1
          /\ y.backoffContinueCount = x.backoffContinueCount
          /\ z.newBackoffCount = x.newBackoffCount
          /\ z.backoffContinueCount = x.backoffContinueCount + 1
          /\ y.suspendAttemptCount = x.suspendAttemptCount
          /\ z.suspendAttemptCount = x.suspendAttemptCount
          /\ ShortArePart(y) /\ ShortArePart(z)
      BY <1>5, BackoffFields, Zenon
    <3>3. info' = IF numBad >= BackoffThreshold
                  THEN IF numBad = BackoffThreshold THEN y ELSE z
                  ELSE x
      BY <2>1
    <3> HIDE DEF y, z
    <3>4. QED
      BY <1>5, <1>6, <3>1, <3>2, <3>3
  <2>4. SleepTimeTypes'
    BY <1>3, <1>6, <1>9, <2>1, <2>2, <2>3
    DEF SleepTimeTypes, SleepTimeConfig
  <2>5. BackoffsCounted'
    BY <1>5, <1>7, <1>8, <1>10, <1>12, <2>1, <2>3
  <2>6. NumBadIsRun'
    BY <1>7, <1>10, <1>11, <2>1
  <2>7. QED
    BY <1>5, <1>13, <2>3, <2>4, <2>5, <2>6 DEF SleepTimeInv
<1>16. QED
  BY <1>3, <1>14, <1>15

------------------------------------------------------------------------------
(* When keys were used last.                                               *)

Uses(h, k, n) == {0} \cup {i \in 1 .. n : h[i] = k}
Latest(h, k) == LastUse(h, k, Len(h))

LEMMA LastUseProperties ==
  ASSUME NEW S, NEW h \in Seq(S), NEW n \in 0 .. Len(h), NEW k
  PROVE  /\ LastUse(h, k, n) \in 0 .. n
         /\ LastUse(h, k, n) > 0 => h[LastUse(h, k, n)] = k
         /\ \A i \in 1 .. n : h[i] = k => LastUse(h, k, n) >= i
<1>1. n \in Nat /\ Uses(h, k, n) \in SUBSET (0 .. n) /\ Uses(h, k, n) # {}
  BY DEF Uses
<1>2. /\ Max(Uses(h, k, n)) \in Uses(h, k, n)
      /\ \A y \in Uses(h, k, n) : y <= Max(Uses(h, k, n))
  BY <1>1, MaxProperties
<1>3. LastUse(h, k, n) = Max(Uses(h, k, n))
  BY DEF LastUse, Uses
<1>4. LastUse(h, k, n) \in Uses(h, k, n)
      /\ \A y \in Uses(h, k, n) : y <= LastUse(h, k, n)
  BY <1>2, <1>3
<1>5. QED
  BY <1>1, <1>4 DEF Uses

LEMMA LastUseAppend ==
  ASSUME NEW S, NEW h \in Seq(S), NEW k \in S, NEW x
  PROVE  /\ \A n \in 0 .. Len(h) : LastUse(Append(h, k), x, n) = LastUse(h, x, n)
         /\ Latest(Append(h, k), x) =
              IF x = k THEN Len(h) + 1 ELSE Latest(h, x)
<1> DEFINE g == Append(h, k)
           l == Len(h)
<1>1. /\ l \in Nat /\ Len(g) = l + 1 /\ g[l + 1] = k
      /\ \A j \in 1 .. l : g[j] = h[j]
  OBVIOUS
<1> HIDE DEF g, l
<1>2. ASSUME NEW n \in 0 .. l PROVE LastUse(g, x, n) = LastUse(h, x, n)
  <2>1. \A j \in 1 .. n : g[j] = h[j]
    BY <1>1
  <2>2. Uses(g, x, n) = Uses(h, x, n)
    BY <2>1 DEF Uses
  <2>3. QED
    BY <2>2 DEF LastUse, Uses
<1>3. ASSUME x = k PROVE Latest(g, x) = l + 1
  <2>1. /\ l + 1 \in Nat /\ l + 1 \in Uses(g, x, l + 1)
        /\ Uses(g, x, l + 1) \in SUBSET (0 .. l + 1)
        /\ \A y \in Uses(g, x, l + 1) : y <= l + 1
    BY <1>1, <1>3 DEF Uses
  <2>2. Max(Uses(g, x, l + 1)) = l + 1
    BY <2>1, MaxIsUnique
  <2>3. QED
    BY <1>1, <2>2 DEF Latest, LastUse, Uses
<1>4. ASSUME x # k PROVE Latest(g, x) = Latest(h, x)
  <2>1. Uses(g, x, l + 1) = Uses(g, x, l)
    BY <1>1, <1>4 DEF Uses
  <2>2. LastUse(g, x, l + 1) = LastUse(g, x, l)
    BY <2>1 DEF LastUse, Uses
  <2>3. l \in 0 .. l
    BY <1>1
  <2>4. LastUse(g, x, l) = LastUse(h, x, l)
    BY <1>2, <2>3
  <2>5. QED
    BY <1>1, <2>2, <2>4 DEF Latest, l
<1>5. QED
  BY <1>2, <1>3, <1>4 DEF g, l

(* The same of the whole history.                                          *)
LEMMA LatestProperties ==
  ASSUME NEW S, NEW h \in Seq(S), NEW k
  PROVE  /\ Latest(h, k) \in Nat /\ Latest(h, k) <= Len(h)
         /\ Latest(h, k) > 0 <=> k \in ToSet(h)
<1>1. Len(h) \in 0 .. Len(h) /\ Len(h) \in Nat /\ DOMAIN h = 1 .. Len(h)
  OBVIOUS
<1>2. /\ Latest(h, k) \in 0 .. Len(h)
      /\ Latest(h, k) > 0 => h[Latest(h, k)] = k
      /\ \A i \in 1 .. Len(h) : h[i] = k => Latest(h, k) >= i
  BY <1>1, LastUseProperties DEF Latest
<1>3. ASSUME Latest(h, k) > 0 PROVE k \in ToSet(h)
  <2>1. Latest(h, k) \in DOMAIN h
    BY <1>1, <1>2, <1>3
  <2>2. QED
    BY <1>2, <1>3, <2>1 DEF ToSet
<1>4. ASSUME k \in ToSet(h) PROVE Latest(h, k) > 0
  <2>1. PICK i \in 1 .. Len(h) : h[i] = k
    BY <1>1, <1>4 DEF ToSet
  <2>2. QED
    BY <1>1, <1>2, <2>1
<1>5. QED
  BY <1>1, <1>2, <1>3, <1>4

LEMMA ToSetAppend ==
  ASSUME NEW S, NEW h \in Seq(S), NEW k \in S
  PROVE  ToSet(Append(h, k)) = ToSet(h) \cup {k}
<1> DEFINE g == Append(h, k)
           l == Len(h)
<1>1. /\ l \in Nat /\ g[l + 1] = k /\ DOMAIN h = 1 .. l /\ DOMAIN g = 1 .. l + 1
      /\ \A j \in 1 .. l : g[j] = h[j]
  OBVIOUS
<1>2. \A j \in 1 .. l + 1 : j \in 1 .. l \/ j = l + 1
  BY <1>1
<1>3. \A j \in 1 .. l : j \in 1 .. l + 1
  BY <1>1
<1> HIDE DEF g, l
<1>4. ASSUME NEW y \in ToSet(g) PROVE y \in ToSet(h) \cup {k}
  BY <1>1, <1>2 DEF ToSet
<1>5. ASSUME NEW y \in ToSet(h) PROVE y \in ToSet(g)
  BY <1>1, <1>3 DEF ToSet
<1>6. k \in ToSet(g)
  <2>1. l + 1 \in DOMAIN g
    BY <1>1
  <2>2. QED
    BY <1>1, <2>1 DEF ToSet
<1>7. QED
  BY <1>4, <1>5, <1>6 DEF g

(* The keys of r are those of history h used last, most recent first, and  *)
(* there is room for c of them.                                            *)
Sorted(h, c, r) ==
  /\ ToSet(r) \subseteq ToSet(h)
  /\ \A i, j \in 1 .. Len(r) : i < j => Latest(h, r[i]) > Latest(h, r[j])
  /\ \A x \in ToSet(h) \ ToSet(r) :
       Len(r) = c /\ \A i \in 1 .. Len(r) : Latest(h, r[i]) > Latest(h, x)

(* A key that is used again becomes the first.                             *)
LEMMA SortedAfterMove ==
  ASSUME NEW S, NEW h \in Seq(S), NEW c \in Nat, NEW r \in Seq(S), Distinct(r),
         Sorted(h, c, r), NEW p \in 1 .. Len(r)
  PROVE  Sorted(Append(h, r[p]), c, MoveToFront(r, p, r[p]))
<1> DEFINE k == r[p]
           g == Append(h, k)
           m == MoveToFront(r, p, k)
           n == Len(r)
<1>1. n \in Nat /\ DOMAIN r = 1 .. n /\ p \in 1 .. n /\ k \in S
  OBVIOUS
<1>2. /\ m \in Seq(S) /\ Len(m) = n /\ m[1] = k
      /\ \A j \in 2 .. n : /\ Before(j, p) \in 1 .. n /\ Before(j, p) # p
                           /\ m[j] = r[Before(j, p)]
  <2> HIDE DEF k
  <2>1. QED
    BY <1>1, MoveToFrontProperties
<1>3. ToSet(m) = ToSet(r) /\ k \in ToSet(r)
  <2>1. k \in ToSet(r)
    BY <1>1 DEF ToSet
  <2>2. QED
    BY <2>1, MovedIsDistinct
<1>4. \A i \in 1 .. n : i # p => r[i] # k
  BY <1>1 DEF Distinct
<1> HIDE DEF k, m, n
<1>5. /\ g \in Seq(S)
      /\ ToSet(g) = ToSet(h) \cup {k}
      /\ \A x : Latest(g, x) = IF x = k THEN Len(h) + 1 ELSE Latest(h, x)
      /\ \A x : Latest(h, x) \in Nat /\ Latest(h, x) < Len(h) + 1
  <2>1. \A x : Latest(g, x) = IF x = k THEN Len(h) + 1 ELSE Latest(h, x)
    BY <1>1, LastUseAppend
  <2>2. \A x : Latest(h, x) \in Nat /\ Latest(h, x) <= Len(h) /\ Len(h) \in Nat
    BY LatestProperties
  <2>3. QED
    BY <1>1, <2>1, <2>2, ToSetAppend
<1> HIDE DEF g
<1>6. \A j \in 2 .. n : m[j] # k /\ Latest(g, m[j]) = Latest(h, r[Before(j, p)])
  BY <1>2, <1>4, <1>5
<1>7. Latest(g, m[1]) = Len(h) + 1
  BY <1>2, <1>5
<1>8. \A i \in 1 .. n : i = 1 \/ i \in 2 .. n
  BY <1>1
<1>9. ASSUME NEW i \in 1 .. n, NEW j \in 1 .. n, i < j
      PROVE  Latest(g, m[i]) > Latest(g, m[j])
  <2>1. j \in 2 .. n
    BY <1>1, <1>9
  <2>2. CASE i = 1
    BY <1>5, <1>6, <1>7, <2>1, <2>2
  <2>3. CASE i \in 2 .. n
    <3>1. Before(i, p) < Before(j, p)
      BY <1>1, <1>9, <2>1, <2>3 DEF Before
    <3>2. Latest(h, r[Before(i, p)]) > Latest(h, r[Before(j, p)])
      BY <1>2, <2>1, <2>3, <3>1 DEF Sorted, n
    <3>3. QED
      BY <1>6, <2>1, <2>3, <3>2
  <2>4. QED
    BY <1>8, <2>2, <2>3
<1>10. ASSUME NEW x \in ToSet(g) \ ToSet(m)
       PROVE  n = c /\ \A i \in 1 .. n : Latest(g, m[i]) > Latest(g, x)
  <2>1. x \in ToSet(h) \ ToSet(r) /\ x # k /\ Latest(g, x) = Latest(h, x)
    BY <1>3, <1>5, <1>10
  <2>2. n = c /\ \A i \in 1 .. n : Latest(h, r[i]) > Latest(h, x)
    BY <2>1 DEF Sorted, n
  <2>3. \A i \in 2 .. n : Latest(g, m[i]) > Latest(g, x)
    BY <1>2, <1>6, <2>1, <2>2
  <2>4. Latest(g, m[1]) > Latest(g, x)
    BY <1>5, <1>7, <2>1
  <2>5. QED
    BY <1>8, <2>2, <2>3, <2>4
<1>11. ToSet(m) \subseteq ToSet(g)
  BY <1>3, <1>5 DEF Sorted
<1>12. Sorted(g, c, m)
  BY <1>2, <1>9, <1>10, <1>11 DEF Sorted
<1>13. QED
  BY <1>12 DEF g, m, k

(* A key that is new becomes the first; the last one goes if there is no   *)
(* room.                                                                   *)
LEMMA SortedAfterInsert ==
  ASSUME NEW S, NEW h \in Seq(S), NEW c \in Nat, NEW r \in Seq(S), Distinct(r),
         Sorted(h, c, r), Len(r) <= c, NEW k \in S, k \notin ToSet(r)
  PROVE  /\ Len(r) < c => Sorted(Append(h, k), c, <<k>> \o r)
         /\ Len(r) = c => Sorted(Append(h, k), c, Front(<<k>> \o r))
<1> DEFINE g == Append(h, k)
           m == <<k>> \o r
           n == Len(r)
<1>1. n \in Nat /\ DOMAIN r = 1 .. n /\ n <= c
  OBVIOUS
<1>2. /\ m \in Seq(S) /\ Len(m) = n + 1
      /\ \A j \in 1 .. n + 1 : m[j] = IF j = 1 THEN k ELSE r[j - 1]
  BY PrependProperties
<1>3. Distinct(m) /\ ToSet(m) = ToSet(r) \cup {k}
  BY PrependedIsDistinct
<1> HIDE DEF m, n
<1>4. \A i \in 1 .. n : r[i] # k
  BY <1>1 DEF ToSet
<1>5. /\ g \in Seq(S)
      /\ ToSet(g) = ToSet(h) \cup {k}
      /\ \A x : Latest(g, x) = IF x = k THEN Len(h) + 1 ELSE Latest(h, x)
      /\ \A x : Latest(h, x) \in Nat /\ Latest(h, x) < Len(h) + 1
  <2>1. \A x : Latest(g, x) = IF x = k THEN Len(h) + 1 ELSE Latest(h, x)
    BY <1>1, LastUseAppend
  <2>2. \A x : Latest(h, x) \in Nat /\ Latest(h, x) <= Len(h) /\ Len(h) \in Nat
    BY LatestProperties
  <2>3. QED
    BY <1>1, <2>1, <2>2, ToSetAppend
<1> HIDE DEF g
<1>6. \A j \in 1 .. n + 1 : j # 1 =>
        /\ j - 1 \in 1 .. n
        /\ m[j] = r[j - 1] /\ Latest(g, m[j]) = Latest(h, r[j - 1])
  <2> SUFFICES ASSUME NEW j \in 1 .. n + 1, j # 1
               PROVE  /\ j - 1 \in 1 .. n
                      /\ m[j] = r[j - 1]
                      /\ Latest(g, m[j]) = Latest(h, r[j - 1])
    OBVIOUS
  <2>1. j - 1 \in 1 .. n
    BY <1>1
  <2>2. m[j] = r[j - 1]
    BY <1>2
  <2>3. QED
    BY <1>4, <1>5, <2>1, <2>2
<1>7. m[1] = k /\ Latest(g, m[1]) = Len(h) + 1
  BY <1>1, <1>2, <1>5
<1>8. ASSUME NEW i \in 1 .. n + 1, NEW j \in 1 .. n + 1, i < j
      PROVE  Latest(g, m[i]) > Latest(g, m[j])
  <2>1. j # 1
    BY <1>1, <1>8
  <2>2. CASE i = 1
    BY <1>5, <1>6, <1>7, <2>1, <2>2
  <2>3. CASE i # 1
    <3>1. i - 1 < j - 1
      BY <1>1, <1>8
    <3>2. Latest(h, r[i - 1]) > Latest(h, r[j - 1])
      BY <1>6, <2>1, <2>3, <3>1 DEF Sorted, n
    <3>3. QED
      BY <1>6, <2>1, <2>3, <3>2
  <2>4. QED
    BY <2>2, <2>3
<1>9. ASSUME NEW x \in ToSet(g) \ ToSet(m)
      PROVE  n = c /\ \A i \in 1 .. n + 1 : Latest(g, m[i]) > Latest(g, x)
  <2>1. x \in ToSet(h) \ ToSet(r) /\ x # k /\ Latest(g, x) = Latest(h, x)
    BY <1>3, <1>5, <1>9
  <2>2. n = c /\ \A i \in 1 .. n : Latest(h, r[i]) > Latest(h, x)
    BY <2>1 DEF Sorted, n
  <2>3. \A i \in 1 .. n + 1 : i # 1 => Latest(g, m[i]) > Latest(g, x)
    BY <1>6, <2>1, <2>2
  <2>4. Latest(g, m[1]) > Latest(g, x)
    BY <1>5, <1>7, <2>1
  <2>5. QED
    BY <2>2, <2>3, <2>4
<1>10. ToSet(m) \subseteq ToSet(g)
  BY <1>3, <1>5 DEF Sorted
<1>11. ASSUME n < c PROVE Sorted(g, c, m)
  BY <1>1, <1>2, <1>8, <1>9, <1>10, <1>11 DEF Sorted
<1>12. ASSUME n = c PROVE Sorted(g, c, Front(m))
  <2> DEFINE f == Front(m)
  <2>1. m # <<>> /\ (n + 1) - 1 = n
    BY <1>1, <1>2
  <2>2. /\ f \in Seq(S) /\ Len(f) = n /\ \A j \in 1 .. n : f[j] = m[j]
        /\ Last(m) = m[n + 1]
    <3>1. /\ f \in Seq(S) /\ Len(f) = Len(m) - 1
          /\ \A j \in 1 .. Len(m) - 1 : f[j] = m[j] 
          /\ Last(m) = m[Len(m)]
      BY <1>2, <2>1, FrontProperties
    <3> HIDE DEF f
    <3>2. Len(m) = n + 1 /\ Len(m) - 1 = n
      BY <1>2, <2>1
    <3>3. QED
      BY <3>1, <3>2
  <2>3. ToSet(f) = ToSet(m) \ {m[n + 1]}
    BY <1>2, <1>3, <2>1, <2>2, FrontIsDistinct
  <2> HIDE DEF f
  <2>4. \A j \in 1 .. n : j \in 1 .. n + 1 /\ n + 1 \in 1 .. n + 1 /\ j < n + 1
    BY <1>1
  <2>5. ASSUME NEW x \in ToSet(g) \ ToSet(f), NEW j \in 1 .. n
        PROVE  Latest(g, f[j]) > Latest(g, x)
    <3>1. CASE x = m[n + 1]
      BY <1>8, <2>2, <2>4, <3>1
    <3>2. CASE x # m[n + 1]
      <4>1. x \in ToSet(g) \ ToSet(m)
        BY <2>3, <2>5, <3>2
      <4>2. QED
        BY <1>9, <2>2, <2>4, <4>1
    <3>3. QED
      BY <3>1, <3>2
  <2>6. \A i, j \in 1 .. n : i < j => Latest(g, f[i]) > Latest(g, f[j])
    BY <1>8, <2>2, <2>4
  <2>7. ToSet(f) \subseteq ToSet(g)
    BY <1>10, <2>3
  <2>8. QED
    BY <1>12, <2>2, <2>5, <2>6, <2>7 DEF Sorted, f
<1>13. QED
  BY <1>11, <1>12 DEF g, m, n

------------------------------------------------------------------------------
(* Which keys are recent.                                                  *)

Newer(h, k, n) == {x \in ToSet(h) : LastUse(h, x, n) > LastUse(h, k, n)}
RecentIn(h, c, k, n) == LastUse(h, k, n) > 0 /\ Cardinality(Newer(h, k, n)) < c

LEMMA IsRecentIsRecentIn ==
  /\ \A k, n : IsRecent(k, n) <=> RecentIn(wakeupHistory, capacity, k, n)
  /\ \A k, n : IsRecent(k, n)' <=> RecentIn(wakeupHistory', capacity', k, n)
BY DEF IsRecent, RecentIn, Newer

LEMMA ToSetIsFinite ==
  ASSUME NEW S, NEW s \in Seq(S)
  PROVE  /\ IsFiniteSet(ToSet(s)) /\ Cardinality(ToSet(s)) \in Nat
         /\ Distinct(s) => Cardinality(ToSet(s)) = Len(s)
<1> DEFINE D == 1 .. Len(s)
           T == ToSet(s)
<1>1. Len(s) \in Nat /\ DOMAIN s = D /\ IsFiniteSet(D) /\ Cardinality(D) = Len(s)
  <2>1. Len(s) \in Nat /\ DOMAIN s = D /\ 1 \in Int /\ Len(s) \in Int
    OBVIOUS
  <2>2. IsFiniteSet(D) /\ Cardinality(D) = IF 1 > Len(s) THEN 0 ELSE Len(s) - 1 + 1
    BY <2>1, FS_Interval
  <2>3. QED
    BY <2>1, <2>2
<1>2. s = [i \in D |-> s[i]]
  BY <1>1
<1> HIDE DEF D
<1>3. s \in [D -> T] /\ \A y \in T : \E i \in D : s[i] = y
  <2>1. \A i \in D : s[i] \in T
    BY <1>1 DEF ToSet
  <2>2. QED
    BY <1>1, <1>2, <2>1 DEF ToSet
<1> HIDE DEF T
<1>4. s \in Surjection(D, T)
  BY <1>3 DEF Surjection
<1>5. /\ IsFiniteSet(T)
      /\ Cardinality(T) = Cardinality(D) <=> s \in Injection(D, T)
  BY <1>1, <1>4, FS_Surjection
<1>6. ASSUME Distinct(s) PROVE s \in Injection(D, T)
  <2>1. \A a, b \in D : s[a] = s[b] => a = b
    BY <1>1, <1>6 DEF Distinct
  <2>2. QED
    BY <1>3, <2>1 DEF Injection, IsInjective
<1>7. Cardinality(T) \in Nat
  BY <1>5, FS_CardinalityType
<1>8. QED
  BY <1>1, <1>5, <1>6, <1>7 DEF T

LEMMA NewerIsFinite ==
  ASSUME NEW S, NEW h \in Seq(S), NEW k, NEW n
  PROVE  /\ IsFiniteSet(Newer(h, k, n)) /\ Cardinality(Newer(h, k, n)) \in Nat
         /\ Newer(h, k, n) \subseteq ToSet(h)
<1>1. IsFiniteSet(ToSet(h)) /\ Newer(h, k, n) \in SUBSET ToSet(h)
  BY ToSetIsFinite DEF Newer
<1>2. IsFiniteSet(Newer(h, k, n))
  BY <1>1, FS_Subset
<1>3. QED
  BY <1>1, <1>2, FS_CardinalityType

(* What was recent once, was recent then.                                  *)
LEMMA RecentAppend ==
  ASSUME NEW S, NEW h \in Seq(S), NEW k \in S, NEW c \in Nat, NEW x,
         NEW n \in 0 .. Len(h)
  PROVE  RecentIn(Append(h, k), c, x, n) <=> RecentIn(h, c, x, n)
<1> DEFINE g == Append(h, k)
<1>1. g \in Seq(S) /\ ToSet(g) = ToSet(h) \cup {k} /\ Len(h) \in Nat
      /\ DOMAIN h = 1 .. Len(h)
  BY ToSetAppend
<1>2. \A y : LastUse(g, y, n) = LastUse(h, y, n)
  BY LastUseAppend
<1> HIDE DEF g
<1>3. \A y : LastUse(h, y, n) \in 0 .. n
             /\ (LastUse(h, y, n) > 0 => h[LastUse(h, y, n)] = y)
  BY LastUseProperties
<1>4. ASSUME NEW y, LastUse(h, y, n) > LastUse(h, x, n) PROVE y \in ToSet(h)
  <2>1. LastUse(h, x, n) \in 0 .. n /\ LastUse(h, y, n) \in 0 .. n
    BY <1>3
  <2>2. LastUse(h, y, n) > 0 /\ LastUse(h, y, n) \in 1 .. Len(h)
    BY <1>1, <1>4, <2>1
  <2>3. QED
    BY <1>1, <1>3, <2>2 DEF ToSet
<1>5. Newer(g, x, n) = Newer(h, x, n)
  BY <1>1, <1>2, <1>4 DEF Newer
<1>6. QED
  BY <1>2, <1>5 DEF RecentIn, g

(* The keys listed are the recent ones.                                    *)
LEMMA RecentIsListed ==
  ASSUME NEW S, NEW h \in Seq(S), NEW c \in Nat, NEW r \in Seq(S), Distinct(r),
         Sorted(h, c, r), Len(r) <= c, NEW k
  PROVE  RecentIn(h, c, k, Len(h)) <=> k \in ToSet(r)
<1> DEFINE N == Newer(h, k, Len(h))
           R == ToSet(r)
<1>1. /\ IsFiniteSet(R) /\ Cardinality(R) = Len(r) /\ Len(r) \in Nat
      /\ DOMAIN r = 1 .. Len(r)
  BY ToSetIsFinite
<1>2. IsFiniteSet(N) /\ Cardinality(N) \in Nat /\ N \subseteq ToSet(h)
  BY NewerIsFinite
<1>3. \A x : /\ Latest(h, x) \in Nat
             /\ Latest(h, x) > 0 <=> x \in ToSet(h)
  BY LatestProperties
<1>4. N = {x \in ToSet(h) : Latest(h, x) > Latest(h, k)}
  BY DEF Newer, Latest
<1>5. /\ R \subseteq ToSet(h)
      /\ \A x \in ToSet(h) \ R :
           Len(r) = c /\ \A i \in 1 .. Len(r) : Latest(h, r[i]) > Latest(h, x)
  BY DEF Sorted
<1>6. \A x \in R : \E i \in 1 .. Len(r) : r[i] = x
  BY <1>1 DEF ToSet
<1> HIDE DEF N, R
<1>7. ASSUME k \in R PROVE RecentIn(h, c, k, Len(h))
  <2>1. \A x \in ToSet(h) \ R : Latest(h, k) > Latest(h, x)
    BY <1>5, <1>6, <1>7
  <2>2. N \subseteq R \ {k}
    BY <1>3, <1>4, <2>1
  <2>3. IsFiniteSet(R \ {k}) /\ Cardinality(R \ {k}) = Len(r) - 1
    BY <1>1, <1>7, FS_RemoveElement
  <2>4. Cardinality(N) <= Len(r) - 1
    BY <2>2, <2>3, FS_Subset
  <2>5. Latest(h, k) > 0
    BY <1>3, <1>5, <1>7
  <2>6. QED
    BY <1>1, <1>2, <2>4, <2>5 DEF RecentIn, Latest, N
<1>8. ASSUME k \notin R PROVE ~RecentIn(h, c, k, Len(h))
  <2>1. CASE k \notin ToSet(h)
    BY <1>3, <2>1 DEF RecentIn, Latest
  <2>2. CASE k \in ToSet(h)
    <3>1. Len(r) = c /\ \A i \in 1 .. Len(r) : Latest(h, r[i]) > Latest(h, k)
      BY <1>5, <1>8, <2>2
    <3>2. R \subseteq N
      BY <1>4, <1>5, <1>6, <3>1
    <3>3. c <= Cardinality(N)
      BY <1>1, <1>2, <3>1, <3>2, FS_Subset
    <3>4. QED
      BY <1>2, <3>3 DEF RecentIn, N
  <2>3. QED
    BY <2>1, <2>2
<1>9. QED
  BY <1>7, <1>8 DEF R

(* With room for all keys, every key is recent once it has been used.      *)
LEMMA AllAreRecent ==
  ASSUME NEW S, NEW h \in Seq(S), NEW c \in Nat, c >= Cardinality(ToSet(h)),
         NEW m \in 1 .. Len(h), NEW n \in m .. Len(h)
  PROVE  RecentIn(h, c, h[m], n)
<1> DEFINE k == h[m]
           T == ToSet(h)
<1>1. /\ Len(h) \in Nat /\ n \in 0 .. Len(h) /\ m \in 1 .. n /\ DOMAIN h = 1 .. Len(h)
      /\ m > 0
  OBVIOUS
<1>2. k \in T
  BY <1>1 DEF ToSet
<1>3. IsFiniteSet(T) /\ Cardinality(T) \in Nat
  BY ToSetIsFinite
<1>4. LastUse(h, k, n) \in 0 .. n /\ LastUse(h, k, n) >= m
  BY <1>1, LastUseProperties
<1> HIDE DEF k
<1>5. LastUse(h, k, n) > 0 /\ LastUse(h, k, n) \in Nat
  BY <1>1, <1>4
<1>6. Newer(h, k, n) \in SUBSET (T \ {k})
  BY <1>5 DEF Newer
<1> HIDE DEF T
<1>7. IsFiniteSet(T \ {k}) /\ Cardinality(T \ {k}) = Cardinality(T) - 1
  BY <1>2, <1>3, FS_RemoveElement
<1>8. Cardinality(Newer(h, k, n)) <= Cardinality(T) - 1
  BY <1>6, <1>7, FS_Subset
<1>9. Cardinality(Newer(h, k, n)) \in Nat
  BY NewerIsFinite
<1>10. QED
  BY <1>3, <1>5, <1>8, <1>9 DEF RecentIn, k, T

(* The uses of a key since it last became recent.                          *)
Since(h, c, k) ==
  {m \in DOMAIN h : h[m] = k /\ \A n \in m .. Len(h) : RecentIn(h, c, k, n)}

LEMMA SinceAppend ==
  ASSUME NEW S, NEW h \in Seq(S), NEW c \in Nat, NEW r \in Seq(S), Distinct(r),
         Sorted(h, c, r), Len(r) <= c, NEW k \in S, NEW q \in Seq(S), Distinct(q),
         Sorted(Append(h, k), c, q), Len(q) <= c, NEW x \in ToSet(q)
  PROVE  /\ Cardinality(Since(h, c, x)) \in Nat
         /\ x # k => Cardinality(Since(Append(h, k), c, x)) = Cardinality(Since(h, c, x))
         /\ x = k => Cardinality(Since(Append(h, k), c, x)) = Cardinality(Since(h, c, x)) + 1
         /\ x \notin ToSet(r) => Cardinality(Since(h, c, x)) = 0
<1> DEFINE g == Append(h, k)
           l == Len(h)
           A == Since(h, c, x)
           B == Since(g, c, x)
<1>1. /\ l \in Nat /\ g \in Seq(S) /\ Len(g) = l + 1 /\ g[l + 1] = k
      /\ DOMAIN h = 1 .. l /\ DOMAIN g = 1 .. l + 1
      /\ \A j \in 1 .. l : g[j] = h[j]
  OBVIOUS
<1>2. RecentIn(g, c, x, l + 1)
  BY <1>1, RecentIsListed
<1>3. \A n \in 0 .. l : RecentIn(g, c, x, n) <=> RecentIn(h, c, x, n)
  BY RecentAppend
<1>4. RecentIn(h, c, x, l) <=> x \in ToSet(r)
  BY RecentIsListed
<1> HIDE DEF g, l
<1>5. ASSUME NEW m \in 1 .. l PROVE m \in A <=> m \in B
  <2>1. \A n \in m .. l + 1 : n = l + 1 \/ (n \in m .. l /\ n \in 0 .. l)
    BY <1>1
  <2>2. \A n \in m .. l : n \in m .. l + 1 /\ n \in 0 .. l
    BY <1>1
  <2>3. (\A n \in m .. l + 1 : RecentIn(g, c, x, n))
        <=> \A n \in m .. l : RecentIn(h, c, x, n)
    BY <1>2, <1>3, <2>1, <2>2
  <2>4. m \in 1 .. l + 1
    BY <1>1
  <2>5. QED
    BY <1>1, <2>3, <2>4 DEF Since, l
<1>6. l + 1 \in B <=> x = k
  <2>1. l + 1 \in 1 .. l + 1 /\ \A n \in l + 1 .. l + 1 : n = l + 1
    BY <1>1
  <2>2. QED
    BY <1>1, <1>2, <2>1 DEF Since
<1>7. A \in SUBSET (1 .. l) /\ B \in SUBSET (1 .. l + 1)
  BY <1>1 DEF Since
<1>8. x \notin ToSet(r) => A = {}
  <2>1. \A m \in 1 .. l : l \in m .. l
    BY <1>1
  <2>2. QED
    BY <1>1, <1>4, <2>1 DEF Since, l
<1> HIDE DEF A, B
<1>9. /\ Cardinality(A) \in Nat
      /\ Cardinality(B) = Cardinality(A) + IF l + 1 \in B THEN 1 ELSE 0
  BY <1>1, <1>5, <1>7, CountOneMore
<1>10. x \notin ToSet(r) => Cardinality(A) = 0
  BY <1>8, FS_EmptySet, Zenon
<1>11. /\ x # k => Cardinality(B) = Cardinality(A)
       /\ x = k => Cardinality(B) = Cardinality(A) + 1
  BY <1>6, <1>9
<1>12. QED
  BY <1>9, <1>10, <1>11, Zenon DEF A, B, g

------------------------------------------------------------------------------
(* The list of wakeups.                                                    *)

WakeupType == [name : AllKeys, count : Nat]

WakeupTypes ==
  /\ capacity \in Nat
  /\ wakeups \in Seq(WakeupType)
  /\ Len(wakeups) <= capacity
  /\ wakeupHistory \in Seq(AllKeys)

ListIsSorted == Sorted(wakeupHistory, capacity, Names(wakeups))

WakeupInv ==
  /\ WakeupTypes
  /\ LookupMatchesList
  /\ ListIsSorted
  /\ CountsAreExact

(* The keys of a list, as a sequence of their own.                         *)
LEMMA NamesOfList ==
  ASSUME NEW list \in Seq(WakeupType)
  PROVE  /\ Names(list) \in Seq(AllKeys)
         /\ Len(Names(list)) = Len(list)
         /\ DOMAIN Names(list) = 1 .. Len(list)
         /\ \A i \in 1 .. Len(list) : Names(list)[i] = list[i].name
         /\ Distinct(Names(list)) <=>
              \A i, j \in DOMAIN list : list[i].name = list[j].name => i = j
<1>1. DOMAIN list = 1 .. Len(list) /\ Len(list) \in Nat
      /\ \A i \in 1 .. Len(list) : list[i] \in WakeupType
  OBVIOUS
<1>2. \A i \in 1 .. Len(list) : list[i].name \in AllKeys
  BY <1>1 DEF WakeupType
<1>3. QED
  BY <1>1, <1>2 DEF Names, Distinct

(* What an update of a key leaves.                                         *)
Counted(e, key) ==
  /\ e.name = key
  /\ key \notin lookup => e.count = 1
  /\ key \in lookup => \E i \in DOMAIN wakeups :
       wakeups[i].name = key /\ e.count = wakeups[i].count + 1

Kept(e, key) == e.name # key /\ \E i \in DOMAIN wakeups : e = wakeups[i]

UpdatedList(key) ==
  /\ wakeups' \in Seq(WakeupType)
  /\ Len(wakeups') <= capacity
  /\ LookupMatchesList'
  /\ Names(wakeups)' = Lru!Used(key)
  /\ Sorted(Append(wakeupHistory, key), capacity, Names(wakeups)')
  /\ \A j \in DOMAIN wakeups' : Counted(wakeups'[j], key) \/ Kept(wakeups'[j], key)

(* A reason that is listed is counted and becomes the first.               *)
LEMMA CountEntryUpdates ==
  ASSUME WakeupInv, NEW k \in AllKeys, CountEntry(k)
  PROVE  UpdatedList(k)
<1> DEFINE p == Position(k)
           n == Len(wakeups)
           old == wakeups[p]
           entry == [old EXCEPT !.count = @ + 1]
           r == Names(wakeups)
           s == MoveToFront(wakeups, p, entry)
           m == MoveToFront(r, p, k)
<1>1. /\ wakeups \in Seq(WakeupType) /\ n \in Nat /\ DOMAIN wakeups = 1 .. n
      /\ capacity \in Nat /\ n <= capacity /\ wakeupHistory \in Seq(AllKeys)
  BY DEF WakeupInv, WakeupTypes
<1>2. /\ r \in Seq(AllKeys) /\ Len(r) = n /\ DOMAIN r = 1 .. n
      /\ \A i \in 1 .. n : r[i] = wakeups[i].name
      /\ Distinct(r) /\ lookup = ToSet(r)
  BY <1>1, NamesOfList DEF WakeupInv, LookupMatchesList
<1>3. p \in 1 .. n /\ wakeups[p].name = k /\ k \in lookup
  <2>1. k \in lookup
    BY DEF CountEntry
  <2>2. \E i \in DOMAIN wakeups : wakeups[i].name = k
    BY <1>1, <1>2, <2>1 DEF ToSet
  <2>3. QED
    BY <1>1, <2>1, <2>2 DEF Position
<1>4. wakeups' = s /\ lookup' = lookup
  BY DEF CountEntry, Insert, Erase, MoveToFront
<1> HIDE DEF p, r
<1>5. /\ entry \in WakeupType /\ entry.name = k /\ old.count \in Nat
      /\ entry.count = old.count + 1
  <2>1. old \in WakeupType /\ old.name = k
    BY <1>1, <1>3
  <2> HIDE DEF old
  <2>2. QED
    BY <2>1 DEF WakeupType
<1> HIDE DEF entry, old
<1>6. /\ s \in Seq(WakeupType) /\ Len(s) = n /\ s[1] = entry
      /\ \A j \in 2 .. n : /\ Before(j, p) \in 1 .. n /\ Before(j, p) # p
                           /\ s[j] = wakeups[Before(j, p)]
  BY <1>1, <1>3, <1>5, MoveToFrontProperties
<1>7. /\ m \in Seq(AllKeys) /\ Len(m) = n /\ m[1] = k
      /\ \A j \in 2 .. n : m[j] = r[Before(j, p)]
  <2>1. p \in 1 .. Len(r)
    BY <1>2, <1>3
  <2>2. /\ m \in Seq(AllKeys) /\ Len(m) = Len(r) /\ m[1] = k
        /\ \A j \in 2 .. Len(r) : m[j] = r[Before(j, p)]
    BY <1>2, <2>1, MoveToFrontProperties
  <2>3. QED
    BY <1>2, <2>2
<1>8. r[p] = k /\ p \in 1 .. Len(r)
  BY <1>2, <1>3
<1>9. Distinct(m) /\ ToSet(m) = lookup
  BY <1>2, <1>8, MovedIsDistinct
<1>10. Sorted(Append(wakeupHistory, k), capacity, m)
  <2>1. Sorted(wakeupHistory, capacity, r)
    BY DEF WakeupInv, ListIsSorted, r
  <2>2. Sorted(Append(wakeupHistory, r[p]), capacity, MoveToFront(r, p, r[p]))
    BY <1>1, <1>2, <1>8, <2>1, SortedAfterMove
  <2>3. QED
    BY <1>8, <2>2
<1> HIDE DEF s, m
<1>11. \A j \in 1 .. n : j = 1 \/ j \in 2 .. n
  BY <1>1
<1>12. Names(s) = m
  <2>1. /\ Names(s) \in Seq(AllKeys) /\ Len(Names(s)) = n
        /\ \A i \in 1 .. n : Names(s)[i] = s[i].name
    BY <1>6, NamesOfList
  <2>2. \A j \in 1 .. n : Names(s)[j] = m[j]
    BY <1>2, <1>5, <1>6, <1>7, <1>11, <2>1
  <2>3. QED
    BY <1>7, <2>1, <2>2, SeqEqual
<1>13. Names(wakeups)' = m
  BY <1>4, <1>12 DEF Names
<1>14. LookupMatchesList'
  <2>1. \A i, j \in DOMAIN s : s[i].name = s[j].name => i = j
    BY <1>6, <1>9, <1>12, NamesOfList
  <2>2. QED
    BY <1>4, <1>9, <1>13, <2>1 DEF LookupMatchesList
<1>15. \A j \in DOMAIN s : Counted(s[j], k) \/ Kept(s[j], k)
  <2>1. \A i \in 1 .. n : i # p => wakeups[i].name # k
    BY <1>2, <1>3 DEF Distinct
  <2>2. Counted(entry, k)
    BY <1>1, <1>3, <1>5 DEF Counted, old
  <2>3. \A j \in 2 .. n : Kept(s[j], k)
    BY <1>1, <1>6, <2>1 DEF Kept
  <2>4. DOMAIN s = 1 .. n
    BY <1>6
  <2>5. QED
    BY <1>6, <1>11, <2>2, <2>3, <2>4
<1>16. Lru!Used(k) = m
  <2> DEFINE q == CHOOSE i \in DOMAIN r : r[i] = k
  <2>1. q = p /\ \E i \in DOMAIN r : r[i] = k
    BY <1>2, <1>3 DEF Distinct
  <2> HIDE DEF q
  <2>2. Lru!Others(k) = RemoveAt(r, p)
    BY <2>1 DEF Lru!Others, Lru!RemoveAt, RemoveAt, r, q
  <2>3. Lru!Used(k) = IF Len(m) > capacity THEN SubSeq(m, 1, capacity) ELSE m
    BY <2>2 DEF Lru!Used, MoveToFront, m
  <2>4. QED
    BY <1>1, <1>7, <2>3
<1>17. QED
  BY <1>1, <1>4, <1>6, <1>10, <1>13, <1>14, <1>15, <1>16 DEF UpdatedList

(* A new reason becomes the first, and the last one is evicted when there  *)
(* is no room, at once if there is none at all.                            *)
LEMMA AddEntryUpdates ==
  ASSUME WakeupInv, NEW k \in AllKeys, AddEntry(k)
  PROVE  UpdatedList(k)
<1> DEFINE entry == [name |-> k, count |-> 1]
           n == Len(wakeups)
           r == Names(wakeups)
           s == <<entry>> \o wakeups
           m == <<k>> \o r
<1>1. /\ wakeups \in Seq(WakeupType) /\ n \in Nat /\ DOMAIN wakeups = 1 .. n
      /\ capacity \in Nat /\ n <= capacity /\ wakeupHistory \in Seq(AllKeys)
  BY DEF WakeupInv, WakeupTypes
<1>2. /\ r \in Seq(AllKeys) /\ Len(r) = n /\ DOMAIN r = 1 .. n
      /\ \A i \in 1 .. n : r[i] = wakeups[i].name
      /\ Distinct(r) /\ lookup = ToSet(r)
  BY <1>1, NamesOfList DEF WakeupInv, LookupMatchesList
<1>3. k \notin lookup /\ \A i \in DOMAIN r : r[i] # k
  <2>1. k \notin lookup
    BY DEF AddEntry
  <2>2. QED
    BY <1>2, <2>1 DEF ToSet
<1>4. /\ wakeups' = IF Evicted(s) = {} THEN s ELSE Front(s)
      /\ lookup' = (lookup \cup {k}) \ Evicted(s)
      /\ Evicted(s) = IF Len(s) > capacity THEN {Last(s).name} ELSE {}
  BY DEF AddEntry, Insert, Evicted
<1>5. Lru!Used(k) = IF Len(m) > capacity THEN SubSeq(m, 1, capacity) ELSE m
  BY <1>3 DEF Lru!Used, Lru!Others
<1>6. entry \in WakeupType /\ entry.name = k /\ entry.count = 1
  BY DEF WakeupType
<1>7. Sorted(wakeupHistory, capacity, r)
  BY DEF WakeupInv, ListIsSorted
<1> HIDE DEF entry, r
<1>8. /\ s \in Seq(WakeupType) /\ Len(s) = n + 1
      /\ \A j \in 1 .. n + 1 : s[j] = IF j = 1 THEN entry ELSE wakeups[j - 1]
  BY <1>1, <1>6, PrependProperties
<1> HIDE DEF n
<1>9. /\ m \in Seq(AllKeys) /\ Len(m) = n + 1
      /\ \A j \in 1 .. n + 1 : m[j] = IF j = 1 THEN k ELSE r[j - 1]
      /\ Distinct(m) /\ ToSet(m) = lookup \cup {k}
  BY <1>2, <1>3, PrependProperties, PrependedIsDistinct
<1>10. n + 1 \in Nat /\ \A j \in 1 .. n + 1 : j = 1 \/ j - 1 \in 1 .. n
  BY <1>1
<1>11. /\ n < capacity => Sorted(Append(wakeupHistory, k), capacity, m)
       /\ n = capacity => Sorted(Append(wakeupHistory, k), capacity, Front(m))
  BY <1>1, <1>2, <1>3, <1>7, SortedAfterInsert
<1> HIDE DEF s, m
<1>12. \A j \in 1 .. n + 1 : s[j].name = m[j]
  <2> SUFFICES ASSUME NEW j \in 1 .. n + 1 PROVE s[j].name = m[j]
    OBVIOUS
  <2>1. CASE j = 1
    BY <1>6, <1>8, <1>9, <2>1
  <2>2. CASE j # 1
    <3>1. s[j] = wakeups[j - 1] /\ m[j] = r[j - 1] /\ j - 1 \in 1 .. n
      BY <1>8, <1>9, <1>10, <2>2
    <3>2. QED
      BY <1>2, <3>1
  <2>3. QED
    BY <2>1, <2>2
<1>13. \A j \in 1 .. n + 1 : Counted(s[j], k) \/ Kept(s[j], k)
  <2> SUFFICES ASSUME NEW j \in 1 .. n + 1
               PROVE  Counted(s[j], k) \/ Kept(s[j], k)
    OBVIOUS
  <2>1. CASE j = 1
    BY <1>3, <1>6, <1>8, <2>1 DEF Counted
  <2>2. CASE j # 1
    <3>1. s[j] = wakeups[j - 1] /\ j - 1 \in 1 .. n
      BY <1>8, <1>10, <2>2
    <3>2. QED
      BY <1>1, <1>2, <1>3, <3>1 DEF Kept
  <2>3. QED
    BY <2>1, <2>2
<1>14. CASE n < capacity
  <2>1. ~(Len(s) > capacity) /\ ~(Len(m) > capacity) /\ Len(s) <= capacity
    BY <1>1, <1>8, <1>9, <1>14
  <2>2. wakeups' = s /\ lookup' = lookup \cup {k}
    BY <1>4, <2>1
  <2>3. Names(s) = m
    <3>1. /\ Names(s) \in Seq(AllKeys) /\ Len(Names(s)) = n + 1
          /\ \A i \in 1 .. n + 1 : Names(s)[i] = s[i].name
      BY <1>8, NamesOfList
    <3>2. \A j \in 1 .. n + 1 : Names(s)[j] = m[j]
      BY <1>12, <3>1
    <3>3. QED
      BY <1>9, <3>1, <3>2, SeqEqual
  <2>4. Names(wakeups)' = m
    BY <2>2, <2>3 DEF Names
  <2>5. LookupMatchesList'
    BY <1>8, <1>9, <2>2, <2>3, <2>4, NamesOfList DEF LookupMatchesList
  <2>6. DOMAIN wakeups' = 1 .. n + 1
    BY <1>8, <2>2
  <2>7. QED
    BY <1>5, <1>8, <1>11, <1>13, <1>14, <2>1, <2>2, <2>4, <2>5, <2>6
    DEF UpdatedList
<1>15. CASE n = capacity
  <2> DEFINE f == Front(s)
             g == Front(m)
  <2>1. /\ s # <<>> /\ m # <<>> /\ Len(s) - 1 = n /\ Len(m) - 1 = n
        /\ Len(s) > capacity /\ Len(m) > capacity /\ Len(m) - 1 = capacity
    BY <1>1, <1>8, <1>9, <1>15
  <2>2. /\ f \in Seq(WakeupType) /\ Len(f) = n /\ \A j \in 1 .. n : f[j] = s[j]
        /\ Last(s) = s[n + 1]
    <3>1. /\ f \in Seq(WakeupType) /\ Len(f) = Len(s) - 1
          /\ \A j \in 1 .. Len(s) - 1 : f[j] = s[j]
          /\ Last(s) = s[Len(s)]
      BY <1>8, <2>1, FrontProperties
    <3> HIDE DEF f
    <3>2. QED
      BY <1>8, <2>1, <3>1
  <2>3. /\ g \in Seq(AllKeys) /\ Len(g) = n /\ \A j \in 1 .. n : g[j] = m[j]
        /\ Last(m) = m[n + 1]
    <3>1. /\ g \in Seq(AllKeys) /\ Len(g) = Len(m) - 1
          /\ \A j \in 1 .. Len(m) - 1 : g[j] = m[j]
          /\ Last(m) = m[Len(m)]
      BY <1>9, <2>1, FrontProperties
    <3> HIDE DEF g
    <3>2. QED
      BY <1>9, <2>1, <3>1
  <2>4. Distinct(g) /\ ToSet(g) = (lookup \cup {k}) \ {Last(m)}
    BY <1>9, <2>1, FrontIsDistinct
  <2>5. Last(m) = Last(s).name
    <3>1. n + 1 \in 1 .. n + 1
      BY <1>1
    <3>2. QED
      BY <1>12, <2>2, <2>3, <3>1
  <2>6. wakeups' = f /\ lookup' = ToSet(g)
    BY <1>4, <2>1, <2>4, <2>5
  <2>7. Lru!Used(k) = g
    BY <1>5, <2>1 DEF Front
  <2>8. Sorted(Append(wakeupHistory, k), capacity, g)
    BY <1>11, <1>15
  <2> HIDE DEF f, g
  <2>9. \A j \in 1 .. n : j \in 1 .. n + 1
    BY <1>1
  <2>10. Names(f) = g
    <3>1. /\ Names(f) \in Seq(AllKeys) /\ Len(Names(f)) = n
          /\ \A i \in 1 .. n : Names(f)[i] = f[i].name
      BY <2>2, NamesOfList
    <3>2. \A i \in 1 .. n : Names(f)[i] = g[i]
      BY <1>12, <2>2, <2>3, <2>9, <3>1
    <3>3. QED
      BY <2>3, <3>1, <3>2, SeqEqual
  <2>11. Names(wakeups)' = g
    BY <2>6, <2>10 DEF Names
  <2>12. LookupMatchesList'
    BY <2>2, <2>4, <2>6, <2>10, <2>11, NamesOfList DEF LookupMatchesList
  <2>13. DOMAIN f = 1 .. n /\ Len(f) <= capacity
    BY <1>1, <2>2
  <2>14. \A j \in DOMAIN f : Counted(f[j], k) \/ Kept(f[j], k)
    BY <1>13, <2>2, <2>9, <2>13
  <2>15. QED
    BY <2>2, <2>6, <2>7, <2>8, <2>11, <2>12, <2>13, <2>14 DEF UpdatedList
<1>16. QED
  BY <1>1, <1>14, <1>15

(* CountsAreExact, before and after a step.                                *)
LEMMA CountsAreExactIs ==
  /\ CountsAreExact <=>
       \A i \in DOMAIN wakeups : wakeups[i].count =
         Cardinality(Since(wakeupHistory, capacity, wakeups[i].name))
  /\ CountsAreExact' <=>
       \A i \in DOMAIN wakeups' : wakeups'[i].count =
         Cardinality(Since(wakeupHistory', capacity', wakeups'[i].name))
BY DEF CountsAreExact, IsRecent, Since, RecentIn, Newer

(* WakeupList::update keeps the invariant.                                 *)
LEMMA UpdateStep ==
  ASSUME WakeupInv, NEW k \in AllKeys, UpdatedList(k),
         wakeupHistory' = Append(wakeupHistory, k), capacity' = capacity
  PROVE  WakeupInv'
<1> DEFINE h == wakeupHistory
           g == Append(h, k)
           c == capacity
           r == Names(wakeups)
           q == Names(wakeups)'
<1>1. /\ h \in Seq(AllKeys) /\ c \in Nat /\ g \in Seq(AllKeys)
      /\ wakeups \in Seq(WakeupType) /\ Len(wakeups) <= c
      /\ wakeups' \in Seq(WakeupType) /\ Len(wakeups') <= c
      /\ Sorted(g, c, q) /\ Sorted(h, c, r) /\ LookupMatchesList'
  BY DEF WakeupInv, WakeupTypes, ListIsSorted, UpdatedList
<1>2. /\ r \in Seq(AllKeys) /\ Len(r) <= c /\ Distinct(r) /\ lookup = ToSet(r)
      /\ \A i \in DOMAIN wakeups : r[i] = wakeups[i].name
  <2>1. /\ r \in Seq(AllKeys) /\ Len(r) = Len(wakeups) /\ Distinct(r)
        /\ \A i \in 1 .. Len(wakeups) : r[i] = wakeups[i].name
    BY <1>1, NamesOfList DEF WakeupInv, LookupMatchesList
  <2>2. DOMAIN wakeups = 1 .. Len(wakeups) /\ lookup = ToSet(r)
    BY <1>1 DEF WakeupInv, LookupMatchesList
  <2> HIDE DEF r
  <2>3. QED
    BY <1>1, <2>1, <2>2
<1>3. q = Names(wakeups')
  BY DEF Names
<1>4. /\ q \in Seq(AllKeys) /\ Len(q) <= c /\ Distinct(q)
      /\ \A i \in DOMAIN wakeups' : q[i] = wakeups'[i].name /\ i \in DOMAIN q
  <2>1. \A i, j \in DOMAIN wakeups' : wakeups'[i].name = wakeups'[j].name => i = j
    BY <1>1 DEF LookupMatchesList
  <2> DEFINE w == wakeups'
  <2> HIDE DEF q, w
  <2>2. w \in Seq(WakeupType) /\ Len(w) <= c /\ DOMAIN w = 1 .. Len(w)
        /\ \A i, j \in DOMAIN w : w[i].name = w[j].name => i = j
    BY <1>1, <2>1 DEF w
  <2>3. /\ q \in Seq(AllKeys) /\ Len(q) = Len(w) /\ Distinct(q)
        /\ DOMAIN q = 1 .. Len(w)
        /\ \A i \in 1 .. Len(w) : q[i] = w[i].name
    BY <1>3, <2>2, NamesOfList DEF w
  <2>4. QED
    BY <2>2, <2>3 DEF w
<1> HIDE DEF r, q
<1>5. \A i \in DOMAIN wakeups' : wakeups'[i].name \in ToSet(q)
  BY <1>4 DEF ToSet
<1>6. \A i \in DOMAIN wakeups : wakeups[i].count =
        Cardinality(Since(h, c, wakeups[i].name))
  BY CountsAreExactIs DEF WakeupInv
<1>7. ASSUME NEW i \in DOMAIN wakeups'
      PROVE  wakeups'[i].count = Cardinality(Since(g, c, wakeups'[i].name))
  <2> DEFINE x == wakeups'[i].name
  <2>1. x \in ToSet(q)
    BY <1>5
  <2> HIDE DEF x
  <2>2. /\ Cardinality(Since(h, c, x)) \in Nat
        /\ x # k => Cardinality(Since(g, c, x)) = Cardinality(Since(h, c, x))
        /\ x = k => Cardinality(Since(g, c, x)) = Cardinality(Since(h, c, x)) + 1
        /\ x \notin ToSet(r) => Cardinality(Since(h, c, x)) = 0
    BY <1>1, <1>2, <1>4, <2>1, SinceAppend
  <2>3. Counted(wakeups'[i], k) \/ Kept(wakeups'[i], k)
    BY <1>7 DEF UpdatedList
  <2>4. CASE Kept(wakeups'[i], k)
    <3>1. PICK j \in DOMAIN wakeups : wakeups'[i] = wakeups[j]
      BY <2>4 DEF Kept
    <3>2. x # k /\ x = wakeups[j].name
      BY <2>4, <3>1 DEF Kept, x
    <3>3. wakeups'[i].count = Cardinality(Since(h, c, x))
      BY <1>6, <3>1, <3>2
    <3>4. QED
      BY <2>2, <3>2, <3>3 DEF x
  <2>5. CASE Counted(wakeups'[i], k) /\ k \notin lookup
    <3>1. x = k /\ wakeups'[i].count = 1 /\ x \notin ToSet(r)
      BY <1>2, <2>5 DEF Counted, x
    <3>2. QED
      BY <2>2, <3>1 DEF x
  <2>6. CASE Counted(wakeups'[i], k) /\ k \in lookup
    <3>1. x = k
      BY <2>6 DEF Counted, x
    <3>2. PICK j \in DOMAIN wakeups :
            wakeups[j].name = k /\ wakeups'[i].count = wakeups[j].count + 1
      BY <2>6 DEF Counted
    <3>3. wakeups[j].count = Cardinality(Since(h, c, x))
      BY <1>6, <3>1, <3>2
    <3>4. QED
      BY <2>2, <3>1, <3>2, <3>3 DEF x
  <2>7. QED
    BY <2>3, <2>4, <2>5, <2>6
<1>8. CountsAreExact'
  <2>1. wakeupHistory' = g /\ capacity' = c
    OBVIOUS
  <2>2. QED
    BY <1>7, <2>1, CountsAreExactIs
<1>9. WakeupTypes'
  BY <1>1 DEF WakeupTypes
<1>10. ListIsSorted'
  BY <1>1 DEF ListIsSorted, q
<1>11. QED
  BY <1>1, <1>8, <1>9, <1>10 DEF WakeupInv

------------------------------------------------------------------------------
(* The attempts.                                                           *)

RecordsInv ==
  /\ SleepTimeInv
  /\ WakeupInv
  /\ pending \in Attempts \cup {Done}
  /\ info.suspendAttemptCount =
       Len(wakeupHistory) + IF pending = Done THEN 0 ELSE 1

LEMMA RecordsInitially ==
  ASSUME Init
  PROVE  RecordsInv /\ Lru!Init
<1>1. history = <<>> /\ Len(history) = 0 /\ 1 .. Len(history) = {}
  BY DEF Init, SleepTimeInit
<1>2. SleepTimeTypes
  BY ConfigAssumption DEF Init, SleepTimeInit, SleepTimeTypes, InfoType
<1>3. BadRun(0) = 0
  <2>1. {0} \cup {j \in 1 .. 0 : ~IsBad(history[j].success, history[j].t)} = {0}
    OBVIOUS
  <2>2. Max({0}) = 0
    <3>1. 0 \in Nat /\ {0} \in SUBSET (0 .. 0) /\ 0 \in {0} /\ \A y \in {0} : y <= 0
      OBVIOUS
    <3>2. QED
      BY <3>1, MaxIsUnique
  <2>3. QED
    BY <2>1, <2>2 DEF BadRun
<1>4. NumBadIsRun
  BY <1>1, <1>3 DEF Init, SleepTimeInit, NumBadIsRun
<1>5. BackoffsCounted
  <2>1. info.newBackoffCount = 0 /\ info.backoffContinueCount = 0
    BY DEF Init, SleepTimeInit
  <2>2. /\ {i \in 1 .. Len(history) : BadRun(i) = BackoffThreshold + 1} = {}
        /\ {i \in 1 .. Len(history) : BadRun(i) > BackoffThreshold + 1} = {}
    BY <1>1
  <2>3. QED
    BY <2>1, <2>2, FS_EmptySet DEF BackoffsCounted
<1>6. ShortSuspendsArePartOfSuspends
  BY ConfigAssumption DEF Init, SleepTimeInit, ShortSuspendsArePartOfSuspends
<1>7. /\ wakeups = <<>> /\ lookup = {} /\ wakeupHistory = <<>>
      /\ DOMAIN wakeups = {} /\ Len(wakeups) = 0 /\ capacity \in Nat
      /\ ToSet(wakeupHistory) = {} /\ Len(wakeupHistory) = 0
  BY WakeupListAssumption DEF Init, WakeupInit, ToSet
<1>8. Names(wakeups) = <<>> /\ ToSet(Names(wakeups)) = {} /\ Len(Names(wakeups)) = 0
  BY <1>7 DEF Names, ToSet
<1>9. WakeupInv
  BY <1>7, <1>8 DEF WakeupInv, WakeupTypes, LookupMatchesList, ListIsSorted,
                    Sorted, CountsAreExact
<1>10. Lru!Init
  BY <1>7, <1>8 DEF Lru!Init, LastKey
<1>11. info.suspendAttemptCount = 0 /\ pending = Done
  BY DEF Init, SleepTimeInit
<1>12. QED
  BY <1>2, <1>4, <1>5, <1>6, <1>7, <1>9, <1>10, <1>11 DEF RecordsInv, SleepTimeInv

LEMMA RecordSleepTimeStep ==
  ASSUME RecordsInv, NEW a \in Attempts, RecordSleepTime(a)
  PROVE  RecordsInv' /\ UNCHANGED <<capacity, Names(wakeups), LastKey>>
<1>1. /\ UNCHANGED <<capacity, reasonsFd, wakeups, lookup, wakeupHistory>>
      /\ pending = Done /\ pending' = a /\ a # Done
      /\ a.success \in BOOLEAN /\ a.content \in Seq(Nat)
      /\ UpdateSleepTime(a.success, a.content)
  BY AttemptsAssumption DEF RecordSleepTime, wakeupVars
<1>2. SleepTimeInv' /\ info'.suspendAttemptCount = info.suspendAttemptCount + 1
  <2> DEFINE b == a.success
             t == a.content
  <2> HIDE DEF b, t
  <2>1. b \in BOOLEAN /\ t \in Seq(Nat) /\ UpdateSleepTime(b, t)
    BY <1>1 DEF b, t
  <2>2. QED
    BY <2>1, UpdateSleepTimeStep DEF RecordsInv
<1>3. WakeupInv'
  <2>1. CountsAreExact'
    BY <1>1, CountsAreExactIs DEF RecordsInv, WakeupInv
  <2>2. QED
    BY <1>1, <2>1 DEF RecordsInv, WakeupInv, WakeupTypes, LookupMatchesList,
                      ListIsSorted, Names
<1>4. UNCHANGED <<capacity, Names(wakeups), LastKey>>
  BY <1>1 DEF Names, LastKey
<1>5. info'.suspendAttemptCount = Len(wakeupHistory') + 1
  <2>1. info.suspendAttemptCount = Len(wakeupHistory) /\ Len(wakeupHistory) \in Nat
    BY <1>1 DEF RecordsInv, WakeupInv, WakeupTypes
  <2>2. QED
    BY <1>1, <1>2, <2>1
<1>6. QED
  BY <1>1, <1>2, <1>3, <1>4, <1>5 DEF RecordsInv

LEMMA RecordReasonsStep ==
  ASSUME RecordsInv, RecordReasons
  PROVE  RecordsInv' /\ \E k \in AllKeys : Lru!Use(k)
<1> DEFINE file == pending.file
           k == FlattenSeq(ReadWakeupReasons(file.readable, file.lines))
<1>1. /\ pending # Done /\ pending' = Done /\ pending \in Attempts
      /\ RecordWakeup(file) /\ UNCHANGED sleepTimeVars
  BY DEF RecordReasons, RecordsInv
<1>2. k \in AllKeys
  BY <1>1, AttemptsAssumption DEF AllKeys
<1>3. /\ AddEntry(k) \/ CountEntry(k)
      /\ wakeupHistory' = Append(wakeupHistory, k) /\ capacity' = capacity
  BY <1>1 DEF RecordWakeup, Update
<1> HIDE DEF k
<1>4. UpdatedList(k)
  BY <1>2, <1>3, AddEntryUpdates, CountEntryUpdates DEF RecordsInv
<1>5. WakeupInv'
  BY <1>2, <1>3, <1>4, UpdateStep DEF RecordsInv
<1>6. SleepTimeInv' /\ info' = info
  <2>1. UNCHANGED <<failedBackoffEnabled, shortBackoffEnabled, scale, sleepTime, numBad,
                    info, history>>
    BY <1>1 DEF sleepTimeVars, config
  <2>2. BackoffsCounted'
    BY <2>1, BackoffsCountedIs DEF RecordsInv, SleepTimeInv
  <2>3. NumBadIsRun'
    BY <2>1, BadRunIsRunOf DEF RecordsInv, SleepTimeInv, NumBadIsRun
  <2>4. QED
    BY <2>1, <2>2, <2>3
    DEF RecordsInv, SleepTimeInv, SleepTimeTypes, SleepTimeConfig,
        ShortSuspendsArePartOfSuspends
<1>7. wakeupHistory \in Seq(AllKeys) /\ Len(wakeupHistory) \in Nat
      /\ info.suspendAttemptCount = Len(wakeupHistory) + 1
  BY <1>1 DEF RecordsInv, WakeupInv, WakeupTypes
<1>8. Len(wakeupHistory') = Len(wakeupHistory) + 1
      /\ wakeupHistory' # <<>> /\ Last(wakeupHistory') = k
  <2>1. /\ Len(Append(wakeupHistory, k)) = Len(wakeupHistory) + 1
        /\ Append(wakeupHistory, k)[Len(wakeupHistory) + 1] = k
    BY <1>2, <1>7
  <2>2. QED
    BY <1>3, <1>7, <2>1 DEF Last
<1>9. Lru!Use(k)
  <2>1. LastKey' = {k}
    BY <1>8 DEF LastKey
  <2>2. QED
    BY <1>3, <1>4, <2>1 DEF Lru!Use, UpdatedList
<1>10. RecordsInv'
  BY <1>1, <1>5, <1>6, <1>7, <1>8 DEF RecordsInv
<1>11. QED
  BY <1>2, <1>9, <1>10

(* A step keeps the invariant, and is a use of one key or of none.         *)
LEMMA RecordsStep ==
  ASSUME RecordsInv, [Next]_vars
  PROVE  /\ RecordsInv'
         /\ \/ \E k \in AllKeys : Lru!Use(k)
            \/ UNCHANGED <<capacity, Names(wakeups), LastKey>>
<1>1. CASE \E a \in Attempts : RecordSleepTime(a)
  BY <1>1, RecordSleepTimeStep
<1>2. CASE RecordReasons
  BY <1>2, RecordReasonsStep
<1>3. CASE UNCHANGED vars
  <2>1. /\ UNCHANGED <<failedBackoffEnabled, shortBackoffEnabled, scale, sleepTime, numBad,
                        info, history>>
        /\ UNCHANGED <<capacity, wakeups, lookup, wakeupHistory, pending>>
    BY <1>3 DEF vars, sleepTimeVars, config, wakeupVars
  <2>2. BackoffsCounted' /\ NumBadIsRun' /\ CountsAreExact'
    BY <2>1, BackoffsCountedIs, BadRunIsRunOf, CountsAreExactIs
    DEF RecordsInv, SleepTimeInv, WakeupInv, NumBadIsRun
  <2>3. SleepTimeInv'
    BY <2>1, <2>2
    DEF RecordsInv, SleepTimeInv, SleepTimeTypes, SleepTimeConfig,
        ShortSuspendsArePartOfSuspends
  <2>4. WakeupInv' /\ UNCHANGED <<capacity, Names(wakeups), LastKey>>
    BY <2>1, <2>2
    DEF RecordsInv, WakeupInv, WakeupTypes, LookupMatchesList, ListIsSorted,
        Names, LastKey
  <2>5. QED
    BY <2>1, <2>3, <2>4 DEF RecordsInv
<1>4. QED
  BY <1>1, <1>2, <1>3 DEF Next

------------------------------------------------------------------------------
(* The theorems.                                                           *)

(* RecordsInv is inductive.                                                *)
THEOREM RecordsInvariant == Spec => []RecordsInv
<1>1. Init => RecordsInv
  BY RecordsInitially
<1>2. RecordsInv /\ [Next]_vars => RecordsInv'
  BY RecordsStep
<1>3. QED
  BY <1>1, <1>2, PTL DEF Spec

(* Every bad attempt beyond the threshold is counted as one new or one     *)
(* continued backoff, for any threshold and either kind of bad attempt     *)
(* (SystemSuspend.cpp:460-465).                                            *)
THEOREM BackoffsAreCounted == Spec => []BackoffsCounted
<1>1. RecordsInv => BackoffsCounted
  BY DEF RecordsInv, SleepTimeInv
<1>2. QED
  BY <1>1, RecordsInvariant, PTL

(* Short suspends are a part of the successful ones, whatever the times    *)
(* and the rounding (SystemSuspend.cpp:428-451).                           *)
THEOREM ShortSuspendsArePart == Spec => []ShortSuspendsArePartOfSuspends
<1>1. RecordsInv => ShortSuspendsArePartOfSuspends
  BY DEF RecordsInv, SleepTimeInv
<1>2. QED
  BY <1>1, RecordsInvariant, PTL

(* mLookupTable and the list of wakeups have the same entries, each once,  *)
(* for any capacity (WakeupList.cpp:67-80).                                *)
THEOREM WakeupLookupIsExact == Spec => []LookupMatchesList
<1>1. RecordsInv => LookupMatchesList
  BY DEF RecordsInv, WakeupInv
<1>2. QED
  BY <1>1, RecordsInvariant, PTL

(* A reason's count is the number of its wakeups since it last entered the *)
(* list (WakeupList.cpp:46-65).                                            *)
THEOREM WakeupCountsAreExact == Spec => []CountsAreExact
<1>1. RecordsInv => CountsAreExact
  BY DEF RecordsInv, WakeupInv
<1>2. QED
  BY <1>1, RecordsInvariant, PTL

(* Every attempt is in both statistics, and a list with room for all       *)
(* reasons has all of their wakeups (SystemSuspend.cpp:382-396).           *)
THEOREM AttemptsAreInBoth == Spec => []AttemptsInBoth
<1>1. ASSUME RecordsInv PROVE AttemptsInBoth
  <2> DEFINE h == wakeupHistory
             c == capacity
             r == Names(wakeups)
  <2>1. /\ h \in Seq(AllKeys) /\ c \in Nat /\ DOMAIN h = 1 .. Len(h)
        /\ wakeups \in Seq(WakeupType) /\ Len(wakeups) <= c
        /\ Sorted(h, c, r) /\ Len(h) \in Nat
    BY <1>1 DEF RecordsInv, WakeupInv, WakeupTypes, ListIsSorted
  <2>2. /\ r \in Seq(AllKeys) /\ Len(r) <= c /\ Distinct(r)
        /\ DOMAIN r = 1 .. Len(wakeups) /\ DOMAIN wakeups = 1 .. Len(wakeups)
        /\ \A i \in 1 .. Len(wakeups) : r[i] = wakeups[i].name
    BY <1>1, <2>1, NamesOfList DEF RecordsInv, WakeupInv, LookupMatchesList
  <2> HIDE DEF r
  <2>3. ASSUME c >= Cardinality(ToSet(h)), NEW k \in ToSet(h)
        PROVE  \E i \in DOMAIN wakeups :
                 /\ wakeups[i].name = k
                 /\ wakeups[i].count = Cardinality({m \in DOMAIN h : h[m] = k})
    <3>1. \A m \in 1 .. Len(h) : \A n \in m .. Len(h) : RecentIn(h, c, h[m], n)
      BY <2>1, <2>3, AllAreRecent
    <3>2. PICK m \in 1 .. Len(h) : h[m] = k
      BY <2>1 DEF ToSet
    <3>3. Len(h) \in m .. Len(h)
      BY <2>1
    <3>4. RecentIn(h, c, k, Len(h))
      BY <3>1, <3>2, <3>3
    <3>5. k \in ToSet(r)
      BY <2>1, <2>2, <3>4, RecentIsListed
    <3>6. PICK i \in DOMAIN wakeups : wakeups[i].name = k
      BY <2>2, <3>5 DEF ToSet
    <3>7. wakeups[i].count = Cardinality(Since(h, c, k))
      BY <1>1, <3>6, CountsAreExactIs DEF RecordsInv, WakeupInv
    <3>8. Since(h, c, k) = {j \in DOMAIN h : h[j] = k}
      BY <2>1, <3>1 DEF Since
    <3>9. QED
      BY <3>6, <3>7, <3>8
  <2>4. QED
    BY <1>1, <2>3 DEF AttemptsInBoth, RecordsInv
<1>2. QED
  BY <1>1, RecordsInvariant, PTL

(* The list of wakeups implements the cache of the keys used last, for any *)
(* capacity, zero included (WakeupList.cpp:39-80).                         *)
THEOREM WakeupsImplementLruCache == Spec => ImplementsLruCache
<1>1. Init => Lru!Init
  BY RecordsInitially
<1>2. RecordsInv /\ [Next]_vars =>
        [\E k \in AllKeys : Lru!Use(k)]_<<capacity, Names(wakeups), LastKey>>
  <2> SUFFICES ASSUME RecordsInv, [Next]_vars
               PROVE  [\E k \in AllKeys : Lru!Use(k)]_<<capacity, Names(wakeups), LastKey>>
    OBVIOUS
  <2>1. \/ \E k \in AllKeys : Lru!Use(k)
        \/ UNCHANGED <<capacity, Names(wakeups), LastKey>>
    BY RecordsStep
  <2>2. QED
    BY <2>1
<1>3. QED
  BY <1>1, <1>2, RecordsInvariant, PTL DEF Spec, ImplementsLruCache, Lru!Spec

------------------------------------------------------------------------------
(* The time between attempts.                                              *)

(* f is the powers of S up to the n-th.                                    *)
IsPower(S, n, f) == f = [i \in 0 .. n |-> IF i = 0 THEN 1 ELSE S * f[i - 1]]

(* There are such functions ...                                            *)
LEMMA PowerExists ==
  ASSUME NEW S \in Nat
  PROVE  \A n \in Nat : \E f : IsPower(S, n, f)
<1> DEFINE P == {n \in Nat : \E f : IsPower(S, n, f)}
<1>1. 0 \in P
  <2> DEFINE f == [i \in 0 .. 0 |-> 1]
  <2>1. f = [i \in 0 .. 0 |-> IF i = 0 THEN 1 ELSE S * f[i - 1]]
    OBVIOUS
  <2>2. QED
    BY <2>1 DEF IsPower
<1>2. ASSUME NEW n \in Nat, n \in P PROVE n + 1 \in P
  <2>1. PICK f : IsPower(S, n, f)
    BY <1>2
  <2>2. \A i \in 0 .. n : f[i] = IF i = 0 THEN 1 ELSE S * f[i - 1]
    BY <2>1 DEF IsPower
  <2> DEFINE last == S * f[n]
             g == [i \in 0 .. n + 1 |-> IF i = n + 1 THEN last ELSE f[i]]
  <2>3. ASSUME NEW i \in 0 .. n + 1
        PROVE  g[i] = IF i = 0 THEN 1 ELSE S * g[i - 1]
    <3>1. CASE i = 0
      BY <2>2, <3>1
    <3>2. CASE i # 0 /\ i # n + 1
      <4>1. i \in 0 .. n /\ i - 1 \in 0 .. n + 1 /\ i - 1 # n + 1
        BY <3>2
      <4>2. g[i] = f[i] /\ g[i - 1] = f[i - 1]
        BY <3>2, <4>1
      <4>3. QED
        BY <2>2, <3>2, <4>1, <4>2
    <3>3. CASE i = n + 1
      <4>1. i # 0 /\ i - 1 = n /\ n \in 0 .. n + 1 /\ n # n + 1
        BY <3>3
      <4>2. g[n] = f[n] /\ g[i] = last
        BY <3>3, <4>1
      <4>3. QED
        BY <4>1, <4>2
    <3>4. QED
      BY <3>1, <3>2, <3>3
  <2>4. g = [i \in 0 .. n + 1 |-> g[i]]
    OBVIOUS
  <2> HIDE DEF g
  <2>5. IsPower(S, n + 1, g)
    BY <2>3, <2>4 DEF IsPower
  <2>6. QED
    BY <2>5
<1> HIDE DEF P
<1>3. \A n \in Nat : n \in P
  BY <1>1, <1>2, SetInduction
<1>4. QED
  BY <1>3 DEF P

(* ... and they agree.                                                     *)
LEMMA PowersAgree ==
  ASSUME NEW S \in Nat, NEW n \in Nat, NEW m \in Nat, NEW f, NEW g,
         IsPower(S, n, f), IsPower(S, m, g), n <= m
  PROVE  \A i \in 0 .. n : f[i] \in Nat /\ g[i] = f[i]
<1> DEFINE P == {i \in Nat : i <= n => f[i] \in Nat /\ g[i] = f[i]}
<1>1. /\ \A i \in 0 .. n : f[i] = IF i = 0 THEN 1 ELSE S * f[i - 1]
      /\ \A i \in 0 .. m : g[i] = IF i = 0 THEN 1 ELSE S * g[i - 1]
  BY DEF IsPower
<1>2. 0 \in P
  BY <1>1
<1>3. ASSUME NEW i \in Nat, i \in P PROVE i + 1 \in P
  <2> SUFFICES ASSUME i + 1 <= n PROVE f[i + 1] \in Nat /\ g[i + 1] = f[i + 1]
    OBVIOUS
  <2>1. f[i] \in Nat /\ g[i] = f[i]
    BY <1>3
  <2>2. i + 1 \in 0 .. n /\ i + 1 \in 0 .. m /\ i + 1 # 0 /\ (i + 1) - 1 = i
    OBVIOUS
  <2>3. f[i + 1] = S * f[i] /\ g[i + 1] = S * g[i]
    BY <1>1, <2>2
  <2>4. S * f[i] \in Nat
    BY <2>1
  <2>5. QED
    BY <2>1, <2>3, <2>4
<1> HIDE DEF P
<1>4. \A i \in Nat : i \in P
  BY <1>2, <1>3, SetInduction
<1>5. QED
  BY <1>4 DEF P

(* The laws of exponents that define Power.                                *)
LEMMA PowerLaws ==
  ASSUME NEW S \in Nat, NEW n \in Nat
  PROVE  /\ Power(S, 0) = 1
         /\ Power(S, n) \in Nat
         /\ Power(S, n + 1) = S * Power(S, n)
<1> DEFINE F(m) == CHOOSE f : IsPower(S, m, f)
<1>1. \A m \in Nat : Power(S, m) = F(m)[m]
  BY DEF Power, IsPower
<1>2. \A m \in Nat : IsPower(S, m, F(m))
  BY PowerExists
<1> HIDE DEF F
<1>3. 0 \in Nat /\ n + 1 \in Nat /\ n <= n + 1 /\ n \in 0 .. n /\ n <= n
  OBVIOUS
<1>4. F(0)[0] = 1
  <2>1. IsPower(S, 0, F(0))
    BY <1>2
  <2>2. QED
    BY <2>1 DEF IsPower
<1>5. F(n)[n] \in Nat /\ F(n + 1)[n] = F(n)[n]
  BY <1>2, <1>3, PowersAgree
<1>6. F(n + 1)[n + 1] = S * F(n + 1)[n]
  <2> DEFINE f == F(n + 1)
  <2>1. IsPower(S, n + 1, f)
    BY <1>2, <1>3
  <2> HIDE DEF f
  <2>2. n + 1 \in 0 .. n + 1 /\ n + 1 # 0 /\ (n + 1) - 1 = n
    OBVIOUS
  <2>3. f[n + 1] = S * f[n]
    BY <2>1, <2>2 DEF IsPower
  <2>4. QED
    BY <2>3 DEF f
<1>7. QED
  BY <1>1, <1>3, <1>4, <1>5, <1>6

(* Rounding is off by at most half of the divisor.                         *)
LEMMA RoundDivError ==
  ASSUME NEW a \in Nat, NEW d \in Nat \ {0}
  PROVE  /\ RoundDiv(a, d) \in Nat
         /\ Distance(RoundDiv(a, d) * d, a) <= d \div 2
<1> DEFINE q == a \div d
           m == a % d
           w == d * q
           h == d \div 2
<1>1. q \in Nat /\ m \in Nat /\ a = w + m /\ m < d
  OBVIOUS
<1>2. RoundDiv(a, d) = IF 2 * m > d \/ (2 * m = d /\ q % 2 = 1) THEN q + 1 ELSE q
  BY DEF RoundDiv
<1>3. h \in Nat /\ \A i \in Int : 2 * i <= d => i <= h
  OBVIOUS
<1> HIDE DEF q, m, h
<1>4. w \in Nat /\ q * d = w /\ (q + 1) * d = w + d
  BY <1>1
<1> HIDE DEF w
<1>5. CASE RoundDiv(a, d) = q /\ 2 * m <= d
  <2>1. Distance(w, a) = m
    BY <1>1, <1>4 DEF Distance
  <2>2. QED
    BY <1>1, <1>3, <1>4, <1>5, <2>1 DEF h
<1>6. CASE RoundDiv(a, d) = q + 1 /\ 2 * m >= d
  <2>1. Distance(w + d, a) = d - m
    BY <1>1, <1>4 DEF Distance
  <2>2. d - m <= h
    BY <1>1, <1>3, <1>6
  <2>3. QED
    BY <1>1, <1>4, <1>6, <2>1, <2>2 DEF h
<1>7. QED
  BY <1>1, <1>2, <1>5, <1>6

(* Distances under a limit, of multiples and of sums.                      *)
LEMMA DistanceLaws ==
  ASSUME NEW a \in Nat, NEW b \in Nat, NEW c \in Nat
  PROVE  /\ Distance(a, b) \in Nat
         /\ Distance(a * c, b * c) = Distance(a, b) * c
         /\ Distance(MinOf(a, c), MinOf(b, c)) <= Distance(a, b)
         /\ Distance(a, c) <= Distance(a, b) + Distance(b, c)
<1>1. /\ Distance(a, b) \in Nat
      /\ Distance(MinOf(a, c), MinOf(b, c)) <= Distance(a, b)
      /\ Distance(a, c) <= Distance(a, b) + Distance(b, c)
  BY DEF Distance, MinOf
<1>2. a * c \in Nat /\ b * c \in Nat
  OBVIOUS
<1>3. CASE a <= b
  <2>1. a * c <= b * c /\ (b - a) * c = b * c - a * c
    BY <1>3
  <2>2. QED
    BY <1>1, <1>2, <1>3, <2>1 DEF Distance
<1>4. CASE a > b
  <2>1. b * c <= a * c /\ (a - b) * c = a * c - b * c
    BY <1>4
  <2>2. CASE a * c = b * c
    BY <1>1, <1>2, <1>4, <2>1, <2>2 DEF Distance
  <2>3. CASE a * c > b * c
    BY <1>1, <1>2, <1>4, <2>1, <2>3 DEF Distance
  <2>4. QED
    BY <1>2, <2>1, <2>2, <2>3
<1>5. QED
  BY <1>3, <1>4

LEMMA MinOfMultiples ==
  ASSUME NEW a \in Nat, NEW b \in Nat, NEW c \in Nat
  PROVE  MinOf(a, b) * c = MinOf(a * c, b * c)
<1>1. a * c \in Nat /\ b * c \in Nat
  OBVIOUS
<1>2. CASE a <= b
  <2>1. a * c <= b * c
    BY <1>2
  <2>2. QED
    BY <1>2, <2>1 DEF MinOf
<1>3. CASE a > b
  <2>1. b * c <= a * c
    BY <1>3
  <2>2. QED
    BY <1>1, <1>3, <2>1 DEF MinOf
<1>4. QED
  BY <1>2, <1>3

(* A scale factor of at least one takes a time at the limit to the limit.  *)
LEMMA LimitStaysReached ==
  ASSUME NEW x \in Nat, NEW l \in Nat, NEW n \in Nat, NEW d \in Nat, d <= n
  PROVE  MinOf(MinOf(x, l) * n, l * d) = MinOf(x * n, l * d)
<1>1. x * n \in Nat /\ l * n \in Nat /\ l * d \in Nat /\ l * n >= l * d
  <2>1. l * n >= l * d
    OBVIOUS
  <2>2. QED
    BY <2>1
<1>2. CASE x <= l
  BY <1>2 DEF MinOf
<1>3. CASE x > l
  <2>1. x * n >= l * n
    BY <1>3
  <2>2. MinOf(x, l) = l
    BY <1>3 DEF MinOf
  <2>3. QED
    BY <1>1, <2>1, <2>2 DEF MinOf
<1>4. QED
  BY <1>2, <1>3

(* One more scaling of s by n / d, limited to M, of which t / p is the     *)
(* exact value: the distance grows by the factor and by the rounding.      *)
LEMMA ScalingError ==
  ASSUME NEW s \in Nat, NEW M \in Nat, NEW n \in Nat, NEW d \in Nat \ {0},
         NEW p \in Nat, NEW t \in Nat
  PROVE  LET r == MinOf(RoundDiv(s * n, d), M)
         IN  Distance(r * (d * p), MinOf(t * n, M * (d * p)))
               <= (d \div 2) * p + Distance(s * p, t) * n
<1> DEFINE x == s * n
           r == RoundDiv(x, d)
           h == d \div 2
           y == d * p
<1>1. x \in Nat /\ y \in Nat /\ h \in Nat
  OBVIOUS
<1>2. r \in Nat /\ Distance(r * d, x) <= h
  BY <1>1, RoundDivError
<1> HIDE DEF r, x
<1>3. r * d \in Nat /\ r * y \in Nat /\ M * y \in Nat /\ t * n \in Nat
      /\ s * p \in Nat /\ x * p \in Nat
  BY <1>1, <1>2
<1>4. MinOf(r, M) * y = MinOf(r * y, M * y)
  BY <1>1, <1>2, MinOfMultiples
<1>5. Distance(MinOf(r * y, M * y), MinOf(t * n, M * y)) <= Distance(r * y, t * n)
  BY <1>3, DistanceLaws
<1>6. Distance(r * y, t * n) <= Distance(r * y, x * p) + Distance(x * p, t * n)
  BY <1>3, DistanceLaws
<1>7. Distance(r * y, x * p) = Distance(r * d, x) * p
  <2>1. r * y = (r * d) * p
    BY <1>2
  <2>2. QED
    BY <1>1, <1>3, <2>1, DistanceLaws
<1>8. Distance(x * p, t * n) = Distance(s * p, t) * n
  <2>1. x * p = (s * p) * n
    BY DEF x
  <2>2. QED
    BY <1>3, <2>1, DistanceLaws
<1> DEFINE e == Distance(r * d, x)
           u == Distance(s * p, t) * n
<1>9. Distance(r * d, x) * p <= h * p
  <2>1. e \in Nat /\ e <= h
    BY <1>1, <1>2, <1>3, DistanceLaws
  <2> HIDE DEF e, h
  <2>2. e * p <= h * p
    BY <1>1, <2>1
  <2>3. QED
    BY <2>2 DEF e
<1>10. /\ Distance(MinOf(r * y, M * y), MinOf(t * n, M * y)) \in Nat
       /\ Distance(r * y, t * n) \in Nat /\ Distance(r * y, x * p) \in Nat
       /\ Distance(x * p, t * n) \in Nat /\ h * p \in Nat
  <2>1. MinOf(r * y, M * y) \in Nat /\ MinOf(t * n, M * y) \in Nat
    BY <1>3 DEF MinOf
  <2>2. h * p \in Nat
    BY <1>1
  <2>3. QED
    BY <1>3, <2>1, <2>2, DistanceLaws
<1>11. Distance(MinOf(r, M) * y, MinOf(t * n, M * y)) <= h * p + u
  BY <1>4, <1>5, <1>6, <1>7, <1>8, <1>9, <1>10
<1>12. QED
  BY <1>11 DEF r, x

(* The bound on the distance grows as the distance does.                   *)
LEMMA BoundGrows ==
  ASSUME NEW n \in Nat, NEW d \in Nat, n > d, NEW p \in Nat, NEW q \in Nat,
         NEW h \in Nat, NEW e \in Nat, NEW f \in Nat,
         (n - d) * e <= h * (q - p), f <= h * p + e * n
  PROVE  (n - d) * f <= h * (n * q - d * p)
<1> DEFINE c == n - d
           g == q - p
           ce == c * e
           hg == h * g
           hp == h * p
           en == e * n
<1>1. c \in Nat /\ g \in Int /\ ce <= hg
  OBVIOUS
<1> HIDE DEF c, g
<1>2. ce \in Nat /\ hg \in Int /\ hp \in Nat /\ en \in Nat
  BY <1>1
<1>3. c * f <= c * (hp + en)
  <2> DEFINE v == hp + en
  <2>1. v \in Nat /\ f <= v
    BY <1>2
  <2> HIDE DEF v
  <2>2. c * f <= c * v
    BY <1>1, <2>1
  <2>3. QED
    BY <2>2 DEF v
<1>4. c * (hp + en) = c * hp + ce * n
  <2>1. c * (hp + en) = c * hp + c * en
    BY <1>1, <1>2
  <2>2. c * en = ce * n
    BY <1>1
  <2>3. QED
    BY <2>1, <2>2
<1>5. ce * n <= hg * n
  <2> HIDE DEF ce, hg
  <2>1. QED
    BY <1>1, <1>2
<1>6. c * hp + hg * n = h * (n * q - d * p)
  <2> DEFINE np == n * p
             nq == n * q
             dp == d * p
  <2>1. np \in Nat /\ nq \in Nat /\ dp \in Nat
    OBVIOUS
  <2>2. c * hp = h * (np - dp)
    <3>1. c * p = np - dp
      BY DEF c
    <3>2. c * hp = h * (c * p)
      BY <1>1
    <3>3. QED
      BY <3>1, <3>2
  <2>3. hg * n = h * (nq - np)
    <3>1. g * n = nq - np
      BY DEF g
    <3>2. hg * n = h * (g * n)
      BY <1>1
    <3>3. QED
      BY <3>1, <3>2
  <2> HIDE DEF np, nq, dp
  <2>4. h * (np - dp) + h * (nq - np) = h * (nq - dp)
    BY <2>1
  <2>5. QED
    BY <2>2, <2>3, <2>4 DEF nq, dp
<1>7. c * f \in Nat /\ c * hp \in Nat /\ ce * n \in Nat /\ hg * n \in Int
  BY <1>1, <1>2
<1> HIDE DEF ce, hg, hp, en
<1>8. c * f <= h * (n * q - d * p)
  BY <1>3, <1>4, <1>5, <1>6, <1>7
<1>9. QED
  BY <1>8 DEF c

(* A factor of one changes nothing.                                        *)
LEMMA RoundDivExact ==
  ASSUME NEW s \in Nat, NEW d \in Nat \ {0}
  PROVE  RoundDiv(s * d, d) = s
<1> DEFINE a == s * d
           r == RoundDiv(a, d)
           e == Distance(r, s)
<1>1. a \in Nat
  OBVIOUS
<1>2. r \in Nat /\ Distance(r * d, a) <= d \div 2
  BY <1>1, RoundDivError
<1> HIDE DEF r
<1>3. e \in Nat /\ Distance(r * d, a) = e * d
  BY <1>2, DistanceLaws
<1>4. d \div 2 < d
  OBVIOUS
<1> HIDE DEF e
<1>5. e = 0
  <2> SUFFICES ASSUME e >= 1 PROVE FALSE
    BY <1>3
  <2>1. e * d >= 1 * d
    BY <1>3
  <2>2. e * d \in Nat /\ d \div 2 \in Nat
    BY <1>3
  <2>3. QED
    BY <1>2, <1>3, <1>4, <2>1, <2>2
<1>6. r = s
  BY <1>2, <1>5 DEF e, Distance
<1>7. QED
  BY <1>6 DEF r

(* One more bad attempt at or above the threshold moves along the formula. *)
LEMMA DocumentedStep ==
  ASSUME scale \in Scales, scale.num >= scale.den, NEW n \in Nat, NEW s \in Nat,
         n >= BackoffThreshold, IsDocumented(s, n)
  PROVE  IsDocumented(MinOf(RoundDiv(s * scale.num, scale.den), MaxSleepTime), n + 1)
<1> DEFINE B == BaseSleepTime
           M == MaxSleepTime
           N == scale.num
           D == scale.den
           k == n - BackoffThreshold
           P == Power(D, k)
           Q == Power(N, k)
           r == MinOf(RoundDiv(s * N, D), M)
           h == D \div 2
<1>1. /\ B \in Nat /\ M \in Nat /\ N \in Nat /\ D \in Nat \ {0} /\ N >= D
      /\ BackoffThreshold \in Nat
  BY ConfigAssumption
<1>2. /\ k \in Nat /\ n + 1 > BackoffThreshold /\ ~(n + 1 <= BackoffThreshold)
      /\ (n + 1) - BackoffThreshold = k + 1
  BY <1>1
<1> HIDE DEF N, D, k
<1>3. /\ P \in Nat /\ Q \in Nat /\ h \in Nat /\ D \in Nat
      /\ Power(D, k + 1) = D * P /\ Power(N, k + 1) = N * Q
  <2>1. h \in Nat /\ D \in Nat
    BY <1>1
  <2>2. QED
    BY <1>1, <1>2, <2>1, PowerLaws
<1>4. CASE N = D
  <2>1. r = MinOf(s, M)
    BY <1>1, <1>4, RoundDivExact
  <2>2. s = B \/ s = MinOf(B, M)
    BY <1>4 DEF IsDocumented, N, D
  <2>3. MinOf(s, M) = MinOf(B, M)
    BY <1>1, <2>2 DEF MinOf
  <2>4. QED
    BY <1>2, <1>4, <2>1, <2>3 DEF IsDocumented, N, D
<1>5. CASE N > D
  <2> DEFINE t == IF n <= BackoffThreshold THEN B ELSE MinOf(B * Q, M * P)
             e == Distance(s * P, t)
             L == M * (D * P)
  <2>0. ASSUME NEW x \in Nat, NEW l \in Nat
        PROVE  MinOf(MinOf(x, l) * N, l * D) = MinOf(x * N, l * D)
    <3>1. N \in Nat /\ D \in Nat /\ D <= N
      BY <1>1, <1>3
    <3> HIDE DEF P, Q, r, h, B, M, t, e, L
    <3>2. QED
      BY <3>1, LimitStaysReached DEF MinOf
  <2>1. t \in Nat /\ s * P \in Nat /\ e \in Nat /\ D * P \in Nat /\ L \in Nat
    <3>1. B * Q \in Nat /\ M * P \in Nat /\ s * P \in Nat /\ D * P \in Nat
      BY <1>1, <1>3
    <3>2. t \in Nat
      BY <1>1, <3>1 DEF MinOf
    <3>3. L \in Nat
      BY <1>1, <3>1
    <3> HIDE DEF t
    <3>4. QED
      BY <3>1, <3>2, <3>3, DistanceLaws
  <2>2. (N - D) * e <= h * (Q - P)
    <3>1. CASE n <= BackoffThreshold
      <4>1. k = 0 /\ s = B
        BY <1>1, <3>1 DEF k, IsDocumented
      <4>2. P = 1 /\ Q = 1
        BY <1>1, <4>1, PowerLaws
      <4>3. e = 0
        BY <1>1, <3>1, <4>1, <4>2 DEF Distance
      <4>4. (N - D) * 0 = 0 /\ h * (1 - 1) = 0
        BY <1>1, <1>3
      <4>5. QED
        BY <4>2, <4>3, <4>4
    <3>2. CASE ~(n <= BackoffThreshold)
      BY <1>1, <1>5, <3>2 DEF IsDocumented, N, D, k
    <3>3. QED
      BY <3>1, <3>2
  <2>3. MinOf(t * N, L) = MinOf(B * (N * Q), L)
    <3>1. (B * Q) * N = B * (N * Q) /\ (M * P) * D = L
      BY <1>1, <1>3
    <3>2. CASE n <= BackoffThreshold
      <4>1. k = 0
        BY <1>1, <3>2 DEF k
      <4>2. Q = 1
        BY <1>1, <4>1, PowerLaws
      <4>3. t = B /\ N * Q = N
        BY <1>1, <3>2, <4>2
      <4>4. QED
        BY <4>3
    <3>3. CASE ~(n <= BackoffThreshold)
      <4> DEFINE x == B * Q
                 l == M * P
      <4>1. x \in Nat /\ l \in Nat
        BY <1>1, <1>3
      <4>2. t = MinOf(x, l)
        BY <3>3
      <4> HIDE DEF x, l
      <4>3. MinOf(MinOf(x, l) * N, l * D) = MinOf(x * N, l * D)
        BY <2>0, <4>1
      <4>4. QED
        BY <3>1, <4>2, <4>3 DEF x, l
    <3>4. QED
      BY <3>2, <3>3
  <2> HIDE DEF t, P, Q, h
  <2> DEFINE f == Distance(r * (D * P), MinOf(B * (N * Q), L))
  <2>4. f <= h * P + e * N
    BY <1>1, <1>3, <2>1, <2>3, ScalingError DEF h
  <2>5. f \in Nat
    <3>1. r \in Nat
      <4>1. s * N \in Nat
        BY <1>1
      <4>2. RoundDiv(s * N, D) \in Nat
        BY <1>1, <4>1, RoundDivError
      <4>3. QED
        BY <1>1, <4>2 DEF MinOf
    <3>2. B * (N * Q) \in Nat
      <4>1. N * Q \in Nat
        BY <1>1, <1>3
      <4>2. QED
        BY <1>1, <4>1
    <3>3. MinOf(B * (N * Q), L) \in Nat /\ r * (D * P) \in Nat
      BY <2>1, <3>1, <3>2 DEF MinOf
    <3>4. QED
      BY <3>3, DistanceLaws
  <2> HIDE DEF e, f
  <2>6. (N - D) * f <= h * (N * Q - D * P)
    BY <1>1, <1>3, <1>5, <2>1, <2>2, <2>4, <2>5, BoundGrows
  <2>7. (N - D) * Distance(r * Power(D, k + 1),
                           MinOf(B * Power(N, k + 1), M * Power(D, k + 1)))
          <= (D \div 2) * (Power(N, k + 1) - Power(D, k + 1))
    BY <1>3, <2>6 DEF f, h
  <2> HIDE DEF r
  <2>8. IsDocumented(r, n + 1)
    <3>1. N # D
      BY <1>1, <1>5
    <3>2. QED
      BY <1>2, <2>7, <3>1 DEF IsDocumented, N, D
  <2>9. QED
    BY <2>8 DEF r, N, D
<1>6. QED
  BY <1>1, <1>4, <1>5

(* What the step keeps: the formula in the counter of bad attempts.        *)
SleepTimeOfRun == IsDocumented(sleepTime, numBad)

(* An attempt moves along the formula or back to its start.                *)
LEMMA SleepTimeOfRunStep ==
  ASSUME \A s \in Scales : s.num >= s.den, RecordsInv, SleepTimeOfRun, [Next]_vars
  PROVE  SleepTimeOfRun'
<1>1. /\ numBad \in Nat /\ BackoffThreshold \in Nat /\ sleepTime \in Nat
      /\ scale \in Scales /\ scale.num >= scale.den
  BY ConfigAssumption
  DEF RecordsInv, SleepTimeInv, SleepTimeTypes, SleepTimeConfig
<1>2. ASSUME NEW s, NEW n, scale' = scale, sleepTime' = s, numBad' = n,
             IsDocumented(s, n)
      PROVE  SleepTimeOfRun'
  BY <1>2 DEF SleepTimeOfRun, IsDocumented
<1>3. ASSUME NEW s, NEW t, GoodSuspend(s, t), scale' = scale PROVE SleepTimeOfRun'
  <2>1. numBad' = 0 /\ sleepTime' = BaseSleepTime
    BY <1>3 DEF GoodSuspend
  <2>2. IsDocumented(BaseSleepTime, 0)
    BY <1>1 DEF IsDocumented
  <2>3. QED
    BY <1>2, <1>3, <2>1, <2>2
<1>4. ASSUME NEW s, NEW t, BadSuspend(s, t), scale' = scale PROVE SleepTimeOfRun'
  <2>1. /\ numBad' = numBad + 1
        /\ numBad >= BackoffThreshold => sleepTime' = ScaledSleepTime
        /\ ~(numBad >= BackoffThreshold) => sleepTime' = sleepTime
    BY <1>4 DEF BadSuspend, AtThreshold
  <2>2. CASE numBad >= BackoffThreshold
    <3>1. IsDocumented(ScaledSleepTime, numBad + 1)
      BY <1>1, <2>2, DocumentedStep DEF ScaledSleepTime, SleepTimeOfRun
    <3>2. QED
      BY <1>2, <1>4, <2>1, <2>2, <3>1
  <2>3. CASE ~(numBad >= BackoffThreshold)
    <3>1. numBad <= BackoffThreshold /\ numBad + 1 <= BackoffThreshold
      BY <1>1, <2>3
    <3>2. IsDocumented(sleepTime, numBad + 1)
      BY <3>1 DEF IsDocumented, SleepTimeOfRun
    <3>3. QED
      BY <1>2, <1>4, <2>1, <2>3, <3>2
  <2>4. QED
    BY <2>2, <2>3
<1>5. CASE scale' = scale /\ sleepTime' = sleepTime /\ numBad' = numBad
  BY <1>2, <1>5 DEF SleepTimeOfRun
<1>6. CASE \E a \in Attempts : RecordSleepTime(a)
  BY <1>3, <1>4, <1>6 DEF RecordSleepTime, UpdateSleepTime, config
<1>7. CASE RecordReasons \/ UNCHANGED vars
  BY <1>5, <1>7 DEF RecordReasons, vars, sleepTimeVars, config
<1>8. QED
  BY <1>6, <1>7 DEF Next

(* For every scale factor of at least one the time between attempts is the *)
(* documented one, up to the accumulated rounding of fractional factors,   *)
(* for any base, limit and threshold and any sequence of attempts          *)
(* (SystemSuspend.cpp:409-476).                                            *)
THEOREM SleepTimeIsDocumented ==
  ASSUME \A s \in Scales : s.num >= s.den
  PROVE  Spec => []SleepTimeFollowsFormula
<1>1. Init => SleepTimeOfRun
  BY ConfigAssumption DEF Init, SleepTimeInit, SleepTimeOfRun, IsDocumented
<1>2. RecordsInv /\ SleepTimeOfRun /\ [Next]_vars => SleepTimeOfRun'
  BY SleepTimeOfRunStep
<1>3. RecordsInv /\ SleepTimeOfRun => SleepTimeFollowsFormula
  BY DEF RecordsInv, SleepTimeInv, NumBadIsRun, SleepTimeOfRun,
         SleepTimeFollowsFormula
<1>4. QED
  BY <1>1, <1>2, <1>3, RecordsInvariant, PTL DEF Spec
==============================================================================
