-------------------------- MODULE WakeLockEntryList --------------------------
(***************************************************************************)
(* The statistics of native wake locks (WakeLockEntryList.cpp), updated by *)
(* the binder threads that serve acquireWakeLock and release, and brought  *)
(* up to date by getWakeLockStats.  updateOnAcquire and updateOnRelease    *)
(* read the clock before they take mStatsLock, so each is two steps;       *)
(* updateNow reads it with the mutex held.                                 *)
(***************************************************************************)
EXTENDS Integers, SequencesExt

CONSTANTS
  WakeLocks,          \* wake lock objects (an identity is reused)
  KeyOf,              \* the (name, pid) each is acquired with
  Capacity,           \* mCapacity
  MaxClock,           \* bound on the clock
  MaxActive           \* bound on the activeCount of an entry

ASSUME WakeLockEntryListAssumption ==
  /\ DOMAIN KeyOf = WakeLocks
  /\ Capacity \in Nat \ {0}
  /\ MaxClock \in Nat /\ MaxActive \in Nat

VARIABLES
  now,                \* the monotonic clock
  stats,              \* mStats, most recently changed first
  lookup,             \* keys of mLookupTable
  phase,              \* each wake lock: none, acquiring, held, releasing
  timeNow,            \* the time its update has read, 0 when there is none
  since, spent,       \* for the properties only: per key, the time of the
                      \*   last acquisition and the time held before it,
                      \*   since the entry was made;
  used                \*   and the key of the last update that had an entry

vars == <<now, stats, lookup, phase, timeNow, since, spent, used>>
historyVars == <<since, spent, used>>

Keys == {KeyOf[w] : w \in WakeLocks}

Init ==
  /\ now = 0
  /\ stats = <<>>
  /\ lookup = {}
  /\ phase = [w \in WakeLocks |-> "none"]
  /\ timeNow = [w \in WakeLocks |-> 0]
  /\ since = [k \in Keys |-> 0]
  /\ spent = [k \in Keys |-> 0]
  /\ used = {}

MaxOf(a, b) == IF a >= b THEN a ELSE b

ListedKeys(list) == [i \in DOMAIN list |-> list[i].key]

(* The position mLookupTable has for a key, and the entry there.           *)
Position(key) == CHOOSE i \in DOMAIN stats : stats[i].key = key
Entry(key) == stats[Position(key)]

(* Mutant: the entry is changed where it is.                               *)
ReplaceInPlace(entry) ==
  /\ stats' = [i \in DOMAIN stats |->
                 IF stats[i].key = entry.key THEN entry ELSE stats[i]]
  /\ UNCHANGED lookup

(* deleteEntry, then insertEntry as the most recent.                       *)
Replace(entry) ==
  /\ stats' = <<entry>> \o RemoveAt(stats, Position(entry.key))
  /\ UNCHANGED lookup

CreateNativeEntry(key, t) ==
  [key |-> key, activeCount |-> 1, lastChange |-> t, maxTime |-> 0,
   totalTime |-> 0, isActive |-> TRUE, activeTime |-> 0]

(* Mutant: the key of the entry evicted stays in mLookupTable.             *)
AddWithoutErase(entry) ==
  /\ stats' = <<entry>> \o IF Len(stats) = Capacity THEN Front(stats)
                                                    ELSE stats
  /\ lookup' = lookup \cup {entry.key}

(* evictIfFull, then insertEntry.                                          *)
AddEntry(entry) ==
  IF Len(stats) = Capacity
  THEN /\ stats' = <<entry>> \o Front(stats)
       /\ lookup' = (lookup \ {Last(stats).key}) \cup {entry.key}
  ELSE /\ stats' = <<entry>> \o stats
       /\ lookup' = lookup \cup {entry.key}

(* The beginning of updateOnAcquire and of updateOnRelease.                *)
GetTimeNow(w, from, to) ==
  /\ to = "acquiring" /\ KeyOf[w] \in lookup =>
       Entry(KeyOf[w]).activeCount < MaxActive
  /\ phase[w] = from
  /\ phase' = [phase EXCEPT ![w] = to]
  /\ timeNow' = [timeNow EXCEPT ![w] = now]
  /\ UNCHANGED <<now, stats, lookup, historyVars>>

(* Mutant: the entry is not marked active again.                           *)
CountedAgain(e, t) ==
  [e EXCEPT !.activeTime = 0, !.activeCount = @ + 1, !.lastChange = t]

(* The entry of a wake lock that is acquired again.                        *)
Activated(e, t) ==
  [e EXCEPT !.isActive = TRUE, !.activeTime = 0,
            !.activeCount = @ + 1, !.lastChange = t]

UpdateOnAcquire(w) ==
  LET k == KeyOf[w]
      t == timeNow[w]
  IN  /\ phase[w] = "acquiring"
      /\ phase' = [phase EXCEPT ![w] = "held"]
      /\ IF k \in lookup
         THEN /\ Replace(Activated(Entry(k), t))
              /\ UNCHANGED spent
         ELSE /\ AddEntry(CreateNativeEntry(k, t))
              /\ spent' = [spent EXCEPT ![k] = 0]
      /\ since' = [since EXCEPT ![k] = t]
      /\ used' = {k}
      /\ timeNow' = [timeNow EXCEPT ![w] = 0]
      /\ UNCHANGED now

(* Mutants: the time of the change is not kept, and the entry stays active.*)
LengthenedOnly(e, delta, t) ==
  [e EXCEPT !.activeTime = @ + delta,
            !.maxTime = MaxOf(@, e.activeTime + delta),
            !.totalTime = @ + delta]
TimeCleared(e) == [e EXCEPT !.activeTime = 0]

Deactivated(e) == [e EXCEPT !.isActive = FALSE, !.activeTime = 0]

(* The entry after delta more milliseconds of activity, up to time t.      *)
Lengthened(e, delta, t) ==
  [e EXCEPT !.activeTime = @ + delta,
            !.maxTime = MaxOf(@, e.activeTime + delta),
            !.totalTime = @ + delta,
            !.lastChange = t]

UpdateOnRelease(w) ==
  LET k == KeyOf[w]
      t == timeNow[w]
      e == Entry(k)
  IN  /\ phase[w] = "releasing"
      /\ phase' = [phase EXCEPT ![w] = "none"]
      /\ IF k \in lookup
         THEN /\ Replace(Deactivated(Lengthened(e, t - e.lastChange, t)))
              /\ spent' = [spent EXCEPT ![k] = @ + (t - since[k])]
              /\ used' = {k}
         ELSE UNCHANGED <<stats, lookup, spent, used>>
      /\ since' = [since EXCEPT ![k] = 0]
      /\ timeNow' = [timeNow EXCEPT ![w] = 0]
      /\ UNCHANGED now

UpdateNow ==
  /\ stats' = [i \in DOMAIN stats |->
                 IF stats[i].isActive
                 THEN Lengthened(stats[i], now - stats[i].lastChange, now)
                 ELSE stats[i]]
  /\ UNCHANGED <<now, lookup, phase, timeNow, historyVars>>

Tick ==
  /\ now < MaxClock
  /\ now' = now + 1
  /\ UNCHANGED <<stats, lookup, phase, timeNow, historyVars>>

Next ==
  \/ \E w \in WakeLocks : \/ GetTimeNow(w, "none", "acquiring")
                          \/ UpdateOnAcquire(w)
                          \/ GetTimeNow(w, "held", "releasing")
                          \/ UpdateOnRelease(w)
  \/ UpdateNow
  \/ Tick

Spec == Init /\ [][Next]_vars

------------------------------------------------------------------------------
Lru == INSTANCE LruCache WITH capacity <- Capacity, recent <- ListedKeys(stats)

(* The list keeps the wake locks acquired or released last, most recent    *)
(* first, within its capacity; updateNow does not reorder it               *)
(* (WakeLockEntryList.cpp:130-161, 325-395).                               *)
ImplementsLruCache == Lru!Spec

(* mLookupTable has exactly the entries of the list, each once: none of    *)
(* its iterators dangles (WakeLockEntryList.cpp:130-161).                  *)
LookupMatchesList ==
  /\ lookup = ToSet(ListedKeys(stats))
  /\ \A i, j \in DOMAIN stats : stats[i].key = stats[j].key => i = j

(* A wake lock whose acquisition has been recorded and whose release has   *)
(* not.                                                                    *)
Recorded(w) == phase[w] \in {"held", "releasing"}

(* Several wake locks have this key.                                       *)
Shared(k) == \E v, w \in WakeLocks : v # w /\ KeyOf[v] = k /\ KeyOf[w] = k

(* A wake lock shown as active is held, and one that shares its entry with *)
(* no other is shown as active while it is held: when all have been        *)
(* released none is left active, though wake locks share entries and       *)
(* entries are evicted while active (WakeLockEntryList.cpp:325-377;        *)
(* WakeLockStressTest).                                                    *)
ActiveMatchesHeld ==
  /\ \A i \in DOMAIN stats :
       stats[i].isActive =>
         \E w \in WakeLocks : KeyOf[w] = stats[i].key /\ Recorded(w)
  /\ \A w \in WakeLocks :
       Recorded(w) /\ KeyOf[w] \in lookup /\ ~Shared(KeyOf[w]) =>
         Entry(KeyOf[w]).isActive

(* The times of an entry that is not shared add up: totalTime is the time  *)
(* between the clock readings of acquisitions and releases, and of the     *)
(* acquisition and the last change while the wake lock is active, wherever *)
(* updateNow, with a clock reading of its own, and evictions come in       *)
(* between (WakeLockEntryList.cpp:325-395).                                *)
TimesAddUp ==
  \A i \in {j \in DOMAIN stats : ~Shared(stats[j].key)} :
    LET e == stats[i]
    IN  /\ e.isActive => e.activeTime = e.lastChange - since[e.key]
        /\ ~e.isActive => e.activeTime = 0
        /\ e.totalTime = spent[e.key] + e.activeTime

(* The longest time a wake lock has been active is part of the total time  *)
(* ("@maxTime: Maximum time (in ms) this wake lock has been continuously   *)
(* active", "@totalTime: Total time (in ms) this wake lock has been        *)
(* active", WakeLockInfo.aidl) (WakeLockEntryList.cpp:351-395).            *)
MaxTimeWithinTotal ==
  \A i \in DOMAIN stats : stats[i].maxTime <= stats[i].totalTime
==============================================================================
