----------------------------- MODULE WakeupList ------------------------------
(***************************************************************************)
(* The statistics of wakeup reasons: readWakeupReasons and its caller in   *)
(* SystemSuspend.cpp, and WakeupList.cpp.  The autosuspend thread updates  *)
(* the list after each attempt to suspend (AttemptRecords); mLock makes an *)
(* update one step.                                                        *)
(*                                                                         *)
(* A line of last_resume_reason, trimmed, is the sequence of its parts     *)
(* between semicolons, <<>> if it is blank: that is what Join, which puts  *)
(* semicolons between the reasons, does not tell apart.                    *)
(***************************************************************************)
EXTENDS Integers, SequencesExt

CONSTANTS
  Capacities,         \* the capacities a list may be made with
  ReasonFiles         \* what becomes of last_resume_reason when it is read:
                      \*   readable, its lines, and whether it opens again

ASSUME WakeupListAssumption == Capacities \subseteq Nat

VARIABLES
  capacity,           \* mCapacity
  reasonsFd,          \* mWakeupReasonsFd: open, or closed (-1)
  wakeups,            \* mWakeups, most recent first
  lookup,             \* keys of mLookupTable
  wakeupHistory       \* the keys of all updates, for the properties only

wakeupVars == <<capacity, reasonsFd, wakeups, lookup, wakeupHistory>>

kUnknownWakeup == <<"unknown">>
kErrorWakeup == <<"error">>

(* main goes on without last_resume_reason if it cannot open it.           *)
WakeupInit ==
  /\ capacity \in Capacities
  /\ reasonsFd \in {"open", "closed"}
  /\ wakeups = <<>>
  /\ lookup = {}
  /\ wakeupHistory = <<>>

(* The reasons read from a file with the lines given, if it can be read.   *)
ReadWakeupReasons(readable, lines) ==
  LET reasons == SelectSeq(lines, LAMBDA line : line # <<>>)
  IN  IF ~readable THEN <<kErrorWakeup>>
      ELSE IF reasons = <<>> THEN <<kUnknownWakeup>>
      ELSE reasons

(* reopenFileUsingFd goes through /proc/self/fd, so needs an open one.     *)
Reopen(opens) ==
  reasonsFd' = IF reasonsFd = "open" /\ opens THEN "open" ELSE "closed"

Names(list) == [i \in DOMAIN list |-> list[i].name]

(* insert: the entry becomes the most recent.                              *)
Insert(list, entry) == <<entry>> \o list

(* The position mLookupTable has for a key.                                *)
Position(key) == CHOOSE i \in DOMAIN wakeups : wakeups[i].name = key

(* erase: the entry at a position is taken out.                            *)
Erase(list, position) == RemoveAt(list, position)

(* evict: the last entry of a list that has grown too long.                *)
Evicted(list) == IF Len(list) > capacity THEN {Last(list).name} ELSE {}

(* Mutant: the key of an evicted entry stays in mLookupTable.              *)
AddWithoutErase(key) ==
  LET list == Insert(wakeups, [name |-> key, count |-> 1])
  IN  /\ key \notin lookup
      /\ wakeups' = IF Evicted(list) = {} THEN list ELSE Front(list)
      /\ lookup' = lookup \cup {key}

AddEntry(key) ==
  LET list == Insert(wakeups, [name |-> key, count |-> 1])
  IN  /\ key \notin lookup
      /\ wakeups' = IF Evicted(list) = {} THEN list ELSE Front(list)
      /\ lookup' = (lookup \cup {key}) \ Evicted(list)

(* Mutants: the count is not increased, or the entry is not moved.         *)
MoveOnly(key) ==
  LET stale == wakeups[Position(key)]
  IN  /\ key \in lookup
      /\ wakeups' = Insert(Erase(wakeups, Position(key)), stale)
      /\ UNCHANGED lookup
CountInPlace(key) ==
  /\ key \in lookup
  /\ wakeups' = [i \in DOMAIN wakeups |->
                   IF wakeups[i].name = key
                   THEN [wakeups[i] EXCEPT !.count = @ + 1] ELSE wakeups[i]]
  /\ UNCHANGED lookup

CountEntry(key) ==
  LET stale == wakeups[Position(key)]
  IN  /\ key \in lookup
      /\ wakeups' = Insert(Erase(wakeups, Position(key)),
                           [stale EXCEPT !.count = @ + 1])
      /\ UNCHANGED lookup

(* WakeupList::update; the reasons are joined to one key.                  *)
Update(reasons) ==
  LET key == FlattenSeq(reasons)
  IN  /\ AddEntry(key) \/ CountEntry(key)
      /\ wakeupHistory' = Append(wakeupHistory, key)

(* Mutant: nothing is recorded when the reasons cannot be read.            *)
RecordReadable(file) ==
  LET reasons == ReadWakeupReasons(file.readable, file.lines)
  IN  /\ IF reasons = <<kErrorWakeup>>
         THEN Reopen(file.opens) /\ UNCHANGED <<wakeups, lookup, wakeupHistory>>
         ELSE UNCHANGED reasonsFd /\ Update(reasons)
      /\ UNCHANGED capacity

RecordWakeup(file) ==
  LET reasons == ReadWakeupReasons(file.readable, file.lines)
  IN  /\ IF reasons = <<kErrorWakeup>> THEN Reopen(file.opens)
                                       ELSE UNCHANGED reasonsFd
      /\ Update(reasons)
      /\ UNCHANGED capacity

------------------------------------------------------------------------------
AllKeys == {FlattenSeq(ReadWakeupReasons(f.readable, f.lines)) : f \in ReasonFiles}

LastKey == IF wakeupHistory = <<>> THEN {} ELSE {Last(wakeupHistory)}

Lru == INSTANCE LruCache WITH Keys <- AllKeys, recent <- Names(wakeups),
                              used <- LastKey

(* The list keeps the most recent reasons, most recent first, and never    *)
(* more than its capacity, zero included, however insertion, promotion and *)
(* eviction alternate (WakeupList.cpp:39-80).                              *)
ImplementsLruCache == Lru!Spec

(* mLookupTable has exactly the entries of the list, each once: none of    *)
(* its iterators dangles (WakeupList.cpp:67-80).                           *)
LookupMatchesList ==
  /\ lookup = ToSet(Names(wakeups))
  /\ \A i, j \in DOMAIN wakeups : wakeups[i].name = wakeups[j].name => i = j

(* The last of the first n updates in history h that is of key k, or 0.    *)
LastUse(h, k, n) == Max({0} \cup {i \in 1 .. n : h[i] = k})

(* Whether key k is among the capacity keys used last after n updates.     *)
IsRecent(k, n) ==
  LET last(x) == LastUse(wakeupHistory, x, n)
  IN  /\ last(k) > 0
      /\ Cardinality({x \in ToSet(wakeupHistory) : last(x) > last(k)}) < capacity

(* The count of a reason is the number of times it was the reason since it *)
(* last entered the list: promotion counts it once, an entry that was      *)
(* evicted starts anew, and promotion and eviction of other entries do not *)
(* touch it (WakeupList.cpp:46-80).                                        *)
CountsAreExact ==
  \A i \in DOMAIN wakeups :
    LET k == wakeups[i].name
    IN  wakeups[i].count =
          Cardinality({m \in DOMAIN wakeupHistory :
                         /\ wakeupHistory[m] = k
                         /\ \A n \in m .. Len(wakeupHistory) : IsRecent(k, n)})
==============================================================================
