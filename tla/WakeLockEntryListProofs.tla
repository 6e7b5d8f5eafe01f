----------------------- MODULE WakeLockEntryListProofs ------------------------
(***************************************************************************)
(* Proofs about WakeLockEntryList, for any number of wake locks, whether   *)
(* they share entries or not, and any capacity.  StatsInv is inductive.    *)
(* Every update of one entry goes through Replace or AddEntry, of which    *)
(* UpdateOfEntry says all that the invariant needs: the entry is the most  *)
(* recent one and each of the others was there before.                     *)
(***************************************************************************)
EXTENDS WakeLockEntryList, SequenceLemmas

EntryType ==
  [key : Keys, activeCount : Nat, lastChange : Nat, maxTime : Int,
   totalTime : Int, isActive : BOOLEAN, activeTime : Int]

StatsTypes ==
  /\ now \in Nat
  /\ stats \in Seq(EntryType)
  /\ phase \in [WakeLocks -> {"none", "acquiring", "held", "releasing"}]
  /\ timeNow \in [WakeLocks -> Nat]
  /\ since \in [Keys -> Int]
  /\ spent \in [Keys -> Int]

WithinCapacity == Len(stats) <= Capacity

(* ActiveMatchesHeld, said of positions of the list.                       *)
ActiveIsHeld ==
  \A i \in DOMAIN stats :
    stats[i].isActive =>
      \E w \in WakeLocks : KeyOf[w] = stats[i].key /\ Recorded(w)
HeldIsActive ==
  \A w \in WakeLocks : \A i \in DOMAIN stats :
    Recorded(w) /\ stats[i].key = KeyOf[w] /\ ~Shared(KeyOf[w]) =>
      stats[i].isActive

StatsInv ==
  /\ StatsTypes
  /\ WithinCapacity
  /\ LookupMatchesList
  /\ ActiveIsHeld
  /\ HeldIsActive
  /\ TimesAddUp

------------------------------------------------------------------------------
(* The list.                                                               *)

(* The lookup table leads to the entry of each of its keys.                *)
LEMMA PositionOfKey ==
  ASSUME StatsTypes, LookupMatchesList, NEW k \in lookup
  PROVE  /\ Position(k) \in 1 .. Len(stats)
         /\ Entry(k) = stats[Position(k)] /\ Entry(k).key = k
         /\ Entry(k) \in EntryType
<1>1. \E i \in DOMAIN stats : stats[i].key = k
  BY DEF LookupMatchesList, ToSet, ListedKeys
<1>2. Position(k) \in DOMAIN stats /\ stats[Position(k)].key = k
  BY <1>1 DEF Position
<1>3. stats \in Seq(EntryType) /\ DOMAIN stats = 1 .. Len(stats)
  BY DEF StatsTypes
<1> HIDE DEF Position
<1>4. QED
  BY <1>2, <1>3 DEF Entry

(* The keys of a list, as a sequence of their own.                         *)
LEMMA KeysOfList ==
  ASSUME NEW list \in Seq(EntryType)
  PROVE  /\ ListedKeys(list) \in Seq(Keys)
         /\ Len(ListedKeys(list)) = Len(list)
         /\ DOMAIN ListedKeys(list) = 1 .. Len(list)
         /\ \A i \in 1 .. Len(list) : ListedKeys(list)[i] = list[i].key
         /\ Distinct(ListedKeys(list)) <=>
              \A i, j \in DOMAIN list : list[i].key = list[j].key => i = j
<1>1. DOMAIN list = 1 .. Len(list) /\ Len(list) \in Nat
      /\ \A i \in 1 .. Len(list) : list[i] \in EntryType
  OBVIOUS
<1>2. \A i \in 1 .. Len(list) : list[i].key \in Keys
  BY <1>1 DEF EntryType
<1>3. QED
  BY <1>1, <1>2 DEF ListedKeys, Distinct

(* What an update of the entry of a key leaves: the entry is the most      *)
(* recent and no other has its key; the others were there before.          *)
Updated(entry) ==
  /\ stats' \in Seq(EntryType)
  /\ Len(stats') <= Capacity
  /\ LookupMatchesList'
  /\ lookup' \subseteq lookup \cup {entry.key}
  /\ \A j \in DOMAIN stats' :
       \/ stats'[j] = entry
       \/ /\ stats'[j].key # entry.key
          /\ \E i \in DOMAIN stats : stats'[j] = stats[i]

(* An entry that is deleted and inserted again.                            *)
LEMMA ReplaceUpdates ==
  ASSUME StatsTypes, WithinCapacity, LookupMatchesList,
         NEW entry \in EntryType, entry.key \in lookup, Replace(entry)
  PROVE  Updated(entry) /\ ListedKeys(stats)' = Lru!Used(entry.key)
<1> DEFINE k == entry.key
           p == Position(k)
           n == Len(stats)
           r == ListedKeys(stats)
           s == MoveToFront(stats, p, entry)
           m == MoveToFront(r, p, k)
<1>1. /\ p \in 1 .. n /\ stats[p].key = k /\ k \in Keys
      /\ stats \in Seq(EntryType) /\ n \in Nat /\ DOMAIN stats = 1 .. n
  <2>1. k \in Keys
    BY DEF EntryType
  <2>2. QED
    BY <2>1, PositionOfKey DEF StatsTypes
<1>2. /\ r \in Seq(Keys) /\ Len(r) = n /\ DOMAIN r = 1 .. n
      /\ \A i \in 1 .. n : r[i] = stats[i].key
      /\ Distinct(r) /\ lookup = ToSet(r)
  BY <1>1, KeysOfList DEF LookupMatchesList
<1> HIDE DEF p, r
<1>3. /\ s \in Seq(EntryType) /\ Len(s) = n /\ s[1] = entry
      /\ \A j \in 2 .. n : /\ Before(j, p) \in 1 .. n /\ Before(j, p) # p
                           /\ s[j] = stats[Before(j, p)]
  BY <1>1, MoveToFrontProperties
<1>4. /\ m \in Seq(Keys) /\ Len(m) = n /\ m[1] = k
      /\ \A j \in 2 .. n : m[j] = r[Before(j, p)]
  <2> HIDE DEF k
  <2>1. p \in 1 .. Len(r)
    BY <1>1, <1>2
  <2>2. /\ m \in Seq(Keys) /\ Len(m) = Len(r) /\ m[1] = k
        /\ \A j \in 2 .. Len(r) : m[j] = r[Before(j, p)]
    BY <1>1, <1>2, <2>1, MoveToFrontProperties
  <2>3. QED
    BY <1>2, <2>2
<1>5. stats' = s /\ lookup' = lookup
  BY DEF Replace, p, MoveToFront
<1>6. Distinct(m) /\ ToSet(m) = lookup
  <2>1. r[p] = k /\ p \in 1 .. Len(r)
    BY <1>1, <1>2
  <2> HIDE DEF k
  <2>2. QED
    BY <1>2, <2>1, MovedIsDistinct
<1> HIDE DEF s, m
<1>7. /\ ListedKeys(s) \in Seq(Keys) /\ Len(ListedKeys(s)) = n
      /\ \A i \in 1 .. n : ListedKeys(s)[i] = s[i].key
  BY <1>3, KeysOfList
<1>8. \A j \in 1 .. n : j = 1 \/ j \in 2 .. n
  BY <1>1
<1>9. ListedKeys(s) = m
  <2>1. \A j \in 1 .. n : ListedKeys(s)[j] = m[j]
    BY <1>2, <1>3, <1>4, <1>7, <1>8
  <2>2. QED
    BY <1>4, <1>7, <2>1, SeqEqual
<1>10. ListedKeys(stats)' = m
  BY <1>5, <1>9 DEF ListedKeys
<1>11. LookupMatchesList'
  <2>1. \A i, j \in DOMAIN s : s[i].key = s[j].key => i = j
    BY <1>3, <1>6, <1>9, KeysOfList
  <2>2. QED
    BY <1>5, <1>6, <1>10, <2>1 DEF LookupMatchesList
<1>12. Updated(entry)
  <2>1. \A i \in 1 .. n : i # p => stats[i].key # k
    BY <1>1, <1>2 DEF Distinct
  <2>2. \A j \in DOMAIN s :
          \/ s[j] = entry
          \/ s[j].key # k /\ \E i \in DOMAIN stats : s[j] = stats[i]
    BY <1>1, <1>3, <1>8, <2>1
  <2>3. QED
    BY <1>1, <1>3, <1>5, <1>11, <2>2 DEF Updated, WithinCapacity
<1>13. Lru!Used(k) = m
  <2> DEFINE q == CHOOSE i \in DOMAIN r : r[i] = k
  <2>1. q = p /\ \E i \in DOMAIN r : r[i] = k
    BY <1>1, <1>2 DEF Distinct
  <2> HIDE DEF q
  <2>2. Lru!Others(k) = RemoveAt(r, p)
    BY <2>1 DEF Lru!Others, Lru!RemoveAt, RemoveAt, r, q
  <2>3. Lru!Used(k) = IF Len(m) > Capacity THEN SubSeq(m, 1, Capacity) ELSE m
    BY <2>2 DEF Lru!Used, MoveToFront, m
  <2>4. QED
    BY <1>1, <1>4, <2>3, WakeLockEntryListAssumption DEF WithinCapacity
<1>14. QED
  BY <1>10, <1>12, <1>13

(* A new entry, for which the last one has to go if the list is full.      *)
LEMMA AddEntryUpdates ==
  ASSUME StatsTypes, WithinCapacity, LookupMatchesList,
         NEW entry \in EntryType, entry.key \notin lookup, AddEntry(entry)
  PROVE  Updated(entry) /\ ListedKeys(stats)' = Lru!Used(entry.key)
<1> DEFINE k == entry.key
           n == Len(stats)
           r == ListedKeys(stats)
           s == <<entry>> \o stats
           m == <<k>> \o r
<1>1. /\ stats \in Seq(EntryType) /\ n \in Nat /\ DOMAIN stats = 1 .. n
      /\ k \in Keys /\ Capacity \in Nat /\ Capacity # 0 /\ n <= Capacity
  <2>1. k \in Keys
    BY DEF EntryType
  <2>2. QED
    BY <2>1, WakeLockEntryListAssumption DEF StatsTypes, WithinCapacity
<1>2. /\ r \in Seq(Keys) /\ Len(r) = n /\ DOMAIN r = 1 .. n
      /\ \A i \in 1 .. n : r[i] = stats[i].key
      /\ Distinct(r) /\ lookup = ToSet(r)
  BY <1>1, KeysOfList DEF LookupMatchesList
<1>3. \A i \in DOMAIN r : r[i] # k
  BY <1>2 DEF ToSet
<1>4. Lru!Used(k) = IF Len(m) > Capacity THEN SubSeq(m, 1, Capacity) ELSE m
  BY <1>3 DEF Lru!Used, Lru!Others
<1> HIDE DEF k, r
<1>5. /\ s \in Seq(EntryType) /\ Len(s) = n + 1
      /\ \A j \in 1 .. n + 1 : s[j] = IF j = 1 THEN entry ELSE stats[j - 1]
  BY <1>1, PrependProperties
<1> HIDE DEF n
<1>6. /\ m \in Seq(Keys) /\ Len(m) = n + 1
      /\ \A j \in 1 .. n + 1 : m[j] = IF j = 1 THEN k ELSE r[j - 1]
      /\ Distinct(m) /\ ToSet(m) = lookup \cup {k}
  BY <1>1, <1>2, PrependProperties, PrependedIsDistinct DEF k
<1>7. n + 1 \in Nat /\ \A j \in 1 .. n + 1 : j = 1 \/ j - 1 \in 1 .. n
  BY <1>1
<1> HIDE DEF s, m
<1>8. ListedKeys(s) = m
  <2>1. /\ ListedKeys(s) \in Seq(Keys) /\ Len(ListedKeys(s)) = n + 1
        /\ \A i \in 1 .. n + 1 : ListedKeys(s)[i] = s[i].key
    BY <1>5, KeysOfList
  <2>2. \A j \in 1 .. n + 1 : ListedKeys(s)[j] = m[j]
    <3> SUFFICES ASSUME NEW j \in 1 .. n + 1 PROVE s[j].key = m[j]
      BY <2>1
    <3>1. CASE j = 1
      BY <1>5, <1>6, <3>1 DEF k
    <3>2. CASE j # 1
      <4>1. s[j] = stats[j - 1] /\ m[j] = r[j - 1] /\ j - 1 \in 1 .. n
        BY <1>5, <1>6, <1>7, <3>2
      <4>2. QED
        BY <1>2, <4>1
    <3>3. QED
      BY <3>1, <3>2
  <2>3. QED
    BY <1>6, <2>1, <2>2, SeqEqual
<1>9. \A j \in 1 .. n + 1 :
        \/ s[j] = entry
        \/ s[j].key # k /\ \E i \in DOMAIN stats : s[j] = stats[i]
  <2> SUFFICES ASSUME NEW j \in 1 .. n + 1, j # 1
               PROVE  s[j].key # k /\ \E i \in DOMAIN stats : s[j] = stats[i]
    BY <1>5
  <2>1. s[j] = stats[j - 1] /\ j - 1 \in 1 .. n
    BY <1>5, <1>7
  <2>2. QED
    BY <1>1, <1>2, <1>3, <2>1
<1>10. CASE n # Capacity
  <2>1. stats' = s /\ lookup' = lookup \cup {k}
    BY <1>10 DEF AddEntry, k, n, s
  <2>2. ListedKeys(stats)' = m
    BY <1>8, <2>1 DEF ListedKeys
  <2>3. LookupMatchesList'
    BY <1>5, <1>6, <1>8, <2>1, <2>2, KeysOfList DEF LookupMatchesList
  <2>4. Updated(entry)
    <3>1. Len(stats') <= Capacity /\ DOMAIN stats' = 1 .. n + 1
      BY <1>1, <1>5, <1>10, <2>1
    <3>2. QED
      BY <1>5, <1>9, <2>1, <2>3, <3>1 DEF Updated, k
  <2>5. Lru!Used(k) = m
    <3>1. ~(Len(m) > Capacity)
      BY <1>1, <1>6, <1>10
    <3>2. QED
      BY <1>4, <3>1
  <2>6. QED
    BY <2>2, <2>4, <2>5 DEF k
<1>11. CASE n = Capacity
  <2> DEFINE f == Front(s)
             g == Front(m)
  <2>1. s # <<>> /\ m # <<>> /\ (n + 1) - 1 = n
    BY <1>1, <1>5, <1>6
  <2>2. /\ f \in Seq(EntryType) /\ Len(f) = n /\ \A j \in 1 .. n : f[j] = s[j]
        /\ g \in Seq(Keys) /\ Len(g) = n /\ \A j \in 1 .. n : g[j] = m[j]
        /\ Last(m) = m[n + 1]
    <3>1. /\ f \in Seq(EntryType) /\ Len(f) = Len(s) - 1
          /\ \A j \in 1 .. Len(s) - 1 : f[j] = s[j]
      BY <1>5, <2>1, FrontProperties
    <3>2. /\ g \in Seq(Keys) /\ Len(g) = Len(m) - 1
          /\ \A j \in 1 .. Len(m) - 1 : g[j] = m[j]
          /\ Last(m) = m[Len(m)]
      BY <1>6, <2>1, FrontProperties
    <3>3. Len(s) - 1 = n /\ Len(m) - 1 = n
      BY <1>5, <1>6, <2>1
    <3> HIDE DEF f, g
    <3>4. QED
      BY <1>6, <3>1, <3>2, <3>3
  <2>3. Distinct(g) /\ ToSet(g) = (lookup \cup {k}) \ {Last(m)}
    BY <1>6, <2>1, FrontIsDistinct
  <2>4. Last(m) = Last(stats).key /\ Last(m) # k
    <3>1. n \in 1 .. n /\ n + 1 \in 1 .. n + 1 /\ n + 1 # 1 /\ (n + 1) - 1 = n
      BY <1>1, <1>11
    <3>2. m[n + 1] = r[n]
      BY <1>6, <3>1
    <3>3. Last(stats) = stats[n]
      BY DEF Last, n
    <3>4. QED
      BY <1>2, <1>3, <2>2, <3>1, <3>2, <3>3
  <2>5. stats' = f
    <3>1. stats' = <<entry>> \o Front(stats)
      BY <1>11 DEF AddEntry, n
    <3>2. stats # <<>>
      BY <1>1, <1>11
    <3>3. /\ Front(stats) \in Seq(EntryType) /\ Len(Front(stats)) = n - 1
          /\ \A j \in 1 .. n - 1 : Front(stats)[j] = stats[j]
      BY <1>1, <3>2, FrontProperties
    <3> DEFINE h == <<entry>> \o Front(stats)
    <3>4. /\ h \in Seq(EntryType) /\ Len(h) = (n - 1) + 1
          /\ \A j \in 1 .. (n - 1) + 1 :
               h[j] = IF j = 1 THEN entry ELSE Front(stats)[j - 1]
      <4> DEFINE t == Front(stats)
      <4> HIDE DEF t
      <4>1. t \in Seq(EntryType) /\ Len(t) = n - 1
        BY <3>3 DEF t
      <4>2. QED
        BY <4>1, PrependProperties DEF t
    <3> HIDE DEF h
    <3>5. \A j \in 1 .. n : h[j] = f[j]
      <4> SUFFICES ASSUME NEW j \in 1 .. n PROVE h[j] = f[j]
        OBVIOUS
      <4>1. j \in 1 .. (n - 1) + 1 /\ j \in 1 .. n + 1
            /\ (j # 1 => j - 1 \in 1 .. n - 1)
        BY <1>1
      <4>2. f[j] = IF j = 1 THEN entry ELSE stats[j - 1]
        BY <1>5, <2>2, <4>1
      <4>3. QED
        BY <3>3, <3>4, <4>1, <4>2
    <3>6. Len(h) = n
      BY <1>1, <3>4
    <3>7. h = f
      BY <2>2, <3>4, <3>5, <3>6, SeqEqual
    <3>8. QED
      BY <3>1, <3>7 DEF h
  <2> HIDE DEF f, g
  <2>6. ListedKeys(f) = g
    <3>1. /\ ListedKeys(f) \in Seq(Keys) /\ Len(ListedKeys(f)) = n
          /\ \A i \in 1 .. n : ListedKeys(f)[i] = f[i].key
      BY <2>2, KeysOfList
    <3>2. \A i \in 1 .. n : i \in 1 .. n + 1 /\ m[i] = s[i].key
      <4>1. \A i \in 1 .. n : i \in 1 .. n + 1
        BY <1>1
      <4>2. \A i \in 1 .. n + 1 : ListedKeys(s)[i] = s[i].key
        BY <1>5, KeysOfList
      <4>3. QED
        BY <1>8, <4>1, <4>2
    <3>3. \A i \in 1 .. n : ListedKeys(f)[i] = g[i]
      BY <2>2, <3>1, <3>2
    <3>4. QED
      BY <2>2, <3>1, <3>3, SeqEqual
  <2>7. ListedKeys(stats)' = g
    BY <2>5, <2>6 DEF ListedKeys
  <2>8. lookup' = (lookup \ {Last(stats).key}) \cup {k}
    BY <1>11 DEF AddEntry, k, n
  <2>9. lookup' = ToSet(g)
    BY <2>3, <2>4, <2>8
  <2>10. LookupMatchesList'
    BY <2>2, <2>3, <2>5, <2>6, <2>7, <2>9, KeysOfList DEF LookupMatchesList
  <2>11. Updated(entry)
    <3>1. \A j \in DOMAIN f :
            \/ f[j] = entry
            \/ f[j].key # k /\ \E i \in DOMAIN stats : f[j] = stats[i]
      <4>1. DOMAIN f = 1 .. n /\ \A j \in 1 .. n : j \in 1 .. n + 1
        BY <1>1, <2>2
      <4>2. QED
        BY <1>9, <2>2, <4>1
    <3>2. QED
      BY <1>1, <2>2, <2>5, <2>8, <2>10, <3>1 DEF Updated, k
  <2>12. Lru!Used(k) = g
    <3>1. Len(m) > Capacity /\ Len(m) - 1 = Capacity
      BY <1>1, <1>6, <1>11
    <3>2. QED
      BY <1>4, <3>1 DEF Front, g
  <2>13. QED
    BY <2>7, <2>11, <2>12 DEF k
<1>12. QED
  BY <1>10, <1>11
------------------------------------------------------------------------------
(* The steps.                                                              *)

(* The fields of an entry that is made or changed.                         *)
LEMMA EntryFields ==
  ASSUME NEW k \in Keys, NEW t \in Nat, NEW e \in EntryType
  PROVE  /\ CreateNativeEntry(k, t) \in EntryType
         /\ CreateNativeEntry(k, t).key = k
         /\ CreateNativeEntry(k, t).isActive
         /\ CreateNativeEntry(k, t).activeTime = 0
         /\ CreateNativeEntry(k, t).lastChange = t
         /\ CreateNativeEntry(k, t).totalTime = 0
         /\ Activated(e, t) \in EntryType
         /\ Activated(e, t).key = e.key
         /\ Activated(e, t).isActive
         /\ Activated(e, t).activeTime = 0
         /\ Activated(e, t).lastChange = t
         /\ Activated(e, t).totalTime = e.totalTime
         /\ Lengthened(e, t - e.lastChange, t) \in EntryType
         /\ Lengthened(e, t - e.lastChange, t).key = e.key
         /\ Lengthened(e, t - e.lastChange, t).isActive = e.isActive
         /\ Lengthened(e, t - e.lastChange, t).lastChange = t
         /\ Lengthened(e, t - e.lastChange, t).activeTime =
              e.activeTime + (t - e.lastChange)
         /\ Lengthened(e, t - e.lastChange, t).totalTime =
              e.totalTime + (t - e.lastChange)
         /\ Deactivated(e) \in EntryType
         /\ Deactivated(e).key = e.key
         /\ ~Deactivated(e).isActive
         /\ Deactivated(e).activeTime = 0
         /\ Deactivated(e).totalTime = e.totalTime
<1>1. e.key \in Keys /\ e.activeCount \in Nat /\ e.lastChange \in Nat
      /\ e.maxTime \in Int /\ e.totalTime \in Int /\ e.activeTime \in Int
      /\ e.isActive \in BOOLEAN
  BY DEF EntryType
<1>2. MaxOf(e.maxTime, e.activeTime + (t - e.lastChange)) \in Int
  BY <1>1 DEF MaxOf
<1>3. /\ CreateNativeEntry(k, t) \in EntryType
      /\ CreateNativeEntry(k, t).key = k
      /\ CreateNativeEntry(k, t).isActive
      /\ CreateNativeEntry(k, t).activeTime = 0
      /\ CreateNativeEntry(k, t).lastChange = t
      /\ CreateNativeEntry(k, t).totalTime = 0
  BY DEF CreateNativeEntry, EntryType
<1>4. /\ Activated(e, t) \in EntryType
      /\ Activated(e, t).key = e.key
      /\ Activated(e, t).isActive
      /\ Activated(e, t).activeTime = 0
      /\ Activated(e, t).lastChange = t
      /\ Activated(e, t).totalTime = e.totalTime
  <2> DEFINE count == e.activeCount + 1
  <2>1. count \in Nat
    BY <1>1
  <2> HIDE DEF count
  <2> DEFINE x == [e EXCEPT !.isActive = TRUE, !.activeTime = 0,
                            !.activeCount = count, !.lastChange = t]
  <2>2. x \in EntryType
    BY <2>1, 0 \in Int, TRUE \in BOOLEAN DEF EntryType
  <2>3. x.isActive = TRUE
    BY DEF EntryType
  <2>4. x.key = e.key /\ x.activeTime = 0 /\ x.lastChange = t
        /\ x.totalTime = e.totalTime
    BY DEF EntryType
  <2>5. Activated(e, t) = x
    BY DEF Activated, count
  <2> HIDE DEF x
  <2>6. QED
    BY <2>2, <2>3, <2>4, <2>5
<1>5. /\ Deactivated(e) \in EntryType
      /\ Deactivated(e).key = e.key
      /\ ~Deactivated(e).isActive
      /\ Deactivated(e).activeTime = 0
      /\ Deactivated(e).totalTime = e.totalTime
  <2>1. Deactivated(e) \in EntryType
    BY 0 \in Int, FALSE \in BOOLEAN DEF Deactivated, EntryType
  <2>2. Deactivated(e).isActive = FALSE
    BY DEF Deactivated, EntryType
  <2>3. /\ Deactivated(e).key = e.key /\ Deactivated(e).activeTime = 0
        /\ Deactivated(e).totalTime = e.totalTime
    BY DEF Deactivated, EntryType
  <2>4. QED
    BY <2>1, <2>2, <2>3
<1>6. /\ Lengthened(e, t - e.lastChange, t) \in EntryType
      /\ Lengthened(e, t - e.lastChange, t).key = e.key
      /\ Lengthened(e, t - e.lastChange, t).isActive = e.isActive
      /\ Lengthened(e, t - e.lastChange, t).lastChange = t
      /\ Lengthened(e, t - e.lastChange, t).activeTime =
           e.activeTime + (t - e.lastChange)
      /\ Lengthened(e, t - e.lastChange, t).totalTime =
           e.totalTime + (t - e.lastChange)
  <2> DEFINE delta == t - e.lastChange
             max == MaxOf(e.maxTime, e.activeTime + delta)
             active == e.activeTime + delta
             total == e.totalTime + delta
             x == [e EXCEPT !.activeTime = active, !.maxTime = max,
                            !.totalTime = total, !.lastChange = t]
  <2>1. max \in Int /\ active \in Int /\ total \in Int
    BY <1>1, <1>2
  <2>2. Lengthened(e, delta, t) = x
    BY DEF Lengthened
  <2> HIDE DEF max, active, total
  <2>3. /\ x \in EntryType /\ x.key = e.key /\ x.lastChange = t
        /\ x.activeTime = active /\ x.totalTime = total
    BY <2>1 DEF EntryType
  <2>4. x.isActive = e.isActive
    BY DEF EntryType
  <2> HIDE DEF x
  <2>5. QED
    BY <2>2, <2>3, <2>4 DEF active, total
<1>7. QED
  BY <1>3, <1>4, <1>5, <1>6

(* Entries of other keys keep what the invariant says of them when the     *)
(* wake lock w and the entry of its key change.                            *)
LEMMA OtherEntries ==
  ASSUME StatsInv, NEW w \in WakeLocks, NEW entry, entry.key = KeyOf[w],
         Updated(entry),
         NEW new, phase' = [phase EXCEPT ![w] = new],
         NEW a, since' = [since EXCEPT ![KeyOf[w]] = a],
         \/ spent' = spent
         \/ \E b : spent' = [spent EXCEPT ![KeyOf[w]] = b],
         NEW j \in DOMAIN stats', stats'[j] # entry
  PROVE  /\ stats'[j].isActive =>
              \E v \in WakeLocks : KeyOf[v] = stats'[j].key /\ Recorded(v)'
         /\ \A v \in WakeLocks :
              Recorded(v)' /\ stats'[j].key = KeyOf[v] /\ ~Shared(KeyOf[v]) =>
                stats'[j].isActive
         /\ ~Shared(stats'[j].key) =>
              LET e == stats'[j]
              IN  /\ e.isActive => e.activeTime = e.lastChange - since'[e.key]
                  /\ ~e.isActive => e.activeTime = 0
                  /\ e.totalTime = spent'[e.key] + e.activeTime
<1>1. PICK i \in DOMAIN stats : stats'[j] = stats[i]
  BY DEF Updated
<1>2. stats'[j].key # KeyOf[w]
  BY DEF Updated
<1>3. \A v \in WakeLocks : KeyOf[v] = stats'[j].key => phase'[v] = phase[v]
  BY <1>2 DEF StatsInv, StatsTypes
<1>4. stats[i].key \in Keys
  <2>1. stats[i] \in EntryType
    BY <1>1 DEF StatsInv, StatsTypes
  <2>2. QED
    BY <2>1 DEF EntryType
<1>5. since'[stats[i].key] = since[stats[i].key]
      /\ spent'[stats[i].key] = spent[stats[i].key]
  BY <1>1, <1>2, <1>4 DEF StatsInv, StatsTypes
<1>6. /\ stats[i].isActive =>
           \E v \in WakeLocks : KeyOf[v] = stats[i].key /\ Recorded(v)
      /\ \A v \in WakeLocks :
           Recorded(v) /\ stats[i].key = KeyOf[v] /\ ~Shared(KeyOf[v]) =>
             stats[i].isActive
  BY <1>1 DEF StatsInv, ActiveIsHeld, HeldIsActive
<1>7. ~Shared(stats[i].key) =>
        /\ stats[i].isActive =>
             stats[i].activeTime = stats[i].lastChange - since[stats[i].key]
        /\ ~stats[i].isActive => stats[i].activeTime = 0
        /\ stats[i].totalTime = spent[stats[i].key] + stats[i].activeTime
  BY <1>1 DEF StatsInv, TimesAddUp
<1>8. /\ stats'[j].isActive =>
           \E v \in WakeLocks : KeyOf[v] = stats'[j].key /\ Recorded(v)'
      /\ \A v \in WakeLocks :
           Recorded(v)' /\ stats'[j].key = KeyOf[v] /\ ~Shared(KeyOf[v]) =>
             stats'[j].isActive
  BY <1>1, <1>3, <1>6 DEF Recorded
<1>9. QED
  BY <1>1, <1>5, <1>7, <1>8

(* An acquisition.                                                         *)
LEMMA AcquireStep ==
  ASSUME StatsInv, NEW w \in WakeLocks, UpdateOnAcquire(w)
  PROVE  StatsInv' /\ Lru!Use(KeyOf[w]) /\ KeyOf[w] \in Keys
<1> DEFINE k == KeyOf[w]
           t == timeNow[w]
           entry == IF k \in lookup THEN Activated(Entry(k), t)
                    ELSE CreateNativeEntry(k, t)
<1>1. k \in Keys /\ t \in Nat /\ phase[w] = "acquiring"
  BY DEF Keys, StatsInv, StatsTypes, UpdateOnAcquire
<1>2. k \in lookup => Entry(k) \in EntryType /\ Entry(k).key = k
                      /\ Position(k) \in DOMAIN stats
                      /\ Entry(k) = stats[Position(k)]
  BY PositionOfKey DEF StatsInv, StatsTypes
<1>3. /\ entry \in EntryType /\ entry.key = k /\ entry.isActive
      /\ entry.activeTime = 0 /\ entry.lastChange = t
      /\ entry.totalTime = IF k \in lookup THEN Entry(k).totalTime ELSE 0
  <2>1. CASE k \in lookup
    BY <1>1, <1>2, <2>1, EntryFields
  <2>2. CASE k \notin lookup
    <3> HIDE DEF k, t
    <3>1. CreateNativeEntry(k, t) \in EntryType
      BY <1>1 DEF CreateNativeEntry, EntryType
    <3>2. QED
      BY <1>1, <2>2, <3>1, EntryFields
  <2>3. QED
    BY <2>1, <2>2
<1>4. Updated(entry) /\ ListedKeys(stats)' = Lru!Used(k)
  <2>1. CASE k \in lookup
    <3>1. Replace(entry)
      BY <2>1 DEF UpdateOnAcquire
    <3> HIDE DEF entry
    <3>2. QED
      BY <1>3, <2>1, <3>1, ReplaceUpdates DEF StatsInv
  <2>2. CASE k \notin lookup
    <3>1. AddEntry(entry)
      BY <2>2 DEF UpdateOnAcquire
    <3> HIDE DEF entry
    <3>2. QED
      BY <1>3, <2>2, <3>1, AddEntryUpdates DEF StatsInv
  <2>3. QED
    BY <2>1, <2>2
<1>5. ~Shared(k) /\ k \in lookup => Entry(k).totalTime = spent[k]
  <2> SUFFICES ASSUME ~Shared(k), k \in lookup
               PROVE  Entry(k).totalTime = spent[k]
    OBVIOUS
  <2>1. \A v \in WakeLocks : KeyOf[v] = k => v = w
    BY DEF Shared
  <2>2. ~Entry(k).isActive
    BY <1>1, <1>2, <2>1 DEF StatsInv, ActiveIsHeld, Recorded
  <2>3. Entry(k).activeTime = 0 /\ Entry(k).totalTime = spent[k] + Entry(k).activeTime
    BY <1>2, <2>2 DEF StatsInv, TimesAddUp
  <2>4. spent[k] \in Int
    BY <1>1 DEF StatsInv, StatsTypes
  <2>5. QED
    BY <2>3, <2>4
<1> HIDE DEF entry
<1>6. /\ phase' = [phase EXCEPT ![w] = "held"]
      /\ since' = [since EXCEPT ![k] = t]
      /\ timeNow' = [timeNow EXCEPT ![w] = 0]
      /\ used' = {k} /\ now' = now
      /\ spent' = IF k \in lookup THEN spent ELSE [spent EXCEPT ![k] = 0]
  BY DEF UpdateOnAcquire
<1>7. StatsTypes' /\ WithinCapacity' /\ LookupMatchesList'
  BY <1>1, <1>4, <1>6 DEF StatsInv, StatsTypes, WithinCapacity, Updated
<1>8. /\ phase'[w] = "held" /\ since'[k] = t
      /\ ~Shared(k) => entry.totalTime = spent'[k] /\ spent'[k] \in Int
  BY <1>1, <1>3, <1>5, <1>6 DEF StatsInv, StatsTypes
<1>9. \A j \in DOMAIN stats' :
        \/ stats'[j] = entry
        \/ /\ stats'[j].isActive =>
                \E v \in WakeLocks : KeyOf[v] = stats'[j].key /\ Recorded(v)'
           /\ \A v \in WakeLocks :
                Recorded(v)' /\ stats'[j].key = KeyOf[v] /\ ~Shared(KeyOf[v]) =>
                  stats'[j].isActive
           /\ ~Shared(stats'[j].key) =>
                LET e == stats'[j]
                IN  /\ e.isActive => e.activeTime = e.lastChange - since'[e.key]
                    /\ ~e.isActive => e.activeTime = 0
                    /\ e.totalTime = spent'[e.key] + e.activeTime
  BY <1>3, <1>4, <1>6, OtherEntries
<1>10. ActiveIsHeld'
  BY <1>3, <1>8, <1>9 DEF ActiveIsHeld, Recorded
<1>11. HeldIsActive'
  BY <1>3, <1>9 DEF HeldIsActive, Shared
<1>12. TimesAddUp'
  <2>1. ~Shared(k) => /\ entry.activeTime = entry.lastChange - since'[k]
                      /\ entry.totalTime = spent'[k] + entry.activeTime
    BY <1>1, <1>3, <1>8
  <2>2. QED
    BY <1>3, <1>9, <2>1 DEF TimesAddUp, Shared
<1>13. Lru!Use(k)
  BY <1>4, <1>6 DEF Lru!Use
<1>14. QED
  BY <1>1, <1>7, <1>10, <1>11, <1>12, <1>13 DEF StatsInv
(* A release of a wake lock whose entry is still there.                    *)
LEMMA ReleaseOfListed ==
  ASSUME StatsInv, NEW w \in WakeLocks, UpdateOnRelease(w), KeyOf[w] \in lookup
  PROVE  StatsInv' /\ Lru!Use(KeyOf[w])
<1> DEFINE k == KeyOf[w]
           t == timeNow[w]
           e == Entry(k)
           longer == Lengthened(e, t - e.lastChange, t)
           entry == Deactivated(longer)
           b == spent[k] + (t - since[k])
<1>1. k \in Keys /\ t \in Nat /\ phase[w] = "releasing"
      /\ spent[k] \in Int /\ since[k] \in Int
  BY DEF Keys, StatsInv, StatsTypes, UpdateOnRelease
<1>2. e \in EntryType /\ e.key = k /\ Position(k) \in DOMAIN stats
      /\ e = stats[Position(k)]
  BY PositionOfKey DEF StatsInv, StatsTypes
<1>3. /\ phase' = [phase EXCEPT ![w] = "none"]
      /\ since' = [since EXCEPT ![k] = 0]
      /\ timeNow' = [timeNow EXCEPT ![w] = 0]
      /\ used' = {k} /\ now' = now
      /\ spent' = [spent EXCEPT ![k] = b]
      /\ Replace(entry)
  BY DEF UpdateOnRelease
<1>4. b \in Int
  BY <1>1
<1> HIDE DEF e, t, b, k
<1>5. /\ longer \in EntryType /\ longer.key = k
      /\ longer.totalTime = e.totalTime + (t - e.lastChange)
  BY <1>1, <1>2, EntryFields
<1> HIDE DEF longer
<1>6. /\ entry \in EntryType /\ entry.key = k /\ ~entry.isActive
      /\ entry.activeTime = 0
      /\ entry.totalTime = e.totalTime + (t - e.lastChange)
  BY <1>1, <1>5, EntryFields
<1> HIDE DEF entry
<1>7. Updated(entry) /\ ListedKeys(stats)' = Lru!Used(k)
  BY <1>3, <1>6, ReplaceUpdates DEF StatsInv, k
<1>8. ~Shared(k) => entry.totalTime = b
  <2> SUFFICES ASSUME ~Shared(k) PROVE entry.totalTime = b
    OBVIOUS
  <2>1. e.isActive
    BY <1>1, <1>2 DEF StatsInv, HeldIsActive, Recorded, k
  <2>2. e.activeTime = e.lastChange - since[k]
        /\ e.totalTime = spent[k] + e.activeTime
    BY <1>2, <2>1 DEF StatsInv, TimesAddUp
  <2>3. e.lastChange \in Nat
    BY <1>2 DEF EntryType
  <2>4. QED
    BY <1>1, <1>6, <2>2, <2>3 DEF b
<1>9. StatsTypes' /\ WithinCapacity' /\ LookupMatchesList'
  <2>1. since' \in [Keys -> Int] /\ spent' \in [Keys -> Int]
    <3>1. since \in [Keys -> Int] /\ spent \in [Keys -> Int]
      BY DEF StatsInv, StatsTypes
    <3>2. since' \in [Keys -> Int]
      BY <1>3, <3>1, 0 \in Int
    <3>3. spent' \in [Keys -> Int]
      BY <1>3, <1>4, <3>1
    <3>4. QED
      BY <3>2, <3>3
  <2>2. timeNow' \in [WakeLocks -> Nat]
    BY <1>3 DEF StatsInv, StatsTypes
  <2>3. phase' \in [WakeLocks -> {"none", "acquiring", "held", "releasing"}]
    BY <1>3 DEF StatsInv, StatsTypes
  <2>4. QED
    BY <1>3, <1>7, <2>1, <2>2, <2>3
    DEF StatsInv, StatsTypes, WithinCapacity, Updated
<1>10. phase'[w] = "none" /\ spent'[k] = b
  BY <1>1, <1>3 DEF StatsInv, StatsTypes
<1>11. \A j \in DOMAIN stats' :
        \/ stats'[j] = entry
        \/ /\ stats'[j].isActive =>
                \E v \in WakeLocks : KeyOf[v] = stats'[j].key /\ Recorded(v)'
           /\ \A v \in WakeLocks :
                Recorded(v)' /\ stats'[j].key = KeyOf[v] /\ ~Shared(KeyOf[v]) =>
                  stats'[j].isActive
           /\ ~Shared(stats'[j].key) =>
                LET x == stats'[j]
                IN  /\ x.isActive => x.activeTime = x.lastChange - since'[x.key]
                    /\ ~x.isActive => x.activeTime = 0
                    /\ x.totalTime = spent'[x.key] + x.activeTime
  BY <1>3, <1>6, <1>7, OtherEntries DEF k
<1>12. ActiveIsHeld'
  BY <1>6, <1>11 DEF ActiveIsHeld
<1>13. HeldIsActive'
  <2>1. ASSUME NEW v \in WakeLocks, KeyOf[v] = k, ~Shared(k)
        PROVE  ~Recorded(v)'
    BY <1>10, <2>1 DEF Shared, Recorded, k
  <2>2. QED
    BY <1>6, <1>11, <2>1 DEF HeldIsActive, Shared
<1>14. TimesAddUp'
  <2>1. ~Shared(k) => entry.totalTime = spent'[k] + entry.activeTime
    BY <1>4, <1>6, <1>8, <1>10
  <2>2. QED
    BY <1>6, <1>11, <2>1 DEF TimesAddUp, Shared
<1>15. Lru!Use(k)
  BY <1>3, <1>7 DEF Lru!Use
<1>16. QED
  BY <1>9, <1>12, <1>13, <1>14, <1>15 DEF StatsInv, k

(* A release of a wake lock whose entry has been evicted.                  *)
LEMMA ReleaseOfEvicted ==
  ASSUME StatsInv, NEW w \in WakeLocks, UpdateOnRelease(w), KeyOf[w] \notin lookup
  PROVE  StatsInv' /\ UNCHANGED <<stats, used>>
<1> DEFINE k == KeyOf[w]
<1>1. /\ phase' = [phase EXCEPT ![w] = "none"]
      /\ since' = [since EXCEPT ![k] = 0]
      /\ timeNow' = [timeNow EXCEPT ![w] = 0]
      /\ UNCHANGED <<now, stats, lookup, spent, used>>
  BY DEF UpdateOnRelease
<1>2. \A i \in DOMAIN stats : stats[i].key # k
  BY DEF StatsInv, LookupMatchesList, ToSet, ListedKeys
<1>3. \A i \in DOMAIN stats : stats[i].key \in Keys
  <2>1. \A i \in DOMAIN stats : stats[i] \in EntryType
    BY DEF StatsInv, StatsTypes
  <2>2. QED
    BY <2>1 DEF EntryType
<1>4. \A v \in WakeLocks : KeyOf[v] # k => phase'[v] = phase[v]
  BY <1>1 DEF StatsInv, StatsTypes
<1>5. \A i \in DOMAIN stats : since'[stats[i].key] = since[stats[i].key]
  BY <1>1, <1>2, <1>3 DEF StatsInv, StatsTypes
<1>6. StatsTypes' /\ WithinCapacity' /\ LookupMatchesList'
  <2>1. since' \in [Keys -> Int] /\ timeNow' \in [WakeLocks -> Nat]
    <3>1. since \in [Keys -> Int] /\ timeNow \in [WakeLocks -> Nat]
      BY DEF StatsInv, StatsTypes
    <3>2. since' \in [Keys -> Int]
      BY <1>1, <3>1, 0 \in Int
    <3>3. timeNow' \in [WakeLocks -> Nat]
      BY <1>1, <3>1, 0 \in Nat
    <3>4. QED
      BY <3>2, <3>3
  <2>2. phase' \in [WakeLocks -> {"none", "acquiring", "held", "releasing"}]
    BY <1>1 DEF StatsInv, StatsTypes
  <2>3. QED
    BY <1>1, <2>1, <2>2
    DEF StatsInv, StatsTypes, WithinCapacity, LookupMatchesList, ListedKeys
<1>7. ActiveIsHeld' /\ HeldIsActive'
  BY <1>1, <1>2, <1>4 DEF StatsInv, ActiveIsHeld, HeldIsActive, Recorded, Shared
<1>8. TimesAddUp'
  BY <1>1, <1>5 DEF StatsInv, TimesAddUp, Shared
<1>9. QED
  BY <1>1, <1>6, <1>7, <1>8 DEF StatsInv

(* updateNow lengthens the entries that are active, where they are.        *)
LEMMA UpdateNowStep ==
  ASSUME StatsInv, UpdateNow
  PROVE  StatsInv' /\ UNCHANGED used /\ ListedKeys(stats)' = ListedKeys(stats)
<1> DEFINE new(i) == IF stats[i].isActive
                     THEN Lengthened(stats[i], now - stats[i].lastChange, now)
                     ELSE stats[i]
<1>1. stats' = [i \in DOMAIN stats |-> new(i)]
      /\ UNCHANGED <<now, lookup, phase, timeNow, since, spent, used>>
  BY DEF UpdateNow, historyVars
<1>2. DOMAIN stats = 1 .. Len(stats) /\ Len(stats) \in Nat /\ now \in Nat
      /\ \A i \in DOMAIN stats : stats[i] \in EntryType
  BY DEF StatsInv, StatsTypes
<1>3. ASSUME NEW i \in DOMAIN stats
      PROVE  /\ new(i) \in EntryType /\ new(i).key = stats[i].key
             /\ new(i).isActive = stats[i].isActive
             /\ ~stats[i].isActive => new(i) = stats[i]
             /\ stats[i].isActive =>
                  /\ new(i).lastChange = now
                  /\ new(i).activeTime =
                       stats[i].activeTime + (now - stats[i].lastChange)
                  /\ new(i).totalTime =
                       stats[i].totalTime + (now - stats[i].lastChange)
  <2> DEFINE e == stats[i]
  <2>1. e \in EntryType
    BY <1>2
  <2> HIDE DEF e
  <2>2. e.key \in Keys
    BY <2>1 DEF EntryType
  <2>3. /\ Lengthened(e, now - e.lastChange, now) \in EntryType
        /\ Lengthened(e, now - e.lastChange, now).key = e.key
        /\ Lengthened(e, now - e.lastChange, now).isActive = e.isActive
        /\ Lengthened(e, now - e.lastChange, now).lastChange = now
        /\ Lengthened(e, now - e.lastChange, now).activeTime =
             e.activeTime + (now - e.lastChange)
        /\ Lengthened(e, now - e.lastChange, now).totalTime =
             e.totalTime + (now - e.lastChange)
    <3>1. now \in Nat
      BY <1>2
    <3>2. QED
      BY <2>1, <2>2, <3>1, EntryFields
  <2>4. CASE e.isActive
    BY <2>3, <2>4 DEF e
  <2>5. CASE ~e.isActive
    BY <2>1, <2>5 DEF e
  <2>6. QED
    BY <2>4, <2>5
<1> HIDE DEF new
<1>4. /\ stats' \in Seq(EntryType) /\ Len(stats') = Len(stats)
      /\ DOMAIN stats' = DOMAIN stats
      /\ \A i \in DOMAIN stats : stats'[i] = new(i)
  BY <1>1, <1>2, <1>3
<1>5. ListedKeys(stats)' = ListedKeys(stats)
  BY <1>3, <1>4 DEF ListedKeys
<1>6. StatsTypes' /\ WithinCapacity'
  BY <1>1, <1>4 DEF StatsInv, StatsTypes, WithinCapacity
<1>7. LookupMatchesList'
  BY <1>1, <1>3, <1>4, <1>5 DEF StatsInv, LookupMatchesList
<1>8. ActiveIsHeld' /\ HeldIsActive'
  BY <1>1, <1>3, <1>4
  DEF StatsInv, ActiveIsHeld, HeldIsActive, Recorded, Shared
<1>9. TimesAddUp'
  <2> SUFFICES ASSUME NEW i \in DOMAIN stats, ~Shared(stats[i].key)
               PROVE  /\ new(i).isActive =>
                           new(i).activeTime = new(i).lastChange - since[new(i).key]
                      /\ ~new(i).isActive => new(i).activeTime = 0
                      /\ new(i).totalTime = spent[new(i).key] + new(i).activeTime
    BY <1>1, <1>3, <1>4 DEF TimesAddUp, Shared
  <2>1. /\ stats[i].isActive =>
             stats[i].activeTime = stats[i].lastChange - since[stats[i].key]
        /\ ~stats[i].isActive => stats[i].activeTime = 0
        /\ stats[i].totalTime = spent[stats[i].key] + stats[i].activeTime
    BY DEF StatsInv, TimesAddUp
  <2>2. stats[i].lastChange \in Nat /\ stats[i].key \in Keys
        /\ stats[i].activeTime \in Int /\ stats[i].totalTime \in Int
    BY <1>2 DEF EntryType
  <2>3. since[stats[i].key] \in Int /\ spent[stats[i].key] \in Int
    BY <2>2 DEF StatsInv, StatsTypes
  <2>4. CASE stats[i].isActive
    <3>1. /\ new(i).isActive /\ new(i).key = stats[i].key
          /\ new(i).lastChange = now
          /\ new(i).activeTime =
               stats[i].activeTime + (now - stats[i].lastChange)
          /\ new(i).totalTime =
               stats[i].totalTime + (now - stats[i].lastChange)
      BY <1>3, <2>4
    <3>2. new(i).activeTime = new(i).lastChange - since[new(i).key]
      BY <1>2, <2>1, <2>2, <2>3, <2>4, <3>1
    <3>3. new(i).totalTime = spent[new(i).key] + new(i).activeTime
      BY <1>2, <2>1, <2>2, <2>3, <2>4, <3>1
    <3>4. QED
      BY <3>1, <3>2, <3>3
  <2>5. CASE ~stats[i].isActive
    BY <1>3, <2>1, <2>5
  <2>6. QED
    BY <2>4, <2>5
<1>10. QED
  BY <1>1, <1>5, <1>6, <1>7, <1>8, <1>9 DEF StatsInv

(* Reading the clock changes no statistics.                                *)
LEMMA GetTimeNowStep ==
  ASSUME StatsInv, NEW w \in WakeLocks,
         \/ GetTimeNow(w, "none", "acquiring")
         \/ GetTimeNow(w, "held", "releasing")
  PROVE  StatsInv' /\ UNCHANGED <<stats, used>>
<1>1. /\ timeNow' = [timeNow EXCEPT ![w] = now]
      /\ UNCHANGED <<now, stats, lookup, since, spent, used>>
      /\ \/ phase[w] = "none" /\ phase' = [phase EXCEPT ![w] = "acquiring"]
         \/ phase[w] = "held" /\ phase' = [phase EXCEPT ![w] = "releasing"]
  BY DEF GetTimeNow, historyVars
<1>2. \A v \in WakeLocks : Recorded(v)' = Recorded(v)
  BY <1>1 DEF Recorded, StatsInv, StatsTypes
<1>3. StatsTypes'
  BY <1>1 DEF StatsInv, StatsTypes
<1>4. QED
  BY <1>1, <1>2, <1>3
  DEF StatsInv, WithinCapacity, LookupMatchesList, ListedKeys, ActiveIsHeld,
      HeldIsActive, TimesAddUp, Shared

------------------------------------------------------------------------------
(* The theorems.                                                           *)

(* A step keeps the invariant, and is a use of one key or of none.         *)
LEMMA StatsStep ==
  ASSUME StatsInv, [Next]_vars
  PROVE  /\ StatsInv'
         /\ \/ \E k \in Keys : Lru!Use(k)
            \/ UNCHANGED used /\ ListedKeys(stats)' = ListedKeys(stats)
<1>1. ASSUME NEW w \in WakeLocks, UpdateOnAcquire(w)
      PROVE  StatsInv' /\ \E k \in Keys : Lru!Use(k)
  BY <1>1, AcquireStep
<1>2. ASSUME NEW w \in WakeLocks, UpdateOnRelease(w), KeyOf[w] \in lookup
      PROVE  StatsInv' /\ \E k \in Keys : Lru!Use(k)
  <2>1. KeyOf[w] \in Keys
    BY DEF Keys
  <2>2. QED
    BY <1>2, <2>1, ReleaseOfListed
<1>3. ASSUME NEW w \in WakeLocks, UpdateOnRelease(w), KeyOf[w] \notin lookup
      PROVE  StatsInv' /\ UNCHANGED used /\ ListedKeys(stats)' = ListedKeys(stats)
  BY <1>3, ReleaseOfEvicted DEF ListedKeys
<1>4. ASSUME NEW w \in WakeLocks,
             \/ GetTimeNow(w, "none", "acquiring")
             \/ GetTimeNow(w, "held", "releasing")
      PROVE  StatsInv' /\ UNCHANGED used /\ ListedKeys(stats)' = ListedKeys(stats)
  BY <1>4, GetTimeNowStep DEF ListedKeys
<1>5. ASSUME UpdateNow
      PROVE  StatsInv' /\ UNCHANGED used /\ ListedKeys(stats)' = ListedKeys(stats)
  BY <1>5, UpdateNowStep
<1>6. ASSUME Tick \/ UNCHANGED vars
      PROVE  StatsInv' /\ UNCHANGED used /\ ListedKeys(stats)' = ListedKeys(stats)
  <2>1. UNCHANGED <<stats, lookup, phase, timeNow, since, spent, used>>
        /\ now' \in Nat
    BY <1>6 DEF Tick, historyVars, vars, StatsInv, StatsTypes
  <2>2. QED
    BY <2>1 DEF StatsInv, StatsTypes, WithinCapacity, LookupMatchesList,
                ListedKeys, ActiveIsHeld, HeldIsActive, Recorded, TimesAddUp,
                Shared
<1>7. QED
  BY <1>1, <1>2, <1>3, <1>4, <1>5, <1>6 DEF Next

(* The first state.                                                        *)
LEMMA StatsInitially ==
  ASSUME Init
  PROVE  StatsInv /\ Lru!Init
<1>1. stats = <<>> /\ lookup = {} /\ used = {}
      /\ DOMAIN stats = {} /\ Len(stats) = 0
  BY DEF Init
<1>2. ListedKeys(stats) = <<>> /\ DOMAIN ListedKeys(stats) = {}
  BY <1>1 DEF ListedKeys
<1>3. StatsTypes /\ WithinCapacity
  BY <1>1, WakeLockEntryListAssumption DEF Init, StatsTypes, WithinCapacity
<1>4. LookupMatchesList /\ ActiveIsHeld /\ HeldIsActive /\ TimesAddUp
  BY <1>1, <1>2
  DEF LookupMatchesList, ToSet, ActiveIsHeld, HeldIsActive, TimesAddUp
<1>5. QED
  BY <1>1, <1>2, <1>3, <1>4 DEF StatsInv, Lru!Init

(* StatsInv holds throughout.                                              *)
THEOREM StatsInvariant == Spec => []StatsInv
<1>1. Init => StatsInv
  BY StatsInitially
<1>2. StatsInv /\ [Next]_vars => StatsInv'
  BY StatsStep
<1>3. QED
  BY <1>1, <1>2, PTL DEF Spec

(* mLookupTable and the list have the same entries, each of them once.     *)
THEOREM LookupIsExact == Spec => []LookupMatchesList
<1>1. StatsInv => LookupMatchesList
  BY DEF StatsInv
<1>2. QED
  BY <1>1, StatsInvariant, PTL

(* An entry is active exactly while its wake lock is held, as far as wake  *)
(* locks that share an entry allow.                                        *)
THEOREM ActiveIsExact == Spec => []ActiveMatchesHeld
<1>1. ASSUME StatsInv PROVE ActiveMatchesHeld
  <2>1. ASSUME NEW w \in WakeLocks, Recorded(w), KeyOf[w] \in lookup,
               ~Shared(KeyOf[w])
        PROVE  Entry(KeyOf[w]).isActive
    <3>1. Position(KeyOf[w]) \in DOMAIN stats
          /\ stats[Position(KeyOf[w])].key = KeyOf[w]
          /\ Entry(KeyOf[w]) = stats[Position(KeyOf[w])]
      BY <1>1, <2>1, PositionOfKey DEF StatsInv, StatsTypes
    <3>2. QED
      BY <1>1, <2>1, <3>1 DEF StatsInv, HeldIsActive
  <2>2. QED
    BY <1>1, <2>1 DEF StatsInv, ActiveIsHeld, ActiveMatchesHeld
<1>2. QED
  BY <1>1, StatsInvariant, PTL

(* The times of an entry that is not shared add up.                        *)
THEOREM TotalsAddUp == Spec => []TimesAddUp
<1>1. StatsInv => TimesAddUp
  BY DEF StatsInv
<1>2. QED
  BY <1>1, StatsInvariant, PTL

(* The list implements the cache of the keys used last.                    *)
THEOREM StatsImplementLruCache == Spec => ImplementsLruCache
<1>1. Init => Lru!Init
  BY StatsInitially
<1>2. StatsInv /\ [Next]_vars =>
        [\E k \in Keys : Lru!Use(k)]_<<Capacity, ListedKeys(stats), used>>
  <2> SUFFICES ASSUME StatsInv, [Next]_vars
               PROVE  [\E k \in Keys : Lru!Use(k)]_<<Capacity, ListedKeys(stats), used>>
    OBVIOUS
  <2>1. \/ \E k \in Keys : Lru!Use(k)
        \/ UNCHANGED used /\ ListedKeys(stats)' = ListedKeys(stats)
    BY StatsStep
  <2>2. QED
    BY <2>1
<1>3. QED
  BY <1>1, <1>2, StatsInvariant, PTL DEF Spec, ImplementsLruCache, Lru!Spec
==============================================================================
