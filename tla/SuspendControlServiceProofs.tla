--------------------- MODULE SuspendControlServiceProofs ---------------------
(***************************************************************************)
(* Proofs for SuspendControlService, for any sets of binders, names and    *)
(* notifying threads: whoever is registered and may die has an obituary to *)
(* come, and a notification that ends has reached everybody it copied.     *)
(***************************************************************************)
EXTENDS SuspendControlService, SequenceLemmas

------------------------------------------------------------------------------
(* What remove_if keeps.                                                   *)

KeptStep(list, b, f, i) ==
  IF i = 0 THEN <<>>
  ELSE IF list[i] = b THEN f[i - 1] ELSE Append(f[i - 1], list[i])

IsKept(list, b, n, f) == f = [i \in 0 .. n |-> KeptStep(list, b, f, i)]

(* The recursion that defines Kept has a solution, by induction over the   *)
(* length of the list.                                                     *)
LEMMA KeptExists ==
  ASSUME NEW list, NEW b
  PROVE  \A n \in Nat : \E f : IsKept(list, b, n, f)
<1> DEFINE P == {n \in Nat : \E f : IsKept(list, b, n, f)}
<1>1. 0 \in P
  <2> DEFINE f == [i \in 0 .. 0 |-> <<>>]
  <2>1. \A i \in 0 .. 0 : KeptStep(list, b, f, i) = <<>>
    BY DEF KeptStep
  <2>2. f = [i \in 0 .. 0 |-> KeptStep(list, b, f, i)]
    BY <2>1
  <2>3. QED
    BY <2>2 DEF IsKept
<1>2. ASSUME NEW n \in Nat, n \in P PROVE n + 1 \in P
  <2>1. PICK f : IsKept(list, b, n, f)
    BY <1>2
  <2> DEFINE g == [i \in 0 .. n + 1 |->
                     IF i = n + 1 THEN KeptStep(list, b, f, n + 1) ELSE f[i]]
  <2>2. \A i \in 0 .. n : f[i] = KeptStep(list, b, f, i)
    BY <2>1 DEF IsKept
  <2>3. ASSUME NEW i \in 0 .. n + 1
        PROVE  g[i] = KeptStep(list, b, g, i)
    <3>1. CASE i = 0
      BY <2>2, <3>1 DEF KeptStep
    <3>2. CASE i # 0
      <4>1. i - 1 \in 0 .. n /\ i - 1 \in 0 .. n + 1 /\ i - 1 # n + 1
        BY <3>2
      <4>2. g[i - 1] = f[i - 1]
        BY <4>1
      <4> HIDE DEF g
      <4>3. KeptStep(list, b, g, i) = KeptStep(list, b, f, i)
        BY <4>2 DEF KeptStep
      <4>4. g[i] = KeptStep(list, b, f, i)
        <5>1. CASE i = n + 1
          BY <5>1 DEF g
        <5>2. CASE i # n + 1
          <6>1. i \in 0 .. n
            BY <5>2
          <6>2. g[i] = f[i]
            BY <5>2 DEF g
          <6>3. QED
            BY <2>2, <6>1, <6>2
        <5>3. QED
          BY <5>1, <5>2
      <4>5. QED
        BY <4>3, <4>4
    <3>3. QED
      BY <3>1, <3>2
  <2>4. g = [i \in 0 .. n + 1 |-> g[i]]
    OBVIOUS
  <2> HIDE DEF g
  <2>5. IsKept(list, b, n + 1, g)
    BY <2>3, <2>4 DEF IsKept
  <2>6. QED
    BY <2>5
<1> HIDE DEF P
<1>3. \A n \in Nat : n \in P
  BY <1>1, <1>2, SetInduction
<1>4. QED
  BY <1>3 DEF P

(* So Kept is the function that its definition describes.                  *)
LEMMA KeptUnfolds ==
  ASSUME NEW S, NEW list \in Seq(S), NEW b
  PROVE  \A i \in 0 .. Len(list) :
           Kept(list, b)[i] = KeptStep(list, b, Kept(list, b), i)
<1>1. Len(list) \in Nat
  OBVIOUS
<1>2. \E f : IsKept(list, b, Len(list), f)
  BY <1>1, KeptExists, Zenon
<1>3. Kept(list, b) = CHOOSE f : IsKept(list, b, Len(list), f)
  BY DEF Kept, IsKept, KeptStep
<1>4. IsKept(list, b, Len(list), Kept(list, b))
  BY <1>2, <1>3
<1>5. QED
  BY <1>4 DEF IsKept

(* remove_if keeps some of the callbacks, never the one it removes.        *)
LEMMA WithoutProperties ==
  ASSUME NEW S, NEW list \in Seq(S), NEW b
  PROVE  /\ Without(list, b) \in Seq(S)
         /\ \A i \in 1 .. Len(Without(list, b)) :
              /\ Without(list, b)[i] # b
              /\ Without(list, b)[i] \in Elements(list)
<1> DEFINE f == Kept(list, b)
           Good(s) == /\ s \in Seq(S)
                      /\ \A i \in 1 .. Len(s) :
                           s[i] # b /\ s[i] \in Elements(list)
           P == {n \in Nat : n <= Len(list) => Good(f[n])}
<1>1. Len(list) \in Nat
  OBVIOUS
<1>2. \A i \in 0 .. Len(list) : f[i] = KeptStep(list, b, f, i)
  BY KeptUnfolds
<1> HIDE DEF f
<1>3. 0 \in P
  <2>1. f[0] = <<>>
    BY <1>1, <1>2 DEF KeptStep
  <2>2. Good(<<>>)
    OBVIOUS
  <2>3. QED
    BY <2>1, <2>2
<1>4. ASSUME NEW n \in Nat, n \in P PROVE n + 1 \in P
  <2> SUFFICES ASSUME n + 1 <= Len(list) PROVE Good(f[n + 1])
    OBVIOUS
  <2>1. Good(f[n])
    BY <1>1, <1>4
  <2>2. n + 1 \in 1 .. Len(list) /\ n + 1 \in 0 .. Len(list) /\ n + 1 # 0
        /\ (n + 1) - 1 = n
    BY <1>1
  <2>3. list[n + 1] \in S /\ list[n + 1] \in Elements(list)
    BY <2>2 DEF Elements
  <2>4. f[n + 1] = IF list[n + 1] = b THEN f[n] ELSE Append(f[n], list[n + 1])
    BY <1>2, <2>2 DEF KeptStep
  <2>5. CASE list[n + 1] = b
    BY <2>1, <2>4, <2>5
  <2>6. CASE list[n + 1] # b
    <3> DEFINE s == f[n]
               x == list[n + 1]
    <3>1. Good(s) /\ x \in S /\ x # b /\ x \in Elements(list)
      BY <2>1, <2>3, <2>6
    <3>2. f[n + 1] = Append(s, x)
      BY <2>4, <2>6
    <3> HIDE DEF s, x
    <3>3. Append(s, x) \in Seq(S) /\ Len(Append(s, x)) = Len(s) + 1
      BY <3>1
    <3>4. ASSUME NEW i \in 1 .. Len(s) + 1
          PROVE  Append(s, x)[i] # b /\ Append(s, x)[i] \in Elements(list)
      <4>1. CASE i = Len(s) + 1
        BY <3>1, <4>1
      <4>2. CASE i # Len(s) + 1
        <5>1. i \in 1 .. Len(s)
          BY <3>1, <4>2
        <5>2. Append(s, x)[i] = s[i]
          BY <3>1, <5>1
        <5>3. QED
          BY <3>1, <5>1, <5>2
      <4>3. QED
        BY <4>1, <4>2
    <3>5. QED
      BY <3>2, <3>3, <3>4
  <2>7. QED
    BY <2>5, <2>6
<1> HIDE DEF P
<1>5. \A n \in Nat : n \in P
  BY <1>3, <1>4, SetInduction
<1>6. Good(f[Len(list)])
  BY <1>1, <1>5 DEF P
<1>7. QED
  BY <1>6 DEF Without, f

(* The same of the set of callbacks.                                       *)
LEMMA WithoutElements ==
  ASSUME NEW S, NEW list \in Seq(S), NEW b
  PROVE  /\ Without(list, b) \in Seq(S)
         /\ Elements(Without(list, b)) \subseteq Elements(list) \ {b}
<1> DEFINE s == Without(list, b)
<1>1. /\ s \in Seq(S)
      /\ \A i \in 1 .. Len(s) : s[i] # b /\ s[i] \in Elements(list)
  BY WithoutProperties
<1> HIDE DEF s
<1>2. Elements(s) \subseteq Elements(list) \ {b}
  BY <1>1 DEF Elements
<1>3. QED
  BY <1>1, <1>2 DEF s

(* A callback at the end of a list.                                        *)
LEMMA AppendElements ==
  ASSUME NEW S, NEW list \in Seq(S), NEW b \in S
  PROVE  /\ Append(list, b) \in Seq(S)
         /\ Elements(Append(list, b)) = Elements(list) \cup {b}
<1>1. /\ Append(list, b) \in Seq(S)
      /\ DOMAIN Append(list, b) = 1 .. Len(list) + 1
      /\ DOMAIN list = 1 .. Len(list) /\ Len(list) \in Nat
      /\ Append(list, b)[Len(list) + 1] = b
      /\ \A i \in 1 .. Len(list) : Append(list, b)[i] = list[i]
  OBVIOUS
<1> DEFINE m == Append(list, b)
<1> HIDE DEF m
<1>2. /\ m \in Seq(S)
      /\ DOMAIN m = 1 .. Len(list) + 1
      /\ m[Len(list) + 1] = b /\ Len(list) + 1 \in 1 .. Len(list) + 1
      /\ \A i \in 1 .. Len(list) : m[i] = list[i] /\ i \in 1 .. Len(list) + 1
      /\ \A i \in 1 .. Len(list) + 1 : i \in 1 .. Len(list) \/ i = Len(list) + 1
  BY <1>1 DEF m
<1>3. Elements(m) \subseteq Elements(list) \cup {b}
  BY <1>1, <1>2 DEF Elements
<1>4. Elements(list) \cup {b} \subseteq Elements(m)
  BY <1>1, <1>2 DEF Elements
<1>5. QED
  BY <1>2, <1>3, <1>4 DEF m

------------------------------------------------------------------------------
(* The invariant.                                                          *)

ListTypes ==
  /\ callbacks \in Seq(Callbacks)
  /\ \A name \in DOMAIN wakelockCallbacks :
       wakelockCallbacks[name] \in Seq(WakelockCallbacks)

BinderTypes ==
  /\ process \in [Binders -> {"alive", "dead", "reported"}]
  /\ links \in [Binders -> Nat]

(* A round has called the callbacks of its copy that come before its       *)
(* position, and no others.                                                *)
RoundOK(r) ==
  /\ r \in [list : {"none", Wakeup} \cup Names, copy : Seq(Binders),
            next : Nat, told : SUBSET Binders]
  /\ r.next \in 1 .. Len(r.copy) + 1
  /\ r.told = {r.copy[i] : i \in 1 .. r.next - 1}

Rounds ==
  /\ round = [n \in Notifiers |-> round[n]]
  /\ \A n \in Notifiers : RoundOK(round[n])

CallbacksInv == ListTypes /\ BinderTypes /\ Rounds /\ RegisteredIsWatched

(* No notification is under way.                                           *)
LEMMA IdleIsOK == RoundOK(Idle)
<1>1. Idle.copy \in Seq(Binders) /\ Len(Idle.copy) = 0 /\ Idle.next = 1
  BY DEF Idle
<1>2. Idle.told = {Idle.copy[i] : i \in 1 .. Idle.next - 1}
  BY DEF Idle
<1>3. Idle \in [list : {"none", Wakeup} \cup Names, copy : Seq(Binders),
                 next : Nat, told : SUBSET Binders]
  BY DEF Idle
<1>4. QED
  BY <1>1, <1>2, <1>3 DEF RoundOK

LEMMA InitInv == Init => CallbacksInv
<1> SUFFICES ASSUME Init PROVE CallbacksInv
  OBVIOUS
<1> USE DEF Init
<1>1. ListTypes
  BY DEF ListTypes
<1>2. BinderTypes
  BY DEF BinderTypes
<1>3. RoundOK(Idle)
  BY IdleIsOK
<1>4. Rounds
  BY <1>3 DEF Rounds
<1>5. RegisteredIsWatched
  BY DEF RegisteredIsWatched, Registered, Elements
<1>6. QED
  BY <1>1, <1>2, <1>4, <1>5 DEF CallbacksInv

(* linkToDeath never takes a link away.                                    *)
LEMMA LinkStep ==
  ASSUME BinderTypes, NEW b \in Binders, NEW ok \in BOOLEAN, LinkToDeath(b, ok)
  PROVE  /\ links' \in [Binders -> Nat]
         /\ \A x \in Binders : links[x] > 0 => links'[x] > 0
         /\ ok => links'[b] > 0
<1>1. CASE ok
  <2>1. links' = [links EXCEPT ![b] = @ + 1] /\ links \in [Binders -> Nat]
    BY <1>1 DEF LinkToDeath, BinderTypes
  <2>2. links[b] \in Nat /\ links[b] + 1 \in Nat /\ links[b] + 1 > 0
    BY <2>1
  <2>3. QED
    BY <2>1, <2>2
<1>2. CASE ~ok
  BY <1>2 DEF LinkToDeath, BinderTypes
<1>3. QED
  BY <1>1, <1>2

(* registerCallback.                                                       *)
LEMMA RegisterCallbackStep ==
  ASSUME CallbacksInv, NEW b \in Callbacks, NEW ok \in BOOLEAN,
         RegisterCallback(b, ok)
  PROVE  ListTypes' /\ BinderTypes' /\ RegisteredIsWatched'
<1> USE DEF CallbacksInv
<1>1. b \in Binders /\ Remote \subseteq Binders
  BY ControlAssumption DEF Binders
<1>2. process' = process /\ wakelockCallbacks' = wakelockCallbacks
  BY DEF RegisterCallback, PushCallback, lists
<1>3. callbacks' = IF ok THEN Append(callbacks, b) ELSE callbacks
  BY DEF RegisterCallback, PushCallback, lists
<1>4. /\ links' \in [Binders -> Nat]
      /\ \A x \in Binders : links[x] > 0 => links'[x] > 0
      /\ b \in Remote /\ b \notin Elements(callbacks) /\ ok => links'[b] > 0
  <2>1. CASE b \in Remote /\ b \notin Elements(callbacks)
    <3>1. LinkToDeath(b, ok)
      BY <2>1 DEF RegisterCallback
    <3>2. QED
      BY <1>1, <3>1, LinkStep
  <2>2. CASE ~(b \in Remote /\ b \notin Elements(callbacks))
    <3>1. links' = links
      BY <2>2 DEF RegisterCallback
    <3>2. QED
      BY <2>2, <3>1 DEF BinderTypes
  <2>3. QED
    BY <2>1, <2>2
<1>5. callbacks \in Seq(Callbacks)
  BY DEF ListTypes
<1>6. /\ callbacks' \in Seq(Callbacks)
      /\ Elements(callbacks') = Elements(callbacks) \cup (IF ok THEN {b} ELSE {})
  <2>1. CASE ok
    BY <1>3, <1>5, <2>1, AppendElements
  <2>2. CASE ~ok
    BY <1>3, <1>5, <2>2
  <2>3. QED
    BY <2>1, <2>2
<1>7. ListTypes'
  BY <1>2, <1>6 DEF ListTypes
<1>8. BinderTypes'
  BY <1>2, <1>4 DEF BinderTypes
<1>9. RegisteredIsWatched'
  <2> SUFFICES ASSUME NEW x \in Remote, Registered(x)' PROVE links'[x] > 0
    BY DEF RegisteredIsWatched
  <2>1. CASE Registered(x)
    BY <1>1, <1>4, <2>1 DEF RegisteredIsWatched
  <2>2. CASE ~Registered(x)
    <3>1. x \in Elements(callbacks') /\ x \notin Elements(callbacks)
      BY <1>2, <2>2 DEF Registered
    <3>2. x = b /\ ok
      BY <1>6, <3>1
    <3>3. QED
      BY <1>4, <3>1, <3>2
  <2>3. QED
    BY <2>1, <2>2
<1>10. QED
  BY <1>7, <1>8, <1>9

(* registerWakelockCallback.                                               *)
LEMMA RegisterWakelockCallbackStep ==
  ASSUME CallbacksInv, NEW b \in WakelockCallbacks, NEW name \in Names,
         NEW ok \in BOOLEAN, RegisterWakelockCallback(b, name, ok)
  PROVE  ListTypes' /\ BinderTypes' /\ RegisteredIsWatched'
<1> USE DEF CallbacksInv
<1>1. b \in Binders /\ Remote \subseteq Binders
  BY ControlAssumption DEF Binders
<1>2. process' = process /\ callbacks' = callbacks
  BY DEF RegisterWakelockCallback
<1>3. /\ links' \in [Binders -> Nat]
      /\ \A x \in Binders : links[x] > 0 => links'[x] > 0
      /\ b \in Remote /\ ok => links'[b] > 0
  <2>1. CASE b \in Remote
    <3>1. LinkToDeath(b, ok)
      BY <2>1 DEF RegisterWakelockCallback
    <3>2. QED
      BY <1>1, <3>1, LinkStep
  <2>2. CASE b \notin Remote
    <3>1. links' = links
      BY <2>2 DEF RegisterWakelockCallback
    <3>2. QED
      BY <2>2, <3>1 DEF BinderTypes
  <2>3. QED
    BY <2>1, <2>2
<1> DEFINE old == ListOf(name)
           new == IF ok THEN Append(old, b) ELSE old
<1>4. /\ old \in Seq(WakelockCallbacks)
      /\ \A x \in Elements(old) : Registered(x)
  <2>1. CASE name \in DOMAIN wakelockCallbacks
    BY <2>1 DEF ListOf, ListTypes, Registered
  <2>2. CASE name \notin DOMAIN wakelockCallbacks
    BY <2>2 DEF ListOf, Elements
  <2>3. QED
    BY <2>1, <2>2
<1>5. wakelockCallbacks' = [n \in DOMAIN wakelockCallbacks \cup {name} |->
                              IF n = name THEN new ELSE wakelockCallbacks[n]]
  BY DEF RegisterWakelockCallback, SetListOf
<1> HIDE DEF old
<1>6. /\ new \in Seq(WakelockCallbacks)
      /\ Elements(new) = Elements(old) \cup (IF ok THEN {b} ELSE {})
  <2>1. CASE ok
    BY <1>4, <2>1, AppendElements
  <2>2. CASE ~ok
    BY <1>4, <2>2
  <2>3. QED
    BY <2>1, <2>2
<1> HIDE DEF new
<1>7. ListTypes'
  BY <1>2, <1>5, <1>6 DEF ListTypes
<1>8. BinderTypes'
  BY <1>2, <1>3 DEF BinderTypes
<1>9. RegisteredIsWatched'
  <2> SUFFICES ASSUME NEW x \in Remote, Registered(x)' PROVE links'[x] > 0
    BY DEF RegisteredIsWatched
  <2>1. CASE Registered(x)
    BY <1>1, <1>3, <2>1 DEF RegisteredIsWatched
  <2>2. CASE ~Registered(x)
    <3>1. PICK n \in DOMAIN wakelockCallbacks' :
            x \in Elements(wakelockCallbacks'[n])
      BY <1>2, <2>2 DEF Registered
    <3>2. CASE n = name
      <4>1. x \in Elements(new)
        BY <1>5, <3>1, <3>2
      <4>2. x = b /\ ok
        BY <1>4, <1>6, <2>2, <4>1
      <4>3. QED
        BY <1>3, <4>2
    <3>3. CASE n # name
      BY <1>5, <2>2, <3>1, <3>3 DEF Registered
    <3>4. QED
      BY <3>2, <3>3
  <2>3. QED
    BY <2>1, <2>2
<1>10. QED
  BY <1>7, <1>8, <1>9

(* binderDied: the binder may have no link left, but is in no list.        *)
LEMMA BinderDiedStep ==
  ASSUME CallbacksInv, NEW b \in Binders, BinderDied(b)
  PROVE  ListTypes' /\ BinderTypes' /\ RegisteredIsWatched'
<1> USE DEF CallbacksInv
<1> DEFINE rest(name) == Without(wakelockCallbacks[name], b)
           kept == {name \in DOMAIN wakelockCallbacks : rest(name) # <<>>}
<1>1. /\ links' = [links EXCEPT ![b] = @ - 1] /\ links[b] > 0
      /\ callbacks' = Without(callbacks, b)
      /\ process' = process
      /\ wakelockCallbacks' = [name \in kept |-> rest(name)]
  BY DEF BinderDied
<1>2. links \in [Binders -> Nat] /\ callbacks \in Seq(Callbacks)
  BY DEF BinderTypes, ListTypes
<1>3. links' \in [Binders -> Nat] /\ \A x \in Binders \ {b} : links'[x] = links[x]
  <2>1. links[b] - 1 \in Nat
    BY <1>1, <1>2
  <2>2. QED
    BY <1>1, <1>2, <2>1
<1>4. /\ callbacks' \in Seq(Callbacks)
      /\ Elements(callbacks') \subseteq Elements(callbacks) \ {b}
  BY <1>1, <1>2, WithoutElements
<1>5. \A name \in DOMAIN wakelockCallbacks :
        /\ rest(name) \in Seq(WakelockCallbacks)
        /\ Elements(rest(name)) \subseteq Elements(wakelockCallbacks[name]) \ {b}
  <2> SUFFICES ASSUME NEW name \in DOMAIN wakelockCallbacks
               PROVE  /\ rest(name) \in Seq(WakelockCallbacks)
                      /\ Elements(rest(name)) \subseteq
                           Elements(wakelockCallbacks[name]) \ {b}
    OBVIOUS
  <2> DEFINE list == wakelockCallbacks[name]
  <2>1. list \in Seq(WakelockCallbacks)
    BY DEF ListTypes
  <2> HIDE DEF list
  <2>2. /\ Without(list, b) \in Seq(WakelockCallbacks)
        /\ Elements(Without(list, b)) \subseteq Elements(list) \ {b}
    BY <2>1, WithoutElements
  <2>3. QED
    BY <2>2 DEF list
<1> HIDE DEF rest
<1>6. /\ DOMAIN wakelockCallbacks' \subseteq DOMAIN wakelockCallbacks
      /\ \A name \in DOMAIN wakelockCallbacks' :
           wakelockCallbacks'[name] = rest(name)
  BY <1>1
<1>7. ListTypes'
  BY <1>4, <1>5, <1>6 DEF ListTypes
<1>8. BinderTypes'
  BY <1>1, <1>3 DEF BinderTypes
<1>9. RegisteredIsWatched'
  <2> SUFFICES ASSUME NEW x \in Remote, Registered(x)' PROVE links'[x] > 0
    BY DEF RegisteredIsWatched
  <2>1. x # b /\ Registered(x)
    BY <1>4, <1>5, <1>6 DEF Registered
  <2>2. x \in Binders
    BY ControlAssumption
  <2>3. QED
    BY <1>3, <2>1, <2>2 DEF RegisteredIsWatched
<1>10. QED
  BY <1>7, <1>8, <1>9

(* notifyWakeup or notifyWakelock copies its list.                         *)
LEMMA BeginNotifyStep ==
  ASSUME CallbacksInv, NEW n \in Notifiers,
         NEW list \in {Wakeup} \cup Names, BeginNotify(n, list)
  PROVE  Rounds'
<1> USE DEF CallbacksInv
<1> DEFINE copy == IF list = Wakeup THEN callbacks ELSE wakelockCallbacks[list]
           r == [Idle EXCEPT !.list = list, !.copy = copy]
<1>1. copy \in Seq(Binders)
  <2>1. CASE list = Wakeup
    <3>1. callbacks \in Seq(Callbacks) /\ Callbacks \subseteq Binders
      BY DEF ListTypes, Binders
    <3>2. QED
      BY <2>1, <3>1
  <2>2. CASE list # Wakeup
    <3>1. list \in DOMAIN wakelockCallbacks
      BY <2>2 DEF BeginNotify
    <3>2. wakelockCallbacks[list] \in Seq(WakelockCallbacks)
          /\ WakelockCallbacks \subseteq Binders
      BY <3>1 DEF ListTypes, Binders
    <3>3. QED
      BY <2>2, <3>2
  <2>3. QED
    BY <2>1, <2>2
<1>2. round' = [round EXCEPT ![n] = r]
  BY DEF BeginNotify
<1> HIDE DEF copy
<1>3. RoundOK(r)
  <2>1. /\ r \in [list : {"none", Wakeup} \cup Names, copy : Seq(Binders),
                 next : Nat, told : SUBSET Binders]
        /\ r.copy = copy /\ r.next = 1 /\ r.told = {}
    BY <1>1 DEF Idle
  <2>2. QED
    BY <1>1, <2>1 DEF RoundOK
<1> HIDE DEF r
<1>4. QED
  BY <1>2, <1>3 DEF Rounds

(* A round that calls one more callback, and a round that has called all.  *)
LEMMA RoundStep ==
  ASSUME NEW r, RoundOK(r)
  PROVE  /\ r.next > Len(r.copy) => r.told = Elements(r.copy)
         /\ r.next <= Len(r.copy) =>
              LET next == [r EXCEPT !.next = @ + 1,
                                    !.told = @ \cup {r.copy[r.next]}]
              IN  RoundOK(next) /\ next # Idle
<1> DEFINE c == r.copy
           k == r.next
           t == r.told
           e == c[k]
<1>1. /\ c \in Seq(Binders) /\ k \in 1 .. Len(c) + 1 /\ t \in SUBSET Binders
      /\ t = {c[i] : i \in 1 .. k - 1}
      /\ r \in [list : {"none", Wakeup} \cup Names, copy : Seq(Binders),
                next : Nat, told : SUBSET Binders]
  BY DEF RoundOK
<1> HIDE DEF c, k, t
<1>2. Len(c) \in Nat /\ DOMAIN c = 1 .. Len(c) /\ k \in Nat
  BY <1>1
<1>3. ASSUME k > Len(c) PROVE t = Elements(c)
  <2>1. k - 1 = Len(c)
    BY <1>1, <1>2, <1>3
  <2>2. QED
    BY <1>1, <1>2, <2>1 DEF Elements
<1>4. ASSUME k <= Len(c)
      PROVE  LET next == [r EXCEPT !.next = @ + 1, !.told = @ \cup {e}]
             IN  RoundOK(next) /\ next # Idle
  <2> DEFINE next == [r EXCEPT !.next = @ + 1, !.told = @ \cup {e}]
  <2>1. e \in Binders
    BY <1>1, <1>2, <1>4
  <2>2. t \cup {e} = {c[i] : i \in 1 .. (k + 1) - 1}
    <3>1. \A i \in 1 .. (k + 1) - 1 : i \in 1 .. k - 1 \/ i = k
      BY <1>2
    <3>2. \A i \in 1 .. k - 1 : i \in 1 .. (k + 1) - 1
      BY <1>2
    <3>3. k \in 1 .. (k + 1) - 1
      BY <1>1, <1>2
    <3>4. QED
      BY <1>1, <3>1, <3>2, <3>3
  <2>3. k + 1 \in 1 .. Len(c) + 1 /\ k + 1 # 1
    BY <1>1, <1>2, <1>4
  <2> HIDE DEF e
  <2>4. /\ next \in [list : {"none", Wakeup} \cup Names, copy : Seq(Binders),
                     next : Nat, told : SUBSET Binders]
        /\ next.copy = c /\ next.next = k + 1 /\ next.told = t \cup {e}
    <3> DEFINE v == k + 1
               u == t \cup {e}
               other == [r EXCEPT !.next = v, !.told = u]
    <3>1. v \in Nat /\ u \in SUBSET Binders
      BY <1>1, <1>2, <2>1
    <3>2. next = other
      BY DEF k, t
    <3> HIDE DEF v, u, next
    <3>3. other \in [list : {"none", Wakeup} \cup Names, copy : Seq(Binders),
                     next : Nat, told : SUBSET Binders]
      BY <1>1, <3>1
    <3>4. other.copy = r.copy /\ other.next = v /\ other.told = u
      BY <1>1
    <3>5. QED
      BY <3>2, <3>3, <3>4 DEF v, u, c
  <2> HIDE DEF next
  <2>5. RoundOK(next)
    BY <2>2, <2>3, <2>4 DEF RoundOK
  <2>6. next # Idle
    BY <2>3, <2>4 DEF Idle
  <2>7. QED
    BY <2>5, <2>6 DEF next
<1>5. QED
  BY <1>3, <1>4 DEF c, k, t

(* A callback is called, or the round ends with all called.                *)
LEMMA NotifyNextStep ==
  ASSUME CallbacksInv, NEW n \in Notifiers, NotifyNext(n)
  PROVE  /\ Rounds'
         /\ \A m \in Notifiers : m # n => round'[m] = round[m]
         /\ round'[n] = Idle => round[n].told = Elements(round[n].copy)
<1> USE DEF CallbacksInv
<1> DEFINE r == round[n]
           next == [r EXCEPT !.next = @ + 1, !.told = @ \cup {r.copy[r.next]}]
           s == IF r.next > Len(r.copy) THEN Idle ELSE next
<1>1. RoundOK(r) /\ round = [m \in Notifiers |-> round[m]]
  BY DEF Rounds
<1>2. round' = [round EXCEPT ![n] = s]
  BY DEF NotifyNext, CallbacksCopy
<1>3. RoundOK(Idle)
  BY IdleIsOK
<1>4. /\ r.next > Len(r.copy) => r.told = Elements(r.copy)
      /\ r.next <= Len(r.copy) => RoundOK(next) /\ next # Idle
  BY <1>1, RoundStep
<1>5. r.next \in Nat /\ Len(r.copy) \in Nat
  BY <1>1 DEF RoundOK
<1>6. RoundOK(s) /\ (s = Idle => r.told = Elements(r.copy))
  <2>1. CASE r.next > Len(r.copy)
    BY <1>3, <1>4, <2>1
  <2>2. CASE r.next <= Len(r.copy)
    <3>1. s = next
      BY <1>5, <2>2
    <3> HIDE DEF next, s
    <3>2. QED
      BY <1>4, <2>2, <3>1
  <2>3. QED
    BY <1>5, <2>1, <2>2
<1> HIDE DEF s
<1>7. round'[n] = s /\ \A m \in Notifiers : m # n => round'[m] = round[m]
  BY <1>1, <1>2
<1>8. Rounds'
  BY <1>1, <1>2, <1>6 DEF Rounds
<1>9. QED
  BY <1>6, <1>7, <1>8

(* Every step keeps the invariant.                                         *)
LEMMA InvStep == CallbacksInv /\ [Next]_vars => CallbacksInv'
<1> SUFFICES ASSUME CallbacksInv, [Next]_vars PROVE CallbacksInv'
  OBVIOUS
<1>1. CASE UNCHANGED vars
  BY <1>1 DEF CallbacksInv, ListTypes, BinderTypes, Rounds, RegisteredIsWatched,
              Registered, vars
<1>2. ASSUME NEW b \in Callbacks, NEW ok \in BOOLEAN, RegisterCallback(b, ok)
      PROVE  CallbacksInv'
  <2>1. round' = round
    BY <1>2 DEF RegisterCallback, PushCallback
  <2>2. Rounds'
    BY <2>1 DEF CallbacksInv, Rounds
  <2>3. QED
    BY <1>2, <2>2, RegisterCallbackStep DEF CallbacksInv
<1>3. ASSUME NEW b \in WakelockCallbacks, NEW name \in Names, NEW ok \in BOOLEAN,
             RegisterWakelockCallback(b, name, ok)
      PROVE  CallbacksInv'
  <2>1. round' = round
    BY <1>3 DEF RegisterWakelockCallback
  <2>2. Rounds'
    BY <2>1 DEF CallbacksInv, Rounds
  <2>3. QED
    BY <1>3, <2>2, RegisterWakelockCallbackStep DEF CallbacksInv
<1>4. ASSUME NEW b \in Binders, ProcessDies(b) \/ SendObituary(b)
      PROVE  CallbacksInv'
  <2>1. /\ callbacks' = callbacks /\ wakelockCallbacks' = wakelockCallbacks
        /\ links' = links /\ round' = round
    BY <1>4 DEF ProcessDies, SendObituary, lists
  <2>2. ListTypes' /\ Rounds' /\ RegisteredIsWatched'
    BY <2>1 DEF CallbacksInv, ListTypes, Rounds, RegisteredIsWatched, Registered
  <2>3. BinderTypes'
    BY <1>4, <2>1 DEF CallbacksInv, BinderTypes, ProcessDies, SendObituary
  <2>4. QED
    BY <2>2, <2>3 DEF CallbacksInv
<1>5. ASSUME NEW b \in Binders, BinderDied(b) PROVE CallbacksInv'
  <2>1. round' = round
    BY <1>5 DEF BinderDied
  <2>2. Rounds'
    BY <2>1 DEF CallbacksInv, Rounds
  <2>3. QED
    BY <1>5, <2>2, BinderDiedStep DEF CallbacksInv
<1>6. ASSUME NEW n \in Notifiers, Rounds',
             UNCHANGED <<lists, process, links>>
      PROVE  CallbacksInv'
  BY <1>6 DEF CallbacksInv, ListTypes, BinderTypes, RegisteredIsWatched,
              Registered, lists
<1>7. ASSUME NEW n \in Notifiers, NEW list \in {Wakeup} \cup Names,
             BeginNotify(n, list)
      PROVE  CallbacksInv'
  <2>1. UNCHANGED <<lists, process, links>>
    BY <1>7 DEF BeginNotify
  <2>2. QED
    BY <1>6, <1>7, <2>1, BeginNotifyStep
<1>8. ASSUME NEW n \in Notifiers, NotifyNext(n) PROVE CallbacksInv'
  <2>1. UNCHANGED <<lists, process, links>>
    BY <1>8 DEF NotifyNext
  <2>2. QED
    BY <1>6, <1>8, <2>1, NotifyNextStep
<1>9. QED
  BY <1>1, <1>2, <1>3, <1>4, <1>5, <1>7, <1>8 DEF Next

------------------------------------------------------------------------------
(* The lists, the links and the rounds are as CallbacksInv says, in every  *)
(* state.                                                                  *)
THEOREM CallbacksInvariant == Spec => []CallbacksInv
<1>1. QED
  BY InitInv, InvStep, PTL DEF Spec

(* A registered callback that may die has an obituary still to come,       *)
(* whatever the order of deaths, registrations and calls of binderDied     *)
(* (SuspendControlService.cpp:52-61, 80-96).                               *)
THEOREM RegisteredAreWatched == Spec => []RegisteredIsWatched
<1>1. CallbacksInv => RegisteredIsWatched
  BY DEF CallbacksInv
<1>2. QED
  BY <1>1, CallbacksInvariant, PTL

(* A notification that ends has called every callback registered when it   *)
(* began, the dead ones too, although the lists change meanwhile           *)
(* (SuspendControlService.cpp:115-148).                                    *)
THEOREM NotificationsAreComplete == Spec => NotificationsReachAll
<1> DEFINE Reached ==
      \A n \in Notifiers :
        round[n] # Idle /\ round'[n] = Idle =>
          \A b \in Elements(round[n].copy) :
            process[b] = "alive" => b \in round[n].told
<1>1. CallbacksInv /\ [Next]_vars => [Reached]_vars
  <2> SUFFICES ASSUME CallbacksInv, Next, NEW n \in Notifiers,
                      round[n] # Idle, round'[n] = Idle
               PROVE  round[n].told = Elements(round[n].copy)
    BY Zenon
  <2>1. PICK m \in Notifiers :
          NotifyNext(m) \/ \E list \in {Wakeup} \cup Names : BeginNotify(m, list)
    <3>1. round' # round
      OBVIOUS
    <3>2. QED
      BY <3>1 DEF Next, RegisterCallback, PushCallback,
                  RegisterWakelockCallback, ProcessDies, SendObituary, BinderDied
  <2>2. CASE NotifyNext(m)
    BY <2>2, NotifyNextStep
  <2>3. ASSUME NEW list, BeginNotify(m, list) PROVE FALSE
    <3>1. n # m
      BY <2>3 DEF BeginNotify
    <3>2. round'[n] = round[n]
      BY <2>3, <3>1 DEF BeginNotify, CallbacksInv, Rounds
    <3>3. QED
      BY <3>2
  <2>4. QED
    BY <2>1, <2>2, <2>3
<1>2. QED
  BY <1>1, CallbacksInvariant, PTL DEF Spec, NotificationsReachAll
==============================================================================
