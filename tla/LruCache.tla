------------------------------ MODULE LruCache -------------------------------
(***************************************************************************)
(* What both lists of statistics promise about the entries they keep: the  *)
(* keys used last, most recent first, capacity of them at most.  WakeupList*)
(* and WakeLockEntryList implement it, each in its own way.                *)
(***************************************************************************)
EXTENDS Naturals, SequencesExt

CONSTANT Keys

VARIABLES
  capacity,           \* mCapacity
  recent,             \* the keys kept, most recently used first
  used                \* the key used last, {} before the first use

Init == recent = <<>> /\ used = {}

(* The keys other than k, in their order.                                  *)
Others(k) ==
  IF \E i \in DOMAIN recent : recent[i] = k
  THEN RemoveAt(recent, CHOOSE i \in DOMAIN recent : recent[i] = k)
  ELSE recent

(* The sequence after a use of key k.                                      *)
Used(k) ==
  LET s == <<k>> \o Others(k)
  IN  IF Len(s) > capacity THEN SubSeq(s, 1, capacity) ELSE s

Use(k) == used' = {k} /\ recent' = Used(k) /\ UNCHANGED capacity

Spec == Init /\ [][\E k \in Keys : Use(k)]_<<capacity, recent, used>>
==============================================================================
