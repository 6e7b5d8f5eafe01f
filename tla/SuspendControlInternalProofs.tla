-------------------- MODULE SuspendControlInternalProofs ---------------------
(***************************************************************************)
(* Proofs about SuspendControlInternal, for any number of concurrent       *)
(* calls, wakeup sources and files.  ControlInv is inductive; it is split  *)
(* into the types, the references to the object, and what a call that      *)
(* reads a directory knows, which have a lemma each.  ListingInv, about    *)
(* the entries of a directory, is inductive relative to it.                *)
(***************************************************************************)
EXTENDS SuspendControlInternal, SequenceLemmas

Fields == {"pc", "todo", "buf", "list", "entry", "steady", "shared", "forced",
           "unlocked"}
Listed == [id : Nat, from : SUBSET Nat]
Entries == [id : Nat, pinned : Nat, left : SUBSET SourceFiles, from : SUBSET Nat]
Phases == {"start", "opened", "serving", "constructing", "constructed", "aidl",
           "joined", "aborted"}

ControlTypes ==
  /\ phase \in Phases
  /\ suspends \in Nat
  /\ gen \in [WakeupIds -> Nat]
  /\ statsLocks \subseteq Calls
  /\ DOMAIN job = Calls
  /\ \A c \in Calls : /\ DOMAIN job[c] = Fields
                      /\ job[c].list \in Seq(Listed)
                      /\ job[c].entry \in Entries

(* Who has a reference, and what that says of the object.                  *)
References ==
  /\ \A c \in Calls : ~At(c, "idle") => /\ c \in strong /\ object = "alive"
                                        /\ phase = "constructing" => early
  /\ phase \in {"start", "opened", "serving"} => object = "none"
  /\ object # "none" /\ phase # "constructing" => Main \in strong
  /\ object = "destroyed" => early

(* What a call is reading, and from where.                                 *)
Sections ==
  \A c \in Calls :
    /\ At(c, "section") \/ At(c, "checkService") => job[c].list = <<>>
    /\ At(c, "copied") \/ At(c, "entry") => Head(job[c].todo) = "wakelocks"
    /\ At(c, "checkService") => Head(job[c].todo) = "kernel_suspends"
    /\ At(c, "entry") => job[c].entry.from \subseteq {job[c].entry.pinned}

ReadsStats(c) ==
  job[c].pc \in {"readdir", "listed"} /\ Head(job[c].todo) = "kernel_suspends"

(* A wake lock is held to read suspend_stats, and for nothing else; while  *)
(* it is held no attempt is counted.                                       *)
Protected(c) ==
  /\ c \in statsLocks => ReadsStats(c)
  /\ ReadsStats(c) /\ ~job[c].unlocked =>
       /\ c \in statsLocks
       /\ ~job[c].forced =>
            \A i \in DOMAIN job[c].list : job[c].list[i].from = {suspends}

StatsProtected == \A c \in Calls : Protected(c)

ControlInv == ControlTypes /\ References /\ Sections /\ StatsProtected

(* What listing a directory leaves alone: of another call everything but   *)
(* the note that it has been disturbed.                                    *)
Kept(x) ==
  /\ DOMAIN job'[x] = Fields
  /\ job'[x].todo = job[x].todo /\ job'[x].list = job[x].list
  /\ job'[x].entry = job[x].entry
  /\ job'[x].forced = job[x].forced /\ job'[x].unlocked = job[x].unlocked

(* A listing that gets in the way of others changes nothing else of them. *)
LEMMA SharingKeeps ==
  ASSUME ControlTypes, NEW c \in Calls, NEW d, NEW j, Sharing(c, d, j)
  PROVE  /\ DOMAIN job' = Calls /\ job'[c] = j
         /\ \A x \in Calls : x # c => Kept(x) /\ job'[x].pc = job[x].pc
BY DEF ControlTypes, Sharing, Kept, Fields

(* A job that is about to do a section has nothing else.                   *)
Fresh(j) ==
  /\ DOMAIN j = Fields
  /\ j.pc = "section" /\ j.list = <<>> /\ j.entry = NoEntry

(* The empty list and the empty entry have their types.                    *)
LEMMA NothingIsTyped ==
  <<>> \in Seq(Listed) /\ NoEntry \in Entries
BY DEF NoEntry, Entries

(* A call starts a section with nothing left of the one before.            *)
LEMMA NextSectionIsFresh ==
  ASSUME NEW c \in Calls
  PROVE  Fresh(NextSection(c))
BY DEF Fresh, Fields, NextSection, NoJob

(* So does a call that has just got its reference.                         *)
LEMMA PromoteEffect ==
  ASSUME ControlTypes, NEW c \in Calls, NEW todo, Promote(c, todo), object = "alive"
  PROVE  /\ DOMAIN job' = Calls /\ Fresh(job'[c])
         /\ \A x \in Calls : x # c => job'[x] = job[x]
         /\ job[c].pc = "idle"
BY DEF ControlTypes, Promote, Fresh, Fields, NoJob, At

(* OpenDir goes on to the next section, or to reading; it keeps the rest.  *)
LEMMA OpenDirEffect ==
  ASSUME ControlTypes, NEW c \in Calls, NEW s, OpenDir(c, s)
  PROVE  /\ DOMAIN job' = Calls
         /\ \A x \in Calls : x # c => Kept(x) /\ job'[x].pc = job[x].pc
         /\ \/ job[c].pc # "idle" /\ Fresh(job'[c])
            \/ /\ ReadyToOpen(c, s) /\ Kept(c)
               /\ job'[c].pc = IF s = "wakelocks" THEN "readdir"
                                                  ELSE "checkService"
<1>1. CASE dirFd[DirOf(s)]
  <2>1. Sharing(c, DirOf(s), Opened(c, s))
    BY <1>1 DEF OpenDir
  <2>2. /\ DOMAIN job' = Calls /\ job'[c] = Opened(c, s)
        /\ \A x \in Calls : x # c => Kept(x) /\ job'[x].pc = job[x].pc
    BY <2>1, SharingKeeps
  <2>3. Kept(c) /\ job'[c].pc = Opened(c, s).pc
    BY <2>2 DEF Kept, Opened, ControlTypes, Fields
  <2>4. Opened(c, s).pc = IF s = "wakelocks" THEN "readdir" ELSE "checkService"
    BY DEF Opened, ControlTypes, Fields
  <2>5. ReadyToOpen(c, s)
    BY DEF OpenDir
  <2>6. QED
    BY <2>2, <2>3, <2>4, <2>5
<1>2. CASE ~dirFd[DirOf(s)]
  <2>1. job' = [job EXCEPT ![c] = NextSection(c)]
    BY <1>2 DEF OpenDir
  <2>2. job[c].pc # "idle"
    BY DEF OpenDir, ReadyToOpen, Doing, At
  <2>3. QED
    BY <2>1, <2>2, NextSectionIsFresh DEF Kept, ControlTypes
<1>3. QED
  BY <1>1, <1>2

(* Getdents fills the buffer or ends the listing.                          *)
LEMMA GetdentsEffect ==
  ASSUME ControlTypes, NEW c \in Calls, Getdents(c)
  PROVE  /\ DOMAIN job' = Calls
         /\ \A x \in Calls : Kept(x)
         /\ \A x \in Calls : x # c => job'[x].pc = job[x].pc
         /\ job[c].pc = "readdir" /\ job'[c].pc \in {"readdir", "listed"}
<1> DEFINE d == DirOf(Head(job[c].todo))
           after == {i \in EntriesOf(d) : i > position[d]}
           buf == {i \in after : Cardinality({x \in after : x <= i}) <= Chunk}
<1>0. job[c].pc = "readdir"
  BY DEF Getdents, At
<1>1. CASE buf = {}
  <2>1. job' = [job EXCEPT ![c].pc = "listed"]
    BY <1>1 DEF Getdents
  <2>2. QED
    BY <1>0, <2>1 DEF Kept, ControlTypes, Fields
<1>2. CASE buf # {}
  <2>1. Sharing(c, d, [job[c] EXCEPT !.buf = buf])
    BY <1>2 DEF Getdents
  <2> HIDE DEF buf, d
  <2>2. /\ DOMAIN job' = Calls /\ job'[c] = [job[c] EXCEPT !.buf = buf]
        /\ \A x \in Calls : x # c => Kept(x) /\ job'[x].pc = job[x].pc
    BY <2>1, SharingKeeps
  <2>3. QED
    BY <1>0, <2>2 DEF Kept, ControlTypes, Fields
<1>3. QED
  BY <1>1, <1>2

(* ReadSourceStat changes only the entry and the note of what was read.    *)
OnlyEntryChanges(c) ==
  /\ DOMAIN job' = Calls /\ \A x \in Calls : x # c => job'[x] = job[x]
  /\ job[c].pc = "entry" /\ job'[c].pc = "entry"
  /\ job'[c].todo = job[c].todo /\ job'[c].list = job[c].list
  /\ job'[c].forced = job[c].forced /\ job'[c].unlocked = job[c].unlocked
  /\ DOMAIN job'[c] = Fields /\ job'[c].entry \in Entries
  /\ job'[c].entry.pinned = job[c].entry.pinned
  /\ job'[c].entry.from \subseteq job[c].entry.from \cup {job[c].entry.pinned}
  /\ UNCHANGED <<phase, suspends, gen, statsLocks>>

(* That is so whether the stat can be read or not.                         *)
LEMMA ReadSourceStatEffect ==
  ASSUME ControlTypes, NEW c \in Calls, NEW f \in SourceFiles,
         NEW reads \in BOOLEAN, ReadSourceStat(c, f, reads)
  PROVE  OnlyEntryChanges(c)
<1> DEFINE e == job[c].entry
           from == IF reads THEN e.from \cup {e.pinned} ELSE e.from
           left == e.left \ {f}
           steady == IF reads THEN job[c].steady ELSE job[c].steady \ {e.id}
<1>1. /\ DOMAIN job = Calls /\ DOMAIN job[c] = Fields
      /\ DOMAIN e = {"id", "pinned", "left", "from"}
  BY DEF ControlTypes, Entries
<1>2. job[c].pc = "entry" /\ UNCHANGED <<phase, suspends, gen, statsLocks>>
  BY DEF ReadSourceStat, At, mainVars, objectVars
<1>3. job' = [job EXCEPT ![c].steady = steady, ![c].entry.left = left,
                         ![c].entry.from = from]
  BY DEF ReadSourceStat
<1> HIDE DEF e, from, left, steady
<1>4. /\ DOMAIN job' = Calls /\ \A x \in Calls : x # c => job'[x] = job[x]
      /\ job'[c].pc = job[c].pc /\ DOMAIN job'[c] = Fields
      /\ job'[c].todo = job[c].todo /\ job'[c].list = job[c].list
      /\ job'[c].forced = job[c].forced /\ job'[c].unlocked = job[c].unlocked
  BY <1>1, <1>3 DEF Fields
<1>5. job'[c].entry = [[e EXCEPT !.left = left] EXCEPT !.from = from]
  BY <1>1, <1>3 DEF Fields, e
<1>6. job'[c].entry.pinned = e.pinned /\ job'[c].entry.from = from
  BY <1>1, <1>5
<1>7. job'[c].entry \in Entries
  <2>1. e \in Entries
    BY DEF ControlTypes, e
  <2>2. [[e EXCEPT !.left = left] EXCEPT !.from = from] \in Entries
    BY <2>1 DEF Entries, left, from
  <2>3. QED
    BY <1>5, <2>2
<1>8. from \subseteq e.from \cup {e.pinned}
  BY DEF from
<1>9. QED
  BY <1>2, <1>4, <1>6, <1>7, <1>8 DEF e, OnlyEntryChanges

(* Every step keeps the types.                                             *)
LEMMA TypesStep ==
  ControlTypes /\ [Next]_vars => ControlTypes'
<1> SUFFICES ASSUME ControlTypes, [Next]_vars
             PROVE  ControlTypes'
  OBVIOUS
<1> USE ControlAssumption
    DEF ControlTypes, Phases, Fields, Listed, Entries, vars, mainVars, objectVars, kernelDirs, At, Doing, Reading
<1>1. ASSUME OpenFiles
     PROVE  ControlTypes'
  BY <1>1 DEF OpenFiles
<1>2. ASSUME NEW ok \in BOOLEAN, RegisterControlServices(ok)
     PROVE  ControlTypes'
  BY <1>2 DEF RegisterControlServices
<1>3. ASSUME SetSuspendService
     PROVE  ControlTypes'
  BY <1>3 DEF SetSuspendService
<1>4. ASSUME TakeReference
     PROVE  ControlTypes'
  BY <1>4 DEF TakeReference
<1>5. ASSUME NEW ok \in BOOLEAN, RegisterAidl(ok)
     PROVE  ControlTypes'
  BY <1>5 DEF RegisterAidl
<1>6. ASSUME RegisterHidl
     PROVE  ControlTypes'
  BY <1>6 DEF RegisterHidl
<1>7. ASSUME Autosuspend
     PROVE  ControlTypes'
  BY <1>7 DEF Autosuspend
<1>8. ASSUME NEW i \in WakeupIds, SourceVanishes(i)
     PROVE  ControlTypes'
  BY <1>8 DEF SourceVanishes
<1>9. ASSUME NEW i \in WakeupIds, SourceAppears(i)
     PROVE  ControlTypes'
  BY <1>9 DEF SourceAppears
<1>10. ASSUME NEW c \in Calls, NEW todo \in Requests, Promote(c, todo)
     PROVE  ControlTypes'
  <2>1. CASE object = "alive"
    <3>1. UNCHANGED <<phase, suspends, gen, statsLocks>>
      BY <1>10, <2>1 DEF Promote
    <3>2. QED
      BY <1>10, <2>1, <3>1, PromoteEffect, NothingIsTyped DEF Fresh
  <2>2. CASE object # "alive"
    BY <1>10, <2>2 DEF Promote
  <2>3. QED
    BY <2>1, <2>2
<1>11. ASSUME NEW c \in Calls, Return(c)
     PROVE  ControlTypes'
  BY <1>11 DEF Return, NoJob, NoEntry
<1>12. ASSUME NEW c \in Calls, EnableAutosuspend(c)
     PROVE  ControlTypes'
  BY <1>12 DEF EnableAutosuspend, NextSection, NoJob, NoEntry
<1>13. ASSUME NEW c \in Calls, ForceSuspend(c)
     PROVE  ControlTypes'
  BY <1>13 DEF ForceSuspend, NextSection, NoJob, NoEntry
<1>14. ASSUME NEW c \in Calls, CopyWakeups(c)
     PROVE  ControlTypes'
  BY <1>14 DEF CopyWakeups, NextSection, NoJob, NoEntry
<1>15. ASSUME NEW c \in Calls, CopySuspendInfo(c)
     PROVE  ControlTypes'
  BY <1>15 DEF CopySuspendInfo, NextSection, NoJob, NoEntry
<1>16. ASSUME NEW c \in Calls, CopyNativeEntries(c)
     PROVE  ControlTypes'
  BY <1>16 DEF CopyNativeEntries
<1>17. ASSUME NEW c \in Calls, NEW s \in {"wakelocks", "kernel_suspends"}, OpenDir(c, s)
     PROVE  ControlTypes'
  <2>1. UNCHANGED <<phase, suspends, gen, statsLocks>>
    BY <1>17 DEF OpenDir
  <2>2. /\ DOMAIN job' = Calls /\ \A x \in Calls : x # c => Kept(x)
        /\ Fresh(job'[c]) \/ Kept(c)
    BY <1>17, OpenDirEffect
  <2>3. \A x \in Calls : Kept(x) => /\ DOMAIN job'[x] = Fields
                                   /\ job'[x].list \in Seq(Listed)
                                   /\ job'[x].entry \in Entries
    BY DEF Kept
  <2>4. Fresh(job'[c]) => /\ DOMAIN job'[c] = Fields
                          /\ job'[c].list \in Seq(Listed)
                          /\ job'[c].entry \in Entries
    BY NothingIsTyped DEF Fresh
  <2> HIDE DEF Fields, Listed, Entries
  <2>5. QED
    BY <2>1, <2>2, <2>3, <2>4
<1>18. ASSUME NEW c \in Calls, Getdents(c)
     PROVE  ControlTypes'
  <2>1. UNCHANGED <<phase, suspends, gen, statsLocks>>
    BY <1>18 DEF Getdents
  <2>2. QED
    BY <1>18, <2>1, GetdentsEffect DEF Kept
<1>19. ASSUME NEW c \in Calls, NEW i \in WakeupIds, NEW opens \in BOOLEAN,
             OpenSource(c, i, opens)
     PROVE  ControlTypes'
  BY <1>19 DEF OpenSource, StatsOfSource
<1>20. ASSUME NEW c \in Calls, NEW f \in SourceFiles, NEW reads \in BOOLEAN,
             ReadSourceStat(c, f, reads)
     PROVE  ControlTypes'
  <2>1. OnlyEntryChanges(c)
    BY <1>20, ReadSourceStatEffect
  <2>2. QED
    BY <2>1 DEF OnlyEntryChanges
<1>21. ASSUME NEW c \in Calls, AddKernelEntry(c)
     PROVE  ControlTypes'
  BY <1>21 DEF AddKernelEntry, NoEntry
<1>22. ASSUME NEW c \in Calls, ReturnWakeLocks(c)
     PROVE  ControlTypes'
  BY <1>22 DEF ReturnWakeLocks, NextSection, NoJob, NoEntry
<1>23. ASSUME NEW c \in Calls, NEW ok \in BOOLEAN, AcquireStatsLock(c, ok)
     PROVE  ControlTypes'
  BY <1>23 DEF AcquireStatsLock
<1>24. ASSUME NEW c \in Calls, NEW i \in StatFiles, ReadSuspendStat(c, i)
     PROVE  ControlTypes'
  BY <1>24 DEF ReadSuspendStat
<1>25. ASSUME NEW c \in Calls, SuspendStatFails(c)
     PROVE  ControlTypes'
  BY <1>25 DEF SuspendStatFails, NoJob, NoEntry
<1>26. ASSUME NEW c \in Calls, ReturnSuspendStats(c)
     PROVE  ControlTypes'
  BY <1>26 DEF ReturnSuspendStats, NextSection, NoJob, NoEntry
<1>27. ASSUME UNCHANGED vars
     PROVE  ControlTypes'
  BY <1>27
<1> HIDE DEF ControlTypes
<1>28. QED
  BY <1>1, <1>2, <1>3, <1>4, <1>5, <1>6, <1>7, <1>8, <1>9,
     <1>10, <1>11, <1>12, <1>13, <1>14, <1>15, <1>16, <1>17, <1>18,
     <1>19, <1>20, <1>21, <1>22, <1>23, <1>24, <1>25, <1>26, <1>27
  DEF Next, MainStep, KernelStep, CallStep

(* Every step keeps what is known of the references.                       *)
LEMMA ReferencesStep ==
  ControlTypes /\ References /\ [Next]_vars => References'
<1> SUFFICES ASSUME ControlTypes, References, [Next]_vars
             PROVE  References'
  OBVIOUS
<1> USE ControlAssumption
    DEF ControlTypes, Phases, Fields, References, vars, mainVars, objectVars, kernelDirs, At, Doing, Reading
<1>1. ASSUME OpenFiles
     PROVE  References'
  BY <1>1 DEF OpenFiles
<1>2. ASSUME NEW ok \in BOOLEAN, RegisterControlServices(ok)
     PROVE  References'
  BY <1>2 DEF RegisterControlServices
<1>3. ASSUME SetSuspendService
     PROVE  References'
  BY <1>3 DEF SetSuspendService
<1>4. ASSUME TakeReference
     PROVE  References'
  BY <1>4 DEF TakeReference
<1>5. ASSUME NEW ok \in BOOLEAN, RegisterAidl(ok)
     PROVE  References'
  BY <1>5 DEF RegisterAidl
<1>6. ASSUME RegisterHidl
     PROVE  References'
  BY <1>6 DEF RegisterHidl
<1>7. ASSUME Autosuspend
     PROVE  References'
  BY <1>7 DEF Autosuspend
<1>8. ASSUME NEW i \in WakeupIds, SourceVanishes(i)
     PROVE  References'
  BY <1>8 DEF SourceVanishes
<1>9. ASSUME NEW i \in WakeupIds, SourceAppears(i)
     PROVE  References'
  BY <1>9 DEF SourceAppears
<1>10. ASSUME NEW c \in Calls, NEW todo \in Requests, Promote(c, todo)
     PROVE  References'
  <2>1. CASE object = "alive"
    <3>1. /\ strong' = strong \cup {c}
          /\ early' = (early \/ phase = "constructing")
          /\ UNCHANGED <<phase, object>>
      BY <1>10, <2>1 DEF Promote
    <3>2. QED
      BY <1>10, <2>1, <3>1, PromoteEffect DEF Fresh, NoEntry
  <2>2. CASE object # "alive"
    BY <1>10, <2>2 DEF Promote
  <2>3. QED
    BY <2>1, <2>2
<1>11. ASSUME NEW c \in Calls, Return(c)
     PROVE  References'
  <2>1. /\ strong' = strong \ {c} /\ UNCHANGED <<phase, early>>
        /\ object' = IF strong' = {} THEN "destroyed" ELSE object
        /\ job[c].pc = "section" /\ job'[c].pc = "idle"
        /\ \A x \in Calls : x # c => job'[x] = job[x]
    BY <1>11 DEF Return, NoJob
  <2>2. CASE strong' = {}
    BY <2>1, <2>2
  <2>3. CASE strong' # {}
    BY <2>1, <2>3
  <2>4. QED
    BY <2>2, <2>3
<1>12. ASSUME NEW c \in Calls, EnableAutosuspend(c)
     PROVE  References'
  BY <1>12 DEF EnableAutosuspend, NextSection, NoJob, NoEntry
<1>13. ASSUME NEW c \in Calls, ForceSuspend(c)
     PROVE  References'
  BY <1>13 DEF ForceSuspend, NextSection, NoJob, NoEntry
<1>14. ASSUME NEW c \in Calls, CopyWakeups(c)
     PROVE  References'
  BY <1>14 DEF CopyWakeups, NextSection, NoJob, NoEntry
<1>15. ASSUME NEW c \in Calls, CopySuspendInfo(c)
     PROVE  References'
  BY <1>15 DEF CopySuspendInfo, NextSection, NoJob, NoEntry
<1>16. ASSUME NEW c \in Calls, CopyNativeEntries(c)
     PROVE  References'
  BY <1>16 DEF CopyNativeEntries
<1>17. ASSUME NEW c \in Calls, NEW s \in {"wakelocks", "kernel_suspends"}, OpenDir(c, s)
     PROVE  References'
  <2>1. UNCHANGED <<phase, object, strong, early>>
    BY <1>17 DEF OpenDir
  <2>2. QED
    BY <1>17, <2>1, OpenDirEffect DEF ReadyToOpen, Kept, Fresh, NoEntry
<1>18. ASSUME NEW c \in Calls, Getdents(c)
     PROVE  References'
  <2>1. UNCHANGED <<phase, object, strong, early>>
    BY <1>18 DEF Getdents
  <2>2. QED
    BY <1>18, <2>1, GetdentsEffect DEF Kept
<1>19. ASSUME NEW c \in Calls, NEW i \in WakeupIds, NEW opens \in BOOLEAN,
             OpenSource(c, i, opens)
     PROVE  References'
  BY <1>19 DEF OpenSource, StatsOfSource
<1>20. ASSUME NEW c \in Calls, NEW f \in SourceFiles, NEW reads \in BOOLEAN,
             ReadSourceStat(c, f, reads)
     PROVE  References'
  BY <1>20 DEF ReadSourceStat
<1>21. ASSUME NEW c \in Calls, AddKernelEntry(c)
     PROVE  References'
  BY <1>21 DEF AddKernelEntry, NoEntry
<1>22. ASSUME NEW c \in Calls, ReturnWakeLocks(c)
     PROVE  References'
  BY <1>22 DEF ReturnWakeLocks, NextSection, NoJob, NoEntry
<1>23. ASSUME NEW c \in Calls, NEW ok \in BOOLEAN, AcquireStatsLock(c, ok)
     PROVE  References'
  BY <1>23 DEF AcquireStatsLock
<1>24. ASSUME NEW c \in Calls, NEW i \in StatFiles, ReadSuspendStat(c, i)
     PROVE  References'
  BY <1>24 DEF ReadSuspendStat
<1>25. ASSUME NEW c \in Calls, SuspendStatFails(c)
     PROVE  References'
  BY <1>25 DEF SuspendStatFails, NoJob, NoEntry
<1>26. ASSUME NEW c \in Calls, ReturnSuspendStats(c)
     PROVE  References'
  BY <1>26 DEF ReturnSuspendStats, NextSection, NoJob, NoEntry
<1>27. ASSUME UNCHANGED vars
     PROVE  References'
  BY <1>27
<1> HIDE DEF ControlTypes, References
<1>28. QED
  BY <1>1, <1>2, <1>3, <1>4, <1>5, <1>6, <1>7, <1>8, <1>9,
     <1>10, <1>11, <1>12, <1>13, <1>14, <1>15, <1>16, <1>17, <1>18,
     <1>19, <1>20, <1>21, <1>22, <1>23, <1>24, <1>25, <1>26, <1>27
  DEF Next, MainStep, KernelStep, CallStep

(* Every step keeps what a call knows of its section.                      *)
LEMMA SectionsStep ==
  ControlTypes /\ Sections /\ [Next]_vars => Sections'
<1> SUFFICES ASSUME ControlTypes, Sections, [Next]_vars
             PROVE  Sections'
  OBVIOUS
<1> USE DEF ControlTypes, Fields, Entries, Sections, vars, mainVars, objectVars, kernelDirs, At, Doing, Reading
<1>1. ASSUME OpenFiles
     PROVE  Sections'
  BY <1>1 DEF OpenFiles
<1>2. ASSUME NEW ok \in BOOLEAN, RegisterControlServices(ok)
     PROVE  Sections'
  BY <1>2 DEF RegisterControlServices
<1>3. ASSUME SetSuspendService
     PROVE  Sections'
  BY <1>3 DEF SetSuspendService
<1>4. ASSUME TakeReference
     PROVE  Sections'
  BY <1>4 DEF TakeReference
<1>5. ASSUME NEW ok \in BOOLEAN, RegisterAidl(ok)
     PROVE  Sections'
  BY <1>5 DEF RegisterAidl
<1>6. ASSUME RegisterHidl
     PROVE  Sections'
  BY <1>6 DEF RegisterHidl
<1>7. ASSUME Autosuspend
     PROVE  Sections'
  BY <1>7 DEF Autosuspend
<1>8. ASSUME NEW i \in WakeupIds, SourceVanishes(i)
     PROVE  Sections'
  BY <1>8 DEF SourceVanishes
<1>9. ASSUME NEW i \in WakeupIds, SourceAppears(i)
     PROVE  Sections'
  BY <1>9 DEF SourceAppears
<1>10. ASSUME NEW c \in Calls, NEW todo \in Requests, Promote(c, todo)
     PROVE  Sections'
  <2>1. CASE object = "alive"
    BY <1>10, <2>1, PromoteEffect DEF Fresh, NoEntry
  <2>2. CASE object # "alive"
    BY <1>10, <2>2 DEF Promote
  <2>3. QED
    BY <2>1, <2>2
<1>11. ASSUME NEW c \in Calls, Return(c)
     PROVE  Sections'
  BY <1>11 DEF Return, NoJob, NoEntry
<1>12. ASSUME NEW c \in Calls, EnableAutosuspend(c)
     PROVE  Sections'
  BY <1>12 DEF EnableAutosuspend, NextSection, NoJob, NoEntry
<1>13. ASSUME NEW c \in Calls, ForceSuspend(c)
     PROVE  Sections'
  BY <1>13 DEF ForceSuspend, NextSection, NoJob, NoEntry
<1>14. ASSUME NEW c \in Calls, CopyWakeups(c)
     PROVE  Sections'
  BY <1>14 DEF CopyWakeups, NextSection, NoJob, NoEntry
<1>15. ASSUME NEW c \in Calls, CopySuspendInfo(c)
     PROVE  Sections'
  BY <1>15 DEF CopySuspendInfo, NextSection, NoJob, NoEntry
<1>16. ASSUME NEW c \in Calls, CopyNativeEntries(c)
     PROVE  Sections'
  BY <1>16 DEF CopyNativeEntries
<1>17. ASSUME NEW c \in Calls, NEW s \in {"wakelocks", "kernel_suspends"}, OpenDir(c, s)
     PROVE  Sections'
  BY <1>17, OpenDirEffect DEF ReadyToOpen, Kept, Fresh, NoEntry
<1>18. ASSUME NEW c \in Calls, Getdents(c)
     PROVE  Sections'
  BY <1>18, GetdentsEffect DEF Kept
<1>19. ASSUME NEW c \in Calls, NEW i \in WakeupIds, NEW opens \in BOOLEAN,
             OpenSource(c, i, opens)
     PROVE  Sections'
  BY <1>19 DEF OpenSource, StatsOfSource
<1>20. ASSUME NEW c \in Calls, NEW f \in SourceFiles, NEW reads \in BOOLEAN,
             ReadSourceStat(c, f, reads)
     PROVE  Sections'
  <2>1. OnlyEntryChanges(c)
    BY <1>20, ReadSourceStatEffect
  <2>2. QED
    BY <2>1 DEF OnlyEntryChanges
<1>21. ASSUME NEW c \in Calls, AddKernelEntry(c)
     PROVE  Sections'
  BY <1>21 DEF AddKernelEntry, NoEntry
<1>22. ASSUME NEW c \in Calls, ReturnWakeLocks(c)
     PROVE  Sections'
  BY <1>22 DEF ReturnWakeLocks, NextSection, NoJob, NoEntry
<1>23. ASSUME NEW c \in Calls, NEW ok \in BOOLEAN, AcquireStatsLock(c, ok)
     PROVE  Sections'
  BY <1>23 DEF AcquireStatsLock
<1>24. ASSUME NEW c \in Calls, NEW i \in StatFiles, ReadSuspendStat(c, i)
     PROVE  Sections'
  BY <1>24 DEF ReadSuspendStat
<1>25. ASSUME NEW c \in Calls, SuspendStatFails(c)
     PROVE  Sections'
  BY <1>25 DEF SuspendStatFails, NoJob, NoEntry
<1>26. ASSUME NEW c \in Calls, ReturnSuspendStats(c)
     PROVE  Sections'
  BY <1>26 DEF ReturnSuspendStats, NextSection, NoJob, NoEntry
<1>27. ASSUME UNCHANGED vars
     PROVE  Sections'
  BY <1>27
<1> HIDE DEF ControlTypes, Sections
<1>28. QED
  BY <1>1, <1>2, <1>3, <1>4, <1>5, <1>6, <1>7, <1>8, <1>9,
     <1>10, <1>11, <1>12, <1>13, <1>14, <1>15, <1>16, <1>17, <1>18,
     <1>19, <1>20, <1>21, <1>22, <1>23, <1>24, <1>25, <1>26, <1>27
  DEF Next, MainStep, KernelStep, CallStep

(* Every step keeps the statistics read so far protected.                  *)
LEMMA StatsStep ==
  ControlTypes /\ Sections /\ StatsProtected /\ [Next]_vars => StatsProtected'
<1> SUFFICES ASSUME ControlTypes, Sections, StatsProtected, [Next]_vars
             PROVE  StatsProtected'
  OBVIOUS
<1> USE DEF ControlTypes, Fields, Listed, Sections, StatsProtected,
        Protected, ReadsStats, vars, mainVars, objectVars, kernelDirs, At, Doing, Reading
<1>1. ASSUME OpenFiles
     PROVE  StatsProtected'
  BY <1>1 DEF OpenFiles
<1>2. ASSUME NEW ok \in BOOLEAN, RegisterControlServices(ok)
     PROVE  StatsProtected'
  BY <1>2 DEF RegisterControlServices
<1>3. ASSUME SetSuspendService
     PROVE  StatsProtected'
  BY <1>3 DEF SetSuspendService
<1>4. ASSUME TakeReference
     PROVE  StatsProtected'
  BY <1>4 DEF TakeReference
<1>5. ASSUME NEW ok \in BOOLEAN, RegisterAidl(ok)
     PROVE  StatsProtected'
  BY <1>5 DEF RegisterAidl
<1>6. ASSUME RegisterHidl
     PROVE  StatsProtected'
  BY <1>6 DEF RegisterHidl
<1>7. ASSUME Autosuspend
     PROVE  StatsProtected'
  BY <1>7 DEF Autosuspend
<1>8. ASSUME NEW i \in WakeupIds, SourceVanishes(i)
     PROVE  StatsProtected'
  BY <1>8 DEF SourceVanishes
<1>9. ASSUME NEW i \in WakeupIds, SourceAppears(i)
     PROVE  StatsProtected'
  BY <1>9 DEF SourceAppears
<1>10. ASSUME NEW c \in Calls, NEW todo \in Requests, Promote(c, todo)
     PROVE  StatsProtected'
  <2>1. CASE object = "alive"
    <3>1. UNCHANGED <<suspends, statsLocks>>
      BY <1>10 DEF Promote
    <3>2. /\ job[c].pc = "idle" /\ job'[c].pc = "section"
          /\ \A x \in Calls : x # c => job'[x] = job[x]
      BY <1>10, <2>1, PromoteEffect DEF Fresh
    <3>3. QED
      BY <3>1, <3>2
  <2>2. CASE object # "alive"
    BY <1>10, <2>2 DEF Promote
  <2>3. QED
    BY <2>1, <2>2
<1>11. ASSUME NEW c \in Calls, Return(c)
     PROVE  StatsProtected'
  BY <1>11 DEF Return, NoJob, NoEntry
<1>12. ASSUME NEW c \in Calls, EnableAutosuspend(c)
     PROVE  StatsProtected'
  BY <1>12 DEF EnableAutosuspend, NextSection, NoJob, NoEntry
<1>13. ASSUME NEW c \in Calls, ForceSuspend(c)
     PROVE  StatsProtected'
  BY <1>13 DEF ForceSuspend, NextSection, NoJob, NoEntry
<1>14. ASSUME NEW c \in Calls, CopyWakeups(c)
     PROVE  StatsProtected'
  BY <1>14 DEF CopyWakeups, NextSection, NoJob, NoEntry
<1>15. ASSUME NEW c \in Calls, CopySuspendInfo(c)
     PROVE  StatsProtected'
  BY <1>15 DEF CopySuspendInfo, NextSection, NoJob, NoEntry
<1>16. ASSUME NEW c \in Calls, CopyNativeEntries(c)
     PROVE  StatsProtected'
  BY <1>16 DEF CopyNativeEntries
<1>17. ASSUME NEW c \in Calls, NEW s \in {"wakelocks", "kernel_suspends"}, OpenDir(c, s)
     PROVE  StatsProtected'
  <2> SUFFICES ASSUME NEW x \in Calls
               PROVE  Protected(x)'
    OBVIOUS
  <2>1. UNCHANGED <<suspends, statsLocks>> /\ Protected(x)
    BY <1>17 DEF OpenDir
  <2>2. CASE x # c
    <3>1. Kept(x) /\ job'[x].pc = job[x].pc
      BY <1>17, <2>2, OpenDirEffect
    <3>2. QED
      BY <2>1, <3>1 DEF Kept
  <2>3. CASE x = c
    <3>1. job[c].pc \in {"section", "copied"}
      BY <1>17 DEF OpenDir, ReadyToOpen
    <3>2. c \notin statsLocks
      BY <2>1, <2>3, <3>1
    <3>3. CASE Fresh(job'[c])
      BY <2>1, <2>3, <3>2, <3>3 DEF Fresh
    <3>4. CASE ReadyToOpen(c, s) /\ Kept(c) /\ s = "wakelocks"
      BY <2>1, <2>3, <3>2, <3>4 DEF ReadyToOpen, Kept
    <3>5. CASE job'[c].pc = "checkService"
      BY <2>1, <2>3, <3>2, <3>5
    <3>6. QED
      BY <1>17, <3>3, <3>4, <3>5, OpenDirEffect
  <2>4. QED
    BY <2>2, <2>3
<1>18. ASSUME NEW c \in Calls, Getdents(c)
     PROVE  StatsProtected'
  <2> SUFFICES ASSUME NEW x \in Calls
               PROVE  Protected(x)'
    OBVIOUS
  <2>1. UNCHANGED <<suspends, statsLocks>> /\ Protected(x)
    BY <1>18 DEF Getdents
  <2>2. CASE x # c
    <3>1. Kept(x) /\ job'[x].pc = job[x].pc
      BY <1>18, <2>2, GetdentsEffect
    <3>2. QED
      BY <2>1, <3>1 DEF Kept
  <2>3. CASE x = c
    <3>1. Kept(x) /\ job[x].pc = "readdir" /\ job'[x].pc \in {"readdir", "listed"}
      BY <1>18, <2>3, GetdentsEffect
    <3>2. QED
      BY <2>1, <3>1 DEF Kept
  <2>4. QED
    BY <2>2, <2>3
<1>19. ASSUME NEW c \in Calls, NEW i \in WakeupIds, NEW opens \in BOOLEAN,
             OpenSource(c, i, opens)
     PROVE  StatsProtected'
  BY <1>19 DEF OpenSource, StatsOfSource
<1>20. ASSUME NEW c \in Calls, NEW f \in SourceFiles, NEW reads \in BOOLEAN,
             ReadSourceStat(c, f, reads)
     PROVE  StatsProtected'
  <2>1. OnlyEntryChanges(c)
    BY <1>20, ReadSourceStatEffect
  <2>2. QED
    BY <2>1 DEF OnlyEntryChanges
<1>21. ASSUME NEW c \in Calls, AddKernelEntry(c)
     PROVE  StatsProtected'
  BY <1>21 DEF AddKernelEntry, NoEntry
<1>22. ASSUME NEW c \in Calls, ReturnWakeLocks(c)
     PROVE  StatsProtected'
  BY <1>22 DEF ReturnWakeLocks, NextSection, NoJob, NoEntry
<1>23. ASSUME NEW c \in Calls, NEW ok \in BOOLEAN, AcquireStatsLock(c, ok)
     PROVE  StatsProtected'
  <2>1. /\ job[c].pc = "checkService" /\ job[c].list = <<>>
        /\ Head(job[c].todo) = "kernel_suspends"
    BY <1>23 DEF AcquireStatsLock
  <2>2. /\ job'[c].pc = "readdir" /\ job'[c].todo = job[c].todo
        /\ job'[c].list = job[c].list
        /\ job'[c].unlocked = ~ok
        /\ \A x \in Calls : x # c => job'[x] = job[x]
    BY <1>23 DEF AcquireStatsLock
  <2>3. /\ statsLocks' = IF ok THEN statsLocks \cup {c} ELSE statsLocks
        /\ UNCHANGED suspends
    BY <1>23 DEF AcquireStatsLock
  <2>4. CASE ok
    BY <2>1, <2>2, <2>3, <2>4
  <2>5. CASE ~ok
    <3>1. job'[c].unlocked /\ statsLocks' = statsLocks /\ c \notin statsLocks
      BY <2>1, <2>2, <2>3, <2>5
    <3>2. QED
      BY <2>2, <2>3, <3>1
  <2>6. QED
    BY <2>4, <2>5
<1>24. ASSUME NEW c \in Calls, NEW i \in StatFiles, ReadSuspendStat(c, i)
     PROVE  StatsProtected'
  BY <1>24 DEF ReadSuspendStat
<1>25. ASSUME NEW c \in Calls, SuspendStatFails(c)
     PROVE  StatsProtected'
  BY <1>25 DEF SuspendStatFails, NoJob, NoEntry
<1>26. ASSUME NEW c \in Calls, ReturnSuspendStats(c)
     PROVE  StatsProtected'
  BY <1>26 DEF ReturnSuspendStats, NextSection, NoJob, NoEntry
<1>27. ASSUME UNCHANGED vars
     PROVE  StatsProtected'
  BY <1>27
<1> HIDE DEF ControlTypes, Sections, StatsProtected
<1>28. QED
  BY <1>1, <1>2, <1>3, <1>4, <1>5, <1>6, <1>7, <1>8, <1>9,
     <1>10, <1>11, <1>12, <1>13, <1>14, <1>15, <1>16, <1>17, <1>18,
     <1>19, <1>20, <1>21, <1>22, <1>23, <1>24, <1>25, <1>26, <1>27
  DEF Next, MainStep, KernelStep, CallStep

------------------------------------------------------------------------------
(* It holds before main has done anything.                                 *)
LEMMA InitControlInv == Init => ControlInv
<1> SUFFICES ASSUME Init
             PROVE  ControlInv
  OBVIOUS
<1>1. /\ DOMAIN job = Calls
      /\ \A c \in Calls : /\ DOMAIN job[c] = Fields /\ job[c].pc = "idle"
                          /\ job[c].list = <<>> /\ job[c].entry = NoEntry
  BY DEF Init, NoJob, Fields
<1>2. ControlTypes
  BY <1>1, NothingIsTyped DEF Init, ControlTypes, Phases
<1>3. References
  BY <1>1 DEF Init, References, At
<1>4. Sections
  BY <1>1 DEF Sections, At
<1>5. StatsProtected
  BY <1>1 DEF Init, StatsProtected, Protected, ReadsStats
<1>6. QED
  BY <1>2, <1>3, <1>4, <1>5 DEF ControlInv

(* ControlInv holds in every reachable state, whatever calls main's        *)
(* start-up, the kernel and each other are interleaved with (main.cpp,     *)
(* SuspendControlService.cpp:150-328).                                     *)
THEOREM ControlInvariance == Spec => []ControlInv
<1>1. ControlInv /\ [Next]_vars => ControlInv'
  BY TypesStep, ReferencesStep, SectionsStep, StatsStep DEF ControlInv
<1>2. QED
  BY <1>1, InitControlInv, PTL DEF Spec

(* For any number of calls, none works on a destroyed SystemSuspend, and   *)
(* only a call during its construction can be the end of it                *)
(* (main.cpp:148-164).                                                     *)
THEOREM ObjectIsSafe == Spec => []ObjectOutlivesUse
<1>1. ControlInv => ObjectOutlivesUse
  BY DEF ControlInv, References, ObjectOutlivesUse
<1>2. QED
  BY <1>1, ControlInvariance, PTL

(* However many wakeup sources come and go, no entry mixes two of them     *)
(* (WakeLockEntryList.cpp:228-297).                                        *)
THEOREM OneSourcePerEntry == Spec => []EntryFromOneSource
<1>1. ControlInv => EntryFromOneSource
  <2> SUFFICES ASSUME ControlInv, NEW c \in Calls, At(c, "entry")
               PROVE  Cardinality(job[c].entry.from) <= 1
    BY DEF EntryFromOneSource
  <2> DEFINE one == {job[c].entry.pinned}
  <2>1. job[c].entry.from \subseteq one
    BY DEF ControlInv, Sections
  <2>2. IsFiniteSet(one) /\ Cardinality(one) = 1
    BY FS_Singleton
  <2> HIDE DEF one
  <2>3. QED
    BY <2>1, <2>2, FS_Subset
<1>2. QED
  BY <1>1, ControlInvariance, PTL

(* The wake lock getSuspendStats takes does give it a consistent snapshot, *)
(* however many readers and files there are (SystemSuspend.cpp:525).       *)
THEOREM ConsistentSnapshot == Spec => []SnapshotConsistent
<1>1. ControlInv => SnapshotConsistent
  BY DEF ControlInv, StatsProtected, Protected, ReadsStats, SnapshotConsistent, At
<1>2. QED
  BY <1>1, ControlInvariance, PTL

(* No way out of getSuspendStats leaks its wake lock                       *)
(* (SystemSuspend.cpp:525-554).                                            *)
THEOREM StatsLockNotLeaked == Spec => []StatsLockOnlyWhileReading
<1>1. ControlInv => StatsLockOnlyWhileReading
  BY DEF ControlInv, ControlTypes, StatsProtected, Protected, ReadsStats,
         StatsLockOnlyWhileReading
<1>2. QED
  BY <1>1, ControlInvariance, PTL

------------------------------------------------------------------------------
(* Listing a directory: what Getdents puts into the buffer.                *)

(* The members of a directory up to i, and the first k of them.            *)
UpTo(A, i) == {x \in A : x <= i}
First(A, k) == {i \in A : Cardinality(UpTo(A, i)) <= k}

(* A set of numbers has finitely many up to i, more with each of them.     *)
LEMMA UpToProperties ==
  ASSUME NEW A \in SUBSET Nat, NEW i \in A
  PROVE  /\ IsFiniteSet(UpTo(A, i))
         /\ Cardinality(UpTo(A, i)) \in Nat /\ Cardinality(UpTo(A, i)) >= 1
         /\ \A j \in A : j < i =>
              Cardinality(UpTo(A, j)) < Cardinality(UpTo(A, i))
         /\ \A j \in A : j <= i =>
              Cardinality(UpTo(A, j)) <= Cardinality(UpTo(A, i))
<1>1. \A k \in A : IsFiniteSet(UpTo(A, k)) /\ Cardinality(UpTo(A, k)) \in Nat
  <2> SUFFICES ASSUME NEW k \in A
               PROVE  IsFiniteSet(UpTo(A, k)) /\ Cardinality(UpTo(A, k)) \in Nat
    OBVIOUS
  <2>1. k \in Nat /\ 0 \in Int /\ k \in Int
    OBVIOUS
  <2>2. IsFiniteSet(0 .. k)
    BY <2>1, FS_Interval
  <2>3. UpTo(A, k) \subseteq 0 .. k
    <3> SUFFICES ASSUME NEW x \in UpTo(A, k) PROVE x \in 0 .. k
      OBVIOUS
    <3>1. x \in Nat /\ x <= k
      BY DEF UpTo
    <3>2. QED
      BY <2>1, <3>1
  <2>4. QED
    BY <2>2, <2>3, FS_Subset, FS_CardinalityType
<1>2. Cardinality(UpTo(A, i)) >= 1
  <2>1. i \in UpTo(A, i)
    BY DEF UpTo
  <2>2. Cardinality(UpTo(A, i)) # 0
    BY <1>1, <2>1, FS_EmptySet
  <2>3. QED
    BY <1>1, <2>2
<1>3. ASSUME NEW j \in A, j < i
      PROVE  Cardinality(UpTo(A, j)) < Cardinality(UpTo(A, i))
  <2>1. UpTo(A, j) \subseteq UpTo(A, i)
    <3> SUFFICES ASSUME NEW x \in UpTo(A, j) PROVE x \in UpTo(A, i)
      OBVIOUS
    <3>1. x \in A /\ x \in Nat /\ x <= j /\ j \in Nat /\ i \in Nat
      BY DEF UpTo
    <3>2. x <= i
      BY <1>3, <3>1
    <3>3. QED
      BY <3>1, <3>2 DEF UpTo
  <2>2. i \in UpTo(A, i) /\ i \notin UpTo(A, j)
    BY <1>3 DEF UpTo
  <2>3. UpTo(A, j) # UpTo(A, i)
    BY <2>2
  <2>4. QED
    BY <1>1, <2>1, <2>3, FS_Subset
<1>4. \A j \in A : j <= i => j < i \/ j = i
  OBVIOUS
<1>5. QED
  BY <1>1, <1>2, <1>3, <1>4

(* The first k of a set of numbers are bounded, even if the set is not.    *)
LEMMA FirstIsBounded ==
  ASSUME NEW A \in SUBSET Nat
  PROVE  \A k \in Nat : \E n \in Nat : \A i \in First(A, k) : i <= n
<1> DEFINE P == {k \in Nat : \E n \in Nat : \A i \in First(A, k) : i <= n}
<1>1. 0 \in P
  <2>1. ASSUME NEW i \in First(A, 0) PROVE FALSE
    <3>1. i \in A /\ Cardinality(UpTo(A, i)) <= 0
      BY <2>1 DEF First
    <3>2. QED
      BY <3>1, UpToProperties
  <2>2. QED
    BY <2>1
<1>2. ASSUME NEW k \in Nat, k \in P PROVE k + 1 \in P
  <2>1. PICK n \in Nat : \A i \in First(A, k) : i <= n
    BY <1>2
  <2>2. \A i \in A : /\ Cardinality(UpTo(A, i)) \in Nat
                     /\ \A j \in A : j < i =>
                          Cardinality(UpTo(A, j)) < Cardinality(UpTo(A, i))
    BY UpToProperties
  <2>3. CASE \E i \in A : Cardinality(UpTo(A, i)) = k + 1
    <3>1. PICK i \in A : Cardinality(UpTo(A, i)) = k + 1
      BY <2>3
    <3>2. ASSUME NEW j \in First(A, k + 1) PROVE j <= n + i
      <4>1. j \in A /\ Cardinality(UpTo(A, j)) \in Nat
            /\ Cardinality(UpTo(A, j)) <= k + 1 /\ j \in Nat /\ i \in Nat
        BY <2>2, <3>2 DEF First
      <4>2. CASE Cardinality(UpTo(A, j)) = k + 1
        <5>1. ~(j < i) /\ ~(i < j)
          BY <2>2, <3>1, <4>1, <4>2
        <5>2. QED
          BY <4>1, <5>1
      <4>3. CASE Cardinality(UpTo(A, j)) <= k
        <5>1. j \in First(A, k)
          BY <4>1, <4>3 DEF First
        <5>2. QED
          BY <2>1, <4>1, <5>1
      <4>4. QED
        BY <4>1, <4>2, <4>3
    <3>3. n + i \in Nat
      OBVIOUS
    <3>4. QED
      BY <3>2, <3>3
  <2>4. CASE \A i \in A : Cardinality(UpTo(A, i)) # k + 1
    <3>1. ASSUME NEW i \in First(A, k + 1) PROVE i \in First(A, k)
      <4>1. /\ i \in A /\ Cardinality(UpTo(A, i)) <= k + 1
            /\ Cardinality(UpTo(A, i)) \in Nat
            /\ Cardinality(UpTo(A, i)) # k + 1
        BY <2>2, <2>4, <3>1 DEF First
      <4>2. Cardinality(UpTo(A, i)) <= k
        BY <4>1
      <4>3. QED
        BY <4>1, <4>2 DEF First
    <3>2. QED
      BY <2>1, <3>1
  <2>5. QED
    BY <2>3, <2>4
<1> HIDE DEF P
<1>3. \A k \in Nat : k \in P
  BY <1>1, <1>2, SetInduction
<1>4. QED
  BY <1>3 DEF P

(* A buffer that holds k entries: it is empty only if there are none, and  *)
(* it has all up to the greatest of them.                                  *)
LEMMA FirstProperties ==
  ASSUME NEW A \in SUBSET Nat, NEW k \in Nat \ {0}
  PROVE  /\ First(A, k) = {} => A = {}
         /\ First(A, k) # {} =>
              /\ Greatest(First(A, k)) \in First(A, k)
              /\ \A i \in A : i \in First(A, k) <=> i <= Greatest(First(A, k))
<1> DEFINE F == First(A, k)
<1>1. ASSUME A # {} PROVE F # {}
  <2>1. PICK i \in A : \A j \in A : i <= j
    BY <1>1, LeastNatural
  <2>2. UpTo(A, i) = {i}
    <3>1. \A x \in A : x \in Nat /\ (x <= i <=> x = i)
      BY <2>1
    <3>2. QED
      BY <3>1, Zenon DEF UpTo
  <2>3. Cardinality(UpTo(A, i)) = 1
    BY <2>2, FS_Singleton
  <2>4. QED
    BY <2>3 DEF First
<1>2. ASSUME F # {}
      PROVE  Greatest(F) \in F /\ \A i \in A : i \in F <=> i <= Greatest(F)
  <2>1. F \subseteq A
    BY DEF First
  <2>2. PICK n \in Nat : \A i \in F : i <= n
    BY FirstIsBounded
  <2> HIDE DEF F
  <2>3. F \in SUBSET (0 .. n)
    BY <2>1, <2>2
  <2>4. Max(F) \in F /\ \A i \in F : i <= Max(F)
    BY <1>2, <2>3, MaxProperties
  <2>5. \E x \in F : \A y \in F : x >= y
    BY <2>1, <2>4
  <2>6. Greatest(F) \in F /\ \A i \in F : Greatest(F) >= i
    BY <2>5 DEF Greatest
  <2> DEFINE g == Greatest(F)
  <2> HIDE DEF g
  <2>7. g \in F /\ g \in A /\ g \in Nat /\ \A i \in F : i <= g
    BY <2>1, <2>6 DEF g
  <2>8. ASSUME NEW i \in A, i <= g PROVE i \in F
    <3>1. /\ Cardinality(UpTo(A, i)) <= Cardinality(UpTo(A, g))
          /\ Cardinality(UpTo(A, i)) \in Nat /\ Cardinality(UpTo(A, g)) \in Nat
      BY <2>7, <2>8, UpToProperties
    <3>2. Cardinality(UpTo(A, g)) <= k
      BY <2>7 DEF F, First
    <3>3. Cardinality(UpTo(A, i)) <= k
      BY <3>1, <3>2
    <3>4. QED
      BY <3>3 DEF F, First
  <2>9. QED
    BY <2>7, <2>8 DEF g
<1>3. QED
  BY <1>1, <1>2

------------------------------------------------------------------------------
(* What a listing knows, and how each of its steps keeps that.             *)

(* The list has an entry for s, with stats.                                *)
Has(list, s) == \E k \in DOMAIN list : list[k].id = s /\ list[k].from # {}

(* The list has names in the order of the directory.                       *)
Ordered(list) ==
  \A k, l \in DOMAIN list : k < l => list[k].id < list[l].id

(* All that is listed comes before m.                                      *)
Precedes(list, m) == \A k \in DOMAIN list : list[k].id < m

(* What a listing that shares the directory with no other knows while it   *)
(* goes on, p being the position, E the entries there are and g their      *)
(* generations.  What is listed comes before what is being read, and that  *)
(* before the buffer, which ends at the position.  Of the entries that     *)
(* were there all the time none up to the position is missing.             *)
Progress(j, p, E, g) ==
  /\ j.steady \subseteq E
  /\ Ordered(j.list)
  /\ \A k \in DOMAIN j.list : j.list[k].id <= p
  /\ \A i \in j.buf : i <= p /\ Precedes(j.list, i)
  /\ j.pc = "entry" =>
       /\ j.entry.id <= p /\ Precedes(j.list, j.entry.id)
       /\ \A i \in j.buf : j.entry.id < i
       /\ j.entry.id \in j.steady =>
            /\ g[j.entry.id] = j.entry.pinned /\ j.entry.pinned # 0
            /\ j.entry.left # {} \/ j.entry.from # {}
  /\ \A s \in j.steady : s <= p =>
       s \in j.buf \/ (j.pc = "entry" /\ s = j.entry.id) \/ Has(j.list, s)

(* What it knows at the end.                                               *)
Complete(j) ==
  /\ \A k, l \in DOMAIN j.list : j.list[k].id = j.list[l].id => k = l
  /\ \A s \in j.steady : Has(j.list, s)

SameEntries(j, j2) ==
  j2.buf = j.buf /\ j2.list = j.list /\ j2.entry = j.entry

JobTypes(j) ==
  /\ j.list \in Seq(Listed) /\ j.entry \in Entries
  /\ j.buf \subseteq Nat /\ j.steady \subseteq Nat

(* What is listed has a number.                                            *)
LEMMA ListedIds ==
  ASSUME NEW list \in Seq(Listed)
  PROVE  /\ DOMAIN list \subseteq Nat
         /\ \A k \in DOMAIN list : list[k].id \in Nat
<1>1. \A k \in DOMAIN list : list[k] \in Listed
  OBVIOUS
<1>2. \A e \in Listed : e.id \in Nat
  BY DEF Listed
<1>3. QED
  BY <1>1, <1>2

(* Entries that vanish are no longer among those to be listed.             *)
LEMMA ProgressKept ==
  ASSUME NEW j, NEW j2, NEW p, NEW E, NEW E2, NEW g, NEW g2, Progress(j, p, E, g),
         SameEntries(j, j2), j2.pc = "entry" <=> j.pc = "entry",
         j2.steady \subseteq j.steady, j2.steady \subseteq E2,
         j2.pc = "entry" => \A s \in j2.steady : g2[s] = g[s]
  PROVE  Progress(j2, p, E2, g2)
BY DEF Progress, SameEntries

(* The buffer is filled with the entries up to the new position.           *)
LEMMA ProgressFilled ==
  ASSUME NEW j, NEW j2, NEW p \in Nat, NEW p2 \in Nat, NEW E \in SUBSET Nat, NEW g,
         JobTypes(j), Progress(j, p, E, g), j.pc = "readdir", j2.pc = "readdir",
         j.buf = {}, j2.list = j.list, j2.steady = j.steady,
         p <= p2, \A i : i \in j2.buf <=> i \in E /\ i > p /\ i <= p2
  PROVE  Progress(j2, p2, E, g)
<1>1. j.steady \subseteq Nat /\ \A k \in DOMAIN j.list : j.list[k].id \in Nat
  BY ListedIds DEF JobTypes
<1>2. j2.steady \subseteq E /\ Ordered(j2.list)
  BY DEF Progress
<1>3. \A k \in DOMAIN j.list : j.list[k].id <= p
  BY DEF Progress
<1>4. \A k \in DOMAIN j2.list : j2.list[k].id <= p2
  BY <1>1, <1>3
<1>5. ASSUME NEW i \in j2.buf PROVE i <= p2 /\ Precedes(j2.list, i)
  <2>1. i \in Nat /\ i > p /\ i <= p2
    BY <1>5
  <2>2. QED
    BY <1>1, <1>3, <2>1 DEF Precedes
<1>6. ASSUME NEW s \in j2.steady, s <= p2
      PROVE  s \in j2.buf \/ Has(j2.list, s)
  <2>1. s \in E /\ s \in Nat
    BY <1>1, <1>2
  <2>2. CASE s <= p
    BY <2>2 DEF Progress
  <2>3. CASE s > p
    BY <1>6, <2>1, <2>3
  <2>4. QED
    BY <2>1, <2>2, <2>3
<1>7. QED
  BY <1>2, <1>4, <1>5, <1>6 DEF Progress

(* Nothing is left after the position.                                     *)
LEMMA ProgressEnds ==
  ASSUME NEW j, NEW j2, NEW p \in Nat, NEW E \in SUBSET Nat, NEW g,
         JobTypes(j), Progress(j, p, E, g), j.pc = "readdir", j.buf = {},
         j2.list = j.list, j2.steady = j.steady,
         \A i \in E : ~(i > p)
  PROVE  Complete(j2)
<1>1. /\ j.steady \subseteq Nat /\ \A k \in DOMAIN j.list : j.list[k].id \in Nat
      /\ DOMAIN j.list \subseteq Nat
  BY ListedIds DEF JobTypes
<1>2. ASSUME NEW k \in DOMAIN j.list, NEW l \in DOMAIN j.list,
             j.list[k].id = j.list[l].id
      PROVE  k = l
  <2>1. ~(k < l) /\ ~(l < k)
    BY <1>1, <1>2 DEF Progress, Ordered
  <2>2. QED
    BY <1>1, <2>1
<1>3. ASSUME NEW s \in j.steady PROVE Has(j.list, s)
  <2>1. s \in E /\ s \in Nat /\ s <= p
    BY <1>1 DEF Progress
  <2>2. QED
    BY <2>1 DEF Progress
<1>4. QED
  BY <1>2, <1>3 DEF Complete

(* The least of the buffer is opened.                                      *)
LEMMA ProgressOpened ==
  ASSUME NEW j, NEW j2, NEW p \in Nat, NEW E \in SUBSET Nat, NEW g,
         JobTypes(j), Progress(j, p, E, g), j.pc = "readdir", j2.pc = "entry",
         NEW i \in j.buf, \A x \in j.buf : i <= x,
         j2.buf = j.buf \ {i}, j2.list = j.list, j2.steady \subseteq j.steady,
         j2.entry.id = i,
         i \in j2.steady => j2.entry.pinned = g[i] /\ g[i] # 0 /\ j2.entry.left # {}
  PROVE  Progress(j2, p, E, g)
<1>1. i \in Nat /\ i <= p /\ Precedes(j.list, i)
  BY DEF JobTypes, Progress
<1>2. \A x \in j2.buf : i < x /\ x <= p /\ Precedes(j.list, x)
  BY <1>1 DEF JobTypes, Progress
<1>3. j2.steady \subseteq E /\ Ordered(j2.list)
      /\ \A k \in DOMAIN j2.list : j2.list[k].id <= p
  BY DEF Progress
<1>4. \A s \in j2.steady : s <= p => s \in j2.buf \/ s = i \/ Has(j2.list, s)
  BY DEF Progress
<1>5. QED
  BY <1>1, <1>2, <1>3, <1>4 DEF Progress

(* A stat is read, or the source is no longer one of those that could be   *)
(* read all the time.                                                      *)
LEMMA ProgressRead ==
  ASSUME NEW j, NEW j2, NEW p, NEW E, NEW g,
         Progress(j, p, E, g), j.pc = "entry", j2.pc = "entry",
         j2.buf = j.buf, j2.list = j.list, j2.steady \subseteq j.steady,
         j2.entry.id = j.entry.id, j2.entry.pinned = j.entry.pinned,
         j.entry.id \in j2.steady => j2.entry.from # {}
  PROVE  Progress(j2, p, E, g)
BY DEF Progress

(* An entry is added to the list.                                          *)
LEMMA ProgressAdded ==
  ASSUME NEW j, NEW j2, NEW p \in Nat, NEW E \in SUBSET Nat, NEW g,
         JobTypes(j), Progress(j, p, E, g), j2.pc = "readdir",
         NEW e \in Listed, j2.list = Append(j.list, e), j2.steady = j.steady,
         e.id <= p, Precedes(j.list, e.id), \A i \in j2.buf : i \in j.buf /\ e.id < i,
         e.id \in j.steady => e.from # {},
         \A s \in j.steady : s <= p => s \in j2.buf \/ s = e.id \/ Has(j.list, s)
  PROVE  Progress(j2, p, E, g)
<1> DEFINE n == Len(j.list)
<1>1. /\ j.list \in Seq(Listed) /\ n \in Nat /\ DOMAIN j.list = 1 .. n
      /\ DOMAIN j2.list = 1 .. n + 1
      /\ \A k \in 1 .. n : j2.list[k] = j.list[k] /\ k \in 1 .. n + 1
      /\ j2.list[n + 1] = e /\ n + 1 \in 1 .. n + 1
  BY DEF JobTypes
<1> HIDE DEF n
<1>2. \A k \in 1 .. n + 1 : k \in 1 .. n \/ k = n + 1
  BY <1>1
<1>3. \A k, l \in 1 .. n + 1 : k < l => k \in 1 .. n
  BY <1>1
<1>4. Ordered(j2.list)
  <2> SUFFICES ASSUME NEW k \in 1 .. n + 1, NEW l \in 1 .. n + 1, k < l
               PROVE  j2.list[k].id < j2.list[l].id
    BY <1>1 DEF Ordered
  <2>1. k \in 1 .. n /\ j2.list[k] = j.list[k]
    BY <1>1, <1>3
  <2>2. CASE l \in 1 .. n
    BY <1>1, <2>1, <2>2 DEF Progress, Ordered
  <2>3. CASE l = n + 1
    BY <1>1, <2>1, <2>3 DEF Precedes
  <2>4. QED
    BY <1>2, <2>2, <2>3
<1>5. \A k \in DOMAIN j2.list : j2.list[k].id <= p
  BY <1>1, <1>2 DEF Progress
<1>6. ASSUME NEW i \in j2.buf PROVE i <= p /\ Precedes(j2.list, i)
  <2>1. i <= p /\ Precedes(j.list, i) /\ e.id < i
    BY <1>6 DEF Progress
  <2>2. QED
    BY <1>1, <1>2, <2>1 DEF Precedes
<1>7. \A s : Has(j.list, s) => Has(j2.list, s)
  BY <1>1 DEF Has
<1>8. e.from # {} => Has(j2.list, e.id)
  BY <1>1 DEF Has
<1>9. \A s \in j2.steady : s <= p => s \in j2.buf \/ Has(j2.list, s)
  BY <1>7, <1>8
<1>10. j2.steady \subseteq E
  BY DEF Progress
<1>11. QED
  BY <1>4, <1>5, <1>6, <1>9, <1>10 DEF Progress

------------------------------------------------------------------------------
(* The same for all calls, whatever the others do.                         *)

Listers == {"checkService", "readdir", "entry"}

CallTypes(j) ==
  /\ j.buf \subseteq Nat /\ j.steady \subseteq Nat
  /\ j.pc \in {"section", "copied", "checkService"} => j.list = <<>> /\ j.buf = {}

ListingTypes ==
  /\ position \in [Dirs -> Nat]
  /\ present \subseteq WakeupIds
  /\ \A i \in WakeupIds : gen[i] # 0
  /\ \A c \in Calls : CallTypes(job[c])

DirOfCall(c) == DirOf(Head(job[c].todo))

Listing(c) ==
  ~job[c].shared =>
    /\ job[c].pc \in Listers =>
         Progress(job[c], position[DirOfCall(c)], EntriesOf(DirOfCall(c)), gen)
    /\ job[c].pc = "listed" => Complete(job[c])

ListingInv == ListingTypes /\ \A c \in Calls : Listing(c)

(* Every section lists one of the two directories, whose entries are       *)
(* numbers.                                                                *)
LEMMA DirFacts ==
  ASSUME ListingTypes
  PROVE  /\ \A s : DirOf(s) \in Dirs
         /\ \A d \in Dirs : /\ EntriesOf(d) \subseteq Nat \ {0}
                            /\ position[d] \in Nat
         /\ \A c : DirOfCall(c) \in Dirs
BY ControlAssumption DEF ListingTypes, DirOf, Dirs, EntriesOf, DirOfCall

(* What happens to another call that is listing: nothing, or it has been   *)
(* disturbed.                                                              *)
Undisturbed(x) ==
  /\ SameEntries(job[x], job'[x])
  /\ job'[x].pc = job[x].pc /\ job'[x].todo = job[x].todo
  /\ job'[x].steady \subseteq job[x].steady
  /\ ~job'[x].shared =>
       /\ ~job[x].shared
       /\ job[x].pc \in Listers =>
            /\ position'[DirOfCall(x)] = position[DirOfCall(x)]
            /\ job'[x].steady \subseteq EntriesOf(DirOfCall(x))'
            /\ job[x].pc = "entry" =>
                 \A s \in job'[x].steady : gen'[s] = gen[s]

(* Such a call may go on as before.                                        *)
LEMMA UndisturbedListing ==
  ASSUME NEW x \in Calls, Listing(x), CallTypes(job[x]), Undisturbed(x)
  PROVE  Listing(x)' /\ CallTypes(job'[x])
<1>1. CallTypes(job'[x])
  BY DEF CallTypes, Undisturbed, SameEntries
<1>2. SameEntries(job[x], job'[x]) /\ job'[x].pc = job[x].pc
      /\ job'[x].steady \subseteq job[x].steady /\ job'[x].todo = job[x].todo
  BY DEF Undisturbed
<1> DEFINE d == DirOfCall(x)
<1>3. d' = d
  BY <1>2 DEF DirOfCall
<1> HIDE DEF d
<1>4. ASSUME ~job'[x].shared, job'[x].pc \in Listers
      PROVE  Progress(job'[x], position'[d'], EntriesOf(d)', gen')
  <2>1. Progress(job[x], position[d], EntriesOf(d), gen)
    BY <1>2, <1>4 DEF Listing, Undisturbed, d
  <2>2. /\ position'[d] = position[d]
        /\ job'[x].steady \subseteq EntriesOf(d)'
        /\ job'[x].pc = "entry" => \A s \in job'[x].steady : gen'[s] = gen[s]
    BY <1>2, <1>4 DEF Undisturbed, d
  <2> DEFINE j == job[x]
             j2 == job'[x]
             p == position[d]
             E == EntriesOf(d)
             E2 == EntriesOf(d)'
             g2 == gen'
  <2>3. /\ SameEntries(j, j2) /\ (j2.pc = "entry" <=> j.pc = "entry")
        /\ j2.steady \subseteq j.steady /\ j2.steady \subseteq E2
        /\ (j2.pc = "entry" => \A s \in j2.steady : g2[s] = gen[s])
        /\ Progress(j, p, E, gen)
    BY <1>2, <2>1, <2>2
  <2> HIDE DEF j, j2, p, E, E2, g2
  <2>4. Progress(j2, p, E2, g2)
    BY <2>3, ProgressKept
  <2>5. QED
    BY <1>3, <2>2, <2>4 DEF j2, p, E2, g2
<1>5. ASSUME ~job'[x].shared, job'[x].pc = "listed" PROVE Complete(job'[x])
  <2>1. Complete(job[x])
    BY <1>2, <1>5 DEF Listing, Undisturbed
  <2>2. QED
    BY <1>2, <2>1 DEF Complete, SameEntries
<1>6. QED
  BY <1>1, <1>4, <1>5 DEF Listing, d

(* Nothing happens to a call, and nothing to what it lists.                *)
LEMMA IdleListing ==
  ASSUME ListingInv, NEW x \in Calls, job'[x] = job[x],
         UNCHANGED <<position, present, gen>>
  PROVE  Listing(x)' /\ CallTypes(job'[x])
<1>1. Listing(x) /\ CallTypes(job[x])
  BY DEF ListingInv, ListingTypes
<1>2. \A d : EntriesOf(d)' = EntriesOf(d)
  BY DEF EntriesOf
<1>3. QED
  BY <1>1, <1>2 DEF Listing, DirOfCall

(* A step of one call that leaves the directories alone.                   *)
LEMMA OneCallStep ==
  ASSUME ListingInv, NEW c \in Calls, UNCHANGED <<position, present, gen>>,
         \A x \in Calls : x # c => job'[x] = job[x],
         Listing(c)', CallTypes(job'[c])
  PROVE  ListingInv'
<1>1. \A x \in Calls : Listing(x)' /\ CallTypes(job'[x])
  BY IdleListing
<1>2. ListingTypes'
  BY <1>1 DEF ListingInv, ListingTypes
<1>3. QED
  BY <1>1, <1>2 DEF ListingInv

(* A job that lists nothing.                                               *)
ListsNothing(j) ==
  /\ j.pc \in {"idle", "section", "copied"}
  /\ j.list = <<>> /\ j.buf = {} /\ j.steady = {}

(* A step after which the call lists nothing.                              *)
LEMMA NothingStep ==
  ASSUME ListingInv, NEW c \in Calls, UNCHANGED <<position, present, gen>>,
         \A x \in Calls : x # c => job'[x] = job[x],
         ListsNothing(job'[c])
  PROVE  ListingInv'
<1>1. Listing(c)' /\ CallTypes(job'[c])
  BY DEF Listing, ListsNothing, Listers, CallTypes
<1>2. QED
  BY <1>1, OneCallStep

(* A call whose directory is moved in is marked as disturbed, the others   *)
(* notice nothing.                                                         *)
LEMMA DisturbedListing ==
  ASSUME ControlTypes, ListingInv, NEW x \in Calls, NEW d \in Dirs,
         job'[x] = [job[x] EXCEPT !.shared = @ \/ Lists(x, d)],
         UNCHANGED <<present, gen>>,
         \A e \in Dirs : e # d => position'[e] = position[e]
  PROVE  Listing(x)' /\ CallTypes(job'[x])
<1>1. /\ SameEntries(job[x], job'[x])
      /\ job'[x].pc = job[x].pc /\ job'[x].todo = job[x].todo
      /\ job'[x].steady = job[x].steady
      /\ job'[x].shared = (job[x].shared \/ Lists(x, d))
  BY DEF ControlTypes, Fields, SameEntries
<1>2. Listing(x) /\ CallTypes(job[x]) /\ DirOfCall(x) \in Dirs
  BY DirFacts DEF ListingInv, ListingTypes
<1>3. EntriesOf(DirOfCall(x))' = EntriesOf(DirOfCall(x))
  BY <1>1 DEF EntriesOf, DirOfCall
<1>4. ASSUME ~job'[x].shared, job[x].pc \in Listers
      PROVE  /\ position'[DirOfCall(x)] = position[DirOfCall(x)]
             /\ job[x].steady \subseteq EntriesOf(DirOfCall(x))
  <2>1. ~job[x].shared /\ ~Lists(x, d)
    BY <1>1, <1>4
  <2>2. DirOfCall(x) # d
    BY <1>4, <2>1 DEF Lists, Listers, DirOfCall
  <2>3. job[x].steady \subseteq EntriesOf(DirOfCall(x))
    BY <1>2, <1>4, <2>1 DEF Listing, Progress
  <2>4. QED
    BY <1>2, <2>2, <2>3
<1>5. ~job'[x].shared => ~job[x].shared
  BY <1>1
<1>6. Undisturbed(x)
  BY <1>1, <1>3, <1>4, <1>5 DEF Undisturbed
<1>7. QED
  BY <1>2, <1>6, UndisturbedListing

(* The next section begins with nothing listed.                            *)
LEMMA NextSectionListsNothing ==
  ASSUME NEW c
  PROVE  ListsNothing(NextSection(c))
BY DEF ListsNothing, NextSection, NoJob

(* OpenDir: the position is the beginning, and others are disturbed.       *)
LEMMA OpenDirListing ==
  ASSUME ControlTypes, Sections, ListingInv, NEW c \in Calls,
         NEW s \in {"wakelocks", "kernel_suspends"}, OpenDir(c, s)
  PROVE  ListingInv'
<1> DEFINE d == DirOf(s)
<1>0. UNCHANGED <<present, gen>> /\ d \in Dirs
  BY DEF OpenDir, DirOf, Dirs
<1>1. CASE ~dirFd[d]
  <2>1. UNCHANGED position /\ job' = [job EXCEPT ![c] = NextSection(c)]
    BY <1>1 DEF OpenDir
  <2>2. ListsNothing(NextSection(c))
    BY NextSectionListsNothing
  <2>3. job'[c] = NextSection(c) /\ \A x \in Calls : x # c => job'[x] = job[x]
    BY <2>1 DEF ControlTypes
  <2>4. QED
    BY <1>0, <2>1, <2>2, <2>3, NothingStep
<1>2. CASE dirFd[d]
  <2>1. /\ position' = [position EXCEPT ![d] = 0]
        /\ Sharing(c, d, Opened(c, s))
        /\ ReadyToOpen(c, s)
    BY <1>2 DEF OpenDir
  <2>2. /\ job'[c] = Opened(c, s)
        /\ \A x \in Calls : x # c =>
             job'[x] = [job[x] EXCEPT !.shared = @ \/ Lists(x, d)]
    BY <2>1 DEF Sharing
  <2>3. /\ position \in [Dirs -> Nat]
        /\ EntriesOf(d) \subseteq Nat \ {0} /\ EntriesOf(d)' = EntriesOf(d)
    BY <1>0, DirFacts DEF ListingInv, ListingTypes, EntriesOf
  <2>4. position' \in [Dirs -> Nat] /\ position'[d] = 0
        /\ \A e \in Dirs : e # d => position'[e] = position[e]
    BY <1>0, <2>1, <2>3
  <2>5. ASSUME NEW x \in Calls, x # c PROVE Listing(x)' /\ CallTypes(job'[x])
    BY <1>0, <2>2, <2>4, <2>5, DisturbedListing
  <2>6. /\ job[c].pc \in {"section", "copied"} /\ Head(job[c].todo) = s
        /\ CallTypes(job[c])
    BY <2>1 DEF ReadyToOpen, Doing, At, Sections, ListingInv, ListingTypes
  <2>7. /\ job'[c].list = <<>> /\ job'[c].buf = {} /\ job'[c].steady = EntriesOf(d)
        /\ job'[c].pc \in {"readdir", "checkService"}
        /\ job'[c].todo = job[c].todo
    BY <2>2, <2>6 DEF Opened, ControlTypes, Fields, CallTypes
  <2>8. CallTypes(job'[c])
    BY <2>3, <2>7 DEF CallTypes
  <2>9. DirOfCall(c)' = d
    BY <2>6, <2>7 DEF DirOfCall
  <2> HIDE DEF d
  <2>10. Progress(job'[c], 0, EntriesOf(d), gen)
    BY <2>3, <2>7 DEF Progress, Ordered
  <2>11. Listing(c)'
    BY <1>0, <2>3, <2>4, <2>7, <2>9, <2>10 DEF Listing
  <2>12. \A x \in Calls : Listing(x)' /\ CallTypes(job'[x])
    BY <2>5, <2>8, <2>11
  <2>13. ListingTypes'
    BY <1>0, <2>4, <2>12 DEF ListingInv, ListingTypes
  <2>14. QED
    BY <2>12, <2>13 DEF ListingInv
<1>3. QED
  BY <1>1, <1>2

(* Getdents: the buffer is filled, and others are disturbed; or nothing is *)
(* left.                                                                   *)
LEMMA GetdentsListing ==
  ASSUME ControlTypes, ListingInv, NEW c \in Calls, Getdents(c)
  PROVE  ListingInv'
<1> DEFINE d == DirOf(Head(job[c].todo))
           A == {i \in EntriesOf(d) : i > position[d]}
           F == First(A, Chunk)
           p == position[d]
           E == EntriesOf(d)
<1>0. {i \in A : Cardinality({x \in A : x <= i}) <= Chunk} = F
  BY DEF First, UpTo
<1>1. /\ job[c].pc = "readdir" /\ job[c].buf = {}
      /\ F = {} => job' = [job EXCEPT ![c].pc = "listed"] /\ UNCHANGED position
      /\ F # {} => /\ position' = [position EXCEPT ![d] = Greatest(F)]
                   /\ Sharing(c, d, [job[c] EXCEPT !.buf = F])
      /\ UNCHANGED <<present, gen>>
  BY <1>0 DEF Getdents, At
<1>2. d \in Dirs /\ d = DirOfCall(c)
  BY DirFacts DEF ListingInv, DirOfCall
<1>3. /\ position \in [Dirs -> Nat] /\ p \in Nat
      /\ E \in SUBSET Nat
  BY <1>2, DirFacts DEF ListingInv, ListingTypes
<1> HIDE DEF d, F, p, E
<1>4. /\ \A i : i \in A <=> i \in E /\ i > p
      /\ A \in SUBSET Nat
  BY <1>3 DEF E, p
<1> HIDE DEF A
<1>5. /\ F = {} => A = {}
      /\ F # {} => /\ Greatest(F) \in F
                   /\ \A i \in A : i \in F <=> i <= Greatest(F)
      /\ F \subseteq A
  BY <1>4, FirstProperties, ControlAssumption DEF F, First
<1>6. /\ Listing(c) /\ CallTypes(job[c]) /\ JobTypes(job[c])
      /\ DOMAIN job[c] = Fields /\ DOMAIN job = Calls
  BY DEF ListingInv, ListingTypes, ControlTypes, JobTypes, CallTypes
<1>7. ~job[c].shared => Progress(job[c], p, E, gen)
  BY <1>1, <1>2, <1>6 DEF Listing, Listers, p, E
<1>8. CASE F = {}
  <2>1. job' = [job EXCEPT ![c].pc = "listed"] /\ UNCHANGED <<position, present, gen>>
    BY <1>1, <1>8
  <2>2. /\ job'[c].pc = "listed" /\ job'[c].list = job[c].list
        /\ job'[c].buf = job[c].buf
        /\ job'[c].steady = job[c].steady /\ job'[c].shared = job[c].shared
        /\ \A x \in Calls : x # c => job'[x] = job[x]
    BY <1>6, <2>1 DEF Fields
  <2>3. CallTypes(job'[c])
    BY <1>6, <2>2 DEF CallTypes
  <2>4. \A i \in E : ~(i > p)
    BY <1>4, <1>5, <1>8
  <2>5. ASSUME ~job'[c].shared PROVE Complete(job'[c])
    <3> DEFINE j == job[c]
               j2 == job'[c]
    <3>1. /\ JobTypes(j) /\ Progress(j, p, E, gen) /\ j.pc = "readdir"
          /\ j.buf = {} /\ j2.list = j.list /\ j2.steady = j.steady
      BY <1>1, <1>6, <1>7, <2>2, <2>5
    <3> HIDE DEF j, j2
    <3>2. Complete(j2)
      BY <1>3, <2>4, <3>1, ProgressEnds
    <3>3. QED
      BY <3>2 DEF j2
  <2>6. Listing(c)'
    BY <2>2, <2>5 DEF Listing, Listers
  <2>7. QED
    BY <2>1, <2>2, <2>3, <2>6, OneCallStep
<1>9. CASE F # {}
  <2> DEFINE g == Greatest(F)
  <2>1. /\ position' = [position EXCEPT ![d] = g]
        /\ Sharing(c, d, [job[c] EXCEPT !.buf = F])
    BY <1>1, <1>9
  <2>2. g \in Nat /\ p <= g
    <3>1. g \in A
      BY <1>5, <1>9
    <3> HIDE DEF g
    <3>2. g \in Nat /\ g > p
      BY <1>4, <3>1
    <3>3. QED
      BY <1>3, <3>2
  <2>3. \A i : i \in F <=> i \in E /\ i > p /\ i <= g
    BY <1>4, <1>5, <1>9
  <2> HIDE DEF g
  <2>4. /\ job'[c] = [job[c] EXCEPT !.buf = F]
        /\ \A x \in Calls : x # c =>
             job'[x] = [job[x] EXCEPT !.shared = @ \/ Lists(x, d)]
    BY <2>1 DEF Sharing
  <2>5. position' \in [Dirs -> Nat] /\ position'[d] = g
        /\ \A e \in Dirs : e # d => position'[e] = position[e]
    BY <1>2, <1>3, <2>1, <2>2
  <2>6. ASSUME NEW x \in Calls, x # c PROVE Listing(x)' /\ CallTypes(job'[x])
    BY <1>1, <1>2, <2>4, <2>5, <2>6, DisturbedListing
  <2>7. /\ job'[c].buf = F /\ job'[c].pc = "readdir"
        /\ job'[c].list = job[c].list /\ job'[c].steady = job[c].steady
        /\ job'[c].todo = job[c].todo /\ job'[c].shared = job[c].shared
    BY <1>1, <1>6, <2>4 DEF Fields
  <2>8. CallTypes(job'[c])
    BY <1>4, <1>5, <1>6, <2>7 DEF CallTypes
  <2>9. ASSUME ~job'[c].shared PROVE Progress(job'[c], g, E, gen)
    <3> DEFINE j == job[c]
               j2 == job'[c]
    <3>1. /\ JobTypes(j) /\ Progress(j, p, E, gen) /\ j.pc = "readdir"
          /\ j2.pc = "readdir" /\ j.buf = {}
          /\ j2.list = j.list /\ j2.steady = j.steady
          /\ \A i : i \in j2.buf <=> i \in E /\ i > p /\ i <= g
      BY <1>1, <1>6, <1>7, <2>3, <2>7, <2>9
    <3> HIDE DEF j, j2
    <3>2. Progress(j2, g, E, gen)
      BY <1>3, <2>2, <3>1, ProgressFilled
    <3>3. QED
      BY <3>2 DEF j2
  <2>10. DirOfCall(c)' = d /\ EntriesOf(DirOfCall(c))' = E
    <3>1. DirOfCall(c)' = DirOfCall(c)
      BY <2>7 DEF DirOfCall
    <3>2. QED
      BY <1>1, <1>2, <3>1 DEF EntriesOf, E
  <2>11. Listing(c)'
    BY <1>1, <2>5, <2>7, <2>9, <2>10 DEF Listing
  <2>12. \A x \in Calls : Listing(x)' /\ CallTypes(job'[x])
    BY <2>6, <2>8, <2>11
  <2>13. ListingTypes'
    BY <1>1, <2>5, <2>12 DEF ListingInv, ListingTypes
  <2>14. QED
    BY <2>12, <2>13 DEF ListingInv
<1>10. QED
  BY <1>8, <1>9

(* What a call that is listing knows, for the steps of that call.          *)
LEMMA ListerFacts ==
  ASSUME ControlTypes, ListingInv, NEW c \in Calls, job[c].pc \in Listers
  PROVE  /\ CallTypes(job[c]) /\ JobTypes(job[c])
         /\ DOMAIN job[c] = Fields /\ DOMAIN job = Calls
         /\ position[DirOfCall(c)] \in Nat
         /\ EntriesOf(DirOfCall(c)) \in SUBSET Nat
         /\ ~job[c].shared =>
              Progress(job[c], position[DirOfCall(c)],
                       EntriesOf(DirOfCall(c)), gen)
<1>1. /\ Listing(c) /\ CallTypes(job[c]) /\ JobTypes(job[c])
      /\ DOMAIN job[c] = Fields /\ DOMAIN job = Calls
  BY DEF ListingInv, ListingTypes, ControlTypes, JobTypes, CallTypes
<1>2. DirOfCall(c) \in Dirs /\ position[DirOfCall(c)] \in Nat
      /\ EntriesOf(DirOfCall(c)) \in SUBSET Nat
  BY DirFacts DEF ListingInv
<1>3. QED
  BY <1>1, <1>2 DEF Listing

(* A step of a listing that keeps to its directory.                        *)
LEMMA ListerStep ==
  ASSUME ListingInv, NEW c \in Calls, job'[c].pc \in Listers,
         UNCHANGED <<position, present, gen>>,
         \A x \in Calls : x # c => job'[x] = job[x],
         job'[c].todo = job[c].todo, CallTypes(job'[c]),
         ~job'[c].shared =>
              Progress(job'[c], position[DirOfCall(c)],
                       EntriesOf(DirOfCall(c)), gen)
  PROVE  ListingInv'
<1>1. DirOfCall(c)' = DirOfCall(c)
      /\ EntriesOf(DirOfCall(c))' = EntriesOf(DirOfCall(c))
  BY DEF DirOfCall, EntriesOf
<1>2. Listing(c)'
  BY <1>1 DEF Listing, Listers
<1>3. QED
  BY <1>2, OneCallStep

(* OpenSource takes the least of the buffer.                               *)
LEMMA OpenSourceListing ==
  ASSUME ControlTypes, ListingInv, NEW c \in Calls, NEW i \in WakeupIds,
         NEW opens \in BOOLEAN, OpenSource(c, i, opens)
  PROVE  ListingInv'
<1> DEFINE p == position[DirOfCall(c)]
           E == EntriesOf(DirOfCall(c))
           j == job[c]
           j2 == job'[c]
           steady == IF opens THEN j.steady ELSE j.steady \ {i}
           e == [id |-> i, pinned |-> IF opens THEN gen[i] ELSE 0,
                 left |-> IF opens THEN StatsOfSource ELSE {}, from |-> {}]
<1>1. /\ j.pc = "readdir" /\ Head(j.todo) = "wakelocks"
      /\ i \in j.buf /\ \A x \in j.buf : i <= x
      /\ UNCHANGED <<position, present, gen>>
  BY DEF OpenSource, Reading, At, IsNext, kernelDirs
<1>3. /\ CallTypes(j) /\ JobTypes(j) /\ DOMAIN j = Fields /\ DOMAIN job = Calls
      /\ p \in Nat /\ E \in SUBSET Nat
      /\ ~j.shared => Progress(j, p, E, gen)
  BY <1>1, ListerFacts DEF Listers
<1>4. job' = [job EXCEPT ![c].pc = "entry", ![c].buf = @ \ {i},
                         ![c].steady = steady, ![c].entry = e]
  BY DEF OpenSource
<1>5. e.id = i /\ steady \subseteq j.steady
  OBVIOUS
<1>6. i \in steady => e.pinned = gen[i] /\ gen[i] # 0 /\ e.left # {}
  <2>1. gen[i] # 0
    BY DEF ListingInv, ListingTypes
  <2>2. QED
    BY <2>1, SourceAssumption
<1> HIDE DEF e, steady
<1>7. /\ j2.pc = "entry" /\ j2.buf = j.buf \ {i} /\ j2.entry = e
      /\ j2.list = j.list /\ j2.steady = steady /\ j2.todo = j.todo
      /\ j2.shared = j.shared
      /\ \A x \in Calls : x # c => job'[x] = job[x]
  BY <1>3, <1>4 DEF Fields
<1>8. CallTypes(j2)
  BY <1>3, <1>5, <1>7 DEF CallTypes
<1>9. ASSUME ~j2.shared PROVE Progress(j2, p, E, gen)
  <2>1. /\ Progress(j, p, E, gen) /\ JobTypes(j) /\ j.pc = "readdir"
        /\ j2.pc = "entry" /\ i \in j.buf /\ \A x \in j.buf : i <= x
        /\ j2.buf = j.buf \ {i} /\ j2.list = j.list
        /\ j2.steady \subseteq j.steady /\ j2.entry.id = i
        /\ (i \in j2.steady => j2.entry.pinned = gen[i] /\ gen[i] # 0 /\ j2.entry.left # {})
    BY <1>1, <1>3, <1>5, <1>6, <1>7, <1>9
  <2> HIDE DEF j, j2, p, E
  <2>2. QED
    BY <1>3, <2>1, ProgressOpened
<1>10. QED
  BY <1>1, <1>7, <1>8, <1>9, ListerStep DEF Listers

(* ReadSourceStat gets something of a source, or gives it up.              *)
LEMMA ReadSourceStatListing ==
  ASSUME ControlTypes, Sections, ListingInv, NEW c \in Calls,
         NEW f \in SourceFiles, NEW reads \in BOOLEAN,
         ReadSourceStat(c, f, reads)
  PROVE  ListingInv'
<1> DEFINE p == position[DirOfCall(c)]
           E == EntriesOf(DirOfCall(c))
           j == job[c]
           j2 == job'[c]
           e == j.entry
           from == IF reads THEN e.from \cup {e.pinned} ELSE e.from
           left == e.left \ {f}
           steady == IF reads THEN j.steady ELSE j.steady \ {e.id}
           e2 == [e EXCEPT !.left = left, !.from = from]
<1>1. /\ j.pc = "entry" /\ Head(j.todo) = "wakelocks"
      /\ UNCHANGED <<position, present, gen>>
  BY DEF ReadSourceStat, At, Sections, kernelDirs
<1>3. /\ CallTypes(j) /\ JobTypes(j) /\ DOMAIN j = Fields /\ DOMAIN job = Calls
      /\ p \in Nat /\ E \in SUBSET Nat
      /\ ~j.shared => Progress(j, p, E, gen)
  BY <1>1, ListerFacts DEF Listers
<1>4. /\ DOMAIN e = {"id", "pinned", "left", "from"}
  BY <1>3 DEF JobTypes, Entries
<1>5. steady \subseteq j.steady /\ (e.id \in steady => from # {})
  OBVIOUS
<1>6. job' = [job EXCEPT ![c].steady = steady, ![c].entry.left = left,
                         ![c].entry.from = from]
  BY DEF ReadSourceStat
<1> HIDE DEF from, left, e, steady
<1>7. /\ j2.pc = j.pc /\ j2.buf = j.buf /\ j2.todo = j.todo
      /\ j2.list = j.list /\ j2.steady = steady /\ j2.shared = j.shared
      /\ j2.entry.id = e.id /\ j2.entry.pinned = e.pinned
      /\ j2.entry.from = from
      /\ \A x \in Calls : x # c => job'[x] = job[x]
  BY <1>3, <1>4, <1>6 DEF Fields, e
<1>8. CallTypes(j2)
  BY <1>3, <1>5, <1>7 DEF CallTypes
<1>9. ASSUME ~j2.shared PROVE Progress(j2, p, E, gen)
  <2>1. /\ Progress(j, p, E, gen) /\ j.pc = "entry" /\ j2.pc = "entry"
        /\ j2.buf = j.buf /\ j2.list = j.list /\ j2.steady \subseteq j.steady
        /\ j2.entry.id = j.entry.id /\ j2.entry.pinned = j.entry.pinned
        /\ (j.entry.id \in j2.steady => j2.entry.from # {})
    BY <1>1, <1>3, <1>5, <1>7, <1>9 DEF e
  <2> HIDE DEF j, j2, p, E
  <2>2. QED
    BY <2>1, ProgressRead
<1>10. QED
  BY <1>1, <1>7, <1>8, <1>9, ListerStep DEF Listers

(* AddKernelEntry puts what has been read behind the list.                 *)
LEMMA AddKernelEntryListing ==
  ASSUME ControlTypes, Sections, ListingInv, NEW c \in Calls, AddKernelEntry(c)
  PROVE  ListingInv'
<1> DEFINE p == position[DirOfCall(c)]
           E == EntriesOf(DirOfCall(c))
           j == job[c]
           j2 == job'[c]
           e == [id |-> j.entry.id, from |-> j.entry.from]
<1>1. /\ j.pc = "entry" /\ j.entry.left = {}
      /\ UNCHANGED <<position, present, gen>>
  BY DEF AddKernelEntry, At, kernelDirs
<1>3. /\ CallTypes(j) /\ JobTypes(j) /\ DOMAIN j = Fields /\ DOMAIN job = Calls
      /\ p \in Nat /\ E \in SUBSET Nat
      /\ ~j.shared => Progress(j, p, E, gen)
  BY <1>1, ListerFacts DEF Listers
<1>4. e \in Listed /\ e.id = j.entry.id /\ e.from = j.entry.from
  BY <1>3 DEF JobTypes, Entries, Listed
<1>6. job' = [job EXCEPT ![c].pc = "readdir", ![c].list = Append(@, e),
                         ![c].entry = NoEntry]
  BY DEF AddKernelEntry
<1> HIDE DEF e
<1>7. /\ j2.pc = "readdir" /\ j2.buf = j.buf /\ j2.todo = j.todo
      /\ j2.list = Append(j.list, e)
      /\ j2.steady = j.steady /\ j2.shared = j.shared
      /\ \A x \in Calls : x # c => job'[x] = job[x]
  BY <1>3, <1>6 DEF Fields
<1>8. CallTypes(j2)
  BY <1>3, <1>7 DEF CallTypes
<1>9. ASSUME ~j2.shared PROVE Progress(j2, p, E, gen)
  <2>1. Progress(j, p, E, gen)
    BY <1>3, <1>7, <1>9
  <2>2. /\ e.id <= p /\ Precedes(j.list, e.id)
        /\ \A i \in j2.buf : i \in j.buf /\ e.id < i
        /\ (e.id \in j.steady => e.from # {})
        /\ \A s \in j.steady : s <= p => s \in j2.buf \/ s = e.id \/ Has(j.list, s)
    BY <1>1, <1>4, <1>7, <2>1 DEF Progress
  <2>3. j2.pc = "readdir" /\ j2.list = Append(j.list, e) /\ j2.steady = j.steady
        /\ JobTypes(j)
    BY <1>3, <1>7
  <2> HIDE DEF j, j2, p, E
  <2>4. QED
    BY <1>3, <1>4, <2>1, <2>2, <2>3, ProgressAdded
<1>10. QED
  BY <1>1, <1>7, <1>8, <1>9, ListerStep DEF Listers

(* ReadSuspendStat puts the least of the buffer behind the list.           *)
LEMMA ReadSuspendStatListing ==
  ASSUME ControlTypes, ListingInv, NEW c \in Calls, NEW i \in StatFiles,
         ReadSuspendStat(c, i)
  PROVE  ListingInv'
<1> DEFINE p == position[DirOfCall(c)]
           E == EntriesOf(DirOfCall(c))
           j == job[c]
           j2 == job'[c]
           e == [id |-> i, from |-> {suspends}]
<1>1. /\ j.pc = "readdir" /\ i \in j.buf /\ \A x \in j.buf : i <= x
      /\ UNCHANGED <<position, present, gen>>
  BY DEF ReadSuspendStat, Reading, At, IsNext, kernelDirs
<1>3. /\ CallTypes(j) /\ JobTypes(j) /\ DOMAIN j = Fields /\ DOMAIN job = Calls
      /\ p \in Nat /\ E \in SUBSET Nat
      /\ ~j.shared => Progress(j, p, E, gen)
  BY <1>1, ListerFacts DEF Listers
<1>4. e \in Listed /\ e.id = i /\ e.from # {} /\ i \in Nat
  BY ControlAssumption DEF ControlTypes, Listed
<1>6. job' = [job EXCEPT ![c].buf = @ \ {i}, ![c].list = Append(@, e)]
  BY DEF ReadSuspendStat
<1> HIDE DEF e
<1>7. /\ j2.pc = "readdir" /\ j2.buf = j.buf \ {i} /\ j2.todo = j.todo
      /\ j2.list = Append(j.list, e)
      /\ j2.steady = j.steady /\ j2.shared = j.shared
      /\ \A x \in Calls : x # c => job'[x] = job[x]
  BY <1>1, <1>3, <1>6 DEF Fields
<1>8. CallTypes(j2)
  BY <1>3, <1>7 DEF CallTypes
<1>9. ASSUME ~j2.shared PROVE Progress(j2, p, E, gen)
  <2>1. Progress(j, p, E, gen)
    BY <1>3, <1>7, <1>9
  <2>2. /\ e.id <= p /\ Precedes(j.list, e.id)
        /\ (e.id \in j.steady => e.from # {})
        /\ \A s \in j.steady : s <= p => s \in j2.buf \/ s = e.id \/ Has(j.list, s)
    BY <1>1, <1>4, <1>7, <2>1 DEF Progress
  <2>3. \A x \in j2.buf : x \in j.buf /\ e.id < x
    <3> SUFFICES ASSUME NEW x \in j2.buf PROVE x \in j.buf /\ i < x
      BY <1>4
    <3>1. x \in j.buf /\ x # i /\ i <= x /\ x \in Nat
      BY <1>1, <1>3, <1>7 DEF CallTypes
    <3>2. QED
      BY <1>4, <3>1
  <2>4. j2.pc = "readdir" /\ j2.list = Append(j.list, e) /\ j2.steady = j.steady
        /\ JobTypes(j)
    BY <1>3, <1>7
  <2> HIDE DEF j, j2, p, E
  <2>5. QED
    BY <1>3, <1>4, <2>1, <2>2, <2>3, <2>4, ProgressAdded
<1>10. QED
  BY <1>1, <1>7, <1>8, <1>9, ListerStep DEF Listers

(* AcquireStatsLock goes on to reading.                                    *)
LEMMA AcquireStatsLockListing ==
  ASSUME ControlTypes, ListingInv, NEW c \in Calls, NEW ok \in BOOLEAN,
         AcquireStatsLock(c, ok)
  PROVE  ListingInv'
<1> DEFINE p == position[DirOfCall(c)]
           E == EntriesOf(DirOfCall(c))
           j == job[c]
           j2 == job'[c]
<1>1. j.pc = "checkService" /\ UNCHANGED <<position, present, gen>>
  BY DEF AcquireStatsLock, At, kernelDirs
<1>2. /\ CallTypes(j) /\ DOMAIN j = Fields /\ DOMAIN job = Calls
      /\ ~j.shared => Progress(j, p, E, gen)
  BY <1>1, ListerFacts DEF Listers
<1>3. /\ j2.pc = "readdir" /\ SameEntries(j, j2) /\ j2.todo = j.todo
      /\ j2.steady = j.steady /\ j2.shared = j.shared
      /\ \A x \in Calls : x # c => job'[x] = job[x]
  BY <1>2 DEF AcquireStatsLock, SameEntries, Fields
<1>4. CallTypes(j2)
  BY <1>2, <1>3 DEF CallTypes, SameEntries
<1>5. ASSUME ~j2.shared PROVE Progress(j2, p, E, gen)
  <2>1. /\ Progress(j, p, E, gen) /\ SameEntries(j, j2)
        /\ j2.pc = "readdir" /\ j.pc = "checkService" /\ j2.steady = j.steady
    BY <1>1, <1>2, <1>3, <1>5
  <2> HIDE DEF j, j2, p, E
  <2>2. j2.steady \subseteq E
    BY <2>1 DEF Progress
  <2>3. QED
    BY <2>1, <2>2 DEF Progress, SameEntries
<1>6. QED
  BY <1>1, <1>3, <1>4, <1>5, ListerStep DEF Listers

(* A wakeup source that vanishes is no longer one that was there all the   *)
(* time.                                                                   *)
LEMMA SourceVanishesListing ==
  ASSUME ControlTypes, ListingInv, NEW i \in WakeupIds, SourceVanishes(i)
  PROVE  ListingInv'
<1>1. /\ UNCHANGED <<position, gen>> /\ present' = present \ {i}
      /\ job' = [c \in Calls |-> IF Lists(c, Wakeup)
                                 THEN [job[c] EXCEPT !.steady = @ \ {i}]
                                 ELSE job[c]]
  BY DEF SourceVanishes
<1>2. ASSUME NEW x \in Calls PROVE Listing(x)' /\ CallTypes(job'[x])
  <2>1. Listing(x) /\ CallTypes(job[x]) /\ DOMAIN job[x] = Fields
        /\ DirOfCall(x) \in Dirs
    BY DirFacts DEF ListingInv, ListingTypes, ControlTypes
  <2>2. job'[x] = IF Lists(x, Wakeup) THEN [job[x] EXCEPT !.steady = @ \ {i}]
                  ELSE job[x]
    BY <1>1
  <2>3. /\ SameEntries(job[x], job'[x]) /\ job'[x].pc = job[x].pc
        /\ job'[x].todo = job[x].todo /\ job'[x].shared = job[x].shared
        /\ job'[x].steady = IF Lists(x, Wakeup) THEN job[x].steady \ {i}
                            ELSE job[x].steady
    BY <2>1, <2>2 DEF SameEntries, Fields
  <2>4. DirOfCall(x)' = DirOfCall(x)
    BY <2>3 DEF DirOfCall
  <2>5. ASSUME ~job[x].shared, job[x].pc \in Listers
        PROVE  job'[x].steady \subseteq EntriesOf(DirOfCall(x))'
    <3>1. job[x].steady \subseteq EntriesOf(DirOfCall(x))
      BY <2>1, <2>5 DEF Listing, Progress
    <3>2. Lists(x, Wakeup) <=> DirOfCall(x) = Wakeup
      BY <2>5 DEF Lists, Listers, DirOfCall
    <3>3. QED
      BY <1>1, <2>3, <2>4, <3>1, <3>2 DEF EntriesOf
  <2>6. Undisturbed(x)
    BY <1>1, <2>3, <2>5 DEF Undisturbed
  <2>7. QED
    BY <2>1, <2>6, UndisturbedListing
<1>3. ListingTypes'
  BY <1>1, <1>2 DEF ListingInv, ListingTypes
<1>4. QED
  BY <1>2, <1>3 DEF ListingInv

(* A new wakeup source was not there before.                               *)
LEMMA SourceAppearsListing ==
  ASSUME ControlTypes, Sections, ListingInv, NEW i \in WakeupIds,
         SourceAppears(i)
  PROVE  ListingInv'
<1>1. /\ UNCHANGED <<position, job>> /\ present' = present \cup {i}
      /\ i \notin present /\ gen' = [gen EXCEPT ![i] = @ + 1]
  BY DEF SourceAppears
<1>2. \A k \in WakeupIds : gen'[k] # 0 /\ (k # i => gen'[k] = gen[k])
  BY <1>1 DEF ControlTypes, ListingInv, ListingTypes
<1>3. ASSUME NEW x \in Calls PROVE Listing(x)' /\ CallTypes(job'[x])
  <2>1. Listing(x) /\ CallTypes(job[x])
    BY DEF ListingInv, ListingTypes
  <2>2. DirOfCall(x)' = DirOfCall(x)
    BY <1>1 DEF DirOfCall
  <2>3. EntriesOf(DirOfCall(x)) \subseteq EntriesOf(DirOfCall(x))'
    BY <1>1, <2>2 DEF EntriesOf
  <2>4. ASSUME ~job[x].shared, job[x].pc \in Listers
        PROVE  job[x].steady \subseteq EntriesOf(DirOfCall(x))
    BY <2>1, <2>4 DEF Listing, Progress
  <2>5. ASSUME ~job[x].shared, job[x].pc = "entry", NEW s \in job[x].steady
        PROVE  gen'[s] = gen[s]
    <3>1. EntriesOf(DirOfCall(x)) = present
      BY <2>5 DEF Sections, At, EntriesOf, DirOfCall, DirOf
    <3>2. s \in present
      BY <2>4, <2>5, <3>1 DEF Listers
    <3>3. QED
      BY <1>1, <1>2, <3>2 DEF ListingInv, ListingTypes
  <2>6. Undisturbed(x)
    BY <1>1, <2>3, <2>4, <2>5 DEF Undisturbed, SameEntries
  <2>7. QED
    BY <2>1, <2>6, UndisturbedListing
<1>4. ListingTypes'
  BY <1>1, <1>2, <1>3 DEF ListingInv, ListingTypes
<1>5. QED
  BY <1>3, <1>4 DEF ListingInv

(* A forced suspend is noted by the others and changes nothing they list.  *)
LEMMA ForceSuspendListing ==
  ASSUME ControlTypes, ListingInv, NEW c \in Calls, ForceSuspend(c)
  PROVE  ListingInv'
<1>1. /\ UNCHANGED <<position, present, gen>>
      /\ job'[c] = NextSection(c)
      /\ \A x \in Calls : x # c => job'[x] = [job[x] EXCEPT !.forced = TRUE]
  BY DEF ForceSuspend, kernelDirs
<1>2. ASSUME NEW x \in Calls, x # c PROVE Listing(x)' /\ CallTypes(job'[x])
  <2>1. Listing(x) /\ CallTypes(job[x]) /\ DOMAIN job[x] = Fields
    BY DEF ListingInv, ListingTypes, ControlTypes
  <2>2. /\ SameEntries(job[x], job'[x]) /\ job'[x].pc = job[x].pc
        /\ job'[x].todo = job[x].todo /\ job'[x].shared = job[x].shared
        /\ job'[x].steady = job[x].steady
    BY <1>1, <1>2, <2>1 DEF SameEntries, Fields
  <2>3. EntriesOf(DirOfCall(x))' = EntriesOf(DirOfCall(x))
    BY <1>1, <2>2 DEF EntriesOf, DirOfCall
  <2>4. ASSUME ~job[x].shared, job[x].pc \in Listers
        PROVE  job[x].steady \subseteq EntriesOf(DirOfCall(x))
    BY <2>1, <2>4 DEF Listing, Progress
  <2>5. Undisturbed(x)
    BY <1>1, <2>2, <2>3, <2>4 DEF Undisturbed
  <2>6. QED
    BY <2>1, <2>5, UndisturbedListing
<1>3. ListsNothing(job'[c])
  BY <1>1, NextSectionListsNothing
<1>4. Listing(c)' /\ CallTypes(job'[c])
  BY <1>3 DEF Listing, ListsNothing, Listers, CallTypes
<1>5. \A x \in Calls : Listing(x)' /\ CallTypes(job'[x])
  BY <1>2, <1>4
<1>6. ListingTypes'
  BY <1>1, <1>5 DEF ListingInv, ListingTypes
<1>7. QED
  BY <1>5, <1>6 DEF ListingInv

(* CopyNativeEntries lists nothing yet.                                    *)
LEMMA CopyNativeEntriesListing ==
  ASSUME ControlTypes, ListingInv, NEW c \in Calls, CopyNativeEntries(c)
  PROVE  ListingInv'
<1>1. /\ UNCHANGED <<position, present, gen>> /\ job[c].pc = "section"
      /\ job' = [job EXCEPT ![c].pc = "copied"]
  BY DEF CopyNativeEntries, kernelDirs, Doing, At
<1>2. CallTypes(job[c]) /\ DOMAIN job[c] = Fields /\ DOMAIN job = Calls
  BY DEF ListingInv, ListingTypes, ControlTypes
<1>3. /\ job'[c].pc = "copied" /\ job'[c].list = job[c].list
      /\ job'[c].buf = job[c].buf /\ job'[c].steady = job[c].steady
      /\ \A x \in Calls : x # c => job'[x] = job[x]
  BY <1>1, <1>2 DEF Fields
<1>4. CallTypes(job'[c]) /\ Listing(c)'
  BY <1>1, <1>2, <1>3 DEF CallTypes, Listing, Listers
<1>5. QED
  BY <1>1, <1>3, <1>4, OneCallStep

(* A call that goes on to a section, or returns.                           *)
LEMMA SectionListing ==
  ASSUME ControlTypes, ListingInv, NEW c \in Calls,
         UNCHANGED <<position, present, gen>>,
         NEW j, ListsNothing(j), job' = [job EXCEPT ![c] = j]
  PROVE  ListingInv'
<1>1. job'[c] = j /\ \A x \in Calls : x # c => job'[x] = job[x]
  BY DEF ControlTypes
<1>2. QED
  BY <1>1, NothingStep

(* Nobody does anything.                                                   *)
LEMMA QuietListing ==
  ASSUME ListingInv, UNCHANGED <<position, present, gen, job>>
  PROVE  ListingInv'
<1>1. \A x \in Calls : Listing(x)' /\ CallTypes(job'[x])
  BY IdleListing
<1>2. ListingTypes'
  BY <1>1 DEF ListingInv, ListingTypes
<1>3. QED
  BY <1>1, <1>2 DEF ListingInv

(* Every step keeps the listings in progress right.                        *)
LEMMA ListingStep ==
  ControlTypes /\ Sections /\ ListingInv /\ [Next]_vars => ListingInv'
<1> SUFFICES ASSUME ControlTypes, Sections, ListingInv, [Next]_vars
             PROVE  ListingInv'
  OBVIOUS
<1>1. CASE MainStep \/ Autosuspend \/ UNCHANGED vars
  <2>1. UNCHANGED <<position, present, gen, job>>
    BY <1>1 DEF MainStep, OpenFiles, SetSuspendService, TakeReference,
                RegisterHidl, RegisterControlServices, RegisterAidl,
                Autosuspend, vars, kernelDirs
  <2>2. QED
    BY <2>1, QuietListing
<1>2. ASSUME NEW c \in Calls, NEW todo \in Requests, Promote(c, todo)
      PROVE  ListingInv'
  <2>1. UNCHANGED <<position, present, gen>>
    BY <1>2 DEF Promote, kernelDirs
  <2>2. CASE object = "alive"
    <3> DEFINE j == [NoJob EXCEPT !.pc = "section", !.todo = todo]
    <3>1. job' = [job EXCEPT ![c] = j]
      BY <1>2, <2>2 DEF Promote
    <3>2. ListsNothing(j)
      BY DEF ListsNothing, NoJob
    <3> HIDE DEF j
    <3>3. QED
      BY <2>1, <3>1, <3>2, SectionListing
  <2>3. CASE object # "alive"
    <3>1. UNCHANGED job
      BY <1>2, <2>3 DEF Promote
    <3>2. QED
      BY <2>1, <3>1, QuietListing
  <2>4. QED
    BY <2>2, <2>3
<1>3. ASSUME NEW c \in Calls, Return(c) PROVE ListingInv'
  <2>1. UNCHANGED <<position, present, gen>> /\ job' = [job EXCEPT ![c] = NoJob]
    BY <1>3 DEF Return, kernelDirs
  <2>2. ListsNothing(NoJob)
    BY DEF ListsNothing, NoJob
  <2>3. QED
    BY <2>1, <2>2, SectionListing
<1>4. ASSUME NEW c \in Calls,
             \/ EnableAutosuspend(c) \/ CopyWakeups(c) \/ CopySuspendInfo(c)
             \/ ReturnWakeLocks(c) \/ ReturnSuspendStats(c)
      PROVE  ListingInv'
  <2>1. /\ UNCHANGED <<position, present, gen>>
        /\ job' = [job EXCEPT ![c] = NextSection(c)]
    BY <1>4 DEF EnableAutosuspend, CopyWakeups, CopySuspendInfo,
                ReturnWakeLocks, ReturnSuspendStats, kernelDirs
  <2>2. QED
    BY <2>1, NextSectionListsNothing, SectionListing
<1>5. ASSUME NEW c \in Calls, SuspendStatFails(c) PROVE ListingInv'
  <2> DEFINE j == [NoJob EXCEPT !.pc = "section"]
  <2>1. UNCHANGED <<position, present, gen>> /\ job' = [job EXCEPT ![c] = j]
    BY <1>5 DEF SuspendStatFails, kernelDirs
  <2>2. ListsNothing(j)
    BY DEF ListsNothing, NoJob
  <2> HIDE DEF j
  <2>3. QED
    BY <2>1, <2>2, SectionListing
<1>6. ASSUME NEW c \in Calls, CallStep(c) PROVE ListingInv'
  BY <1>2, <1>3, <1>4, <1>5, <1>6, ForceSuspendListing,
     CopyNativeEntriesListing, OpenDirListing, GetdentsListing,
     OpenSourceListing, ReadSourceStatListing, AddKernelEntryListing,
     AcquireStatsLockListing, ReadSuspendStatListing DEF CallStep
<1>7. QED
  BY <1>1, <1>6, SourceVanishesListing, SourceAppearsListing
  DEF Next, KernelStep

(* No listing is under way before main has done anything.                  *)
LEMMA InitListing == Init => ListingInv
<1> SUFFICES ASSUME Init PROVE ListingInv
  OBVIOUS
<1>1. \A c \in Calls : ListsNothing(job[c])
  BY DEF Init, NoJob, ListsNothing
<1>2. \A c \in Calls : Listing(c) /\ CallTypes(job[c])
  BY <1>1 DEF Listing, ListsNothing, Listers, CallTypes
<1>3. QED
  BY <1>2 DEF Init, ListingInv, ListingTypes

(* What a listing knows holds in every state, however many other calls     *)
(* list, and wakeup sources come and go, meanwhile                         *)
(* (WakeLockEntryList.cpp:306-323, SystemSuspend.cpp:513-546).             *)
THEOREM ListingInvariance == Spec => []ListingInv
<1>1. ControlInv /\ ListingInv /\ [Next]_vars => ListingInv'
  BY ListingStep DEF ControlInv
<1>2. QED
  BY <1>1, InitListing, ControlInvariance, PTL DEF Spec

(* An undisturbed listing has every entry that was there all the time,     *)
(* with stats of its own, and none twice, for directories and buffers of   *)
(* any size (WakeLockEntryList.cpp:306-323, SystemSuspend.cpp:513-546).    *)
THEOREM ListingsAreComplete == Spec => []ListingComplete
<1>1. ListingInv => ListingComplete
  BY DEF ListingInv, Listing, Complete, Has, ListingComplete, At
<1>2. QED
  BY <1>1, ListingInvariance, PTL
==============================================================================
