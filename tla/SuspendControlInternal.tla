----------------------- MODULE SuspendControlInternal ------------------------
(***************************************************************************)
(* The start of the service (main.cpp) and the calls that                  *)
(* SuspendControlServiceInternal serves meanwhile and afterwards: the      *)
(* getters and dump (SuspendControlService.cpp), which read the kernel's   *)
(* wake locks from /sys/class/wakeup (WakeLockEntryList.cpp) and its       *)
(* statistics from /sys/power/suspend_stats (SystemSuspend.cpp).           *)
(*                                                                         *)
(* A call promotes the weak reference mSuspend, works through a list of    *)
(* sections, and drops its reference.  Both directories are listed through *)
(* a dup of one descriptor, so all calls share the position in it: readdir *)
(* fills the buffer of its own DIR from there.  Entries of a directory are *)
(* numbered in the order in which they are listed.                         *)
(*                                                                         *)
(* Of the statistics only where they come from is kept: for a kernel wake  *)
(* lock which of the wakeup sources that have had its name, for            *)
(* suspend_stats after how many attempts to suspend.                       *)
(***************************************************************************)
EXTENDS Integers, Sequences, FiniteSets

CONSTANTS
  Calls,              \* binder threads that serve the calls
  Main,               \* the main thread
  Options,            \* the options dump is called with
  WakeupIds,          \* the names in /sys/class/wakeup
  StatFiles,          \* the files of /sys/power/suspend_stats
  SourceFiles,        \* the files in the directory of a wakeup source
  Chunk,              \* directory entries that fit in the buffer of a DIR
  MaxCalls, MaxChanges, MaxSuspends   \* bounds on a behaviour

ASSUME ControlAssumption ==
  /\ Main \notin Calls
  /\ WakeupIds \subseteq Nat \ {0} /\ StatFiles \subseteq Nat \ {0}
  /\ Chunk \in Nat \ {0}
  /\ \A args \in Options : args \in Seq(STRING)
  /\ MaxCalls \in Nat /\ MaxChanges \in Nat /\ MaxSuspends \in Nat

VARIABLES
  phase,              \* how far main is
  dirFd,              \* whether main could open each of the two directories
  object,             \* SystemSuspend: none, alive, destroyed
  strong,             \* who has a strong reference to it
  enabled,            \* mAutosuspendEnabled
  statsLocks,         \* the calls that hold a "suspend_stats_lock"
  position,           \* the shared position in each directory
  present, gen,       \* wakeup sources there are, and the last of each name
  suspends,           \* attempts the kernel has counted in suspend_stats
  job,                \* what each call is doing
  early,              \* for the properties: a call promoted mSuspend before
                      \*   main had a reference;
  calls, changes      \* and counters for the bounds

mainVars == <<phase, dirFd>>
objectVars == <<object, strong, early>>
kernelDirs == <<position, present, gen, changes>>
vars == <<mainVars, objectVars, enabled, statsLocks, kernelDirs, suspends, job,
          calls>>

Wakeup == "/sys/class/wakeup"
SuspendStats == "/sys/power/suspend_stats"
Dirs == {Wakeup, SuspendStats}

NoEntry == [id |-> 0, pinned |-> 0, left |-> {}, from |-> {}]

(* A call: where it is, the sections it has still to do, the DIR it lists, *)
(* its buffer, the entries so far and the one being read; for the          *)
(* properties, the entries that were there, and could be read, all the     *)
(* time, and whether another listing, or a forced suspend, came between,   *)
(* or the wake lock could not be taken.                                    *)
NoJob == [pc |-> "idle", todo |-> <<>>, buf |-> {}, list |-> <<>>,
          entry |-> NoEntry, steady |-> {}, shared |-> FALSE,
          forced |-> FALSE, unlocked |-> FALSE]

At(c, p) == job[c].pc = p
Doing(c, s) == At(c, "section") /\ job[c].todo # <<>> /\ Head(job[c].todo) = s
Reading(c, s) == At(c, "readdir") /\ Head(job[c].todo) = s

Init ==
  /\ phase = "start"
  /\ dirFd = [d \in Dirs |-> FALSE]
  /\ object = "none" /\ strong = {} /\ early = FALSE
  /\ enabled = FALSE
  /\ statsLocks = {}
  /\ position = [d \in Dirs |-> 0]
  /\ present = WakeupIds /\ gen = [i \in WakeupIds |-> 1]
  /\ suspends = 0
  /\ job = [c \in Calls |-> NoJob]
  /\ calls = 0 /\ changes = 0

------------------------------------------------------------------------------
(* main.                                                                   *)

(* Each file may fail to open; the service goes on without it.             *)
OpenFiles ==
  /\ phase = "start"
  /\ dirFd' \in [Dirs -> BOOLEAN]
  /\ phase' = "opened"
  /\ UNCHANGED <<objectVars, enabled, statsLocks, kernelDirs, suspends, job,
                 calls>>

(* Both control services are registered, and binder threads started, or    *)
(* the process aborts.                                                     *)
RegisterControlServices(ok) ==
  /\ phase = "opened"
  /\ phase' = IF ok THEN "serving" ELSE "aborted"
  /\ UNCHANGED <<dirFd, objectVars, enabled, statsLocks, kernelDirs, suspends,
                 job, calls>>

(* The constructor of SystemSuspend hands a weak reference to itself to    *)
(* the control service ...                                                 *)
SetSuspendService ==
  /\ phase = "serving"
  /\ phase' = "constructing"
  /\ object' = "alive"
  /\ UNCHANGED <<dirFd, strong, early, enabled, statsLocks, kernelDirs,
                 suspends, job, calls>>

(* Mutant: main keeps only a pointer.                                      *)
KeepPointer ==
  /\ phase = "constructing"
  /\ phase' = "constructed"
  /\ UNCHANGED <<dirFd, objectVars, enabled, statsLocks, kernelDirs, suspends,
                 job, calls>>

(* ... and main has its strong reference after it has returned.            *)
TakeReference ==
  /\ phase = "constructing"
  /\ phase' = "constructed"
  /\ strong' = strong \cup {Main}
  /\ UNCHANGED <<dirFd, object, early, enabled, statsLocks, kernelDirs,
                 suspends, job, calls>>

RegisterAidl(ok) ==
  /\ phase = "constructed"
  /\ phase' = IF ok THEN "aidl" ELSE "aborted"
  /\ UNCHANGED <<dirFd, objectVars, enabled, statsLocks, kernelDirs, suspends,
                 job, calls>>

(* Whether the HIDL service can be registered does not matter; main joins  *)
(* the thread pool and never returns.                                      *)
RegisterHidl ==
  /\ phase = "aidl"
  /\ phase' = "joined"
  /\ UNCHANGED <<dirFd, objectVars, enabled, statsLocks, kernelDirs, suspends,
                 job, calls>>

AidlRegistered == phase \in {"aidl", "joined"}
Serving == phase \notin {"start", "opened", "aborted"}

------------------------------------------------------------------------------
(* Calls.                                                                  *)

AllSections == <<"wakelocks", "wakeups", "kernel_suspends", "suspend_controls">>
DumpUsage == <<>>

(* The sections dump prints for the options given: its usage and nothing   *)
(* else if it meets --help, everything without options or with --all, else *)
(* the sections named; an option it does not know names none.              *)
Dump(args) ==
  LET has(o) == \E i \in DOMAIN args : args[i] = o
  IN  IF has("help") THEN DumpUsage
      ELSE IF args = <<>> \/ has("all") THEN AllSections
      ELSE SelectSeq(AllSections, has)

(* The methods of the interface, as what they do of that and besides.      *)
GetSuspendStats == <<"suspend_controls">>
GetWakeLockStats == <<"wakelocks">>
GetWakeupStats == <<"wakeups">>

Requests == {GetSuspendStats, GetWakeLockStats, GetWakeupStats, <<"enable">>,
             <<"force">>} \cup {Dump(args) : args \in Options}

(* mSuspend.promote() succeeds if the object has a strong reference, or    *)
(* never had one; else the call returns false, an exception, DEAD_OBJECT.  *)
Promote(c, todo) ==
  /\ Serving /\ At(c, "idle") /\ calls < MaxCalls
  /\ calls' = calls + 1
  /\ IF object = "alive"
     THEN /\ strong' = strong \cup {c}
          /\ early' = (early \/ phase = "constructing")
          /\ job' = [job EXCEPT ![c] = [NoJob EXCEPT !.pc = "section",
                                                     !.todo = todo]]
     ELSE UNCHANGED <<strong, early, job>>
  /\ UNCHANGED <<mainVars, object, enabled, statsLocks, kernelDirs, suspends>>

(* The reference is dropped at the end of the method, and the object       *)
(* destroyed with the last one.                                            *)
Return(c) ==
  /\ At(c, "section") /\ job[c].todo = <<>>
  /\ strong' = strong \ {c}
  /\ object' = IF strong' = {} THEN "destroyed" ELSE object
  /\ job' = [job EXCEPT ![c] = NoJob]
  /\ UNCHANGED <<mainVars, early, enabled, statsLocks, kernelDirs, suspends,
                 calls>>

NextSection(c) == [NoJob EXCEPT !.pc = "section", !.todo = Tail(job[c].todo)]

EnableAutosuspend(c) ==
  /\ Doing(c, "enable")
  /\ enabled' = TRUE
  /\ job' = [job EXCEPT ![c] = NextSection(c)]
  /\ UNCHANGED <<mainVars, objectVars, statsLocks, kernelDirs, suspends, calls>>

(* forceSuspend asks nobody's leave.                                       *)
ForceSuspend(c) ==
  /\ Doing(c, "force") /\ suspends < MaxSuspends
  /\ suspends' = suspends + 1
  /\ job' = [x \in Calls |-> IF x = c THEN NextSection(c)
                             ELSE [job[x] EXCEPT !.forced = TRUE]]
  /\ UNCHANGED <<mainVars, objectVars, enabled, statsLocks, kernelDirs, calls>>

(* getWakeupStats and getSuspendInfo copy under a mutex.                   *)
CopyWakeups(c) ==
  /\ Doing(c, "wakeups")
  /\ job' = [job EXCEPT ![c] = NextSection(c)]
  /\ UNCHANGED <<mainVars, objectVars, enabled, statsLocks, kernelDirs,
                 suspends, calls>>

CopySuspendInfo(c) ==
  /\ Doing(c, "suspend_controls")
  /\ job' = [job EXCEPT ![c] = NextSection(c)]
  /\ UNCHANGED <<mainVars, objectVars, enabled, statsLocks, kernelDirs,
                 suspends, calls>>

(* updateStatsNow, and the native entries are copied: the state of         *)
(* WakeLockEntryList.                                                      *)
CopyNativeEntries(c) ==
  /\ Doing(c, "wakelocks")
  /\ job' = [job EXCEPT ![c].pc = "copied"]
  /\ UNCHANGED <<mainVars, objectVars, enabled, statsLocks, kernelDirs,
                 suspends, calls>>

------------------------------------------------------------------------------
(* Listing a directory.                                                    *)

DirOf(s) == IF s = "wakelocks" THEN Wakeup ELSE SuspendStats
EntriesOf(d) == IF d = Wakeup THEN present ELSE StatFiles
Greatest(S) == CHOOSE x \in S : \A y \in S : x >= y

Lists(c, d) == job[c].pc \in {"checkService", "readdir", "entry"}
                 /\ DirOf(Head(job[c].todo)) = d

(* Job c becomes j, with whom other listings of d have to share.           *)
Sharing(c, d, j) ==
  job' = [x \in Calls |-> IF x = c THEN j
                          ELSE [job[x] EXCEPT !.shared = @ \/ Lists(x, d)]]

ReadyToOpen(c, s) ==
  IF s = "wakelocks" THEN At(c, "copied") ELSE Doing(c, s)

Opened(c, s) == [job[c] EXCEPT
                   !.pc = IF s = "wakelocks" THEN "readdir" ELSE "checkService",
                   !.steady = EntriesOf(DirOf(s))]

(* Mutant: the directory is not rewound.                                   *)
OpenOnly(c, s) ==
  /\ ReadyToOpen(c, s)
  /\ IF dirFd[DirOf(s)] THEN Sharing(c, DirOf(s), Opened(c, s))
     ELSE job' = [job EXCEPT ![c] = NextSection(c)]
  /\ UNCHANGED <<mainVars, objectVars, enabled, statsLocks, kernelDirs,
                 suspends, calls>>

(* fdopendir(dup(fd)) and rewinddir.  Without the directory there is       *)
(* nothing to list.                                                        *)
OpenDir(c, s) ==
  /\ ReadyToOpen(c, s)
  /\ IF dirFd[DirOf(s)]
     THEN /\ position' = [position EXCEPT ![DirOf(s)] = 0]
          /\ Sharing(c, DirOf(s), Opened(c, s))
     ELSE /\ job' = [job EXCEPT ![c] = NextSection(c)]
          /\ UNCHANGED position
  /\ UNCHANGED <<mainVars, objectVars, enabled, statsLocks, present, gen,
                 changes, suspends, calls>>

(* readdir with an empty buffer: the entries after the position.           *)
Getdents(c) ==
  LET d == DirOf(Head(job[c].todo))
      after == {i \in EntriesOf(d) : i > position[d]}
      buf == {i \in after : Cardinality({x \in after : x <= i}) <= Chunk}
  IN  /\ At(c, "readdir") /\ job[c].buf = {}
      /\ IF buf = {}
         THEN /\ job' = [job EXCEPT ![c].pc = "listed"]
              /\ UNCHANGED position
         ELSE /\ position' = [position EXCEPT ![d] = Greatest(buf)]
              /\ Sharing(c, d, [job[c] EXCEPT !.buf = buf])
      /\ UNCHANGED <<mainVars, objectVars, enabled, statsLocks, present, gen,
                     changes, suspends, calls>>

(* readdir returns i from its buffer.                                      *)
IsNext(c, i) == i \in job[c].buf /\ \A x \in job[c].buf : i <= x

IsStatFile(f) == f \notin {".", "..", "device", "power", "subsystem", "uevent"}
StatsOfSource == {f \in SourceFiles : IsStatFile(f)}

(* The kernel gives a wakeup source some statistic.                        *)
ASSUME SourceAssumption == StatsOfSource # {}

(* A failure to read what is there counts as a change of it.               *)
CountIf(fails) ==
  /\ fails => changes < MaxChanges
  /\ changes' = IF fails THEN changes + 1 ELSE changes

(* createKernelEntry opens the directory of the source; whether it is gone *)
(* or cannot be opened, there is nothing to read.                          *)
OpenSource(c, i, opens) ==
  /\ Reading(c, "wakelocks") /\ IsNext(c, i)
  /\ opens => i \in present
  /\ CountIf(i \in present /\ ~opens)
  /\ job' = [job EXCEPT
               ![c].pc = "entry",
               ![c].buf = @ \ {i},
               ![c].steady = IF opens THEN @ ELSE @ \ {i},
               ![c].entry = [id |-> i, pinned |-> IF opens THEN gen[i] ELSE 0,
                             left |-> IF opens THEN StatsOfSource ELSE {},
                             from |-> {}]]
  /\ UNCHANGED <<mainVars, objectVars, enabled, statsLocks, position, present,
                 gen, suspends, calls>>

(* Mutant: a stat is opened by its path.                                   *)
ReadByPath(c, f, reads) ==
  LET e == job[c].entry
  IN  /\ At(c, "entry") /\ f \in e.left
      /\ reads => e.id \in present
      /\ CountIf(e.id \in present /\ ~reads)
      /\ job' = [job EXCEPT
                   ![c].steady = IF reads THEN @ ELSE @ \ {e.id},
                   ![c].entry.left = @ \ {f},
                   ![c].entry.from = IF reads THEN @ \cup {gen[e.id]} ELSE @]
      /\ UNCHANGED <<mainVars, objectVars, enabled, statsLocks, position,
                     present, gen, suspends, calls>>

(* A stat is opened relative to that directory, and skipped if the source  *)
(* is gone, or the stat cannot be opened, read or parsed.                  *)
ReadSourceStat(c, f, reads) ==
  LET e == job[c].entry
      there == e.id \in present /\ gen[e.id] = e.pinned
  IN  /\ At(c, "entry") /\ f \in e.left
      /\ reads => there
      /\ CountIf(there /\ ~reads)
      /\ job' = [job EXCEPT
                   ![c].steady = IF reads THEN @ ELSE @ \ {e.id},
                   ![c].entry.left = @ \ {f},
                   ![c].entry.from = IF reads THEN @ \cup {e.pinned} ELSE @]
      /\ UNCHANGED <<mainVars, objectVars, enabled, statsLocks, position,
                     present, gen, suspends, calls>>

(* The entry is returned, whatever could be read of it.                    *)
AddKernelEntry(c) ==
  LET e == job[c].entry
  IN  /\ At(c, "entry") /\ e.left = {}
      /\ job' = [job EXCEPT
                   ![c].pc = "readdir",
                   ![c].list = Append(@, [id |-> e.id, from |-> e.from]),
                   ![c].entry = NoEntry]
      /\ UNCHANGED <<mainVars, objectVars, enabled, statsLocks, kernelDirs,
                     suspends, calls>>

(* Mutant: the service is looked up and the lock is not taken.             *)
CheckServiceOnly(c, ok) ==
  /\ At(c, "checkService")
  /\ ok => AidlRegistered
  /\ job' = [job EXCEPT ![c].pc = "readdir", ![c].unlocked = ~ok]
  /\ UNCHANGED <<mainVars, objectVars, enabled, statsLocks, kernelDirs,
                 suspends, calls>>

(* acquireWakeLock of the AIDL service, if it is registered.  Whether the  *)
(* lookup and the call have succeeded is not looked at.                    *)
AcquireStatsLock(c, ok) ==
  /\ At(c, "checkService")
  /\ ok => AidlRegistered
  /\ statsLocks' = IF ok THEN statsLocks \cup {c} ELSE statsLocks
  /\ job' = [job EXCEPT ![c].pc = "readdir", ![c].unlocked = ~ok]
  /\ UNCHANGED <<mainVars, objectVars, enabled, kernelDirs, suspends, calls>>

ReadSuspendStat(c, i) ==
  /\ Reading(c, "kernel_suspends") /\ IsNext(c, i)
  /\ job' = [job EXCEPT
               ![c].buf = @ \ {i},
               ![c].list = Append(@, [id |-> i, from |-> {suspends}])]
  /\ UNCHANGED <<mainVars, objectVars, enabled, statsLocks, kernelDirs,
                 suspends, calls>>

(* Mutant: the error path keeps the wake lock.                             *)
FailLocked(c) ==
  /\ Reading(c, "kernel_suspends") /\ job[c].buf # {}
  /\ job' = [job EXCEPT ![c] = [NoJob EXCEPT !.pc = "section"]]
  /\ UNCHANGED <<mainVars, objectVars, enabled, statsLocks, kernelDirs,
                 suspends, calls>>

(* A file cannot be opened or read: getSuspendStats returns an error, and  *)
(* dump returns at once.                                                   *)
SuspendStatFails(c) ==
  /\ Reading(c, "kernel_suspends") /\ job[c].buf # {}
  /\ statsLocks' = statsLocks \ {c}
  /\ job' = [job EXCEPT ![c] = [NoJob EXCEPT !.pc = "section"]]
  /\ UNCHANGED <<mainVars, objectVars, enabled, kernelDirs, suspends, calls>>

(* The wake locks are returned, or printed as a table.                     *)
ReturnWakeLocks(c) ==
  /\ At(c, "listed") /\ Head(job[c].todo) = "wakelocks"
  /\ job' = [job EXCEPT ![c] = NextSection(c)]
  /\ UNCHANGED <<mainVars, objectVars, enabled, statsLocks, kernelDirs,
                 suspends, calls>>

(* The statistics are returned, which ends the wake lock, and printed.     *)
ReturnSuspendStats(c) ==
  /\ At(c, "listed") /\ Head(job[c].todo) = "kernel_suspends"
  /\ statsLocks' = statsLocks \ {c}
  /\ job' = [job EXCEPT ![c] = NextSection(c)]
  /\ UNCHANGED <<mainVars, objectVars, enabled, kernelDirs, suspends, calls>>

------------------------------------------------------------------------------
(* The rest of the service, and the kernel.                                *)

(* What SystemSuspend promises (NoAutosuspendWhileHeld): no attempt is     *)
(* made while a wake lock is held.                                         *)
Autosuspend ==
  /\ enabled /\ object = "alive" /\ statsLocks = {} /\ suspends < MaxSuspends
  /\ suspends' = suspends + 1
  /\ UNCHANGED <<mainVars, objectVars, enabled, statsLocks, kernelDirs, job,
                 calls>>

SourceVanishes(i) ==
  /\ i \in present /\ changes < MaxChanges
  /\ present' = present \ {i}
  /\ changes' = changes + 1
  /\ job' = [c \in Calls |-> IF Lists(c, Wakeup)
                             THEN [job[c] EXCEPT !.steady = @ \ {i}] ELSE job[c]]
  /\ UNCHANGED <<mainVars, objectVars, enabled, statsLocks, position, gen,
                 suspends, calls>>

(* A new wakeup source gets a name that is free.                           *)
SourceAppears(i) ==
  /\ i \in WakeupIds \ present /\ changes < MaxChanges
  /\ present' = present \cup {i}
  /\ gen' = [gen EXCEPT ![i] = @ + 1]
  /\ changes' = changes + 1
  /\ UNCHANGED <<mainVars, objectVars, enabled, statsLocks, position, suspends,
                 job, calls>>

MainStep ==
  \/ OpenFiles \/ SetSuspendService \/ TakeReference \/ RegisterHidl
  \/ \E ok \in BOOLEAN : RegisterControlServices(ok) \/ RegisterAidl(ok)

CallStep(c) ==
  \/ \E todo \in Requests : Promote(c, todo)
  \/ Return(c) \/ EnableAutosuspend(c) \/ ForceSuspend(c)
  \/ CopyWakeups(c) \/ CopySuspendInfo(c) \/ CopyNativeEntries(c)
  \/ \E s \in {"wakelocks", "kernel_suspends"} : OpenDir(c, s)
  \/ Getdents(c)
  \/ \E i \in WakeupIds, opens \in BOOLEAN : OpenSource(c, i, opens)
  \/ \E f \in SourceFiles, reads \in BOOLEAN : ReadSourceStat(c, f, reads)
  \/ AddKernelEntry(c) \/ ReturnWakeLocks(c)
  \/ \E ok \in BOOLEAN : AcquireStatsLock(c, ok)
  \/ \E i \in StatFiles : ReadSuspendStat(c, i)
  \/ SuspendStatFails(c) \/ ReturnSuspendStats(c)

KernelStep ==
  \/ Autosuspend
  \/ \E i \in WakeupIds : SourceVanishes(i) \/ SourceAppears(i)

(* Nothing happens once the process has aborted.                           *)
Next ==
  /\ phase # "aborted"
  /\ MainStep \/ KernelStep \/ \E c \in Calls : CallStep(c)

Spec == Init /\ [][Next]_vars

------------------------------------------------------------------------------
(* The object a call works on is there until the call returns, and the one *)
(* whose address main gives to the AIDL and HIDL services for good, unless *)
(* a call has come while it was being constructed: then the reference of   *)
(* that call is the first, and the object dies with it                     *)
(* (main.cpp:148-164, SystemSuspend.cpp:159,                               *)
(* SuspendControlService.cpp:150-219).                                     *)
ObjectOutlivesUse ==
  /\ \A c \in Calls : ~At(c, "idle") => object = "alive"
  /\ object = "destroyed" => early

(* A listing that no other listing of the directory has got in the way of  *)
(* is complete: it has each name once at most, each that was there, and    *)
(* could be read, all the time once, and a wakeup source with its own      *)
(* stats, whichever others vanish, appear or fail                          *)
(* (WakeLockEntryList.cpp:306-323, SystemSuspend.cpp:513-546).             *)
ListingComplete ==
  \A c \in Calls :
    At(c, "listed") /\ ~job[c].shared =>
      LET list == job[c].list
      IN  /\ \A i, j \in DOMAIN list : list[i].id = list[j].id => i = j
          /\ \A s \in job[c].steady :
               \E i \in DOMAIN list : list[i].id = s /\ list[i].from # {}

(* The stats of an entry are those of one wakeup source, even if it goes   *)
(* away and another gets its name while they are read                      *)
(* (WakeLockEntryList.cpp:228-297).                                        *)
EntryFromOneSource ==
  \A c \in Calls :
    At(c, "entry") => Cardinality(job[c].entry.from) <= 1

(* "Grab a wakelock before reading suspend stats, to ensure a consistent   *)
(* snapshot" (SystemSuspend.cpp:525): all statistics getSuspendStats       *)
(* returns are of one moment, unless the AIDL service was not there yet,   *)
(* or gave no wake lock, or forceSuspend, which no wake lock stops, came   *)
(* between.                                                                *)
SnapshotConsistent ==
  \A c \in Calls :
    LET list == job[c].list
    IN  At(c, "listed") /\ Head(job[c].todo) = "kernel_suspends" =>
          \/ job[c].unlocked \/ job[c].forced
          \/ \A i, j \in DOMAIN list : list[i].from = list[j].from

(* However getSuspendStats returns, errors included, its wake lock is      *)
(* gone: a leaked one would keep the device awake for good                 *)
(* (SystemSuspend.cpp:525-554).                                            *)
StatsLockOnlyWhileReading ==
  \A c \in statsLocks : /\ job[c].pc \in {"readdir", "listed"}
                        /\ Head(job[c].todo) = "kernel_suspends"
==============================================================================
