# Verification of the Android system-suspend service and wifi keystore HAL

TLA+ models of the suspend service in `suspend/1.0/default` and of the wifi
keystore HAL in `wifi/keystore/1.0/default`, the TLC configurations that check
them, and TLAPS proofs of what they check. The service
decides when the device sleeps: clients take and release wake locks, the
framework turns automatic suspend on, and one thread per process writes to
`/sys/power` when nothing is in the way. The HAL gives wpa_supplicant the
certificates, public keys and signatures of wifi credentials. The rest of the
repository is interface definitions (keystore2, netd, the suspend AIDL files) and
tests.

## Inventory

| Component | State | Operations | Interacts through | What is hard |
|---|---|---|---|---|
| Autosuspend core (`SystemSuspend.cpp`) | `mSuspendCounter`, `mAutosuspendEnabled`, `mAutosuspendThreadCreated`, `mAutosuspendClientTokens`; two mutexes, one condition variable; the thread's locals | the autosuspend loop, `enableAutosuspend`, `disableAutosuspend`, `forceSuspend`, `inc`/`decSuspendCounter` | mutexes and condition variable; the kernel's wakeup count | a wakeup count read long before it is used; locks dropped between check and use; lost notifications; thread exit against re-enable |
| Wake lock objects (`SystemSuspendAidl.cpp`, `SystemSuspendHidl.cpp`) | `mReleased` | construction, `release()`, destruction | calls into the core, then into the statistics | repeated release, death of the client, an unsigned counter |
| Client tokens | `mAutosuspendClientTokens` | registered by enable, cleared by disable | binder death | nobody notices dead clients |
| Teardown (`~SystemSuspend`) | - | disables, waits 100 ms for the thread | same mutexes and condition variable | waits with a mutex the thread may need |
| Sleep time, suspend info | `mSleepTime`, `mNumConsecutiveBadSuspends`, `mSuspendInfo` | `readSuspendTime`, `updateSleepTime` | run by the thread after an attempt | thresholds, rounding, mixed failures |
| Wakeup statistics (`WakeupList.cpp`) | an LRU list and its lookup table; `mWakeupReasonsFd` | `readWakeupReasons`, `reopenFileUsingFd`, `update` | run by the thread after an attempt | eviction and promotion, unreadable file |
| Wake lock statistics (`WakeLockEntryList.cpp`) | an LRU list and its lookup table | `updateOnAcquire`, `updateOnRelease`, `updateNow` | binder threads, `mStatsLock` | clock read before the mutex is taken, shared entries, eviction while active |
| Suspend control service (`SuspendControlService.cpp`) | `mCallbacks`, `mWakelockCallbacks` | registration, `binderDied`, `notifyWakeup`, `notifyWakelock` | called by the thread and the binder threads; binder death | lists change during a notification; registration races death |
| Queries (`SuspendControlServiceInternal`, `dump`, `getSuspendStats`, kernel wake lock statistics) | a weak reference `mSuspend`; `mKernelWakelockStatsFd`, `mSuspendStatsFd` | the getters, `dump` with its options, listing `/sys/class/wakeup` and `/sys/power/suspend_stats` | binder threads; directory positions shared through `dup` | sources that come and go while they are listed; a suspend between two files; error paths with a wake lock held |
| Start-up (`main.cpp`) | the descriptors, the strong reference to the service | opens files, registers four services, joins the thread pool | binder threads that already serve calls | calls during construction |
| Host without `/sys/power` (`main.cpp:102-110`) | the two buffers of a socket pair | the loop's reads and writes, `forceSuspend` | the ends of one socket pair in place of `wakeup_count` and `state` | each write is the input of the other end |
| Wifi keystore HAL (`keystore.cpp`) | none of its own | `getBlob`, `getPublicKey`, `sign` | keystore services | key replaced, service gone or credential moved between two binder calls; failures reported as values |

`PROJECT.json` lists the hazards at their lines, with the properties that cover
them.

## Modules

| Module | Models |
|---|---|
| `KernelPower` | external: what the service relies on of `/sys/power/{wakeup_count,state,wake_lock,wake_unlock}` |
| `SystemSuspend` | the core, with wake lock objects and control calls |
| `SuspendTokens` | `SystemSuspend` extended with clients that die |
| `SuspendTeardown` | `SystemSuspend` extended with its destructor |
| `SuspendHost` | `SystemSuspend` with the thread's kernel accesses replaced by a socket pair |
| `SuspendControlService` | callbacks: registration, death, notification |
| `SuspendControlInternal` | start-up, and the queries and dumps served during and after it |
| `SleepTime` | backoff and suspend statistics |
| `LruCache` | abstract specification: the keys used last, most recent first |
| `WakeupList`, `WakeLockEntryList` | the two lists, each shown to implement `LruCache` |
| `AttemptRecords` | composes `SleepTime` and `WakeupList`: what the thread records after an attempt |
| `WifiKeystore` | the wifi keystore HAL against two keystore services |
| `SystemSuspendProofs`, `SuspendTeardownProofs`, `AttemptRecordsProofs`, `WakeLockEntryListProofs`, `SuspendControlServiceProofs`, `SuspendControlInternalProofs`, `WifiKeystoreProofs` | theorems about the module each is named after, and about the modules that one is made of |
| `SequenceLemmas` | lemmas the proofs share: induction over the naturals, maxima, lists without duplicates |
| `MC*` | constants and symmetry for TLC |

Operators under a comment "Mutant" are wrong variants of the definition that
follows them; no specification uses them. They document which mistake each
property would catch.

### SystemSuspend

A step is what one thread does between two points where another can interfere:
one critical section, or one access to the kernel. The thread's program counter
`pc` names those points: `sleeping` and `waitCounter` are the two waits on
`mAutosuspendCondVar`, `readCount` the blocking read of `wakeup_count`,
`wantTokens`/`wantLock` the acquisition of both mutexes, `writeCount` and
`writeState` the two writes made with both held. Every `continue` of the loop
goes through `LoopTop`. `condVar` is the set of blocked waiters; `notify_one`
removes any one, `notify_all` all, and spurious wakeups may remove one at any
time. A woken waiter tests its predicate again under the mutex. Threads have
identities, so that a second thread, if one were started, would be a different
one.

A wake lock goes through `acquiring`, `counted` (the constructor has run) and
`live` (the call has returned); `release()` may be called any number of times,
one call at a time because the interface is oneway; dropping the last reference
runs the destructor. `mReleased` is `running` while `call_once` is between
`decSuspendCounter` and `updateWakeLockStatOnRelease`. The AIDL and HIDL classes
take the same steps; `acquireWakeLock` with no place for its result
(`SystemSuspendAidl.cpp:58-60`) returns an error and changes nothing, so it has no
action. Control calls are split at the acquisition of
`mAutosuspendClientTokensLock`; `forceSuspend` needs only `mAutosuspendLock`.
What the thread does after an attempt, outside the mutexes, is `RecordAttempt`
(modelled in `AttemptRecords`) and `NotifyWakeup` (modelled in
`SuspendControlService`). A callback runs in the thread and need not return:
nothing obliges the thread to leave `notify`.

The kernel accepts a count only if it is current and no source is active, and a
suspend fails if an event has arrived since. The system's sleep takes no step:
user space is frozen meanwhile. Kernel sources are one event source and the
zygote wake lock that `enableAutosuspend` relaxes.

### The others

`AttemptRecords` takes two steps per attempt, because the two statistics have a
mutex each. In `SleepTime` the kernel's times are ticks of a fraction of a
millisecond, rounded as `std::chrono::round` does, and the scale factor, a double
in the code, is a fraction that is part of the configuration. The reference is
computed from the whole history of attempts. `WakeupList` represents a line of
`last_resume_reason` by its parts between semicolons, because `Join` puts
semicolons between lines and so does not tell the two apart.
`WakeLockEntryList` splits updates at the clock reading, which precedes the
mutex. `SuspendControlService` takes linkToDeath to succeed until the obituary of
the process has been sent and every link to result in one call of `binderDied`.
`SuspendTeardown` lets the 100 ms pass only when the thread cannot proceed by
itself, so its counterexample does not rest on a slow scheduler. It lets the
destructor begin only when no client is left (`NoClients`): wake locks point to the
service without a reference, but the one path of `main.cpp` to the destructor ends
before the AIDL service, which hands them out, is registered.
`SuspendHost` keeps the thread and the clients of `SystemSuspend` and counts the
strings in each socket buffer; what they say does not matter, because any string
that is not empty is a wakeup count.

### SuspendControlInternal

`phase` is how far `main` has come. The binder threads run from `serving` on,
before `SystemSuspend` exists; its constructor hands out a weak reference to
itself (`constructing`) before `main` has the first strong one. A call promotes
that reference, works through a list of sections (`Dump` translates the options
of `dump`; each getter is a list of one section) and drops it. A step is one
critical section, one system call on a directory or one file that is read.

Directories are listed through `dup` of a descriptor that all calls share, so the
position is shared while the buffer of each `DIR` is not; `Getdents` fills that
buffer from the position. Entries are numbered in listing order. A wakeup source
may vanish and another may get its name at any time; a source's directory is
opened once and its files relative to it, so `pinned` is the source a reader has
got hold of. Opening a source's directory or reading one of its files may fail
although the source is there; the entry is returned all the same, without what
could not be read.
Reading `suspend_stats` takes a wake lock from the AIDL service if that is
registered and gives one; every way out drops it. Here the core appears only as what
`SystemSuspend` promises: no automatic suspend while a wake lock is held.
Statistics are abstracted to where they come from. `steady`, `shared`, `forced`,
`unlocked` and `early` are used by the properties only.

### WifiKeystore

The HAL keeps nothing between calls, so the state is that of the two services,
which are external, and of one call. A step is one binder call: looking up a
service, `getKeyEntry`, `createOperation`, `finish`, the legacy `get`; what the
HAL computes from the result belongs to the step. In between other clients may
replace or remove entries, and a service may stop, which leaves the call with a
dead proxy even if the service comes back. A live service may fail any call,
whatever it holds (`Keystore2Errs`, `LegacyKeystoreErrs`). `createOperation`
refuses an algorithm that is not that of the key. Key strings are a prefix and a
name, blobs sequences of certificates in a form (DER, PEM, neither, or DER that
cannot be written as PEM), because both loops over certificates look at the form
only. A grant id that cannot be parsed is logged and used as the parser left it;
`GrantId` may therefore be any function. `seen`, used by the properties only,
collects what the services offered for the credential at each moment of the call:
what they held, and whether they were up and answered.

## Runs

| Run | Checks | Shows |
|---|---|---|
| `suspend_safety` | type and inductive invariant, `SingleAutosuspendThread`, `TokensMatchEnabled`, `CounterMatchesLocks`, `NoLostWakeup`, `NoAutosuspendWhileHeld`, `SuspendUsesFreshCount`, `SuspendOnlyWhileEnabled` | the core is safe in every interleaving |
| `service_life` | `NoAttemptDuringTeardown`, `SuspendsWhenIdle`, `ThreadExitsWhenDisabled`, `ClientCallsReturn`, `DestructorReturns` | from the first call to the end of the destructor it makes progress; the destructor never hangs and no attempt to suspend starts behind its back |
| `dead_tokens` | `DeadClientsDisableAutosuspend` (violated) | the death of all clients leaves autosuspend enabled, against the AIDL documentation: the thread goes through attempt after attempt |
| `teardown_outlived` | `NoThreadOutlivesObject` (violated) | the thread may be blocked on the mutex the destructor holds and outlive the object |
| `host_blocks` | `HostHandlesWakeLocks` (violated) | on a host without `/sys/power` one `forceSuspend` feeds a loop through the socket pair that ends with the thread blocked in a write, both mutexes held |
| `attempt_records` | `SleepTimeFollowsFormula`, `BackoffsCounted`, `ShortSuspendsArePartOfSuspends`, `LookupMatchesList`, `CountsAreExact`, `AttemptsInBoth`, `ImplementsLruCache` | the backoff is the documented formula, up to the rounding of fractional scale factors, the wakeup list is an LRU cache with exact counts, and both statistics count the same attempts |
| `wake_lock_stats` | `LookupMatchesList`, `ActiveMatchesHeld`, `TimesAddUp`, `ImplementsLruCache` | the same for wake locks; times and status are right for entries that are not shared |
| `wake_lock_max_time` | `MaxTimeWithinTotal` (violated) | a clock reading that is older than that of `updateNow` makes `totalTime` fall below `maxTime` |
| `control_callbacks` | `RegisteredIsWatched`, `DeadCallbacksForgotten`, `NotificationsReachAll` | callbacks of dead clients go, live ones are called |
| `stats_queries` | `ObjectOutlivesUse`, `ListingComplete`, `EntryFromOneSource`, `SnapshotConsistent`, `StatsLockOnlyWhileReading` | what a query works on exists, what it returns is complete and of one source or moment, and its wake lock does not outlast it |
| `wifi_keystore` | `BlobHeldDuringCall`, `HeldBlobIsFound`, `SignedByHeldKey`, `HeldKeySigns`, `PublicKeyOfCertificate` | whatever changes or fails during a call, its answer is one the credential had; the fallback to the legacy keystore hides no certificate and misses no blob that stays where it is, and `sign` fails only for want of a key or if its algorithm changed |
| `wifi_public_key` | `PublicKeyIsReturned` (violated) | a certificate that cannot be decoded makes `getPublicKey` succeed with an empty key |

### Bounds

* `suspend_safety`: two threads (a second could only appear if one were started
  by mistake), two callers (enable against disable), two wake locks (so the
  counter passes 1 both ways), one token (tokens matter only through emptiness),
  one wakeup event (a count that has changed once is as stale as one that has
  changed often).
* `service_life`, `teardown_outlived`: one of each, so that no symmetry is needed;
  a wakeup event may still come at any moment.
* `dead_tokens`: one thread, caller and token, no wake lock and no wakeup event, so
  that nothing but the tokens could stop the thread.
* `host_blocks`: one forced suspend and room for two strings in a buffer: the loop
  feeds itself from the first, and fills any finite buffer in the same way.
* `attempt_records`: ten kinds of attempt (long, short, failed, unparsable;
  reasons one, several, none, unreadable), four attempts, which reach the backoff
  threshold, the cap and a new run; times lie at both sides of the short-suspend
  threshold and on a rounding half; capacities 0 to 3, below and above the number
  of reasons; `last_resume_reason` open or not from the start; scale factors 2.0
  (the default), 1.5 (which meets halves) and 1.9 (that of the unit tests).
* `wake_lock_stats`: four wake locks with three keys and room for two entries,
  so that eviction has a choice; two clock values, enough for a reading to be
  stale; each key active twice.
* `control_callbacks`: a remote and a local callback, a wakelock callback under
  two names, three entries in `mCallbacks`, so duplicates occur.
* `stats_queries`: two calls, of any method or dump, at the same time or one after
  the other, from any moment of start-up on; two wakeup sources and two statistics
  files with a buffer of one entry, so that every listing takes several system
  calls; two changes, enough for a source to vanish and its name to be taken
  again, where a source or a wake lock that is there and cannot be had counts as
  one; one suspend, which is enough to divide a snapshot.
* `wifi_keystore`: a name and a grant, each method with each prefix, three
  changes: one to put something in a keystore and two during the call, which is
  enough to move a credential or to replace a key twice. Two key pairs have the
  same algorithm, so a replacement may or may not be noticed.

The theorems below remove these bounds for every invariant, every action property
and both refinements that the passing runs check. What rests on the bounds is
liveness.

`AttemptRecords` and `SuspendTeardown` may stop (attempts exhausted, object gone),
`SuspendControlInternal` too (the process aborts, or the bounds on calls are
reached), and `SuspendHost` is about one that does; those runs do not check for
deadlock, all others do.

The sleep time follows the formula of the comment at `SystemSuspend.cpp:412-413`
exactly for an integral scale factor. With a fractional one the time is rounded at
every attempt and drifts from it, by at most half a millisecond per attempt, which
the attempts after it scale: after `k` scalings by `S` the distance is at most
`(1 + S + ... + S**(k-1)) / 2` ms. `SleepTimeFollowsFormula` says so for
factors of at least one; a smaller one would shorten the time, and then limiting
it at each attempt is not the same as limiting it once.
Without the suspend counter, wake locks that share a name lose the
protection at the first release; `main.cpp:153` always uses the counter, and for
distinct names the theorem `WakeLocksBlockSuspend` covers the other mode. Two
wake locks of one process with one name share an entry of the statistics, which
the first release shows as inactive while the other is held; the properties
about status and times speak of entries that are not shared.

### Fairness

The scheduler runs a thread that can run, and `wait_for` keeps its deadline (WF).
A read of `wakeup_count` that no active source blocks returns (WF), and does not
fail for ever (SF); one that is blocked may fail, and is not obliged to. A call blocked on a mutex
gets it if it is free again and again (SF): `std::mutex` does not promise it, but
after each attempt the thread leaves both mutexes free for at least the base sleep
time. Nothing is assumed of callbacks the thread runs: `SuspendsWhenIdle` and
`ThreadExitsWhenDisabled` say "if callbacks return", and `ClientCallsReturn` and
`DestructorReturns` hold even if one hangs, because it hangs with no mutex held.
On the socket pair, writes to a buffer with room and reads from one with data
happen (WF). Obituaries are delivered and handled (WF). No client is obliged to
call, to release or to stop; no event is obliged to end.

## Proofs

Every invariant and action property of the passing runs, and both refinements, are
theorems (`PROJECT.json` names the theorem of each). Two are restricted:
`SleepTimeIsDocumented` assumes that scale factors are at least one, and
`WakeLocksBlockSuspend` that the counter is used or names are distinct. The assumptions are those named in the modules.

### The core

`SystemSuspendProofs` proves, for any sets of threads, callers and tokens, any
finite set of wake locks and either setting of the counter, under the
assumptions named in `SystemSuspend` and `KernelPower` (a free mutex is not a
thread, threads are not callers, every wake lock has a name):

* `Invariance`: `IndInv` always holds, and from it `TypeCorrect`, `OneThread`,
  `CounterExact`, `NoWakeupLost`, `TokensExact`;
* `FreshCount`, `OnlyWhileEnabled`, `WakeLocksBlockSuspend`: the three action
  properties. The last needs the counter, or names that are all distinct
  (`NamesDistinct`), and in the second case a second invariant,
  `KernelKnowsLocks`: the kernel has an active source for each counted lock.

None of the properties is inductive alone. `IndInv` adds `LocksMatchPc` (who
holds which mutex where), `ReadyToSuspend` (with both mutexes held the counter
stays zero, a token stays registered, and once the count is accepted the kernel
is armed with the very count the thread read), `TokensMatchEnabled` (the thread
tests tokens, the property speaks of `mAutosuspendEnabled`) and
`WakeLockPhases` (a release is counted once). The step proof is split by topic:
the protocol of the thread and the mutexes (`ProtocolStep`), the counter
(`CounterStep`, by cardinality of `Counted`), types (`TypeStep`) and the kernel's
wake locks (`KernelLockStep`), each with one case per action.

`SuspendTeardownProofs` carries the invariant on to the end of the destructor.
`IndInv` types `tokensLock` as free, a thread or a caller, which the destructor is
not; `CoreTypeOK` is the rest of the type invariant, and the steps of the protocol
are proved from that alone. `TeardownInv` adds that the destructor, once it has the
tokens' mutex, keeps it. `ThreadLeavesMutex` is the argument of
`TeardownIsQuiet`: a thread at the writes would have the tokens' mutex
(`LocksMatchPc`), and the destructor has it. That no wake lock is left then is the
assumption `NoClients`, not a result.

### Queries

`SuspendControlInternalProofs` proves, for any set of binder threads, any finite
or infinite sets of wakeup sources and files, any dump options and any bounds,
under `ControlAssumption` (the main thread serves no calls; entries are numbered
from 1) and `SourceAssumption` (a wakeup source has some statistic), that
`ControlInv` is an invariant (`ControlInvariance`), and from it

* `ObjectIsSafe`: what a call works on is alive until it returns, and the object
  dies only if a call came during construction;
* `OneSourcePerEntry`: no entry mixes two sources of one name;
* `ConsistentSnapshot`: the kernel's statistics are of one moment, but for a forced
  suspend or a query before the AIDL service is registered;
* `StatsLockNotLeaked`: the wake lock of a query ends with it;
* `ListingsAreComplete`: an undisturbed listing misses nothing and has nothing twice.

`ControlInv` has four parts. `References` relates each call that is not idle to a
strong reference, and `main` to one of its own from `constructed` on: the property
about destruction follows only when it is known who can drop the last reference.
`Sections` says which section a call at a given point is in, so that a step of one
directory cannot disturb a reader of the other, and that what has been read of an
entry is from the pinned source. `StatsProtected` is the reason a snapshot is
consistent: a call that reads with the wake lock has read only the current number
of attempts, which only a forced suspend could have changed. `ControlTypes` gives
the types these need. One lemma per part has one case per action.

`ListingInv`, which the last theorem needs, is inductive relative to `ControlInv`.
Its part `Progress` orders what an undisturbed listing has: the entries it has
listed, then the one being read, then those in its buffer, none beyond the
position of the descriptor; and no entry up to the position that was there all the
time is missing. Another call that moves the shared position marks the listing as
shared, after which nothing is claimed. The lemmas on `Getdents` say what lies
between two positions, for any size of buffer.

### What an attempt records

`AttemptRecordsProofs` is for any configuration, any capacity, any attempts whose
contents have the types of `AttemptsAssumption`, and any number of them.
`RecordsInv` has a part per statistic. For the sleep time, `NumBadIsRun` says that
the counter of the code is the length of the run of bad attempts at the end of the
history; then an attempt adds at most one element to each of the two sets that
`BackoffsCounted` counts. `SleepTimeOfRun`, for the formula, says that the time is
the documented one for that counter. `LimitStaysReached` shows that limiting the
time after each scaling is the same as limiting it once, if the factor is at least
one. `ScalingError` bounds what one scaling does to the distance from the exact
time: it grows by the factor, and by at most half a millisecond of rounding
(`RoundDivError`); a limit never increases it. `BoundGrows` is the algebra that
makes the bound the geometric sum, with denominators multiplied out; for a
denominator of 1 the half is `1 \div 2 = 0` and the time exact.

For the list, `ListIsSorted` relates the whole list to the history: its keys are
in the order of their last use, and if a key of the history is not in it, the list
is full and the key was used before all that are. It determines which keys are
recent, so an entry that is evicted and one that is promoted are the ones
`LruCache` says (`WakeupsImplementLruCache`), and the interval over which
`CountsAreExact` counts grows by one at a promotion and is empty before an
insertion.

### Wake lock statistics

`WakeLockEntryListProofs` is for any wake locks and keys, any capacity but zero, and
any order of clock readings and updates. `StatsInv` is the conjunction of the three
properties with types and the capacity; `ActiveMatchesHeld` is split into a half per
direction, said of positions of the list. All changes of one entry go through
`UpdateOfEntry`, a lemma on lists without duplicates: the entry changed is first,
all others were there before. From it follow both the invariant and the step of
`LruCache`.

### Callbacks

`SuspendControlServiceProofs` is for any binders, names and notifying threads.
`CallbacksInv` adds to `RegisteredIsWatched`, which is preserved because a call of
`binderDied` removes a callback from every list it may be in, the types and
`Rounds`: a notification has called the callbacks of its copy that come before its
position. `remove_if` is the recursive function `Kept`; that it exists, and keeps
what is not removed and nothing else, is proved by induction over the list.

### Wifi keystore

`WifiKeystoreProofs` is for any credentials, blobs, key pairs and number of changes,
under `KeystoreAssumption` (names are not grants, entries and blobs are well
formed). An answer is given several binder calls after what it is based on was
read. `KeystoreInv` therefore says at each point of a call what must be among the
states seen so far (`SeenOnTheWay`): at the legacy keystore, that Keystore 2.0 once
had nothing to offer; at `createOperation`, that the credential once had a key of
the algorithm in hand; at `finish`, that it once had the key of the operation. `SeesPresent` says that the present state is among them, and
`ProxyAlive` that only a service that has not stopped answers.
`DescriptorIsCredential` shows for every key string that the descriptor made
from it stands for the credential it names.

### Induction

Induction over data is by `SetInduction`, which speaks of a set of naturals and is
proved from `LeastNatural`; the recursive functions `Kept` and `Power` are proved
to exist with it before anything is concluded from their definitions.

### Only model-checked

Liveness (`SuspendsWhenIdle`, `ThreadExitsWhenDisabled`, `ClientCallsReturn`,
`DestructorReturns`, `DeadCallbacksForgotten`), which needs fairness and with it
ENABLED; and the violated properties, for which one counterexample is enough.

## Observations

Beside the findings in `PROJECT.json`, which are violated properties, a reader of
the code should know:

* a call served while `SystemSuspend` is being constructed takes the first strong
  reference; if it returns before `main` takes one, the object is destroyed and
  `main` goes on with a pointer to it (`main.cpp:148-164`). `early` marks this case
  in `ObjectOutlivesUse`;
* two listings of one directory share its position, so each may miss entries or
  list some twice; `ListingComplete` speaks of listings that were not shared;
* given only options it does not know, `dump` prints nothing; its usage text says
  that all statistics are returned then (`SuspendControlService.cpp:212-213`). `Dump`
  translates the code;
* `forceSuspend` notifies no callback and is recorded in neither statistic.

## Not modelled

Interface definitions and tests have no behaviour of their own; the findings quote
them. The text that `dump` and the log print, and the values of the kernel's
statistics, are left out, and with them the abort of the process when a file of
`suspend_stats` holds something that is not a number (`std::stoi`,
`SystemSuspend.cpp:561`). A wake lock list of capacity zero is undefined behaviour
in `evictIfFull` and no caller makes one.

## Plan

Done, in order of importance: the core with its invariants, liveness and
theorems; tokens and teardown; the two lists with their abstract specification;
backoff; callbacks; the wifi keystore HAL; the composition of what an attempt
records; callbacks that hang; the host without `/sys/power`; start-up and queries
with their theorems; theorems for teardown, listings, records, both lists,
callbacks and the wifi keystore.

Next: the safety half of the liveness properties, for any number of threads (what a
thread or a call at each point waits for is available or held by one that can
proceed), and the invariants of the core for `SuspendTokens`, whose clients die.
