------------------------ MODULE SuspendControlService ------------------------
(***************************************************************************)
(* The callbacks of SuspendControlService.cpp: clients register them, the  *)
(* autosuspend thread calls them after every attempt to suspend            *)
(* (NotifyWakeup of SystemSuspend) and the threads that acquire or release *)
(* a wake lock call those of its name, while other threads register more   *)
(* and binderDied drops those of dead processes.                           *)
(*                                                                         *)
(* registerCallback, registerWakelockCallback, binderDied and the copying  *)
(* of a list each hold the mutex of the lists they use from beginning to   *)
(* end, so each is one step; the calls of the callbacks copied hold none.  *)
(***************************************************************************)
EXTENDS Integers, Sequences

CONSTANTS
  Callbacks,          \* ISuspendCallback binders
  WakelockCallbacks,  \* IWakelockCallback binders
  Remote,             \* the binders that live in other processes
  Names,              \* wake lock names
  Notifiers,          \* threads that run notifyWakeup or notifyWakelock
  Wakeup,             \* the list notifyWakeup uses, as opposed to a name
  MaxRegistered       \* bound on the length of mCallbacks

Binders == Callbacks \cup WakelockCallbacks

ASSUME ControlAssumption ==
  /\ Callbacks \cap WakelockCallbacks = {}
  /\ Remote \subseteq Binders
  /\ Wakeup \notin Names
  /\ MaxRegistered \in Nat

VARIABLES
  callbacks,          \* mCallbacks
  wakelockCallbacks,  \* mWakelockCallbacks: a list for each name it has
  process,            \* each binder's process: alive, dead, reported (its
                      \*   obituary has been sent to this process)
  links,              \* how often binderDied is still to be called for it
  round               \* each notifier's call: its list, copy, position, and
                      \*   for the properties only the callbacks called

vars == <<callbacks, wakelockCallbacks, process, links, round>>
lists == <<callbacks, wakelockCallbacks>>

Idle == [list |-> "none", copy |-> <<>>, next |-> 1, told |-> {}]

Init ==
  /\ callbacks = <<>>
  /\ wakelockCallbacks = <<>>
  /\ process = [b \in Binders |-> "alive"]
  /\ links = [b \in Binders |-> 0]
  /\ round = [n \in Notifiers |-> Idle]

Elements(s) == {s[i] : i \in DOMAIN s}

(* mWakelockCallbacks[name], which makes an empty list if there is none.   *)
ListOf(name) ==
  IF name \in DOMAIN wakelockCallbacks THEN wakelockCallbacks[name] ELSE <<>>

SetListOf(name, list) ==
  wakelockCallbacks' = [n \in DOMAIN wakelockCallbacks \cup {name} |->
                          IF n = name THEN list ELSE wakelockCallbacks[n]]

------------------------------------------------------------------------------
(* Binder processes and their obituaries, external to the repository.      *)

(* cb->linkToDeath(this) with the result ok: it fails once the obituary    *)
(* has been sent, and may fail as soon as the process is dead.             *)
LinkToDeath(b, ok) ==
  /\ IF ok THEN process[b] # "reported" ELSE process[b] # "alive"
  /\ links' = IF ok THEN [links EXCEPT ![b] = @ + 1] ELSE links

ProcessDies(b) ==
  /\ b \in Remote /\ process[b] = "alive"
  /\ process' = [process EXCEPT ![b] = "dead"]
  /\ UNCHANGED <<lists, links, round>>

SendObituary(b) ==
  /\ process[b] = "dead" /\ links[b] > 0
  /\ process' = [process EXCEPT ![b] = "reported"]
  /\ UNCHANGED <<lists, links, round>>

------------------------------------------------------------------------------
(* Registration.                                                           *)

PushCallback(b) ==
  /\ callbacks' = Append(callbacks, b)
  /\ UNCHANGED <<wakelockCallbacks, process, round>>

(* Mutant: a callback is pushed whether or not its death is noticed.       *)
RegisterAnyway(b, ok) ==
  /\ Len(callbacks) < MaxRegistered
  /\ IF b \in Remote /\ b \notin Elements(callbacks)
     THEN LinkToDeath(b, ok) ELSE ok /\ UNCHANGED links
  /\ PushCallback(b)

(* registerCallback: a callback may be registered again, and is then not   *)
(* linked again.  (A null callback is refused and changes nothing.)        *)
RegisterCallback(b, ok) ==
  /\ Len(callbacks) < MaxRegistered
  /\ IF b \in Remote /\ b \notin Elements(callbacks)
     THEN LinkToDeath(b, ok) ELSE ok /\ UNCHANGED links
  /\ IF ok THEN PushCallback(b) ELSE UNCHANGED <<lists, process, round>>

(* registerWakelockCallback: once per name, linked every time.             *)
RegisterWakelockCallback(b, name, ok) ==
  /\ b \notin Elements(ListOf(name))
  /\ IF b \in Remote THEN LinkToDeath(b, ok) ELSE ok /\ UNCHANGED links
  /\ SetListOf(name, IF ok THEN Append(ListOf(name), b) ELSE ListOf(name))
  /\ UNCHANGED <<callbacks, process, round>>

(* What remove_if keeps of the first i callbacks of a list, for each i.    *)
Kept(list, b) ==
  LET kept[i \in 0 .. Len(list)] ==
        IF i = 0 THEN <<>>
        ELSE IF list[i] = b THEN kept[i - 1] ELSE Append(kept[i - 1], list[i])
  IN  kept

Without(list, b) == Kept(list, b)[Len(list)]

(* Mutant: only the callbacks for wakeups are dropped.                     *)
DropFromCallbacks(b) ==
  /\ process[b] = "reported" /\ links[b] > 0
  /\ links' = [links EXCEPT ![b] = @ - 1]
  /\ callbacks' = Without(callbacks, b)
  /\ UNCHANGED <<wakelockCallbacks, process, round>>

(* binderDied: the callback goes from every list, an empty list goes.      *)
BinderDied(b) ==
  LET rest(name) == Without(wakelockCallbacks[name], b)
      kept == {name \in DOMAIN wakelockCallbacks : rest(name) # <<>>}
  IN  /\ process[b] = "reported" /\ links[b] > 0
      /\ links' = [links EXCEPT ![b] = @ - 1]
      /\ callbacks' = Without(callbacks, b)
      /\ wakelockCallbacks' = [name \in kept |-> rest(name)]
      /\ UNCHANGED <<process, round>>

------------------------------------------------------------------------------
(* Notification.                                                           *)

(* notifyWakeup or notifyWakelock copies its list ...                      *)
BeginNotify(n, list) ==
  /\ round[n] = Idle
  /\ list \in {Wakeup} \cup DOMAIN wakelockCallbacks
  /\ round' = [round EXCEPT ![n] =
                 [Idle EXCEPT !.list = list,
                              !.copy = IF list = Wakeup THEN callbacks
                                       ELSE wakelockCallbacks[list]]]
  /\ UNCHANGED <<lists, process, links>>

(* Mutant: the list itself is walked, not a copy.                          *)
ListWalked(n) ==
  IF round[n].list = Wakeup THEN callbacks ELSE ListOf(round[n].list)

CallbacksCopy(n) == round[n].copy

(* ... and calls the callbacks one by one, ignoring errors.                *)
NotifyNext(n) ==
  LET r == round[n]
      copy == CallbacksCopy(n)
  IN  /\ r # Idle
      /\ round' = [round EXCEPT ![n] =
                     IF r.next > Len(copy) THEN Idle
                     ELSE [r EXCEPT !.next = @ + 1,
                                    !.told = @ \cup {copy[r.next]}]]
      /\ UNCHANGED <<lists, process, links>>

------------------------------------------------------------------------------
Next ==
  \/ \E b \in Callbacks, ok \in BOOLEAN : RegisterCallback(b, ok)
  \/ \E b \in WakelockCallbacks, name \in Names, ok \in BOOLEAN :
       RegisterWakelockCallback(b, name, ok)
  \/ \E b \in Binders : ProcessDies(b) \/ SendObituary(b) \/ BinderDied(b)
  \/ \E n \in Notifiers, list \in {Wakeup} \cup Names : BeginNotify(n, list)
  \/ \E n \in Notifiers : NotifyNext(n)

(* The binder driver delivers obituaries, and a thread of the pool then    *)
(* runs binderDied.                                                        *)
Spec ==
  /\ Init /\ [][Next]_vars
  /\ \A b \in Binders : WF_vars(SendObituary(b)) /\ WF_vars(BinderDied(b))

------------------------------------------------------------------------------
Registered(b) ==
  \/ b \in Elements(callbacks)
  \/ \E name \in DOMAIN wakelockCallbacks :
       b \in Elements(wakelockCallbacks[name])

(* A callback that is registered and may die has an obituary still to      *)
(* come, even if it is registered again between the death of its process,  *)
(* the obituary and the calls of binderDied                                *)
(* (SuspendControlService.cpp:52-61, 80-96).                               *)
RegisteredIsWatched ==
  \A b \in Remote : Registered(b) => links[b] > 0

(* "ISuspendControlService must keep track of all registered callbacks     *)
(* unless the client process that registered the callback dies"            *)
(* (ISuspendControlService.aidl): callbacks of a dead process are all      *)
(* dropped for good, however late they were registered                     *)
(* (SuspendControlService.cpp:43-113).                                     *)
DeadCallbacksForgotten ==
  \A b \in Remote : <>(process[b] # "alive") => <>[]~Registered(b)

(* A notification reaches every callback that was registered when it began *)
(* and has not died, although callbacks are registered and dropped during  *)
(* the calls (SuspendControlService.cpp:115-148).                          *)
NotificationsReachAll ==
  [][\A n \in Notifiers :
       round[n] # Idle /\ round'[n] = Idle =>
         \A b \in Elements(round[n].copy) :
           process[b] = "alive" => b \in round[n].told]_vars
==============================================================================
