--------------------------- MODULE BeatLinkEvents ---------------------------
(***************************************************************************)
(* Event delivery in ofxBeatLink (src/src/ofxBeatLink.cpp).                *)
(*                                                                         *)
(* Three receive threads of beat-link-cpp call back into the object:       *)
(*   BeatFinder    onBeat                                                  *)
(*   DeviceFinder  onDeviceFound, onDeviceLost                             *)
(*   VirtualCdj    the two lambdas registered by startVirtualCdj           *)
(* Every callback pushes a copy of what it was given onto the queue of its *)
(* kind; three of them first touch a cache of latest values.  The main     *)
(* thread empties the five queues in update(), one after the other, and    *)
(* holds the mutex of a queue for as long as it dispatches from it, so     *)
(* also while the application's listeners run.                             *)
(*                                                                         *)
(* A critical section that calls nothing is one step.  The mutexes of the  *)
(* queues are kept across steps by the main thread only, and locked is the *)
(* set of the kinds whose mutex it holds.                                  *)
(*                                                                         *)
(* Events carry the device they are about and, instead of their payload,   *)
(* the position of their callback among those of their kind.               *)
(***************************************************************************)
EXTENDS Integers, Sequences, SequencesExt

CONSTANTS
    Devices,        \* device numbers seen on the network
    HasVirtualCdj,  \* OFX_BEATLINK_HAS_VIRTUALCDJ
    MaxEvents       \* bound of the model: callbacks of each kind

Kinds   == {"beat", "found", "lost", "update", "master"}
Threads == {"BeatFinder", "DeviceFinder", "VirtualCdj"}

ASSUME DevicesAssumption   == Devices \subseteq Nat \ {0}
ASSUME VirtualCdjAssumption == HasVirtualCdj \in BOOLEAN
ASSUME MaxEventsAssumption == MaxEvents \in [Kinds -> Nat]

\* Mutant: update() without the sections of VirtualCdj mode.
OrderPassiveOnly == <<"beat", "found", "lost">>

\* Mutant: the lost devices are announced before the found ones.
OrderLostFirst == <<"beat", "lost", "found", "update", "master">>

\* The kinds whose queues update() visits, in the order of its sections.
Order == IF HasVirtualCdj THEN <<"beat", "found", "lost", "update", "master">>
                          ELSE <<"beat", "found", "lost">>

\* The thread that makes the callbacks of a kind.
Thread(k) == CASE k = "beat"                -> "BeatFinder"
               [] k \in {"found", "lost"}    -> "DeviceFinder"
               [] k \in {"update", "master"} -> "VirtualCdj"

\* A default-constructed ofxBeatLinkBeat or ofxBeatLinkCdjStatus: device 0.
NoEvent == [device |-> 0, id |-> 0]
Event   == [device : Devices \cup {0}, id : Nat]

VARIABLES
    call,           \* per thread, the callback it is in
    made,           \* per kind, how many callbacks have begun
    devices,        \* the device table of DeviceFinder
    queue,          \* beatQueue_, deviceFoundQueue_, ...
    locked,         \* queue mutexes held by the main thread
    latestBeats,    \* latestBeats_; NoEvent where the map has no entry
    lastBeat,       \* lastBeat_
    latestStatuses, \* latestStatuses_, likewise
    section,        \* the section of update() the main thread is in, or 0
    step,           \* where it is in that section
    current,        \* the local copy update() hands to the listeners
    delivered,      \* history: id of the last event dispatched of each kind
    cleared         \* history: beats begun when onDeviceLost last erased

threadVars == <<call, made, devices>>
cacheVars  == <<latestBeats, lastBeat, latestStatuses, cleared>>
mainVars   == <<section, step, current, delivered>>
vars == <<threadVars, cacheVars, mainVars, queue, locked>>

Idle == [kind |-> "beat", stage |-> "idle", event |-> NoEvent]

Init ==
    /\ call = [t \in Threads |-> Idle]
    /\ made = [k \in Kinds |-> 0]
    /\ devices = {}
    /\ queue = [k \in Kinds |-> <<>>]
    /\ locked = {}
    /\ latestBeats = [d \in Devices |-> NoEvent]
    /\ lastBeat = NoEvent
    /\ latestStatuses = [d \in Devices |-> NoEvent]
    /\ section = 0 /\ step = "lock" /\ current = NoEvent
    /\ delivered = [k \in Kinds |-> 0]
    /\ cleared = [d \in Devices |-> 0]

-----------------------------------------------------------------------------
(***************************************************************************)
(* The receive threads.                                                    *)
(***************************************************************************)

\* The thread of kind k enters its callback about device d, at stage s.
Enter(k, d, s) ==
    /\ call[Thread(k)].stage = "idle"
    /\ made[k] < MaxEvents[k]
    /\ made' = [made EXCEPT ![k] = @ + 1]
    /\ call' = [call EXCEPT ![Thread(k)] =
                  [kind |-> k, stage |-> s,
                   event |-> [device |-> d, id |-> made[k] + 1]]]

\* The callback of kind k is between its cache and its queue section.
At(k, s) == call[Thread(k)].kind = k /\ call[Thread(k)].stage = s

Advance(k) == call' = [call EXCEPT ![Thread(k)].stage = "push"]

\* Mutant: the push takes no lock.
FreeAlways(k) == TRUE

\* The mutex of the queue of kind k can be taken.
Free(k) == k \notin locked

\* Lock the mutex of the queue of kind k, push, unlock, return.
Push(k) ==
    /\ At(k, "push")
    /\ Free(k)
    /\ queue' = [queue EXCEPT ![k] = Append(@, call[Thread(k)].event)]
    /\ call' = [call EXCEPT ![Thread(k)].stage = "idle"]
    /\ UNCHANGED <<made, devices, cacheVars, mainVars, locked>>

\* Mutant: the beat is queued before it is cached.
OnBeatPushFirst(d) ==
    /\ Enter("beat", d, "push")
    /\ UNCHANGED <<devices, queue, locked, cacheVars, mainVars>>

OnBeat(d) ==
    /\ Enter("beat", d, "store")
    /\ UNCHANGED <<devices, queue, locked, cacheVars, mainVars>>

OnBeatStore ==
    /\ At("beat", "store")
    /\ LET e == call["BeatFinder"].event
       IN  /\ latestBeats' = [latestBeats EXCEPT ![e.device] = e]
           /\ lastBeat' = e
    /\ Advance("beat")
    /\ UNCHANGED <<made, devices, queue, locked, latestStatuses, cleared,
                   mainVars>>

OnBeatPush == Push("beat")

\* DeviceFinder enters a device into its table, then announces it.
OnDeviceFound(d) ==
    /\ d \notin devices
    /\ devices' = devices \cup {d}
    /\ Enter("found", d, "push")
    /\ UNCHANGED <<queue, locked, cacheVars, mainVars>>

OnDeviceFoundPush == Push("found")

OnDeviceLost(d) ==
    /\ d \in devices
    /\ devices' = devices \ {d}
    /\ Enter("lost", d, "store")
    /\ UNCHANGED <<queue, locked, cacheVars, mainVars>>

\* Mutant: the loss leaves the cached beat.
ErasedNot(d) == latestBeats

\* Mutant: the loss of one device clears the beats of all.
ErasedAll(d) == [e \in Devices |-> NoEvent]

\* latestBeats_.erase
Erased(d) == [latestBeats EXCEPT ![d] = NoEvent]

OnDeviceLostErase ==
    /\ At("lost", "store")
    /\ LET d == call["DeviceFinder"].event.device
       IN  /\ latestBeats' = Erased(d)
           /\ cleared' = [cleared EXCEPT ![d] = made["beat"]]
    /\ Advance("lost")
    /\ UNCHANGED <<made, devices, queue, locked, lastBeat, latestStatuses,
                   mainVars>>

OnDeviceLostPush == Push("lost")

\* DeviceFinder is stopped: its table is emptied and nothing is announced.
ForgetDevices ==
    /\ call["DeviceFinder"].stage = "idle"
    /\ devices # {} /\ devices' = {}
    /\ UNCHANGED <<call, made, queue, locked, cacheVars, mainVars>>

\* Mutant: the status is queued before it is cached.
OnDeviceUpdatePushFirst(d) ==
    /\ HasVirtualCdj
    /\ Enter("update", d, "push")
    /\ UNCHANGED <<devices, queue, locked, cacheVars, mainVars>>

OnDeviceUpdate(d) ==
    /\ HasVirtualCdj
    /\ Enter("update", d, "store")
    /\ UNCHANGED <<devices, queue, locked, cacheVars, mainVars>>

OnDeviceUpdateStore ==
    /\ At("update", "store")
    /\ LET e == call["VirtualCdj"].event
       IN  latestStatuses' = [latestStatuses EXCEPT ![e.device] = e]
    /\ Advance("update")
    /\ UNCHANGED <<made, devices, queue, locked, latestBeats, lastBeat,
                   cleared, mainVars>>

OnDeviceUpdatePush == Push("update")

OnMasterChanged(d) ==
    /\ HasVirtualCdj
    /\ Enter("master", d, "push")
    /\ UNCHANGED <<devices, queue, locked, cacheVars, mainVars>>

OnMasterChangedPush == Push("master")

-----------------------------------------------------------------------------
(***************************************************************************)
(* The main thread: update().                                              *)
(***************************************************************************)

Kind == Order[section]

\* The application calls update() from its own frame function.
Update ==
    /\ section = 0
    /\ section' = 1 /\ step' = "lock"
    /\ UNCHANGED <<threadVars, cacheVars, queue, locked, current, delivered>>

LockQueue ==
    /\ section # 0 /\ step = "lock"
    /\ locked' = locked \cup {Kind}
    /\ step' = "drain"
    /\ UNCHANGED <<threadVars, cacheVars, queue, section, current, delivered>>

\* Mutant: the queue is emptied when its first event is taken.
PoppedAll(k) == [queue EXCEPT ![k] = <<>>]

Popped(k) == [queue EXCEPT ![k] = Tail(@)]

\* front, pop and ofNotifyEvent, up to the call of the listeners.
Dispatch ==
    /\ section # 0 /\ step = "drain"
    /\ queue[Kind] # <<>>
    /\ current' = Head(queue[Kind])
    /\ queue' = Popped(Kind)
    /\ delivered' = [delivered EXCEPT ![Kind] = Head(queue[Kind]).id]
    /\ step' = "listener"
    /\ UNCHANGED <<threadVars, cacheVars, locked, section>>

\* The listeners run and return; what they do is the application's.
RunListener ==
    /\ section # 0 /\ step = "listener"
    /\ step' = "drain"
    /\ UNCHANGED <<threadVars, cacheVars, queue, locked, section, current,
                   delivered>>

\* Mutant: the last section is entered again.
NextSectionStuck == IF section = Len(Order) THEN section ELSE section + 1

\* Mutant: there is always one more section.
NextSectionNoEnd == section + 1

NextSection == IF section = Len(Order) THEN 0 ELSE section + 1

\* Mutant: the mutex of the section stays locked.
UnlockedNot == locked

Unlocked == locked \ {Kind}

\* The queue is empty: the lock goes out of scope, on to the next section.
UnlockQueue ==
    /\ section # 0 /\ step = "drain"
    /\ queue[Kind] = <<>>
    /\ locked' = Unlocked
    /\ section' = NextSection
    /\ step' = "lock"
    /\ UNCHANGED <<threadVars, cacheVars, queue, current, delivered>>

-----------------------------------------------------------------------------
Arrival == \E d \in Devices : \/ OnBeat(d)
                              \/ OnDeviceFound(d)
                              \/ OnDeviceLost(d)
                              \/ OnDeviceUpdate(d)
                              \/ OnMasterChanged(d)

CallbackStep == OnBeatStore \/ OnDeviceLostErase \/ OnDeviceUpdateStore

PushStep == OnBeatPush \/ OnDeviceFoundPush \/ OnDeviceLostPush
              \/ OnDeviceUpdatePush \/ OnMasterChangedPush

UpdateStep == LockQueue \/ Dispatch \/ RunListener \/ UnlockQueue

Next == Arrival \/ ForgetDevices \/ CallbackStep \/ PushStep \/ Update \/ UpdateStep

Spec == Init /\ [][Next]_vars

-----------------------------------------------------------------------------
(***************************************************************************)
(* Properties.                                                             *)
(***************************************************************************)

Call == [kind : Kinds, stage : {"idle", "store", "push"}, event : Event]

\* Every variable stays in its type.
TypeOK ==
    /\ call \in [Threads -> Call]
    /\ \A t \in Threads : call[t].stage # "idle" =>
           /\ Thread(call[t].kind) = t
           /\ call[t].event.device \in Devices
    /\ made \in [Kinds -> Nat]
    /\ devices \subseteq Devices
    /\ queue \in [Kinds -> Seq(Event)]
    /\ locked \subseteq Kinds
    /\ latestBeats \in [Devices -> Event]
    /\ lastBeat \in Event
    /\ latestStatuses \in [Devices -> Event]
    /\ section \in 0 .. Len(Order)
    /\ step \in {"lock", "drain", "listener"}
    /\ current \in Event
    /\ delivered \in [Kinds -> Nat]
    /\ cleared \in [Devices -> Nat]

\* The callback of kind k has begun and has not pushed its event yet.
InFlight(k) == IF call[Thread(k)].kind = k /\ call[Thread(k)].stage # "idle"
               THEN 1 ELSE 0

\* Exactly once, in order: the queue of a kind holds the events whose
\* callbacks returned and that update() has not dispatched, without a gap,
\* a duplicate or an exchange, whatever the threads do while it is drained.
ExactlyOnceInOrder ==
    \A k \in Kinds :
        /\ made[k] = delivered[k] + Len(queue[k]) + InFlight(k)
        /\ \A i \in 1 .. Len(queue[k]) : queue[k][i].id = delivered[k] + i

\* A listener of beatEvent that asks for the latest beat never gets an older
\* one than the beat it is handed, nor does anybody for a beat still queued:
\* onBeat stores before it pushes.  An erased entry is the only exception.
LatestBeatCoversQueue ==
    LET handed == IF section = 1 /\ step = "listener" THEN {current} ELSE {}
    IN  \A e \in handed \cup ToSet(queue["beat"]) :
            /\ lastBeat.id >= e.id
            /\ latestBeats[e.device] = NoEvent \/ latestBeats[e.device].id >= e.id

\* Likewise for getStatusFor, whose entries are never erased: a status handed
\* to a listener of deviceUpdateEvent or still queued is cached, or a newer is.
LatestStatusCoversQueue ==
    LET handed == IF section = 4 /\ step = "listener" THEN {current} ELSE {}
    IN  \A e \in handed \cup ToSet(queue["update"]) : latestStatuses[e.device].id >= e.id

\* The cached beat of a device is never older than the last beat that was
\* under way when onDeviceLost erased it: only that beat can come back.
OnlyInFlightBeatOutlivesLoss ==
    \A d \in Devices : latestBeats[d] = NoEvent \/ latestBeats[d].id >= cleared[d]

Forward ==
    /\ lastBeat' = lastBeat \/ lastBeat'.id > lastBeat.id
    /\ \A d \in Devices :
          /\ \/ latestStatuses'[d] = latestStatuses[d]
             \/ latestStatuses'[d].id > latestStatuses[d].id
          /\ \/ latestBeats'[d] = latestBeats[d]
             \/ latestBeats'[d].id > latestBeats[d].id
             \/ /\ OnDeviceLostErase /\ call["DeviceFinder"].event.device = d
                /\ latestBeats'[d] = NoEvent

\* getLatestBeat() and getStatusFor() never go back: a poll returns what an
\* earlier one did or something newer, whatever callbacks run in between.  Only
\* onDeviceLost takes a beat back, of its device; nothing takes back a status,
\* so that getStatusFor() of a device that is gone returns its last for ever.
CachesOnlyAdvance == [][Forward]_vars

(***************************************************************************)
(* The inductive invariant behind the safety properties.  PendingBeats and *)
(* PendingStatuses also count the event a callback has stored and not yet  *)
(* pushed, which is what makes the two cache properties inductive.         *)
(***************************************************************************)

Pending(k) == ToSet(queue[k])
                \cup {e \in {current} : section # 0 /\ step = "listener" /\ Kind = k}
                \cup {e \in {call[Thread(k)].event} : At(k, "push")}

\* The callback a thread is in is the newest of its kind.
InFlightIsNewest ==
    \A t \in Threads : call[t].stage # "idle" => call[t].event.id = made[call[t].kind]

\* What is pending is about a device of the network and was made before now.
PendingIsReal ==
    \A k \in Kinds : \A e \in Pending(k) : e.device \in Devices /\ e.id <= made[k]

\* The mutex of a queue is held just while its section is drained.
LockedSection ==
    locked = IF section # 0 /\ step # "lock" THEN {Kind} ELSE {}

BeatsCovered ==
    \A e \in Pending("beat") :
        /\ lastBeat.id >= e.id
        /\ latestBeats[e.device] = NoEvent \/ latestBeats[e.device].id >= e.id

StatusesCovered ==
    \A e \in Pending("update") : latestStatuses[e.device].id >= e.id

ClearedInPast ==
    \A d \in Devices : /\ cleared[d] <= made["beat"]
                       /\ latestBeats[d] = NoEvent \/ latestBeats[d].id >= cleared[d]

IInv == /\ TypeOK
        /\ ExactlyOnceInOrder
        /\ InFlightIsNewest
        /\ PendingIsReal
        /\ LockedSection
        /\ BeatsCovered
        /\ StatusesCovered
        /\ ClearedInPast

\* The object implements the channels: a callback publishes when it pushes,
\* and the batch of a kind is what its queue holds when update() locks it.
Channel == INSTANCE EventChannel WITH pending <- queue, serving <- locked

ImplementsEventChannel == Channel!Spec

\* The event of the callback of kind k, once an application can see what the
\* callback did: onBeat has stored, DeviceFinder has changed its table.
Seen(k) == IF At(k, "push") \/ (k = "lost" /\ At(k, "store"))
           THEN call[Thread(k)].event ELSE NoEvent

\* What makes it so: the bounds hold, only some kinds of callback store before
\* they push, and those of VirtualCdj need it.
CallbacksOfKind ==
    /\ \A k \in Kinds : made[k] <= MaxEvents[k]
    /\ \A t \in Threads :
          /\ call[t].stage = "store" => call[t].kind \in {"beat", "lost", "update"}
          /\ call[t].stage # "idle" /\ call[t].kind \in {"update", "master"} => HasVirtualCdj

\* The object implements the feed of the applications: update() empties the
\* queues in the order of its sections, and lastBeat_ and the device table
\* change no later than the event is pushed that tells of it.
Feed == INSTANCE EventFeed
          WITH pending <- queue, serving <- locked,
               coming <- [k \in {"beat", "found", "lost"} |-> Seen(k)]

ImplementsEventFeed == Feed!Spec
=============================================================================
