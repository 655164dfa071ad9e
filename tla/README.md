# A TLA+ model of ofxBeatLink

ofxBeatLink is an openFrameworks addon for the Pioneer DJ Link protocol. It
wraps the receive threads of beat-link-cpp and hands their events to the main
thread of an application. These modules model its concurrency: the delivery of
events, the calls that start and stop it, and the thirteen example applications
that keep state from its events; and, beside that, the state machines of the
thirteen that browse rekordbox databases. TLC checks small instances; TLAPS
proves all the safety properties but one for every instance.

Paths below are relative to the repository root, which the manifest calls
`src/`: `src/ofxBeatLink.cpp` here is `src/src/ofxBeatLink.cpp` there.

## 1. Inventory

### The addon (`src/ofxBeatLink.h`, `src/ofxBeatLink.cpp`)

| Part | State | Operations |
|---|---|---|
| Receive callbacks | - | `onBeat`, `onDeviceFound`, `onDeviceLost`, and two lambdas of `startVirtualCdj`; they run on the threads of beat-link-cpp |
| Event queues | five `std::queue`, each with a mutex | pushed by the callbacks, emptied by `update()` |
| Caches | `latestBeats_`, `lastBeat_`, `latestStatuses_`, two mutexes | written by the callbacks, read by `getLatestBeat`, `getStatusFor`, `getCurrentStatuses` |
| Dispatch | - | `update()`: five sections, one per queue, each under the mutex of its queue while `ofNotifyEvent` calls the listeners |
| Lifecycle | `running_`, `virtualCdjRunning_`, the listeners registered with beat-link-cpp | `start`, `stop`, `startVirtualCdj`, `stopVirtualCdj`, the destructor |
| Queries | - | `getCurrentDevices`, `getTempoMaster`, `getMasterTempo`: ask beat-link-cpp |
| Conversions | - | `convertBeat`, `convertDevice`, `convertCdjStatus`: copy fields |

How they interact: a packet makes a receive thread call the listeners registered
with its singleton (DeviceFinder, BeatFinder, VirtualCdj; one of each per
process). The callback writes a cache, then a queue. The main thread calls
`update()` in every frame, and the listeners of the application run inside it,
with the mutex of one queue held. `stop()` waits for the receive threads.

What is hard: three threads push while the main thread drains; a listener may
look at a cache that another thread is about to change; found and lost devices
wait in two queues; a start fails half way; a stop waits for a thread that may
wait for the main thread; callbacks hold a bare `this` that the destructor
invalidates; the singletons are shared by all objects of the process. The manifest
lists each of these at its line.

What makes it correct:

- every event reaches the listeners of its kind, once, in order;
- a cache is never behind an event that is queued or being handed over;
- nothing calls into a destroyed object, a running object is listening, and a
  stopped one is quiet and queues nothing;
- every event is delivered in the end, unless its object is destroyed;
- `update()` and every call return.

### The applications (`example-*/src/ofApp.cpp`, 26 of them)

| Group | Applications | State |
|---|---|---|
| maps of players | virtualcdj, cdjstatus, statusmonitor, multidevice, waveform | a map entered by found, erased by lost, with the last beat and status of each |
| slots | comprehensive | four slots by device number, with a bounded history of beats |
| lists | basic, timeline | a vector that grows with found, which a key refreshes; two bounded histories of beats |
| counters | osc, beatsync, metronome, bpm-display, ableton-link | an `int` changed by found and lost, the latest beat, a bridge to Ableton Link |
| rekordbox viewers | cue-points, song-structure, beat-grid, color-waveform, 3band-waveform | a database and a folder of ANLZ files, a track list with a cursor and a window, the data of one track, a playhead |
| rekordbox details | track-detail, loop-viewer, artwork | a folder with both, a sorted list, a loop or a picture beside the cursor |
| rekordbox browsers | rekordbox-browser, bpm-search, playlist-browser, tag-browser | views, a tempo range, or panels that follow each other |
| key wheel | key-wheel | keys placed on a wheel by their names, one selected, its tracks |

Most of their code is drawing, of which the model keeps what is shown and not
how. What can go wrong in them
is state that follows events or keys: a map that no longer is the network, a
count that drifts, a panel that shows the device of before, a
cursor outside its list or its window, a selection that survives a reload.

### Not in the repository

beat-link-cpp and crate-digger-cpp are submodules whose directories are empty.
They are modelled as external, from how the addon and the examples use them. `libs/asio-include`
is third-party.

## 2. Modules

| Module | What it is |
|---|---|
| `EventChannel` | abstract specification: one first-in first-out channel per kind, emptied in batches |
| `BeatLinkEvents` | the callbacks, queues, caches and `update()`; implements `EventChannel` |
| `BeatLinkEvents_proofs` | theorems about it |
| `BeatLinkLifecycle` | start, stop and destruction of any number of objects over the three singletons |
| `BeatLinkLifecycle_proofs` | theorems about it |
| `BeatLink` | both together, for one object; calls between two updates, or by a listener |
| `BeatLink_proofs` | theorems about the two together |
| `EventFeed` | abstract specification of the same for an application: the network, callbacks, queues by section, no mutexes and no caches but the last beat; `BeatLinkEvents` implements it |
| `DeviceApp` | what the thirteen applications that show devices share: a frame, the listeners' place in it, keys |
| `PlayerMonitor` | virtualcdj, cdjstatus, statusmonitor, multidevice, waveform |
| `WaveformPlayer` | the playheads of waveform, over its players |
| `DeviceSlots` | comprehensive |
| `DeviceLists` | basic, timeline |
| `DeviceCounters`, `LinkBridge` | osc, beatsync, metronome, bpm-display; ableton-link |
| `DeviceApps` | the thirteen together, their properties, and the inductive invariant behind these |
| `DeviceApps_proofs` | theorems about them |
| `ListWindow`, `ListWindow_proofs` | a highlight and the window that scrolls with it: the arithmetic of the cursor keys |
| `RekordboxApp` | what the rekordbox applications share: database, list, cursor, selected track, its data |
| `TrackViewers` | the five viewers |
| `TrackDetails` | track-detail, loop-viewer, artwork |
| `ListBrowsers` | rekordbox-browser and bpm-search |
| `PanelBrowsers` | playlist-browser and tag-browser |
| `KeyWheel` | key-wheel |
| `RekordboxApps` | the thirteen together |
| `TrackApps_proofs` | the invariants of `TrackViewers` and `TrackDetails` |
| `BrowserApps_proofs` | the invariants of `ListBrowsers` and `PanelBrowsers` |
| `RekordboxApps_proofs` | the invariant of `KeyWheel`, and theorems about the thirteen |
| `MCBeatLinkEvents`, `MCBeatLink`, `MCDeviceApps` | instances for TLC: how many callbacks of each kind |
| `MCRekordboxApps` | small databases for the thirteen rekordbox applications |

### BeatLinkEvents

An event is the device it is about and the position of its callback among those
of its kind; the position stands for the payload and is what lets the properties
speak of order, loss and age. A callback is a step per critical section:
`Enter` (the thread is in the callback, the event is converted), `...Store` (the
cache, under its mutex), `...Push` (the queue, under its mutex). `update()` is
`Update` (called), `LockQueue`, `Dispatch` (front, pop, up to the listeners),
`RunListener` (they return) and `UnlockQueue` (queue empty, next section).

The mutexes of the caches are never held across another step, so a section
under one is atomic. The mutex of a queue is held by the main thread across many
steps; `locked` is the set of those it holds, and `Push` waits for it.

`devices` is the table of DeviceFinder: a device is announced found when it
enters the table and lost when it leaves. `ForgetDevices` is the table being
emptied without announcements when DeviceFinder is stopped. `made`, `delivered`
and `cleared` are history.

### BeatLinkLifecycle

A call is a chain of steps; `pc` is the place it has reached, and the receive
threads run at every place. `listeners` counts registrations, because the code
can register an object twice; `todo` is what a thread still has to call for the
packet it is handing on. `Quiet` is what `stop()` of a singleton waits for.
`Instances` are the objects of the process, each with its flags and its
registrations; the singletons, and the main thread that makes all calls, are
shared. `failed` counts the starts that failed since the listeners of a singleton were
cleared; `silenced` is the objects that count a singleton as started while
`stop()` of another has stopped it. Both are history.
`StopVirtualCdj` and `Destroy` contain what the code does before it first waits.

Assumed of beat-link-cpp: `start()` of a singleton that is up succeeds, `stop()`
returns only when its thread has left its callbacks, one thread per singleton
makes all of its calls. The destructor of ofxBeatLink relies on the second.

### BeatLink

`Callback` is at once the entry of a callback in `BeatLinkEvents` and of a thread
into the object in `BeatLinkLifecycle`; `Return` is the push and the leave.
VirtualCdj also calls its listeners for packets they ignore, an update that is not
of a CDJ and the news that there is no master: those leave no trace. A
call is made when `update()` is not running (`AppCall`) or from a listener
(`ListenerStops`, for the kinds in `StoppingKinds`), and `update()` does not go
on while the call is in progress: both are on the main thread.

### The applications that show devices

They are built on `EventFeed` and not on `BeatLinkEvents`, whose mutexes, stages of
callbacks and caches per device no application can see: a callback is one step
that changes the device table or the last beat, and one that pushes its event.
`events_safety` checks that `BeatLinkEvents` implements the feed (`Feed`,
`ImplementsEventFeed`), so that what holds of an application over every feed holds
of it over the addon.

`app` is the application a behaviour is of. A frame is `BeginFrame`, which is
`beatLink.update()` being called, the deliveries, each with the listener of the
application as a conjunct (`Listener`), and `EndFrame` with the rest of
`ofApp::update()`; keys come between two frames. The listeners of all applications
run on the main thread and touch its state alone, so a delivery and its listener
are one step.

`overtaken` records the devices announced again, found or lost, before the
application had the announcement before; `doubled` the devices of example-basic
that a refresh listed while their arrival was queued; `hidden` the losses that
found a count at zero; `lossSeen` how far the application was when it was told of
a loss. All are history.

- `PlayerMonitor`: the listeners are those of example-virtualcdj, of which each
  other application has some. `PlayingTimeout` leaves open when two seconds are over.
- `WaveformPlayer`: a frame is one unit of time, a position the units that the
  tempo crosses. `onBeat` of a playhead is whether a beat was handed over in this
  frame, so that `lastBeatTime` is the time of the frame.
- `DeviceSlots`: a slot is found by number, connected or not; `Status` may set the
  title, which nothing resets; nor does a loss take the beat history and
  `masterDeviceNumber`. `AskMaster` is the poll in `update()`.
- `DeviceLists`: the vector of example-basic is kept as the number of entries of each
  device, since no operation depends on their order. `Refresh` is the key 'r' of example-basic. The same key of virtualcdj,
  cdjstatus and statusmonitor only logs a number, and is left out.
- `DeviceCounters`: `Less` is `std::max(0, n - 1)`. `AskBeat` is the poll of
  `getLatestBeat()` in bpm-display; `OscRate` the messages of the last second and
  `Logged` the log, both of example-osc.
- `LinkBridge`: example-ableton-link as built with `USE_ABLETON_LINK`; `linkCalls` is
  what the last `updateLink()` called on the session.

### The rekordbox applications

They have no threads. A step is one callback of openFrameworks: a key, a file
that is dropped, a click, an `update()`. What makes them hard is the order of
these: a database replaces another while a row, a view, a loop, a range or a key
of the old one is selected, and lists may be empty or shorter than the window.

`app` is the application a behaviour is of; `RekordboxApp` has the variables all
of them have under other names (`selectedIndex`, `scrollOffset`, `currentTrack`),
and each module adds those of its group. Indices count from 0 as in the code, and
are -1 where the code makes them -1. A database is a model value; what
crate-digger-cpp finds in it are constants.

- `ListWindow`: each operator is the branch of one key. `Up` looks at the upper
  edge of the window only and `Down` at the lower one, as the code does, so
  neither repairs a cursor that was left over from another list.
- `TrackViewers`: `Show` is `selectTrack`. `anlzLoaded` is the flag that is never
  reset, `anlz` whether the files of this database object were loaded. `Move`,
  `LoadDatabase` and `LoadAnlzFolder` each contain the `selectTrack` the code ends
  them with. `Wanderers` are the three applications that do not reset the cursor.
- `TrackDetails`: `SelectTrack` clamps the index and moves the window. `std::sort`
  leaves equal rows in any order, and `Lists` is the set of the results.
- `ListBrowsers`: a view is an index into `Views`; the search is part of every key
  and load that makes one.
- `PanelBrowsers`: `Filled` and `Moved` are the chain `selectCategory`, `selectTag`, which
  ends where a list is empty.
- `RekordboxApps`: a step is one of one application, and leaves the variables of the
  other groups alone; its `AppsSpec` is what the runs check and the theorems are of.
- `KeyWheel`: `Placed` matches names as `std::string::find` does. Angles are counted
  in halves of a segment, which is as fine as drawing and hit test differ.

## 3. What is checked

| Run | Instance | Shows |
|---|---|---|
| `events_safety` | two devices; two beats, a device found and lost, and a status or a new master | `ExactlyOnceInOrder`, `LatestBeatCoversQueue`, `LatestStatusCoversQueue`, `OnlyInFlightBeatOutlivesLoss`, `CachesOnlyAdvance`, `ImplementsEventChannel`, `ImplementsEventFeed`, `TypeOK` |
| `lifecycle_two` | two objects, a failed start each | `OnlyFailedStartsDangle`, `RunningIsListening`, `StoppedIsQuiet`, `RegistrationsCountStarts`, `CallsReturn`, `TypeOK` |
| `link_calls` | one device and one callback of each kind; listeners of VirtualCdj events may stop | `NoWaitCycle`, `NothingQueuedOnceStopped`, `DeliveredUnlessDestroyed`, `MainThreadReturns` |
| `device_apps` | thirteen applications, one at a time; devices 1 and 5, of which 5 has no slot; up to four callbacks of two beats, two found, a lost, a status and a new master | `DisplayFollowsNetwork`, `LossTakesBeatAndStatus`, `CountFollowsNetwork`, `EventsMatchPoll` |
| `rekordbox_apps` | thirteen applications, one at a time; three databases, ANLZ files for some tracks | see below |

`rekordbox_apps` checks, for the viewers, `HighlightDrawn`, `HighlightShown`,
`DataOfTrack`, `DataShownOnceLoaded` and `PlayheadInData`; for the details,
`LoopInTrack` and `ArtworkOfHighlight`; for the browsers, `TrackOfDatabase`,
`RangeOrdered`, `ResultsInRange`, `PanelsFollow` and `PanelHighlightDrawn`; for the
wheel, `SelectedKeyOnWheel`, `MinorKeysPlaced` and `CompatibleBothWays`, the last
two over all names and all places of the wheel; and `AppTypeOK`.

Seven runs end in a violation, and each is a finding of the manifest:

- `lifecycle_retry`: a start that fails leaves its listeners registered, so after
  the start that succeeds every beat is delivered twice.
- `lifecycle_destroyed`: an object whose start failed is destroyed with its listeners
  registered, because the destructor calls `stop()`, which returns at once; when
  another object starts, the threads call into the first.
- `link_listenerstops`: `stop()` in a listener of `beatEvent` deadlocks with the
  beat thread, because `update()` holds the mutex of the queue.
- `monitor_overtaken`: lost and found again between two updates is delivered as
  found, lost, and the application drops a device that is there.
- `link_downbeat`: example-ableton-link never resets the beat of the Link session,
  because the flash it tests against 0.9 has decayed to 0.9 by then.
- `keywheel_rings`: eleven of the twelve major keys of the table are placed among
  the minor keys, because their names are parts of minor names.
- `keywheel_click`: a segment is drawn half a segment before the angles that
  select it.

`DisplayFollowsNetwork` excepts `overtaken` and `doubled`, and `CountFollowsNetwork`
allows for `hidden`; without the exceptions both fail, and the first of these
failures is the finding of `monitor_overtaken`.

`LossTakesBeatAndStatus` is about what `onDeviceLost` clears: the beat and the status
on display, `isPlaying` of example-statusmonitor, `currentMaster` of
example-virtualcdj. Beyond it, and on display when a device returns, are what
example-comprehensive keeps (track title, beat history, `masterDeviceNumber`), a status
that is delivered after the loss, and a change of master that was queued at the loss.
The model has all of these; no document says that a device returns without them, so
they are hazards of the manifest with no property.

`CachesOnlyAdvance` also says what is never cleared: nothing takes a status out of
`latestStatuses_`, and a loss takes no beat but that of its device.

`OnlyFailedStartsDangle` is `NoCallIntoDestroyed` with the exception that
`lifecycle_destroyed` shows to be needed, and `RunningIsListening` excepts what is
`silenced`: `stop()` of one object clears the listeners of the other, whose
`isRunning()` stays true. No document says that two objects are supported, so this
is a hazard and not a finding.

One more disagreement is proved for every instance instead of being run: at
`example-waveform/src/ofApp.cpp:236` a comment says "Reset playhead on downbeat (bar
start)", at line 238 another says "Keep relative position within the waveform", and
the `fmod` below them does neither. It takes whole bars away, so that the playhead is
elsewhere in the waveform and as far into a bar as it was; no downbeat ever puts it at
the start of one (`OnlyFramesMoveWithinBar`). As `onBeat` sets `lastBeatTime` inside
`beatLink.update()`, the time between the last frame and that delivery is in no frame,
and what a playhead lags behind by that is never made good.

One place where code and comment differ is arguable either way:
`example-metronome/src/ofApp.cpp:285`, "alternates on each beat", is the parity of
`beatWithinBar`, which does not alternate where two players are heard.

Properties that hold under a condition only, where nothing in the repository
says more: the highlight in the three wanderers, the panels below an empty first
one, the selected key after a load. The manifest lists each as a hazard.

**Bounds.** `MaxEvents` bounds the callbacks of each kind. Two beats are enough
for one to be cached, or to wait for the mutex, while the other is queued or
dispatched; one found and one lost are enough for a loss to race a beat; a
second found lets a device come back. Order and loss within a queue need two
events. In `events_safety` there is one of a status and a new master
(`OneOfVirtualCdj`): both are callbacks of the thread of VirtualCdj, each with a
queue of its own, and the order of their sections is checked with the last of them
waiting. `link_calls` needs every thread to meet every mutex, which one callback of
each kind does; that is also enough for the delivery of each, since what delays a
second one delays a first. `MaxFailed` bounds failed starts in a row, 1 for each of
two objects and 2 in `lifecycle_retry`; the next is like the one before. In
`link_calls` it is 0: a failed start doubles the callbacks of each packet, and the
bound of one beat would cut the second one off. Two objects are enough for one to
stop, silence or outlive the other; the theorems hold for any number.

`device_apps` has four callbacks in all (`MaxTotal`): enough for a device to come, go
and come back with a beat or a status before or after, for two beats to fill a
history of one, and for two devices to come and one to go. The four panels and slots
are those of the code. The waveform has two bars of four units and the tempi 1
and 3, so that the playhead crosses its end, on a bar line or past one, and a beat
finds it in all places. The log of example-osc has two lines, one fewer than
the messages of an instance.

The rekordbox applications have a window of two rows and databases of four
tracks, one and none: longer than the window by a page, shorter than it, and
empty, in every order. ANLZ data of each kind is missing for some track, tracks
have no, one or two loops, titles are equal or not, panels have children with and
without children. The range of tempi is 1 to 8 with steps of 1 to 3, so that each
clamp is met from both sides. Keys lie beside each other across the top of the
wheel. All numbers of the code that are constants (15 rows, 20 to 300 BPM) are
constants of the modules.

**Deadlock** is checked in `events_safety` and in the runs of the device and the
rekordbox applications: the main thread can always call `update()`, and a database
can always be dropped. It is off where an object is destroyed for good.

**Fairness.** The receive threads and the main thread are scheduled (weak
fairness on their steps), listeners return (on `RunListener`, within
`UpdateStep`), and the application keeps calling `update()`: openFrameworks calls
`ofApp::update()` in every frame, and the header asks for the call there.
Acquiring a queue's mutex is strongly fair: the main thread locks and unlocks
it in every frame, so the push is enabled again and again but not
continuously, and a `std::mutex` that starves a waiter for ever is not a mutex the
code could live with. In `BeatLink`, where calls come between two updates,
`SystemUpdate` is strongly fair for the same reason: it is enabled after each call
and disabled in the next, and an application that calls `start()` and `stop()` for
ever without a frame in between is none. Packets, calls and failures are under no
fairness.

## 4. What is proved

Eight modules hold theorems. Each has an inductive invariant, stated beside the
properties in the module it is about or at the head of the proofs, and TLC
checked each on the constants of the runs before it was proved.

### The addon

`BeatLinkEvents_proofs` proves, for any set of devices, any number of callbacks
and both values of `OFX_BEATLINK_HAS_VIRTUALCDJ`:

| Theorem | Of |
|---|---|
| `TypeCorrect` | `TypeOK` |
| `IInvHolds` | the inductive invariant `IInv` |
| `EventsExactlyOnceInOrder` | `ExactlyOnceInOrder` |
| `LatestBeatNeverBehind` | `LatestBeatCoversQueue` |
| `LatestStatusNeverBehind` | `LatestStatusCoversQueue` |
| `NoOlderBeatOutlivesLoss` | `OnlyInFlightBeatOutlivesLoss` |
| `RefinesEventChannel` | `ImplementsEventChannel` |
| `RefinesEventFeed` | `ImplementsEventFeed` |
| `OneUpdateDelivers` | what was queued before `update()` left the section of its kind is delivered when it returns |
| `CachesNeverGoBack` | `CachesOnlyAdvance` |

The assumptions are the three `ASSUME`s of `BeatLinkEvents`: devices have positive
numbers (0 is the number of an event that never happened), the flag is Boolean,
the bounds are natural numbers.

The argument. `LatestBeatCoversQueue` is not inductive: it says nothing of a beat
that a thread has stored and not yet pushed, and the push would break it.
`IInv` therefore speaks of `Pending(k)`, which adds that event, and of the facts
the steps need: the callback a thread is in is the newest of its kind
(`InFlightIsNewest`), so the store never goes back; what is pending is about a
device of the network and was made before now (`PendingIsReal`), so a newer store
covers it; the mutex of a queue is held exactly while its section is drained
(`LockedSection`), so the queue in service does not change under the main thread;
and erasures are in the past (`ClearedInPast`). The proof has one step per action
and, under it, one per conjunct the action disturbs. The refinement maps the
queues to the channels and `locked` to the batch in service; `LockedSection` gives
the guards of `Take` and `Finish`, `ExactlyOnceInOrder` the positions that
`Publish` and `Deliver` fix. The refinement of `EventFeed` maps a callback whose
effect an application can see (`Seen`) to one that is coming, and needs, beside
these, `CallbacksOfKind`: the bounds hold, and only the callbacks that the code gives
a cache store before they push.

`OneUpdateDelivers` is a safety property: `update()` may take for ever, but does not
return early. It is stated of the steps that follow a state: if `n` events of a
kind have been queued and the section of that kind is not over, every step with which
`update()` returns (`Returns`) has `n` of them delivered. `Due` is kept by every step: only
`UnlockQueue` leaves a section, and with an empty queue, when all that was ever
queued (`Pushed`) is delivered. No run checks it, as a run would need `n` in its state.
`CachesNeverGoBack` needs `InFlightIsNewest` and `CachesInPast`: a cached event was made
before the one a thread is about to store. The exception is the erase by `onDeviceLost`,
of the beat of that device; there is none for statuses, which nothing erases.

`BeatLinkLifecycle_proofs` proves, for any objects and any number of failed starts:

| Theorem | Of |
|---|---|
| `TypeCorrect` | `TypeOK` |
| `Invariant` | the inductive invariant `IInv` |
| `NoOtherCallOutlives` | `OnlyFailedStartsDangle` |
| `NoCallIntoDestroyedUnlessFailed` | `NoCallIntoDestroyed`, if no start fails |
| `RunningObjectsListen` | `RunningIsListening` |
| `StoppedFindersAreQuiet` | `StoppedIsQuiet` |
| `RegistrationsAreStarts` | `RegistrationsCountStarts` |
| `RunningAloneIsListening` | `RunningIsListening` without its exception, if there is one object |
| `AloneIsNotCalledOnceDestroyed` | `NoCallIntoDestroyed`, if there is one object |
| `CallsCountFailedStarts` | `CallsPerPacket`: a packet calls an object once for the start that succeeded and once for each that failed |
| `OneCallUnlessFailed` | `OneCallPerBeat`, if no start fails |

The last four say how far the findings and exceptions above reach. Nothing can
silence an object that is alone, as each is in the examples; and though a start that
fails leaves its listeners registered, once the object is destroyed there is
nobody to bring the finders up: every singleton is down (`UpForUsers`) and quiet
(`DownIsQuiet`). `lifecycle_destroyed` needs its second object. `lifecycle_retry` needs
its failed start, and what it shows has no bound: a beat is delivered once more for
each start that failed since the listeners were last cleared.

The properties speak of the places between two calls, or of what a thread is in; the
invariant of every place of every call. `CallPlaces` is what is known of the caller,
`Registrations` counts those of each object with the ones the call in progress
has made or taken back, `UpForUsers` says when a singleton is up, `DownIsQuiet`
that one that is down is waited for or in no callback, and `CallsOwned` that a
callback is into an object that runs, starts, or has failed to.

`BeatLink_proofs` proves, of the composition:

| Theorem | Of |
|---|---|
| `StopFromVirtualCdjListeners` | `NoWaitCycle`, if `StoppingKinds` is within "update" and "master" |
| `QueuesOnlyDrainOnceStopped` | `NothingQueuedOnceStopped` |
| `SystemImplementsFeed` | `ImplementsEventFeed` |
| `SystemEventsExactlyOnce` | `ExactlyOnceInOrder` |
| `SystemLeavesNoCall` | `NoCallIntoDestroyed`, of the one object, whatever starts fail |
| `SystemUpdateDelivers` | `OneUpdateDelivers`, also where listeners call `stop()` in between |
| `SystemCachesOnlyAdvance` | `CachesOnlyAdvance`, over `stop()` and the next `start()` too |

A step of the system is a step of each component, or leaves it alone: so it is written,
and two lemmas say so (`SystemRunsEvents`, `SystemRunsCalls`). By them, all that is
proved of `BeatLinkEvents` and of `BeatLinkLifecycle` holds in the system; the last
five theorems are instances of that. The proofs of `NoWaitCycle` and `NothingQueuedOnceStopped` use both invariants.
A thread whose users have stopped is in no callback (`DownIsQuiet`), and only the
return from one pushes. The only call made within `update()` is `stop()` in
a listener (`CallsInListeners`), while the one mutex held is that of the kind
being dispatched (`LockedSection`), which the threads it waits for do not want.
Without the condition on `StoppingKinds` the theorem is false: `link_listenerstops`.

### The applications that show devices

`DeviceApps_proofs` proves, for any devices, any choice of the applications and any
number of callbacks, of the specification the run `device_apps` checks:

| Theorem | Of |
|---|---|
| `CountsAreOfNetwork` | `CountFollowsNetwork` |
| `BeatAndStatusAreSinceLoss` | `LossTakesBeatAndStatus` |
| `PanelsFollowNetwork` | `DisplayFollowsNetwork` |
| `KeptBeatIsPolled` | `EventsMatchPoll` |
| `OnlyFramesMoveWithinBar` | only time moves a playhead of example-waveform within its bar, and no beat |
| `ListenersAreServedInOrder` | every behaviour is one of `EventChannel` |
| `OneFrameDelivers` | what was queued when a frame begins is delivered when it ends |
| `LinkBeatIsNeverSet` | the beat of the Link session is never set, which `link_downbeat` shows of one downbeat |

The argument has two layers. Of the feed: the events of a queue are numbered
without a gap (`FeedOK`), and a device that was not overtaken is announced at most
once, and as what it is (`OneAnnouncement`). `Told` is then the set of devices that an
application which follows its events takes to be there: those of the network but for
the arrivals under way, and the losses under way. No callback changes it for such a device,
a delivery changes it for the device that is announced. Of the applications:
panels and slots hold just `Told` (`PanelsOK`); a count is the number of `Told`
as long as nothing was overtaken, and always satisfies

    deviceCount + found under way = |devices| + hidden + lost under way   (CountOK)

so that each is right once nothing is under way. `ForgetOK` says that the last beat
and the status kept of a device are numbered past what `lossSeen` recorded at its last
loss, and so is the master of example-virtualcdj.

The list of example-basic follows its events or the device table, by a key.
`EntriesOK` is therefore weaker than `PanelsOK`: one entry for each device of `Told`
and none for others, but for the devices whose loss is under way, which a refresh has
taken out already, and those that a refresh doubled.

`KeptBeatIsPolled`: the cached beat is the newest there was, and is the last of the
queue when none is coming (`BeatOK`); what an application keeps of its events is the last beat
that was delivered (`BeatsKept`), in a history, in a slot, or in the log of
example-osc among other lines. Both are about the last element of a sequence that
grows at its end and is cut at its front (`Recent`), never about the rest of it, and
need no induction.

`OnlyFramesMoveWithinBar`: a playhead is within the waveform and a tempo crosses a bar
at most (`HeadsOK`); the end of the waveform is a bar line, and so is the place a
downbeat takes whole bars away from, so that both leave the remainder modulo a bar
alone (`DownbeatKeepsPhase`, `FrameKeepsPhase`). `WaveformAssumption` has the bounds:
there is a bar, and no tempo crosses more than one of four beats in a frame, for which
300 BPM would need a frame of 0.8 seconds.

An application sees a feed (the lemma `AppsRunOnFeed`, by the form of its steps), and
`BeatLinkEvents` implements it (`RefinesEventFeed`), also while the application starts
and stops it (`SystemImplementsFeed`).

`OneFrameDelivers` has the argument of `OneUpdateDelivers`, one level up: an application
calls `update()` once in a frame, at its start (`FrameOK`), so that what waits is
late by one frame at most.

`LinkBeatIsNeverSet`: `beatAlpha` is what the decay leaves of it when `updateLink()` tests
it against 0.9, and the decay takes at least 0.1 of what `onBeat` sets (`BridgeInv`).

### The rekordbox applications

`ListWindow_proofs` proves, for lists and windows of any size, that the four cursor
keys keep a highlight in its window (`KeysFit`), that a selection does
(`SelectFits`), that a selection of row 0 makes any cursor fit any list
(`SelectFirstFits`), and that a highlight that fits is drawn (`FitsIsDrawn`). The
proofs are linear arithmetic.

`TrackApps_proofs`, `BrowserApps_proofs` and `RekordboxApps_proofs` build on them, for
any databases, data, lengths, limits and steps. The theorems are of `AppsSpec`, the
specification the run `rekordbox_apps` checks, with any of the thirteen applications:

| Theorem of `RekordboxApps_proofs` | Of |
|---|---|
| `TypesAreKept` | `AppTypeOK` |
| `HighlightStaysDrawn` | `HighlightDrawn` |
| `DetailsFollowHighlight` | `HighlightShown` |
| `DataIsOfTrack` | `DataOfTrack` |
| `DataIsShown` | `DataShownOnceLoaded` |
| `PlayheadStaysInData` | `PlayheadInData` |
| `LoopStaysInTrack` | `LoopInTrack` |
| `ArtworkIsOfHighlight` | `ArtworkOfHighlight` |
| `DetailsAreOfDatabase` | `TrackOfDatabase` |
| `RangeStaysOrdered` | `RangeOrdered` |
| `ResultsAreCurrent` | `ResultsInRange` |
| `PanelsAlwaysFollow` | `PanelsFollow` |
| `PanelHighlightsDrawn` | `PanelHighlightDrawn` |
| `SelectedKeyStays` | `SelectedKeyOnWheel` |
| `CompatibilityIsMutual` | `CompatibleBothWays`, without an assumption |
| `MinorKeysArePlaced` | `MinorKeysPlaced`, without an assumption |
| `KeysOfTableArePlaced` | `KeysOfTable`: where the wheel puts the 24 keys of its table, the negation of `KeysOnTheirRing` in eleven cases |
| `ClicksAreOffByHalf` | `ClicksOffByHalf`: which half of a drawn segment selects its key |

Each group has one inductive invariant, because the properties need each other, and
`AppsInv` is that of the group of the application that runs, with what holds of the
shared variables in all (`AppTypeOK`, `DataOfTrack`, `RangeOrdered`). A step of one
group leaves the rest alone, so its proof is one case per group.

- `ViewerInv`: the details are those of the highlight because the highlight is a row
  (`HighlightDrawn`), the data is complete because files of a database are looked
  for once any were loaded (`FilesAreLookedFor`), and the playhead stays in the data
  because all data is of one track (`DataOfTrack`).
- `DetailInv`: the loop is in its track because all tracks that are listed have one
  (`ListedHaveLoops`) and the highlight is a row.
- `BrowserInv`: a track is of the database because the list is (`ListOfView`), and
  the result of a search is a list because the range is in order.
- `PanelInv`: the panels follow because a highlight that fits a list without rows can
  go nowhere, and the others carry the next panels with them.
- `WheelInv`: placing and sorting keys loses none and adds none (`KeyListsType`), so that
  a row has a key of the database and its tracks. A click selects the first key at
  its place, which exists by well-foundedness (`LeastNatural`).

`MinorKeysArePlaced` and `KeysOfTableArePlaced` are about the search for a name among
names. A name is a sequence of characters of which the first is a capital and only
the last can be an "m"; so one name is in another just if it is its beginning, and a
minor name is in no other. The table lists the minor keys before the major ones, and
`LeastNatural` gives the first entry that fits. By these two and `ClicksAreOffByHalf` the
findings of `keywheel_rings` and `keywheel_click` are no matter of the keys a run loads:
any database with such a key has them.

The assumptions are the `ASSUME`s of the modules: a window has a row, lengths and
numbers of loops are natural numbers, the first range is in order and inside its
limits, a database has finitely many keys, and what crate-digger-cpp returns as a
list is one.

### Only model-checked

Liveness, which is outside the reach of the prover: `CallsReturn`,
`DeliveredUnlessDestroyed`, `MainThreadReturns`. Every invariant and every action
property of the passing runs is proved, `NoWaitCycle` under its condition. The properties
of the runs that end in a violation are false; for four of the seven a theorem above says
how far the finding reaches (`OneCallUnlessFailed` and `CallsCountFailedStarts` for
`lifecycle_retry`, `NoCallIntoDestroyedUnlessFailed` and `AloneIsNotCalledOnceDestroyed` for
`lifecycle_destroyed`, `StopFromVirtualCdjListeners` for `link_listenerstops`,
`CountsAreOfNetwork` and `PanelsFollowNetwork` for `monitor_overtaken`), and for the other
three one says that it is met everywhere (`LinkBeatIsNeverSet`, `KeysOfTableArePlaced`,
`ClicksAreOffByHalf`).

## 5. Not modelled

Logging, layout, colours and animation, except for the angles of the key wheel, the
flash of ableton-link, the playheads and which device, beat and status a panel
shows; the fields of events beyond device and order; the network and its packets
before beat-link-cpp calls a listener; the rekordbox parser (crate-digger-cpp, not in
the repository); a listener that calls `update()` (a second lock by the same thread is
undefined behaviour); calls from several threads (openFrameworks and all examples
make them from one); reads at index -1, or past the keys of the wheel, whose
outcome is undefined (the model has the states in which they happen).

Of the components that are partly modelled, what is left out changes no state a
property could be about:

- the queries `getCurrentDevices`, `getTempoMaster` and `getMasterTempo` return what
  beat-link-cpp says, and the conversions copy fields;
- display state that only decides what is drawn where: zoom and scrolling of timeline
  and beat-grid, the stacking of 3band-waveform, the histogram of bpm-search, the
  hovered key of key-wheel, the toggles of timeline, metronome and comprehensive;
- animation by elapsed time: beatsync, metronome, comprehensive, basic;
- numbers without control: the phases and tempi of ableton-link;
- data nothing sets: the loaders of example-comprehensive for waveform, cue points and
  phrases are never called;
- `export.pdb` in tag-browser, whose titles are only drawn.

`libs/asio-include`, most of the lines of the repository, is third-party code that
no other source file of the repository includes.

## 6. Plan

Done: the addon with its proofs, for one object and for many; all applications; the
proofs of all safety properties. What would come next:

1. A model of beat-link-cpp and crate-digger-cpp from their own sources, where these
   are at hand: what is assumed of the three singletons and of `Database` would
   become theorems.
2. A composition of one application with `BeatLink` in place of `EventFeed`, to prove
   what a listener sees across its own calls of `stop()` and `start()`.
