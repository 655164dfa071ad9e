----------------------------- MODULE EventFeed ------------------------------
(***************************************************************************)
(* ofxBeatLink as an application sees it: the network that calls back, the *)
(* queues, and an update() that empties them section by section.  It lies  *)
(* between EventChannel, which knows neither network nor sections, and     *)
(* BeatLinkEvents, which implements it: a callback is seen from the moment *)
(* it changed something an application can ask for, the cached beat or the *)
(* device table, until its event is pushed.                                *)
(***************************************************************************)
EXTENDS Integers, Sequences

CONSTANTS
    Devices,        \* device numbers seen on the network
    HasVirtualCdj,  \* OFX_BEATLINK_HAS_VIRTUALCDJ
    MaxEvents       \* bound of the model: callbacks of each kind

Kinds == {"beat", "found", "lost", "update", "master"}

ASSUME FeedAssumption == /\ Devices \subseteq Nat \ {0}
                         /\ HasVirtualCdj \in BOOLEAN
                         /\ MaxEvents \in [Kinds -> Nat]

Order == IF HasVirtualCdj THEN <<"beat", "found", "lost", "update", "master">>
                          ELSE <<"beat", "found", "lost">>

NoEvent == [device |-> 0, id |-> 0]

VARIABLES
    devices,    \* the device table of DeviceFinder
    lastBeat,   \* lastBeat_, what getLatestBeat() returns
    coming,     \* per kind, the event of a callback that has yet to push it
    pending,    \* per kind, the queue
    delivered,  \* per kind, id of the last event delivered
    section,    \* the section of update() the main thread is in, or 0
    serving     \* the kind whose queue it is emptying: none or one

feedVars == <<devices, lastBeat, coming, pending, delivered, section, serving>>

Init ==
    /\ devices = {}
    /\ lastBeat = NoEvent
    /\ coming = [k \in {"beat", "found", "lost"} |-> NoEvent]
    /\ pending = [k \in Kinds |-> <<>>]
    /\ delivered = [k \in Kinds |-> 0]
    /\ section = 0
    /\ serving = {}

-----------------------------------------------------------------------------
Coming(k) == k \in DOMAIN coming /\ coming[k] # NoEvent

\* The callbacks of kind k so far.
Made(k) == delivered[k] + Len(pending[k]) + (IF Coming(k) THEN 1 ELSE 0)

\* Another event of kind k about device d.
New(k, d) == [device |-> d, id |-> Made(k) + 1]

\* A callback of kind k begins, about device d.
Enter(k, d) ==
    /\ Made(k) < MaxEvents[k]
    /\ coming' = [coming EXCEPT ![k] = New(k, d)]
    /\ UNCHANGED <<pending, delivered, section, serving>>

OnBeat(d) ==
    /\ ~ Coming("beat")
    /\ Enter("beat", d)
    /\ lastBeat' = New("beat", d)
    /\ UNCHANGED devices

OnDeviceFound(d) ==
    /\ ~ Coming("found") /\ ~ Coming("lost")
    /\ d \notin devices /\ devices' = devices \cup {d}
    /\ Enter("found", d)
    /\ UNCHANGED lastBeat

OnDeviceLost(d) ==
    /\ ~ Coming("found") /\ ~ Coming("lost")
    /\ d \in devices /\ devices' = devices \ {d}
    /\ Enter("lost", d)
    /\ UNCHANGED lastBeat

\* DeviceFinder is stopped and its table emptied.
Forget ==
    /\ devices' = {}
    /\ UNCHANGED <<lastBeat, coming, pending, delivered, section, serving>>

\* The callback pushes its event and returns.
Publish(k) ==
    /\ Coming(k)
    /\ k \notin serving
    /\ pending' = [pending EXCEPT ![k] = Append(@, coming[k])]
    /\ coming' = [coming EXCEPT ![k] = NoEvent]
    /\ UNCHANGED <<devices, lastBeat, delivered, section, serving>>

\* A callback of VirtualCdj, seen only by its event.
Notify(k, d) ==
    /\ HasVirtualCdj /\ k \in {"update", "master"} /\ k \notin serving
    /\ Made(k) < MaxEvents[k]
    /\ pending' = [pending EXCEPT ![k] = Append(@, New(k, d))]
    /\ UNCHANGED <<devices, lastBeat, coming, delivered, section, serving>>

-----------------------------------------------------------------------------
Kind == Order[section]

Update ==
    /\ section = 0 /\ section' = 1
    /\ UNCHANGED <<devices, lastBeat, coming, pending, delivered, serving>>

Take ==
    /\ section # 0 /\ serving = {}
    /\ serving' = {Kind}
    /\ UNCHANGED <<devices, lastBeat, coming, pending, delivered, section>>

Deliver ==
    /\ serving # {} /\ pending[Kind] # <<>>
    /\ pending' = [pending EXCEPT ![Kind] = Tail(@)]
    /\ delivered' = [delivered EXCEPT ![Kind] = Head(pending[Kind]).id]
    /\ UNCHANGED <<devices, lastBeat, coming, section, serving>>

Finish ==
    /\ serving # {} /\ pending[Kind] = <<>>
    /\ serving' = {}
    /\ section' = IF section = Len(Order) THEN 0 ELSE section + 1
    /\ UNCHANGED <<devices, lastBeat, coming, pending, delivered>>

Next ==
    \/ \E d \in Devices : \/ OnBeat(d) \/ OnDeviceFound(d) \/ OnDeviceLost(d)
                          \/ \E k \in Kinds : Notify(k, d)
    \/ \E k \in Kinds : Publish(k)
    \/ Forget \/ Update \/ Take \/ Deliver \/ Finish

Spec == Init /\ [][Next]_feedVars
=============================================================================
