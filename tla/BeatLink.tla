------------------------------ MODULE BeatLink ------------------------------
(***************************************************************************)
(* One ofxBeatLink object in its process: the events of BeatLinkEvents and *)
(* the calls of BeatLinkLifecycle together.                                *)
(*                                                                         *)
(* A callback of BeatLinkEvents is a call of BeatLinkLifecycle from the    *)
(* thread of a singleton into the object, from its first step to its push. *)
(* update() and the calls of the application run on the same thread: a     *)
(* call is made between two updates, or by a listener within one.          *)
(***************************************************************************)
EXTENDS BeatLinkEvents

CONSTANTS
    Object,             \* the ofxBeatLink object
    None,               \* no object
    MaxFailed,          \* bound of the model: failed starts in a row
    StoppingKinds       \* kinds of event whose listeners may call stop()

ASSUME ListenersAssumption == StoppingKinds \subseteq Kinds
ASSUME ObjectAssumption    == None # Object
ASSUME FailedAssumption    == MaxFailed \in Nat

VARIABLES alive, running, vcdj, up, listeners, todo, inside, pc, caller,
          destroying, failed, silenced

Life == INSTANCE BeatLinkLifecycle WITH Instances <- {Object}

lifeVars   == <<alive, running, vcdj, up, listeners, todo, inside, pc, caller,
                destroying, failed, silenced>>
systemVars == <<vars, lifeVars>>

SystemInit == Init /\ Life!Init

-----------------------------------------------------------------------------
\* Whether the bounds leave a callback to be made by the thread of s.
Room(s) ==
    CASE s = "BeatFinder"   -> made["beat"] < MaxEvents["beat"]
      [] s = "DeviceFinder" -> \/ /\ made["found"] < MaxEvents["found"]
                                  /\ devices # Devices
                               \/ made["lost"] < MaxEvents["lost"] /\ devices # {}
      [] s = "VirtualCdj"   -> \E k \in {"update", "master"} : made[k] < MaxEvents[k]

\* A packet for the thread of s, as long as the bounds leave room for it.
Packet(s) == Room(s) /\ Life!Packet(s) /\ UNCHANGED vars

\* The thread of s enters the object: one of its callbacks begins.  Those of
\* VirtualCdj look for the status of a CDJ: the update of another device, and
\* the news that there is no master any more, leave no trace.
Callback(s) ==
    /\ Life!EnterCallback(s, Object)
    /\ \/ \E d \in Devices :
             \/ s = "BeatFinder" /\ OnBeat(d)
             \/ s = "DeviceFinder" /\ (OnDeviceFound(d) \/ OnDeviceLost(d))
             \/ s = "VirtualCdj" /\ (OnDeviceUpdate(d) \/ OnMasterChanged(d))
       \/ s = "VirtualCdj" /\ HasVirtualCdj /\ UNCHANGED vars

\* It pushes, unless there is nothing to push, and leaves.
Return(s) ==
    /\ Life!LeaveCallback(s)
    /\ \/ \E k \in Kinds : Thread(k) = s /\ Push(k)
       \/ s = "VirtualCdj" /\ call[s].stage = "idle" /\ UNCHANGED vars

ThreadStep == CallbackStep /\ UNCHANGED lifeVars

-----------------------------------------------------------------------------
\* The application updates a live object, and makes no call at that time.
SystemUpdate ==
    /\ Update
    /\ pc = "idle" /\ Object \in alive
    /\ UNCHANGED lifeVars

SystemUpdateStep ==
    /\ UpdateStep
    /\ pc = "idle"
    /\ UNCHANGED lifeVars

AppCall == section = 0 /\ Life!AppCall /\ UNCHANGED vars

\* A listener calls stop(), with the mutex of its queue held by update().
ListenerStops ==
    /\ section # 0 /\ step = "listener" /\ Kind \in StoppingKinds
    /\ Life!Stop(Object)
    /\ UNCHANGED vars

\* DeviceFinder, once stopped, may have forgotten its table.
Forgets == Life!StopDeviceFinderReturns /\ ForgetDevices

\* A call goes on.
CallStep == Forgets \/ (Life!CallStep /\ UNCHANGED vars)

-----------------------------------------------------------------------------
SystemNext == \/ \E s \in Threads : Packet(s) \/ Callback(s) \/ Return(s)
              \/ ThreadStep
              \/ SystemUpdate \/ SystemUpdateStep
              \/ AppCall \/ ListenerStops \/ CallStep

SystemSpec == SystemInit /\ [][SystemNext]_systemVars

(***************************************************************************)
(* Every thread is scheduled, listeners return, and the application calls  *)
(* update() again and again: it does so in every frame, between its other  *)
(* calls.  A push waits for a mutex that the main thread takes and frees   *)
(* in every frame: it is enabled again and again, never continuously, so   *)
(* that it gets the mutex at last is strong fairness.  Nothing obliges the *)
(* network to send a packet.                                               *)
(***************************************************************************)
SystemFairness ==
    /\ SF_systemVars(SystemUpdate)
    /\ WF_systemVars(SystemUpdateStep) /\ WF_systemVars(CallStep)
    /\ WF_systemVars(ThreadStep)
    /\ \A s \in Threads :
          /\ WF_systemVars(Callback(s))
          /\ SF_systemVars(Return(s))

FairSystemSpec == SystemSpec /\ SystemFairness

-----------------------------------------------------------------------------
(***************************************************************************)
(* Properties.                                                             *)
(***************************************************************************)

\* The singleton whose thread the call in progress waits for.
Joining == CASE pc = "stop.beat" -> {"BeatFinder"}
             [] pc \in {"stop.device", "start.undo"} -> {"DeviceFinder"}
             [] pc = "vcdj.stop" -> {"VirtualCdj"}
             [] OTHER -> {}

\* The main thread never waits for the end of a thread that waits for a mutex
\* the main thread holds: stop() is safe between two updates, and in listeners
\* of VirtualCdj events, whose thread stop() does not wait for.
NoWaitCycle ==
    \A k \in locked : ~(Thread(k) \in Joining /\ At(k, "push"))

\* What makes it so: the only call made within update() is stop(), by a listener.
CallsInListeners ==
    section # 0 /\ pc # "idle" => /\ pc \in {"stop.beat", "stop.device"}
                                  /\ step = "listener" /\ Kind \in StoppingKinds

\* Once stop() and stopVirtualCdj() have returned nothing is queued any more:
\* the events left are those from before, and update() only takes from them.
NothingQueuedOnceStopped ==
    [][pc = "idle" => \A k \in Kinds :
          (IF k \in {"update", "master"} THEN vcdj = {} ELSE running = {})
              => Len(queue'[k]) <= Len(queue[k])]_systemVars

\* Whenever the network falls silent, as the bounds see to, every event has
\* reached its listeners or the object is destroyed: no order of starts, stops
\* and updates leaves one behind.
DeliveredUnlessDestroyed ==
    []<>(Object \notin alive \/ \A k \in Kinds : delivered[k] = made[k])

\* The main thread comes back from every call, update() included.
MainThreadReturns ==
    (section # 0 \/ pc # "idle") ~> (section = 0 /\ pc = "idle")

\* "Stop listening." (ofxBeatLink.h): stop() returns, wherever it is called.
CallsReturn == (pc # "idle") ~> (pc = "idle")
=============================================================================
