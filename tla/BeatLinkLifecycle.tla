-------------------------- MODULE BeatLinkLifecycle --------------------------
(***************************************************************************)
(* Starting, stopping and destroying ofxBeatLink objects                   *)
(* (src/src/ofxBeatLink.cpp, lines 5-161).                                 *)
(*                                                                         *)
(* beat-link-cpp has one DeviceFinder, one BeatFinder and one VirtualCdj   *)
(* per process; every object registers its listeners with these three, and *)
(* starts and stops them.  Their code is not in the repository.  They are  *)
(* modelled by what ofxBeatLink relies on:                                 *)
(*   - start() of one that is up succeeds; of one that is down it opens a  *)
(*     port, and may fail;                                                 *)
(*   - while one is up, its thread calls for every packet the listeners    *)
(*     registered at that time, one after the other;                       *)
(*   - stop() returns when the thread has left its last callback: the      *)
(*     destructor counts on it, for the callbacks hold a bare this.        *)
(*                                                                         *)
(* The application calls the objects from one thread.  A call is a chain   *)
(* of steps, at whose places the threads of the three run; pc is the place *)
(* the call in progress has reached.                                       *)
(***************************************************************************)
EXTENDS Integers, FiniteSets

CONSTANTS
    Instances,  \* ofxBeatLink objects of the process
    MaxFailed,  \* bound of the model: failed starts of an object in a row
    None        \* no object

ASSUME NoneAssumption      == None \notin Instances
ASSUME MaxFailedAssumption == MaxFailed \in Nat

Finders    == {"DeviceFinder", "BeatFinder"}
Singletons == Finders \cup {"VirtualCdj"}

VARIABLES
    alive,      \* objects that are constructed and not destroyed
    running,    \* objects whose running_ is true
    vcdj,       \* objects whose virtualCdjRunning_ is true
    up,         \* singletons that are started
    listeners,  \* per singleton and object, how often it is registered
    todo,       \* per singleton and object, calls left for this packet
    inside,     \* per singleton, the object its thread is in, or None
    pc,         \* place of the call in progress, or "idle"
    caller,     \* the object that call is on, or None
    destroying, \* the call is made by the destructor
    failed,     \* history: failed starts since the listeners were cleared
    silenced    \* history: per singleton, the objects that count as started
                \* while another object has stopped it under them

threadState == <<todo, inside>>
flags       == <<alive, running, vcdj>>
history     == <<failed, silenced>>
lifeVars    == <<flags, up, listeners, threadState, pc, caller, destroying, history>>

Nobody == [i \in Instances |-> 0]

Init ==
    /\ alive = Instances /\ running = {} /\ vcdj = {}
    /\ up = {}
    /\ listeners = [s \in Singletons |-> Nobody]
    /\ todo = [s \in Singletons |-> Nobody]
    /\ inside = [s \in Singletons |-> None]
    /\ pc = "idle" /\ caller = None /\ destroying = FALSE
    /\ failed = [i \in Instances |-> 0]
    /\ silenced = [s \in Singletons |-> {}]

-----------------------------------------------------------------------------
(***************************************************************************)
(* The threads of the three singletons.                                    *)
(***************************************************************************)

\* A packet arrives: every registration is to be called.
Packet(s) ==
    /\ s \in up
    /\ inside[s] = None /\ todo[s] = Nobody
    /\ todo' = [todo EXCEPT ![s] = listeners[s]]
    /\ UNCHANGED <<flags, up, listeners, inside, pc, caller, destroying, history>>

\* The thread of s goes into the object i.
EnterCallback(s, i) ==
    /\ inside[s] = None /\ todo[s][i] > 0
    /\ todo' = [todo EXCEPT ![s][i] = @ - 1]
    /\ inside' = [inside EXCEPT ![s] = i]
    /\ UNCHANGED <<flags, up, listeners, pc, caller, destroying, history>>

LeaveCallback(s) ==
    /\ inside[s] # None
    /\ inside' = [inside EXCEPT ![s] = None]
    /\ UNCHANGED <<flags, up, listeners, todo, pc, caller, destroying, history>>

\* The thread of s has ended, or waits for a packet: stop() can return.
Quiet(s) == inside[s] = None /\ todo[s] = Nobody

-----------------------------------------------------------------------------
(***************************************************************************)
(* start()                                                                 *)
(***************************************************************************)

\* Not running: register the listeners, then go and start the finders.
Start(i) ==
    /\ pc = "idle" /\ i \in alive \ running
    /\ listeners' = [s \in Singletons |->
                       IF s \in Finders THEN [listeners[s] EXCEPT ![i] = @ + 1]
                                        ELSE listeners[s]]
    /\ pc' = "start.device" /\ caller' = i
    /\ UNCHANGED <<flags, up, threadState, destroying, history>>

StartDeviceFinder ==
    /\ pc = "start.device"
    /\ up' = up \cup {"DeviceFinder"}
    /\ pc' = "start.beat"
    /\ UNCHANGED <<flags, listeners, threadState, caller, destroying, history>>

\* "Failed to start DeviceFinder (port 50000 may be in use)": return false.
StartDeviceFinderFails ==
    /\ pc = "start.device" /\ "DeviceFinder" \notin up
    /\ failed[caller] < MaxFailed
    /\ failed' = [failed EXCEPT ![caller] = @ + 1]
    /\ pc' = "idle" /\ caller' = None
    /\ UNCHANGED <<flags, up, listeners, threadState, destroying, silenced>>

StartBeatFinder ==
    /\ pc = "start.beat"
    /\ up' = up \cup {"BeatFinder"}
    /\ running' = running \cup {caller}
    /\ pc' = "idle" /\ caller' = None
    /\ UNCHANGED <<alive, vcdj, listeners, threadState, destroying, history>>

\* Mutant: DeviceFinder is left started.
StartBeatFinderFailsUndoesNothing ==
    /\ pc = "start.beat" /\ "BeatFinder" \notin up
    /\ failed[caller] < MaxFailed
    /\ pc' = "start.undo"
    /\ UNCHANGED <<flags, up, listeners, threadState, caller, destroying, history>>

\* "Failed to start BeatFinder (port 50001 may be in use)": stop the other.
StartBeatFinderFails ==
    /\ pc = "start.beat" /\ "BeatFinder" \notin up
    /\ failed[caller] < MaxFailed
    /\ up' = up \ {"DeviceFinder"}
    /\ pc' = "start.undo"
    /\ UNCHANGED <<flags, listeners, threadState, caller, destroying, history>>

\* Mutant: no return false, so that running_ is set.
StartUndoneGoesOn ==
    /\ pc = "start.undo" /\ Quiet("DeviceFinder")
    /\ running' = running \cup {caller}
    /\ failed' = [failed EXCEPT ![caller] = @ + 1]
    /\ pc' = "idle" /\ caller' = None
    /\ UNCHANGED <<alive, vcdj, up, listeners, threadState, destroying, silenced>>

StartUndone ==
    /\ pc = "start.undo" /\ Quiet("DeviceFinder")
    /\ failed' = [failed EXCEPT ![caller] = @ + 1]
    /\ pc' = "idle" /\ caller' = None
    /\ UNCHANGED <<flags, up, listeners, threadState, destroying, silenced>>

-----------------------------------------------------------------------------
(***************************************************************************)
(* stop(), also from the destructor, which goes on when it has returned.   *)
(***************************************************************************)

\* Mutant: the listeners stay registered.
ClearNot(s) == UNCHANGED listeners

\* clearListeners()
Clear(s) == listeners' = [listeners EXCEPT ![s] = Nobody]

Stop(i) ==
    /\ pc = "idle" /\ i \in running
    /\ up' = up \ {"BeatFinder"}
    /\ pc' = "stop.beat" /\ caller' = i
    /\ UNCHANGED <<flags, listeners, threadState, destroying, history>>

\* Mutant: DeviceFinder is waited for, but not stopped.
StopBeatFinderOnly ==
    /\ pc = "stop.beat" /\ Quiet("BeatFinder")
    /\ Clear("BeatFinder")
    /\ pc' = "stop.device"
    /\ UNCHANGED <<flags, up, threadState, caller, destroying, history>>

StopBeatFinderReturns ==
    /\ pc = "stop.beat" /\ Quiet("BeatFinder")
    /\ Clear("BeatFinder")
    /\ up' = up \ {"DeviceFinder"}
    /\ pc' = "stop.device"
    /\ UNCHANGED <<flags, threadState, caller, destroying, history>>

StopDeviceFinderReturns ==
    /\ pc = "stop.device" /\ Quiet("DeviceFinder")
    /\ Clear("DeviceFinder")
    /\ running' = running \ {caller}
    /\ alive' = IF destroying THEN alive \ {caller} ELSE alive
    /\ failed' = [i \in Instances |-> 0]
    /\ silenced' = [s \in Singletons |->
                      IF s \in Finders THEN running' ELSE silenced[s]]
    /\ pc' = "idle" /\ caller' = None /\ destroying' = FALSE
    /\ UNCHANGED <<vcdj, up, threadState>>

-----------------------------------------------------------------------------
(***************************************************************************)
(* startVirtualCdj() and stopVirtualCdj()                                  *)
(***************************************************************************)

StartVirtualCdj(i) ==
    /\ pc = "idle" /\ i \in alive \ vcdj
    /\ listeners' = [listeners EXCEPT !["VirtualCdj"][i] = @ + 1]
    /\ pc' = "vcdj.start" /\ caller' = i
    /\ UNCHANGED <<flags, up, threadState, destroying, history>>

VirtualCdjStarts ==
    /\ pc = "vcdj.start"
    /\ up' = up \cup {"VirtualCdj"}
    /\ vcdj' = vcdj \cup {caller}
    /\ silenced' = [silenced EXCEPT !["VirtualCdj"] = {}]
    /\ pc' = "idle" /\ caller' = None
    /\ UNCHANGED <<alive, running, listeners, threadState, destroying, failed>>

\* "Failed to start VirtualCdj": here the listeners are taken back.
VirtualCdjStartFails ==
    /\ pc = "vcdj.start" /\ "VirtualCdj" \notin up
    /\ listeners' = [listeners EXCEPT !["VirtualCdj"][caller] = @ - 1]
    /\ pc' = "idle" /\ caller' = None
    /\ UNCHANGED <<flags, up, threadState, destroying, history>>

StopVirtualCdj(i) ==
    /\ pc = "idle" /\ i \in vcdj
    /\ listeners' = [listeners EXCEPT !["VirtualCdj"][i] = @ - 1]
    /\ up' = up \ {"VirtualCdj"}
    /\ pc' = "vcdj.stop" /\ caller' = i
    /\ UNCHANGED <<flags, threadState, destroying, history>>

\* Mutant: the thread of VirtualCdj is not waited for.
VirtualCdjStopsLater ==
    /\ pc = "vcdj.stop"
    /\ vcdj' = vcdj \ {caller}
    /\ silenced' = [silenced EXCEPT !["VirtualCdj"] = vcdj']
    /\ IF destroying THEN pc' = "destroy.stop" /\ UNCHANGED caller
                     ELSE pc' = "idle" /\ caller' = None
    /\ UNCHANGED <<alive, running, up, listeners, threadState, destroying, failed>>

\* The destructor goes on with stop().
VirtualCdjStopReturns ==
    /\ pc = "vcdj.stop" /\ Quiet("VirtualCdj")
    /\ vcdj' = vcdj \ {caller}
    /\ silenced' = [silenced EXCEPT !["VirtualCdj"] = vcdj']
    /\ IF destroying THEN pc' = "destroy.stop" /\ UNCHANGED caller
                     ELSE pc' = "idle" /\ caller' = None
    /\ UNCHANGED <<alive, running, up, listeners, threadState, destroying, failed>>

-----------------------------------------------------------------------------
(***************************************************************************)
(* ~ofxBeatLink(): stopVirtualCdj(), then stop(), each if there is need.   *)
(***************************************************************************)

\* Mutant: the destructor forgets VirtualCdj.
DestroyBasicOnly(i) ==
    /\ pc = "idle" /\ i \in alive
    /\ caller' = i /\ destroying' = TRUE
    /\ pc' = "destroy.stop"
    /\ UNCHANGED <<flags, up, listeners, threadState, history>>

Destroy(i) ==
    /\ pc = "idle" /\ i \in alive
    /\ caller' = i /\ destroying' = TRUE
    /\ IF i \in vcdj
       THEN /\ listeners' = [listeners EXCEPT !["VirtualCdj"][i] = @ - 1]
            /\ up' = up \ {"VirtualCdj"}
            /\ pc' = "vcdj.stop"
       ELSE /\ pc' = "destroy.stop"
            /\ UNCHANGED <<listeners, up>>
    /\ UNCHANGED <<flags, threadState, history>>

DestroyStops ==
    /\ pc = "destroy.stop" /\ caller \in running
    /\ up' = up \ {"BeatFinder"}
    /\ pc' = "stop.beat"
    /\ UNCHANGED <<flags, listeners, threadState, caller, destroying, history>>

\* stop() returns at once, also after a start that failed.
DestroyNotRunning ==
    /\ pc = "destroy.stop" /\ caller \notin running
    /\ alive' = alive \ {caller}
    /\ pc' = "idle" /\ caller' = None /\ destroying' = FALSE
    /\ UNCHANGED <<running, vcdj, up, listeners, threadState, history>>

-----------------------------------------------------------------------------
ThreadNext == \E s \in Singletons : \/ Packet(s)
                                    \/ LeaveCallback(s)
                                    \/ \E i \in Instances : EnterCallback(s, i)

\* A call the application makes.
AppCall == \E i \in Instances : \/ Start(i)
                                \/ Stop(i)
                                \/ StartVirtualCdj(i)
                                \/ StopVirtualCdj(i)
                                \/ Destroy(i)

\* A step of the call in progress.
CallStep == \/ StartDeviceFinder \/ StartDeviceFinderFails
            \/ StartBeatFinder \/ StartBeatFinderFails \/ StartUndone
            \/ StopBeatFinderReturns \/ StopDeviceFinderReturns
            \/ VirtualCdjStarts \/ VirtualCdjStartFails \/ VirtualCdjStopReturns
            \/ DestroyStops \/ DestroyNotRunning

Next == ThreadNext \/ AppCall \/ CallStep

Spec == Init /\ [][Next]_lifeVars

\* The main thread runs, and so do the threads; a packet is an accident.
Fairness == /\ WF_lifeVars(CallStep)
            /\ \A s \in Singletons :
                  /\ WF_lifeVars(LeaveCallback(s))
                  /\ WF_lifeVars(\E i \in Instances : EnterCallback(s, i))

FairSpec == Spec /\ Fairness

-----------------------------------------------------------------------------
(***************************************************************************)
(* Properties.                                                             *)
(***************************************************************************)

Places == {"idle", "start.device", "start.beat", "start.undo", "stop.beat",
           "stop.device", "vcdj.start", "vcdj.stop", "destroy.stop"}

\* Every variable stays in its type.
TypeOK ==
    /\ alive \subseteq Instances /\ running \subseteq alive /\ vcdj \subseteq alive
    /\ up \subseteq Singletons
    /\ listeners \in [Singletons -> [Instances -> Nat]]
    /\ todo \in [Singletons -> [Instances -> Nat]]
    /\ inside \in [Singletons -> Instances \cup {None}]
    /\ pc \in Places
    /\ caller \in Instances \cup {None} /\ (caller = None) = (pc = "idle")
    /\ destroying \in BOOLEAN
    /\ failed \in [Instances -> Nat]
    /\ silenced \in [Singletons -> SUBSET Instances]

\* The objects that count the singleton s as started for them.
Users(s) == IF s \in Finders THEN running ELSE vcdj

\* "Stop listening." (ofxBeatLink.h): no thread is inside, or will enter, an
\* object that was destroyed; the callbacks capture a bare this.
NoCallIntoDestroyed ==
    \A s \in Singletons, i \in Instances :
        (inside[s] = i \/ todo[s][i] > 0) => i \in alive

\* The one way to be called after the destructor is a start that failed, whose
\* listeners the destructor leaves registered, until another object stops.
OnlyFailedStartsDangle ==
    \A s \in Singletons, i \in Instances :
        (inside[s] = i \/ todo[s][i] > 0) => i \in alive \/ failed[i] > 0

\* When no call is in progress, an object that counts a singleton as started
\* is called by it: isRunning() means listening, unless another object has
\* stopped the singleton, which isRunning() does not show.
RunningIsListening ==
    pc = "idle" => \A s \in Singletons : \A i \in Users(s) \ silenced[s] :
                       s \in up /\ listeners[s][i] > 0

\* When the last object that used a singleton has stopped, or start() has
\* failed, or one has stopped it for all, its thread is in no callback.
StoppedIsQuiet ==
    pc = "idle" => \A s \in Singletons :
                       Users(s) \subseteq silenced[s] => s \notin up /\ Quiet(s)

\* How often an object is registered, dead or alive: once for a start that
\* succeeded and that no other object undid, and once for each failed one.
RegistrationsCountStarts ==
    pc = "idle" => \A i \in Instances :
        /\ \A s \in Finders :
              listeners[s][i] = failed[i] + (IF i \in running \ silenced[s] THEN 1 ELSE 0)
        /\ listeners["VirtualCdj"][i] = (IF i \in vcdj THEN 1 ELSE 0)

\* "Fired on each beat" (README.md, Basic Events): a packet calls onBeat of an
\* object at most once.
OneCallPerBeat == \A i \in Instances : todo["BeatFinder"][i] <= 1

\* Every call returns to the application.
CallsReturn == (pc # "idle") ~> (pc = "idle")

(***************************************************************************)
(* The inductive invariant behind the safety properties: what the calls in *)
(* progress, the registrations, the singletons and their threads are at    *)
(* every place of every call.                                              *)
(***************************************************************************)

Starting == {"start.device", "start.beat", "start.undo"}

\* What is known of the object whose call is in progress, at each place of it.
CallPlaces ==
    /\ caller # None => caller \in alive
    /\ pc \in Starting => caller \notin running /\ ~ destroying
    /\ pc = "start.undo" => failed[caller] < MaxFailed
    /\ pc \in {"stop.beat", "stop.device"} => caller \in running
    /\ pc = "vcdj.start" => caller \notin vcdj /\ ~ destroying
    /\ pc = "vcdj.stop" => caller \in vcdj
    /\ pc = "destroy.stop" => destroying
    /\ pc = "idle" => ~ destroying
    /\ destroying /\ pc # "vcdj.stop" => caller \notin vcdj
    /\ \A i \in Instances : failed[i] <= MaxFailed

\* Only users of a singleton are silenced, and both finders are stopped at once.
SilencedUsers ==
    /\ \A s \in Singletons : silenced[s] \subseteq Users(s)
    /\ silenced["DeviceFinder"] = silenced["BeatFinder"]

\* The registrations: a call that starts has made its own already, one that
\* stops has taken them back.
BeatRegistered(i) ==
    IF pc = "stop.device" THEN 0
    ELSE failed[i] + (IF \/ i \in running \ silenced["BeatFinder"]
                         \/ pc \in Starting /\ caller = i
                      THEN 1 ELSE 0)

DeviceRegistered(i) ==
    failed[i] + (IF \/ i \in running \ silenced["DeviceFinder"]
                    \/ pc \in Starting /\ caller = i
                 THEN 1 ELSE 0)

VirtualCdjRegistered(i) ==
    IF \/ i \in vcdj /\ ~ (pc = "vcdj.stop" /\ caller = i)
       \/ pc = "vcdj.start" /\ caller = i
    THEN 1 ELSE 0

Registrations ==
    \A i \in Instances : /\ listeners["BeatFinder"][i] = BeatRegistered(i)
                         /\ listeners["DeviceFinder"][i] = DeviceRegistered(i)
                         /\ listeners["VirtualCdj"][i] = VirtualCdjRegistered(i)

\* A singleton is up when some user of it is not silenced, unless a call has
\* stopped it already, or has just started it.
UpForUsers ==
    /\ "BeatFinder" \in up <=> /\ pc \notin {"stop.beat", "stop.device"}
                               /\ running \ silenced["BeatFinder"] # {}
    /\ "DeviceFinder" \in up <=> /\ pc \notin {"stop.device", "start.undo"}
                                 /\ \/ pc = "start.beat"
                                    \/ running \ silenced["DeviceFinder"] # {}
    /\ "VirtualCdj" \in up <=> /\ pc # "vcdj.stop"
                               /\ vcdj \ silenced["VirtualCdj"] # {}
    /\ pc = "start.undo" => running \ silenced["DeviceFinder"] = {}

\* The singleton whose thread the call in progress waits for.
Joining(s) ==
    \/ s = "BeatFinder" /\ pc = "stop.beat"
    \/ s = "DeviceFinder" /\ pc \in {"stop.device", "start.undo"}
    \/ s = "VirtualCdj" /\ pc = "vcdj.stop"

DownIsQuiet == \A s \in Singletons : s \notin up /\ ~ Joining(s) => Quiet(s)

\* The thread of s is in the object i, or has it on its way.
Calls(s, i) == inside[s] = i \/ todo[s][i] > 0

CallsOwned ==
    \A i \in Instances :
        /\ \A s \in Finders :
              Calls(s, i) => \/ i \in running
                             \/ failed[i] > 0
                             \/ pc \in Starting /\ caller = i
        /\ Calls("VirtualCdj", i) => \/ i \in vcdj
                                     \/ pc = "vcdj.start" /\ caller = i

IInv == /\ TypeOK
        /\ CallPlaces
        /\ SilencedUsers
        /\ Registrations
        /\ UpForUsers
        /\ DownIsQuiet
        /\ CallsOwned
=============================================================================
