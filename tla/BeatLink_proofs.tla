--------------------------- MODULE BeatLink_proofs ---------------------------
(***************************************************************************)
(* Proofs about one ofxBeatLink object in its process: the system's events *)
(* and calls are those of BeatLinkEvents and BeatLinkLifecycle, for every  *)
(* set of devices, every bound and every set of stopping listeners; so     *)
(* what is proved of the two parts holds of the whole, and gives the two   *)
(* properties that relate them.                                            *)
(***************************************************************************)
EXTENDS BeatLink, BeatLinkEvents_proofs

LifeProofs == INSTANCE BeatLinkLifecycle_proofs WITH Instances <- {Object}

-----------------------------------------------------------------------------
(***************************************************************************)
(* The steps of the system are steps of its parts.                         *)
(***************************************************************************)

LEMMA SystemStepIsEventStep == [SystemNext]_systemVars => [Next]_vars
  <1> SUFFICES ASSUME [SystemNext]_systemVars PROVE [Next]_vars OBVIOUS
  <1>1. ASSUME NEW s \in Threads, Packet(s) PROVE [Next]_vars
    BY <1>1 DEF Packet
  <1>2. ASSUME NEW s \in Threads, Callback(s) PROVE [Next]_vars
    <2>1. Arrival \/ UNCHANGED vars BY <1>2 DEF Callback, Arrival
    <2> QED BY <2>1 DEF Next
  <1>3. ASSUME NEW s \in Threads, Return(s) PROVE [Next]_vars
    <2>1. PushStep \/ UNCHANGED vars
      BY <1>3 DEF Return, Kinds, PushStep, OnBeatPush, OnDeviceFoundPush,
                  OnDeviceLostPush, OnDeviceUpdatePush, OnMasterChangedPush
    <2> QED BY <2>1 DEF Next
  <1>4. CASE ThreadStep \/ SystemUpdate \/ SystemUpdateStep
    BY <1>4 DEF ThreadStep, SystemUpdate, SystemUpdateStep, Next
  <1>5. CASE AppCall \/ ListenerStops \/ CallStep
    BY <1>5 DEF AppCall, ListenerStops, CallStep, Forgets, Next
  <1>6. CASE UNCHANGED systemVars
    BY <1>6 DEF systemVars
  <1> QED BY <1>1, <1>2, <1>3, <1>4, <1>5, <1>6 DEF SystemNext

LEMMA SameLifeVars == UNCHANGED lifeVars => UNCHANGED Life!lifeVars
  BY DEF lifeVars, Life!lifeVars, Life!flags, Life!threadState, Life!history

LEMMA SystemStepIsCallStep == [SystemNext]_systemVars => [Life!Next]_(Life!lifeVars)
  <1> SUFFICES ASSUME [SystemNext]_systemVars PROVE [Life!Next]_(Life!lifeVars)
    OBVIOUS
  <1>0. Threads = Life!Singletons
    BY DEF Threads, Life!Singletons, Life!Finders
  <1>1. ASSUME NEW s \in Threads, Packet(s) PROVE Life!ThreadNext
    BY <1>0, <1>1 DEF Packet, Life!ThreadNext
  <1>2. ASSUME NEW s \in Threads, Callback(s) PROVE Life!ThreadNext
    BY <1>0, <1>2 DEF Callback, Life!ThreadNext
  <1>3. ASSUME NEW s \in Threads, Return(s) PROVE Life!ThreadNext
    BY <1>0, <1>3 DEF Return, Life!ThreadNext
  <1>4. CASE ThreadStep \/ SystemUpdate \/ SystemUpdateStep \/ UNCHANGED systemVars
    BY <1>4, SameLifeVars DEF ThreadStep, SystemUpdate, SystemUpdateStep, systemVars
  <1>5. CASE AppCall
    BY <1>5 DEF AppCall, Life!Next
  <1>6. CASE ListenerStops
    BY <1>6 DEF ListenerStops, Life!AppCall, Life!Next
  <1>7. CASE CallStep
    BY <1>7 DEF CallStep, Forgets, Life!CallStep, Life!Next
  <1> QED BY <1>1, <1>2, <1>3, <1>4, <1>5, <1>6, <1>7 DEF SystemNext, Life!Next

\* So what is proved of each part holds of the system.
LEMMA SystemRunsEvents == SystemSpec => Spec
  BY SystemStepIsEventStep, PTL DEF SystemSpec, SystemInit, Spec

LEMMA SystemRunsCalls == SystemSpec => Life!Spec
  BY SystemStepIsCallStep, PTL DEF SystemSpec, SystemInit, Life!Spec

-----------------------------------------------------------------------------
(***************************************************************************)
(* The main thread and the threads it waits for.                           *)
(***************************************************************************)

\* The object's inductive invariant, of its events, in the system.
LEMMA EventsInvariant == SystemSpec => []IInv
  BY SystemRunsEvents, IInvHolds

\* Its calls, in the system.  The specification of the calls and the one their
\* invariant is proved of are two instances of one module.
LEMMA CallsInvariant == SystemSpec => []LifeProofs!IInv
  <1>1. LifeProofs!NoneAssumption /\ LifeProofs!MaxFailedAssumption
    BY ObjectAssumption, FailedAssumption
       DEF LifeProofs!NoneAssumption, LifeProofs!MaxFailedAssumption
  <1>2. LifeProofs!Spec => []LifeProofs!IInv
    BY <1>1, LifeProofs!Invariant
  <1>3. Life!Init => LifeProofs!Init
    BY DEF Life!Init, Life!Singletons, Life!Finders, Life!Nobody,
           LifeProofs!Init, LifeProofs!Singletons, LifeProofs!Finders, LifeProofs!Nobody
  <1>4. [Life!Next]_(Life!lifeVars) => [LifeProofs!Next]_(LifeProofs!lifeVars)
    BY DEF Life!Packet, LifeProofs!Packet, Life!EnterCallback,
           LifeProofs!EnterCallback, Life!LeaveCallback,
           LifeProofs!LeaveCallback, Life!Quiet, LifeProofs!Quiet, Life!Start,
           LifeProofs!Start, Life!StartDeviceFinder,
           LifeProofs!StartDeviceFinder, Life!StartDeviceFinderFails,
           LifeProofs!StartDeviceFinderFails, Life!StartBeatFinder,
           LifeProofs!StartBeatFinder, Life!StartBeatFinderFails,
           LifeProofs!StartBeatFinderFails, Life!StartUndone,
           LifeProofs!StartUndone, Life!Clear, LifeProofs!Clear, Life!Stop,
           LifeProofs!Stop, Life!StopBeatFinderReturns,
           LifeProofs!StopBeatFinderReturns, Life!StopDeviceFinderReturns,
           LifeProofs!StopDeviceFinderReturns, Life!StartVirtualCdj,
           LifeProofs!StartVirtualCdj, Life!VirtualCdjStarts,
           LifeProofs!VirtualCdjStarts, Life!VirtualCdjStartFails,
           LifeProofs!VirtualCdjStartFails, Life!StopVirtualCdj,
           LifeProofs!StopVirtualCdj, Life!VirtualCdjStopReturns,
           LifeProofs!VirtualCdjStopReturns, Life!Destroy, LifeProofs!Destroy,
           Life!DestroyStops, LifeProofs!DestroyStops, Life!DestroyNotRunning,
           LifeProofs!DestroyNotRunning, Life!ThreadNext, LifeProofs!ThreadNext,
           Life!AppCall, LifeProofs!AppCall, Life!CallStep, LifeProofs!CallStep,
           Life!Next, LifeProofs!Next, Life!lifeVars, LifeProofs!lifeVars,
           Life!flags, LifeProofs!flags, Life!threadState,
           LifeProofs!threadState, Life!history, LifeProofs!history,
           Life!Nobody, LifeProofs!Nobody, Life!Singletons,
           LifeProofs!Singletons, Life!Finders, LifeProofs!Finders
  <1> QED BY <1>2, <1>3, <1>4, SystemRunsCalls, PTL
          DEF Life!Spec, LifeProofs!Spec

LEMMA CallsInListenersNext ==
  CallsInListeners /\ [SystemNext]_systemVars => CallsInListeners'
  <1> SUFFICES ASSUME CallsInListeners, [SystemNext]_systemVars
               PROVE  CallsInListeners'
    OBVIOUS
  <1> USE DEF CallsInListeners, Kind, mainVars, vars, lifeVars
  <1>1. ASSUME NEW s \in Threads, Packet(s) PROVE CallsInListeners'
    BY <1>1 DEF Packet, Life!Packet
  <1>2. ASSUME NEW s \in Threads, Callback(s) PROVE CallsInListeners'
    <2>1. UNCHANGED <<section, step, pc>>
      BY <1>2 DEF Callback, vars, Life!EnterCallback, OnBeat, OnDeviceFound, OnDeviceLost,
                  OnDeviceUpdate, OnMasterChanged
    <2> QED BY <2>1
  <1>3. ASSUME NEW s \in Threads, Return(s) PROVE CallsInListeners'
    BY <1>3 DEF Return, Push, Life!LeaveCallback
  <1>4. CASE ThreadStep
    <2>1. UNCHANGED <<section, step, pc>>
      BY <1>4 DEF ThreadStep, CallbackStep, OnBeatStore, OnDeviceLostErase,
                  OnDeviceUpdateStore
    <2> QED BY <2>1
  <1>5. CASE SystemUpdate \/ SystemUpdateStep
    BY <1>5 DEF SystemUpdate, SystemUpdateStep
  <1>6. CASE AppCall
    BY <1>6 DEF AppCall
  <1>7. CASE ListenerStops
    BY <1>7 DEF ListenerStops, Life!Stop
  <1>8. CASE Forgets
    BY <1>8 DEF Forgets, Life!StopDeviceFinderReturns, ForgetDevices
  <1>9. CASE Life!CallStep /\ UNCHANGED vars
    <2>1. UNCHANGED <<section, step>>
      BY <1>9
    <2>2. CASE Life!StopBeatFinderReturns \/ Life!StopDeviceFinderReturns
      BY <2>1, <2>2 DEF Life!StopBeatFinderReturns, Life!StopDeviceFinderReturns
    <2>3. CASE \/ Life!StartDeviceFinder \/ Life!StartDeviceFinderFails
               \/ Life!StartBeatFinder \/ Life!StartBeatFinderFails
               \/ Life!StartUndone
      BY <2>1, <2>3 DEF Life!StartDeviceFinder, Life!StartDeviceFinderFails,
                        Life!StartBeatFinder, Life!StartBeatFinderFails,
                        Life!StartUndone
    <2>4. CASE \/ Life!VirtualCdjStarts \/ Life!VirtualCdjStartFails
               \/ Life!VirtualCdjStopReturns
               \/ Life!DestroyStops \/ Life!DestroyNotRunning
      BY <2>1, <2>4 DEF Life!VirtualCdjStarts, Life!VirtualCdjStartFails,
                        Life!VirtualCdjStopReturns, Life!DestroyStops,
                        Life!DestroyNotRunning
    <2> QED BY <1>9, <2>2, <2>3, <2>4 DEF Life!CallStep
  <1>10. CASE UNCHANGED systemVars
    BY <1>10 DEF systemVars
  <1> QED BY <1>1, <1>2, <1>3, <1>4, <1>5, <1>6, <1>7, <1>8, <1>9, <1>10
          DEF SystemNext, CallStep

\* stop() cannot deadlock where only listeners of VirtualCdj events call it:
\* it waits for the finders, and update() holds a mutex of VirtualCdj then.
THEOREM StopFromVirtualCdjListeners ==
  ASSUME StoppingKinds \subseteq {"update", "master"}
  PROVE  SystemSpec => []NoWaitCycle
  <1>1. SystemInit => CallsInListeners
    BY DEF SystemInit, Init, CallsInListeners
  <1>2. SystemSpec => []CallsInListeners
    BY <1>1, CallsInListenersNext, PTL DEF SystemSpec
  <1>3. LockedSection /\ CallsInListeners => NoWaitCycle
    BY DEF LockedSection, CallsInListeners, NoWaitCycle, Joining, Thread, At
  <1>4. IInv => LockedSection
    BY DEF IInv
  <1> QED BY <1>2, <1>3, <1>4, EventsInvariant, PTL

LEMMA QueuesNext ==
  ASSUME TypeOK, LifeProofs!IInv, [SystemNext]_systemVars, pc = "idle",
         NEW k \in Kinds,
         IF k \in {"update", "master"} THEN vcdj = {} ELSE running = {}
  PROVE  Len(queue'[k]) <= Len(queue[k])
  <1>1. queue[k] \in Seq(Event) /\ queue \in [Kinds -> Seq(Event)]
    BY DEF TypeOK
  <1>2. CASE UNCHANGED queue
    BY <1>1, <1>2
  <1>3. ASSUME NEW s \in Threads, Packet(s) \/ Callback(s) PROVE UNCHANGED queue
    BY <1>3 DEF Packet, vars, Callback, OnBeat, OnDeviceFound, OnDeviceLost,
                OnDeviceUpdate, OnMasterChanged
  <1>4. ASSUME NEW s \in Threads, Return(s) PROVE queue'[k] = queue[k]
    <2>1. CASE s = Thread(k)
      <3>1. inside[Thread(k)] = None
        BY <2>1 DEF LifeProofs!IInv, LifeProofs!TypeOK, LifeProofs!UpForUsers,
                    LifeProofs!DownIsQuiet, LifeProofs!Joining, LifeProofs!Quiet,
                    LifeProofs!Singletons, LifeProofs!Finders, Kinds, Thread
      <3> QED BY <1>4, <2>1, <3>1 DEF Return, Life!LeaveCallback
    <2> QED BY <1>1, <1>4, <2>1 DEF Return, Push, vars
  <1>5. CASE ThreadStep \/ SystemUpdate
    BY <1>2, <1>5 DEF ThreadStep, CallbackStep, OnBeatStore, OnDeviceLostErase,
                OnDeviceUpdateStore, SystemUpdate, Update
  <1>6. CASE SystemUpdateStep
    <2>1. CASE LockQueue \/ RunListener \/ UnlockQueue
      BY <1>2, <2>1 DEF LockQueue, RunListener, UnlockQueue
    <2>2. CASE Dispatch
      BY <1>1, <2>2 DEF Dispatch, Popped
    <2> QED BY <1>6, <2>1, <2>2 DEF SystemUpdateStep, UpdateStep
  <1>7. CASE AppCall \/ ListenerStops \/ CallStep \/ UNCHANGED systemVars
    BY <1>2, <1>7 DEF AppCall, ListenerStops, CallStep, Forgets, ForgetDevices, vars,
                systemVars
  <1> QED BY <1>1, <1>2, <1>3, <1>4, <1>5, <1>6, <1>7 DEF SystemNext

\* Between two calls, with the finders or VirtualCdj stopped, the queues they
\* fed only get shorter: no callback of theirs is left to push.
THEOREM QueuesOnlyDrainOnceStopped == SystemSpec => NothingQueuedOnceStopped
  <1>1. /\ TypeOK /\ LifeProofs!IInv /\ [SystemNext]_systemVars
        => [pc = "idle" => \A k \in Kinds :
              (IF k \in {"update", "master"} THEN vcdj = {} ELSE running = {})
                  => Len(queue'[k]) <= Len(queue[k])]_systemVars
    BY QueuesNext
  <1>2. IInv => TypeOK
    BY DEF IInv
  <1> QED BY <1>1, <1>2, EventsInvariant, CallsInvariant, PTL
          DEF SystemSpec, NothingQueuedOnceStopped

-----------------------------------------------------------------------------
(***************************************************************************)
(* What is proved of the two parts, of the system.                         *)
(***************************************************************************)

\* The system implements the feed that the applications are built on, whatever
\* calls an application makes between its updates or in its listeners.
THEOREM SystemImplementsFeed == SystemSpec => ImplementsEventFeed
  BY SystemRunsEvents, RefinesEventFeed

\* Calls and callbacks together neither lose, double nor reorder an event: also
\* one that waited in its queue over a stop() and a start().
THEOREM SystemEventsExactlyOnce == SystemSpec => []ExactlyOnceInOrder
  BY SystemRunsEvents, EventsExactlyOnceInOrder

\* One update() hands out what was queued before it also where listeners call
\* stop() in its middle and callbacks of stopped threads come in between.
THEOREM SystemUpdateDelivers ==
  ASSUME NEW i \in 1 .. Len(Order), NEW n \in Nat
  PROVE  SystemSpec => []( section <= i /\ Pushed(Order[i]) >= n
                           => [][Returns => delivered'[Order[i]] >= n]_vars )
  BY SystemRunsEvents, OneUpdateDelivers

\* No call of an application makes a cache go back: not stop(), which erases
\* nothing, and not a start() after it.
THEOREM SystemCachesOnlyAdvance == SystemSpec => CachesOnlyAdvance
  BY SystemRunsEvents, CachesNeverGoBack

\* The destructor may run while callbacks wait for mutexes and after starts that
\* failed: no thread is in the object, or on its way into it, afterwards.
THEOREM SystemLeavesNoCall == SystemSpec => []Life!NoCallIntoDestroyed
  <1>1. LifeProofs!IInv => Life!NoCallIntoDestroyed
    <2>1. LifeProofs!NoneAssumption /\ LifeProofs!MaxFailedAssumption
      BY ObjectAssumption, FailedAssumption
         DEF LifeProofs!NoneAssumption, LifeProofs!MaxFailedAssumption
    <2>2. LifeProofs!Alone
      BY DEF LifeProofs!Alone
    <2>3. LifeProofs!IInv => LifeProofs!NoCallIntoDestroyed
      BY <2>1, <2>2, LifeProofs!AloneNoCall
    <2> QED BY <2>3 DEF LifeProofs!NoCallIntoDestroyed, Life!NoCallIntoDestroyed,
         Life!Singletons, LifeProofs!Singletons, Life!Finders, LifeProofs!Finders
  <1> QED BY <1>1, CallsInvariant, PTL
=============================================================================
