------------------------ MODULE BeatLinkEvents_proofs ------------------------
(***************************************************************************)
(* Theorems about BeatLinkEvents, for any devices, with VirtualCdj or      *)
(* without, and for any bounds on the callbacks.                           *)
(***************************************************************************)
EXTENDS BeatLinkEvents, TLAPS

USE DevicesAssumption, VirtualCdjAssumption, MaxEventsAssumption

\* The sections of update() are sections of some kind.
LEMMA OrderType == /\ Len(Order) \in {3, 5}
                   /\ \A i \in 1 .. Len(Order) : Order[i] \in Kinds
  BY DEF Order, Kinds

LEMMA ThreadType == \A k \in Kinds : Thread(k) \in Threads
  BY DEF Thread, Kinds, Threads

LEMMA EventType == /\ NoEvent \in Event
                   /\ \A d \in Devices, n \in Nat : [device |-> d, id |-> n] \in Event
                   /\ \A e \in Event : e.id \in Nat
  BY DEF NoEvent, Event

\* A callback that begins, at either of its stages, keeps the types.
LEMMA EnterType ==
  ASSUME TypeOK, NEW k \in Kinds, NEW d \in Devices,
         NEW s \in {"store", "push"}, Enter(k, d, s)
  PROVE  /\ call' \in [Threads -> Call]
         /\ \A t \in Threads : call'[t].stage # "idle" =>
                /\ Thread(call'[t].kind) = t
                /\ call'[t].event.device \in Devices
         /\ made' \in [Kinds -> Nat]
  <1> DEFINE c == [kind |-> k, stage |-> s,
                   event |-> [device |-> d, id |-> made[k] + 1]]
  <1>1. made[k] + 1 \in Nat /\ made' \in [Kinds -> Nat]
    BY DEF TypeOK, Enter
  <1>2. c \in Call /\ c.event.device \in Devices /\ c.kind = k
    BY <1>1, EventType DEF Call
  <1>3. call' = [call EXCEPT ![Thread(k)] = c]
    BY DEF Enter
  <1> HIDE DEF c
  <1>4. call' \in [Threads -> Call]
    BY <1>2, <1>3 DEF TypeOK
  <1>5. ASSUME NEW t \in Threads, call'[t].stage # "idle"
        PROVE  Thread(call'[t].kind) = t /\ call'[t].event.device \in Devices
    <2>1. CASE t = Thread(k)
      BY <2>1, <1>2, <1>3 DEF TypeOK
    <2>2. CASE t # Thread(k)
      BY <2>2, <1>3, <1>5 DEF TypeOK
    <2> QED BY <2>1, <2>2
  <1> QED BY <1>1, <1>4, <1>5

\* A callback that goes on to its next stage, or returns, keeps the types.
LEMMA StageType ==
  ASSUME TypeOK, NEW k \in Kinds, NEW s \in {"idle", "push"},
         call[Thread(k)].stage # "idle",
         call' = [call EXCEPT ![Thread(k)].stage = s]
  PROVE  /\ call' \in [Threads -> Call]
         /\ \A t \in Threads : call'[t].stage # "idle" =>
                /\ Thread(call'[t].kind) = t
                /\ call'[t].event.device \in Devices
  <1>1. Thread(k) \in Threads
    BY ThreadType
  <1>2. \A t \in Threads : call'[t] = IF t = Thread(k)
                                      THEN [call[t] EXCEPT !.stage = s]
                                      ELSE call[t]
    BY <1>1 DEF TypeOK
  <1>3. call' \in [Threads -> Call]
    BY <1>1, ZenonT(30) DEF TypeOK, Call
  <1>4. ASSUME NEW t \in Threads, call'[t].stage # "idle"
        PROVE  Thread(call'[t].kind) = t /\ call'[t].event.device \in Devices
    <2>1. call[t] \in Call
      BY DEF TypeOK
    <2>2. /\ call[t].stage # "idle"
          /\ call'[t].kind = call[t].kind
          /\ call'[t].event = call[t].event
      BY <1>2, <1>4, <2>1 DEF Call
    <2> QED BY <2>2 DEF TypeOK
  <1> QED BY <1>3, <1>4

LEMMA PushType ==
  ASSUME TypeOK, NEW k \in Kinds, Push(k)
  PROVE  TypeOK'
  <1>1. Thread(k) \in Threads /\ call[Thread(k)].stage # "idle"
    BY ThreadType DEF Push, At
  <1>2. call[Thread(k)].event \in Event
    BY <1>1 DEF TypeOK, Call
  <1>3. queue' \in [Kinds -> Seq(Event)]
    BY <1>2 DEF Push, TypeOK
  <1>4. /\ call' \in [Threads -> Call]
        /\ \A t \in Threads : call'[t].stage # "idle" =>
                /\ Thread(call'[t].kind) = t
                /\ call'[t].event.device \in Devices
    BY <1>1, StageType DEF Push
  <1> QED
    BY <1>3, <1>4 DEF Push, TypeOK, cacheVars, mainVars

LEMMA TypeInit == Init => TypeOK
  <1> SUFFICES ASSUME Init PROVE TypeOK OBVIOUS
  <1>1. Idle \in Call /\ Idle.stage = "idle"
    BY EventType DEF Idle, Call, Kinds
  <1>2. Len(Order) \in Nat
    BY OrderType
  <1> QED BY <1>1, <1>2, EventType DEF Init, TypeOK

LEMMA TypeNext == TypeOK /\ [Next]_vars => TypeOK'
  <1> SUFFICES ASSUME TypeOK, [Next]_vars PROVE TypeOK' OBVIOUS
  <1>1. ASSUME NEW d \in Devices, OnBeat(d) PROVE TypeOK'
    <2>1. Enter("beat", d, "store") BY <1>1 DEF OnBeat
    <2> QED BY <1>1, <2>1, EnterType DEF OnBeat, TypeOK, cacheVars, mainVars, Kinds
  <1>2. ASSUME NEW d \in Devices, OnDeviceFound(d) PROVE TypeOK'
    <2>1. Enter("found", d, "push") BY <1>2 DEF OnDeviceFound
    <2> QED BY <1>2, <2>1, EnterType
            DEF OnDeviceFound, TypeOK, cacheVars, mainVars, Kinds
  <1>3. ASSUME NEW d \in Devices, OnDeviceLost(d) PROVE TypeOK'
    <2>1. Enter("lost", d, "store") BY <1>3 DEF OnDeviceLost
    <2> QED BY <1>3, <2>1, EnterType
            DEF OnDeviceLost, TypeOK, cacheVars, mainVars, Kinds
  <1>4. ASSUME NEW d \in Devices, OnDeviceUpdate(d) PROVE TypeOK'
    <2>1. Enter("update", d, "store") BY <1>4 DEF OnDeviceUpdate
    <2> QED BY <1>4, <2>1, EnterType
            DEF OnDeviceUpdate, TypeOK, cacheVars, mainVars, Kinds
  <1>5. ASSUME NEW d \in Devices, OnMasterChanged(d) PROVE TypeOK'
    <2>1. Enter("master", d, "push") BY <1>5 DEF OnMasterChanged
    <2> QED BY <1>5, <2>1, EnterType
            DEF OnMasterChanged, TypeOK, cacheVars, mainVars, Kinds
  <1>6. CASE OnBeatStore
    <2>1. /\ call["BeatFinder"].event \in Event
          /\ call' = [call EXCEPT ![Thread("beat")].stage = "push"]
          /\ call[Thread("beat")].stage # "idle"
      BY <1>6 DEF OnBeatStore, Advance, At, TypeOK, Call, Threads
    <2> QED BY <1>6, <2>1, StageType DEF OnBeatStore, TypeOK, mainVars, Kinds
  <1>7. CASE OnDeviceLostErase
    <2>1. /\ call' = [call EXCEPT ![Thread("lost")].stage = "push"]
          /\ call[Thread("lost")].stage # "idle"
          /\ made["beat"] \in Nat
      BY <1>7 DEF OnDeviceLostErase, Erased, Advance, At, TypeOK, Kinds
    <2> QED BY <1>7, <2>1, StageType, EventType
            DEF OnDeviceLostErase, Erased, TypeOK, mainVars, Kinds
  <1>8. CASE OnDeviceUpdateStore
    <2>1. /\ call["VirtualCdj"].event \in Event
          /\ call' = [call EXCEPT ![Thread("update")].stage = "push"]
          /\ call[Thread("update")].stage # "idle"
      BY <1>8 DEF OnDeviceUpdateStore, Advance, At, TypeOK, Call, Threads
    <2> QED BY <1>8, <2>1, StageType DEF OnDeviceUpdateStore, TypeOK, mainVars, Kinds
  <1>9. CASE PushStep
    BY <1>9, PushType DEF PushStep, OnBeatPush, OnDeviceFoundPush,
       OnDeviceLostPush, OnDeviceUpdatePush, OnMasterChangedPush, Kinds
  <1>10. CASE Update
    <2>1. section' \in 0 .. Len(Order) /\ step' = "lock"
      BY <1>10, OrderType, SMTT(30) DEF Update
    <2> QED BY <1>10, <2>1 DEF Update, TypeOK, threadVars, cacheVars
  <1>11. section # 0 => Kind \in Kinds
    BY OrderType DEF Kind, TypeOK
  <1>12. CASE LockQueue
    BY <1>12, <1>11 DEF LockQueue, TypeOK, threadVars, cacheVars
  <1>13. CASE Dispatch
    <2>1. /\ Head(queue[Kind]) \in Event
          /\ Tail(queue[Kind]) \in Seq(Event)
      BY <1>13, <1>11 DEF Dispatch, Popped, TypeOK
    <2> QED BY <1>13, <1>11, <2>1, EventType
            DEF Dispatch, Popped, TypeOK, threadVars, cacheVars
  <1>14. CASE RunListener
    BY <1>14 DEF RunListener, TypeOK, threadVars, cacheVars
  <1>15. CASE UnlockQueue
    BY <1>15, OrderType
       DEF UnlockQueue, NextSection, Unlocked, TypeOK, threadVars, cacheVars
  <1>16. CASE ForgetDevices
    BY <1>16 DEF ForgetDevices, TypeOK, cacheVars, mainVars
  <1>17. CASE UNCHANGED vars
    BY <1>17 DEF TypeOK, vars, threadVars, cacheVars, mainVars
  <1> QED BY <1>1, <1>2, <1>3, <1>4, <1>5, <1>6, <1>7, <1>8, <1>9, <1>10,
             <1>12, <1>13, <1>14, <1>15, <1>16, <1>17
          DEF Next, Arrival, CallbackStep, UpdateStep

\* Type correctness.
THEOREM TypeCorrect == Spec => []TypeOK
  BY TypeInit, TypeNext, PTL DEF Spec

-----------------------------------------------------------------------------
(***************************************************************************)
(* The inductive invariant.  For every group of actions: what is pending   *)
(* after the step (nothing new, or one event), then the conjuncts that the *)
(* group can disturb.                                                      *)
(***************************************************************************)

\* The conjuncts about the queues and the callbacks in flight.
Accounting == ExactlyOnceInOrder /\ InFlightIsNewest

\* A callback begins.
LEMMA EnterAccounting ==
  ASSUME TypeOK, Accounting, NEW k \in Kinds, NEW d \in Devices,
         NEW s \in {"store", "push"}, Enter(k, d, s),
         UNCHANGED <<queue, delivered>>
  PROVE  Accounting'
  <1> DEFINE c == [kind |-> k, stage |-> s,
                   event |-> [device |-> d, id |-> made[k] + 1]]
  <1>1. /\ Thread(k) \in Threads
        /\ call[Thread(k)].stage = "idle"
        /\ call' = [call EXCEPT ![Thread(k)] = c]
        /\ made' = [made EXCEPT ![k] = @ + 1]
        /\ c.kind = k /\ c.stage # "idle" /\ c.event.id = made[k] + 1
    BY ThreadType DEF Enter
  <1> HIDE DEF c
  <1>2. \A t \in Threads : call'[t] = IF t = Thread(k) THEN c ELSE call[t]
    BY <1>1 DEF TypeOK
  <1>3. \A k2 \in Kinds : made'[k2] = IF k2 = k THEN made[k2] + 1 ELSE made[k2]
    BY <1>1 DEF TypeOK
  <1>4. ExactlyOnceInOrder'
    <2> SUFFICES ASSUME NEW k2 \in Kinds
                 PROVE  made'[k2] = delivered[k2] + Len(queue[k2]) + InFlight(k2)'
      BY DEF Accounting, ExactlyOnceInOrder
    <2>1. /\ made[k2] = delivered[k2] + Len(queue[k2]) + InFlight(k2)
          /\ made[k2] \in Nat /\ delivered[k2] \in Nat /\ Len(queue[k2]) \in Nat
      BY DEF Accounting, ExactlyOnceInOrder, TypeOK
    <2>2. CASE k2 = k
      <3>1. InFlight(k2) = 0 /\ InFlight(k2)' = 1
        BY <1>1, <1>2, <2>2 DEF InFlight
      <3> QED BY <2>1, <2>2, <1>3, <3>1
    <2>3. CASE k2 # k
      <3>1. InFlight(k2)' = InFlight(k2)
        BY <1>1, <1>2, <2>3, ThreadType DEF InFlight
      <3> QED BY <2>1, <2>3, <1>3, <3>1
    <2> QED BY <2>2, <2>3
  <1>5. InFlightIsNewest'
    <2> SUFFICES ASSUME NEW t \in Threads, call'[t].stage # "idle"
                 PROVE  call'[t].event.id = made'[call'[t].kind]
      BY DEF InFlightIsNewest
    <2>1. CASE t = Thread(k)
      BY <2>1, <1>1, <1>2, <1>3
    <2>2. CASE t # Thread(k)
      <3>1. /\ call'[t] = call[t]
            /\ call[t].kind \in Kinds
            /\ Thread(call[t].kind) = t
            /\ call[t].event.id = made[call[t].kind]
        BY <2>2, <1>2 DEF TypeOK, Call, Accounting, InFlightIsNewest
      <3>2. call[t].kind # k
        BY <2>2, <3>1
      <3> QED BY <3>1, <3>2, <1>3
    <2> QED BY <2>1, <2>2
  <1> QED BY <1>4, <1>5 DEF Accounting

\* A callback goes from its cache to its queue.
LEMMA AdvanceAccounting ==
  ASSUME TypeOK, Accounting, NEW k \in Kinds, At(k, "store"), Advance(k),
         UNCHANGED <<made, queue, delivered>>
  PROVE  Accounting'
  <1>1. Thread(k) \in Threads
    BY ThreadType
  <1>2. \A t \in Threads : /\ call'[t].kind = call[t].kind
                           /\ call'[t].event = call[t].event
                           /\ call'[t].stage = IF t = Thread(k) THEN "push"
                                               ELSE call[t].stage
    BY <1>1 DEF TypeOK, Call, Advance
  <1>3. call[Thread(k)].stage = "store"
    BY DEF At
  <1>4. \A k2 \in Kinds : InFlight(k2)' = InFlight(k2)
    BY <1>2, <1>3, ThreadType DEF InFlight
  <1> QED BY <1>2, <1>3, <1>4 DEF Accounting, ExactlyOnceInOrder, InFlightIsNewest

\* A callback pushes its event: one event less in flight, one more queued.
LEMMA PushAccounting ==
  ASSUME TypeOK, Accounting, NEW k \in Kinds, Push(k)
  PROVE  Accounting'
  <1> DEFINE e == call[Thread(k)].event
  <1>1. /\ Thread(k) \in Threads
        /\ call[Thread(k)].kind = k /\ call[Thread(k)].stage = "push"
        /\ e \in Event
        /\ UNCHANGED <<made, delivered>>
    BY ThreadType DEF Push, At, TypeOK, Call, mainVars
  <1>2. e.id = made[k]
    BY <1>1 DEF Accounting, InFlightIsNewest
  <1>3. \A k2 \in Kinds : queue'[k2] = IF k2 = k THEN Append(queue[k2], e)
                                       ELSE queue[k2]
    BY DEF Push, TypeOK
  <1> HIDE DEF e
  <1>4. \A t \in Threads : /\ call'[t].kind = call[t].kind
                           /\ call'[t].event = call[t].event
                           /\ call'[t].stage = IF t = Thread(k) THEN "idle"
                                               ELSE call[t].stage
    BY <1>1 DEF TypeOK, Call, Push
  <1>5. ExactlyOnceInOrder'
    <2> SUFFICES ASSUME NEW k2 \in Kinds
                 PROVE  /\ made[k2] = delivered[k2] + Len(queue'[k2]) + InFlight(k2)'
                        /\ \A i \in 1 .. Len(queue'[k2]) :
                               queue'[k2][i].id = delivered[k2] + i
      BY <1>1 DEF ExactlyOnceInOrder
    <2>1. /\ made[k2] = delivered[k2] + Len(queue[k2]) + InFlight(k2)
          /\ \A i \in 1 .. Len(queue[k2]) : queue[k2][i].id = delivered[k2] + i
          /\ made[k2] \in Nat /\ delivered[k2] \in Nat
          /\ queue[k2] \in Seq(Event)
      BY DEF Accounting, ExactlyOnceInOrder, TypeOK
    <2>2. CASE k2 = k
      <3>1. InFlight(k2) = 1 /\ InFlight(k2)' = 0
        BY <1>1, <1>4, <2>2 DEF InFlight
      <3>2. queue'[k2] = Append(queue[k2], e)
        BY <1>3, <2>2
      <3>3. Len(queue'[k2]) = Len(queue[k2]) + 1
        BY <3>2, <2>1, <1>1
      <3>4. \A i \in 1 .. Len(queue[k2]) : queue'[k2][i] = queue[k2][i]
        BY <3>2, <2>1, <1>1
      <3>5. queue'[k2][Len(queue[k2]) + 1] = e
        BY <3>2, <2>1, <1>1
      <3>6. e.id = delivered[k2] + (Len(queue[k2]) + 1)
        BY <1>2, <2>1, <2>2, <3>1
      <3>7. ASSUME NEW i \in 1 .. Len(queue'[k2])
            PROVE  queue'[k2][i].id = delivered[k2] + i
        <4>1. Len(queue[k2]) \in Nat
          BY <2>1
        <4>2. i \in 1 .. Len(queue[k2]) \/ i = Len(queue[k2]) + 1
          BY <3>3, <4>1
        <4>3. CASE i \in 1 .. Len(queue[k2])
          BY <4>3, <3>4, <2>1
        <4>4. CASE i = Len(queue[k2]) + 1
          BY <4>4, <3>5, <3>6
        <4> QED BY <4>2, <4>3, <4>4
      <3>8. Len(queue[k2]) \in Nat
        BY <2>1
      <3>9. made[k2] = delivered[k2] + Len(queue'[k2]) + InFlight(k2)'
        BY <2>1, <3>1, <3>3, <3>8, SMTT(30)
      <3> QED BY <3>7, <3>9
    <2>3. CASE k2 # k
      <3>1. InFlight(k2)' = InFlight(k2)
        BY <1>1, <1>4, <2>3, ThreadType DEF InFlight
      <3> QED BY <2>1, <2>3, <1>3, <3>1
    <2> QED BY <2>2, <2>3
  <1>6. InFlightIsNewest'
    BY <1>1, <1>4 DEF Accounting, InFlightIsNewest
  <1> QED BY <1>5, <1>6 DEF Accounting

\* update() takes the head of the queue it has locked.
LEMMA DispatchAccounting ==
  ASSUME TypeOK, Accounting, Dispatch
  PROVE  /\ Accounting'
         /\ current'.id = delivered'[Kind]
  <1> DEFINE q == queue[Kind]
  <1>1. /\ Kind \in Kinds /\ q \in Seq(Event) /\ q # <<>>
        /\ UNCHANGED <<made, call>>
    BY OrderType DEF Kind, Dispatch, Popped, TypeOK, threadVars
  <1>2. /\ Head(q) = q[1]
        /\ Len(q) \in Nat /\ Len(q) >= 1
        /\ Tail(q) \in Seq(Event)
        /\ Len(Tail(q)) = Len(q) - 1
        /\ \A i \in 1 .. Len(Tail(q)) : Tail(q)[i] = q[i + 1]
    BY <1>1
  <1>3. q[1].id = delivered[Kind] + 1
    BY <1>1, <1>2 DEF Accounting, ExactlyOnceInOrder
  <1>4. \A k \in Kinds :
            /\ queue'[k] = IF k = Kind THEN Tail(q) ELSE queue[k]
            /\ delivered'[k] = IF k = Kind THEN delivered[Kind] + 1 ELSE delivered[k]
    BY <1>1, <1>2, <1>3 DEF Dispatch, Popped, TypeOK
  <1>5. \A k \in Kinds : InFlight(k)' = InFlight(k)
    BY <1>1 DEF InFlight
  <1>6. ExactlyOnceInOrder'
    <2> SUFFICES ASSUME NEW k \in Kinds
                 PROVE  /\ made[k] = delivered'[k] + Len(queue'[k]) + InFlight(k)
                        /\ \A i \in 1 .. Len(queue'[k]) :
                               queue'[k][i].id = delivered'[k] + i
      BY <1>1, <1>5 DEF ExactlyOnceInOrder
    <2>1. /\ made[k] = delivered[k] + Len(queue[k]) + InFlight(k)
          /\ \A i \in 1 .. Len(queue[k]) : queue[k][i].id = delivered[k] + i
          /\ delivered[k] \in Nat
      BY DEF Accounting, ExactlyOnceInOrder, TypeOK
    <2>2. CASE k = Kind
      <3>1. InFlight(k) \in {0, 1}
        BY DEF InFlight
      <3>2. /\ queue'[k] = Tail(q) /\ queue[k] = q
            /\ delivered'[k] = delivered[k] + 1
        BY <2>2, <1>4
      <3>3. made[k] = delivered'[k] + Len(queue'[k]) + InFlight(k)
        BY <2>1, <1>2, <3>1, <3>2
      <3>4. ASSUME NEW i \in 1 .. Len(queue'[k])
            PROVE  queue'[k][i].id = delivered'[k] + i
        <4>1. i \in 1 .. Len(Tail(q)) /\ i \in Nat /\ i + 1 \in 1 .. Len(q)
          BY <1>2, <3>2
        <4>2. queue'[k][i] = queue[k][i + 1]
          BY <4>1, <1>2, <3>2
        <4>3. queue[k][i + 1].id = delivered[k] + (i + 1)
          BY <4>1, <2>1, <3>2
        <4> QED BY <4>1, <4>2, <4>3, <3>2, <2>1
      <3> QED BY <3>3, <3>4
    <2>3. CASE k # Kind
      BY <2>1, <2>3, <1>4
    <2> QED BY <2>2, <2>3
  <1>7. InFlightIsNewest'
    BY <1>1 DEF Accounting, InFlightIsNewest
  <1>8. current'.id = delivered'[Kind]
    BY <1>1, <1>2, <1>3, <1>4 DEF Dispatch, Popped
  <1> QED BY <1>6, <1>7, <1>8 DEF Accounting

LEMMA PendingType ==
  ASSUME TypeOK, NEW k \in Kinds
  PROVE  Pending(k) \subseteq Event
  <1>1. ToSet(queue[k]) \subseteq Event
    BY DEF TypeOK, ToSet
  <1>2. call[Thread(k)].event \in Event
    BY ThreadType DEF TypeOK, Call
  <1>3. current \in Event
    BY DEF TypeOK
  <1> QED BY <1>1, <1>2, <1>3 DEF Pending

\* What is pending after a callback began: at most its event, if its first
\* step is the push.
LEMMA EnterPending ==
  ASSUME TypeOK, NEW k \in Kinds, NEW d \in Devices,
         NEW s \in {"store", "push"}, Enter(k, d, s),
         UNCHANGED <<queue, mainVars>>
  PROVE  \A k2 \in Kinds : \A e \in Pending(k2)' :
            \/ e \in Pending(k2)
            \/ k2 = k /\ s = "push" /\ e.device = d /\ e.id = made[k] + 1
  <1> DEFINE c == [kind |-> k, stage |-> s,
                   event |-> [device |-> d, id |-> made[k] + 1]]
  <1>1. /\ Thread(k) \in Threads
        /\ call' = [call EXCEPT ![Thread(k)] = c]
        /\ c.kind = k /\ c.stage = s
        /\ c.event.device = d /\ c.event.id = made[k] + 1
    BY ThreadType DEF Enter
  <1> HIDE DEF c
  <1>2. \A t \in Threads : call'[t] = IF t = Thread(k) THEN c ELSE call[t]
    BY <1>1 DEF TypeOK
  <1>3. SUFFICES ASSUME NEW k2 \in Kinds, NEW e \in Pending(k2)', e \notin Pending(k2)
                 PROVE  k2 = k /\ s = "push" /\ e.device = d /\ e.id = made[k] + 1
    OBVIOUS
  <1>4. Thread(k2) \in Threads
    BY ThreadType
  <1>5. At(k2, "push")' /\ e = call'[Thread(k2)].event
    BY <1>3 DEF Pending, Kind, mainVars
  <1>6. call'[Thread(k2)] # call[Thread(k2)]
    BY <1>3, <1>5 DEF Pending, At
  <1>7. call'[Thread(k2)] = c
    BY <1>2, <1>4, <1>6
  <1> QED BY <1>1, <1>5, <1>7 DEF At

\* After a callback stored: the event it will push.
LEMMA AdvancePending ==
  ASSUME TypeOK, NEW k \in Kinds, At(k, "store"), Advance(k),
         UNCHANGED <<queue, mainVars>>
  PROVE  \A k2 \in Kinds : \A e \in Pending(k2)' :
            \/ e \in Pending(k2)
            \/ k2 = k /\ e = call[Thread(k)].event
  <1>1. Thread(k) \in Threads
    BY ThreadType
  <1>2. \A t \in Threads : /\ call'[t].kind = call[t].kind
                           /\ call'[t].event = call[t].event
                           /\ call'[t].stage = IF t = Thread(k) THEN "push"
                                               ELSE call[t].stage
    BY <1>1 DEF TypeOK, Call, Advance
  <1>3. SUFFICES ASSUME NEW k2 \in Kinds, NEW e \in Pending(k2)', e \notin Pending(k2)
                 PROVE  k2 = k /\ e = call[Thread(k)].event
    OBVIOUS
  <1>4. Thread(k2) \in Threads
    BY ThreadType
  <1>5. At(k2, "push")' /\ e = call'[Thread(k2)].event
    BY <1>3 DEF Pending, Kind, mainVars
  <1>6. e = call[Thread(k2)].event /\ call[Thread(k2)].kind = k2
    BY <1>2, <1>4, <1>5 DEF At
  <1>7. call[Thread(k2)].stage # "push"
    BY <1>3, <1>6 DEF Pending, At
  <1>8. Thread(k2) = Thread(k)
    BY <1>2, <1>4, <1>5, <1>7 DEF At
  <1> QED BY <1>6, <1>8 DEF At

\* A push moves its event from the callback to the queue.
LEMMA PushPending ==
  ASSUME TypeOK, NEW k \in Kinds, Push(k)
  PROVE  \A k2 \in Kinds : \A e \in Pending(k2)' : e \in Pending(k2)
  <1>1. /\ Thread(k) \in Threads /\ At(k, "push")
        /\ call[Thread(k)].event \in Event
        /\ UNCHANGED mainVars
    BY ThreadType DEF Push, At, TypeOK, Call
  <1>2. \A t \in Threads : /\ call'[t].kind = call[t].kind
                           /\ call'[t].event = call[t].event
                           /\ call'[t].stage = IF t = Thread(k) THEN "idle"
                                               ELSE call[t].stage
    BY <1>1 DEF TypeOK, Call, Push
  <1>3. \A k2 \in Kinds : queue'[k2] = IF k2 = k
                                       THEN Append(queue[k2], call[Thread(k)].event)
                                       ELSE queue[k2]
    BY DEF Push, TypeOK
  <1>4. ASSUME NEW q \in Seq(Event), NEW x \in Event
        PROVE  ToSet(Append(q, x)) \subseteq ToSet(q) \cup {x}
    BY DEF ToSet
  <1>5. SUFFICES ASSUME NEW k2 \in Kinds, NEW e \in Pending(k2)'
                 PROVE  e \in Pending(k2)
    OBVIOUS
  <1>6. CASE e \in ToSet(queue'[k2])
    <2>1. queue[k2] \in Seq(Event)
      BY DEF TypeOK
    <2>2. e \in ToSet(queue[k2]) \/ (k2 = k /\ e = call[Thread(k)].event)
      BY <1>1, <1>3, <1>4, <1>6, <2>1
    <2> QED BY <2>2, <1>1 DEF Pending
  <1>7. CASE e = current' /\ section' # 0 /\ step' = "listener" /\ Kind' = k2
    BY <1>1, <1>7 DEF Pending, mainVars, Kind
  <1>8. CASE e = call'[Thread(k2)].event /\ At(k2, "push")'
    <2>1. Thread(k2) \in Threads
      BY ThreadType
    <2>2. e = call[Thread(k2)].event /\ At(k2, "push")
      BY <1>2, <1>8, <2>1 DEF At
    <2> QED BY <2>2 DEF Pending
  <1> QED BY <1>5, <1>6, <1>7, <1>8 DEF Pending

\* update() hands out what is pending and adds nothing.
LEMMA UpdatePending ==
  ASSUME TypeOK, Update \/ UpdateStep
  PROVE  \A k2 \in Kinds : \A e \in Pending(k2)' : e \in Pending(k2)
  <1>1. SUFFICES ASSUME NEW k2 \in Kinds, NEW e \in Pending(k2)'
                 PROVE  e \in Pending(k2)
    OBVIOUS
  <1>2. call' = call
    BY DEF UpdateStep, Update, LockQueue, Dispatch, RunListener, UnlockQueue,
           threadVars
  <1>3. CASE step' # "listener" /\ queue' = queue
    BY <1>1, <1>2, <1>3 DEF Pending, At
  <1>4. CASE Dispatch
    <2>1. Kind \in Kinds /\ queue[Kind] \in Seq(Event) /\ queue[Kind] # <<>>
      BY <1>4, OrderType DEF Kind, Dispatch, Popped, TypeOK
    <2>2. \A k3 \in Kinds : queue'[k3] = IF k3 = Kind THEN Tail(queue[k3]) ELSE queue[k3]
      BY <1>4 DEF Dispatch, Popped, TypeOK
    <2>3. ASSUME NEW q \in Seq(Event), q # <<>>
          PROVE  ToSet(Tail(q)) \subseteq ToSet(q) /\ Head(q) \in ToSet(q)
      BY <2>3 DEF ToSet
    <2>4. ToSet(queue'[k2]) \subseteq ToSet(queue[k2])
      BY <2>1, <2>2, <2>3
    <2>5. Kind' = Kind /\ current' \in ToSet(queue[Kind])
      BY <1>4, <2>1, <2>3 DEF Dispatch, Popped, Kind
    <2> QED BY <1>1, <1>2, <2>4, <2>5 DEF Pending, At
  <1> QED BY <1>3, <1>4
          DEF UpdateStep, Update, LockQueue, Dispatch, RunListener, UnlockQueue

-----------------------------------------------------------------------------
\* The conjuncts about the caches and about what is pending.
Coverage == /\ PendingIsReal
            /\ BeatsCovered
            /\ StatusesCovered
            /\ ClearedInPast

\* A step that makes nothing pending and leaves the caches alone.
LEMMA QuietCoverage ==
  ASSUME TypeOK, Coverage, UNCHANGED <<cacheVars, made>>,
         \A k \in Kinds : \A e \in Pending(k)' : e \in Pending(k)
  PROVE  Coverage'
  BY DEF Coverage, PendingIsReal, BeatsCovered, StatusesCovered, ClearedInPast,
         cacheVars, Kinds

\* A callback that begins with its cache, or that has none.
LEMMA EnterCoverage ==
  ASSUME TypeOK, Coverage, NEW k \in Kinds, NEW d \in Devices,
         NEW s \in {"store", "push"}, Enter(k, d, s),
         s = "push" => k \notin {"beat", "update"},
         UNCHANGED <<queue, cacheVars, mainVars>>
  PROVE  Coverage'
  <1>1. \A k2 \in Kinds : /\ made[k2] \in Nat
                          /\ made'[k2] = IF k2 = k THEN made[k2] + 1 ELSE made[k2]
    BY DEF TypeOK, Enter
  <1>2. \A k2 \in Kinds : \A e \in Pending(k2)' :
            \/ e \in Pending(k2)
            \/ k2 = k /\ s = "push" /\ e.device = d /\ e.id = made[k] + 1
    BY EnterPending
  <1>3. PendingIsReal'
    <2> SUFFICES ASSUME NEW k2 \in Kinds, NEW e \in Pending(k2)'
                 PROVE  e.device \in Devices /\ e.id <= made'[k2]
      BY DEF PendingIsReal
    <2>1. CASE e \in Pending(k2)
      <3>1. e \in Event
        BY <2>1, PendingType
      <3>2. e.id \in Nat /\ e.id <= made[k2]
        BY <2>1, <3>1, EventType DEF Coverage, PendingIsReal
      <3> QED BY <1>1, <2>1, <3>2 DEF Coverage, PendingIsReal
    <2>2. CASE e \notin Pending(k2)
      BY <1>1, <1>2, <2>2
    <2> QED BY <2>1, <2>2
  <1>4. BeatsCovered' /\ StatusesCovered'
    BY <1>2 DEF Coverage, BeatsCovered, StatusesCovered, cacheVars, Kinds
  <1>5. ClearedInPast'
    <2>1. made["beat"] \in Nat /\ made'["beat"] \in {made["beat"], made["beat"] + 1}
      BY <1>1 DEF Kinds
    <2>2. \A n \in Nat : n <= made["beat"] => n <= made'["beat"]
      BY <2>1
    <2> QED BY <2>2 DEF Coverage, ClearedInPast, cacheVars, TypeOK
  <1> QED BY <1>3, <1>4, <1>5 DEF Coverage

\* onBeat stores: its beat is the newest, so what is pending stays covered.
LEMMA BeatStoreCoverage ==
  ASSUME TypeOK, Accounting, Coverage, OnBeatStore
  PROVE  Coverage'
  <1> DEFINE b == call["BeatFinder"].event
  <1>1. /\ At("beat", "store") /\ Advance("beat")
        /\ "beat" \in Kinds /\ Thread("beat") = "BeatFinder"
        /\ UNCHANGED <<made, queue, mainVars, latestStatuses, cleared>>
    BY DEF OnBeatStore, Kinds, Thread
  <1>2. /\ b.id = made["beat"] /\ b \in Event /\ b.device \in Devices
        /\ made["beat"] \in Nat
    BY <1>1 DEF At, Accounting, InFlightIsNewest, TypeOK, Call, Threads
  <1>3. \A k2 \in Kinds : \A e \in Pending(k2)' :
            e \in Pending(k2) \/ (k2 = "beat" /\ e = b)
    BY <1>1, AdvancePending
  <1>4. /\ lastBeat' = b
        /\ \A d \in Devices : latestBeats'[d] = IF d = b.device THEN b
                                                ELSE latestBeats[d]
    BY DEF OnBeatStore, TypeOK
  <1> HIDE DEF b
  <1>5. PendingIsReal'
    BY <1>1, <1>2, <1>3 DEF Coverage, PendingIsReal
  <1>6. BeatsCovered'
    <2> SUFFICES ASSUME NEW e \in Pending("beat")'
                 PROVE  /\ b.id >= e.id
                        /\ \/ latestBeats'[e.device] = NoEvent
                           \/ latestBeats'[e.device].id >= e.id
      BY <1>4 DEF BeatsCovered
    <2>1. e.device \in Devices /\ e.id <= made["beat"]
      BY <1>1, <1>5 DEF PendingIsReal
    <2>2. e \in Event
      BY <1>1, <1>2, <1>3, PendingType
    <2>3. b.id >= e.id
      BY <1>2, <2>1, <2>2, EventType
    <2>4. CASE e.device = b.device
      BY <1>4, <2>1, <2>3, <2>4
    <2>5. CASE e.device # b.device
      <3>1. e \in Pending("beat")
        BY <1>1, <1>3, <2>5
      <3>2. latestBeats'[e.device] = latestBeats[e.device]
        BY <1>4, <2>1, <2>5
      <3> QED BY <2>3, <3>1, <3>2 DEF Coverage, BeatsCovered
    <2> QED BY <2>3, <2>4, <2>5
  <1>7. StatusesCovered'
    BY <1>1, <1>3 DEF Coverage, StatusesCovered, Kinds
  <1>8. ClearedInPast'
    BY <1>1, <1>2, <1>4 DEF Coverage, ClearedInPast, TypeOK
  <1> QED BY <1>5, <1>6, <1>7, <1>8 DEF Coverage

\* onDeviceLost erases: an absent entry covers everything.
LEMMA EraseCoverage ==
  ASSUME TypeOK, Accounting, Coverage, OnDeviceLostErase
  PROVE  Coverage'
  <1> DEFINE x == call["DeviceFinder"].event
  <1>1. /\ At("lost", "store") /\ Advance("lost")
        /\ {"beat", "lost", "update"} \subseteq Kinds /\ Thread("lost") = "DeviceFinder"
        /\ UNCHANGED <<made, queue, mainVars, latestStatuses, lastBeat>>
    BY DEF OnDeviceLostErase, Erased, Kinds, Thread
  <1>2. x.id = made["lost"] /\ x.device \in Devices /\ made \in [Kinds -> Nat]
    BY <1>1 DEF At, Accounting, InFlightIsNewest, TypeOK, Call, Threads
  <1>3. \A k2 \in Kinds : \A e \in Pending(k2)' :
            e \in Pending(k2) \/ (k2 = "lost" /\ e = x)
    BY <1>1, AdvancePending
  <1>4. \A d \in Devices :
            /\ latestBeats'[d] = IF d = x.device THEN NoEvent ELSE latestBeats[d]
            /\ cleared'[d] = IF d = x.device THEN made["beat"] ELSE cleared[d]
    BY DEF OnDeviceLostErase, Erased, TypeOK
  <1> HIDE DEF x
  <1>5. PendingIsReal'
    BY <1>1, <1>2, <1>3 DEF Coverage, PendingIsReal
  <1>6. BeatsCovered'
    BY <1>1, <1>3, <1>4, <1>5 DEF Coverage, BeatsCovered, PendingIsReal
  <1>7. StatusesCovered'
    BY <1>1, <1>3 DEF Coverage, StatusesCovered
  <1>8. ClearedInPast'
    BY <1>1, <1>2, <1>4 DEF Coverage, ClearedInPast
  <1> QED BY <1>5, <1>6, <1>7, <1>8 DEF Coverage

\* The update listener stores: its status is the newest.
LEMMA StatusStoreCoverage ==
  ASSUME TypeOK, Accounting, Coverage, OnDeviceUpdateStore
  PROVE  Coverage'
  <1> DEFINE x == call["VirtualCdj"].event
  <1>1. /\ At("update", "store") /\ Advance("update")
        /\ {"beat", "update"} \subseteq Kinds /\ Thread("update") = "VirtualCdj"
        /\ UNCHANGED <<made, queue, mainVars, latestBeats, lastBeat, cleared>>
    BY DEF OnDeviceUpdateStore, Kinds, Thread
  <1>2. /\ x.id = made["update"] /\ x \in Event /\ x.device \in Devices
        /\ made["update"] \in Nat
    BY <1>1 DEF At, Accounting, InFlightIsNewest, TypeOK, Call, Threads
  <1>3. \A k2 \in Kinds : \A e \in Pending(k2)' :
            e \in Pending(k2) \/ (k2 = "update" /\ e = x)
    BY <1>1, AdvancePending
  <1>4. \A d \in Devices : latestStatuses'[d] = IF d = x.device THEN x
                                                ELSE latestStatuses[d]
    BY DEF OnDeviceUpdateStore, TypeOK
  <1> HIDE DEF x
  <1>5. PendingIsReal'
    BY <1>1, <1>2, <1>3 DEF Coverage, PendingIsReal
  <1>6. BeatsCovered'
    BY <1>1, <1>3 DEF Coverage, BeatsCovered
  <1>7. StatusesCovered'
    <2> SUFFICES ASSUME NEW e \in Pending("update")'
                 PROVE  latestStatuses'[e.device].id >= e.id
      BY DEF StatusesCovered
    <2>1. e.device \in Devices /\ e.id <= made["update"]
      BY <1>1, <1>5 DEF PendingIsReal
    <2>2. e \in Event
      BY <1>1, <1>2, <1>3, PendingType
    <2>3. x.id >= e.id
      BY <1>2, <2>1, <2>2, EventType
    <2>4. CASE e.device = x.device
      BY <1>4, <2>1, <2>3, <2>4
    <2>5. CASE e.device # x.device
      BY <1>3, <1>4, <2>1, <2>5, <1>1 DEF Coverage, StatusesCovered
    <2> QED BY <2>4, <2>5
  <1>8. ClearedInPast'
    BY <1>1 DEF Coverage, ClearedInPast
  <1> QED BY <1>5, <1>6, <1>7, <1>8 DEF Coverage

-----------------------------------------------------------------------------
LEMMA IInvInit == Init => IInv
  <1> SUFFICES ASSUME Init PROVE IInv OBVIOUS
  <1>1. TypeOK
    BY TypeInit
  <1>2. \A t \in Threads : call[t] = Idle /\ Idle.stage = "idle"
    BY DEF Init, Idle
  <1>3. \A k \in Kinds : InFlight(k) = 0 /\ Pending(k) = {}
    BY <1>2, ThreadType DEF InFlight, Pending, At, Init, ToSet
  <1>4. Accounting
    BY <1>2, <1>3 DEF Init, Accounting, ExactlyOnceInOrder, InFlightIsNewest
  <1>5. Coverage
    <2>1. BeatsCovered /\ StatusesCovered /\ PendingIsReal
      BY <1>3 DEF BeatsCovered, StatusesCovered, PendingIsReal, Kinds
    <2>2. ClearedInPast
      BY DEF ClearedInPast, Init, Kinds
    <2> QED BY <2>1, <2>2 DEF Coverage
  <1>6. LockedSection
    BY DEF Init, LockedSection
  <1> QED BY <1>1, <1>4, <1>5, <1>6 DEF IInv, Accounting, Coverage

\* Every step keeps it.
LEMMA IInvNext == IInv /\ [Next]_vars => IInv'
  <1> SUFFICES ASSUME IInv, [Next]_vars PROVE IInv' OBVIOUS
  <1>1. TypeOK /\ Accounting /\ Coverage /\ LockedSection
    BY DEF IInv, Accounting, Coverage
  <1>2. TypeOK'
    BY <1>1, TypeNext
  <1>3. ASSUME NEW d \in Devices, NEW k \in Kinds, NEW s \in {"store", "push"},
               Enter(k, d, s), s = "push" => k \notin {"beat", "update"},
               UNCHANGED <<queue, locked, cacheVars, mainVars>>
        PROVE  IInv'
    <2>1. Accounting'
      BY <1>1, <1>3, EnterAccounting DEF mainVars
    <2>2. Coverage'
      BY <1>1, <1>3, EnterCoverage
    <2>3. LockedSection'
      BY <1>1, <1>3 DEF LockedSection, mainVars, Kind
    <2> QED BY <1>2, <2>1, <2>2, <2>3 DEF IInv, Accounting, Coverage
  <1>4. CASE Arrival
    <2>1. PICK d \in Devices : \/ OnBeat(d) \/ OnDeviceFound(d) \/ OnDeviceLost(d)
                               \/ OnDeviceUpdate(d) \/ OnMasterChanged(d)
      BY <1>4 DEF Arrival
    <2>2. CASE OnBeat(d)
      BY <1>3, <2>2 DEF OnBeat, Kinds
    <2>3. CASE OnDeviceFound(d)
      BY <1>3, <2>3 DEF OnDeviceFound, Kinds
    <2>4. CASE OnDeviceLost(d)
      BY <1>3, <2>4 DEF OnDeviceLost, Kinds
    <2>5. CASE OnDeviceUpdate(d)
      BY <1>3, <2>5 DEF OnDeviceUpdate, Kinds
    <2>6. CASE OnMasterChanged(d)
      BY <1>3, <2>6 DEF OnMasterChanged, Kinds
    <2> QED BY <2>1, <2>2, <2>3, <2>4, <2>5, <2>6
  <1>5. CASE CallbackStep
    <2>1. Coverage'
      BY <1>1, <1>5, BeatStoreCoverage, EraseCoverage, StatusStoreCoverage
         DEF CallbackStep
    <2>2. Accounting'
      <3>1. PICK k \in Kinds : At(k, "store") /\ Advance(k)
        BY <1>5 DEF CallbackStep, OnBeatStore, OnDeviceLostErase, Erased,
           OnDeviceUpdateStore, Kinds
      <3>2. UNCHANGED <<made, queue, delivered>>
        BY <1>5 DEF CallbackStep, OnBeatStore, OnDeviceLostErase, Erased,
           OnDeviceUpdateStore, mainVars
      <3> QED BY <1>1, <3>1, <3>2, AdvanceAccounting
    <2>3. LockedSection'
      BY <1>1, <1>5 DEF LockedSection, mainVars, Kind, CallbackStep, OnBeatStore,
         OnDeviceLostErase, OnDeviceUpdateStore
    <2> QED BY <1>2, <2>1, <2>2, <2>3 DEF IInv, Accounting, Coverage
  <1>6. CASE PushStep
    <2>1. PICK k \in Kinds : Push(k)
      BY <1>6 DEF PushStep, OnBeatPush, OnDeviceFoundPush, OnDeviceLostPush,
         OnDeviceUpdatePush, OnMasterChangedPush, Kinds
    <2>2. UNCHANGED <<made, cacheVars, mainVars, locked>>
      BY <2>1 DEF Push
    <2>3. Accounting'
      BY <1>1, <2>1, PushAccounting
    <2>4. Coverage'
      BY <1>1, <2>1, <2>2, PushPending, QuietCoverage
    <2>5. LockedSection'
      BY <1>1, <2>2 DEF LockedSection, mainVars, Kind
    <2> QED BY <1>2, <2>3, <2>4, <2>5 DEF IInv, Accounting, Coverage
  <1>7. CASE Update \/ UpdateStep
    <2>1. UNCHANGED <<cacheVars, call, made>>
      BY <1>7 DEF UpdateStep, Update, LockQueue, Dispatch, Popped, RunListener,
         UnlockQueue, threadVars
    <2>2. Coverage'
      BY <1>1, <1>7, <2>1, UpdatePending, QuietCoverage
    <2>3. Accounting'
      <3>1. CASE Dispatch
        BY <1>1, <3>1, DispatchAccounting
      <3>2. CASE UNCHANGED <<queue, delivered>>
        BY <1>1, <2>1, <3>2 DEF Accounting, ExactlyOnceInOrder, InFlight,
           InFlightIsNewest
      <3> QED BY <1>7, <3>1, <3>2
              DEF UpdateStep, Update, LockQueue, RunListener, UnlockQueue
    <2>4. LockedSection'
      <3>1. CASE Update \/ LockQueue
        BY <1>1, <3>1 DEF LockedSection, Update, LockQueue, Kind
      <3>2. CASE Dispatch \/ RunListener
        BY <1>1, <3>2 DEF LockedSection, Dispatch, Popped, RunListener, Kind
      <3>3. CASE UnlockQueue
        BY <1>1, <3>3 DEF LockedSection, UnlockQueue, NextSection, Unlocked, Kind
      <3> QED BY <1>7, <3>1, <3>2, <3>3 DEF UpdateStep
    <2> QED BY <1>2, <2>2, <2>3, <2>4 DEF IInv, Accounting, Coverage
  <1>8. CASE ForgetDevices \/ UNCHANGED vars
    <2>1. UNCHANGED <<call, made, cacheVars, mainVars, queue, locked>>
      BY <1>8 DEF vars, threadVars, ForgetDevices
    <2>2. Accounting'
      BY <1>1, <2>1 DEF Accounting, ExactlyOnceInOrder, InFlight,
         InFlightIsNewest, mainVars
    <2>3. \A k \in Kinds : Pending(k)' = Pending(k)
      BY <2>1 DEF Pending, At, mainVars, Kind
    <2>4. Coverage'
      BY <1>1, <2>1, <2>3, QuietCoverage
    <2>5. LockedSection'
      BY <1>1, <2>1 DEF LockedSection, mainVars, Kind
    <2> QED BY <1>2, <2>2, <2>4, <2>5 DEF IInv, Accounting, Coverage
  <1> QED BY <1>4, <1>5, <1>6, <1>7, <1>8 DEF Next

\* The inductive invariant holds of every interleaving of the callbacks with update().
THEOREM IInvHolds == Spec => []IInv
  BY IInvInit, IInvNext, PTL DEF Spec

\* Every event of every kind is dispatched at most once and in the order of
\* its callbacks, and is in the queue until it is dispatched.
THEOREM EventsExactlyOnceInOrder == Spec => []ExactlyOnceInOrder
  <1>1. IInv => ExactlyOnceInOrder
    BY DEF IInv
  <1> QED BY <1>1, IInvHolds, PTL

\* getLatestBeat never lags behind a beat that is queued or being handed out.
THEOREM LatestBeatNeverBehind == Spec => []LatestBeatCoversQueue
  <1>1. IInv => LatestBeatCoversQueue
    <2> SUFFICES ASSUME IInv,
                        NEW e \in (IF section = 1 /\ step = "listener" THEN {current}
                                   ELSE {}) \cup ToSet(queue["beat"])
                 PROVE  /\ lastBeat.id >= e.id
                        /\ \/ latestBeats[e.device] = NoEvent
                           \/ latestBeats[e.device].id >= e.id
      BY DEF LatestBeatCoversQueue
    <2>1. e \in Pending("beat")
      BY DEF Pending, Kind, Order
    <2> QED BY <2>1 DEF IInv, BeatsCovered
  <1> QED BY <1>1, IInvHolds, PTL

\* getStatusFor never lags behind a status that is queued or being handed out.
THEOREM LatestStatusNeverBehind == Spec => []LatestStatusCoversQueue
  <1>1. IInv => LatestStatusCoversQueue
    <2> SUFFICES ASSUME IInv,
                        NEW e \in (IF section = 4 /\ step = "listener" THEN {current}
                                   ELSE {}) \cup ToSet(queue["update"])
                 PROVE  latestStatuses[e.device].id >= e.id
      BY DEF LatestStatusCoversQueue
    <2>1. section = 4 => Kind = "update"
      BY DEF IInv, TypeOK, Kind, Order
    <2>2. e \in Pending("update")
      BY <2>1 DEF Pending
    <2> QED BY <2>2 DEF IInv, StatusesCovered
  <1> QED BY <1>1, IInvHolds, PTL

\* Only a beat that was under way at the loss can come back into the cache.
THEOREM NoOlderBeatOutlivesLoss == Spec => []OnlyInFlightBeatOutlivesLoss
  <1>1. IInv => OnlyInFlightBeatOutlivesLoss
    BY DEF IInv, ClearedInPast, OnlyInFlightBeatOutlivesLoss
  <1> QED BY <1>1, IInvHolds, PTL

-----------------------------------------------------------------------------
(***************************************************************************)
(* Refinement: the threads, the mutexes and the caches of ofxBeatLink      *)
(* implement the channels of EventChannel.                                 *)
(***************************************************************************)

LEMMA ChannelInit == Init => Channel!Init
  BY DEF Init, Channel!Init

\* A push is a Publish.
LEMMA PushPublishes ==
  ASSUME IInv, NEW k \in Kinds, Push(k)
  PROVE  \E d \in Devices : Channel!Publish(k, d)
  <1> DEFINE e == call[Thread(k)].event
  <1>1. /\ Thread(k) \in Threads
        /\ call[Thread(k)].kind = k /\ call[Thread(k)].stage = "push"
    BY ThreadType DEF Push, At
  <1>2. e.id = made[k] /\ e.device \in Devices /\ e \in Event
    BY <1>1 DEF IInv, InFlightIsNewest, TypeOK, Call
  <1>3. e = [device |-> e.device, id |-> e.id]
    BY <1>2 DEF Event
  <1>4. made[k] = delivered[k] + Len(queue[k]) + 1
    BY <1>1 DEF IInv, ExactlyOnceInOrder, InFlight
  <1>5. queue' = [queue EXCEPT ![k] = Append(@, [device |-> e.device,
                                     id |-> delivered[k] + Len(queue[k]) + 1])]
    BY <1>2, <1>3, <1>4 DEF Push
  <1> QED BY <1>2, <1>5 DEF Push, Free, mainVars, Channel!Publish

LEMMA ChannelNext == IInv /\ [Next]_vars => [Channel!Next]_(Channel!vars)
  <1> SUFFICES ASSUME IInv, [Next]_vars PROVE [Channel!Next]_(Channel!vars) OBVIOUS
  <1>1. section # 0 => Kind \in Kinds
    BY OrderType DEF Kind, IInv, TypeOK
  <1>2. CASE \/ Arrival \/ ForgetDevices \/ CallbackStep
             \/ Update \/ RunListener \/ UNCHANGED vars
    <2>1. UNCHANGED <<queue, delivered, locked>>
      BY <1>2 DEF Arrival, ForgetDevices, OnBeat, OnDeviceFound, OnDeviceLost,
         OnDeviceUpdate, OnMasterChanged, CallbackStep, OnBeatStore, OnDeviceLostErase,
         OnDeviceUpdateStore, Update, RunListener, vars, mainVars
    <2> QED BY <2>1 DEF Channel!vars
  <1>3. CASE PushStep
    <2>1. PICK k \in Kinds : Push(k)
      BY <1>3 DEF PushStep, OnBeatPush, OnDeviceFoundPush, OnDeviceLostPush,
         OnDeviceUpdatePush, OnMasterChangedPush, Kinds
    <2> QED BY <2>1, PushPublishes DEF Channel!Next
  <1>4. CASE LockQueue
    <2>1. locked = {} /\ Kind \in Kinds
      BY <1>1, <1>4 DEF IInv, LockedSection, LockQueue
    <2>2. Channel!Take(Kind)
      BY <1>4, <2>1 DEF LockQueue, Channel!Take
    <2> QED BY <2>1, <2>2 DEF Channel!Next
  <1>5. CASE Dispatch
    <2> DEFINE q == queue[Kind]
    <2>1. locked = {Kind} /\ Kind \in Kinds /\ q \in Seq(Event) /\ q # <<>>
      BY <1>1, <1>5 DEF IInv, LockedSection, Dispatch, Popped, TypeOK
    <2>2. 1 \in 1 .. Len(q) /\ Head(q) = q[1]
      BY <2>1
    <2>3. Head(q).id = delivered[Kind] + 1
      BY <2>1, <2>2 DEF IInv, ExactlyOnceInOrder
    <2>4. delivered' = [delivered EXCEPT ![Kind] = @ + 1]
      BY <1>5, <2>3 DEF Dispatch, Popped
    <2>5. Channel!Deliver(Kind)
      BY <1>5, <2>1, <2>3, <2>4 DEF Dispatch, Popped, Channel!Deliver
    <2> QED BY <2>1, <2>5 DEF Channel!Next
  <1>6. CASE UnlockQueue
    <2>1. locked = {Kind} /\ Kind \in Kinds
      BY <1>1, <1>6 DEF IInv, LockedSection, UnlockQueue, NextSection, Unlocked
    <2>2. Channel!Finish(Kind)
      BY <1>6, <2>1 DEF UnlockQueue, NextSection, Unlocked, Channel!Finish
    <2> QED BY <2>1, <2>2 DEF Channel!Next
  <1> QED BY <1>2, <1>3, <1>4, <1>5, <1>6 DEF Next, UpdateStep

\* Spec implements EventChannel: whatever the threads do, each kind of event
\* is a first-in first-out channel emptied in batches nothing can join.
THEOREM RefinesEventChannel == Spec => ImplementsEventChannel
  <1>1. Spec => Channel!Spec
    BY ChannelInit, ChannelNext, IInvHolds, PTL DEF Spec, Channel!Spec
  <1> QED BY <1>1 DEF ImplementsEventChannel

-----------------------------------------------------------------------------
(***************************************************************************)
(* Refinement: they implement the feed that the applications are built on. *)
(***************************************************************************)

LEMMA CallbacksInit == Init => CallbacksOfKind
  BY DEF Init, Idle, CallbacksOfKind

LEMMA CallbacksNext == TypeOK /\ CallbacksOfKind /\ [Next]_vars => CallbacksOfKind'
  <1> SUFFICES ASSUME TypeOK, CallbacksOfKind, [Next]_vars PROVE CallbacksOfKind'
    OBVIOUS
  <1>1. ASSUME NEW k \in Kinds, NEW d \in Devices, NEW s \in {"store", "push"},
               Enter(k, d, s), s = "store" => k \in {"beat", "lost", "update"},
               k \in {"update", "master"} => HasVirtualCdj
        PROVE  CallbacksOfKind'
    <2>1. \A k2 \in Kinds : made'[k2] <= MaxEvents[k2]
      BY <1>1 DEF Enter, CallbacksOfKind, TypeOK
    <2>2. \A t \in Threads :
             IF t = Thread(k) THEN call'[t].kind = k /\ call'[t].stage = s
                              ELSE call'[t] = call[t]
      BY <1>1 DEF Enter, TypeOK
    <2> QED BY <1>1, <2>1, <2>2 DEF CallbacksOfKind
  <1>2. ASSUME NEW k \in Kinds, NEW s \in {"idle", "push"}, UNCHANGED made,
               call[Thread(k)].stage # "idle",
               call' = [call EXCEPT ![Thread(k)].stage = s]
        PROVE  CallbacksOfKind'
    <2>1. \A t \in Threads : /\ call[t] \in Call
                             /\ call'[t] = IF t = Thread(k) THEN [call[t] EXCEPT !.stage = s]
                                                            ELSE call[t]
      BY <1>2 DEF TypeOK
    <2>2. \A t \in Threads : /\ call'[t].kind = call[t].kind
                             /\ call'[t].stage = IF t = Thread(k) THEN s ELSE call[t].stage
      BY <2>1 DEF Call
    <2> QED BY <1>2, <2>2 DEF CallbacksOfKind
  <1>3. CASE Arrival
    BY <1>1, <1>3 DEF Arrival, OnBeat, OnDeviceFound, OnDeviceLost, OnDeviceUpdate,
       OnMasterChanged, Kinds
  <1>4. CASE CallbackStep
    BY <1>2, <1>4 DEF CallbackStep, OnBeatStore, OnDeviceLostErase, OnDeviceUpdateStore,
       Advance, At, Kinds
  <1>5. CASE PushStep
    BY <1>2, <1>5 DEF PushStep, OnBeatPush, OnDeviceFoundPush, OnDeviceLostPush,
       OnDeviceUpdatePush, OnMasterChangedPush, Push, At, Kinds
  <1>6. CASE ForgetDevices \/ Update \/ UpdateStep \/ UNCHANGED vars
    BY <1>6 DEF CallbacksOfKind, ForgetDevices, Update, UpdateStep, LockQueue, Dispatch,
       RunListener, UnlockQueue, vars, threadVars
  <1> QED BY <1>3, <1>4, <1>5, <1>6 DEF Next

\* An application sees a callback of DeviceFinder from its first step, one of
\* the other threads never or from its push: what it counts agrees with made.
LEMMA FeedCounts ==
  ASSUME IInv, CallbacksOfKind
  PROVE  /\ \A k \in {"beat", "found", "lost"} :
               /\ Feed!Coming(k) <=> At(k, "push") \/ (k = "lost" /\ At(k, "store"))
               /\ Feed!Coming(k) => Seen(k) = [device |-> Seen(k).device, id |-> made[k]]
               /\ Feed!Made(k) = made[k] - (IF k = "beat" /\ At(k, "store") THEN 1 ELSE 0)
         /\ \A k \in {"update", "master"} : Feed!Made(k) = made[k] - InFlight(k)
  <1>1. TypeOK /\ ExactlyOnceInOrder /\ InFlightIsNewest
    BY DEF IInv
  <1>2. \A k \in Kinds : /\ made[k] \in Nat /\ delivered[k] \in Nat
                         /\ Len(queue[k]) \in Nat
    BY <1>1 DEF TypeOK
  <1>3. ASSUME NEW k \in {"beat", "found", "lost"}
        PROVE  /\ Feed!Coming(k) <=> At(k, "push") \/ (k = "lost" /\ At(k, "store"))
               /\ Feed!Coming(k) => Seen(k) = [device |-> Seen(k).device, id |-> made[k]]
               /\ Feed!Made(k) = made[k] - (IF k = "beat" /\ At(k, "store") THEN 1 ELSE 0)
    <2> DEFINE c == call[Thread(k)]
    <2>1. k \in Kinds /\ Thread(k) \in Threads /\ c \in Call
      BY <1>1, ThreadType DEF TypeOK, Kinds
    <2>2. c.stage # "idle" => c.event.device \in Devices /\ c.event \in Event
      BY <1>1, <2>1 DEF TypeOK, Call
    <2>3. c.stage # "idle" => c.event # NoEvent
      BY <2>2 DEF NoEvent
    <2>4. Feed!Coming(k) <=> Seen(k) # NoEvent
      BY DEF Feed!Coming, Feed!NoEvent, NoEvent
    <2>5. Feed!Coming(k) <=> At(k, "push") \/ (k = "lost" /\ At(k, "store"))
      BY <2>3, <2>4 DEF Seen, At
    <2>6. Feed!Coming(k) => Seen(k) = [device |-> Seen(k).device, id |-> made[k]]
      <3> SUFFICES ASSUME Feed!Coming(k)
                   PROVE  Seen(k) = [device |-> Seen(k).device, id |-> made[k]]
        OBVIOUS
      <3>1. Seen(k) = c.event /\ c.kind = k /\ c.stage # "idle"
        BY <2>5 DEF Seen, At
      <3>2. Seen(k).id = made[k]
        BY <1>1, <2>1, <3>1 DEF InFlightIsNewest
      <3> QED BY <2>2, <3>1, <3>2 DEF Event
    <2>7. At(k, "store") => k # "found"
      BY <2>1 DEF CallbacksOfKind, At
    <2>8. c.stage \in {"idle", "store", "push"}
      BY <2>1 DEF Call
    <2>9. Feed!Made(k) = delivered[k] + Len(queue[k]) + (IF Feed!Coming(k) THEN 1 ELSE 0)
      BY DEF Feed!Made
    <2>10. made[k] = delivered[k] + Len(queue[k]) + InFlight(k)
      BY <1>1, <2>1 DEF ExactlyOnceInOrder
    <2>11. InFlight(k) = (IF Feed!Coming(k) THEN 1 ELSE 0)
                           + (IF k = "beat" /\ At(k, "store") THEN 1 ELSE 0)
      BY <2>5, <2>7, <2>8 DEF InFlight, At
    <2> QED BY <1>2, <2>1, <2>5, <2>6, <2>9, <2>10, <2>11
  <1>4. ASSUME NEW k \in {"update", "master"}
        PROVE  Feed!Made(k) = made[k] - InFlight(k)
    <2>1. ~ Feed!Coming(k) /\ k \in Kinds
      BY DEF Feed!Coming, Kinds
    <2>2. Feed!Made(k) = delivered[k] + Len(queue[k]) + 0
      BY <2>1 DEF Feed!Made
    <2> QED BY <1>1, <1>2, <2>1, <2>2 DEF ExactlyOnceInOrder, InFlight
  <1> QED BY <1>3, <1>4

LEMMA FeedInit == Init => Feed!Init
  <1> SUFFICES ASSUME Init PROVE Feed!Init OBVIOUS
  <1>1. \A k \in {"beat", "found", "lost"} : Seen(k) = NoEvent
    BY ThreadType DEF Init, Idle, Seen, At, Kinds
  <1> QED BY <1>1 DEF Init, Feed!Init, Feed!NoEvent, NoEvent, Feed!Kinds, Kinds

\* What an application sees of a callback depends on its thread alone.
LEMMA SeenSame ==
  ASSUME NEW k \in Kinds, call'[Thread(k)] = call[Thread(k)]
  PROVE  Seen(k)' = Seen(k)
  BY DEF Seen, At

\* A callback of DeviceFinder begins.
LEMMA DeviceCallbackEnters ==
  ASSUME IInv, CallbacksOfKind, NEW d \in Devices,
         OnDeviceFound(d) \/ OnDeviceLost(d)
  PROVE  Feed!OnDeviceFound(d) \/ Feed!OnDeviceLost(d)
  <1> DEFINE seen == [k \in {"beat", "found", "lost"} |-> Seen(k)]
  <1>1. TypeOK
    BY DEF IInv
  <1>2. ASSUME NEW k \in {"found", "lost"}, NEW s \in {"store", "push"},
               Enter(k, d, s), s = "store" => k = "lost"
        PROVE  /\ ~ Feed!Coming("found") /\ ~ Feed!Coming("lost")
               /\ Feed!Made(k) < MaxEvents[k]
               /\ seen' = [seen EXCEPT ![k] = Feed!New(k, d)]
    <2>1. /\ call["DeviceFinder"].stage = "idle" /\ Thread(k) = "DeviceFinder"
          /\ "DeviceFinder" \in Threads /\ "BeatFinder" \in Threads
          /\ Thread("found") = "DeviceFinder" /\ Thread("lost") = "DeviceFinder"
          /\ Thread("beat") = "BeatFinder"
      BY <1>2 DEF Enter, Thread, Threads
    <2>2. ~ At("found", "push") /\ ~ At("lost", "push") /\ ~ At("lost", "store")
      BY <2>1 DEF At
    <2>3. Feed!Made(k) = made[k] /\ ~ Feed!Coming("found") /\ ~ Feed!Coming("lost")
      <3>1. Feed!Made(k) = made[k] - 0
        BY FeedCounts
      <3>2. made[k] \in Nat
        BY <1>1 DEF TypeOK, Kinds
      <3> QED BY <2>2, <3>1, <3>2, FeedCounts
    <2>4. call'["BeatFinder"] = call["BeatFinder"]
      BY <1>1, <1>2, <2>1 DEF Enter, TypeOK
    <2>5. call'["DeviceFinder"] = [kind |-> k, stage |-> s,
                                   event |-> [device |-> d, id |-> made[k] + 1]]
      BY <1>1, <1>2, <2>1 DEF Enter, TypeOK
    <2>6. Seen("beat")' = Seen("beat")
      BY <2>1, <2>4, SeenSame DEF Kinds
    <2>7. /\ Seen(k)' = [device |-> d, id |-> made[k] + 1]
          /\ \A k2 \in {"found", "lost"} \ {k} : Seen(k2)' = NoEvent /\ Seen(k2) = NoEvent
      BY <1>2, <2>1, <2>2, <2>5 DEF Seen, At
    <2>8. Feed!New(k, d) = [device |-> d, id |-> made[k] + 1]
      BY <2>3 DEF Feed!New
    <2> QED BY <1>2, <2>3, <2>6, <2>7, <2>8 DEF Enter
  <1>3. CASE OnDeviceFound(d)
    BY <1>2, <1>3 DEF OnDeviceFound, Feed!OnDeviceFound, Feed!Enter, cacheVars, mainVars
  <1>4. CASE OnDeviceLost(d)
    BY <1>2, <1>4 DEF OnDeviceLost, Feed!OnDeviceLost, Feed!Enter, cacheVars, mainVars
  <1> QED BY <1>3, <1>4

\* For an application a beat begins when it is stored.
LEMMA BeatStoreEnters ==
  ASSUME IInv, CallbacksOfKind, OnBeatStore
  PROVE  \E d \in Devices : Feed!OnBeat(d)
  <1> DEFINE seen == [k \in {"beat", "found", "lost"} |-> Seen(k)]
             e == call["BeatFinder"].event
  <1>1. /\ TypeOK /\ InFlightIsNewest
        /\ made["beat"] \in Nat /\ made["beat"] <= MaxEvents["beat"]
        /\ MaxEvents["beat"] \in Nat
    BY DEF IInv, TypeOK, CallbacksOfKind, Kinds
  <1>2. /\ Thread("beat") = "BeatFinder" /\ Thread("found") = "DeviceFinder"
        /\ Thread("lost") = "DeviceFinder"
        /\ "DeviceFinder" \in Threads /\ "BeatFinder" \in Threads
    BY DEF Thread, Threads
  <1>3. call["BeatFinder"].kind = "beat" /\ call["BeatFinder"].stage = "store"
    BY <1>2 DEF OnBeatStore, At
  <1>4. e \in Event /\ e.device \in Devices /\ e.id = made["beat"]
    BY <1>1, <1>2, <1>3 DEF TypeOK, Call, InFlightIsNewest
  <1>5. e = [device |-> e.device, id |-> made["beat"]]
    BY <1>4 DEF Event
  <1>6. ~ Feed!Coming("beat") /\ Feed!Made("beat") = made["beat"] - 1
    BY <1>2, <1>3, FeedCounts DEF At
  <1>7. Feed!New("beat", e.device) = e
    <2>1. Feed!Made("beat") + 1 = made["beat"]
      BY <1>1, <1>6
    <2> QED BY <1>5, <2>1 DEF Feed!New
  <1>8. Feed!Made("beat") < MaxEvents["beat"]
    BY <1>1, <1>6
  <1>9. seen' = [seen EXCEPT !["beat"] = e]
    <2>1. /\ call'["BeatFinder"] = [call["BeatFinder"] EXCEPT !.stage = "push"]
          /\ call'["DeviceFinder"] = call["DeviceFinder"]
      BY <1>1, <1>2 DEF OnBeatStore, Advance, TypeOK
    <2>2. Seen("found")' = Seen("found") /\ Seen("lost")' = Seen("lost")
      BY <1>2, <2>1, SeenSame DEF Kinds
    <2>3. call["BeatFinder"] \in Call
      BY <1>1, <1>2 DEF TypeOK
    <2>4. Seen("beat")' = e
      BY <1>2, <1>3, <2>1, <2>3 DEF Seen, At, Call
    <2> QED BY <2>2, <2>4
  <1>10. lastBeat' = e
    BY DEF OnBeatStore
  <1>11. Feed!OnBeat(e.device)
    BY <1>6, <1>7, <1>8, <1>9, <1>10 DEF OnBeatStore, Feed!OnBeat, Feed!Enter, mainVars
  <1> QED BY <1>4, <1>11

\* A push of BeatFinder or DeviceFinder ends what had begun; one of VirtualCdj
\* is all there is to see.
LEMMA PushFeeds ==
  ASSUME IInv, CallbacksOfKind, NEW k \in Kinds, Push(k)
  PROVE  Feed!Publish(k) \/ \E d \in Devices : Feed!Notify(k, d)
  <1> DEFINE seen == [k2 \in {"beat", "found", "lost"} |-> Seen(k2)]
             c == call[Thread(k)]
  <1>1. TypeOK /\ InFlightIsNewest
    BY DEF IInv
  <1>2. /\ Thread(k) \in Threads /\ c \in Call /\ c.kind = k /\ c.stage = "push"
        /\ k \notin locked
    BY <1>1, ThreadType DEF Push, At, Free, TypeOK
  <1>3. c.event \in Event /\ c.event.device \in Devices /\ c.event.id = made[k]
    BY <1>1, <1>2 DEF TypeOK, Call, InFlightIsNewest
  <1>4. c.event = [device |-> c.event.device, id |-> made[k]]
    BY <1>3 DEF Event
  <1>5. \A t \in Threads : call'[t] = IF t = Thread(k) THEN [c EXCEPT !.stage = "idle"]
                                                     ELSE call[t]
    BY <1>1, <1>2 DEF Push, TypeOK
  <1>6. \A k2 \in {"beat", "found", "lost"} :
            Seen(k2)' = IF k2 = k THEN NoEvent ELSE Seen(k2)
    <2> SUFFICES ASSUME NEW k2 \in {"beat", "found", "lost"}
                 PROVE  Seen(k2)' = IF k2 = k THEN NoEvent ELSE Seen(k2)
      OBVIOUS
    <2>1. k2 \in Kinds /\ Thread(k2) \in Threads
      BY ThreadType DEF Kinds
    <2>2. CASE Thread(k2) # Thread(k)
      BY <1>5, <2>1, <2>2, SeenSame
    <2>3. CASE Thread(k2) = Thread(k)
      <3>1. call'[Thread(k2)].stage = "idle"
        BY <1>2, <1>5, <2>1, <2>3 DEF Call
      <3> QED BY <1>2, <2>3, <3>1 DEF Seen, At
    <2> QED BY <2>2, <2>3
  <1>7. CASE k \in {"beat", "found", "lost"}
    <2>1. Feed!Coming(k)
      BY <1>2, <1>7, FeedCounts DEF At
    <2>2. seen[k] = c.event
      BY <1>2, <1>7 DEF Seen, At
    <2>3. seen' = [seen EXCEPT ![k] = NoEvent]
      BY <1>6, <1>7
    <2>4. queue' = [queue EXCEPT ![k] = Append(@, seen[k])]
      BY <2>2 DEF Push
    <2>5. Feed!Publish(k)
      BY <1>2, <2>1, <2>3, <2>4 DEF Push, cacheVars, mainVars, Feed!Publish,
         Feed!NoEvent, NoEvent
    <2> QED BY <2>5
  <1>8. CASE k \in {"update", "master"}
    <2>1. HasVirtualCdj
      BY <1>2, <1>8 DEF CallbacksOfKind
    <2>2. Feed!Made(k) = made[k] - 1
      BY <1>2, <1>8, FeedCounts DEF InFlight
    <2>3. Feed!New(k, c.event.device) = c.event
      <3>1. Feed!Made(k) + 1 = made[k]
        BY <1>1, <2>2 DEF TypeOK
      <3> QED BY <1>4, <3>1 DEF Feed!New
    <2>4. Feed!Made(k) < MaxEvents[k]
      BY <1>1, <2>2 DEF CallbacksOfKind, TypeOK
    <2>5. seen' = seen
      BY <1>6, <1>8
    <2>6. Feed!Notify(k, c.event.device)
      BY <1>2, <1>8, <2>1, <2>3, <2>4, <2>5
         DEF Push, cacheVars, mainVars, Feed!Notify
    <2> QED BY <1>3, <2>6
  <1> QED BY <1>7, <1>8 DEF Kinds

LEMMA FeedNext ==
  IInv /\ CallbacksOfKind /\ [Next]_vars => [Feed!Next]_(Feed!feedVars)
  <1> SUFFICES ASSUME IInv, CallbacksOfKind, [Next]_vars
               PROVE  [Feed!Next]_(Feed!feedVars)
    OBVIOUS
  <1> DEFINE seen == [k \in {"beat", "found", "lost"} |-> Seen(k)]
  <1>1. TypeOK /\ LockedSection
    BY DEF IInv
  <1>2. /\ Thread("beat") = "BeatFinder" /\ Thread("found") = "DeviceFinder"
        /\ Thread("lost") = "DeviceFinder"
        /\ "DeviceFinder" \in Threads /\ "BeatFinder" \in Threads /\ "VirtualCdj" \in Threads
    BY DEF Thread, Threads
  <1>3. ASSUME UNCHANGED <<queue, locked, lastBeat, devices, section, delivered>>,
               \A k \in {"beat", "found", "lost"} : Seen(k)' = Seen(k)
        PROVE  UNCHANGED Feed!feedVars
    BY <1>3 DEF Feed!feedVars
  <1>4. ASSUME call'["BeatFinder"] = call["BeatFinder"],
               call'["DeviceFinder"] = call["DeviceFinder"]
        PROVE  \A k \in {"beat", "found", "lost"} : Seen(k)' = Seen(k)
    BY <1>2, <1>4, SeenSame DEF Kinds
  <1>5. UNCHANGED call => seen' = seen
    BY <1>4
  <1>6. CASE Arrival
    <2>1. PICK d \in Devices : \/ OnBeat(d) \/ OnDeviceFound(d) \/ OnDeviceLost(d)
                               \/ OnDeviceUpdate(d) \/ OnMasterChanged(d)
      BY <1>6 DEF Arrival
    <2>2. CASE OnDeviceFound(d) \/ OnDeviceLost(d)
      BY <2>2, DeviceCallbackEnters DEF Feed!Next
    <2>3. CASE OnDeviceUpdate(d) \/ OnMasterChanged(d)
      <3>1. /\ call'["BeatFinder"] = call["BeatFinder"]
            /\ call'["DeviceFinder"] = call["DeviceFinder"]
        BY <1>1, <1>2, <2>3 DEF OnDeviceUpdate, OnMasterChanged, Enter, Thread, TypeOK
      <3> QED BY <1>3, <1>4, <2>3, <3>1
              DEF OnDeviceUpdate, OnMasterChanged, cacheVars, mainVars
    <2>4. CASE OnBeat(d)
      <3>1. /\ call["BeatFinder"].stage = "idle" /\ call'["BeatFinder"].stage = "store"
            /\ call'["DeviceFinder"] = call["DeviceFinder"]
        BY <1>1, <1>2, <2>4 DEF OnBeat, Enter, TypeOK
      <3>2. \A k \in {"beat", "found", "lost"} : Seen(k)' = Seen(k)
        BY <1>2, <3>1 DEF Seen, At
      <3> QED BY <1>3, <2>4, <3>2 DEF OnBeat, cacheVars, mainVars
    <2> QED BY <2>1, <2>2, <2>3, <2>4
  <1>7. CASE CallbackStep
    <2>1. CASE OnBeatStore
      BY <2>1, BeatStoreEnters DEF Feed!Next
    <2>2. CASE OnDeviceLostErase
      <3>1. /\ call["DeviceFinder"] \in Call /\ call["DeviceFinder"].kind = "lost"
            /\ call["DeviceFinder"].stage = "store"
            /\ call'["DeviceFinder"] = [call["DeviceFinder"] EXCEPT !.stage = "push"]
            /\ call'["BeatFinder"] = call["BeatFinder"]
        BY <1>1, <1>2, <2>2 DEF OnDeviceLostErase, At, Advance, TypeOK
      <3>2. \A k \in {"beat", "found", "lost"} : Seen(k)' = Seen(k)
        BY <1>2, <3>1 DEF Seen, At, Call
      <3> QED BY <1>3, <2>2, <3>2 DEF OnDeviceLostErase, mainVars
    <2>3. CASE OnDeviceUpdateStore
      <3>1. /\ call'["BeatFinder"] = call["BeatFinder"]
            /\ call'["DeviceFinder"] = call["DeviceFinder"]
        BY <1>1, <1>2, <2>3 DEF OnDeviceUpdateStore, Advance, Thread, TypeOK
      <3> QED BY <1>3, <1>4, <2>3, <3>1 DEF OnDeviceUpdateStore, mainVars
    <2> QED BY <1>7, <2>1, <2>2, <2>3 DEF CallbackStep
  <1>8. CASE PushStep
    <2>1. PICK k \in Kinds : Push(k)
      BY <1>8 DEF PushStep, OnBeatPush, OnDeviceFoundPush, OnDeviceLostPush,
         OnDeviceUpdatePush, OnMasterChangedPush, Kinds
    <2> QED BY <2>1, PushFeeds DEF Feed!Next, Feed!Kinds, Kinds
  <1>9. CASE ForgetDevices
    <2>1. Feed!Forget
      BY <1>5, <1>9 DEF ForgetDevices, Feed!Forget, cacheVars, mainVars
    <2> QED BY <2>1 DEF Feed!Next
  <1>10. CASE Update
    <2>1. Feed!Update
      BY <1>5, <1>10 DEF Update, Feed!Update, threadVars, cacheVars
    <2> QED BY <2>1 DEF Feed!Next
  <1>11. CASE UpdateStep
    <2> USE DEF threadVars, cacheVars, Kind, Feed!Kind, Order, Feed!Order
    <2>1. CASE LockQueue
      <3>1. Feed!Take
        BY <1>1, <1>5, <2>1 DEF LockQueue, LockedSection, Feed!Take
      <3> QED BY <3>1 DEF Feed!Next
    <2>2. CASE Dispatch
      <3>1. Feed!Deliver
        BY <1>1, <1>5, <2>2 DEF Dispatch, Popped, LockedSection, Feed!Deliver
      <3> QED BY <3>1 DEF Feed!Next
    <2>3. CASE RunListener
      BY <1>3, <1>4, <2>3 DEF RunListener
    <2>4. CASE UnlockQueue
      <3>1. Feed!Finish
        BY <1>1, <1>5, <2>4 DEF UnlockQueue, Unlocked, NextSection, LockedSection,
           Feed!Finish
      <3> QED BY <3>1 DEF Feed!Next
    <2> QED BY <1>11, <2>1, <2>2, <2>3, <2>4 DEF UpdateStep
  <1>12. CASE UNCHANGED vars
    BY <1>3, <1>4, <1>12 DEF vars, threadVars, cacheVars, mainVars
  <1> QED BY <1>6, <1>7, <1>8, <1>9, <1>10, <1>11, <1>12 DEF Next

\* Spec implements EventFeed: what holds of an application over every feed
\* holds of it over the addon.
THEOREM RefinesEventFeed == Spec => ImplementsEventFeed
  <1>1. Spec => []CallbacksOfKind
    <2>1. IInv => TypeOK
      BY DEF IInv
    <2> QED BY <2>1, IInvHolds, CallbacksInit, CallbacksNext, PTL DEF Spec
  <1>2. Spec => Feed!Spec
    BY <1>1, FeedInit, FeedNext, IInvHolds, PTL DEF Spec, Feed!Spec
  <1> QED BY <1>2 DEF ImplementsEventFeed

-----------------------------------------------------------------------------
(***************************************************************************)
(* One update() hands out what was queued before it reached the queue.     *)
(***************************************************************************)

\* The events of kind k that callbacks have queued so far.
Pushed(k) == delivered[k] + Len(queue[k])

\* Queueing and delivery only go forward.
LEMMA PushedGrows ==
  ASSUME IInv, [Next]_vars, NEW k \in Kinds
  PROVE  /\ Pushed(k) \in Nat /\ delivered[k] \in Nat
         /\ Pushed(k)' >= Pushed(k) /\ delivered'[k] >= delivered[k]
  <1>0. /\ TypeOK /\ queue[k] \in Seq(Event) /\ delivered[k] \in Nat /\ Len(queue[k]) \in Nat
        /\ queue \in [Kinds -> Seq(Event)] /\ delivered \in [Kinds -> Nat]
    BY DEF IInv, TypeOK
  <1>1. CASE UNCHANGED <<queue, delivered>>
    BY <1>0, <1>1 DEF Pushed
  <1>2. ASSUME NEW j \in Kinds, Push(j)
        PROVE  /\ delivered' = delivered
               /\ Len(queue'[k]) = Len(queue[k]) \/ Len(queue'[k]) = Len(queue[k]) + 1
    <2>1. delivered' = delivered /\ queue' = [queue EXCEPT ![j] = Append(@, call[Thread(j)].event)]
      BY <1>2 DEF Push, mainVars
    <2>2. Len(Append(queue[k], call[Thread(j)].event)) = Len(queue[k]) + 1
      BY <1>0
    <2> QED BY <1>0, <2>1, <2>2
  <1>3. CASE Dispatch
    <2>1. /\ section # 0 /\ Kind \in Kinds /\ queue[Kind] # <<>>
          /\ queue' = [queue EXCEPT ![Kind] = Tail(@)]
          /\ delivered' = [delivered EXCEPT ![Kind] = Head(queue[Kind]).id]
      BY <1>0, <1>3, OrderType DEF Dispatch, Popped, Kind, TypeOK
    <2>2. CASE k = Kind
      <3>1. /\ Head(queue[k]) = queue[k][1] /\ Len(Tail(queue[k])) = Len(queue[k]) - 1
            /\ 1 \in 1 .. Len(queue[k])
        BY <1>0, <2>1, <2>2
      <3>2. Head(queue[k]).id = delivered[k] + 1
        BY <3>1 DEF IInv, ExactlyOnceInOrder
      <3> QED BY <1>0, <2>1, <2>2, <3>1, <3>2 DEF Pushed
    <2>3. CASE k # Kind
      BY <1>0, <2>1, <2>3 DEF Pushed
    <2> QED BY <2>2, <2>3
  <1>4. CASE PushStep
    <2>1. \E j \in Kinds : Push(j)
      BY <1>4 DEF PushStep, OnBeatPush, OnDeviceFoundPush, OnDeviceLostPush, OnDeviceUpdatePush,
                  OnMasterChangedPush, Kinds
    <2>2. /\ delivered' = delivered
          /\ Len(queue'[k]) = Len(queue[k]) \/ Len(queue'[k]) = Len(queue[k]) + 1
      BY <1>2, <2>1
    <2> QED BY <1>0, <2>2 DEF Pushed
  <1>5. PushStep \/ Dispatch \/ UNCHANGED <<queue, delivered>>
    BY DEF Next, Arrival, OnBeat, OnDeviceFound, OnDeviceLost, OnDeviceUpdate, OnMasterChanged,
        ForgetDevices, CallbackStep, OnBeatStore, OnDeviceLostErase, OnDeviceUpdateStore,
        Update, UpdateStep, LockQueue, RunListener, UnlockQueue, cacheVars, mainVars, vars
  <1>6. Pushed(k) \in Nat
    BY <1>0 DEF Pushed
  <1> QED BY <1>0, <1>1, <1>3, <1>4, <1>5, <1>6

\* The first n events of section i have been queued, and the section is not left
\* without them.
Due(i, n) == /\ Pushed(Order[i]) >= n
             /\ section > i => delivered[Order[i]] >= n

Returns == section # 0 /\ section' = 0

LEMMA UnlockDelivers ==
  ASSUME IInv, UnlockQueue
  PROVE  /\ delivered'[Kind] = Pushed(Kind)
         /\ section' = NextSection /\ section \in 1 .. Len(Order)
  <1>1. /\ queue[Kind] = <<>> /\ delivered' = delivered /\ section' = NextSection
        /\ section # 0 /\ section \in 0 .. Len(Order) /\ delivered \in [Kinds -> Nat]
    BY DEF UnlockQueue, IInv, TypeOK
  <1>2. Len(Order) \in Nat /\ Kind \in Kinds
    BY <1>1, OrderType DEF Kind
  <1> QED BY <1>1, <1>2 DEF Pushed

LEMMA SectionSteps ==
  ASSUME IInv, [Next]_vars
  PROVE  \/ UnlockQueue
         \/ section' = section
         \/ section = 0 /\ section' = 1
  BY DEF Next, Arrival, OnBeat, OnDeviceFound, OnDeviceLost, OnDeviceUpdate, OnMasterChanged,
        ForgetDevices, CallbackStep, OnBeatStore, OnDeviceLostErase, OnDeviceUpdateStore,
        PushStep, OnBeatPush, OnDeviceFoundPush, OnDeviceLostPush, OnDeviceUpdatePush,
        OnMasterChangedPush, Push,
        Update, UpdateStep, LockQueue, Dispatch, RunListener, mainVars, vars

LEMMA DueNext ==
  ASSUME IInv, [Next]_vars, NEW i \in 1 .. Len(Order), NEW n \in Nat, Due(i, n)
  PROVE  Due(i, n)' /\ (Returns => delivered'[Order[i]] >= n)
  <1> DEFINE k == Order[i]
  <1>1. k \in Kinds /\ Len(Order) \in Nat
    BY OrderType
  <1> HIDE DEF k
  <1>2. /\ Pushed(k) \in Nat /\ delivered[k] \in Nat
        /\ Pushed(k)' >= Pushed(k) /\ delivered'[k] >= delivered[k]
        /\ Pushed(k)' \in Nat /\ delivered'[k] \in Nat
    <2>1. IInv'
      BY IInvNext
    <2>2. Pushed(k)' \in Nat /\ delivered'[k] \in Nat
      BY <1>1, <2>1 DEF IInv, TypeOK, Pushed
    <2> QED BY <1>1, <2>2, PushedGrows
  <1>3. Pushed(k) >= n /\ (section > i => delivered[k] >= n) /\ section \in 0 .. Len(Order)
    BY DEF Due, IInv, TypeOK, k
  <1>4. CASE UnlockQueue
    <2>1. /\ section = i => delivered'[k] = Pushed(k)
          /\ section' = NextSection /\ section \in 1 .. Len(Order)
      BY <1>4, UnlockDelivers DEF Kind, k
    <2>2. section' > i \/ Returns => section >= i
      BY <1>1, <2>1 DEF NextSection, Returns
    <2>3. section >= i => delivered'[k] >= n
      BY <1>1, <1>2, <1>3, <2>1
    <2> QED BY <1>2, <1>3, <2>2, <2>3 DEF Due, k
  <1>5. CASE section' = section \/ (section = 0 /\ section' = 1)
    BY <1>1, <1>2, <1>3, <1>5 DEF Due, Returns, k
  <1> QED BY <1>4, <1>5, SectionSteps

\* "Process events on main thread" (update(), ofxBeatLink.h): what was queued
\* before update() has left the section of its kind has been handed out when
\* that call returns, with all that was queued before, whatever the threads do
\* meanwhile.  An event never waits for a second update().
THEOREM OneUpdateDelivers ==
  ASSUME NEW i \in 1 .. Len(Order), NEW n \in Nat
  PROVE  Spec => []( section <= i /\ Pushed(Order[i]) >= n
                     => [][Returns => delivered'[Order[i]] >= n]_vars )
  <1> DEFINE P == section <= i /\ Pushed(Order[i]) >= n
             D == Due(i, n)
             A == Returns => delivered'[Order[i]] >= n
  <1>1. IInv /\ P => D
    <2>1. Len(Order) \in Nat /\ (IInv => section \in 0 .. Len(Order))
      BY OrderType DEF IInv, TypeOK
    <2> QED BY <2>1 DEF Due
  <1>2. IInv /\ D /\ [Next]_vars => D'
    BY DueNext
  <1>3. IInv /\ D /\ [Next]_vars => [A]_vars
    BY DueNext
  <1>4. Spec => [](P => [][A]_vars)
    <2> HIDE DEF P, D, A
    <2> QED BY <1>1, <1>2, <1>3, IInvHolds, PTL DEF Spec
  <1> QED BY <1>4

-----------------------------------------------------------------------------
(***************************************************************************)
(* The caches only go forward.                                             *)
(***************************************************************************)

\* What a cache holds was made before now, and before the event that a callback
\* is about to store.
CachedInPast(k, e) == /\ e.id <= made[k]
                      /\ At(k, "store") => e.id < made[k]

CachesInPast ==
    /\ CachedInPast("beat", lastBeat)
    /\ \A d \in Devices : /\ CachedInPast("beat", latestBeats[d])
                          /\ CachedInPast("update", latestStatuses[d])

LEMMA CachesInPastInit == Init => CachesInPast
  BY DEF Init, CachesInPast, CachedInPast, At, Idle, NoEvent, Thread, Kinds, Threads

LEMMA CachesNext ==
  ASSUME IInv, CachesInPast, [Next]_vars
  PROVE  CachesInPast' /\ [Forward]_vars
  <1>0. /\ TypeOK /\ made \in [Kinds -> Nat] /\ call \in [Threads -> Call]
        /\ lastBeat \in Event /\ latestBeats \in [Devices -> Event]
        /\ latestStatuses \in [Devices -> Event]
        /\ "beat" \in Kinds /\ "update" \in Kinds
        /\ Thread("beat") = "BeatFinder" /\ Thread("update") = "VirtualCdj"
        /\ Thread("beat") \in Threads /\ Thread("update") \in Threads
    BY DEF IInv, TypeOK, Kinds, Thread, Threads
  <1>1. lastBeat.id \in Nat /\ \A d \in Devices : latestBeats[d].id \in Nat /\ latestStatuses[d].id \in Nat
    BY <1>0, EventType
  <1>2. ASSUME NEW k \in Kinds, NEW d \in Devices, NEW s \in {"store", "push"}, Enter(k, d, s),
               UNCHANGED <<lastBeat, latestBeats, latestStatuses>>
        PROVE  CachesInPast' /\ Forward
    <2>1. Forward
      BY <1>2 DEF Forward
    <2>2. ASSUME NEW j \in {"beat", "update"}, NEW e \in Event, CachedInPast(j, e)
          PROVE  e.id <= made'[j] /\ (At(j, "store")' => e.id < made'[j])
      <3>1. CASE j = k
        <4>1. made'[j] = made[j] + 1
          BY <1>0, <1>2, <3>1 DEF Enter
        <4> QED BY <1>0, <2>2, <4>1, EventType DEF CachedInPast
      <3>2. CASE j # k
        <4>1. made'[j] = made[j]
          BY <1>0, <1>2, <3>2 DEF Enter
        <4>2. At(j, "store")' => At(j, "store")
          BY <1>0, <1>2, <3>2 DEF Enter, At
        <4> QED BY <2>2, <4>1, <4>2 DEF CachedInPast
      <3> QED BY <3>1, <3>2
    <2> QED BY <1>0, <1>2, <2>1, <2>2 DEF CachesInPast, CachedInPast
  <1>3. ASSUME UNCHANGED <<made, lastBeat, latestBeats, latestStatuses>>,
               \A j \in {"beat", "update"} : At(j, "store")' => At(j, "store")
        PROVE  CachesInPast' /\ Forward
    BY <1>3 DEF CachesInPast, CachedInPast, Forward
  <1>4. CASE OnBeatStore
    <2> DEFINE e == call["BeatFinder"].event
    <2>1. /\ At("beat", "store") /\ e \in Event /\ e.id = made["beat"] /\ e.device \in Devices
          /\ ~ At("beat", "store")'
      BY <1>0, <1>4 DEF OnBeatStore, At, Advance, IInv, InFlightIsNewest, TypeOK, Call
    <2>2. /\ latestBeats' = [latestBeats EXCEPT ![e.device] = e] /\ lastBeat' = e
          /\ UNCHANGED <<made, latestStatuses>>
          /\ (At("update", "store")' => At("update", "store"))
      BY <1>0, <1>4 DEF OnBeatStore, At, Advance
    <2> HIDE DEF e
    <2>3. Forward
      BY <1>0, <2>1, <2>2 DEF Forward, CachesInPast, CachedInPast
    <2>4. CachesInPast'
      BY <1>0, <1>1, <2>1, <2>2, EventType DEF CachesInPast, CachedInPast
    <2> QED BY <2>3, <2>4
  <1>5. CASE OnDeviceUpdateStore
    <2> DEFINE e == call["VirtualCdj"].event
    <2>1. /\ At("update", "store") /\ e \in Event /\ e.id = made["update"] /\ e.device \in Devices
          /\ ~ At("update", "store")'
      BY <1>0, <1>5 DEF OnDeviceUpdateStore, At, Advance, IInv, InFlightIsNewest, TypeOK, Call
    <2>2. /\ latestStatuses' = [latestStatuses EXCEPT ![e.device] = e]
          /\ UNCHANGED <<made, latestBeats, lastBeat>>
          /\ (At("beat", "store")' => At("beat", "store"))
      BY <1>0, <1>5 DEF OnDeviceUpdateStore, At, Advance
    <2> HIDE DEF e
    <2>3. Forward
      BY <1>0, <2>1, <2>2 DEF Forward, CachesInPast, CachedInPast
    <2>4. CachesInPast'
      BY <1>0, <1>1, <2>1, <2>2, EventType DEF CachesInPast, CachedInPast
    <2> QED BY <2>3, <2>4
  <1>6. CASE OnDeviceLostErase
    <2> DEFINE d == call["DeviceFinder"].event.device
    <2>1. latestBeats' = [latestBeats EXCEPT ![d] = NoEvent] /\ UNCHANGED <<made, lastBeat, latestStatuses>>
      BY <1>6 DEF OnDeviceLostErase, Erased
    <2>2. \A j \in {"beat", "update"} : At(j, "store")' => At(j, "store")
      BY <1>0, <1>6 DEF OnDeviceLostErase, Advance, At, Thread
    <2>3. \A c \in Devices : latestBeats'[c] = latestBeats[c] \/ (c = d /\ latestBeats'[c] = NoEvent)
      BY <1>0, <2>1
    <2>4. Forward
      BY <1>6, <2>1, <2>3 DEF Forward
    <2>5. CachesInPast'
      <3>1. CachedInPast("beat", NoEvent)
        BY <1>0, <1>1 DEF CachesInPast, CachedInPast, NoEvent
      <3> QED BY <2>1, <2>2, <2>3, <3>1 DEF CachesInPast, CachedInPast
    <2> QED BY <2>4, <2>5
  <1>7. ASSUME NEW k \in Kinds, Push(k) PROVE CachesInPast' /\ Forward
    <2>1. \A j \in {"beat", "update"} : At(j, "store")' => At(j, "store")
      BY <1>0, <1>7 DEF Push, At
    <2> QED BY <1>3, <1>7, <2>1 DEF Push, cacheVars
  <1>8. CASE Arrival
    BY <1>2, <1>8
    DEF Arrival, OnBeat, OnDeviceFound, OnDeviceLost, OnDeviceUpdate, OnMasterChanged, cacheVars, Kinds
  <1>9. CASE PushStep
    BY <1>7, <1>9 DEF PushStep, OnBeatPush, OnDeviceFoundPush, OnDeviceLostPush,
                      OnDeviceUpdatePush, OnMasterChangedPush, Kinds
  <1>10. CASE ForgetDevices \/ Update \/ UpdateStep \/ UNCHANGED vars
    <2>1. UNCHANGED <<call, made, lastBeat, latestBeats, latestStatuses>>
      BY <1>10 DEF ForgetDevices, Update, UpdateStep, LockQueue, Dispatch, RunListener,
                   UnlockQueue, threadVars, cacheVars, vars
    <2> QED BY <1>3, <2>1 DEF At
  <1> QED BY <1>4, <1>5, <1>6, <1>8, <1>9, <1>10 DEF Next, CallbackStep

\* getLatestBeat() and getStatusFor() never go back: a poll returns what an
\* earlier poll did or something newer, whatever callbacks run between the two;
\* onDeviceLost takes back a beat of its device, and nothing takes back a status.
THEOREM CachesNeverGoBack == Spec => CachesOnlyAdvance
  <1>1. IInv /\ CachesInPast /\ [Next]_vars => CachesInPast' /\ [Forward]_vars
    BY CachesNext
  <1> QED BY <1>1, CachesInPastInit, IInvHolds, PTL DEF Spec, CachesOnlyAdvance
=============================================================================
