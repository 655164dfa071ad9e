-------------------------- MODULE DeviceApps_proofs --------------------------
(***************************************************************************)
(* Theorems about the applications that show devices, for any devices, any *)
(* applications among the thirteen and any bounds.                         *)
(***************************************************************************)
EXTENDS DeviceApps, FiniteSetTheorems, SequenceTheorems, TLAPS

USE FeedAssumption, MonitorAssumption, SlotsAssumption

allVars == <<deviceVars, appVars>>

LEMMA OrderType == /\ Len(Order) \in {3, 5}
                   /\ \A i \in 1 .. Len(Order) : Order[i] \in Kinds
  BY DEF Order, Kinds

LEMMA EventType == /\ NoEvent \notin FeedEvent /\ NoEvent.device = 0
                   /\ \A d \in Devices, n \in Nat : [device |-> d, id |-> n] \in FeedEvent
                   /\ \A e \in FeedEvent : e.id \in Nat /\ e.device \in Devices
  BY DEF NoEvent, FeedEvent

-----------------------------------------------------------------------------
(***************************************************************************)
(* The feed.                                                               *)
(***************************************************************************)

\* What every step of the applications is to the feed.
RestStep ==
    \/ Around
    \/ /\ UNCHANGED <<feedVars, app, lossSeen>>
       /\ \/ UNCHANGED overtaken
          \/ app = "basic" /\ overtaken' = {d \in overtaken : Announced(d)}

FeedStep == RestStep \/ Listener

LEMMA StepIsFeedStep == [AppsNext]_allVars => FeedStep
  <1> SUFFICES ASSUME [AppsNext]_allVars PROVE FeedStep
    OBVIOUS
  <1> USE DEF FeedStep, RestStep
  <1>1. CASE Around
    BY <1>1
  <1>2. CASE MonitorStep
    BY <1>2 DEF MonitorStep, EndFrame, KeyVirtualCdj, Key
  <1>3. CASE WaveformStep
    BY <1>3 DEF WaveformStep, EndFrame
  <1>4. CASE SlotStep
    BY <1>4 DEF SlotStep, AskMaster, DropDatabase, EndFrame, KeyVirtualCdj, Key
  <1>5. CASE ListStep
    BY <1>5 DEF ListStep, Refresh, Clear, EndFrame, Key
  <1>6. CASE CounterStep
    BY <1>6 DEF CounterStep, AskBeat, OscRate, EndFrame
  <1>7. CASE BridgeStep
    BY <1>7 DEF BridgeStep, UpdateLink, Toggle, EndFrame, Key
  <1>8. CASE UNCHANGED allVars
    BY <1>8 DEF allVars, deviceVars
  <1> QED BY <1>1, <1>2, <1>3, <1>4, <1>5, <1>6, <1>7, <1>8 DEF AppsNext

\* The steps of the feed, one by one.
LEMMA AroundSteps ==
  ASSUME Around
  PROVE  \/ \E d \in Devices : OnBeat(d) \/ OnDeviceFound(d) \/ OnDeviceLost(d)
         \/ \E d \in Devices : \E k \in {"update", "master"} : Notify(k, d)
         \/ \E k \in Kinds : Publish(k)
         \/ Update \/ Take \/ Finish
  BY DEF Around, Network, BeginFrame

\* A callback announces an event of kind k about d: the next of its kind.
LEMMA EnterEffect ==
  ASSUME FeedOK, NEW k \in {"beat", "found", "lost"}, NEW d \in Devices,
         ~ Coming(k), Enter(k, d)
  PROVE  /\ coming[k] = NoEvent
         /\ coming'[k] \in FeedEvent /\ coming'[k].device = d
         /\ coming'[k].id = delivered[k] + Len(pending[k]) + 1
         /\ \A k2 \in {"beat", "found", "lost"} \ {k} : coming'[k2] = coming[k2]
         /\ coming' \in [{"beat", "found", "lost"} -> FeedEvent \cup {NoEvent}]
         /\ UNCHANGED <<pending, delivered, section, serving>>
  <1>1. k \in Kinds /\ k \in DOMAIN coming
    BY DEF FeedOK, Kinds
  <1>2. delivered[k] \in Nat /\ Len(pending[k]) \in Nat
    BY <1>1 DEF FeedOK
  <1>3. New(k, d) = [device |-> d, id |-> delivered[k] + Len(pending[k]) + 1]
    BY <1>2 DEF New, Made
  <1>4. New(k, d) \in FeedEvent
    BY <1>2, <1>3, EventType
  <1> QED BY <1>1, <1>3, <1>4 DEF Enter, FeedOK, Coming

\* An event is pushed: by a callback that had begun, or by one of VirtualCdj.
LEMMA PushEffect ==
  ASSUME FeedOK, NEW k \in Kinds,
         Publish(k) \/ \E d \in Devices : Notify(k, d)
  PROVE  \E e \in FeedEvent :
            /\ pending'[k] = Append(pending[k], e)
            /\ e.id = delivered[k] + Len(pending[k]) + 1
            /\ \A k2 \in Kinds \ {k} : pending'[k2] = pending[k2]
            /\ pending' \in [Kinds -> Seq(FeedEvent)]
            /\ UNCHANGED <<devices, delivered, section, serving>>
            /\ \/ k \in {"update", "master"} /\ UNCHANGED coming
               \/ /\ k \in {"beat", "found", "lost"} /\ Coming(k) /\ coming[k] = e
                  /\ coming' = [coming EXCEPT ![k] = NoEvent]
  <1>1. delivered[k] \in Nat /\ Len(pending[k]) \in Nat
    BY DEF FeedOK
  <1>2. CASE Publish(k)
    <2>1. /\ k \in {"beat", "found", "lost"} /\ Coming(k)
          /\ coming[k] \in FeedEvent
          /\ coming[k].id = delivered[k] + Len(pending[k]) + 1
      BY <1>2 DEF Publish, Coming, FeedOK
    <2>2. /\ pending'[k] = Append(pending[k], coming[k])
          /\ \A k2 \in Kinds \ {k} : pending'[k2] = pending[k2]
          /\ pending' \in [Kinds -> Seq(FeedEvent)]
      BY <1>2, <2>1, SMTT(30) DEF Publish, FeedOK
    <2> QED BY <1>2, <2>1, <2>2 DEF Publish
  <1>3. CASE \E d \in Devices : Notify(k, d)
    <2>1. PICK d \in Devices : Notify(k, d)
      BY <1>3
    <2> DEFINE e == New(k, d)
    <2>2. ~ Coming(k) /\ k \in {"update", "master"}
      BY <2>1 DEF Notify, Coming, FeedOK
    <2>3. e = [device |-> d, id |-> delivered[k] + Len(pending[k]) + 1]
      BY <1>1, <2>2 DEF New, Made
    <2>4. e \in FeedEvent /\ e.id = delivered[k] + Len(pending[k]) + 1
      BY <1>1, <2>3, EventType
    <2>5. pending' = [pending EXCEPT ![k] = Append(@, e)]
      BY <2>1 DEF Notify
    <2> HIDE DEF e
    <2>6. /\ pending'[k] = Append(pending[k], e)
          /\ \A k2 \in Kinds \ {k} : pending'[k2] = pending[k2]
          /\ pending' \in [Kinds -> Seq(FeedEvent)]
      BY <2>4, <2>5 DEF FeedOK
    <2> QED BY <2>1, <2>2, <2>4, <2>6 DEF Notify
  <1> QED BY <1>2, <1>3

\* An event is delivered: the oldest of its kind.
LEMMA DeliverEffect ==
  ASSUME FeedOK, Deliver
  PROVE  /\ Kind \in Kinds /\ Handed \in FeedEvent
         /\ Handed.id = delivered[Kind] + 1
         /\ Len(pending[Kind]) > 0 /\ Handed = pending[Kind][1]
         /\ delivered' \in [Kinds -> Nat]
         /\ \A k \in Kinds : delivered'[k] = IF k = Kind THEN delivered[k] + 1
                                                       ELSE delivered[k]
         /\ pending' \in [Kinds -> Seq(FeedEvent)]
         /\ \A k \in Kinds \ {Kind} : pending'[k] = pending[k]
         /\ Len(pending'[Kind]) = Len(pending[Kind]) - 1
         /\ \A i \in 1 .. Len(pending'[Kind]) : pending'[Kind][i] = pending[Kind][i + 1]
         /\ UNCHANGED <<devices, coming, section, serving>>
  <1>1. section # 0 /\ serving = {Kind} /\ section \in 1 .. Len(Order)
    BY OrderType DEF Deliver, FeedOK
  <1>2. Kind \in Kinds
    BY <1>1, OrderType DEF Kind
  <1> DEFINE q == pending[Kind]
  <1>3. q \in Seq(FeedEvent) /\ q # <<>> /\ delivered[Kind] \in Nat
    BY <1>2 DEF FeedOK, Deliver
  <1>4. Len(q) > 0 /\ Head(q) = q[1] /\ q[1] \in FeedEvent /\ 1 \in 1 .. Len(q)
    BY <1>3
  <1>5. q[1].id = delivered[Kind] + 1
    BY <1>2, <1>4 DEF FeedOK
  <1>6. /\ Tail(q) \in Seq(FeedEvent) /\ Len(Tail(q)) = Len(q) - 1
        /\ \A i \in 1 .. Len(Tail(q)) : Tail(q)[i] = q[i + 1]
    BY <1>3
  <1>7. /\ pending'[Kind] = Tail(q)
        /\ \A k \in Kinds \ {Kind} : pending'[k] = pending[k]
        /\ pending' \in [Kinds -> Seq(FeedEvent)]
    BY <1>2, <1>6 DEF Deliver, FeedOK
  <1>8. /\ delivered' \in [Kinds -> Nat]
        /\ \A k \in Kinds : delivered'[k] = IF k = Kind THEN delivered[k] + 1
                                                      ELSE delivered[k]
    BY <1>2, <1>3, <1>4, <1>5 DEF Deliver, FeedOK
  <1> QED BY <1>2, <1>4, <1>5, <1>6, <1>7, <1>8 DEF Handed, Deliver

LEMMA FeedInit == AppsInit => FeedOK
  <1> SUFFICES ASSUME AppsInit PROVE FeedOK OBVIOUS
  <1>1. Init
    BY DEF AppsInit, DeviceAppInit
  <1>2. IsFiniteSet({})
    BY FS_EmptySet
  <1>3. Len(Order) \in Nat
    BY OrderType
  <1> QED BY <1>1, <1>2, <1>3 DEF Init, FeedOK, Coming, Kinds

LEMMA FeedNext == FeedOK /\ FeedStep => FeedOK'
  <1> SUFFICES ASSUME FeedOK, FeedStep PROVE FeedOK' OBVIOUS
  <1>1. Len(Order) \in {3, 5} /\ section \in 0 .. Len(Order)
    BY OrderType DEF FeedOK
  <1>2. \A k \in Kinds : delivered[k] \in Nat /\ Len(pending[k]) \in Nat
    BY DEF FeedOK
  <1>9. \A k \in Kinds : \A i \in 1 .. Len(pending[k]) :
           pending[k][i].id = delivered[k] + i
    BY DEF FeedOK
  <1>10. \A k \in {"beat", "found", "lost"} :
            k \in Kinds /\ (Coming(k) => coming[k].id = delivered[k] + Len(pending[k]) + 1)
    BY DEF FeedOK, Kinds
  <1>3. ASSUME NEW k \in {"beat", "found", "lost"}, NEW d \in Devices,
               ~ Coming(k), Enter(k, d),
               k # "beat" => ~ Coming("found") /\ ~ Coming("lost"),
               devices' \subseteq Devices, IsFiniteSet(devices')
        PROVE  FeedOK'
    <2>1. /\ coming'[k].id = delivered[k] + Len(pending[k]) + 1
          /\ \A k2 \in {"beat", "found", "lost"} \ {k} : coming'[k2] = coming[k2]
          /\ coming' \in [{"beat", "found", "lost"} -> FeedEvent \cup {NoEvent}]
          /\ UNCHANGED <<pending, delivered, section, serving>>
      BY <1>3, EnterEffect
    <2>2. \A k2 \in {"beat", "found", "lost"} \ {k} : Coming(k2)' <=> Coming(k2)
      BY <2>1 DEF Coming, FeedOK
    <2>3. ~ (Coming("found") /\ Coming("lost"))'
      BY <1>3, <2>2 DEF FeedOK
    <2>4. \A k2 \in {"beat", "found", "lost"} :
             Coming(k2)' => coming'[k2].id = delivered'[k2] + Len(pending'[k2]) + 1
      BY <1>10, <2>1, <2>2
    <2> QED BY <1>3, <2>1, <2>3, <2>4 DEF FeedOK, Kind
  <1>4. CASE \E d \in Devices : OnBeat(d) \/ OnDeviceFound(d) \/ OnDeviceLost(d)
    <2>1. PICK d \in Devices : OnBeat(d) \/ OnDeviceFound(d) \/ OnDeviceLost(d)
      BY <1>4
    <2>2. CASE OnBeat(d)
      BY <1>3, <2>2 DEF OnBeat, FeedOK
    <2>3. CASE OnDeviceFound(d)
      <3>1. IsFiniteSet(devices')
        BY <2>3, FS_AddElement DEF OnDeviceFound, FeedOK
      <3> QED BY <1>3, <2>3, <3>1 DEF OnDeviceFound, FeedOK
    <2>4. CASE OnDeviceLost(d)
      <3>1. IsFiniteSet(devices')
        BY <2>4, FS_RemoveElement DEF OnDeviceLost, FeedOK
      <3> QED BY <1>3, <2>4, <3>1 DEF OnDeviceLost, FeedOK
    <2> QED BY <2>1, <2>2, <2>3, <2>4
  <1>5. CASE \E k \in Kinds : Publish(k) \/ \E d \in Devices : Notify(k, d)
    <2>1. PICK k \in Kinds : Publish(k) \/ \E d \in Devices : Notify(k, d)
      BY <1>5
    <2>2. PICK e \in FeedEvent :
            /\ pending'[k] = Append(pending[k], e)
            /\ e.id = delivered[k] + Len(pending[k]) + 1
            /\ \A k2 \in Kinds \ {k} : pending'[k2] = pending[k2]
            /\ pending' \in [Kinds -> Seq(FeedEvent)]
            /\ UNCHANGED <<devices, delivered, section, serving>>
            /\ \/ k \in {"update", "master"} /\ UNCHANGED coming
               \/ /\ k \in {"beat", "found", "lost"} /\ Coming(k) /\ coming[k] = e
                  /\ coming' = [coming EXCEPT ![k] = NoEvent]
      BY <2>1, PushEffect
    <2>3. pending[k] \in Seq(FeedEvent)
      BY DEF FeedOK
    <2>4. /\ Len(pending'[k]) = Len(pending[k]) + 1
          /\ pending'[k][Len(pending[k]) + 1] = e
          /\ \A i \in 1 .. Len(pending[k]) : pending'[k][i] = pending[k][i]
      BY <2>2, <2>3
    <2>5. \A k2 \in Kinds : \A i \in 1 .. Len(pending'[k2]) :
             pending'[k2][i].id = delivered'[k2] + i
      <3> SUFFICES ASSUME NEW k2 \in Kinds, NEW i \in 1 .. Len(pending'[k2])
                   PROVE  pending'[k2][i].id = delivered[k2] + i
        BY <2>2
      <3>1. CASE k2 # k
        <4>1. pending'[k2] = pending[k2]
          BY <2>2, <3>1
        <4>2. i \in 1 .. Len(pending[k2])
          BY <4>1
        <4>3. pending[k2][i].id = delivered[k2] + i
          BY <1>9, <4>2
        <4> QED BY <4>1, <4>3, Zenon
      <3>2. CASE k2 = k /\ i \in 1 .. Len(pending[k])
        BY <1>9, <2>4, <3>2
      <3>3. CASE k2 = k /\ i = Len(pending[k]) + 1
        <4>1. e.id = delivered[k] + Len(pending[k]) + 1
          BY <2>2
        <4>2. delivered[k] + Len(pending[k]) + 1 = delivered[k] + (Len(pending[k]) + 1)
          BY <1>2
        <4>3. pending'[k2][i] = e
          BY <2>4, <3>3, Zenon
        <4> QED BY <3>3, <4>1, <4>2, <4>3, Zenon
      <3> QED BY <1>2, <2>4, <3>1, <3>2, <3>3
    <2>6. /\ coming' \in [{"beat", "found", "lost"} -> FeedEvent \cup {NoEvent}]
          /\ \A k2 \in {"beat", "found", "lost"} :
                 Coming(k2)' <=> Coming(k2) /\ k2 # k
          /\ \A k2 \in {"beat", "found", "lost"} : k2 # k => coming'[k2] = coming[k2]
      BY <2>2 DEF FeedOK, Coming
    <2>7. \A k2 \in {"beat", "found", "lost"} :
             Coming(k2)' => coming'[k2].id = delivered'[k2] + Len(pending'[k2]) + 1
      <3> SUFFICES ASSUME NEW k2 \in {"beat", "found", "lost"}, Coming(k2)'
                   PROVE  coming'[k2].id = delivered[k2] + Len(pending'[k2]) + 1
        BY <1>10, <2>2
      <3> QED BY <1>10, <2>2, <2>6
    <2> QED BY <2>2, <2>5, <2>6, <2>7 DEF FeedOK, Kind
  <1>6. CASE Update \/ Take \/ Finish
    <2>1. UNCHANGED <<devices, coming, pending, delivered>>
      BY <1>6 DEF Update, Take, Finish
    <2>2. section' \in 0 .. Len(Order) /\ (serving' = {} \/ (section' # 0 /\ serving' = {Kind}'))
      <3>1. CASE Update
        <4>1. section = 0 /\ serving' = serving /\ section' = 1
          BY <3>1 DEF Update
        <4>2. serving = {}
          BY <4>1 DEF FeedOK
        <4> QED BY <1>1, <4>1, <4>2
      <3>2. CASE Take
        BY <1>1, <3>2 DEF Take, Kind
      <3>3. CASE Finish
        BY <1>1, <3>3 DEF Finish
      <3> QED BY <1>6, <3>1, <3>2, <3>3
    <2> QED BY <2>1, <2>2 DEF FeedOK, Coming
  <1>7. CASE Deliver
    <2>1. \A k \in Kinds : \A i \in 1 .. Len(pending'[k]) :
             pending'[k][i].id = delivered'[k] + i
      <3> SUFFICES ASSUME NEW k \in Kinds, NEW i \in 1 .. Len(pending'[k])
                   PROVE  pending'[k][i].id = delivered'[k] + i
        OBVIOUS
      <3>1. CASE k = Kind
        <4>1. /\ pending'[k][i] = pending[k][i + 1] /\ i + 1 \in 1 .. Len(pending[k])
              /\ delivered'[k] = delivered[k] + 1
          <5> DEFINE n == Len(pending[k])
          <5>1. n \in Nat /\ Len(pending'[k]) = n - 1
            BY <1>2, <1>7, <3>1, DeliverEffect
          <5>2. i \in 1 .. n - 1
            BY <5>1
          <5>3. i + 1 \in 1 .. n
            BY <5>1, <5>2
          <5> QED BY <1>7, <3>1, <5>3, DeliverEffect
        <4>2. pending[k][i + 1].id = delivered[k] + (i + 1)
          BY <1>9, <4>1
        <4>3. delivered[k] + (i + 1) = (delivered[k] + 1) + i
          BY <1>2
        <4> QED BY <4>1, <4>2, <4>3, Zenon
      <3>2. CASE k # Kind
        <4>1. pending'[k] = pending[k] /\ delivered'[k] = delivered[k]
          BY <1>7, <3>2, DeliverEffect
        <4>2. i \in 1 .. Len(pending[k])
          BY <4>1
        <4>3. pending[k][i].id = delivered[k] + i
          BY <1>9, <4>2
        <4> QED BY <4>1, <4>3, Zenon
      <3> QED BY <3>1, <3>2
    <2>2. \A k \in Kinds : delivered'[k] + Len(pending'[k]) = delivered[k] + Len(pending[k])
      <3> SUFFICES ASSUME NEW k \in Kinds
                   PROVE  delivered'[k] + Len(pending'[k]) = delivered[k] + Len(pending[k])
        OBVIOUS
      <3>1. CASE k = Kind
        <4>1. /\ delivered'[k] = delivered[k] + 1
              /\ Len(pending'[k]) = Len(pending[k]) - 1
          BY <1>7, <3>1, DeliverEffect
        <4>2. (delivered[k] + 1) + (Len(pending[k]) - 1) = delivered[k] + Len(pending[k])
          BY <1>2
        <4> QED BY <4>1, <4>2, Zenon
      <3>2. CASE k # Kind
        <4>1. pending'[k] = pending[k] /\ delivered'[k] = delivered[k]
          BY <1>7, <3>2, DeliverEffect
        <4> QED BY <4>1, Zenon
      <3> QED BY <3>1, <3>2
    <2>3. \A k \in {"beat", "found", "lost"} : (Coming(k)' <=> Coming(k)) /\ k \in Kinds
      BY <1>7, DeliverEffect DEF Coming, Kinds
    <2>4. \A k \in {"beat", "found", "lost"} :
             Coming(k)' => coming'[k].id = delivered'[k] + Len(pending'[k]) + 1
      <3> SUFFICES ASSUME NEW k \in {"beat", "found", "lost"}, Coming(k)'
                   PROVE  coming'[k].id = delivered'[k] + Len(pending'[k]) + 1
        OBVIOUS
      <3>1. coming'[k].id = delivered[k] + Len(pending[k]) + 1
        BY <1>7, <1>10, <2>3, DeliverEffect
      <3> QED BY <1>10, <2>2, <3>1
    <2> QED BY <1>7, <2>1, <2>3, <2>4, DeliverEffect DEF FeedOK, Kind
  <1>8. CASE UNCHANGED feedVars
    BY <1>8 DEF FeedOK, feedVars, Coming, Kind
  <1> QED BY <1>4, <1>5, <1>6, <1>7, <1>8, AroundSteps DEF FeedStep, RestStep, Kinds, Listener

-----------------------------------------------------------------------------
(***************************************************************************)
(* Announcements: what a step does to those under way.                     *)
(***************************************************************************)

LEMMA AnnouncedIsIn ==
  ASSUME NEW d \in Devices
  PROVE  Announced(d) <=> In("found", d) \/ In("lost", d)
  BY DEF Announced, In

LEMMA InEnter ==
  ASSUME FeedOK, NEW k \in {"beat", "found", "lost"}, NEW d \in Devices,
         ~ Coming(k), Enter(k, d), NEW k2 \in {"found", "lost"}, NEW e \in Devices
  PROVE  /\ In(k2, e)' <=> In(k2, e) \/ (k2 = k /\ e = d)
         /\ Single(k2, e) /\ (k2 = k /\ e = d => ~ In(k, d)) => Single(k2, e)'
  <1>1. /\ coming[k].device = 0 /\ e # 0
        /\ coming'[k].device = d
        /\ k2 # k => coming'[k2] = coming[k2]
        /\ pending' = pending
    BY EnterEffect, EventType
  <1>2. CASE k2 = k
    BY <1>1, <1>2 DEF In, Single
  <1>3. CASE k2 # k
    BY <1>1, <1>3 DEF In, Single
  <1> QED BY <1>2, <1>3

LEMMA InPush ==
  ASSUME FeedOK, NEW k \in Kinds, Publish(k) \/ \E d \in Devices : Notify(k, d),
         NEW k2 \in {"found", "lost"}, NEW e \in Devices
  PROVE  /\ In(k2, e)' <=> In(k2, e)
         /\ Single(k2, e) => Single(k2, e)'
  <1>1. PICK f \in FeedEvent :
            /\ pending'[k] = Append(pending[k], f)
            /\ \A k3 \in Kinds \ {k} : pending'[k3] = pending[k3]
            /\ \/ k \in {"update", "master"} /\ UNCHANGED coming
               \/ /\ k \in {"beat", "found", "lost"} /\ coming[k] = f
                  /\ coming' = [coming EXCEPT ![k] = NoEvent]
    BY PushEffect
  <1>2. k2 \in Kinds /\ e # 0 /\ k2 \in DOMAIN coming
    BY DEF Kinds, FeedOK
  <1>3. CASE k2 # k
    <2>1. pending'[k2] = pending[k2] /\ coming'[k2] = coming[k2]
      BY <1>1, <1>2, <1>3
    <2> QED BY <2>1 DEF In, Single
  <1>4. CASE k2 = k
    <2> DEFINE n == Len(pending[k2])
    <2>1. coming[k2] = f /\ coming'[k2].device # e
      BY <1>1, <1>2, <1>4, EventType
    <2>2. pending[k2] \in Seq(FeedEvent)
      BY <1>2 DEF FeedOK
    <2>3. /\ n \in Nat /\ Len(pending'[k2]) = n + 1
          /\ pending'[k2][n + 1] = f
          /\ \A i \in 1 .. n : pending'[k2][i] = pending[k2][i]
      BY <1>1, <1>4, <2>2
    <2> HIDE DEF n
    <2>4. \A i \in 1 .. n + 1 : i \in 1 .. n \/ i = n + 1
      BY <2>3
    <2>5. \A i \in 1 .. n : i \in 1 .. n + 1
      BY <2>3
    <2>6. n + 1 \in 1 .. n + 1
      BY <2>3
    <2>7. In(k2, e)' <=> In(k2, e)
      BY <2>1, <2>3, <2>4, <2>5, <2>6 DEF In, n
    <2>8. ASSUME Single(k2, e) PROVE Single(k2, e)'
      BY <2>1, <2>3, <2>4, <2>5, <2>8 DEF Single, n
    <2> QED BY <2>7, <2>8
  <1> QED BY <1>3, <1>4

LEMMA InDeliver ==
  ASSUME FeedOK, Deliver, NEW k2 \in {"found", "lost"}, NEW e \in Devices
  PROVE  /\ k2 # Kind \/ e # Handed.device => (In(k2, e)' <=> In(k2, e))
         /\ k2 = Kind /\ e = Handed.device =>
               /\ In(k2, e)
               /\ Single(k2, e) => ~ In(k2, e)'
         /\ Single(k2, e) => Single(k2, e)'
  <1>1. k2 \in Kinds /\ coming' = coming
    BY DeliverEffect DEF Kinds
  <1>2. CASE k2 # Kind
    <2>1. pending'[k2] = pending[k2]
      BY <1>1, <1>2, DeliverEffect
    <2> QED BY <1>1, <1>2, <2>1 DEF In, Single
  <1>3. CASE k2 = Kind
    <2> DEFINE n == Len(pending[k2])
    <2>1. /\ n \in Nat /\ n > 0 /\ Len(pending'[k2]) = n - 1
          /\ Handed = pending[k2][1]
          /\ \A i \in 1 .. n - 1 : pending'[k2][i] = pending[k2][i + 1]
      <3>1. pending[k2] \in Seq(FeedEvent)
        BY <1>1 DEF FeedOK
      <3> QED BY <1>3, <3>1, DeliverEffect
    <2> HIDE DEF n
    <2>2. \A i \in 1 .. n - 1 : i + 1 \in 1 .. n /\ i + 1 # 1
      BY <2>1
    <2>3. \A i \in 1 .. n : i = 1 \/ (i - 1 \in 1 .. n - 1 /\ (i - 1) + 1 = i)
      BY <2>1
    <2>4. 1 \in 1 .. n
      BY <2>1
    <2>5. \A i \in 1 .. n : i # 1 =>
             i - 1 \in 1 .. n - 1 /\ pending'[k2][i - 1] = pending[k2][i]
      BY <2>1, <2>3
    <2>6. ASSUME e # Handed.device PROVE In(k2, e)' <=> In(k2, e)
      <3>1. ASSUME In(k2, e) PROVE In(k2, e)'
        <4>1. CASE coming[k2].device = e
          BY <1>1, <4>1 DEF In
        <4>2. CASE \E i \in 1 .. n : pending[k2][i].device = e
          <5>1. PICK i \in 1 .. n : pending[k2][i].device = e
            BY <4>2
          <5>2. i # 1
            BY <2>1, <2>6, <5>1
          <5> QED BY <2>1, <2>5, <5>1, <5>2 DEF In
        <4> QED BY <3>1, <4>1, <4>2 DEF In, n
      <3>2. ASSUME In(k2, e)' PROVE In(k2, e)
        BY <1>1, <2>1, <2>2, <3>2 DEF In, n
      <3> QED BY <3>1, <3>2
    <2>7. ASSUME e = Handed.device
          PROVE  In(k2, e) /\ (Single(k2, e) => ~ In(k2, e)')
      <3>1. pending[k2][1].device = e
        BY <2>1, <2>7
      <3>2. ASSUME Single(k2, e), In(k2, e)' PROVE FALSE
        <4>1. coming'[k2].device # e
          BY <1>1, <2>4, <3>1, <3>2 DEF Single, n
        <4>2. PICK i \in 1 .. n - 1 : pending'[k2][i].device = e
          BY <2>1, <3>2, <4>1 DEF In
        <4>3. pending[k2][i + 1].device = e /\ i + 1 \in 1 .. n /\ i + 1 # 1
          BY <2>1, <2>2, <4>2
        <4> QED BY <2>4, <3>1, <3>2, <4>3 DEF Single, n
      <3> QED BY <2>4, <3>1, <3>2 DEF In, n
    <2>8. ASSUME Single(k2, e) PROVE Single(k2, e)'
      <3>1. ASSUME NEW i \in 1 .. n - 1, NEW j \in 1 .. n - 1,
                   pending'[k2][i].device = e, pending'[k2][j].device = e
            PROVE  i = j
        <4>1. i + 1 = j + 1
          BY <2>1, <2>2, <2>8, <3>1 DEF Single, n
        <4> QED BY <4>1
      <3>2. ASSUME coming'[k2].device = e, NEW i \in 1 .. n - 1
            PROVE  pending'[k2][i].device # e
        BY <1>1, <2>1, <2>2, <2>8, <3>2 DEF Single, n
      <3> QED BY <2>1, <3>1, <3>2 DEF Single
    <2> QED BY <1>3, <2>6, <2>7, <2>8
  <1> QED BY <1>2, <1>3

LEMMA SameAnnouncements ==
  ASSUME NEW d \in Devices, AnnouncedOnce(d), d \in devices <=> d \in devices',
         \A k \in {"found", "lost"} :
            (In(k, d)' <=> In(k, d)) /\ (Single(k, d) => Single(k, d)')
  PROVE  AnnouncedOnce(d)' /\ (d \in Told' <=> d \in Told)
  BY DEF AnnouncedOnce, Told

\* A step without a delivery does not change what an application takes to be there.
LEMMA RestAnnounces ==
  ASSUME FeedOK, OneAnnouncement, RestStep, NEW d \in Devices \ overtaken'
  PROVE  /\ AnnouncedOnce(d)'
         /\ d \notin overtaken => (d \in Told' <=> d \in Told)
  <1>1. CASE Network
    <2>1. d \notin overtaken /\ AnnouncedOnce(d)
      BY <1>1 DEF Network, OneAnnouncement
    <2>2. (d \in devices) # (d \in devices') => ~ In("found", d) /\ ~ In("lost", d)
      BY <1>1, AnnouncedIsIn DEF Network
    <2>3. PICK e \in Devices : \/ OnBeat(e) \/ OnDeviceFound(e) \/ OnDeviceLost(e)
                               \/ Notify("update", e) \/ Notify("master", e)
      BY <1>1 DEF Network
    <2>4. CASE OnBeat(e)
      <3>1. \A k \in {"found", "lost"} :
               (In(k, d)' <=> In(k, d)) /\ (Single(k, d) => Single(k, d)')
        BY <2>4, InEnter DEF OnBeat
      <3> QED BY <2>1, <2>4, <3>1, SameAnnouncements DEF OnBeat
    <2>5. CASE OnDeviceFound(e)
      <3>1. \A k \in {"found", "lost"} :
               /\ In(k, d)' <=> In(k, d) \/ (k = "found" /\ d = e)
               /\ Single(k, d) /\ (k = "found" /\ d = e => ~ In("found", e)) => Single(k, d)'
        BY <2>5, InEnter DEF OnDeviceFound
      <3>2. CASE d # e
        BY <2>1, <2>5, <3>1, <3>2, SameAnnouncements DEF OnDeviceFound
      <3>3. CASE d = e
        <4>1. d \notin devices /\ d \in devices'
          BY <2>5, <3>3 DEF OnDeviceFound
        <4> QED BY <2>1, <2>2, <3>1, <3>3, <4>1 DEF AnnouncedOnce, Told
      <3> QED BY <3>2, <3>3
    <2>6. CASE OnDeviceLost(e)
      <3>1. \A k \in {"found", "lost"} :
               /\ In(k, d)' <=> In(k, d) \/ (k = "lost" /\ d = e)
               /\ Single(k, d) /\ (k = "lost" /\ d = e => ~ In("lost", e)) => Single(k, d)'
        BY <2>6, InEnter DEF OnDeviceLost
      <3>2. CASE d # e
        BY <2>1, <2>6, <3>1, <3>2, SameAnnouncements DEF OnDeviceLost
      <3>3. CASE d = e
        <4>1. d \in devices /\ d \notin devices'
          BY <2>6, <3>3 DEF OnDeviceLost
        <4> QED BY <2>1, <2>2, <3>1, <3>3, <4>1 DEF AnnouncedOnce, Told
      <3> QED BY <3>2, <3>3
    <2>7. CASE Notify("update", e) \/ Notify("master", e)
      <3>1. \A k \in {"found", "lost"} :
               (In(k, d)' <=> In(k, d)) /\ (Single(k, d) => Single(k, d)')
        BY <2>7, InPush DEF Kinds
      <3> QED BY <2>1, <2>7, <3>1, SameAnnouncements DEF Notify
    <2> QED BY <2>1, <2>3, <2>4, <2>5, <2>6, <2>7
  <1>2. CASE \E k \in Kinds : Publish(k) /\ UNCHANGED overtaken
    <2>1. PICK k \in Kinds : Publish(k) /\ UNCHANGED overtaken
      BY <1>2
    <2>2. AnnouncedOnce(d) /\ devices' = devices
      BY <2>1 DEF OneAnnouncement, Publish
    <2>3. \A k2 \in {"found", "lost"} :
             (In(k2, d)' <=> In(k2, d)) /\ (Single(k2, d) => Single(k2, d)')
      BY <2>1, InPush
    <2> QED BY <2>2, <2>3, SameAnnouncements
  <1>3. CASE UNCHANGED <<devices, coming, pending>>
    <2>1. \A k \in {"found", "lost"} :
             (In(k, d)' <=> In(k, d)) /\ (Single(k, d) <=> Single(k, d)')
      BY <1>3 DEF In, Single
    <2>2. CASE d \notin overtaken
      <3>1. AnnouncedOnce(d)
        BY <2>2 DEF OneAnnouncement
      <3> QED BY <1>3, <2>1, <3>1, SameAnnouncements
    <2>3. CASE d \in overtaken
      <3>1. ~ Announced(d)
        BY <2>3, <1>3 DEF RestStep, Around, Network, BeginFrame
      <3>2. ~ In("found", d) /\ ~ In("lost", d)
        BY <3>1, AnnouncedIsIn
      <3>3. Single("found", d) /\ Single("lost", d)
        BY <3>2 DEF In, Single
      <3> QED BY <1>3, <2>1, <2>3, <3>2, <3>3 DEF AnnouncedOnce
    <2> QED BY <2>2, <2>3
  <1>4. CASE (Update \/ Take \/ Finish) \/ UNCHANGED feedVars
    BY <1>3, <1>4 DEF Update, Take, Finish, feedVars
  <1> QED BY <1>1, <1>2, <1>4 DEF RestStep, Around, BeginFrame

\* A delivery changes it by the device of the announcement.
LEMMA ListenerAnnounces ==
  ASSUME FeedOK, OneAnnouncement, Listener, NEW d \in Devices \ overtaken
  PROVE  /\ AnnouncedOnce(d)'
         /\ d = Handed.device /\ Kind = "found" => d \notin Told /\ d \in Told'
         /\ d = Handed.device /\ Kind = "lost" => d \in Told /\ d \notin Told'
         /\ d # Handed.device \/ Kind \notin {"found", "lost"} => (d \in Told' <=> d \in Told)
  <1>1. AnnouncedOnce(d) /\ devices' = devices
    BY DEF OneAnnouncement, Listener, Deliver
  <1>2. \A k \in {"found", "lost"} :
           /\ k # Kind \/ d # Handed.device => (In(k, d)' <=> In(k, d))
           /\ k = Kind /\ d = Handed.device =>
                 In(k, d) /\ (Single(k, d) => ~ In(k, d)')
           /\ Single(k, d) => Single(k, d)'
    BY InDeliver DEF Listener
  <1>3. CASE d # Handed.device \/ Kind \notin {"found", "lost"}
    BY <1>1, <1>2, <1>3, SameAnnouncements
  <1>4. CASE d = Handed.device /\ Kind \in {"found", "lost"}
    BY <1>1, <1>2, <1>4 DEF AnnouncedOnce, Told
  <1> QED BY <1>3, <1>4

LEMMA AnnouncementInit == AppsInit => OneAnnouncement
  <1> SUFFICES ASSUME AppsInit, NEW d \in Devices PROVE AnnouncedOnce(d)
    BY DEF OneAnnouncement
  <1>1. \A k \in {"found", "lost"} :
           coming[k].device # d /\ Len(pending[k]) = 0 /\ 1 .. Len(pending[k]) = {}
    BY EventType DEF AppsInit, DeviceAppInit, Init, Kinds
  <1> QED BY <1>1 DEF AnnouncedOnce, In, Single

LEMMA AnnouncementNext == FeedOK /\ OneAnnouncement /\ FeedStep => OneAnnouncement'
  <1>1. ASSUME FeedOK, OneAnnouncement, RestStep PROVE OneAnnouncement'
    BY <1>1, RestAnnounces DEF OneAnnouncement
  <1>2. ASSUME FeedOK, OneAnnouncement, Listener PROVE OneAnnouncement'
    <2>1. overtaken' = overtaken
      BY <1>2 DEF Listener
    <2> QED BY <1>2, <2>1, ListenerAnnounces DEF OneAnnouncement
  <1> QED BY <1>1, <1>2 DEF FeedStep

-----------------------------------------------------------------------------
(***************************************************************************)
(* The counts.                                                             *)
(***************************************************************************)

\* The steps of an application that counts.
LEMMA CountStep ==
  ASSUME CountsDevices, [AppsNext]_allVars
  PROVE  /\ \/ RestStep /\ UNCHANGED <<deviceCount, hidden>>
            \/ Listener /\ CountDevice
         /\ overtaken \subseteq overtaken'
         /\ app' = app
  <1>1. app \in {"osc", "beatsync", "metronome", "bpm-display", "ableton-link"}
    BY DEF CountsDevices
  <1>2. CASE Around /\ UNCHANGED appVars
    BY <1>2 DEF RestStep, Around, Network, BeginFrame, appVars, counterVars
  <1>3. CASE MonitorStep \/ WaveformStep \/ SlotStep \/ ListStep
    BY <1>1, <1>3 DEF MonitorStep, VirtualCdjMonitor, CdjStatus, StatusMonitor, MultiDevice,
       Monitors, KeyVirtualCdj, ToggleVirtualCdj, WaveformStep, SlotStep, ListStep, Basic,
       Timeline, Refresh, Clear
  <1>4. CASE CounterStep
    BY <1>4 DEF CounterStep, Osc, BeatSync, Metronome, BpmDisplay, AskBeat, OscRate,
       EndFrame, RestStep, Listener, counterVars
  <1>5. CASE BridgeStep
    BY <1>5 DEF BridgeStep, BridgeListener, UpdateLink, Toggle, EndFrame, Key, RestStep,
       Listener, counterVars
  <1>6. CASE UNCHANGED allVars
    BY <1>6 DEF allVars, deviceVars, appVars, counterVars, RestStep
  <1> QED BY <1>2, <1>3, <1>4, <1>5, <1>6 DEF AppsNext

LEMMA WaitingType == FeedOK => \A k \in {"found", "lost"} : Waiting(k) \in Nat
  <1> SUFFICES ASSUME FeedOK, NEW k \in {"found", "lost"} PROVE Waiting(k) \in Nat
    OBVIOUS
  <1>1. Len(pending[k]) \in Nat
    BY SMTT(30) DEF FeedOK, Kinds
  <1>2. CASE Coming(k)
    BY <1>1, <1>2 DEF Waiting
  <1>3. CASE ~ Coming(k)
    BY <1>1, <1>3 DEF Waiting
  <1> QED BY <1>2, <1>3

\* What a step without a delivery does to the announcements under way.
LEMMA RestWaits ==
  ASSUME FeedOK, RestStep
  PROVE  Waiting("found")' + Cardinality(devices) + Waiting("lost")
            = Waiting("found") + Cardinality(devices') + Waiting("lost")'
  <1>1. /\ IsFiniteSet(devices) /\ devices \subseteq Devices
        /\ Cardinality(devices) \in Nat
    BY FS_CardinalityType DEF FeedOK
  <1>2. Waiting("found") \in Nat /\ Waiting("lost") \in Nat
    BY WaitingType
  <1>3. ASSUME NEW k \in {"beat", "found", "lost"}, NEW d \in Devices,
               ~ Coming(k), Enter(k, d), NEW k2 \in {"found", "lost"}
        PROVE  Waiting(k2)' = Waiting(k2) + (IF k2 = k THEN 1 ELSE 0)
    <2>1. /\ coming[k] = NoEvent /\ coming'[k] # NoEvent /\ pending' = pending
          /\ DOMAIN coming' = DOMAIN coming /\ k \in DOMAIN coming
          /\ k2 # k => coming'[k2] = coming[k2]
      BY <1>3, EnterEffect, EventType DEF FeedOK
    <2>2. Len(pending[k2]) \in Nat
      BY SMTT(30) DEF FeedOK, Kinds
    <2>3. k2 # k => (Coming(k2)' <=> Coming(k2))
      BY <2>1 DEF Coming
    <2>4. CASE k2 # k
      <3>1. Len(pending'[k2]) = Len(pending[k2]) /\ (Coming(k2)' <=> Coming(k2))
        BY <2>1, <2>3, <2>4
      <3>2. Waiting(k2)' = Waiting(k2)
        BY <3>1 DEF Waiting
      <3> QED BY <2>4, <3>2, WaitingType
    <2>5. CASE k2 = k
      <3>1. ~ Coming(k2) /\ Coming(k2)'
        BY <2>1, <2>5 DEF Coming
      <3> QED BY <2>1, <2>2, <2>5, <3>1 DEF Waiting
    <2> QED BY <2>4, <2>5
  <1>4. ASSUME NEW k \in Kinds, Publish(k) \/ \E d \in Devices : Notify(k, d),
               NEW k2 \in {"found", "lost"}
        PROVE  Waiting(k2)' = Waiting(k2)
    <2>1. PICK f \in FeedEvent :
            /\ pending'[k] = Append(pending[k], f)
            /\ \A k3 \in Kinds \ {k} : pending'[k3] = pending[k3]
            /\ \/ k \in {"update", "master"} /\ UNCHANGED coming
               \/ /\ k \in {"beat", "found", "lost"} /\ Coming(k)
                  /\ coming' = [coming EXCEPT ![k] = NoEvent]
      BY <1>4, PushEffect
    <2>2. pending[k2] \in Seq(FeedEvent) /\ k2 \in Kinds /\ k2 \in DOMAIN coming
      BY DEF FeedOK, Kinds
    <2>3. CASE k2 # k
      <3>1. pending'[k2] = pending[k2] /\ (Coming(k2)' <=> Coming(k2))
        BY <2>1, <2>2, <2>3 DEF Coming
      <3> QED BY <3>1 DEF Waiting
    <2>4. CASE k2 = k
      <3>1. Len(pending'[k2]) = Len(pending[k2]) + 1 /\ Len(pending[k2]) \in Nat
        BY <2>1, <2>2, <2>4
      <3>2. Coming(k2) /\ ~ Coming(k2)'
        BY <2>1, <2>2, <2>4 DEF Coming
      <3> QED BY <3>1, <3>2 DEF Waiting
    <2> QED BY <2>3, <2>4
  <1>5. CASE Network
    <2>1. PICK e \in Devices : \/ OnBeat(e) \/ OnDeviceFound(e) \/ OnDeviceLost(e)
                               \/ Notify("update", e) \/ Notify("master", e)
      BY <1>5 DEF Network
    <2>2. CASE OnBeat(e)
      <3>1. Waiting("found")' = Waiting("found") /\ Waiting("lost")' = Waiting("lost")
        BY <1>2, <1>3, <2>2 DEF OnBeat
      <3> QED BY <2>2, <3>1 DEF OnBeat
    <2>3. CASE OnDeviceFound(e)
      <3>1. Waiting("found")' = Waiting("found") + 1 /\ Waiting("lost")' = Waiting("lost")
        BY <1>2, <1>3, <2>3 DEF OnDeviceFound
      <3>2. Cardinality(devices') = Cardinality(devices) + 1
        BY <1>1, <2>3, FS_AddElement DEF OnDeviceFound
      <3> QED BY <1>1, <1>2, <3>1, <3>2
    <2>4. CASE OnDeviceLost(e)
      <3>1. Waiting("lost")' = Waiting("lost") + 1 /\ Waiting("found")' = Waiting("found")
        BY <1>2, <1>3, <2>4 DEF OnDeviceLost
      <3>2. Cardinality(devices') = Cardinality(devices) - 1
        BY <1>1, <2>4, FS_RemoveElement DEF OnDeviceLost
      <3> QED BY <1>1, <1>2, <3>1, <3>2
    <2>5. CASE Notify("update", e) \/ Notify("master", e)
      <3>1. Waiting("found")' = Waiting("found") /\ Waiting("lost")' = Waiting("lost")
        BY <1>4, <2>5 DEF Kinds
      <3> QED BY <2>5, <3>1 DEF Notify
    <2> QED BY <2>1, <2>2, <2>3, <2>4, <2>5
  <1>6. CASE \E k \in Kinds : Publish(k)
    <2>1. Waiting("found")' = Waiting("found") /\ Waiting("lost")' = Waiting("lost")
      BY <1>4, <1>6
    <2> QED BY <1>6, <2>1 DEF Publish
  <1>7. CASE UNCHANGED <<devices, coming, pending>>
    BY <1>7 DEF Waiting, Coming
  <1>8. CASE (Update \/ Take \/ Finish) \/ UNCHANGED feedVars
    BY <1>7, <1>8 DEF Update, Take, Finish, feedVars
  <1> QED BY <1>5, <1>6, <1>8 DEF RestStep, Around, BeginFrame

\* What a delivery does to them.
LEMMA ListenerWaits ==
  ASSUME FeedOK, Listener, NEW k \in {"found", "lost"}
  PROVE  /\ Waiting(k)' = IF k = Kind THEN Waiting(k) - 1 ELSE Waiting(k)
         /\ k = Kind => Waiting(k) > 0
  <1>1. /\ k \in Kinds /\ coming' = coming
        /\ k # Kind => pending'[k] = pending[k]
        /\ k = Kind => /\ Len(pending'[k]) = Len(pending[k]) - 1
                       /\ Len(pending[k]) > 0
    BY DeliverEffect DEF Listener, Kinds
  <1>2. Len(pending[k]) \in Nat /\ (Coming(k)' <=> Coming(k))
    BY <1>1 DEF FeedOK, Coming
  <1>3. CASE k # Kind
    <2>1. Waiting(k)' = Waiting(k)
      BY <1>1, <1>2, <1>3 DEF Waiting
    <2> QED BY <1>3, <2>1
  <1>4. CASE k = Kind
    <2>1. /\ Len(pending'[k]) = Len(pending[k]) - 1
          /\ Len(pending[k]) > 0 /\ Len(pending[k]) \in Nat
      BY <1>1, <1>2, <1>4
    <2>2. CASE Coming(k)
      <3>1. Waiting(k) = Len(pending[k]) + 1 /\ Waiting(k)' = Len(pending'[k]) + 1
        BY <1>2, <2>2 DEF Waiting
      <3> QED BY <1>4, <2>1, <3>1
    <2>3. CASE ~ Coming(k)
      <3>1. Waiting(k) = Len(pending[k]) + 0 /\ Waiting(k)' = Len(pending'[k]) + 0
        BY <1>2, <2>3 DEF Waiting
      <3> QED BY <1>4, <2>1, <3>1
    <2> QED BY <2>2, <2>3
  <1> QED BY <1>3, <1>4

LEMMA CountInit == AppsInit => CountOK
  <1> SUFFICES ASSUME AppsInit PROVE CountOK
    OBVIOUS
  <1>1. /\ devices = {} /\ deviceCount = 0 /\ hidden = 0
        /\ \A k \in {"found", "lost"} : coming[k] = NoEvent /\ pending[k] = <<>>
    BY DEF AppsInit, DeviceAppInit, CounterInit, Init, Kinds
  <1>2. Waiting("found") = 0 /\ Waiting("lost") = 0
    <2>1. ~ Coming("found") /\ ~ Coming("lost")
      BY <1>1 DEF Coming
    <2> QED BY <1>1, <2>1 DEF Waiting
  <1>3. Told = {}
    <2>1. \A d \in Devices : \A k \in {"found", "lost"} : ~ In(k, d)
      <3>1. \A k \in {"found", "lost"} : 1 .. Len(pending[k]) = {}
        BY <1>1
      <3> QED BY <1>1, <3>1, EventType DEF In
    <2> QED BY <1>1, <2>1 DEF Told
  <1> QED BY <1>1, <1>2, <1>3, FS_EmptySet DEF CountOK

LEMMA CountNext ==
  ASSUME FeedOK, OneAnnouncement, CountOK, CountsDevices, [AppsNext]_allVars
  PROVE  CountOK'
  <1>1. overtaken \subseteq overtaken'
    BY CountStep
  <1>2. /\ deviceCount \in Nat /\ hidden \in Nat
        /\ deviceCount + Waiting("found") = Cardinality(devices) + hidden + Waiting("lost")
        /\ Waiting("found") \in Nat /\ Waiting("lost") \in Nat
        /\ Cardinality(devices) \in Nat
    BY WaitingType, FS_CardinalityType DEF CountOK, FeedOK
  <1>3. overtaken' = {} => /\ overtaken = {} /\ hidden = 0
                           /\ IsFiniteSet(Told) /\ deviceCount = Cardinality(Told)
    BY <1>1 DEF CountOK
  <1>4. CASE RestStep /\ UNCHANGED <<deviceCount, hidden>>
    <2>1. FeedOK'
      BY <1>4, FeedNext DEF FeedStep
    <2>2. /\ Waiting("found")' \in Nat /\ Waiting("lost")' \in Nat
          /\ Cardinality(devices') \in Nat
      <3>1. (\A k \in {"found", "lost"} : Waiting(k) \in Nat)'
        BY <2>1, WaitingType, PTL
      <3>2. IsFiniteSet(devices')
        BY <2>1 DEF FeedOK
      <3> QED BY <3>1, <3>2, FS_CardinalityType
    <2>3. Waiting("found")' + Cardinality(devices) + Waiting("lost")
             = Waiting("found") + Cardinality(devices') + Waiting("lost")'
      BY <1>4, RestWaits
    <2>4. deviceCount' + Waiting("found")' = Cardinality(devices') + hidden' + Waiting("lost")'
      BY <1>2, <1>4, <2>2, <2>3
    <2>5. ASSUME overtaken' = {} PROVE Told' = Told
      <3>1. \A d \in Devices : d \in Told' <=> d \in Told
        BY <1>3, <1>4, <2>5, RestAnnounces
      <3> QED BY <3>1 DEF Told
    <2> QED BY <1>2, <1>3, <1>4, <2>4, <2>5 DEF CountOK
  <1>5. CASE Listener /\ CountDevice
    <2>1. devices' = devices /\ overtaken' = overtaken
      BY <1>5 DEF Listener, Deliver
    <2>2. /\ Kind \in Kinds /\ Handed \in FeedEvent /\ Handed.device \in Devices
      BY <1>5, DeliverEffect, EventType DEF Listener
    <2>3. /\ Waiting("found")' = IF "found" = Kind THEN Waiting("found") - 1
                                                   ELSE Waiting("found")
          /\ Waiting("lost")' = IF "lost" = Kind THEN Waiting("lost") - 1 ELSE Waiting("lost")
      BY <1>5, ListenerWaits
    <2>4. overtaken = {} =>
             /\ Kind = "found" => Handed.device \notin Told /\ Told' = Told \cup {Handed.device}
             /\ Kind = "lost" => Handed.device \in Told /\ Told' = Told \ {Handed.device}
             /\ Kind \notin {"found", "lost"} => Told' = Told
      <3> SUFFICES ASSUME overtaken = {}
                   PROVE  /\ Kind = "found" => /\ Handed.device \notin Told
                                               /\ Told' = Told \cup {Handed.device}
                          /\ Kind = "lost" => /\ Handed.device \in Told
                                              /\ Told' = Told \ {Handed.device}
                          /\ Kind \notin {"found", "lost"} => Told' = Told
        OBVIOUS
      <3>1. \A d \in Devices :
               /\ d = Handed.device /\ Kind = "found" => d \notin Told /\ d \in Told'
               /\ d = Handed.device /\ Kind = "lost" => d \in Told /\ d \notin Told'
               /\ d # Handed.device \/ Kind \notin {"found", "lost"} =>
                     (d \in Told' <=> d \in Told)
        BY <1>5, ListenerAnnounces
      <3>2. Told \subseteq Devices /\ Told' \subseteq Devices
        BY DEF Told
      <3> QED BY <2>2, <3>1, <3>2
    <2>5. CASE Kind = "found"
      <3>1. deviceCount' = deviceCount + 1 /\ hidden' = hidden
        BY <1>5, <2>5 DEF CountDevice
      <3>2. overtaken = {} => /\ IsFiniteSet(Told') /\ Cardinality(Told') = Cardinality(Told) + 1
        BY <1>3, <2>1, <2>4, <2>5, FS_AddElement
      <3>3. /\ Waiting("found")' = Waiting("found") - 1
            /\ Waiting("lost")' = Waiting("lost")
        BY <2>3, <2>5
      <3>4. deviceCount' + Waiting("found")' = Cardinality(devices) + hidden' + Waiting("lost")'
        BY <1>2, <3>1, <3>3
      <3> QED BY <1>2, <1>3, <2>1, <3>1, <3>2, <3>4 DEF CountOK
    <2>6. CASE Kind = "lost"
      <3>1. /\ Waiting("found")' = Waiting("found")
            /\ Waiting("lost")' = Waiting("lost") - 1
        BY <2>3, <2>6
      <3>2. overtaken = {} => /\ IsFiniteSet(Told') /\ Cardinality(Told') = Cardinality(Told) - 1
                              /\ deviceCount > 0
        <4> SUFFICES ASSUME overtaken = {}
                     PROVE  /\ IsFiniteSet(Told') /\ Cardinality(Told') = Cardinality(Told) - 1
                            /\ deviceCount > 0
          OBVIOUS
        <4>1. /\ IsFiniteSet(Told) /\ deviceCount = Cardinality(Told)
              /\ Handed.device \in Told /\ Told' = Told \ {Handed.device}
          BY <1>3, <2>1, <2>4, <2>6
        <4>2. IsFiniteSet(Told') /\ Cardinality(Told') = Cardinality(Told) - 1
          BY <4>1, FS_RemoveElement
        <4>3. Cardinality(Told') \in Nat
          BY <4>2, FS_CardinalityType
        <4> QED BY <1>2, <4>1, <4>2, <4>3
      <3>3. CASE deviceCount = 0
        <4>1. deviceCount' = 0 /\ hidden' = hidden + 1
          BY <1>5, <2>6, <3>3 DEF CountDevice, Less
        <4>2. deviceCount' + Waiting("found")' = Cardinality(devices) + hidden' + Waiting("lost")'
          BY <1>2, <3>1, <3>3, <4>1
        <4> QED BY <1>2, <2>1, <3>2, <3>3, <4>1, <4>2 DEF CountOK
      <3>4. CASE deviceCount # 0
        <4>1. deviceCount' = deviceCount - 1 /\ hidden' = hidden
          BY <1>2, <1>5, <2>6, <3>4 DEF CountDevice, Less
        <4>2. deviceCount' + Waiting("found")' = Cardinality(devices) + hidden' + Waiting("lost")'
          BY <1>2, <3>1, <4>1
        <4> QED BY <1>2, <1>3, <2>1, <3>2, <3>4, <4>1, <4>2 DEF CountOK
      <3> QED BY <3>3, <3>4
    <2>7. CASE Kind \notin {"found", "lost"}
      <3>1. deviceCount' = deviceCount /\ hidden' = hidden
        BY <1>5, <2>7 DEF CountDevice
      <3>2. /\ Waiting("found")' = Waiting("found") /\ Waiting("lost")' = Waiting("lost")
        BY <2>3, <2>7
      <3> QED BY <1>2, <1>3, <2>1, <2>4, <2>7, <3>1, <3>2 DEF CountOK
    <2> QED BY <2>5, <2>6, <2>7
  <1> QED BY <1>4, <1>5, CountStep

-----------------------------------------------------------------------------
\* Without VirtualCdj there is no callback of it.
LEMMA AskedNext == FeedOK /\ OnlyAsked /\ [AppsNext]_allVars => OnlyAsked'
  <1> SUFFICES ASSUME FeedOK, OnlyAsked, [AppsNext]_allVars, app' \notin UseVirtualCdj
               PROVE  /\ virtualCdj' = FALSE
                      /\ pending'["update"] = <<>> /\ pending'["master"] = <<>>
    BY DEF OnlyAsked
  <1>1. FeedStep
    BY StepIsFeedStep
  <1>2. app' = app
    BY <1>1 DEF FeedStep, RestStep, Around, Network, BeginFrame, Listener
  <1>3. /\ virtualCdj = FALSE /\ app \notin ToggleVirtualCdj
        /\ pending["update"] = <<>> /\ pending["master"] = <<>>
    BY <1>2 DEF OnlyAsked, UseVirtualCdj, ToggleVirtualCdj
  <1>4. virtualCdj' = FALSE
    <2>1. CASE Around
      BY <1>3, <2>1 DEF Around, Network, BeginFrame
    <2>2. CASE MonitorStep \/ WaveformStep \/ SlotStep
      BY <1>3, <2>2 DEF MonitorStep, WaveformStep, SlotStep, AskMaster, DropDatabase,
         KeyVirtualCdj, Listener, EndFrame
    <2>3. CASE ListStep \/ CounterStep \/ BridgeStep
      BY <1>3, <2>3 DEF ListStep, Refresh, Clear, CounterStep, AskBeat, OscRate, BridgeStep,
         UpdateLink, Toggle, Listener, EndFrame
    <2>4. CASE UNCHANGED allVars
      BY <1>3, <2>4 DEF allVars, deviceVars
    <2> QED BY <2>1, <2>2, <2>3, <2>4 DEF AppsNext
  <1>5. pending'["update"] = pending["update"] /\ pending'["master"] = pending["master"]
    <2>1. CASE Network
      <3>1. \E d \in Devices : OnBeat(d) \/ OnDeviceFound(d) \/ OnDeviceLost(d)
        BY <1>3, <2>1 DEF Network
      <3> QED BY <3>1 DEF OnBeat, OnDeviceFound, OnDeviceLost, Enter
    <2>2. CASE \E k \in Kinds : Publish(k)
      <3>1. PICK k \in Kinds : Publish(k)
        BY <2>2
      <3>2. k \in {"beat", "found", "lost"}
        BY <3>1 DEF Publish, Coming, FeedOK
      <3> QED BY <3>1, <3>2, PushEffect DEF Kinds
    <2>3. CASE Deliver
      <3>1. Len(pending["update"]) = 0 /\ Len(pending["master"]) = 0
        BY <1>3
      <3>2. Kind # "update" /\ Kind # "master"
        BY <2>3, <3>1, DeliverEffect
      <3> QED BY <2>3, <3>2, DeliverEffect DEF Kinds
    <2>4. CASE UNCHANGED pending
      BY <2>4
    <2> QED BY <1>1, <2>1, <2>2, <2>3, <2>4 DEF FeedStep, RestStep, Around, BeginFrame,
            Update, Take, Finish, Listener, feedVars
  <1> QED BY <1>3, <1>4, <1>5

LEMMA AskedInit == AppsInit => OnlyAsked
  BY DEF AppsInit, DeviceAppInit, Init, OnlyAsked, Kinds

\* What example-osc sends: one message for each delivery.
LEMMA SentNext ==
  ASSUME FeedOK, OnlyAsked, SentOK, app = "osc", [AppsNext]_allVars
  PROVE  SentOK'
  <1>1. /\ delivered["beat"] \in Nat /\ delivered["found"] \in Nat
        /\ delivered["lost"] \in Nat
    BY DEF FeedOK, Kinds
  <1>2. CASE UNCHANGED <<delivered, messagesSent, thisSecond, rated>>
    BY <1>2 DEF SentOK
  <1>3. CASE OscRate
    <2>1. delivered' = delivered /\ messagesSent' = messagesSent
      BY <1>3 DEF OscRate, EndFrame, feedVars
    <2>2. \/ thisSecond' = 0 /\ rated' = rated + thisSecond
          \/ UNCHANGED <<thisSecond, rated>>
      BY <1>3 DEF OscRate
    <2> QED BY <2>1, <2>2 DEF SentOK
  <1>4. CASE Listener /\ Osc
    <2>1. Kind \in {"beat", "found", "lost"}
      <3>1. Len(pending["update"]) = 0 /\ Len(pending["master"]) = 0
        BY DEF OnlyAsked, UseVirtualCdj
      <3>2. Kind \in Kinds /\ Len(pending[Kind]) > 0
        BY <1>4, DeliverEffect DEF Listener
      <3>3. Kind \notin {"update", "master"}
        BY <3>1, <3>2
      <3> QED BY <3>2, <3>3 DEF Kinds
    <2>2. \A k \in Kinds : delivered'[k] = IF k = Kind THEN delivered[k] + 1 ELSE delivered[k]
      BY <1>4, DeliverEffect DEF Listener
    <2>3. delivered'["beat"] + delivered'["found"] + delivered'["lost"]
             = delivered["beat"] + delivered["found"] + delivered["lost"] + 1
      BY <1>1, <2>1, <2>2 DEF Kinds
    <2> QED BY <1>1, <1>4, <2>3 DEF SentOK, Osc
  <1>5. CASE Around /\ UNCHANGED appVars
    <2>1. UNCHANGED <<messagesSent, thisSecond, rated>>
      BY <1>5 DEF appVars, counterVars, oscVars
    <2>2. delivered' = delivered
      BY <1>5, AroundSteps DEF OnBeat, OnDeviceFound, OnDeviceLost, Enter, Notify, Publish,
         Update, Take, Finish
    <2> QED BY <1>2, <2>1, <2>2
  <1>6. CASE MonitorStep \/ WaveformStep \/ SlotStep \/ ListStep \/ BridgeStep
    BY <1>6 DEF MonitorStep, VirtualCdjMonitor, CdjStatus, StatusMonitor, MultiDevice,
       Monitors, KeyVirtualCdj, ToggleVirtualCdj, WaveformStep, SlotStep, ListStep, Basic,
       Timeline, Refresh, Clear, BridgeStep
  <1>7. CASE CounterStep
    BY <1>3, <1>4, <1>7 DEF CounterStep, BeatSync, Metronome, BpmDisplay, AskBeat
  <1>8. CASE UNCHANGED allVars
    BY <1>2, <1>8 DEF allVars, deviceVars, feedVars, appVars, counterVars, oscVars
  <1> QED BY <1>5, <1>6, <1>7, <1>8 DEF AppsNext

LEMMA SentInit == AppsInit => SentOK
  BY DEF AppsInit, DeviceAppInit, CounterInit, Init, SentOK, Kinds

-----------------------------------------------------------------------------
(***************************************************************************)
(* The panels.                                                             *)
(***************************************************************************)

LEMMA Apart == /\ "comprehensive" \notin Monitors /\ "basic" \notin Monitors
               /\ "statusmonitor" \in Monitors /\ "virtualcdj" \in Monitors
               /\ "waveform" \in Monitors /\ "osc" \notin Monitors
               /\ Monitors \cap {"beatsync", "metronome", "bpm-display", "timeline",
                                 "ableton-link"} = {}
  BY DEF Monitors

\* The slot of the event, with its fields.
LEMMA SlotStepEffect ==
  ASSUME SlotFields, app = "comprehensive", Listener, SlotListener
  PROVE  /\ SlotFields'
         /\ \A d \in Slots :
              /\ d # Handed.device => slots'[d] = slots[d]
              /\ d = Handed.device /\ Kind = "beat" =>
                    /\ slots'[d].lastBeat = Handed
                    /\ slots'[d].status = slots[d].status
                    /\ slots'[d].connected = slots[d].connected
                    /\ slots'[d].beatHistory =
                          Recent(Append(slots[d].beatHistory, Handed), MaxBeatHistory)
              /\ Kind # "beat" => slots'[d].beatHistory = slots[d].beatHistory
              /\ d = Handed.device /\ Kind = "found" =>
                    /\ slots'[d].lastBeat = slots[d].lastBeat
                    /\ slots'[d].status = slots[d].status
                    /\ slots'[d].connected = TRUE
              /\ d = Handed.device /\ Kind = "lost" =>
                    /\ slots'[d].lastBeat = NoEvent
                    /\ slots'[d].status = NoEvent
                    /\ slots'[d].connected = FALSE
              /\ d = Handed.device /\ Kind = "update" =>
                    /\ slots'[d].lastBeat = slots[d].lastBeat
                    /\ slots'[d].status = Handed
                    /\ slots'[d].connected = slots[d].connected
              /\ Kind = "master" => slots'[d] = slots[d]
  <1>1. \A d \in Slots : DOMAIN slots[d] =
           {"connected", "status", "lastBeat", "trackTitle", "beatHistory"}
    BY DEF SlotFields, EmptySlot
  <1> DEFINE Fields == {"connected", "status", "lastBeat", "trackTitle", "beatHistory"}
             h == Handed.device
  <1>2. DOMAIN EmptySlot = Fields
    BY DEF EmptySlot
  <1>3. Kind \in {"beat", "found", "lost", "update", "master"}
    BY DEF SlotListener
  <1>4. CASE Kind = "master"
    BY <1>4 DEF SlotListener, SlotFields
  <1>5. CASE Kind # "master" /\ h \notin Slots
    <2>1. slots' = slots
      BY <1>5 DEF SlotListener, SetSlot
    <2> QED BY <1>5, <2>1 DEF SlotFields
  <1>6. CASE Kind # "master" /\ h \in Slots
    <2>1. CASE Kind = "beat"
      <3>1. slots' = [slots EXCEPT ![h] = Beat(Handed)]
        BY <1>6, <2>1 DEF SlotListener, SetSlot
      <3>2. /\ DOMAIN Beat(Handed) = Fields
            /\ Beat(Handed).lastBeat = Handed
            /\ Beat(Handed).status = slots[h].status
            /\ Beat(Handed).connected = slots[h].connected
            /\ Beat(Handed).beatHistory =
                  Recent(Append(slots[h].beatHistory, Handed), MaxBeatHistory)
        BY <1>1, <1>6 DEF Beat, SlotOf
      <3> HIDE DEF Fields
      <3> QED BY <1>2, <1>6, <2>1, <3>1, <3>2 DEF SlotFields
    <2>2. CASE Kind = "found"
      <3> DEFINE s == [slots[h] EXCEPT !.connected = TRUE]
      <3>1. slots' = [slots EXCEPT ![h] = s]
        BY <1>6, <2>2 DEF SlotListener, SetSlot, SlotOf
      <3>2. /\ DOMAIN s = Fields /\ s.lastBeat = slots[h].lastBeat
            /\ s.status = slots[h].status /\ s.connected = TRUE
            /\ s.beatHistory = slots[h].beatHistory
        BY <1>1, <1>6
      <3> HIDE DEF Fields, s
      <3> QED BY <1>2, <1>6, <2>2, <3>1, <3>2 DEF SlotFields
    <2>3. CASE Kind = "lost"
      <3>1. slots' = [slots EXCEPT ![h] = Lost(Handed)]
        BY <1>6, <2>3 DEF SlotListener, SetSlot
      <3>2. /\ DOMAIN Lost(Handed) = Fields /\ Lost(Handed).lastBeat = NoEvent
            /\ Lost(Handed).status = NoEvent /\ Lost(Handed).connected = FALSE
            /\ Lost(Handed).beatHistory = slots[h].beatHistory
        BY <1>1, <1>6 DEF Lost, SlotOf
      <3> HIDE DEF Fields
      <3> QED BY <1>2, <1>6, <2>3, <3>1, <3>2 DEF SlotFields
    <2>4. CASE Kind = "update"
      <3>1. PICK known \in BOOLEAN : slots' = [slots EXCEPT ![h] = Status(Handed, known)]
        BY <1>6, <2>4 DEF SlotListener, SetSlot
      <3> DEFINE s == Status(Handed, known)
      <3>2. /\ DOMAIN s = Fields /\ s.lastBeat = slots[h].lastBeat
            /\ s.status = Handed /\ s.connected = slots[h].connected
            /\ s.beatHistory = slots[h].beatHistory
        BY <1>1, <1>6 DEF Status, SlotOf
      <3> HIDE DEF Fields, s
      <3> QED BY <1>2, <1>6, <2>4, <3>1, <3>2 DEF SlotFields, s
    <2> QED BY <1>3, <1>6, <2>1, <2>2, <2>3, <2>4
  <1> QED BY <1>4, <1>5, <1>6

\* The steps of an application with a map of players.
LEMMA MonitorSteps ==
  ASSUME app \in Monitors, [AppsNext]_allVars
  PROVE  /\ app' = app /\ overtaken \subseteq overtaken'
         /\ \/ RestStep /\ UNCHANGED <<players, currentMaster>> /\ playing' \subseteq playing
            \/ /\ Listener
               /\ \/ Kind = "beat"   /\ onBeat(Handed)
                  \/ Kind = "found"  /\ onDeviceFound(Handed)
                  \/ Kind = "lost"   /\ onDeviceLost(Handed)
                  \/ Kind = "update" /\ onDeviceUpdate(Handed) /\ app # "statusmonitor"
                  \/ Kind = "master" /\ onMasterChanged(Handed)
                  \/ Kind = "master" /\ UNCHANGED <<players, currentMaster>>
               /\ IF app = "statusmonitor"
                  THEN playing' = IF Kind = "beat"
                                  THEN playing \cup ({Handed.device} \cap DOMAIN players)
                                  ELSE playing \ {Handed.device}
                  ELSE UNCHANGED playing
  <1>1. app \in {"virtualcdj", "cdjstatus", "statusmonitor", "multidevice", "waveform"}
    BY DEF Monitors
  <1>2. CASE Around /\ UNCHANGED appVars
    BY <1>2 DEF RestStep, Around, Network, BeginFrame, appVars, monitorVars
  <1>3. CASE MonitorStep
    <2>1. CASE Listener /\ (VirtualCdjMonitor \/ CdjStatus \/ StatusMonitor \/ MultiDevice)
      BY <2>1 DEF Listener, VirtualCdjMonitor, CdjStatus, StatusMonitor, MultiDevice, Passive
    <2>2. CASE EndFrame /\ PlayingTimeout /\ UNCHANGED <<players, currentMaster>>
      BY <2>2 DEF EndFrame, PlayingTimeout, RestStep
    <2>3. CASE KeyVirtualCdj /\ UNCHANGED monitorVars
      BY <2>3 DEF KeyVirtualCdj, Key, RestStep, monitorVars
    <2> QED BY <1>3, <2>1, <2>2, <2>3 DEF MonitorStep
  <1>4. CASE WaveformStep
    BY <1>4 DEF WaveformStep, Listener, Passive, EndFrame, RestStep
  <1>5. CASE SlotStep \/ (ListStep /\ UNCHANGED monitorVars) \/ CounterStep \/ BridgeStep
    BY <1>1, <1>5 DEF SlotStep, ListStep, Basic, Timeline, Refresh, Clear, CounterStep, Osc,
       BeatSync, Metronome, BpmDisplay, AskBeat, OscRate, BridgeStep
  <1>6. CASE UNCHANGED allVars
    BY <1>6 DEF allVars, deviceVars, appVars, monitorVars, RestStep
  <1> QED BY <1>2, <1>3, <1>4, <1>5, <1>6 DEF AppsNext

\* The steps of example-comprehensive.
LEMMA SlotSteps ==
  ASSUME app = "comprehensive", [AppsNext]_allVars
  PROVE  /\ app' = app /\ overtaken \subseteq overtaken'
         /\ \/ RestStep /\ UNCHANGED slots
            \/ Listener /\ SlotListener
  <1>1. CASE Around /\ UNCHANGED appVars
    BY <1>1 DEF RestStep, Around, Network, BeginFrame, appVars, slotVars
  <1>2. CASE SlotStep
    BY <1>2 DEF SlotStep, Listener, AskMaster, DropDatabase, EndFrame, KeyVirtualCdj, Key,
       RestStep, slotVars
  <1>3. CASE MonitorStep \/ WaveformStep \/ ListStep \/ CounterStep \/ BridgeStep
    BY <1>3 DEF MonitorStep, VirtualCdjMonitor, CdjStatus, StatusMonitor, MultiDevice,
       Monitors, WaveformStep, ListStep, Basic, Timeline, Refresh, Clear, CounterStep, Osc,
       BeatSync, Metronome, BpmDisplay, AskBeat, OscRate, BridgeStep
  <1>4. CASE UNCHANGED allVars
    BY <1>4 DEF allVars, deviceVars, appVars, slotVars, RestStep
  <1> QED BY <1>1, <1>2, <1>3, <1>4 DEF AppsNext

\* The steps of example-basic.
LEMMA BasicSteps ==
  ASSUME app = "basic", [AppsNext]_allVars
  PROVE  /\ app' = app
         /\ \/ RestStep /\ UNCHANGED deviceBeats
            \/ Listener /\ Basic
  <1>1. CASE Around /\ UNCHANGED appVars
    BY <1>1 DEF RestStep, Around, Network, BeginFrame, appVars, listVars
  <1>2. CASE ListStep
    BY <1>2 DEF ListStep, Listener, Timeline, Refresh, Clear, EndFrame, Key,
       RestStep, listVars
  <1>3. CASE MonitorStep \/ WaveformStep \/ SlotStep \/ CounterStep \/ BridgeStep
    BY <1>3 DEF MonitorStep, VirtualCdjMonitor, CdjStatus, StatusMonitor, MultiDevice,
       Monitors, KeyVirtualCdj, ToggleVirtualCdj, WaveformStep, SlotStep, CounterStep, Osc,
       BeatSync, Metronome, BpmDisplay, AskBeat, OscRate, BridgeStep
  <1>4. CASE UNCHANGED allVars
    BY <1>4 DEF allVars, deviceVars, appVars, listVars, RestStep
  <1> QED BY <1>1, <1>2, <1>3, <1>4 DEF AppsNext

\* What the others do to the variables of those.
LEMMA OtherSteps ==
  ASSUME [AppsNext]_allVars
  PROVE  /\ app' = app
         /\ app \notin Monitors => UNCHANGED <<playing, currentMaster>>
         /\ app # "comprehensive" => UNCHANGED slots
  <1>1. CASE Around /\ UNCHANGED appVars
    BY <1>1 DEF Around, Network, BeginFrame, appVars, monitorVars, slotVars
  <1>2. CASE MonitorStep /\ UNCHANGED slotVars
    BY <1>2 DEF MonitorStep, VirtualCdjMonitor, CdjStatus, StatusMonitor, MultiDevice,
       Monitors, KeyVirtualCdj, Key, EndFrame, Listener, slotVars, monitorVars
  <1>3. CASE WaveformStep /\ UNCHANGED slotVars
    BY <1>3 DEF WaveformStep, Monitors, EndFrame, Listener, slotVars
  <1>4. CASE SlotStep /\ UNCHANGED monitorVars
    BY <1>4 DEF SlotStep, Listener, AskMaster, DropDatabase, EndFrame, KeyVirtualCdj, Key,
       monitorVars
  <1>5. CASE (ListStep \/ CounterStep \/ BridgeStep) /\ UNCHANGED <<monitorVars, slotVars>>
    BY <1>5 DEF ListStep, Refresh, Clear, CounterStep, AskBeat, OscRate, BridgeStep,
       UpdateLink, Toggle, Listener, EndFrame, Key, monitorVars, slotVars
  <1>6. CASE UNCHANGED allVars
    BY <1>6 DEF allVars, deviceVars, appVars, monitorVars, slotVars
  <1> QED BY <1>1, <1>2, <1>3, <1>4, <1>5, <1>6 DEF AppsNext

LEMMA SlotFieldsNext == SlotFields /\ [AppsNext]_allVars => SlotFields'
  <1> SUFFICES ASSUME SlotFields, [AppsNext]_allVars PROVE SlotFields'
    OBVIOUS
  <1>1. CASE app = "comprehensive"
    <2>1. CASE slots' = slots
      BY <2>1 DEF SlotFields
    <2>2. CASE Listener /\ SlotListener
      BY <1>1, <2>2, SlotStepEffect
    <2> QED BY <1>1, <2>1, <2>2, SlotSteps
  <1>2. CASE app # "comprehensive"
    BY <1>2, OtherSteps DEF SlotFields
  <1> QED BY <1>1, <1>2

LEMMA SlotFieldsInit == AppsInit => SlotFields
  BY DEF AppsInit, SlotInit, SlotFields, EmptySlot

\* A panel is opened and closed by the announcements of its device.
LEMMA HeldStep ==
  ASSUME FeedOK, SlotFields, app \in Monitors \cup {"comprehensive"}, [AppsNext]_allVars
  PROVE  /\ app' = app /\ overtaken \subseteq overtaken'
         /\ \/ RestStep /\ Held' = Held
            \/ /\ Listener
               /\ \A d \in Drawable \cap Devices :
                     /\ d = Handed.device /\ Kind = "found" => d \in Held'
                     /\ d = Handed.device /\ Kind = "lost" => d \notin Held'
                     /\ d # Handed.device \/ Kind \notin {"found", "lost"} =>
                           (d \in Held' <=> d \in Held)
  <1>1. CASE app \in Monitors
    <2>1. app' = app /\ overtaken \subseteq overtaken'
      BY <1>1, MonitorSteps
    <2>2. Held = DOMAIN players /\ Held' = DOMAIN players'
      BY <1>1, <2>1 DEF Held
    <2>3. CASE RestStep /\ UNCHANGED players
      BY <2>1, <2>2, <2>3
    <2>4. CASE Listener /\ Kind = "beat" /\ onBeat(Handed)
      BY <2>1, <2>2, <2>4 DEF onBeat
    <2>5. CASE Listener /\ Kind = "found" /\ onDeviceFound(Handed)
      BY <2>1, <2>2, <2>5 DEF onDeviceFound
    <2>6. CASE Listener /\ Kind = "lost" /\ onDeviceLost(Handed)
      BY <2>1, <2>2, <2>6 DEF onDeviceLost
    <2>7. CASE Listener /\ Kind = "update" /\ onDeviceUpdate(Handed)
      BY <2>1, <2>2, <2>7 DEF onDeviceUpdate
    <2>8. CASE Listener /\ Kind = "master" /\ players' = players
      BY <2>1, <2>2, <2>8
    <2> QED BY <1>1, <2>3, <2>4, <2>5, <2>6, <2>7, <2>8, MonitorSteps DEF onMasterChanged
  <1>2. CASE app = "comprehensive"
    <2>1. app' = app /\ overtaken \subseteq overtaken'
      BY <1>2, SlotSteps
    <2>2. /\ \A d \in Slots : (d \in Held <=> slots[d].connected)
                              /\ (d \in Held' <=> slots'[d].connected)
          /\ Drawable = Slots
      BY <1>2, <2>1, Apart DEF Held, Drawable, FixedPanels
    <2>3. CASE RestStep /\ UNCHANGED slots
      BY <1>2, <2>1, <2>3, Apart DEF Held
    <2>4. CASE Listener /\ SlotListener
      <3>1. Kind \in {"beat", "found", "lost", "update", "master"}
        BY <2>4 DEF SlotListener
      <3> QED BY <1>2, <2>1, <2>2, <2>4, <3>1, SlotStepEffect
    <2> QED BY <1>2, <2>3, <2>4, SlotSteps
  <1> QED BY <1>1, <1>2

LEMMA PanelsNext ==
  ASSUME FeedOK, OneAnnouncement, SlotFields, PanelsOK, [AppsNext]_allVars,
         app \in Monitors \cup {"comprehensive"}
  PROVE  PanelsOK'
  <1>1. app' = app /\ overtaken \subseteq overtaken' /\ Drawable' = Drawable
    BY HeldStep DEF Drawable
  <1> SUFFICES ASSUME NEW d \in (Drawable \cap Devices) \ overtaken'
               PROVE  d \in Held' <=> d \in Told'
    BY <1>1 DEF PanelsOK
  <1>2. d \notin overtaken /\ (d \in Held <=> d \in Told) /\ d \in Devices
    BY <1>1 DEF PanelsOK
  <1>3. CASE RestStep /\ Held' = Held
    BY <1>2, <1>3, RestAnnounces
  <1> DEFINE Opens == /\ d = Handed.device /\ Kind = "found" => d \in Held'
                      /\ d = Handed.device /\ Kind = "lost" => d \notin Held'
                      /\ d # Handed.device \/ Kind \notin {"found", "lost"} =>
                            (d \in Held' <=> d \in Held)
  <1>4. CASE Listener /\ Opens
    <2>1. /\ d = Handed.device /\ Kind = "found" => d \in Told'
          /\ d = Handed.device /\ Kind = "lost" => d \notin Told'
          /\ d # Handed.device \/ Kind \notin {"found", "lost"} => (d \in Told' <=> d \in Told)
      BY <1>2, <1>4, ListenerAnnounces
    <2> QED BY <1>2, <1>4, <2>1
  <1>5. d \in Drawable \cap Devices
    BY <1>1
  <1> QED BY <1>3, <1>4, <1>5, HeldStep

LEMMA PanelsInit == AppsInit => PanelsOK
  <1> SUFFICES ASSUME AppsInit PROVE PanelsOK
    OBVIOUS
  <1>1. Told = {}
    <2>1. \A d \in Devices : ~ In("lost", d)
      <3>1. coming["lost"] = NoEvent /\ 1 .. Len(pending["lost"]) = {}
        BY DEF AppsInit, DeviceAppInit, Init, Kinds
      <3> QED BY <3>1, EventType DEF In
    <2> QED BY <2>1 DEF AppsInit, DeviceAppInit, Init, Told
  <1>2. Held = {}
    BY DEF AppsInit, MonitorInit, SlotInit, Held, EmptySlot
  <1> QED BY <1>1, <1>2 DEF PanelsOK

-----------------------------------------------------------------------------
(***************************************************************************)
(* What is forgotten at a loss.                                            *)
(***************************************************************************)

\* What a delivery does to it.
LEMMA LossListener ==
  ASSUME FeedOK, LossType, Listener
  PROVE  /\ LossType'
         /\ \A d \in Devices : \A k \in {"beat", "update", "master"} :
               lossSeen'[d][k] = IF Kind = "lost" /\ d = Handed.device THEN delivered[k]
                                                                       ELSE lossSeen[d][k]
         /\ \A k \in {"beat", "update", "master"} :
               delivered'[k] = IF k = Kind THEN delivered[k] + 1 ELSE delivered[k]
  <1>1. /\ Handed.device \in Devices
        /\ \A k \in Kinds : delivered'[k] = IF k = Kind THEN delivered[k] + 1 ELSE delivered[k]
    BY DeliverEffect, EventType DEF Listener
  <1>2. \A k \in {"beat", "update", "master"} : k \in Kinds /\ delivered[k] \in Nat
    BY DEF Kinds, FeedOK
  <1>3. DOMAIN NoLoss = {"beat", "update", "master"}
    BY DEF NoLoss
  <1> DEFINE seen == [k \in {"beat", "update", "master"} |-> delivered[k]]
  <1>4. seen \in [{"beat", "update", "master"} -> Nat]
    BY <1>2
  <1>5. lossSeen' = IF Kind = "lost" THEN [lossSeen EXCEPT ![Handed.device] = seen]
                                     ELSE lossSeen
    BY <1>3 DEF Listener
  <1>6. lossSeen' \in [Devices -> [{"beat", "update", "master"} -> Nat]]
    BY <1>1, <1>4, <1>5 DEF LossType
  <1>7. \A d \in Devices : \A k \in {"beat", "update", "master"} :
           lossSeen'[d][k] = IF Kind = "lost" /\ d = Handed.device THEN delivered[k]
                                                                   ELSE lossSeen[d][k]
    BY <1>1, <1>5 DEF LossType
  <1>8. \A k \in {"beat", "update", "master"} :
           delivered'[k] = IF k = Kind THEN delivered[k] + 1 ELSE delivered[k]
    BY <1>1, <1>2
  <1>9. \A d \in Devices : \A k \in {"beat", "update", "master"} :
           lossSeen'[d][k] <= delivered'[k]
    <2> SUFFICES ASSUME NEW d \in Devices, NEW k \in {"beat", "update", "master"}
                 PROVE  lossSeen'[d][k] <= delivered'[k]
      OBVIOUS
    <2>1. /\ lossSeen[d][k] \in Nat /\ delivered[k] \in Nat
          /\ lossSeen[d][k] <= delivered[k]
      BY <1>2 DEF LossType
    <2>2. delivered'[k] = delivered[k] \/ delivered'[k] = delivered[k] + 1
      BY <1>8
    <2>3. lossSeen'[d][k] = lossSeen[d][k] \/ lossSeen'[d][k] = delivered[k]
      BY <1>7
    <2> QED BY <2>1, <2>2, <2>3
  <1> QED BY <1>6, <1>7, <1>8, <1>9 DEF LossType

\* What is kept, forgotten or handed over is from after the loss.
LEMMA SinceListener ==
  ASSUME FeedOK, LossType, Listener, NEW d \in Devices, NEW k \in {"beat", "update"},
         NEW e, NEW f,
         \/ f = NoEvent
         \/ f = e /\ Since(e, k, d) /\ ~ (Kind = "lost" /\ d = Handed.device)
         \/ f = Handed /\ Kind = k
  PROVE  f = NoEvent \/ (f \in FeedEvent /\ lossSeen'[d][k] < f.id)
  <1>1. CASE f = e /\ Since(e, k, d) /\ ~ (Kind = "lost" /\ d = Handed.device)
    <2>1. lossSeen'[d][k] = lossSeen[d][k]
      BY <1>1, LossListener
    <2> QED BY <1>1, <2>1 DEF Since
  <1>2. CASE f = Handed /\ Kind = k
    <2>1. f \in FeedEvent /\ f.id = delivered[k] + 1
      BY <1>2, DeliverEffect DEF Listener
    <2>2. lossSeen'[d][k] = lossSeen[d][k]
      BY <1>2, LossListener
    <2>3. delivered[k] \in Nat
      BY DEF FeedOK, Kinds
    <2>4. lossSeen[d][k] \in Nat /\ lossSeen[d][k] <= delivered[k]
      BY DEF LossType
    <2> QED BY <2>1, <2>2, <2>3, <2>4
  <1> QED BY <1>1, <1>2

\* A step without a delivery forgets nothing and hands over nothing.
LEMMA RestLoss ==
  ASSUME RestStep
  PROVE  lossSeen' = lossSeen /\ delivered' = delivered
  <1>1. CASE Around
    BY <1>1, AroundSteps DEF Around, Network, BeginFrame, OnBeat, OnDeviceFound,
       OnDeviceLost, Enter, Notify, Publish, Update, Take, Finish
  <1>2. CASE UNCHANGED <<feedVars, lossSeen>>
    BY <1>2 DEF feedVars
  <1> QED BY <1>1, <1>2 DEF RestStep

LEMMA LossNext == FeedOK /\ LossType /\ FeedStep => LossType'
  BY LossListener, RestLoss DEF FeedStep, LossType

LEMMA PlayersNext ==
  ASSUME FeedOK, LossType, PlayersForget, app \in Monitors, [AppsNext]_allVars
  PROVE  PlayersForget'
  <1> DEFINE Stored == FeedEvent \cup {NoEvent}
  <1>1. app' = app
    BY MonitorSteps
  <1>2. NoMaster \notin Devices
    OBVIOUS
  <1>3. CASE RestStep /\ UNCHANGED <<players, currentMaster>> /\ playing' \subseteq playing
    BY <1>1, <1>3, RestLoss DEF PlayersForget, Since
  <1>4. ASSUME Listener,
               \/ Kind = "beat"   /\ onBeat(Handed)
               \/ Kind = "found"  /\ onDeviceFound(Handed)
               \/ Kind = "lost"   /\ onDeviceLost(Handed)
               \/ Kind = "update" /\ onDeviceUpdate(Handed) /\ app # "statusmonitor"
               \/ Kind = "master" /\ onMasterChanged(Handed)
               \/ Kind = "master" /\ UNCHANGED <<players, currentMaster>>,
               IF app = "statusmonitor"
               THEN playing' = IF Kind = "beat"
                               THEN playing \cup ({Handed.device} \cap DOMAIN players)
                               ELSE playing \ {Handed.device}
               ELSE UNCHANGED playing
        PROVE  PlayersForget'
    <2> DEFINE h == Handed.device
    <2>1. Handed \in FeedEvent /\ h \in Devices /\ Handed # NoEvent
      BY <1>4, DeliverEffect, EventType DEF Listener
    <2>2. \A d \in DOMAIN players' :
             /\ d \in Devices
             /\ d \in DOMAIN players \/ players'[d] = NewPlayer
             /\ d \in DOMAIN players =>
                   /\ ~ (Kind = "lost" /\ d = h)
                   /\ \/ players'[d] = players[d]
                      \/ players'[d] = NewPlayer /\ d = h /\ Kind = "found"
                      \/ /\ players'[d] = [players[d] EXCEPT !.lastBeat = Handed]
                         /\ d = h /\ Kind = "beat"
                      \/ /\ players'[d] = [players[d] EXCEPT !.status = Handed]
                         /\ d = h /\ Kind = "update" /\ app # "statusmonitor"
      <3>1. CASE Kind = "beat" /\ onBeat(Handed)
        BY <3>1 DEF onBeat, PlayersForget
      <3>2. CASE Kind = "found" /\ onDeviceFound(Handed)
        BY <2>1, <3>2 DEF onDeviceFound, PlayersForget
      <3>3. CASE Kind = "lost" /\ onDeviceLost(Handed)
        BY <3>3 DEF onDeviceLost, PlayersForget
      <3>4. CASE Kind = "update" /\ onDeviceUpdate(Handed) /\ app # "statusmonitor"
        BY <3>4 DEF onDeviceUpdate, PlayersForget
      <3>5. CASE Kind = "master" /\ UNCHANGED players
        BY <3>5 DEF PlayersForget
      <3> QED BY <1>4, <3>1, <3>2, <3>3, <3>4, <3>5 DEF onMasterChanged
    <2>3. NewPlayer \in [status : Stored, lastBeat : Stored]
          /\ NewPlayer.status = NoEvent /\ NewPlayer.lastBeat = NoEvent
      BY DEF NewPlayer
    <2>4. \A d \in DOMAIN players' :
             /\ players'[d] \in [status : Stored, lastBeat : Stored]
             /\ \/ players'[d].lastBeat = NoEvent
                \/ /\ players'[d].lastBeat = players[d].lastBeat
                   /\ d \in DOMAIN players /\ ~ (Kind = "lost" /\ d = h)
                \/ players'[d].lastBeat = Handed /\ Kind = "beat"
             /\ \/ players'[d].status = NoEvent
                \/ /\ players'[d].status = players[d].status
                   /\ d \in DOMAIN players /\ ~ (Kind = "lost" /\ d = h)
                \/ players'[d].status = Handed /\ Kind = "update" /\ app # "statusmonitor"
      BY <2>1, <2>2, <2>3 DEF PlayersForget
    <2>5. \A d \in DOMAIN players' :
             /\ Since(players[d].lastBeat, "beat", d) \/ d \notin DOMAIN players
             /\ Since(players[d].status, "update", d) \/ d \notin DOMAIN players
      BY DEF PlayersForget
    <2>6. \A d \in DOMAIN players' :
             /\ Since(players[d].lastBeat, "beat", d)'
             /\ Since(players[d].status, "update", d)'
      <3> SUFFICES ASSUME NEW d \in DOMAIN players'
                   PROVE  /\ Since(players[d].lastBeat, "beat", d)'
                          /\ Since(players[d].status, "update", d)'
        OBVIOUS
      <3>1. d \in Devices
        BY <2>2
      <3>2. Since(players[d].lastBeat, "beat", d)'
        BY <1>4, <2>4, <2>5, <3>1, SinceListener DEF Since
      <3>3. Since(players[d].status, "update", d)'
        BY <1>4, <2>4, <2>5, <3>1, SinceListener DEF Since
      <3> QED BY <3>2, <3>3
    <2>7. \A d \in Devices : currentMaster' = d => lossSeen'[d]["master"] < delivered'["master"]
      <3> SUFFICES ASSUME NEW d \in Devices, currentMaster' = d
                   PROVE  lossSeen'[d]["master"] < delivered'["master"]
        OBVIOUS
      <3>1. /\ lossSeen[d]["master"] \in Nat /\ delivered["master"] \in Nat
            /\ lossSeen[d]["master"] <= delivered["master"]
        <4>1. delivered["master"] \in Nat
          BY DEF FeedOK, Kinds
        <4> QED BY <4>1 DEF LossType
      <3>2. \/ currentMaster = d /\ ~ (Kind = "lost" /\ d = h)
            \/ Kind = "master"
        BY <1>2, <1>4 DEF onBeat, onDeviceFound, onDeviceLost, onDeviceUpdate
      <3>3. /\ lossSeen'[d]["master"] = IF Kind = "lost" /\ d = h THEN delivered["master"]
                                                                  ELSE lossSeen[d]["master"]
            /\ delivered'["master"] = IF "master" = Kind THEN delivered["master"] + 1
                                                         ELSE delivered["master"]
        BY <1>4, LossListener
      <3>4. CASE Kind = "master"
        BY <3>1, <3>3, <3>4
      <3>5. CASE Kind # "master"
        <4>1. lossSeen[d]["master"] < delivered["master"]
          BY <3>2, <3>5 DEF PlayersForget
        <4> QED BY <3>2, <3>3, <3>5, <4>1
      <3> QED BY <3>4, <3>5
    <2>8. app = "statusmonitor" => \A d \in DOMAIN players' : players'[d].status = NoEvent
      BY <2>4 DEF PlayersForget
    <2>9. app # "statusmonitor" => playing' = {}
      BY <1>4 DEF PlayersForget
    <2>10. \A d \in playing' : d \in DOMAIN players' /\ players'[d].lastBeat # NoEvent
      <3> SUFFICES ASSUME NEW d \in playing'
                   PROVE  d \in DOMAIN players' /\ players'[d].lastBeat # NoEvent
        OBVIOUS
      <3>1. app = "statusmonitor"
        BY <2>9
      <3>2. d \in DOMAIN players
        BY <1>4, <3>1 DEF PlayersForget
      <3>3. CASE Kind = "beat" /\ onBeat(Handed)
        <4>1. d = h \/ (d \in playing /\ players'[d] = players[d])
          BY <1>4, <3>1, <3>2, <3>3 DEF onBeat
        <4>2. d \in DOMAIN players'
          BY <3>2, <3>3 DEF onBeat
        <4>3. players[d] \in [status : Stored, lastBeat : Stored]
          BY <3>2 DEF PlayersForget
        <4>4. d = h => players'[d].lastBeat = Handed
          BY <3>2, <3>3, <4>3 DEF onBeat
        <4> QED BY <2>1, <4>1, <4>2, <4>4 DEF PlayersForget
      <3>4. CASE Kind # "beat"
        <4>1. d \in playing /\ d # h
          BY <1>4, <3>1, <3>4
        <4>2. d \in DOMAIN players' /\ players'[d] = players[d]
          BY <1>4, <3>1, <3>2, <3>4, <4>1 DEF onDeviceFound, onDeviceLost, onMasterChanged
        <4> QED BY <4>1, <4>2 DEF PlayersForget
      <3> QED BY <1>4, <3>3, <3>4
    <2> QED BY <1>1, <2>2, <2>4, <2>6, <2>7, <2>8, <2>9, <2>10 DEF PlayersForget
  <1> QED BY <1>3, <1>4, MonitorSteps

LEMMA SlotsForgetNext ==
  ASSUME FeedOK, LossType, SlotFields, SlotsForget, app = "comprehensive",
         [AppsNext]_allVars
  PROVE  SlotsForget'
  <1>1. CASE RestStep /\ UNCHANGED slots
    BY <1>1, RestLoss DEF SlotsForget, Since
  <1>2. CASE Listener /\ SlotListener
    <2>1. SUFFICES ASSUME NEW d \in Slots \cap Devices
                   PROVE  /\ Since(slots[d].lastBeat, "beat", d)'
                          /\ Since(slots[d].status, "update", d)'
      BY DEF SlotsForget
    <2>2. Kind \in {"beat", "found", "lost", "update", "master"}
      BY <1>2 DEF SlotListener
    <2>3. /\ \/ slots'[d].lastBeat = NoEvent
             \/ /\ slots'[d].lastBeat = slots[d].lastBeat
                /\ ~ (Kind = "lost" /\ d = Handed.device)
             \/ slots'[d].lastBeat = Handed /\ Kind = "beat"
          /\ \/ slots'[d].status = NoEvent
             \/ slots'[d].status = slots[d].status /\ ~ (Kind = "lost" /\ d = Handed.device)
             \/ slots'[d].status = Handed /\ Kind = "update"
      BY <1>2, <2>2, SlotStepEffect
    <2>4. Since(slots[d].lastBeat, "beat", d) /\ Since(slots[d].status, "update", d)
      BY DEF SlotsForget
    <2>5. Since(slots[d].lastBeat, "beat", d)'
      BY <1>2, <2>3, <2>4, SinceListener DEF Since
    <2>6. Since(slots[d].status, "update", d)'
      BY <1>2, <2>3, <2>4, SinceListener DEF Since
    <2> QED BY <2>5, <2>6
  <1> QED BY <1>1, <1>2, SlotSteps

LEMMA LinesForgetNext ==
  ASSUME FeedOK, LossType, LinesForget, app = "basic", [AppsNext]_allVars
  PROVE  LinesForget'
  <1>1. CASE RestStep /\ UNCHANGED deviceBeats
    BY <1>1, RestLoss DEF LinesForget, Since
  <1>2. CASE Listener /\ Basic
    <2>1. Handed \in FeedEvent /\ Handed.device \in Devices
      BY <1>2, DeliverEffect, EventType DEF Listener
    <2>2. SUFFICES ASSUME NEW d \in DOMAIN deviceBeats'
                   PROVE  d \in Devices /\ Since(deviceBeats[d], "beat", d)'
      BY DEF LinesForget
    <2>3. \/ /\ d \in DOMAIN deviceBeats /\ deviceBeats'[d] = deviceBeats[d]
             /\ ~ (Kind = "lost" /\ d = Handed.device)
          \/ d = Handed.device /\ deviceBeats'[d] = Handed /\ Kind = "beat"
      BY <1>2, <2>2 DEF Basic
    <2>4. d \in Devices
      BY <2>1, <2>3 DEF LinesForget
    <2>5. d \in DOMAIN deviceBeats => Since(deviceBeats[d], "beat", d)
      BY DEF LinesForget
    <2>6. Since(deviceBeats[d], "beat", d)'
      BY <1>2, <2>3, <2>4, <2>5, SinceListener DEF Since
    <2> QED BY <2>4, <2>6
  <1> QED BY <1>1, <1>2, BasicSteps

LEMMA ForgetNext ==
  ASSUME FeedOK, SlotFields, ForgetOK, [AppsNext]_allVars
  PROVE  ForgetOK'
  <1>1. LossType'
    BY StepIsFeedStep, LossNext DEF ForgetOK
  <1>2. app' = app
    BY OtherSteps
  <1>3. CASE app \in Monitors
    BY <1>1, <1>2, <1>3, PlayersNext, Apart DEF ForgetOK
  <1>4. CASE app \notin Monitors
    <2>1. playing' = {} /\ currentMaster' = NoMaster
      BY <1>4, OtherSteps DEF ForgetOK
    <2>2. app = "comprehensive" => SlotsForget'
      BY SlotsForgetNext DEF ForgetOK
    <2>3. app = "basic" => LinesForget'
      BY LinesForgetNext DEF ForgetOK
    <2> QED BY <1>1, <1>2, <1>4, <2>1, <2>2, <2>3 DEF ForgetOK
  <1> QED BY <1>3, <1>4

LEMMA ForgetInit == AppsInit => ForgetOK
  <1> SUFFICES ASSUME AppsInit PROVE ForgetOK
    OBVIOUS
  <1>1. LossType
    <2>1. /\ \A k \in {"beat", "update", "master"} : k \in Kinds /\ NoLoss[k] = 0
          /\ NoLoss \in [{"beat", "update", "master"} -> Nat]
      BY DEF NoLoss, Kinds
    <2> QED BY <2>1 DEF AppsInit, DeviceAppInit, Init, LossType
  <1>2. PlayersForget /\ playing = {} /\ currentMaster = NoMaster
    BY DEF AppsInit, MonitorInit, PlayersForget
  <1>3. SlotsForget
    BY DEF AppsInit, SlotInit, EmptySlot, SlotsForget, Since
  <1>4. LinesForget
    <2>1. deviceBeats = <<>>
      BY DEF AppsInit, ListInit
    <2> QED BY <2>1 DEF LinesForget
  <1> QED BY <1>1, <1>2, <1>3, <1>4 DEF ForgetOK

-----------------------------------------------------------------------------
(***************************************************************************)
(* Remainders and sequences.                                               *)
(***************************************************************************)

\* The remainder, and that it is the only one.
LEMMA RemainderOf ==
  ASSUME NEW L \in Nat \ {0}, NEW a \in Int
  PROVE  a % L \in 0 .. L - 1 /\ \E q \in Int : a = q * L + (a % L)
  <1>1. a % L \in 0 .. L - 1
    OBVIOUS
  <1>2. a = (a \div L) * L + (a % L)
    OBVIOUS
  <1>3. a \div L \in Int
    OBVIOUS
  <1> QED BY <1>1, <1>2, <1>3

LEMMA RemainderIs ==
  ASSUME NEW L \in Nat \ {0}, NEW q \in Int, NEW r \in 0 .. L - 1, NEW a \in Int,
         a = q * L + r
  PROVE  a % L = r
  OBVIOUS

LEMMA RemainderOfRemainder ==
  ASSUME NEW L \in Nat \ {0}, NEW a \in Int
  PROVE  (a % L) % L = a % L
  <1> DEFINE r == a % L
  <1>1. r \in 0 .. L - 1
    BY RemainderOf
  <1> HIDE DEF r
  <1>2. r = 0 * L + r /\ r \in Int
    BY <1>1
  <1>3. r % L = r
    BY <1>1, <1>2, RemainderIs
  <1> QED BY <1>3 DEF r

LEMMA RemainderOfSum ==
  ASSUME NEW L \in Nat \ {0}, NEW a \in Int, NEW b \in Int
  PROVE  ((a % L) + b) % L = (a + b) % L
  <1>1. PICK q \in Int : a = q * L + (a % L)
    BY RemainderOf
  <1> DEFINE c == (a % L) + b
  <1>2. a % L \in Int /\ c \in Int
    BY RemainderOf
  <1>3. PICK p \in Int : c = p * L + (c % L)
    BY <1>2, RemainderOf
  <1>4. c % L \in 0 .. L - 1
    BY <1>2, RemainderOf
  <1>5. a + b = q * L + c
    BY <1>1, <1>2
  <1> HIDE DEF c
  <1>6. a + b = (q + p) * L + (c % L)
    <2>1. q * L + p * L = (q + p) * L
      OBVIOUS
    <2>2. q * L \in Int /\ p * L \in Int
      OBVIOUS
    <2> QED BY <1>2, <1>3, <1>4, <1>5, <2>1, <2>2
  <1> DEFINE k == q + p
             s == a + b
             r == c % L
  <1>7. k \in Int /\ s \in Int /\ r \in 0 .. L - 1 /\ s = k * L + r
    BY <1>4, <1>6
  <1> HIDE DEF k, s, r
  <1>8. s % L = r
    BY <1>7, RemainderIs
  <1> QED BY <1>8 DEF c, s, r

LEMMA RemainderOfDifference ==
  ASSUME NEW L \in Nat \ {0}, NEW a \in Int, NEW n \in Int
  PROVE  (a - n * L) % L = a % L
  <1>1. PICK q \in Int : a = q * L + (a % L)
    BY RemainderOf
  <1>2. a % L \in 0 .. L - 1
    BY RemainderOf
  <1>3. q * L - n * L = (q - n) * L /\ q * L \in Int /\ n * L \in Int
    OBVIOUS
  <1>4. a - n * L = (q - n) * L + (a % L)
    BY <1>1, <1>2, <1>3
  <1> DEFINE k == q - n
             d == a - n * L
             r == a % L
  <1>5. k \in Int /\ d \in Int /\ r \in 0 .. L - 1 /\ d = k * L + r
    BY <1>2, <1>3, <1>4
  <1> HIDE DEF k, d, r
  <1>6. d % L = r
    BY <1>5, RemainderIs
  <1> QED BY <1>6 DEF d, r

\* The last of a bounded history to which e was appended.
LEMMA RecentLast ==
  ASSUME NEW h \in Seq(FeedEvent), NEW e \in FeedEvent, NEW n \in Nat \ {0}
  PROVE  /\ Recent(Append(h, e), n) \in Seq(FeedEvent)
         /\ Recent(Append(h, e), n) # <<>>
         /\ Last(Recent(Append(h, e), n)) = e
  <1> DEFINE s == Append(h, e)
             m == Len(h) + 1
  <1>1. s \in Seq(FeedEvent) /\ Len(s) = m /\ s[m] = e /\ m \in Nat \ {0}
    OBVIOUS
  <1> HIDE DEF s, m
  <1>2. CASE m > n
    <2> DEFINE r == SubSeq(s, m - n + 1, m)
    <2>1. /\ m - n + 1 \in 1 .. m
          /\ \A i \in m - n + 1 .. m : s[i] \in FeedEvent
      BY <1>1, <1>2
    <2>2. /\ r \in Seq(FeedEvent)
          /\ Len(r) = IF m - n + 1 <= m THEN m - (m - n + 1) + 1 ELSE 0
          /\ \A i \in 1 .. m - (m - n + 1) + 1 : r[i] = s[(m - n + 1) + i - 1]
      BY <1>1, <2>1, SubSeqProperties
    <2>3. /\ Len(r) = n /\ m - (m - n + 1) + 1 = n /\ n \in 1 .. n
          /\ (m - n + 1) + n - 1 = m
      BY <1>1, <1>2, <2>2
    <2>4. r[n] = e
      BY <1>1, <2>2, <2>3
    <2>5. Recent(s, n) = r
      BY <1>1, <1>2 DEF Recent
    <2> HIDE DEF r
    <2>6. r # <<>>
      BY <2>2, <2>3
    <2> QED BY <2>2, <2>3, <2>4, <2>5, <2>6 DEF Last, s
  <1>3. CASE ~ m > n
    <2>1. Recent(s, n) = s
      BY <1>1, <1>3 DEF Recent
    <2> QED BY <1>1, <2>1 DEF Last, s
  <1> QED BY <1>2, <1>3

\* An entry in front of a bounded log.
LEMMA LoggedEntries ==
  ASSUME NEW S, oscLog \in Seq(S), NEW e \in S
  PROVE  /\ Logged(e) \in Seq(S) /\ Len(Logged(e)) > 0 /\ Logged(e)[1] = e
         /\ \A i \in 1 .. Len(Logged(e)) :
               i # 1 => i - 1 \in 1 .. Len(oscLog) /\ Logged(e)[i] = oscLog[i - 1]
  <1> DEFINE log == <<e>> \o oscLog
             n == Len(oscLog) + 1
  <1>1. /\ n \in Nat \ {0} /\ log \in Seq(S) /\ Len(log) = n /\ log[1] = e
        /\ \A i \in 1 .. n : i # 1 => i - 1 \in 1 .. Len(oscLog) /\ log[i] = oscLog[i - 1]
    <2>1. <<e>> \in Seq(S) /\ Len(<<e>>) = 1 /\ <<e>>[1] = e
      OBVIOUS
    <2>2. /\ log \in Seq(S) /\ Len(log) = 1 + Len(oscLog)
          /\ \A i \in 1 .. Len(log) : log[i] = IF i <= 1 THEN <<e>>[i] ELSE oscLog[i - 1]
      BY <2>1, ConcatProperties
    <2>3. Len(oscLog) \in Nat
      OBVIOUS
    <2> HIDE DEF log
    <2>4. n \in Nat \ {0} /\ Len(log) = n /\ 1 \in 1 .. Len(log)
      BY <2>2, <2>3
    <2>5. log[1] = e
      BY <2>1, <2>2, <2>4
    <2>6. ASSUME NEW i \in 1 .. n, i # 1
          PROVE  i - 1 \in 1 .. Len(oscLog) /\ log[i] = oscLog[i - 1]
      <3>1. ~ i <= 1 /\ i - 1 \in 1 .. Len(oscLog)
        BY <2>3, <2>6
      <3> QED BY <2>2, <2>4, <3>1
    <2> QED BY <2>2, <2>4, <2>5, <2>6
  <1> HIDE DEF log, n
  <1>2. CASE n > MaxOscLog
    <2>1. /\ Logged(e) = SubSeq(log, 1, n - 1) /\ n - 1 \in Nat \ {0}
      BY <1>1, <1>2, CountersAssumption DEF Logged, Front, log
    <2>2. /\ Logged(e) \in Seq(S) /\ Len(Logged(e)) = n - 1
          /\ \A i \in 1 .. n - 1 : Logged(e)[i] = log[i]
      BY <1>1, <2>1, SubSeqProperties
    <2> QED BY <1>1, <2>1, <2>2
  <1>3. CASE ~ n > MaxOscLog
    <2>1. Logged(e) = log
      BY <1>1, <1>3 DEF Logged, log
    <2> QED BY <1>1, <2>1
  <1> QED BY <1>2, <1>3

-----------------------------------------------------------------------------
(***************************************************************************)
(* Beats: the one that is cached and the ones that displays keep.          *)
(***************************************************************************)

\* A step that delivers no beat leaves the last one delivered what it was; if
\* all are delivered after it, they were before and the cache is the same.
SameBeats ==
    /\ delivered'["beat"] = delivered["beat"]
    /\ Quiet("beat")' => Quiet("beat") /\ lastBeat' = lastBeat

LEMMA BeatInit == AppsInit => BeatOK
  <1> SUFFICES ASSUME AppsInit PROVE BeatOK OBVIOUS
  <1>1. lastBeat = NoEvent /\ pending["beat"] = <<>> /\ delivered["beat"] = 0
    BY DEF AppsInit, DeviceAppInit, Init, Kinds
  <1>2. ~ Coming("beat")
    BY DEF AppsInit, DeviceAppInit, Init, Coming
  <1>3. NoEvent.id = 0 /\ Len(<<>>) = 0
    BY DEF NoEvent
  <1> QED BY <1>1, <1>2, <1>3 DEF BeatOK, Made

LEMMA BeatType ==
  ASSUME FeedOK
  PROVE  /\ "beat" \in Kinds /\ "beat" \in DOMAIN coming
         /\ delivered["beat"] \in Nat /\ pending["beat"] \in Seq(FeedEvent)
         /\ Len(pending["beat"]) \in Nat
  BY DEF FeedOK, Kinds

LEMMA SameQueue ==
  ASSUME FeedOK, BeatOK, pending'["beat"] = pending["beat"],
         coming'["beat"] = coming["beat"], DOMAIN coming' = DOMAIN coming,
         delivered'["beat"] = delivered["beat"], lastBeat' = lastBeat
  PROVE  BeatOK' /\ SameBeats
  <1>1. Coming("beat")' <=> Coming("beat")
    BY BeatType DEF Coming
  <1>2. Made("beat")' = Made("beat")
    BY <1>1 DEF Made
  <1>3. BeatOK'
    BY <1>1, <1>2 DEF BeatOK
  <1>4. Quiet("beat")' <=> Quiet("beat")
    BY <1>1 DEF Quiet
  <1> QED BY <1>3, <1>4 DEF SameBeats

LEMMA BeatRest ==
  ASSUME FeedOK, BeatOK, RestStep
  PROVE  BeatOK' /\ SameBeats
  <1>1. CASE \E d \in Devices : OnBeat(d)
    <2>1. PICK d \in Devices : OnBeat(d)
      BY <1>1
    <2>2. ~ Coming("beat") /\ Enter("beat", d) /\ lastBeat' = New("beat", d)
      BY <2>1 DEF OnBeat
    <2>3. /\ coming'["beat"] \in FeedEvent
          /\ coming'["beat"].id = delivered["beat"] + Len(pending["beat"]) + 1
          /\ UNCHANGED <<pending, delivered>>
          /\ coming' \in [{"beat", "found", "lost"} -> FeedEvent \cup {NoEvent}]
      BY <2>2, EnterEffect
    <2>4. coming'["beat"] = lastBeat'
      BY <2>2, BeatType DEF Enter
    <2>5. Coming("beat")'
      BY <2>3, EventType DEF Coming
    <2>6. Made("beat")' = delivered["beat"] + Len(pending["beat"]) + 1
      BY <2>3, <2>5 DEF Made
    <2> QED BY <2>3, <2>4, <2>5, <2>6 DEF BeatOK, SameBeats, Quiet
  <1>2. CASE \E d \in Devices : OnDeviceFound(d) \/ OnDeviceLost(d)
    <2>1. /\ UNCHANGED <<pending, delivered, lastBeat>>
          /\ coming'["beat"] = coming["beat"] /\ DOMAIN coming' = DOMAIN coming
      BY <1>2, BeatType DEF OnDeviceFound, OnDeviceLost, Enter
    <2> QED BY <2>1, SameQueue
  <1>3. CASE \E k \in Kinds : Publish(k) \/ \E d \in Devices : Notify(k, d)
    <2>1. PICK k \in Kinds : Publish(k) \/ \E d \in Devices : Notify(k, d)
      BY <1>3
    <2>2. lastBeat' = lastBeat
      BY <2>1 DEF Publish, Notify
    <2>3. PICK e \in FeedEvent :
            /\ pending'[k] = Append(pending[k], e)
            /\ \A k2 \in Kinds \ {k} : pending'[k2] = pending[k2]
            /\ delivered' = delivered
            /\ \/ k \in {"update", "master"} /\ UNCHANGED coming
               \/ /\ k \in {"beat", "found", "lost"} /\ Coming(k) /\ coming[k] = e
                  /\ coming' = [coming EXCEPT ![k] = NoEvent]
      BY <2>1, PushEffect
    <2>4. CASE k # "beat"
      <3>1. /\ pending'["beat"] = pending["beat"]
            /\ coming'["beat"] = coming["beat"] /\ DOMAIN coming' = DOMAIN coming
        BY <2>3, <2>4, BeatType
      <3> QED BY <2>2, <2>3, <3>1, SameQueue
    <2>5. CASE k = "beat"
      <3>1. Coming("beat") /\ coming["beat"] = e /\ ~ Coming("beat")'
        BY <2>3, <2>5, BeatType DEF Coming
      <3>2. /\ Len(pending'["beat"]) = Len(pending["beat"]) + 1
            /\ pending'["beat"][Len(pending["beat"]) + 1] = e
        BY <2>3, <2>5, BeatType
      <3>3. Made("beat")' = delivered["beat"] + (Len(pending["beat"]) + 1)
        BY <2>3, <3>1, <3>2, BeatType DEF Made
      <3>4. Made("beat") = delivered["beat"] + Len(pending["beat"]) + 1
        BY <3>1 DEF Made
      <3>5. Made("beat")' = Made("beat") /\ Len(pending'["beat"]) > 0
        <4> DEFINE n == Len(pending["beat"])
                   m == Len(pending'["beat"])
                   a == delivered["beat"]
        <4>1. n \in Nat /\ m = n + 1 /\ a \in Nat
          BY <3>2, BeatType
        <4> HIDE DEF n, m, a
        <4>2. m > 0 /\ a + (n + 1) = a + n + 1
          BY <4>1
        <4> QED BY <3>3, <3>4, <4>2 DEF n, m, a
      <3>9. pending'["beat"] # <<>>
        BY <3>5
      <3>6. pending'["beat"][Len(pending'["beat"])] = lastBeat
        BY <3>1, <3>2 DEF BeatOK
      <3>7. BeatOK'
        BY <2>2, <3>1, <3>5, <3>6, <3>9 DEF BeatOK
      <3>8. SameBeats
        BY <2>3, <3>9 DEF SameBeats, Quiet
      <3> QED BY <3>7, <3>8
    <2> QED BY <2>4, <2>5
  <1>4. CASE Update \/ Take \/ Finish
    <2>1. UNCHANGED <<lastBeat, coming, pending, delivered>>
      BY <1>4 DEF Update, Take, Finish
    <2> QED BY <2>1, SameQueue
  <1>5. CASE UNCHANGED feedVars
    <2>1. UNCHANGED <<lastBeat, coming, pending, delivered>>
      BY <1>5 DEF feedVars
    <2> QED BY <2>1, SameQueue
  <1>6. \A d \in Devices, k \in {"update", "master"} : Notify(k, d) => k \in Kinds
    BY DEF Kinds
  <1> QED BY <1>1, <1>2, <1>3, <1>4, <1>5, <1>6, AroundSteps DEF RestStep

LEMMA BeatListener ==
  ASSUME FeedOK, BeatOK, Listener
  PROVE  /\ BeatOK'
         /\ Kind # "beat" => SameBeats
         /\ Kind = "beat" => /\ Handed \in FeedEvent /\ Handed.id = delivered'["beat"]
                             /\ Quiet("beat")' => Handed = lastBeat'
  <1>1. Deliver /\ lastBeat' = lastBeat /\ coming' = coming
    BY DEF Listener, Deliver
  <1>2. CASE Kind # "beat"
    <2>1. pending'["beat"] = pending["beat"] /\ delivered'["beat"] = delivered["beat"]
      BY <1>1, <1>2, DeliverEffect, BeatType
    <2> QED BY <1>1, <1>2, <2>1, SameQueue
  <1>3. CASE Kind = "beat"
    <2> DEFINE q == pending["beat"]
               n == Len(q)
    <2>1. /\ Handed \in FeedEvent /\ Handed.id = delivered["beat"] + 1
          /\ n > 0 /\ Handed = q[1]
          /\ delivered'["beat"] = delivered["beat"] + 1
          /\ Len(pending'["beat"]) = n - 1
          /\ \A i \in 1 .. Len(pending'["beat"]) : pending'["beat"][i] = q[i + 1]
          /\ pending'["beat"] \in Seq(FeedEvent)
      BY <1>1, <1>3, DeliverEffect, BeatType
    <2>2. n \in Nat /\ delivered["beat"] \in Nat
      BY BeatType
    <2>3. Coming("beat")' <=> Coming("beat")
      BY <1>1 DEF Coming
    <2>4. Made("beat")' = Made("beat")
      <3>1. (delivered["beat"] + 1) + (n - 1) = delivered["beat"] + n
        BY <2>2
      <3> QED BY <2>1, <2>3, <3>1 DEF Made
    <2>5. ASSUME ~ Coming("beat"), pending'["beat"] # <<>>
          PROVE  pending'["beat"][Len(pending'["beat"])] = lastBeat
      <3>1. n - 1 \in 1 .. n - 1
        BY <2>1, <2>2, <2>5
      <3>2. pending'["beat"][n - 1] = q[(n - 1) + 1]
        BY <2>1, <3>1
      <3>3. (n - 1) + 1 = n /\ q # <<>>
        BY <2>1, <2>2
      <3>4. pending'["beat"][n - 1] = q[n]
        BY <3>2, <3>3
      <3>5. q[n] = lastBeat
        BY <2>5, <3>3 DEF BeatOK
      <3> QED BY <2>1, <3>4, <3>5
    <2>6. BeatOK'
      BY <1>1, <2>3, <2>4, <2>5 DEF BeatOK
    <2>7. ASSUME Quiet("beat")' PROVE Handed = lastBeat'
      <3>1. ~ Coming("beat") /\ Len(pending'["beat"]) = 0
        BY <2>3, <2>7 DEF Quiet
      <3> DEFINE m == Len(pending'["beat"])
      <3>5. m = 0 /\ m = n - 1
        BY <2>1, <3>1
      <3> HIDE DEF n, m
      <3>2. n = 1
        BY <2>2, <3>5
      <3> USE DEF n
      <3>4. q # <<>>
        BY <3>2, BeatType
      <3>3. q[n] = lastBeat
        BY <3>1, <3>4 DEF BeatOK
      <3> QED BY <1>1, <2>1, <3>2, <3>3
    <2> QED BY <1>3, <2>1, <2>6, <2>7
  <1> QED BY <1>2, <1>3

LEMMA BeatNext == FeedOK /\ BeatOK /\ FeedStep => BeatOK'
  BY BeatRest, BeatListener DEF FeedStep

\* What was kept stays so, unless a beat is delivered.
LEMMA KeptStays ==
  ASSUME SameBeats
  PROVE  \A e : Kept(e) => e.id = delivered'["beat"] /\ (Quiet("beat")' => e = lastBeat')
  BY DEF SameBeats, Kept

\* The steps of the applications that keep a beat.
LEMMA KeepSteps ==
  ASSUME app \in {"beatsync", "metronome", "bpm-display", "osc", "timeline"},
         [AppsNext]_allVars
  PROVE  \/ RestStep /\ UNCHANGED <<latestBeat, currentBpm, oscLog, beatHistory, bpmHistory>>
         \/ /\ Listener
            /\ app \in {"beatsync", "metronome", "bpm-display"} => KeepBeat
            /\ app = "bpm-display" =>
                  currentBpm' = IF Kind = "beat" THEN Handed ELSE currentBpm
            /\ app = "osc" => oscLog' = Logged([address |-> Kind, event |-> Handed])
            /\ app = "timeline" => Timeline
         \/ /\ app = "bpm-display" /\ RestStep /\ UNCHANGED <<feedVars, latestBeat>>
            /\ currentBpm' = IF lastBeat = NoEvent THEN currentBpm ELSE lastBeat
         \/ app = "timeline" /\ RestStep /\ beatHistory' = <<>> /\ bpmHistory' = <<>>
  <1>1. CASE Around /\ UNCHANGED appVars
    BY <1>1 DEF RestStep, appVars, counterVars, oscVars, listVars
  <1>2. CASE MonitorStep \/ WaveformStep \/ SlotStep \/ BridgeStep
    BY <1>2 DEF MonitorStep, VirtualCdjMonitor, CdjStatus, StatusMonitor, MultiDevice,
       Monitors, KeyVirtualCdj, ToggleVirtualCdj, WaveformStep, SlotStep, BridgeStep
  <1>3. CASE CounterStep /\ UNCHANGED listVars
    <2>1. app # "timeline"
      BY <1>3 DEF CounterStep, Osc, BeatSync, Metronome, BpmDisplay, AskBeat, OscRate
    <2>2. CASE Listener /\ (Osc \/ BeatSync \/ Metronome \/ BpmDisplay)
      BY <2>1, <2>2 DEF Osc, BeatSync, Metronome, BpmDisplay
    <2>3. CASE AskBeat
      BY <2>3 DEF AskBeat, EndFrame, RestStep
    <2>4. CASE OscRate
      BY <1>3, <2>4 DEF OscRate, EndFrame, RestStep, listVars
    <2>5. CASE EndFrame /\ UNCHANGED counterVars
      BY <1>3, <2>5 DEF EndFrame, RestStep, counterVars, oscVars, listVars
    <2> QED BY <1>3, <2>2, <2>3, <2>4, <2>5 DEF CounterStep
  <1>4. CASE ListStep /\ UNCHANGED counterVars
    <2>1. app \in {"basic", "timeline"}
      BY <1>4 DEF ListStep, Basic, Timeline, Refresh, Clear
    <2>2. CASE Listener /\ (Basic \/ Timeline)
      BY <2>1, <2>2 DEF Basic
    <2>3. CASE EndFrame /\ UNCHANGED listVars
      BY <1>4, <2>3 DEF EndFrame, RestStep, listVars, counterVars, oscVars
    <2>4. CASE Refresh
      BY <2>4 DEF Refresh
    <2>5. CASE Clear
      BY <2>5 DEF Clear, Key, RestStep
    <2> QED BY <1>4, <2>2, <2>3, <2>4, <2>5 DEF ListStep
  <1>5. CASE UNCHANGED allVars
    BY <1>5 DEF allVars, deviceVars, appVars, counterVars, oscVars, listVars, RestStep
  <1> QED BY <1>1, <1>2, <1>3, <1>4, <1>5 DEF AppsNext

\* The latest beat of beatsync, metronome and bpm-display, and the tempo that
\* bpm-display asks for.
LEMMA LatestBeatNext ==
  ASSUME FeedOK, BeatOK, app \in {"beatsync", "metronome", "bpm-display"},
         Kept(latestBeat), [AppsNext]_allVars
  PROVE  Kept(latestBeat)'
  <1>1. CASE RestStep /\ latestBeat' = latestBeat
    BY <1>1, BeatRest, KeptStays DEF Kept
  <1>2. CASE Listener /\ KeepBeat /\ Kind = "beat"
    BY <1>2, BeatListener DEF Kept, KeepBeat
  <1>3. CASE Listener /\ KeepBeat /\ Kind # "beat"
    BY <1>3, BeatListener, KeptStays DEF Kept, KeepBeat
  <1> QED BY <1>1, <1>2, <1>3, KeepSteps

LEMMA TempoNext ==
  ASSUME FeedOK, BeatOK, app = "bpm-display", Kept(latestBeat),
         currentBpm \in FeedEvent \cup {NoEvent}, latestBeat.id <= currentBpm.id,
         [AppsNext]_allVars
  PROVE  currentBpm' \in FeedEvent \cup {NoEvent} /\ latestBeat'.id <= currentBpm'.id
  <1>1. NoEvent.id = 0
    BY DEF NoEvent
  <1>2. latestBeat.id \in Nat /\ delivered["beat"] \in Nat /\ currentBpm.id \in Nat
    BY <1>1, BeatType, EventType DEF Kept
  <1>3. CASE RestStep /\ UNCHANGED <<latestBeat, currentBpm>>
    BY <1>3
  <1>4. CASE Listener /\ KeepBeat /\ currentBpm' = IF Kind = "beat" THEN Handed ELSE currentBpm
    <2>1. CASE Kind = "beat"
      <3>1. latestBeat' = Handed /\ currentBpm' = Handed
        BY <1>4, <2>1 DEF KeepBeat
      <3>2. Handed \in FeedEvent /\ Handed.id \in Nat
        BY <1>4, <2>1, BeatListener, EventType
      <3> QED BY <3>1, <3>2
    <2>2. CASE Kind # "beat"
      BY <1>4, <2>2 DEF KeepBeat
    <2> QED BY <2>1, <2>2
  <1>5. CASE /\ latestBeat' = latestBeat
             /\ currentBpm' = IF lastBeat = NoEvent THEN currentBpm ELSE lastBeat
    <2>1. delivered["beat"] <= Made("beat")
      <3>1. CASE Coming("beat")
        BY <3>1, <1>2, BeatType DEF Made
      <3>2. CASE ~ Coming("beat")
        BY <3>2, <1>2, BeatType DEF Made
      <3> QED BY <3>1, <3>2
    <2>2. latestBeat.id <= lastBeat.id /\ lastBeat \in FeedEvent \cup {NoEvent}
      BY <2>1 DEF BeatOK, Kept
    <2>3. CASE lastBeat = NoEvent
      BY <1>5, <2>3
    <2>4. CASE lastBeat # NoEvent
      BY <1>5, <2>2, <2>4
    <2> QED BY <2>3, <2>4
  <1> QED BY <1>3, <1>4, <1>5, KeepSteps

LEMMA HistoriesNext ==
  ASSUME FeedOK, BeatOK, app = "timeline", HistoriesKeep, [AppsNext]_allVars
  PROVE  HistoriesKeep'
  <1>1. ASSUME SameBeats, UNCHANGED <<beatHistory, bpmHistory>> PROVE HistoriesKeep'
    BY <1>1, KeptStays DEF HistoriesKeep, Kept
  <1>2. CASE RestStep /\ UNCHANGED <<beatHistory, bpmHistory>>
    BY <1>1, <1>2, BeatRest
  <1>3. CASE beatHistory' = <<>> /\ bpmHistory' = <<>>
    BY <1>3 DEF HistoriesKeep
  <1>4. CASE Listener /\ Timeline
    <2>1. CASE Kind # "beat"
      BY <1>1, <1>4, <2>1, BeatListener DEF Timeline
    <2>2. CASE Kind = "beat"
      <3>1. /\ beatHistory' = Recent(Append(beatHistory, Handed), MaxHistory)
            /\ bpmHistory' = Recent(Append(bpmHistory, Handed), MaxBpmSamples)
        BY <1>4, <2>2 DEF Timeline
      <3>2. /\ Handed \in FeedEvent /\ Handed.id = delivered'["beat"]
            /\ Quiet("beat")' => Handed = lastBeat'
        BY <1>4, <2>2, BeatListener
      <3>3. MaxHistory \in Nat \ {0} /\ MaxBpmSamples \in Nat \ {0}
        BY ListsAssumption
      <3>4. /\ beatHistory' \in Seq(FeedEvent) /\ beatHistory' # <<>>
            /\ Last(beatHistory') = Handed
            /\ bpmHistory' \in Seq(FeedEvent) /\ bpmHistory' # <<>>
            /\ Last(bpmHistory') = Handed
        BY <3>1, <3>2, <3>3, RecentLast DEF HistoriesKeep
      <3> QED BY <3>2, <3>4 DEF HistoriesKeep, Kept
    <2> QED BY <2>1, <2>2
  <1> QED BY <1>2, <1>3, <1>4, KeepSteps

LEMMA SlotsKeepNext ==
  ASSUME FeedOK, BeatOK, SlotFields, app = "comprehensive", SlotsKeep, [AppsNext]_allVars
  PROVE  SlotsKeep'
  <1>1. ASSUME SameBeats, \A d \in Slots : slots'[d].beatHistory = slots[d].beatHistory
        PROVE  SlotsKeep'
    BY <1>1 DEF SlotsKeep, SameBeats
  <1>2. CASE RestStep /\ UNCHANGED slots
    BY <1>1, <1>2, BeatRest
  <1>3. CASE Listener /\ SlotListener /\ Kind # "beat"
    <2>1. Kind \in {"found", "lost", "update", "master"}
      BY <1>3 DEF SlotListener
    <2>2. \A d \in Slots : slots'[d].beatHistory = slots[d].beatHistory
      BY <1>3, <2>1, SlotStepEffect
    <2> QED BY <1>1, <1>3, <2>2, BeatListener
  <1>4. CASE Listener /\ SlotListener /\ Kind = "beat"
    <2>1. Handed \in FeedEvent /\ (Quiet("beat")' => Handed = lastBeat')
      BY <1>4, BeatListener
    <2>2. \A d \in Slots : slots'[d].beatHistory =
             IF d = Handed.device
             THEN Recent(Append(slots[d].beatHistory, Handed), MaxBeatHistory)
             ELSE slots[d].beatHistory
      BY <1>4, SlotStepEffect
    <2>3. \A d \in Slots :
             LET h == Recent(Append(slots[d].beatHistory, Handed), MaxBeatHistory)
             IN  h \in Seq(FeedEvent) /\ h # <<>> /\ Last(h) = Handed
      <3> SUFFICES ASSUME NEW d \in Slots
                   PROVE  LET h == Recent(Append(slots[d].beatHistory, Handed), MaxBeatHistory)
                          IN  h \in Seq(FeedEvent) /\ h # <<>> /\ Last(h) = Handed
        OBVIOUS
      <3> DEFINE f == slots[d].beatHistory
                 e == Handed
                 n == MaxBeatHistory
      <3>1. f \in Seq(FeedEvent) /\ n \in Nat \ {0} /\ e \in FeedEvent
        BY <2>1 DEF SlotsKeep
      <3> HIDE DEF f, e, n
      <3>2. /\ Recent(Append(f, e), n) \in Seq(FeedEvent)
            /\ Recent(Append(f, e), n) # <<>>
            /\ Last(Recent(Append(f, e), n)) = e
        BY <3>1, RecentLast
      <3> QED BY <3>2 DEF f, e, n
    <2>4. \A d \in Slots : slots'[d].beatHistory \in Seq(FeedEvent)
      BY <2>2, <2>3 DEF SlotsKeep
    <2>5. ASSUME Quiet("beat")', lastBeat'.device \in Slots
          PROVE  LET h == slots'[lastBeat'.device].beatHistory
                 IN  h # <<>> /\ Last(h) = lastBeat'
      BY <2>1, <2>2, <2>3, <2>5
    <2> QED BY <2>4, <2>5 DEF SlotsKeep
  <1> QED BY <1>2, <1>3, <1>4, SlotSteps

LEMMA LogNext ==
  ASSUME FeedOK, BeatOK, app = "osc", LogKeeps, [AppsNext]_allVars
  PROVE  LogKeeps'
  <1>1. CASE RestStep /\ UNCHANGED oscLog
    <2>1. SameBeats
      BY <1>1, BeatRest
    <2> QED BY <1>1, <2>1, KeptStays DEF LogKeeps, NewestBeat, Kept
  <1>2. CASE Listener /\ oscLog' = Logged([address |-> Kind, event |-> Handed])
    <2> DEFINE e == [address |-> Kind, event |-> Handed]
    <2>1. oscLog \in Seq(LogEntry) /\ e \in LogEntry /\ oscLog' = Logged(e)
      BY <1>2, DeliverEffect DEF LogKeeps, LogEntry, Listener
    <2>2. e.address = Kind /\ e.event = Handed
      OBVIOUS
    <2> HIDE DEF e
    <2>3. /\ oscLog' \in Seq(LogEntry) /\ Len(oscLog') > 0 /\ oscLog'[1] = e
          /\ \A i \in 1 .. Len(oscLog') :
                i # 1 => i - 1 \in 1 .. Len(oscLog) /\ oscLog'[i] = oscLog[i - 1]
      BY <2>1, LoggedEntries, ZenonT(30)
    <2>4. SUFFICES ASSUME NEW i \in 1 .. Len(oscLog'), NewestBeat(i)'
                   PROVE  Kept(oscLog[i].event)'
      BY <2>3 DEF LogKeeps
    <2>5. \A j \in 1 .. i : oscLog'[j].address = "beat" <=> j = i
      BY <2>4 DEF NewestBeat
    <2>6. Len(oscLog') \in Nat /\ i \in Nat \ {0} /\ i <= Len(oscLog')
      BY <2>3
    <2>7. CASE Kind = "beat"
      <3>1. i = 1
        BY <2>3, <2>2, <2>5, <2>6, <2>7
      <3>2. oscLog'[i].event = Handed
        BY <2>3, <2>2, <3>1
      <3> QED BY <1>2, <2>7, <3>2, BeatListener DEF Kept
    <2>8. CASE Kind # "beat"
      <3>1. i # 1
        BY <2>3, <2>2, <2>5, <2>6, <2>8
      <3>2. i - 1 \in 1 .. Len(oscLog) /\ oscLog'[i] = oscLog[i - 1]
        BY <2>3, <3>1
      <3>3. ASSUME NEW j \in 1 .. i - 1
            PROVE  oscLog[j].address = "beat" <=> j = i - 1
        <4> DEFINE k == j + 1
        <4>1. k \in 1 .. i /\ k # 1 /\ k - 1 = j /\ k \in 1 .. Len(oscLog')
          BY <2>6, <3>3
        <4>2. oscLog'[k] = oscLog[j]
          BY <2>3, <4>1
        <4>3. oscLog'[k].address = "beat" <=> k = i
          BY <2>5, <4>1
        <4>4. k = i <=> j = i - 1
          BY <2>6, <3>3
        <4> QED BY <4>2, <4>3, <4>4
      <3>4. NewestBeat(i - 1)
        BY <3>3 DEF NewestBeat
      <3>5. Kept(oscLog[i - 1].event)
        BY <3>2, <3>4 DEF LogKeeps
      <3>6. SameBeats
        BY <1>2, <2>8, BeatListener
      <3> QED BY <3>2, <3>5, <3>6, KeptStays DEF Kept
    <2> QED BY <2>7, <2>8
  <1> QED BY <1>1, <1>2, KeepSteps

LEMMA BeatsKeptNext ==
  ASSUME FeedOK, BeatOK, SlotFields, BeatsKept, [AppsNext]_allVars
  PROVE  BeatsKept'
  <1>1. app' = app
    BY OtherSteps
  <1>2. app \in {"beatsync", "metronome", "bpm-display"} => Kept(latestBeat)'
    BY LatestBeatNext DEF BeatsKept
  <1>3. app = "bpm-display" => /\ currentBpm' \in FeedEvent \cup {NoEvent}
                               /\ latestBeat'.id <= currentBpm'.id
    BY TempoNext DEF BeatsKept
  <1>4. app = "timeline" => HistoriesKeep'
    BY HistoriesNext DEF BeatsKept
  <1>5. app = "comprehensive" => SlotsKeep'
    BY SlotsKeepNext DEF BeatsKept
  <1>6. app = "osc" => LogKeeps'
    BY LogNext DEF BeatsKept
  <1> QED BY <1>1, <1>2, <1>3, <1>4, <1>5, <1>6 DEF BeatsKept

LEMMA BeatsKeptInit == AppsInit => BeatsKept
  <1> SUFFICES ASSUME AppsInit PROVE BeatsKept
    OBVIOUS
  <1>1. /\ lastBeat = NoEvent /\ delivered["beat"] = 0 /\ NoEvent.id = 0
        /\ latestBeat = NoEvent /\ currentBpm = NoEvent
        /\ beatHistory = <<>> /\ bpmHistory = <<>> /\ slots = [i \in Slots |-> EmptySlot]
        /\ oscLog = <<[address |-> "setup", event |-> NoEvent]>>
    BY DEF AppsInit, DeviceAppInit, Init, Kinds, NoEvent, CounterInit, ListInit, SlotInit
  <1>2. Kept(latestBeat) /\ latestBeat.id <= currentBpm.id
    BY <1>1 DEF Kept
  <1>3. HistoriesKeep
    BY <1>1 DEF HistoriesKeep
  <1>4. SlotsKeep
    <2>1. lastBeat.device \notin Slots
      BY <1>1 DEF NoEvent, Slots
    <2>2. \A d \in Slots : slots[d].beatHistory = <<>>
      BY <1>1 DEF EmptySlot
    <2>4. <<>> \in Seq(FeedEvent)
      OBVIOUS
    <2>3. \A d \in Slots : slots[d].beatHistory \in Seq(FeedEvent)
      BY <2>2, <2>4, Zenon
    <2> QED BY <2>1, <2>3, Zenon DEF SlotsKeep
  <1>5. LogKeeps
    <2> DEFINE e == [address |-> "setup", event |-> NoEvent]
    <2>1. oscLog = <<e>> /\ e \in LogEntry /\ e.address # "beat"
      BY <1>1 DEF LogEntry
    <2> HIDE DEF e
    <2>2. oscLog \in Seq(LogEntry) /\ Len(oscLog) = 1 /\ oscLog[1] = e
      BY <2>1
    <2>3. \A i \in 1 .. Len(oscLog) : ~ NewestBeat(i)
      BY <2>1, <2>2 DEF NewestBeat
    <2> QED BY <2>2, <2>3 DEF LogKeeps
  <1> QED BY <1>1, <1>2, <1>3, <1>4, <1>5 DEF BeatsKept

\* With the beats kept, the property.
LEMMA KeptMatches ==
  ASSUME FeedOK, BeatOK
  PROVE  \A e : Kept(e) => e.id <= lastBeat.id /\ (Quiet("beat") => e = lastBeat)
  <1>1. delivered["beat"] <= Made("beat")
    <2>1. CASE Coming("beat")
      BY <2>1, BeatType DEF Made
    <2>2. CASE ~ Coming("beat")
      BY <2>2, BeatType DEF Made
    <2> QED BY <2>1, <2>2
  <1> QED BY <1>1 DEF BeatOK, Kept
\* (EventsMatchPoll.)
LEMMA PollMatched ==
  ASSUME FeedOK, BeatOK, BeatsKept PROVE EventsMatchPoll
  <1> DEFINE Matches(e) == e.id <= lastBeat.id /\ (Quiet("beat") => e = lastBeat)
  <1>1. \A e : Kept(e) => Matches(e)
    BY KeptMatches
  <1> HIDE DEF Matches
  <1>2. app \in {"beatsync", "metronome", "bpm-display"} => Matches(latestBeat)
    BY <1>1 DEF BeatsKept
  <1>3. app = "timeline" /\ beatHistory # <<>> =>
           Matches(Last(beatHistory)) /\ Matches(Last(bpmHistory))
    BY <1>1 DEF BeatsKept, HistoriesKeep
  <1>4. app = "comprehensive" /\ Quiet("beat") /\ lastBeat.device \in Slots =>
           Last(HistoryOfSlot(lastBeat.device)) = lastBeat
    BY DEF BeatsKept, SlotsKeep, HistoryOfSlot
  <1>5. app = "osc" => \A i \in DOMAIN oscLog : NewestBeat(i) => Matches(oscLog[i].event)
    <2> SUFFICES ASSUME app = "osc", NEW i \in DOMAIN oscLog, NewestBeat(i)
                 PROVE  Matches(oscLog[i].event)
      OBVIOUS
    <2>1. LogKeeps
      BY DEF BeatsKept
    <2>2. i \in 1 .. Len(oscLog)
      BY <2>1 DEF LogKeeps
    <2> QED BY <1>1, <2>1, <2>2 DEF LogKeeps
  <1>6. app = "bpm-display" /\ frame = "idle" => latestBeat.id <= currentBpm.id
    BY DEF BeatsKept
  <1> QED BY <1>2, <1>3, <1>4, <1>5, <1>6 DEF EventsMatchPoll, Matches

-----------------------------------------------------------------------------
(***************************************************************************)
(* The playhead of example-waveform.                                       *)
(***************************************************************************)

LEMMA WaveformType ==
  /\ BarLength \in Nat \ {0} /\ Bars \in Nat \ {0}
  /\ Bars * BarLength \in Nat /\ BarLength <= Bars * BarLength
  /\ Tempi \subseteq 1 .. BarLength
  <1>1. BarLength \in Nat \ {0} /\ Bars \in Nat \ {0} /\ Tempi \subseteq 1 .. BarLength
    BY WaveformAssumption
  <1> DEFINE more == Bars - 1
  <1>2. more \in Nat /\ Bars = more + 1
    BY <1>1
  <1> HIDE DEF more
  <1>3. more * BarLength \in Nat /\ Bars * BarLength = more * BarLength + BarLength
    BY <1>1, <1>2
  <1> QED BY <1>1, <1>3

\* A downbeat moves the playhead to the first bar, at the same phase.
LEMMA DownbeatKeepsPhase ==
  ASSUME NEW p \in 0 .. Bars * BarLength
  PROVE  /\ InFirstBar(p) \in 0 .. Bars * BarLength
         /\ InFirstBar(p) % BarLength = p % BarLength
  <1>1. p \in Int /\ p % BarLength \in 0 .. BarLength - 1
    BY WaveformType, RemainderOf
  <1>2. p % BarLength \in 0 .. Bars * BarLength
    BY <1>1, WaveformType
  <1>3. (p % BarLength) % BarLength = p % BarLength
    BY <1>1, WaveformType, RemainderOfRemainder
  <1> QED BY <1>2, <1>3 DEF InFirstBar

\* A frame moves it on by b, and by whole bars where it wraps.
LEMMA FrameKeepsPhase ==
  ASSUME NEW p \in 0 .. Bars * BarLength, NEW b \in 0 .. BarLength
  PROVE  /\ Wrapped(p + b) \in 0 .. Bars * BarLength
         /\ Wrapped(p + b) % BarLength = ((p % BarLength) + b) % BarLength
  <1> DEFINE n == Bars * BarLength
             s == p + b
  <1>1. n \in Nat /\ BarLength <= n /\ p \in Int /\ b \in Int /\ BarLength \in Nat \ {0}
    BY WaveformType
  <1>2. s \in 0 .. n + BarLength /\ s \in Int /\ Bars \in Int
    BY <1>1, WaveformType
  <1>3. s % BarLength = ((p % BarLength) + b) % BarLength
    BY <1>1, RemainderOfSum
  <1>4. (s - n) % BarLength = s % BarLength
    BY <1>1, <1>2, RemainderOfDifference
  <1> HIDE DEF n, s
  <1>5. CASE s > n
    <2>1. Wrapped(s) = s - n
      BY <1>5 DEF Wrapped, n
    <2>2. s - n \in 0 .. n
      BY <1>1, <1>2, <1>5
    <2> QED BY <1>3, <1>4, <2>1, <2>2 DEF n, s
  <1>6. CASE ~ s > n
    <2>1. Wrapped(s) = s
      BY <1>6 DEF Wrapped, n
    <2>2. s \in 0 .. n
      BY <1>1, <1>2, <1>6
    <2> QED BY <1>3, <2>1, <2>2 DEF n, s
  <1> QED BY <1>5, <1>6

\* The steps of example-waveform.
LEMMA WaveformSteps ==
  ASSUME app = "waveform", [AppsNext]_allVars
  PROVE  \/ UNCHANGED <<players, heads>>
         \/ Kind = "beat" /\ onBeat(Handed) /\ BeatHead(Handed.device)
         \/ /\ Kind = "found" /\ onDeviceFound(Handed)
            /\ heads' = Entered(heads, Handed.device, NewHead)
         \/ /\ Kind = "lost" /\ onDeviceLost(Handed)
            /\ heads' = Erased(heads, Handed.device)
         \/ EndFrame /\ MoveHeads /\ UNCHANGED players
  <1>1. CASE UNCHANGED appVars
    BY <1>1 DEF appVars, monitorVars, waveformVars
  <1>2. CASE WaveformStep
    BY <1>2 DEF WaveformStep, Passive, WaveformListener
  <1>3. CASE MonitorStep \/ SlotStep \/ ListStep \/ CounterStep \/ BridgeStep
    BY <1>3 DEF MonitorStep, VirtualCdjMonitor, CdjStatus, StatusMonitor, MultiDevice,
       Monitors, KeyVirtualCdj, ToggleVirtualCdj, SlotStep, ListStep, Basic, Timeline, Refresh,
       Clear, CounterStep, Osc, BeatSync, Metronome, BpmDisplay, AskBeat, OscRate, BridgeStep
  <1>4. CASE UNCHANGED allVars
    BY <1>4 DEF allVars, appVars, monitorVars, waveformVars
  <1> QED BY <1>1, <1>2, <1>3, <1>4 DEF AppsNext

\* A beat leaves each playhead at its place in the bar.
LEMMA BeatOfHead ==
  ASSUME NEW h, BeatHead(h), \A d \in DOMAIN heads : heads[d] \in Playhead
  PROVE  /\ DOMAIN heads' = DOMAIN heads
         /\ \A d \in DOMAIN heads :
               /\ heads'[d] \in Playhead
               /\ heads'[d].position % BarLength = heads[d].position % BarLength
  <1>1. CASE h \notin DOMAIN heads
    BY <1>1 DEF BeatHead
  <1>2. CASE h \in DOMAIN heads
    <2>1. PICK bpm \in Tempi, downbeat \in BOOLEAN :
             heads' = [heads EXCEPT ![h] =
                         [position |-> IF downbeat THEN InFirstBar(@.position)
                                                   ELSE @.position,
                          bpm |-> bpm, onBeat |-> TRUE]]
      BY <1>2 DEF BeatHead
    <2> DEFINE p == heads[h].position
               q == IF downbeat THEN InFirstBar(p) ELSE p
    <2>2. p \in 0 .. Bars * BarLength /\ bpm \in 0 .. BarLength
      BY <1>2, WaveformType DEF Playhead
    <2>3. q \in 0 .. Bars * BarLength /\ q % BarLength = p % BarLength
      BY <2>2, DownbeatKeepsPhase
    <2>4. heads' = [heads EXCEPT ![h] = [position |-> q, bpm |-> bpm, onBeat |-> TRUE]]
      BY <2>1
    <2> HIDE DEF q
    <2>5. heads'[h] = [position |-> q, bpm |-> bpm, onBeat |-> TRUE]
      BY <1>2, <2>4
    <2>6. heads'[h] \in Playhead /\ heads'[h].position % BarLength = p % BarLength
      BY <2>2, <2>3, <2>5 DEF Playhead
    <2>7. DOMAIN heads' = DOMAIN heads /\ \A d \in DOMAIN heads \ {h} : heads'[d] = heads[d]
      BY <2>4
    <2> QED BY <2>6, <2>7
  <1> QED BY <1>1, <1>2

\* A frame moves one by what its player crosses in it, or not at all.
LEMMA FrameOfHead ==
  ASSUME NEW d, heads[d] \in Playhead
  PROVE  LET old == heads[d].position % BarLength
             h == MovedHead(heads[d])
         IN  /\ h \in Playhead
             /\ h.position % BarLength \in {old, (old + heads[d].bpm) % BarLength}
  <1> DEFINE p == heads[d].position
             b == heads[d].bpm
             h == MovedHead(heads[d])
  <1>1. p \in 0 .. Bars * BarLength /\ b \in 0 .. BarLength
    BY DEF Playhead
  <1>2. CASE heads[d].onBeat
    <2>1. h = [heads[d] EXCEPT !.onBeat = FALSE]
      BY <1>2 DEF MovedHead, Playhead
    <2>2. h \in Playhead /\ h.position = p
      BY <2>1 DEF Playhead
    <2> QED BY <2>2
  <1>3. CASE ~ heads[d].onBeat
    <2>1. /\ Wrapped(p + b) \in 0 .. Bars * BarLength
          /\ Wrapped(p + b) % BarLength = ((p % BarLength) + b) % BarLength
      BY <1>1, FrameKeepsPhase
    <2> DEFINE w == Wrapped(p + b)
               n == [heads[d] EXCEPT !.position = w]
    <2>2. n \in Playhead /\ n.position = w
      BY <2>1 DEF Playhead
    <2>3. h = [n EXCEPT !.onBeat = FALSE]
      BY <1>3 DEF MovedHead
    <2> HIDE DEF n, h
    <2>4. h \in Playhead /\ h.position = n.position
      BY <2>2, <2>3 DEF Playhead
    <2> QED BY <2>1, <2>2, <2>4 DEF h
  <1> QED BY <1>2, <1>3

LEMMA NewHeadType == NewHead \in Playhead
  BY WaveformType DEF NewHead, Playhead

LEMMA HeadsNext ==
  ASSUME HeadsOK, app = "waveform", [AppsNext]_allVars
  PROVE  HeadsOK'
  <1> DEFINE h == Handed.device
  <1>1. DOMAIN heads = DOMAIN players /\ \A d \in DOMAIN heads : heads[d] \in Playhead
    BY DEF HeadsOK
  <1>2. SUFFICES DOMAIN heads' = DOMAIN players' /\ \A d \in DOMAIN heads' : heads'[d] \in Playhead
    BY DEF HeadsOK
  <1>3. CASE UNCHANGED <<players, heads>>
    BY <1>1, <1>3
  <1>4. CASE Kind = "beat" /\ onBeat(Handed) /\ BeatHead(h)
    <2>1. DOMAIN players' = DOMAIN players
      BY <1>4 DEF onBeat
    <2> QED BY <1>1, <1>4, <2>1, BeatOfHead
  <1>5. CASE Kind = "found" /\ onDeviceFound(Handed) /\ heads' = Entered(heads, h, NewHead)
    BY <1>1, <1>5, NewHeadType DEF onDeviceFound, Entered
  <1>6. CASE Kind = "lost" /\ onDeviceLost(Handed) /\ heads' = Erased(heads, h)
    BY <1>1, <1>6 DEF onDeviceLost, Erased
  <1>7. CASE EndFrame /\ MoveHeads /\ UNCHANGED players
    <2>1. /\ DOMAIN heads' = DOMAIN heads
          /\ \A d \in DOMAIN heads : heads'[d] = MovedHead(heads[d])
      BY <1>7 DEF MoveHeads
    <2> QED BY <1>1, <1>7, <2>1, FrameOfHead
  <1> QED BY <1>3, <1>4, <1>5, <1>6, <1>7, WaveformSteps

LEMMA HeadsInit == AppsInit => HeadsOK
  BY DEF AppsInit, MonitorInit, WaveformInit, HeadsOK

-----------------------------------------------------------------------------
(***************************************************************************)
(* The entries of example-basic.                                           *)
(***************************************************************************)

LEMMA EntrySteps ==
  ASSUME app = "basic", [AppsNext]_allVars
  PROVE  \/ /\ RestStep /\ UNCHANGED <<deviceList, doubled>>
            /\ overtaken \subseteq overtaken'
         \/ Listener /\ Basic
         \/ Refresh
  <1>1. CASE Around /\ UNCHANGED appVars
    BY <1>1 DEF RestStep, Around, Network, BeginFrame, appVars, listVars
  <1>2. CASE ListStep
    BY <1>2 DEF ListStep, Timeline, Clear, EndFrame, RestStep, listVars
  <1>3. CASE MonitorStep \/ WaveformStep \/ SlotStep \/ CounterStep \/ BridgeStep
    BY <1>3 DEF MonitorStep, VirtualCdjMonitor, CdjStatus, StatusMonitor, MultiDevice,
       Monitors, KeyVirtualCdj, ToggleVirtualCdj, WaveformStep, SlotStep, CounterStep, Osc,
       BeatSync, Metronome, BpmDisplay, AskBeat, OscRate, BridgeStep
  <1>4. CASE UNCHANGED allVars
    BY <1>4 DEF allVars, deviceVars, appVars, listVars, RestStep
  <1> QED BY <1>1, <1>2, <1>3, <1>4 DEF AppsNext

\* A device whose loss is under way does not come back unnoticed.
LEMMA LossStaysUnderWay ==
  ASSUME FeedOK, OneAnnouncement, RestStep, overtaken \subseteq overtaken',
         NEW d \in Devices \ overtaken', In("lost", d)
  PROVE  In("lost", d)'
  <1>1. AnnouncedOnce(d) /\ d \notin overtaken /\ Announced(d)
    BY AnnouncedIsIn DEF OneAnnouncement
  <1>2. d \in devices <=> d \in devices'
    BY <1>1 DEF RestStep, Around, Network, BeginFrame, Update, Take, Finish, Publish, feedVars
  <1>3. d \in Told' <=> d \in Told
    BY <1>1, RestAnnounces
  <1> QED BY <1>1, <1>2, <1>3 DEF AnnouncedOnce, Told

LEMMA EntriesNext ==
  ASSUME FeedOK, OneAnnouncement, EntriesOK, app = "basic", [AppsNext]_allVars
  PROVE  EntriesOK'
  <1> DEFINE Right(d) == In("lost", d) \/ deviceList[d] = IF d \in Told THEN 1 ELSE 0
  <1>1. /\ deviceList \in [Devices -> Nat]
        /\ \A d \in Devices \ (overtaken \cup doubled) : Right(d)
    BY DEF EntriesOK
  <1>2. CASE /\ RestStep /\ UNCHANGED <<deviceList, doubled>>
             /\ overtaken \subseteq overtaken'
    <2>1. SUFFICES ASSUME NEW d \in Devices \ (overtaken' \cup doubled') PROVE Right(d)'
      BY <1>1, <1>2 DEF EntriesOK
    <2>2. d \notin overtaken /\ Right(d)
      BY <1>1, <1>2
    <2>3. d \in Told' <=> d \in Told
      BY <1>2, <2>2, RestAnnounces
    <2> QED BY <1>2, <2>2, <2>3, LossStaysUnderWay
  <1>3. CASE Listener /\ Basic
    <2> DEFINE h == Handed.device
    <2>1. /\ overtaken' = overtaken /\ h \in Devices
          /\ Kind \in {"beat", "found", "lost"}
      BY <1>3, DeliverEffect, EventType DEF Listener, Basic
    <2>2. /\ deviceList' \in [Devices -> Nat]
          /\ Kind = "found" => deviceList'[h] = deviceList[h] + 1
          /\ Kind = "lost" => deviceList'[h] = 0
          /\ Kind = "beat" => deviceList' = deviceList
          /\ \A d \in Devices \ {h} : deviceList'[d] = deviceList[d]
          /\ doubled' = IF Kind = "lost" THEN doubled \ {h} ELSE doubled
      <3>1. CASE Kind = "beat"
        BY <1>1, <1>3, <3>1 DEF Basic
      <3>2. CASE Kind = "found"
        <4>1. deviceList' = [deviceList EXCEPT ![h] = deviceList[h] + 1] /\ doubled' = doubled
          BY <1>1, <1>3, <2>1, <3>2 DEF Basic
        <4> HIDE DEF h
        <4> QED BY <1>1, <2>1, <3>2, <4>1
      <3>3. CASE Kind = "lost"
        <4>1. deviceList' = [deviceList EXCEPT ![h] = 0] /\ doubled' = doubled \ {h}
          BY <1>3, <3>3 DEF Basic
        <4> HIDE DEF h
        <4> QED BY <1>1, <2>1, <3>3, <4>1
      <3> QED BY <2>1, <3>1, <3>2, <3>3
    <2>3. SUFFICES ASSUME NEW d \in Devices \ (overtaken' \cup doubled') PROVE Right(d)'
      BY <2>2 DEF EntriesOK
    <2>4. /\ AnnouncedOnce(d)'
          /\ d = h /\ Kind = "found" => d \notin Told /\ d \in Told'
          /\ d = h /\ Kind = "lost" => d \in Told /\ d \notin Told'
          /\ d # h \/ Kind \notin {"found", "lost"} => (d \in Told' <=> d \in Told)
          /\ d # h \/ Kind \notin {"found", "lost"} => (In("lost", d)' <=> In("lost", d))
      BY <1>3, <2>1, ListenerAnnounces, InDeliver DEF Listener
    <2>5. CASE d = h /\ Kind = "lost"
      BY <2>2, <2>4, <2>5
    <2>6. CASE d = h /\ Kind = "found"
      <3>1. Right(d) /\ ~ In("lost", d)
        BY <1>1, <2>1, <2>2, <2>4, <2>6 DEF Told
      <3>2. deviceList[d] = 0
        BY <2>4, <2>6, <3>1
      <3> QED BY <2>2, <2>4, <2>6, <3>2
    <2>7. CASE d # h \/ Kind = "beat"
      <3>1. Right(d) /\ deviceList'[d] = deviceList[d]
        BY <1>1, <2>1, <2>2, <2>7
      <3> QED BY <2>1, <2>4, <2>7, <3>1
    <2> QED BY <2>1, <2>5, <2>6, <2>7
  <1>4. CASE Refresh
    <2>1. /\ UNCHANGED <<devices, pending, coming>>
          /\ deviceList' = [d \in Devices |-> IF d \in devices THEN 1 ELSE 0]
          /\ doubled' = {d \in devices : Announced(d)}
      BY <1>4 DEF Refresh, Key, feedVars
    <2>2. deviceList' \in [Devices -> Nat]
      BY <2>1
    <2>3. SUFFICES ASSUME NEW d \in Devices \ (overtaken' \cup doubled') PROVE Right(d)'
      BY <2>2 DEF EntriesOK
    <2>4. (In("lost", d)' <=> In("lost", d)) /\ (In("found", d)' <=> In("found", d))
      BY <2>1 DEF In
    <2>5. d \in devices => ~ In("found", d)
      BY <2>1, AnnouncedIsIn
    <2>6. In("lost", d)' \/ (d \in devices <=> d \in Told')
      BY <2>1, <2>4, <2>5 DEF Told
    <2> QED BY <2>1, <2>6
  <1> QED BY <1>2, <1>3, <1>4, EntrySteps

LEMMA EntriesInit == AppsInit => EntriesOK
  <1> SUFFICES ASSUME AppsInit PROVE EntriesOK
    OBVIOUS
  <1>1. deviceList = [d \in Devices |-> 0] /\ devices = {}
    BY DEF AppsInit, ListInit, DeviceAppInit, Init
  <1> QED BY <1>1 DEF EntriesOK, Told

-----------------------------------------------------------------------------
(***************************************************************************)
(* The theorems.                                                           *)
(***************************************************************************)

LEMMA IndInvInit == AppsInit => IndInv
  BY FeedInit, AnnouncementInit, AskedInit, SlotFieldsInit, ForgetInit, CountInit, SentInit,
     PanelsInit, BeatInit, BeatsKeptInit, HeadsInit, EntriesInit DEF IndInv

LEMMA IndInvNext == IndInv /\ [AppsNext]_allVars => IndInv'
  <1> SUFFICES ASSUME IndInv, [AppsNext]_allVars PROVE IndInv'
    OBVIOUS
  <1>1. /\ FeedOK /\ OneAnnouncement /\ OnlyAsked /\ SlotFields /\ ForgetOK
        /\ BeatOK /\ BeatsKept
    BY DEF IndInv
  <1>2. app' = app
    BY OtherSteps
  <1>3. FeedOK' /\ OneAnnouncement'
    BY <1>1, StepIsFeedStep, FeedNext, AnnouncementNext
  <1>4. OnlyAsked' /\ SlotFields' /\ ForgetOK'
    BY <1>1, AskedNext, SlotFieldsNext, ForgetNext
  <1>5. ASSUME CountsDevices' PROVE CountOK'
    <2>1. CountsDevices
      BY <1>2, <1>5 DEF CountsDevices
    <2>2. CountOK
      BY <2>1 DEF IndInv
    <2> QED BY <1>1, <2>1, <2>2, CountNext
  <1>6. ASSUME app' = "osc" PROVE SentOK'
    <2>1. app = "osc" /\ SentOK
      BY <1>2, <1>6 DEF IndInv
    <2> QED BY <1>1, <2>1, SentNext
  <1>7. ASSUME ShowsDevices', app' # "basic" PROVE PanelsOK'
    <2>1. app \in Monitors \cup {"comprehensive"}
      BY <1>2, <1>7 DEF ShowsDevices
    <2>2. PanelsOK
      BY <2>1, Apart DEF IndInv, ShowsDevices
    <2> QED BY <1>1, <2>1, <2>2, PanelsNext
  <1>8. BeatOK' /\ BeatsKept'
    BY <1>1, StepIsFeedStep, BeatNext, BeatsKeptNext
  <1>9. ASSUME app' = "waveform" PROVE HeadsOK'
    <2>1. app = "waveform" /\ HeadsOK
      BY <1>2, <1>9 DEF IndInv
    <2> QED BY <2>1, HeadsNext
  <1>10. ASSUME app' = "basic" PROVE EntriesOK'
    <2>1. app = "basic" /\ EntriesOK
      BY <1>2, <1>10 DEF IndInv
    <2> QED BY <1>1, <2>1, EntriesNext
  <1> QED BY <1>3, <1>4, <1>5, <1>6, <1>7, <1>8, <1>9, <1>10 DEF IndInv

\* The inductive invariant of the applications: the queues, what is announced,
\* what each application holds, and what it has forgotten.
THEOREM IndInvHolds == AppsSpec => []IndInv
  <1>1. AppsInit => IndInv
    BY IndInvInit
  <1>2. IndInv /\ [AppsNext]_allVars => IndInv'
    BY IndInvNext
  <1> QED BY <1>1, <1>2, PTL DEF AppsSpec, allVars

\* Nothing is announced: no event about a device is under way.
LEMMA NothingWaits ==
  ASSUME FeedOK, AllAnnounced, NEW k \in {"found", "lost"}
  PROVE  ~ Coming(k) /\ pending[k] = <<>>
  <1>1. k \in Kinds /\ k \in DOMAIN coming
    BY DEF FeedOK, Kinds
  <1>2. ASSUME Coming(k) PROVE FALSE
    <2>1. coming[k] \in FeedEvent
      BY <1>1, <1>2 DEF Coming, FeedOK
    <2> QED BY <2>1, EventType, AnnouncedIsIn DEF AllAnnounced, In
  <1>3. ASSUME pending[k] # <<>> PROVE FALSE
    <2>1. pending[k] \in Seq(FeedEvent)
      BY <1>1 DEF FeedOK
    <2>2. 1 \in 1 .. Len(pending[k]) /\ pending[k][1] \in FeedEvent
      BY <1>3, <2>1
    <2> QED BY <2>2, EventType, AnnouncedIsIn, ZenonT(30) DEF AllAnnounced, In
  <1> QED BY <1>2, <1>3

\* The counts of example-osc, -beatsync, -metronome, -bpm-display and
\* -ableton-link: with all announcements delivered, the devices of the network
\* and the losses that came at zero, of which there are none unless
\* announcements overtook each other; and the messages of example-osc.
THEOREM CountsAreOfNetwork == AppsSpec => []CountFollowsNetwork
  <1>1. IndInv => CountFollowsNetwork
    <2> SUFFICES ASSUME IndInv, CountsDevices, AllAnnounced
                 PROVE  /\ deviceCount = Cardinality(devices) + hidden
                        /\ overtaken = {} => hidden = 0
                        /\ app = "osc" /\ Quiet("beat") =>
                              /\ messagesSent = Made("beat") + Made("found") + Made("lost")
                              /\ messagesSent = rated + thisSecond
      BY DEF CountFollowsNetwork
    <2>1. FeedOK /\ CountOK /\ (app = "osc" => SentOK)
      BY DEF IndInv
    <2>2. \A k \in {"found", "lost"} : ~ Coming(k) /\ pending[k] = <<>>
      BY <2>1, NothingWaits
    <2>3. Waiting("found") = 0 /\ Waiting("lost") = 0
      BY <2>2 DEF Waiting
    <2>4. Cardinality(devices) \in Nat
      BY <2>1, FS_CardinalityType DEF FeedOK
    <2>5. deviceCount = Cardinality(devices) + hidden
      BY <2>1, <2>3, <2>4 DEF CountOK
    <2>6. ASSUME app = "osc", Quiet("beat")
          PROVE  /\ messagesSent = Made("beat") + Made("found") + Made("lost")
                 /\ messagesSent = rated + thisSecond
      <3>1. \A k \in {"beat", "found", "lost"} : delivered[k] \in Nat
        BY <2>1 DEF FeedOK, Kinds
      <3>2. \A k \in {"beat", "found", "lost"} : ~ Coming(k) /\ Len(pending[k]) = 0
        BY <2>2, <2>6 DEF Quiet
      <3>3. \A k \in {"beat", "found", "lost"} : Made(k) = delivered[k]
        BY <3>1, <3>2 DEF Made
      <3> QED BY <2>1, <2>6, <3>3 DEF SentOK
    <2> QED BY <2>1, <2>5, <2>6 DEF CountOK
  <1> QED BY <1>1, IndInvHolds, PTL

\* The last beat and the status in a panel, slot or line were delivered after
\* the last loss of the device, in the five applications with a map of players,
\* in example-comprehensive and in example-basic; so was the master of
\* example-virtualcdj announced.
THEOREM BeatAndStatusAreSinceLoss == AppsSpec => []LossTakesBeatAndStatus
  <1>1. IndInv => LossTakesBeatAndStatus
    <2> DEFINE Shown(d) == /\ ShownBeat(d) # NoEvent => ShownBeat(d).id > lossSeen[d].beat
                           /\ ShownStatus(d) # NoEvent => ShownStatus(d).id > lossSeen[d].update
                           /\ d \in playing => ShownBeat(d) # NoEvent
    <2> SUFFICES ASSUME IndInv, ShowsDevices, NEW d \in Devices
                 PROVE  /\ d \in Drawable /\ Panels(d) > 0 => Shown(d)
                        /\ currentMaster = d => delivered["master"] > lossSeen[d].master
      BY DEF LossTakesBeatAndStatus
    <2>1. ForgetOK /\ FeedOK
      BY DEF IndInv
    <2>2. /\ lossSeen[d]["beat"] \in Nat /\ lossSeen[d]["update"] \in Nat
          /\ lossSeen[d]["master"] \in Nat /\ delivered["master"] \in Nat
      <3>1. delivered["master"] \in Nat
        BY <2>1 DEF FeedOK, Kinds
      <3>2. LossType /\ d \in Devices
        BY <2>1 DEF ForgetOK
      <3> QED BY <3>1, <3>2 DEF LossType
    <2>3. \A e \in FeedEvent : e.id \in Nat
      BY EventType
    <2>4. CASE app \in Monitors
      <3>1. PlayersForget
        BY <2>1, <2>4 DEF ForgetOK
      <3>2. ASSUME Panels(d) > 0 PROVE Shown(d)
        <4>1. d \in DOMAIN players
          BY <2>4, <3>2, Apart DEF Panels, PanelOfPlayer
        <4>2. /\ Since(players[d].lastBeat, "beat", d) /\ Since(players[d].status, "update", d)
              /\ ShownStatus(d) = players[d].status
              /\ ShownBeat(d) = IF players[d].status = NoEvent THEN players[d].lastBeat
                                                               ELSE NoEvent
          BY <2>4, <3>1, <4>1, Apart DEF PlayersForget, ShownStatus, ShownBeat, StatusOfPlayer,
             BeatOfPlayer
        <4>3. d \in playing => ShownBeat(d) # NoEvent
          BY <3>1, <4>1, <4>2 DEF PlayersForget
        <4> QED BY <2>2, <2>3, <4>2, <4>3 DEF Since
      <3>3. currentMaster = d => delivered["master"] > lossSeen[d].master
        BY <2>2, <3>1 DEF PlayersForget
      <3> QED BY <3>2, <3>3
    <2>5. CASE app = "comprehensive"
      <3>1. SlotsForget /\ playing = {} /\ currentMaster \notin Devices
        BY <2>1, <2>5, Apart DEF ForgetOK
      <3>2. d \in Drawable => d \in Slots \cap Devices
        BY <2>5, Apart DEF Drawable, FixedPanels
      <3>3. ShownStatus(d) = slots[d].status /\ ShownBeat(d) = slots[d].lastBeat
        BY <2>5, Apart DEF ShownStatus, ShownBeat, StatusOfSlot, BeatOfSlot
      <3> QED BY <2>2, <2>3, <3>1, <3>2, <3>3 DEF SlotsForget, Since
    <2>6. CASE app = "basic"
      <3>1. LinesForget /\ playing = {} /\ currentMaster \notin Devices
        BY <2>1, <2>6, Apart DEF ForgetOK
      <3>2. ShownStatus(d) = NoEvent /\ ShownBeat(d) = BeatOnLine(d)
        BY <2>6, Apart DEF ShownStatus, ShownBeat
      <3>3. BeatOnLine(d) = NoEvent \/ Since(BeatOnLine(d), "beat", d)
        BY <3>1 DEF LinesForget, BeatOnLine
      <3> QED BY <2>2, <2>3, <3>1, <3>2, <3>3 DEF Since
    <2> QED BY <2>4, <2>5, <2>6 DEF ShowsDevices
  <1> QED BY <1>1, IndInvHolds, PTL

\* In the seven applications with panels, slots or lines there is one for a
\* device that is there and none for one that is not, once its last
\* announcement is delivered and unless it was overtaken or, in example-basic,
\* listed while its arrival was queued.
THEOREM PanelsFollowNetwork == AppsSpec => []DisplayFollowsNetwork
  <1>1. IndInv => DisplayFollowsNetwork
    <2> SUFFICES ASSUME IndInv, ShowsDevices, NEW d \in Drawable \cap Devices,
                        ~ Announced(d), d \notin overtaken \cup doubled
                 PROVE  Panels(d) = IF d \in devices THEN 1 ELSE 0
      BY DEF DisplayFollowsNetwork
    <2>1. app # "basic" => (d \in Held <=> d \in Told)
      BY DEF IndInv, PanelsOK
    <2>2. ~ In("lost", d) /\ (d \in Told <=> d \in devices)
      BY AnnouncedIsIn DEF Told
    <2>3. CASE app \in Monitors
      <3>1. Panels(d) = IF d \in DOMAIN players THEN 1 ELSE 0
        BY <2>3, Apart DEF Panels, PanelOfPlayer, Drawable, FixedPanels
      <3> QED BY <2>1, <2>2, <2>3, <3>1, Apart DEF Held
    <2>4. CASE app = "comprehensive"
      <3>1. d \in Slots
        BY <2>4, Apart DEF Drawable, FixedPanels
      <3>2. Panels(d) = IF slots[d].connected THEN 1 ELSE 0
        BY <2>4, <3>1, Apart DEF Panels, PanelOfSlot
      <3> QED BY <2>1, <2>2, <2>4, <3>1, <3>2, Apart DEF Held
    <2>5. CASE app = "basic"
      <3>1. Panels(d) = deviceList[d]
        BY <2>5, Apart DEF Panels, LinesOf
      <3>2. EntriesOK
        BY <2>5 DEF IndInv
      <3> QED BY <2>2, <3>1, <3>2 DEF EntriesOK
    <2> QED BY <2>3, <2>4, <2>5 DEF ShowsDevices
  <1> QED BY <1>1, IndInvHolds, PTL

\* The beat that beatsync, metronome, bpm-display, timeline, comprehensive and
\* osc keep from their events is never ahead of getLatestBeat(), and is that
\* one when no beat is under way, for histories and logs of any length.
THEOREM KeptBeatIsPolled == AppsSpec => []EventsMatchPoll
  <1>1. IndInv => EventsMatchPoll
    BY PollMatched DEF IndInv
  <1> QED BY <1>1, IndInvHolds, PTL

\* What a step may do to a place in the bar: nothing, or what the player crosses
\* in a frame, at the end of update(); or a device that is found anew starts.
WithinBar ==
    \A d \in DOMAIN heads \cap DOMAIN heads' :
        LET old == InFirstBar(heads[d].position)
            new == InFirstBar(heads'[d].position)
        IN  \/ new = old
            \/ EndFrame /\ new = InFirstBar(old + heads[d].bpm)
            \/ Kind = "found" /\ d = Handed.device /\ heads'[d] = NewHead

\* Only time moves a playhead of example-waveform within its bar: no downbeat, nor
\* any other beat, ever resets one that is not at the start of a bar, for bars of
\* any length, any number of them and any tempi of at most a bar a frame.
THEOREM OnlyFramesMoveWithinBar == AppsSpec => [][WithinBar]_allVars
  <1>1. IndInv /\ [AppsNext]_allVars => [WithinBar]_allVars
    <2> SUFFICES ASSUME IndInv, [AppsNext]_allVars, NEW d \in DOMAIN heads \cap DOMAIN heads'
                 PROVE  LET old == heads[d].position % BarLength
                            new == heads'[d].position % BarLength
                        IN  \/ new = old
                            \/ EndFrame /\ new = (old + heads[d].bpm) % BarLength
                            \/ Kind = "found" /\ d = Handed.device /\ heads'[d] = NewHead
      BY DEF WithinBar, InFirstBar
    <2>1. CASE app # "waveform"
      <3>1. UNCHANGED heads
        BY <2>1 DEF AppsNext, WaveformStep, appVars, allVars, waveformVars
      <3> QED BY <3>1
    <2>2. CASE app = "waveform"
      <3> DEFINE h == Handed.device
      <3>1. \A e \in DOMAIN heads : heads[e] \in Playhead
        BY <2>2 DEF IndInv, HeadsOK
      <3>2. CASE UNCHANGED <<players, heads>>
        BY <3>2
      <3>3. CASE Kind = "beat" /\ onBeat(Handed) /\ BeatHead(h)
        BY <3>1, <3>3, BeatOfHead
      <3>4. CASE /\ Kind = "found" /\ onDeviceFound(Handed)
                 /\ heads' = Entered(heads, h, NewHead)
        BY <3>4 DEF Entered
      <3>5. CASE /\ Kind = "lost" /\ onDeviceLost(Handed)
                 /\ heads' = Erased(heads, h)
        BY <3>5 DEF Erased
      <3>6. CASE EndFrame /\ MoveHeads /\ UNCHANGED players
        <4>1. heads'[d] = MovedHead(heads[d])
          BY <3>6 DEF MoveHeads
        <4> QED BY <3>1, <3>6, <4>1, FrameOfHead
      <3> QED BY <2>2, <3>2, <3>3, <3>4, <3>5, <3>6, WaveformSteps
    <2> QED BY <2>1, <2>2
  <1> QED BY <1>1, IndInvHolds, PTL DEF AppsSpec, allVars

-----------------------------------------------------------------------------
(***************************************************************************)
(* The bridge to Ableton Link, whose beat no step sets.                    *)
(***************************************************************************)

BridgeInv ==
    /\ beatAlpha \in {0, 90, 100}
    /\ "setBeat" \notin linkCalls

LEMMA BridgeNext == BridgeInv /\ [AppsNext]_allVars => BridgeInv'
  <1> SUFFICES ASSUME BridgeInv, [AppsNext]_allVars PROVE BridgeInv' OBVIOUS
  <1>1. CASE BridgeStep
    <2>1. CASE Listener /\ BridgeListener
      BY <2>1 DEF BridgeListener, BridgeInv
    <2>2. CASE UpdateLink
      <3>1. beatAlpha' \in {0, 90}
        BY <2>2 DEF UpdateLink, Decay
      <3>2. LinkCalls = {} \/ LinkCalls = {"getTempo"} \/ LinkCalls = {"setTempo"}
        BY <3>1 DEF LinkCalls
      <3> QED BY <2>2, <3>1, <3>2 DEF UpdateLink, BridgeInv
    <2>3. CASE Toggle
      BY <2>3 DEF Toggle, BridgeInv
    <2> QED BY <1>1, <2>1, <2>2, <2>3 DEF BridgeStep
  <1>2. CASE UNCHANGED bridgeVars
    BY <1>2 DEF bridgeVars, BridgeInv
  <1> QED BY <1>1, <1>2 DEF AppsNext, appVars, allVars

\* example-ableton-link never resets the beat of the Link session: updateLink()
\* comes after the decay of beatAlpha, which no longer passes 0.9 then.  What the
\* comment in it says ("Sync beat phase on downbeats") happens at no downbeat.
THEOREM LinkBeatIsNeverSet == AppsSpec => []("setBeat" \notin linkCalls)
  <1>1. AppsInit => BridgeInv
    BY DEF AppsInit, BridgeInit, BridgeInv
  <1>2. BridgeInv => "setBeat" \notin linkCalls
    BY DEF BridgeInv
  <1> QED BY <1>1, <1>2, BridgeNext, PTL DEF AppsSpec, allVars

-----------------------------------------------------------------------------
(***************************************************************************)
(* Refinement: an application runs on the feed, and the feed on channels.  *)
(***************************************************************************)

Channel == INSTANCE EventChannel

\* Whatever an application does is a step of the feed, or none.
LEMMA FeedStepIsNext == FeedStep => [Next]_feedVars
  <1> SUFFICES ASSUME FeedStep PROVE [Next]_feedVars OBVIOUS
  <1>1. CASE Around
    BY <1>1, AroundSteps DEF Next, Kinds
  <1>2. CASE Listener
    BY <1>2 DEF Listener, Next
  <1>3. CASE UNCHANGED feedVars
    BY <1>3
  <1> QED BY <1>1, <1>2, <1>3 DEF FeedStep, RestStep

\* An application sees a behaviour of EventFeed: with RefinesEventFeed, the model
\* of an application is over what the threads, queues and caches of the addon do.
LEMMA AppsRunOnFeed == AppsSpec => Spec
  <1>1. AppsInit => Init
    BY DEF AppsInit, DeviceAppInit
  <1>2. [AppsNext]_allVars => [Next]_feedVars
    BY StepIsFeedStep, FeedStepIsNext
  <1> QED BY <1>1, <1>2, PTL DEF AppsSpec, allVars, Spec

\* A step of the feed is a step of the channels, or none.
LEMMA NextIsChannelStep == FeedOK /\ [Next]_feedVars => [Channel!Next]_(Channel!vars)
  <1> SUFFICES ASSUME FeedOK, [Next]_feedVars PROVE [Channel!Next]_(Channel!vars)
    OBVIOUS
  <1>1. CASE UNCHANGED <<pending, delivered, serving>>
    BY <1>1 DEF Channel!vars
  <1>2. ASSUME NEW k \in Kinds, Publish(k) \/ \E d \in Devices : Notify(k, d)
        PROVE  Channel!Next
    <2>1. PICK e \in FeedEvent :
             /\ pending'[k] = Append(pending[k], e)
             /\ e.id = delivered[k] + Len(pending[k]) + 1
             /\ \A k2 \in Kinds \ {k} : pending'[k2] = pending[k2]
             /\ pending' \in [Kinds -> Seq(FeedEvent)]
             /\ UNCHANGED <<devices, delivered, section, serving>>
      BY <1>2, PushEffect
    <2>2. /\ e = [device |-> e.device, id |-> delivered[k] + Len(pending[k]) + 1]
          /\ e.device \in Devices
      BY <2>1 DEF FeedEvent
    <2>3. pending' = [pending EXCEPT ![k] = Append(@, e)]
      BY <2>1 DEF FeedOK
    <2>4. k \notin serving
      BY <1>2 DEF Publish, Notify
    <2>5. Channel!Publish(k, e.device)
      BY <2>1, <2>2, <2>3, <2>4 DEF Channel!Publish
    <2> QED BY <2>2, <2>5 DEF Channel!Next
  <1>3. CASE Take
    <2>1. Kind \in Kinds
      BY <1>3, OrderType DEF Take, FeedOK, Kind
    <2>2. Channel!Take(Kind)
      BY <1>3 DEF Take, Channel!Take
    <2> QED BY <2>1, <2>2 DEF Channel!Next
  <1>4. CASE Finish
    <2>1. Kind \in Kinds /\ serving = {Kind}
      BY <1>4, OrderType DEF Finish, FeedOK, Kind
    <2>2. Channel!Finish(Kind)
      BY <1>4, <2>1 DEF Finish, Channel!Finish
    <2> QED BY <2>1, <2>2 DEF Channel!Next
  <1>5. CASE Deliver
    <2>1. Kind \in Kinds /\ serving = {Kind}
      BY <1>5, OrderType DEF Deliver, FeedOK, Kind
    <2>2. pending[Kind] \in Seq(FeedEvent) /\ pending[Kind] # <<>>
      BY <1>5, <2>1 DEF Deliver, FeedOK
    <2>3. Head(pending[Kind]).id = delivered[Kind] + 1
      <3>1. /\ Len(pending[Kind]) \in Nat /\ Len(pending[Kind]) >= 1
            /\ Head(pending[Kind]) = pending[Kind][1]
        BY <2>2
      <3> QED BY <2>1, <3>1 DEF FeedOK
    <2>4. Channel!Deliver(Kind)
      BY <1>5, <2>1, <2>2, <2>3 DEF Deliver, Channel!Deliver, FeedOK
    <2> QED BY <2>1, <2>4 DEF Channel!Next
  <1>6. ASSUME NEW d \in Devices, OnBeat(d) \/ OnDeviceFound(d) \/ OnDeviceLost(d)
        PROVE  UNCHANGED <<pending, delivered, serving>>
    BY <1>6 DEF OnBeat, OnDeviceFound, OnDeviceLost, Enter
  <1>7. CASE Forget \/ Update \/ UNCHANGED feedVars
    BY <1>7, <1>1 DEF Forget, Update, feedVars
  <1> QED BY <1>1, <1>2, <1>3, <1>4, <1>5, <1>6, <1>7 DEF Next

\* The listeners of an application are served by one first-in first-out channel
\* per kind, in batches that nothing joins, whatever the application does itself.
THEOREM ListenersAreServedInOrder == AppsSpec => Channel!Spec
  <1>1. AppsInit => Channel!Init
    BY DEF AppsInit, DeviceAppInit, Init, Channel!Init
  <1>2. FeedOK /\ [AppsNext]_allVars => [Channel!Next]_(Channel!vars)
    BY StepIsFeedStep, FeedStepIsNext, NextIsChannelStep
  <1>3. IndInv => FeedOK
    BY DEF IndInv
  <1> QED BY <1>1, <1>2, <1>3, IndInvHolds, PTL DEF AppsSpec, allVars, Channel!Spec

-----------------------------------------------------------------------------
(***************************************************************************)
(* One frame hands out what was queued before it.                          *)
(***************************************************************************)

\* The events of kind k that were queued so far.
Pushed(k) == delivered[k] + Len(pending[k])

\* An application calls update() at the start of its frame, and nowhere else.
FrameOK == frame \in {"idle", "update"} /\ (frame = "idle" => section = 0)

\* The first n events of section i have been queued, and neither the section nor
\* the frame is left without them.
Due(i, n) == /\ Pushed(Order[i]) >= n
             /\ frame = "update" /\ (section = 0 \/ section > i) => delivered[Order[i]] >= n

LEMMA FrameSteps ==
  ASSUME [AppsNext]_allVars
  PROVE  \/ BeginFrame
         \/ UNCHANGED frame /\ (Network \/ Take \/ Finish \/ Deliver \/ UNCHANGED feedVars
                                  \/ \E k \in Kinds : Publish(k))
         \/ UNCHANGED feedVars /\ frame = "update" /\ section = 0 /\ frame' = "idle"
  <1>1. CASE Around
    BY <1>1 DEF Around, Network
  <1>2. CASE Listener
    BY <1>2 DEF Listener
  <1>3. CASE EndFrame
    BY <1>3 DEF EndFrame
  <1>4. CASE UNCHANGED feedVars /\ UNCHANGED frame
    BY <1>4
  <1>5. Around \/ Listener \/ EndFrame \/ (UNCHANGED feedVars /\ UNCHANGED frame)
    <2>1. CASE MonitorStep
      BY <2>1 DEF MonitorStep, KeyVirtualCdj, Key
    <2>2. CASE WaveformStep
      BY <2>2 DEF WaveformStep
    <2>3. CASE SlotStep
      BY <2>3 DEF SlotStep, AskMaster, DropDatabase, KeyVirtualCdj, Key
    <2>4. CASE ListStep
      BY <2>4 DEF ListStep, Refresh, Clear, Key
    <2>5. CASE CounterStep
      BY <2>5 DEF CounterStep, AskBeat, OscRate
    <2>6. CASE BridgeStep
      BY <2>6 DEF BridgeStep, UpdateLink, Toggle, Key
    <2>7. CASE UNCHANGED allVars
      BY <2>7 DEF allVars, deviceVars
    <2> QED BY <2>1, <2>2, <2>3, <2>4, <2>5, <2>6, <2>7 DEF AppsNext
  <1> QED BY <1>1, <1>2, <1>3, <1>4, <1>5

LEMMA FrameNext ==
  ASSUME FeedOK, FrameOK, [AppsNext]_allVars
  PROVE  FrameOK'
  <1>1. CASE BeginFrame
    BY <1>1 DEF BeginFrame, FrameOK
  <1>2. CASE UNCHANGED frame /\ (Network \/ UNCHANGED feedVars \/ \E k \in Kinds : Publish(k))
    BY <1>2 DEF FrameOK, Network, Publish, OnBeat, OnDeviceFound, OnDeviceLost, Enter, Notify, feedVars
  <1>3. CASE UNCHANGED frame /\ (Take \/ Finish \/ Deliver)
    BY <1>3 DEF FrameOK, Take, Finish, Deliver, FeedOK
  <1>4. CASE UNCHANGED feedVars /\ frame = "update" /\ section = 0 /\ frame' = "idle"
    BY <1>4 DEF FrameOK, feedVars
  <1> QED BY <1>1, <1>2, <1>3, <1>4, FrameSteps

\* Queueing and delivery only go forward.
LEMMA PushedGrows ==
  ASSUME FeedOK, [AppsNext]_allVars, NEW k \in Kinds
  PROVE  /\ Pushed(k) \in Nat /\ delivered[k] \in Nat
         /\ Pushed(k)' >= Pushed(k) /\ delivered'[k] >= delivered[k]
  <1>0. /\ pending[k] \in Seq(FeedEvent) /\ delivered[k] \in Nat /\ Len(pending[k]) \in Nat
        /\ pending \in [Kinds -> Seq(FeedEvent)] /\ delivered \in [Kinds -> Nat]
    BY DEF FeedOK
  <1>1. CASE UNCHANGED <<pending, delivered>>
    BY <1>0, <1>1 DEF Pushed
  <1>2. ASSUME NEW j \in Kinds, Publish(j) \/ \E d \in Devices : Notify(j, d)
        PROVE  /\ delivered' = delivered
               /\ Len(pending'[k]) = Len(pending[k]) \/ Len(pending'[k]) = Len(pending[k]) + 1
    <2>1. PICK e \in FeedEvent :
             /\ pending'[j] = Append(pending[j], e)
             /\ \A k2 \in Kinds \ {j} : pending'[k2] = pending[k2]
             /\ UNCHANGED delivered
      BY <1>2, PushEffect
    <2>2. Len(Append(pending[k], e)) = Len(pending[k]) + 1
      BY <1>0
    <2> QED BY <2>1, <2>2
  <1>3. CASE Deliver
    <2>1. Kind \in Kinds
      BY <1>3, OrderType DEF Deliver, FeedOK, Kind
    <2>2. CASE k = Kind
      <3>1. /\ pending[k] # <<>>
            /\ Head(pending[k]) = pending[k][1] /\ Len(Tail(pending[k])) = Len(pending[k]) - 1
            /\ 1 \in 1 .. Len(pending[k])
        BY <1>0, <1>3, <2>2 DEF Deliver
      <3>2. Head(pending[k]).id = delivered[k] + 1
        BY <3>1 DEF FeedOK
      <3> QED BY <1>0, <1>3, <2>1, <2>2, <3>1, <3>2 DEF Deliver, Pushed
    <2>3. CASE k # Kind
      BY <1>0, <1>3, <2>1, <2>3 DEF Deliver, Pushed
    <2> QED BY <2>2, <2>3
  <1>4. CASE \E j \in Kinds : Publish(j) \/ \E d \in Devices : Notify(j, d)
    <2>1. /\ delivered' = delivered
          /\ Len(pending'[k]) = Len(pending[k]) \/ Len(pending'[k]) = Len(pending[k]) + 1
      BY <1>2, <1>4
    <2> QED BY <1>0, <2>1 DEF Pushed
  <1>5. \/ \E j \in Kinds : Publish(j) \/ \E d \in Devices : Notify(j, d)
        \/ Deliver
        \/ UNCHANGED <<pending, delivered>>
    <2>1. [Next]_feedVars
      BY StepIsFeedStep, FeedStepIsNext
    <2> QED BY <2>1 DEF Next, OnBeat, OnDeviceFound, OnDeviceLost, Enter, Forget, Update, Take, Finish,
                        feedVars
  <1>6. Pushed(k) \in Nat
    BY <1>0 DEF Pushed
  <1> QED BY <1>0, <1>1, <1>3, <1>4, <1>5, <1>6

LEMMA DueNext ==
  ASSUME FeedOK, FeedOK', FrameOK, [AppsNext]_allVars,
         NEW i \in 1 .. Len(Order), NEW n \in Nat, Due(i, n)
  PROVE  Due(i, n)'
  <1> DEFINE k == Order[i]
  <1>1. k \in Kinds /\ Len(Order) \in Nat
    BY OrderType
  <1> HIDE DEF k
  <1>2. /\ Pushed(k) \in Nat /\ delivered[k] \in Nat
        /\ Pushed(k)' >= Pushed(k) /\ delivered'[k] >= delivered[k]
        /\ Pushed(k)' \in Nat /\ delivered'[k] \in Nat
    <2>1. Pushed(k)' \in Nat /\ delivered'[k] \in Nat
      BY <1>1 DEF FeedOK, Pushed
    <2> QED BY <1>1, <2>1, PushedGrows
  <1>3. /\ Pushed(k) >= n /\ section \in 0 .. Len(Order) /\ i \in 1 .. Len(Order)
        /\ frame = "update" /\ (section = 0 \/ section > i) => delivered[k] >= n
    BY DEF Due, FeedOK, k
  <1>4. CASE Finish
    <2>1. /\ section = i => delivered[k] = Pushed(k)
          /\ section' = (IF section = Len(Order) THEN 0 ELSE section + 1) /\ section # 0
      <3>1. /\ serving # {} /\ pending[Kind] = <<>>
            /\ section' = (IF section = Len(Order) THEN 0 ELSE section + 1) /\ section # 0
        BY <1>4 DEF Finish, FeedOK
      <3>2. section = i => Kind = k
        BY DEF Kind, k
      <3> QED BY <1>2, <3>1, <3>2 DEF Pushed
    <2>2. section' = 0 \/ section' > i => section >= i
      BY <1>1, <1>3, <2>1
    <2>3. frame' = "update" => frame = "update"
      BY <1>4, FrameSteps DEF FrameOK, BeginFrame, Update, Finish, feedVars, FeedOK
    <2>4. frame = "update" /\ section >= i => delivered'[k] >= n
      BY <1>1, <1>2, <1>3, <2>1
    <2> QED BY <1>2, <1>3, <2>2, <2>3, <2>4 DEF Due, k
  <1>5. CASE BeginFrame
    <2>1. section' = 1
      BY <1>5 DEF BeginFrame, Update
    <2> QED BY <1>2, <1>3, <2>1 DEF Due, k
  <1>6. CASE section' = section /\ (frame' = frame \/ frame' = "idle")
    BY <1>2, <1>3, <1>6 DEF Due, k
  <1>7. \/ Finish \/ BeginFrame
        \/ section' = section /\ (frame' = frame \/ frame' = "idle")
    BY FrameSteps DEF Network, OnBeat, OnDeviceFound, OnDeviceLost, Enter, Notify, Publish, Take,
                      Deliver, feedVars
  <1> QED BY <1>4, <1>5, <1>6, <1>7

\* One frame is enough: what was queued when an application begins its frame has
\* been handed to its listeners when the frame ends, in each of the thirteen.
THEOREM OneFrameDelivers ==
  ASSUME NEW i \in 1 .. Len(Order), NEW n \in Nat
  PROVE  AppsSpec => []( frame = "idle" /\ Pushed(Order[i]) >= n
                         => [][frame = "update" /\ frame' = "idle"
                                 => delivered[Order[i]] >= n]_allVars )
  <1> DEFINE P == frame = "idle" /\ Pushed(Order[i]) >= n
             D == Due(i, n)
             A == frame = "update" /\ frame' = "idle" => delivered[Order[i]] >= n
  <1>1. P => D
    BY DEF Due
  <1>2. FeedOK /\ FeedOK' /\ FrameOK /\ D /\ [AppsNext]_allVars => D'
    BY DueNext
  <1>3. D /\ [AppsNext]_allVars => [A]_allVars
    <2> SUFFICES ASSUME D, [AppsNext]_allVars, frame = "update", frame' = "idle"
                 PROVE  delivered[Order[i]] >= n
      OBVIOUS
    <2>1. section = 0
      BY FrameSteps DEF BeginFrame
    <2> QED BY <2>1 DEF Due
  <1>4. AppsInit => FrameOK
    BY DEF AppsInit, DeviceAppInit, Init, FrameOK
  <1>5. FeedOK /\ FrameOK /\ [AppsNext]_allVars => FrameOK'
    BY FrameNext
  <1>6. IndInv => FeedOK
    BY DEF IndInv
  <1>7. AppsSpec => [](P => [][A]_allVars)
    <2> HIDE DEF P, D, A
    <2> QED BY <1>1, <1>2, <1>3, <1>4, <1>5, <1>6, IndInvHolds, PTL DEF AppsSpec, allVars
  <1> QED BY <1>7
=============================================================================
