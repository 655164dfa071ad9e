----------------------- MODULE BeatLinkLifecycle_proofs -----------------------
(***************************************************************************)
(* Theorems about BeatLinkLifecycle, for any objects that share the three  *)
(* singletons and any number of failed starts.                             *)
(*                                                                         *)
(* The invariant IInv is inductive as a whole: how often an object is      *)
(* registered tells which objects a thread can be on its way into, which   *)
(* singletons are up tells which threads are quiet, and both depend on the *)
(* place of the call in progress.  One lemma per conjunct shows that every *)
(* step keeps it, with one step of the proof per action.                   *)
(***************************************************************************)
EXTENDS BeatLinkLifecycle, TLAPS

USE NoneAssumption, MaxFailedAssumption
USE DEF Finders, Singletons, lifeVars, threadState, flags, history

LEMMA Initially == Init => IInv
  <1> SUFFICES ASSUME Init PROVE IInv OBVIOUS
  <1> USE DEF Init, Nobody
  <1>1. TypeOK
    BY DEF TypeOK, Places
  <1>2. CallPlaces /\ SilencedUsers /\ UpForUsers
    BY DEF CallPlaces, SilencedUsers, Users, UpForUsers, Starting
  <1>3. Registrations
    BY DEF Registrations, BeatRegistered, DeviceRegistered, VirtualCdjRegistered,
           Starting
  <1>4. DownIsQuiet
    BY DEF DownIsQuiet, Quiet
  <1>5. CallsOwned
    BY DEF CallsOwned, Calls
  <1> QED BY <1>1, <1>2, <1>3, <1>4, <1>5 DEF IInv

\* Every step keeps the types: what stop takes back was registered, and an
\* object that is destroyed has stopped.
LEMMA TypeNext == IInv /\ [Next]_lifeVars => TypeOK'
  <1> SUFFICES ASSUME IInv, [Next]_lifeVars PROVE TypeOK' OBVIOUS
  <1> USE DEF IInv, TypeOK, CallPlaces, Registrations, VirtualCdjRegistered,
              Starting, Places, Nobody, Clear
  <1>1. ASSUME NEW s \in Singletons, Packet(s) PROVE TypeOK'
    BY <1>1 DEF Packet
  <1>2. ASSUME NEW s \in Singletons, NEW i \in Instances,
               EnterCallback(s, i)
        PROVE  TypeOK'
    BY <1>2 DEF EnterCallback
  <1>3. ASSUME NEW s \in Singletons, LeaveCallback(s) PROVE TypeOK'
    BY <1>3 DEF LeaveCallback
  <1>4. ASSUME NEW i \in Instances, Start(i) PROVE TypeOK'
    BY <1>4 DEF Start
  <1>5. ASSUME StartDeviceFinder PROVE TypeOK'
    BY <1>5 DEF StartDeviceFinder
  <1>6. ASSUME StartDeviceFinderFails PROVE TypeOK'
    BY <1>6 DEF StartDeviceFinderFails
  <1>7. ASSUME StartBeatFinder PROVE TypeOK'
    BY <1>7 DEF StartBeatFinder
  <1>8. ASSUME StartBeatFinderFails PROVE TypeOK'
    BY <1>8 DEF StartBeatFinderFails
  <1>9. ASSUME StartUndone PROVE TypeOK'
    BY <1>9 DEF StartUndone
  <1>10. ASSUME NEW i \in Instances, Stop(i) PROVE TypeOK'
    BY <1>10 DEF Stop
  <1>11. ASSUME StopBeatFinderReturns PROVE TypeOK'
    BY <1>11 DEF StopBeatFinderReturns
  <1>12. ASSUME StopDeviceFinderReturns PROVE TypeOK'
    BY <1>12 DEF StopDeviceFinderReturns
  <1>13. ASSUME NEW i \in Instances, StartVirtualCdj(i) PROVE TypeOK'
    BY <1>13 DEF StartVirtualCdj
  <1>14. ASSUME VirtualCdjStarts PROVE TypeOK'
    BY <1>14 DEF VirtualCdjStarts
  <1>15. ASSUME VirtualCdjStartFails PROVE TypeOK'
    BY <1>15 DEF VirtualCdjStartFails
  <1>16. ASSUME NEW i \in Instances, StopVirtualCdj(i) PROVE TypeOK'
    BY <1>16 DEF StopVirtualCdj
  <1>17. ASSUME VirtualCdjStopReturns PROVE TypeOK'
    BY <1>17 DEF VirtualCdjStopReturns
  <1>18. ASSUME NEW i \in Instances, Destroy(i) PROVE TypeOK'
    <2>1. CASE i \in vcdj
      <3>1. listeners["VirtualCdj"][i] = 1
        BY <1>18, <2>1 DEF Destroy
      <3>2. listeners' = [listeners EXCEPT !["VirtualCdj"][i] = 0]
        BY <1>18, <2>1, <3>1 DEF Destroy
      <3>3. listeners' \in [Singletons -> [Instances -> Nat]]
        BY <3>2
      <3> QED BY <1>18, <2>1, <3>3 DEF Destroy
    <2>2. CASE i \notin vcdj
      BY <1>18, <2>2 DEF Destroy
    <2> QED BY <2>1, <2>2
  <1>19. ASSUME DestroyStops PROVE TypeOK'
    BY <1>19 DEF DestroyStops
  <1>20. ASSUME DestroyNotRunning PROVE TypeOK'
    BY <1>20 DEF DestroyNotRunning
  <1>21. CASE UNCHANGED lifeVars
    BY <1>21
  <1> QED
    BY <1>1, <1>2, <1>3, <1>4, <1>5, <1>6, <1>7, <1>8, <1>9, <1>10, <1>11,
       <1>12, <1>13, <1>14, <1>15, <1>16, <1>17, <1>18, <1>19, <1>20, <1>21
       DEF Next, ThreadNext, AppCall, CallStep

\* The call in progress goes from place to place in order.
LEMMA PlacesNext == IInv /\ [Next]_lifeVars => CallPlaces'
  <1> SUFFICES ASSUME IInv, [Next]_lifeVars PROVE CallPlaces' OBVIOUS
  <1> USE DEF IInv, TypeOK, CallPlaces, Starting
  <1>1. ASSUME NEW s \in Singletons, Packet(s) PROVE CallPlaces'
    BY <1>1 DEF Packet
  <1>2. ASSUME NEW s \in Singletons, NEW i \in Instances,
               EnterCallback(s, i)
        PROVE  CallPlaces'
    BY <1>2 DEF EnterCallback
  <1>3. ASSUME NEW s \in Singletons, LeaveCallback(s) PROVE CallPlaces'
    BY <1>3 DEF LeaveCallback
  <1>4. ASSUME NEW i \in Instances, Start(i) PROVE CallPlaces'
    BY <1>4 DEF Start
  <1>5. ASSUME StartDeviceFinder PROVE CallPlaces'
    BY <1>5 DEF StartDeviceFinder
  <1>6. ASSUME StartDeviceFinderFails PROVE CallPlaces'
    BY <1>6 DEF StartDeviceFinderFails
  <1>7. ASSUME StartBeatFinder PROVE CallPlaces'
    BY <1>7 DEF StartBeatFinder
  <1>8. ASSUME StartBeatFinderFails PROVE CallPlaces'
    BY <1>8 DEF StartBeatFinderFails
  <1>9. ASSUME StartUndone PROVE CallPlaces'
    BY <1>9 DEF StartUndone
  <1>10. ASSUME NEW i \in Instances, Stop(i) PROVE CallPlaces'
    BY <1>10 DEF Stop
  <1>11. ASSUME StopBeatFinderReturns PROVE CallPlaces'
    BY <1>11 DEF StopBeatFinderReturns
  <1>12. ASSUME StopDeviceFinderReturns PROVE CallPlaces'
    BY <1>12 DEF StopDeviceFinderReturns
  <1>13. ASSUME NEW i \in Instances, StartVirtualCdj(i) PROVE CallPlaces'
    BY <1>13 DEF StartVirtualCdj
  <1>14. ASSUME VirtualCdjStarts PROVE CallPlaces'
    BY <1>14 DEF VirtualCdjStarts
  <1>15. ASSUME VirtualCdjStartFails PROVE CallPlaces'
    BY <1>15 DEF VirtualCdjStartFails
  <1>16. ASSUME NEW i \in Instances, StopVirtualCdj(i) PROVE CallPlaces'
    BY <1>16 DEF StopVirtualCdj
  <1>17. ASSUME VirtualCdjStopReturns PROVE CallPlaces'
    BY <1>17 DEF VirtualCdjStopReturns
  <1>18. ASSUME NEW i \in Instances, Destroy(i) PROVE CallPlaces'
    BY <1>18 DEF Destroy
  <1>19. ASSUME DestroyStops PROVE CallPlaces'
    BY <1>19 DEF DestroyStops
  <1>20. ASSUME DestroyNotRunning PROVE CallPlaces'
    BY <1>20 DEF DestroyNotRunning
  <1>21. CASE UNCHANGED lifeVars
    BY <1>21
  <1> QED
    BY <1>1, <1>2, <1>3, <1>4, <1>5, <1>6, <1>7, <1>8, <1>9, <1>10, <1>11,
       <1>12, <1>13, <1>14, <1>15, <1>16, <1>17, <1>18, <1>19, <1>20, <1>21
       DEF Next, ThreadNext, AppCall, CallStep

\* Who stops a finder silences all others that run.
LEMMA SilencedNext == IInv /\ [Next]_lifeVars => SilencedUsers'
  <1> SUFFICES ASSUME IInv, [Next]_lifeVars PROVE SilencedUsers' OBVIOUS
  <1> USE DEF IInv, TypeOK, CallPlaces, SilencedUsers, Users, Starting
  <1>1. ASSUME NEW s \in Singletons, Packet(s) PROVE SilencedUsers'
    BY <1>1 DEF Packet
  <1>2. ASSUME NEW s \in Singletons, NEW i \in Instances,
               EnterCallback(s, i)
        PROVE  SilencedUsers'
    BY <1>2 DEF EnterCallback
  <1>3. ASSUME NEW s \in Singletons, LeaveCallback(s) PROVE SilencedUsers'
    BY <1>3 DEF LeaveCallback
  <1>4. ASSUME NEW i \in Instances, Start(i) PROVE SilencedUsers'
    BY <1>4 DEF Start
  <1>5. ASSUME StartDeviceFinder PROVE SilencedUsers'
    BY <1>5 DEF StartDeviceFinder
  <1>6. ASSUME StartDeviceFinderFails PROVE SilencedUsers'
    BY <1>6 DEF StartDeviceFinderFails
  <1>7. ASSUME StartBeatFinder PROVE SilencedUsers'
    BY <1>7 DEF StartBeatFinder
  <1>8. ASSUME StartBeatFinderFails PROVE SilencedUsers'
    BY <1>8 DEF StartBeatFinderFails
  <1>9. ASSUME StartUndone PROVE SilencedUsers'
    BY <1>9 DEF StartUndone
  <1>10. ASSUME NEW i \in Instances, Stop(i) PROVE SilencedUsers'
    BY <1>10 DEF Stop
  <1>11. ASSUME StopBeatFinderReturns PROVE SilencedUsers'
    BY <1>11 DEF StopBeatFinderReturns
  <1>12. ASSUME StopDeviceFinderReturns PROVE SilencedUsers'
    BY <1>12 DEF StopDeviceFinderReturns
  <1>13. ASSUME NEW i \in Instances, StartVirtualCdj(i) PROVE SilencedUsers'
    BY <1>13 DEF StartVirtualCdj
  <1>14. ASSUME VirtualCdjStarts PROVE SilencedUsers'
    BY <1>14 DEF VirtualCdjStarts
  <1>15. ASSUME VirtualCdjStartFails PROVE SilencedUsers'
    BY <1>15 DEF VirtualCdjStartFails
  <1>16. ASSUME NEW i \in Instances, StopVirtualCdj(i) PROVE SilencedUsers'
    BY <1>16 DEF StopVirtualCdj
  <1>17. ASSUME VirtualCdjStopReturns PROVE SilencedUsers'
    BY <1>17 DEF VirtualCdjStopReturns
  <1>18. ASSUME NEW i \in Instances, Destroy(i) PROVE SilencedUsers'
    BY <1>18 DEF Destroy
  <1>19. ASSUME DestroyStops PROVE SilencedUsers'
    BY <1>19 DEF DestroyStops
  <1>20. ASSUME DestroyNotRunning PROVE SilencedUsers'
    BY <1>20 DEF DestroyNotRunning
  <1>21. CASE UNCHANGED lifeVars
    BY <1>21
  <1> QED
    BY <1>1, <1>2, <1>3, <1>4, <1>5, <1>6, <1>7, <1>8, <1>9, <1>10, <1>11,
       <1>12, <1>13, <1>14, <1>15, <1>16, <1>17, <1>18, <1>19, <1>20, <1>21
       DEF Next, ThreadNext, AppCall, CallStep

\* What is registered follows from the calls made so far.
LEMMA RegistrationsNext == IInv /\ [Next]_lifeVars => Registrations'
  <1> SUFFICES ASSUME IInv, [Next]_lifeVars PROVE Registrations' OBVIOUS
  <1> USE DEF IInv, TypeOK, CallPlaces, Starting, SilencedUsers, Users,
              Nobody, Registrations, BeatRegistered, DeviceRegistered,
              VirtualCdjRegistered, Clear
  <1>1. ASSUME NEW s \in Singletons, Packet(s) PROVE Registrations'
    BY <1>1 DEF Packet
  <1>2. ASSUME NEW s \in Singletons, NEW i \in Instances,
               EnterCallback(s, i)
        PROVE  Registrations'
    BY <1>2 DEF EnterCallback
  <1>3. ASSUME NEW s \in Singletons, LeaveCallback(s) PROVE Registrations'
    BY <1>3 DEF LeaveCallback
  <1>4. ASSUME NEW i \in Instances, Start(i) PROVE Registrations'
    BY <1>4 DEF Start
  <1>5. ASSUME StartDeviceFinder PROVE Registrations'
    BY <1>5 DEF StartDeviceFinder
  <1>6. ASSUME StartDeviceFinderFails PROVE Registrations'
    BY <1>6 DEF StartDeviceFinderFails
  <1>7. ASSUME StartBeatFinder PROVE Registrations'
    BY <1>7 DEF StartBeatFinder
  <1>8. ASSUME StartBeatFinderFails PROVE Registrations'
    BY <1>8 DEF StartBeatFinderFails
  <1>9. ASSUME StartUndone PROVE Registrations'
    BY <1>9 DEF StartUndone
  <1>10. ASSUME NEW i \in Instances, Stop(i) PROVE Registrations'
    BY <1>10 DEF Stop
  <1>11. ASSUME StopBeatFinderReturns PROVE Registrations'
    BY <1>11 DEF StopBeatFinderReturns
  <1>12. ASSUME StopDeviceFinderReturns PROVE Registrations'
    BY <1>12 DEF StopDeviceFinderReturns
  <1>13. ASSUME NEW i \in Instances, StartVirtualCdj(i) PROVE Registrations'
    BY <1>13 DEF StartVirtualCdj
  <1>14. ASSUME VirtualCdjStarts PROVE Registrations'
    BY <1>14 DEF VirtualCdjStarts
  <1>15. ASSUME VirtualCdjStartFails PROVE Registrations'
    BY <1>15 DEF VirtualCdjStartFails
  <1>16. ASSUME NEW i \in Instances, StopVirtualCdj(i) PROVE Registrations'
    BY <1>16 DEF StopVirtualCdj
  <1>17. ASSUME VirtualCdjStopReturns PROVE Registrations'
    BY <1>17 DEF VirtualCdjStopReturns
  <1>18. ASSUME NEW i \in Instances, Destroy(i) PROVE Registrations'
    BY <1>18 DEF Destroy
  <1>19. ASSUME DestroyStops PROVE Registrations'
    BY <1>19 DEF DestroyStops
  <1>20. ASSUME DestroyNotRunning PROVE Registrations'
    BY <1>20 DEF DestroyNotRunning
  <1>21. CASE UNCHANGED lifeVars
    BY <1>21
  <1> QED
    BY <1>1, <1>2, <1>3, <1>4, <1>5, <1>6, <1>7, <1>8, <1>9, <1>10, <1>11,
       <1>12, <1>13, <1>14, <1>15, <1>16, <1>17, <1>18, <1>19, <1>20, <1>21
       DEF Next, ThreadNext, AppCall, CallStep

\* What is up follows from who runs and is not silenced.
LEMMA UpNext == IInv /\ [Next]_lifeVars => UpForUsers'
  <1> SUFFICES ASSUME IInv, [Next]_lifeVars PROVE UpForUsers' OBVIOUS
  <1> USE DEF IInv, TypeOK, CallPlaces, SilencedUsers, Users, Starting,
              UpForUsers
  <1>1. ASSUME NEW s \in Singletons, Packet(s) PROVE UpForUsers'
    BY <1>1 DEF Packet
  <1>2. ASSUME NEW s \in Singletons, NEW i \in Instances,
               EnterCallback(s, i)
        PROVE  UpForUsers'
    BY <1>2 DEF EnterCallback
  <1>3. ASSUME NEW s \in Singletons, LeaveCallback(s) PROVE UpForUsers'
    BY <1>3 DEF LeaveCallback
  <1>4. ASSUME NEW i \in Instances, Start(i) PROVE UpForUsers'
    BY <1>4 DEF Start
  <1>5. ASSUME StartDeviceFinder PROVE UpForUsers'
    BY <1>5 DEF StartDeviceFinder
  <1>6. ASSUME StartDeviceFinderFails PROVE UpForUsers'
    BY <1>6 DEF StartDeviceFinderFails
  <1>7. ASSUME StartBeatFinder PROVE UpForUsers'
    BY <1>7 DEF StartBeatFinder
  <1>8. ASSUME StartBeatFinderFails PROVE UpForUsers'
    BY <1>8 DEF StartBeatFinderFails
  <1>9. ASSUME StartUndone PROVE UpForUsers'
    BY <1>9 DEF StartUndone
  <1>10. ASSUME NEW i \in Instances, Stop(i) PROVE UpForUsers'
    BY <1>10 DEF Stop
  <1>11. ASSUME StopBeatFinderReturns PROVE UpForUsers'
    BY <1>11 DEF StopBeatFinderReturns
  <1>12. ASSUME StopDeviceFinderReturns PROVE UpForUsers'
    BY <1>12 DEF StopDeviceFinderReturns
  <1>13. ASSUME NEW i \in Instances, StartVirtualCdj(i) PROVE UpForUsers'
    BY <1>13 DEF StartVirtualCdj
  <1>14. ASSUME VirtualCdjStarts PROVE UpForUsers'
    BY <1>14 DEF VirtualCdjStarts
  <1>15. ASSUME VirtualCdjStartFails PROVE UpForUsers'
    BY <1>15 DEF VirtualCdjStartFails
  <1>16. ASSUME NEW i \in Instances, StopVirtualCdj(i) PROVE UpForUsers'
    BY <1>16 DEF StopVirtualCdj
  <1>17. ASSUME VirtualCdjStopReturns PROVE UpForUsers'
    BY <1>17 DEF VirtualCdjStopReturns
  <1>18. ASSUME NEW i \in Instances, Destroy(i) PROVE UpForUsers'
    BY <1>18 DEF Destroy
  <1>19. ASSUME DestroyStops PROVE UpForUsers'
    BY <1>19 DEF DestroyStops
  <1>20. ASSUME DestroyNotRunning PROVE UpForUsers'
    BY <1>20 DEF DestroyNotRunning
  <1>21. CASE UNCHANGED lifeVars
    BY <1>21
  <1> QED
    BY <1>1, <1>2, <1>3, <1>4, <1>5, <1>6, <1>7, <1>8, <1>9, <1>10, <1>11,
       <1>12, <1>13, <1>14, <1>15, <1>16, <1>17, <1>18, <1>19, <1>20, <1>21
       DEF Next, ThreadNext, AppCall, CallStep

\* A thread goes quiet before the call that stopped it goes on.
LEMMA QuietNext == IInv /\ [Next]_lifeVars => DownIsQuiet'
  <1> SUFFICES ASSUME IInv, [Next]_lifeVars PROVE DownIsQuiet' OBVIOUS
  <1> USE DEF IInv, TypeOK, CallPlaces, Starting, DownIsQuiet, Quiet, Joining,
              UpForUsers, Nobody
  <1>1. ASSUME NEW s \in Singletons, Packet(s) PROVE DownIsQuiet'
    BY <1>1 DEF Packet
  <1>2. ASSUME NEW s \in Singletons, NEW i \in Instances,
               EnterCallback(s, i)
        PROVE  DownIsQuiet'
    BY <1>2 DEF EnterCallback
  <1>3. ASSUME NEW s \in Singletons, LeaveCallback(s) PROVE DownIsQuiet'
    BY <1>3 DEF LeaveCallback
  <1>4. ASSUME NEW i \in Instances, Start(i) PROVE DownIsQuiet'
    BY <1>4 DEF Start
  <1>5. ASSUME StartDeviceFinder PROVE DownIsQuiet'
    BY <1>5 DEF StartDeviceFinder
  <1>6. ASSUME StartDeviceFinderFails PROVE DownIsQuiet'
    BY <1>6 DEF StartDeviceFinderFails
  <1>7. ASSUME StartBeatFinder PROVE DownIsQuiet'
    BY <1>7 DEF StartBeatFinder
  <1>8. ASSUME StartBeatFinderFails PROVE DownIsQuiet'
    BY <1>8 DEF StartBeatFinderFails
  <1>9. ASSUME StartUndone PROVE DownIsQuiet'
    BY <1>9 DEF StartUndone
  <1>10. ASSUME NEW i \in Instances, Stop(i) PROVE DownIsQuiet'
    BY <1>10 DEF Stop
  <1>11. ASSUME StopBeatFinderReturns PROVE DownIsQuiet'
    BY <1>11 DEF StopBeatFinderReturns
  <1>12. ASSUME StopDeviceFinderReturns PROVE DownIsQuiet'
    BY <1>12 DEF StopDeviceFinderReturns
  <1>13. ASSUME NEW i \in Instances, StartVirtualCdj(i) PROVE DownIsQuiet'
    BY <1>13 DEF StartVirtualCdj
  <1>14. ASSUME VirtualCdjStarts PROVE DownIsQuiet'
    BY <1>14 DEF VirtualCdjStarts
  <1>15. ASSUME VirtualCdjStartFails PROVE DownIsQuiet'
    BY <1>15 DEF VirtualCdjStartFails
  <1>16. ASSUME NEW i \in Instances, StopVirtualCdj(i) PROVE DownIsQuiet'
    BY <1>16 DEF StopVirtualCdj
  <1>17. ASSUME VirtualCdjStopReturns PROVE DownIsQuiet'
    BY <1>17 DEF VirtualCdjStopReturns
  <1>18. ASSUME NEW i \in Instances, Destroy(i) PROVE DownIsQuiet'
    BY <1>18 DEF Destroy
  <1>19. ASSUME DestroyStops PROVE DownIsQuiet'
    BY <1>19 DEF DestroyStops
  <1>20. ASSUME DestroyNotRunning PROVE DownIsQuiet'
    BY <1>20 DEF DestroyNotRunning
  <1>21. CASE UNCHANGED lifeVars
    BY <1>21
  <1> QED
    BY <1>1, <1>2, <1>3, <1>4, <1>5, <1>6, <1>7, <1>8, <1>9, <1>10, <1>11,
       <1>12, <1>13, <1>14, <1>15, <1>16, <1>17, <1>18, <1>19, <1>20, <1>21
       DEF Next, ThreadNext, AppCall, CallStep

\* A thread is only on its way into objects that are registered, and is quiet
\* when an object takes back its registrations.
LEMMA OwnedNext == IInv /\ [Next]_lifeVars => CallsOwned'
  <1> SUFFICES ASSUME IInv, [Next]_lifeVars PROVE CallsOwned' OBVIOUS
  <1> USE DEF IInv, TypeOK, CallPlaces, Starting, DownIsQuiet, Quiet, Joining,
              UpForUsers, Nobody, CallsOwned, Calls, Registrations,
              BeatRegistered, DeviceRegistered, VirtualCdjRegistered
  <1>1. ASSUME NEW s \in Singletons, Packet(s) PROVE CallsOwned'
    BY <1>1 DEF Packet
  <1>2. ASSUME NEW s \in Singletons, NEW i \in Instances,
               EnterCallback(s, i)
        PROVE  CallsOwned'
    BY <1>2 DEF EnterCallback
  <1>3. ASSUME NEW s \in Singletons, LeaveCallback(s) PROVE CallsOwned'
    BY <1>3 DEF LeaveCallback
  <1>4. ASSUME NEW i \in Instances, Start(i) PROVE CallsOwned'
    BY <1>4 DEF Start
  <1>5. ASSUME StartDeviceFinder PROVE CallsOwned'
    BY <1>5 DEF StartDeviceFinder
  <1>6. ASSUME StartDeviceFinderFails PROVE CallsOwned'
    BY <1>6 DEF StartDeviceFinderFails
  <1>7. ASSUME StartBeatFinder PROVE CallsOwned'
    BY <1>7 DEF StartBeatFinder
  <1>8. ASSUME StartBeatFinderFails PROVE CallsOwned'
    BY <1>8 DEF StartBeatFinderFails
  <1>9. ASSUME StartUndone PROVE CallsOwned'
    BY <1>9 DEF StartUndone
  <1>10. ASSUME NEW i \in Instances, Stop(i) PROVE CallsOwned'
    BY <1>10 DEF Stop
  <1>11. ASSUME StopBeatFinderReturns PROVE CallsOwned'
    BY <1>11 DEF StopBeatFinderReturns
  <1>12. ASSUME StopDeviceFinderReturns PROVE CallsOwned'
    BY <1>12 DEF StopDeviceFinderReturns
  <1>13. ASSUME NEW i \in Instances, StartVirtualCdj(i) PROVE CallsOwned'
    BY <1>13 DEF StartVirtualCdj
  <1>14. ASSUME VirtualCdjStarts PROVE CallsOwned'
    BY <1>14 DEF VirtualCdjStarts
  <1>15. ASSUME VirtualCdjStartFails PROVE CallsOwned'
    BY <1>15 DEF VirtualCdjStartFails
  <1>16. ASSUME NEW i \in Instances, StopVirtualCdj(i) PROVE CallsOwned'
    BY <1>16 DEF StopVirtualCdj
  <1>17. ASSUME VirtualCdjStopReturns PROVE CallsOwned'
    BY <1>17 DEF VirtualCdjStopReturns
  <1>18. ASSUME NEW i \in Instances, Destroy(i) PROVE CallsOwned'
    BY <1>18 DEF Destroy
  <1>19. ASSUME DestroyStops PROVE CallsOwned'
    BY <1>19 DEF DestroyStops
  <1>20. ASSUME DestroyNotRunning PROVE CallsOwned'
    BY <1>20 DEF DestroyNotRunning
  <1>21. CASE UNCHANGED lifeVars
    BY <1>21
  <1> QED
    BY <1>1, <1>2, <1>3, <1>4, <1>5, <1>6, <1>7, <1>8, <1>9, <1>10, <1>11,
       <1>12, <1>13, <1>14, <1>15, <1>16, <1>17, <1>18, <1>19, <1>20, <1>21
       DEF Next, ThreadNext, AppCall, CallStep

\* The inductive invariant holds at every place of every call, whatever the threads do.
THEOREM Invariant == Spec => []IInv
  <1>1. IInv /\ [Next]_lifeVars => IInv'
    BY TypeNext, PlacesNext, SilencedNext, RegistrationsNext, UpNext, QuietNext,
       OwnedNext DEF IInv
  <1> QED BY Initially, <1>1, PTL DEF Spec

-----------------------------------------------------------------------------
\* Every variable stays in its type.
THEOREM TypeCorrect == Spec => []TypeOK
  BY Invariant, PTL DEF IInv

\* Whatever the objects of a process do, a thread only calls into an object
\* that is alive, or that has left a failed start behind (~ofxBeatLink).
THEOREM NoOtherCallOutlives == Spec => []OnlyFailedStartsDangle
  <1>1. IInv => OnlyFailedStartsDangle
    BY DEF IInv, TypeOK, CallPlaces, CallsOwned, Calls, OnlyFailedStartsDangle, Starting
  <1> QED BY <1>1, Invariant, PTL

\* As long as no start() fails, no thread calls into a destroyed object, for
\* any number of objects that start, stop and destroy each other's singletons.
THEOREM NoCallIntoDestroyedUnlessFailed ==
  ASSUME MaxFailed = 0
  PROVE  Spec => []NoCallIntoDestroyed
  <1>1. IInv => NoCallIntoDestroyed
    BY DEF IInv, TypeOK, CallPlaces, CallsOwned, Calls, NoCallIntoDestroyed, Starting
  <1> QED BY <1>1, Invariant, PTL

\* isRunning() and isVirtualCdjRunning() mean that the object is called, unless
\* another object has stopped the singleton under it.
THEOREM RunningObjectsListen == Spec => []RunningIsListening
  <1>1. IInv => RunningIsListening
    BY DEF IInv, TypeOK, SilencedUsers, Users, Registrations, BeatRegistered,
           DeviceRegistered, VirtualCdjRegistered, UpForUsers, RunningIsListening
  <1> QED BY <1>1, Invariant, PTL

\* When the last user of a singleton has stopped it is down and in no callback.
THEOREM StoppedFindersAreQuiet == Spec => []StoppedIsQuiet
  <1>1. IInv => StoppedIsQuiet
    BY DEF IInv, TypeOK, SilencedUsers, Users, UpForUsers, DownIsQuiet, Joining,
           StoppedIsQuiet
  <1> QED BY <1>1, Invariant, PTL

\* An object is registered once for its running start, and once for each one
\* that failed, also when it is dead.
THEOREM RegistrationsAreStarts == Spec => []RegistrationsCountStarts
  <1>1. IInv => RegistrationsCountStarts
    BY DEF IInv, TypeOK, SilencedUsers, Registrations, BeatRegistered,
           DeviceRegistered, VirtualCdjRegistered, Starting, RegistrationsCountStarts
  <1> QED BY <1>1, Invariant, PTL

-----------------------------------------------------------------------------
(***************************************************************************)
(* One object alone in its process, as in the examples: no other silences *)
(* it, and a failed start leaves no finder up that could call it later.    *)
(***************************************************************************)

\* There is one object.
Alone == \E o : Instances = {o}

\* No object counts as started what another has stopped.
NoneSilenced == \A s \in Singletons : silenced[s] = {}

\* The singletons are stopped by their one user only.
LEMMA NoneSilencedNext ==
  ASSUME Alone, IInv, NoneSilenced, [Next]_lifeVars
  PROVE  NoneSilenced'
  <1>1. CASE StopDeviceFinderReturns
    <2>1. running \ {caller} = {}
      BY <1>1 DEF StopDeviceFinderReturns, Alone, IInv, TypeOK, CallPlaces
    <2> QED BY <1>1, <2>1 DEF StopDeviceFinderReturns, NoneSilenced
  <1>2. CASE VirtualCdjStopReturns
    <2>1. vcdj \ {caller} = {}
      BY <1>2 DEF VirtualCdjStopReturns, Alone, IInv, TypeOK, CallPlaces
    <2> QED BY <1>2, <2>1 DEF VirtualCdjStopReturns, NoneSilenced, IInv, TypeOK
  <1>3. CASE VirtualCdjStarts
    BY <1>3 DEF VirtualCdjStarts, NoneSilenced, IInv, TypeOK
  <1>4. CASE StartBeatFinder
    BY <1>4 DEF StartBeatFinder, NoneSilenced, IInv, TypeOK
  <1>5. CASE UNCHANGED silenced
    BY <1>5 DEF NoneSilenced
  <1> QED
    BY <1>1, <1>2, <1>3, <1>4, <1>5
    DEF Next, ThreadNext, AppCall, CallStep, Packet, EnterCallback, LeaveCallback,
        Start, StartDeviceFinder, StartDeviceFinderFails, StartBeatFinder,
        StartBeatFinderFails, StartUndone, Stop, StopBeatFinderReturns,
        StartVirtualCdj, VirtualCdjStartFails, StopVirtualCdj, Destroy, DestroyStops,
        DestroyNotRunning

\* isRunning() and isVirtualCdjRunning() of an object that is alone mean without
\* exception that it is called ("Check if listening", README.md).
THEOREM RunningAloneIsListening ==
  ASSUME Alone
  PROVE  Spec => [](pc = "idle" => \A s \in Singletons : \A i \in Users(s) :
                                      s \in up /\ listeners[s][i] > 0)
  <1> DEFINE Listening == pc = "idle" => \A s \in Singletons : \A i \in Users(s) :
                                            s \in up /\ listeners[s][i] > 0
  <1>1. Init => NoneSilenced
    BY DEF Init, NoneSilenced
  <1>2. IInv /\ NoneSilenced /\ [Next]_lifeVars => NoneSilenced'
    BY NoneSilencedNext
  <1>3. RunningIsListening /\ NoneSilenced => Listening
    BY DEF RunningIsListening, NoneSilenced
  <1> HIDE DEF Listening
  <1>4. Spec => []Listening
    BY <1>1, <1>2, <1>3, Invariant, RunningObjectsListen, PTL DEF Spec
  <1> QED BY <1>4 DEF Listening

\* Once the one object is destroyed every singleton is down and quiet.
LEMMA AloneNoCall ==
  ASSUME Alone, IInv
  PROVE  NoCallIntoDestroyed
  <1> SUFFICES ASSUME NEW s \in Singletons, NEW i \in Instances, i \notin alive
               PROVE  inside[s] # i /\ ~ todo[s][i] > 0
    BY DEF NoCallIntoDestroyed
  <1>1. alive = {} /\ running = {} /\ vcdj = {}
    BY DEF Alone, IInv, TypeOK
  <1>2. caller = None /\ pc = "idle"
    BY <1>1 DEF IInv, CallPlaces, TypeOK, Starting
  <1>3. up = {}
    BY <1>1, <1>2 DEF IInv, UpForUsers, TypeOK
  <1>4. Quiet(s)
    BY <1>2, <1>3 DEF IInv, DownIsQuiet, Joining
  <1> QED BY <1>4 DEF Quiet, Nobody

\* No thread calls into an object that was alone once it is destroyed, whatever
\* starts have failed: it takes a second object to bring the finders up again.
THEOREM AloneIsNotCalledOnceDestroyed ==
  ASSUME Alone
  PROVE  Spec => []NoCallIntoDestroyed
  <1>1. IInv => NoCallIntoDestroyed
    BY AloneNoCall
  <1> QED BY <1>1, Invariant, PTL

-----------------------------------------------------------------------------
\* What is left of a packet: a registration for the start that succeeded and
\* one for each that failed, or one alone of VirtualCdj.
CallsPerPacket ==
    \A i \in Instances : /\ \A s \in Finders : todo[s][i] <= failed[i] + 1
                         /\ todo["VirtualCdj"][i] <= 1

\* A packet takes over the registrations; failed is only cleared when both
\* finders are quiet.
LEMMA CallsPerPacketNext ==
  IInv /\ CallsPerPacket /\ [Next]_lifeVars => CallsPerPacket'
  <1> SUFFICES ASSUME IInv, CallsPerPacket, [Next]_lifeVars PROVE CallsPerPacket'
    OBVIOUS
  <1>0. TypeOK
    BY DEF IInv
  <1>1. ASSUME NEW s \in Singletons, Packet(s) PROVE CallsPerPacket'
    <2>1. /\ listeners["BeatFinder"] \in [Instances -> Nat]
          /\ listeners["DeviceFinder"] \in [Instances -> Nat]
          /\ \A i \in Instances : failed[i] \in Nat
      BY <1>0 DEF TypeOK
    <2>2. \A i \in Instances :
             /\ listeners["BeatFinder"][i] <= failed[i] + 1
             /\ listeners["DeviceFinder"][i] <= failed[i] + 1
             /\ listeners["VirtualCdj"][i] <= 1
      BY <2>1 DEF IInv, Registrations, BeatRegistered, DeviceRegistered,
                  VirtualCdjRegistered
    <2> QED BY <1>0, <1>1, <2>2 DEF Packet, CallsPerPacket, TypeOK
  <1>2. ASSUME NEW s \in Singletons, NEW i \in Instances, EnterCallback(s, i)
        PROVE  CallsPerPacket'
    <2>1. \A r \in Singletons, j \in Instances :
             /\ todo[r][j] \in Nat /\ failed'[j] = failed[j] /\ failed[j] \in Nat
             /\ todo'[r][j] \in {todo[r][j], todo[r][j] - 1}
      BY <1>0, <1>2 DEF EnterCallback, TypeOK
    <2> QED BY <2>1 DEF CallsPerPacket
  <1>3. CASE StopDeviceFinderReturns
    <2>1. Quiet("DeviceFinder") /\ Quiet("BeatFinder")
      BY <1>3 DEF StopDeviceFinderReturns, IInv, UpForUsers, DownIsQuiet, Joining
    <2>2. /\ todo' = todo /\ \A i \in Instances : failed'[i] = 0
          /\ \A i \in Instances : todo["BeatFinder"][i] = 0 /\ todo["DeviceFinder"][i] = 0
      BY <1>3, <2>1 DEF StopDeviceFinderReturns, Quiet, Nobody
    <2> QED BY <2>2 DEF CallsPerPacket
  <1>4. CASE StartDeviceFinderFails \/ StartUndone
    <2>1. \A i \in Instances : failed[i] \in Nat /\ failed'[i] \in {failed[i], failed[i] + 1}
      BY <1>0, <1>4 DEF StartDeviceFinderFails, StartUndone, TypeOK
    <2>2. todo' = todo /\ todo \in [Singletons -> [Instances -> Nat]]
      BY <1>0, <1>4 DEF StartDeviceFinderFails, StartUndone, TypeOK
    <2> QED BY <2>1, <2>2 DEF CallsPerPacket
  <1>5. CASE UNCHANGED <<todo, failed>>
    BY <1>5 DEF CallsPerPacket
  <1> QED
    BY <1>1, <1>2, <1>3, <1>4, <1>5
    DEF Next, ThreadNext, AppCall, CallStep, LeaveCallback,
        Start, StartDeviceFinder, StartBeatFinder,
        StartBeatFinderFails, Stop, StopBeatFinderReturns,
        StartVirtualCdj, VirtualCdjStarts, VirtualCdjStartFails, StopVirtualCdj,
        VirtualCdjStopReturns, Destroy, DestroyStops, DestroyNotRunning

\* A packet calls an object once for the start that succeeded and once for each
\* start that failed since the listeners were cleared, and never more often: the
\* bound of what OneCallPerBeat says, which the run 'retry' violates.
THEOREM CallsCountFailedStarts == Spec => []CallsPerPacket
  <1>1. Init => CallsPerPacket
    BY DEF Init, CallsPerPacket, Nobody
  <1> QED BY <1>1, CallsPerPacketNext, Invariant, PTL DEF Spec

\* Where no start fails, a beat calls onBeat of an object at most once.
THEOREM OneCallUnlessFailed ==
  ASSUME MaxFailed = 0
  PROVE  Spec => []OneCallPerBeat
  <1>1. IInv /\ CallsPerPacket => OneCallPerBeat
    <2> SUFFICES ASSUME IInv, CallsPerPacket, NEW i \in Instances
                 PROVE  todo["BeatFinder"][i] <= 1
      BY DEF OneCallPerBeat
    <2>1. failed[i] = 0
      BY DEF IInv, TypeOK, CallPlaces
    <2> QED BY <2>1 DEF CallsPerPacket
  <1> QED BY <1>1, CallsCountFailedStarts, Invariant, PTL
=============================================================================
