----------------------------- MODULE DeviceApp ------------------------------
(***************************************************************************)
(* What the applications that show devices have in common: a frame calls   *)
(* beatLink.update() and then does its own work; keys come between two     *)
(* frames.  A listener runs as part of the delivery of its event: it reads *)
(* and writes the application alone, which no other thread touches.        *)
(*                                                                         *)
(* An event is its device and its position; what else it carries is chosen *)
(* where a listener depends on it.                                         *)
(***************************************************************************)
EXTENDS EventFeed, FiniteSetsExt

CONSTANT MaxTotal   \* bound of the model: callbacks of all kinds together

VARIABLES
    app,        \* the application that runs
    frame,      \* it is in ofApp::update(), or idle between two frames
    virtualCdj, \* VirtualCdj runs for it
    overtaken,  \* history: devices announced again before it had the last
    lossSeen    \* history: per device, what it had been handed at its loss

deviceVars == <<feedVars, app, frame, virtualCdj, overtaken, lossSeen>>

\* Applications that start VirtualCdj, and those with a key that toggles it.
UseVirtualCdj    == {"virtualcdj", "cdjstatus", "comprehensive"}
ToggleVirtualCdj == {"virtualcdj", "comprehensive"}

NoLoss == [beat |-> 0, update |-> 0, master |-> 0]

\* setup(): VirtualCdj may fail to start.
DeviceAppInit(apps) ==
    /\ Init
    /\ app \in apps
    /\ frame = "idle"
    /\ virtualCdj \in (IF app \in UseVirtualCdj THEN BOOLEAN ELSE {FALSE})
    /\ overtaken = {}
    /\ lossSeen = [d \in Devices |-> NoLoss]

-----------------------------------------------------------------------------
\* Announcements of d that the application does not have yet.
Announced(d) ==
    \/ \E k \in {"found", "lost"} : \E i \in 1 .. Len(pending[k]) : pending[k][i].device = d
    \/ coming["found"].device = d
    \/ coming["lost"].device = d

AllAnnounced == \A d \in Devices : ~ Announced(d)

\* The network goes on; an announcement may overtake the one before it.
Network ==
    /\ MapThenSumSet(Made, Kinds) < MaxTotal
    /\ \E d \in Devices :
          \/ OnBeat(d)
          \/ OnDeviceFound(d)
          \/ OnDeviceLost(d)
          \/ virtualCdj /\ (Notify("update", d) \/ Notify("master", d))
    /\ overtaken' = overtaken \cup
          {d \in Devices : (d \in devices) # (d \in devices') /\ Announced(d)}
    /\ UNCHANGED <<app, frame, virtualCdj, lossSeen>>

\* The application calls beatLink.update() at the start of its frame.
BeginFrame ==
    /\ frame = "idle" /\ frame' = "update"
    /\ Update
    /\ UNCHANGED <<app, virtualCdj, overtaken, lossSeen>>

\* The application takes no part in this.
Around ==
    \/ Network
    \/ BeginFrame
    \/ /\ Take \/ Finish \/ \E k \in Kinds : Publish(k)
       /\ UNCHANGED <<app, frame, virtualCdj, overtaken, lossSeen>>

-----------------------------------------------------------------------------
Handed == Head(pending[Kind])

\* An event is delivered; its listener is a conjunct of the application's.
Listener ==
    /\ Deliver
    /\ lossSeen' = IF Kind = "lost"
                   THEN [lossSeen EXCEPT ![Handed.device] =
                           [k \in DOMAIN NoLoss |-> delivered[k]]]
                   ELSE lossSeen
    /\ UNCHANGED <<app, frame, virtualCdj, overtaken>>

\* The rest of ofApp::update(); likewise.
EndFrame ==
    /\ frame = "update" /\ section = 0
    /\ frame' = "idle"
    /\ UNCHANGED <<feedVars, app, virtualCdj, overtaken, lossSeen>>

\* A key, between two frames; likewise.
Key ==
    /\ frame = "idle"
    /\ UNCHANGED <<feedVars, app, frame, lossSeen>>

\* 'v' stops VirtualCdj, or starts it, which may fail.
KeyVirtualCdj ==
    /\ app \in ToggleVirtualCdj
    /\ Key
    /\ virtualCdj' \in {~ virtualCdj, FALSE}
    /\ UNCHANGED overtaken

-----------------------------------------------------------------------------
\* Mutant: the history is cut at the wrong end.
RecentCutsNewest(s, n) == SubSeq(s, 1, IF Len(s) > n THEN n ELSE Len(s))

\* push_back and pop_front: the last n of s.
Recent(s, n) == IF Len(s) > n THEN SubSeq(s, Len(s) - n + 1, Len(s)) ELSE s
=============================================================================
