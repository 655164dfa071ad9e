----------------------------- MODULE DeviceLists ----------------------------
(***************************************************************************)
(* Two applications that append.  example-basic keeps a vector of devices, *)
(* to which every deviceFoundEvent adds one, and which a key replaces by   *)
(* what getCurrentDevices() returns; of the order of the vector nothing    *)
(* depends, so it is kept as the number of entries per device.  Beside it, *)
(* the last beat per device.  example-timeline keeps the last beats and    *)
(* tempi whatever their device.                                            *)
(***************************************************************************)
EXTENDS DeviceApp

CONSTANTS
    MaxHistory,     \* MAX_HISTORY
    MaxBpmSamples   \* MAX_BPM_SAMPLES

ASSUME ListsAssumption == MaxHistory \in Nat \ {0} /\ MaxBpmSamples \in Nat \ {0}

VARIABLES
    deviceList,     \* devices, in example-basic: entries per device
    deviceBeats,    \* deviceBeats
    doubled,        \* history: devices refreshed while their arrival was queued
    beatHistory,    \* beatHistory
    bpmHistory      \* bpmHistory

listVars == <<deviceList, deviceBeats, doubled, beatHistory, bpmHistory>>

ListInit ==
    /\ deviceList = [d \in Devices |-> 0] /\ deviceBeats = <<>> /\ doubled = {}
    /\ beatHistory = <<>> /\ bpmHistory = <<>>

-----------------------------------------------------------------------------
\* The listeners of example-basic.  A beat needs no entry in the list.
Basic ==
    LET e == Handed
    IN  /\ app = "basic"
        /\ \/ /\ Kind = "beat"
              /\ deviceBeats' = [d \in DOMAIN deviceBeats \cup {e.device} |->
                                   IF d = e.device THEN e ELSE deviceBeats[d]]
              /\ UNCHANGED <<deviceList, doubled>>
           \/ /\ Kind = "found"
              /\ deviceList' = [deviceList EXCEPT ![e.device] = @ + 1]
              /\ UNCHANGED <<deviceBeats, doubled>>
           \/ /\ Kind = "lost"
              /\ deviceList' = [deviceList EXCEPT ![e.device] = 0]
              /\ deviceBeats' = [d \in DOMAIN deviceBeats \ {e.device} |-> deviceBeats[d]]
              /\ doubled' = doubled \ {e.device}
        /\ UNCHANGED <<beatHistory, bpmHistory>>

\* 'r': the device table as it is, whatever is still queued.
Refresh ==
    /\ app = "basic"
    /\ Key
    /\ deviceList' = [d \in Devices |-> IF d \in devices THEN 1 ELSE 0]
    /\ doubled' = {d \in devices : Announced(d)}
    /\ overtaken' = {d \in overtaken : Announced(d)}
    /\ UNCHANGED <<virtualCdj, deviceBeats, beatHistory, bpmHistory>>

\* The listeners of example-timeline; arrivals and losses are only logged.
Timeline ==
    /\ app = "timeline"
    /\ IF Kind = "beat"
       THEN /\ beatHistory' = Recent(Append(beatHistory, Handed), MaxHistory)
            /\ bpmHistory' = Recent(Append(bpmHistory, Handed), MaxBpmSamples)
       ELSE UNCHANGED <<beatHistory, bpmHistory>>
    /\ UNCHANGED <<deviceList, deviceBeats, doubled>>

\* 'c'
Clear ==
    /\ app = "timeline"
    /\ Key
    /\ beatHistory' = <<>> /\ bpmHistory' = <<>>
    /\ UNCHANGED <<virtualCdj, overtaken, deviceList, deviceBeats, doubled>>

ListStep ==
    \/ Listener /\ (Basic \/ Timeline)
    \/ app \in {"basic", "timeline"} /\ EndFrame /\ UNCHANGED listVars
    \/ Refresh
    \/ Clear

-----------------------------------------------------------------------------
\* What example-basic draws: a line per entry, with the beat of its device.
LinesOf(d) == deviceList[d]
BeatOnLine(d) == IF d \in DOMAIN deviceBeats THEN deviceBeats[d] ELSE NoEvent
=============================================================================
