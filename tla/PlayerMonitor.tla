---------------------------- MODULE PlayerMonitor ----------------------------
(***************************************************************************)
(* Five applications that keep a map of players, entered by                *)
(* deviceFoundEvent and erased by deviceLostEvent, with the last beat and  *)
(* status of each: example-virtualcdj, which also keeps the number of the  *)
(* tempo master, -cdjstatus, -statusmonitor, -multidevice and -waveform,   *)
(* which moves a playhead too (WaveformPlayer).                            *)
(***************************************************************************)
EXTENDS DeviceApp

CONSTANTS
    NoMaster,   \* currentMaster has no value
    MaxPanels   \* MAX_PLAYERS, MAX_DEVICES: panels drawn

ASSUME MonitorAssumption == NoMaster \notin Devices /\ MaxPanels \in Nat

Monitors == {"virtualcdj", "cdjstatus", "statusmonitor", "multidevice", "waveform"}

VARIABLES
    players,        \* players or devices: what is known of each entered
    currentMaster,  \* currentMaster
    playing         \* players whose isPlaying is set, in statusmonitor

monitorVars == <<players, currentMaster, playing>>

NewPlayer == [status |-> NoEvent, lastBeat |-> NoEvent]

MonitorInit == players = <<>> /\ currentMaster = NoMaster /\ playing = {}

-----------------------------------------------------------------------------
(***************************************************************************)
(* The listeners, for the event e that update() hands over.                *)
(***************************************************************************)

onBeat(e) ==
    /\ players' = [d \in DOMAIN players |->
                     IF d = e.device THEN [players[d] EXCEPT !.lastBeat = e]
                                     ELSE players[d]]
    /\ UNCHANGED currentMaster

onDeviceFound(e) ==
    /\ players' = [d \in DOMAIN players \cup {e.device} |->
                     IF d = e.device THEN NewPlayer ELSE players[d]]
    /\ UNCHANGED currentMaster

\* Mutant: a lost player stays in the map.
onDeviceLostKeeps(e) ==
    /\ currentMaster' = IF currentMaster = e.device THEN NoMaster ELSE currentMaster
    /\ UNCHANGED players

\* Mutant: a lost player stays the tempo master.
onDeviceLostKeepsMaster(e) ==
    /\ players' = [d \in DOMAIN players \ {e.device} |-> players[d]]
    /\ UNCHANGED currentMaster

onDeviceLost(e) ==
    /\ currentMaster' = IF currentMaster = e.device THEN NoMaster ELSE currentMaster
    /\ players' = [d \in DOMAIN players \ {e.device} |-> players[d]]

onDeviceUpdate(e) ==
    /\ players' = [d \in DOMAIN players |->
                     IF d = e.device THEN [players[d] EXCEPT !.status = e]
                                     ELSE players[d]]
    /\ UNCHANGED currentMaster

onMasterChanged(e) ==
    /\ currentMaster' = e.device
    /\ UNCHANGED players

\* All five listen to these three.
Passive ==
    \/ Kind = "beat"  /\ onBeat(Handed)
    \/ Kind = "found" /\ onDeviceFound(Handed)
    \/ Kind = "lost"  /\ onDeviceLost(Handed)

VirtualCdjMonitor ==
    /\ app = "virtualcdj"
    /\ \/ Passive
       \/ Kind = "update" /\ onDeviceUpdate(Handed)
       \/ Kind = "master" /\ onMasterChanged(Handed)
    /\ UNCHANGED playing

CdjStatus ==
    /\ app = "cdjstatus"
    /\ \/ Passive
       \/ Kind = "update" /\ onDeviceUpdate(Handed)
       \/ Kind = "master" /\ UNCHANGED <<players, currentMaster>>
    /\ UNCHANGED playing

\* A player plays from a beat on, and no longer when it is entered anew.
StatusMonitor ==
    /\ app = "statusmonitor"
    /\ Passive
    /\ playing' = IF Kind = "beat" THEN playing \cup ({Handed.device} \cap DOMAIN players)
                                  ELSE playing \ {Handed.device}

\* update(): isPlaying ends when the last beat is PLAYING_TIMEOUT_MS old.
PlayingTimeout ==
    IF app = "statusmonitor" THEN playing' \in SUBSET playing ELSE UNCHANGED playing

MultiDevice == app = "multidevice" /\ Passive /\ UNCHANGED playing

MonitorStep ==
    \/ /\ Listener
       /\ VirtualCdjMonitor \/ CdjStatus \/ StatusMonitor \/ MultiDevice
    \/ /\ app \in Monitors \ {"waveform"}
       /\ EndFrame
       /\ PlayingTimeout
       /\ UNCHANGED <<players, currentMaster>>
    \/ app = "virtualcdj" /\ KeyVirtualCdj /\ UNCHANGED monitorVars

-----------------------------------------------------------------------------
(***************************************************************************)
(* What is drawn.                                                          *)
(***************************************************************************)

\* Some draw a fixed number of panels, the others one per player.
FixedPanels == {"virtualcdj", "statusmonitor", "multidevice"}

PanelOfPlayer(d) ==
    /\ d \in DOMAIN players
    /\ app \in FixedPanels => d <= MaxPanels

\* The status in a panel, and the beat, which stands in where there is none.
StatusOfPlayer(d) == players[d].status
BeatOfPlayer(d) == IF players[d].status = NoEvent THEN players[d].lastBeat ELSE NoEvent

-----------------------------------------------------------------------------
\* "Fired when device appears", "Fired when device disappears" (README.md,
\* Basic Events): when every announcement is delivered, the players are the
\* devices of the network.
PlayersAreDevices == app \in Monitors /\ AllAnnounced => DOMAIN players = devices
=============================================================================
