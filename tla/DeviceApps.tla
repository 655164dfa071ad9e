----------------------------- MODULE DeviceApps -----------------------------
(***************************************************************************)
(* The thirteen applications that show devices, each over the same feed of *)
(* events: what their displays say of the network, and when.               *)
(***************************************************************************)
EXTENDS WaveformPlayer, DeviceSlots, DeviceLists, LinkBridge

CONSTANT Apps   \* the applications of this model

appVars == <<monitorVars, waveformVars, slotVars, listVars, counterVars, bridgeVars>>

AppsInit ==
    /\ DeviceAppInit(Apps)
    /\ MonitorInit /\ WaveformInit /\ SlotInit /\ ListInit /\ CounterInit /\ BridgeInit

AppsNext ==
    \/ Around /\ UNCHANGED appVars
    \/ MonitorStep
       /\ UNCHANGED <<waveformVars, slotVars, listVars, counterVars, bridgeVars>>
    \/ WaveformStep /\ UNCHANGED <<slotVars, listVars, counterVars, bridgeVars>>
    \/ SlotStep
       /\ UNCHANGED <<monitorVars, waveformVars, listVars, counterVars, bridgeVars>>
    \/ ListStep
       /\ UNCHANGED <<monitorVars, waveformVars, slotVars, counterVars, bridgeVars>>
    \/ CounterStep
       /\ UNCHANGED <<monitorVars, waveformVars, slotVars, listVars, bridgeVars>>
    \/ BridgeStep /\ UNCHANGED <<monitorVars, waveformVars, slotVars, listVars>>

AppsSpec == AppsInit /\ [][AppsNext]_<<deviceVars, appVars>>

-----------------------------------------------------------------------------
(***************************************************************************)
(* What a display holds of device d.                                       *)
(***************************************************************************)

Panels(d) ==
    CASE app \in Monitors       -> IF PanelOfPlayer(d) THEN 1 ELSE 0
      [] app = "comprehensive"  -> IF PanelOfSlot(d) THEN 1 ELSE 0
      [] app = "basic"          -> LinesOf(d)

\* Devices that application could show: not beyond its panels or slots.
Drawable ==
    CASE app \in FixedPanels     -> 1 .. MaxPanels
      [] app = "comprehensive" -> Slots
      [] OTHER                 -> Devices

ShownBeat(d) ==
    CASE app \in Monitors       -> BeatOfPlayer(d)
      [] app = "comprehensive"  -> BeatOfSlot(d)
      [] app = "basic"          -> BeatOnLine(d)

ShownStatus(d) ==
    CASE app \in Monitors       -> StatusOfPlayer(d)
      [] app = "comprehensive"  -> StatusOfSlot(d)
      [] app = "basic"          -> NoEvent

ShowsDevices == app \in Monitors \cup {"comprehensive", "basic"}

CountsDevices == app \in {"osc", "beatsync", "metronome", "bpm-display", "ableton-link"}

-----------------------------------------------------------------------------
(***************************************************************************)
(* Properties.                                                             *)
(***************************************************************************)

\* All events of kind k are delivered.
Quiet(k) == pending[k] = <<>> /\ ~ Coming(k)

\* Once the last announcement about a device has been delivered (the device
\* handlers of each application), there is one panel, slot or line for it if
\* it is on the network and none if it is not, whatever happened to others,
\* and although arrivals and losses pass through two queues.  Excepted are a
\* device that came or went again before the application had been told of the
\* time before, whose announcements update() may deliver in either order, and
\* in example-basic one that 'r' listed while its arrival was still queued.
DisplayFollowsNetwork ==
    ShowsDevices =>
        \A d \in Drawable \cap Devices :
            ~ Announced(d) /\ d \notin overtaken \cup doubled
            => Panels(d) = IF d \in devices THEN 1 ELSE 0

\* onDeviceLost takes the last beat and the status of its device: no panel shows
\* one that was delivered before the last loss of the device, no player of
\* example-statusmonitor plays without a beat since, and the currentMaster of
\* example-virtualcdj was announced since.  Nothing else is taken: in
\* example-comprehensive the title, the beat history and masterDeviceNumber
\* stay.  Nor does a loss reach what update() delivers after it, a status or a
\* change of master that was queued before it.
LossTakesBeatAndStatus ==
    ShowsDevices =>
        \A d \in Devices :
            /\ d \in Drawable /\ Panels(d) > 0 =>
                   /\ ShownBeat(d) # NoEvent => ShownBeat(d).id > lossSeen[d].beat
                   /\ ShownStatus(d) # NoEvent => ShownStatus(d).id > lossSeen[d].update
                   /\ d \in playing => ShownBeat(d) # NoEvent
            /\ currentMaster = d => delivered["master"] > lossSeen[d].master

\* A count of devices, kept by +1 and by -1 that stops at zero, is the number
\* of devices when all announcements are delivered, but for the losses that
\* came when the count was zero, each of which leaves it one too high for
\* ever; and those need a device whose announcements overtook each other.
\* example-osc, once its beats are delivered too, has sent a message for every
\* beat, arrival and loss on the network, and counts each in one second's rate.
CountFollowsNetwork ==
    CountsDevices /\ AllAnnounced =>
        /\ deviceCount = Cardinality(devices) + hidden
        /\ overtaken = {} => hidden = 0
        /\ app = "osc" /\ Quiet("beat") =>
               /\ messagesSent = Made("beat") + Made("found") + Made("lost")
               /\ messagesSent = rated + thisSecond

\* Entry i of the log of example-osc is the newest of a beat.
NewestBeat(i) == \A j \in 1 .. i : oscLog[j].address = "beat" <=> j = i

\* The beat a display keeps from its events is never ahead of the one that
\* getLatestBeat() returns, and is that one when no beat is under way, also in
\* the bounded histories and the log of example-osc, which drop the oldest.
EventsMatchPoll ==
    LET Matches(e) == e.id <= lastBeat.id /\ (Quiet("beat") => e = lastBeat)
    IN  /\ app \in {"beatsync", "metronome", "bpm-display"} => Matches(latestBeat)
        /\ app = "timeline" /\ beatHistory # <<>> =>
               Matches(Last(beatHistory)) /\ Matches(Last(bpmHistory))
        /\ app = "comprehensive" /\ Quiet("beat") /\ lastBeat.device \in Slots =>
               Last(HistoryOfSlot(lastBeat.device)) = lastBeat
        /\ app = "osc" =>
               \A i \in DOMAIN oscLog : NewestBeat(i) => Matches(oscLog[i].event)
        /\ app = "bpm-display" /\ frame = "idle" => latestBeat.id <= currentBpm.id

(***************************************************************************)
(* The inductive invariants behind them.                                   *)
(***************************************************************************)

FeedEvent == [device : Devices, id : Nat]

\* The queues hold what was pushed and not delivered, numbered without a gap.
FeedOK ==
    /\ devices \subseteq Devices /\ IsFiniteSet(devices)
    /\ pending \in [Kinds -> Seq(FeedEvent)]
    /\ coming \in [{"beat", "found", "lost"} -> FeedEvent \cup {NoEvent}]
    /\ delivered \in [Kinds -> Nat]
    /\ section \in 0 .. Len(Order)
    /\ serving = {} \/ (section # 0 /\ serving = {Kind})
    /\ \A k \in Kinds : \A i \in 1 .. Len(pending[k]) : pending[k][i].id = delivered[k] + i
    /\ \A k \in {"beat", "found", "lost"} :
          Coming(k) => coming[k].id = delivered[k] + Len(pending[k]) + 1
    /\ ~ (Coming("found") /\ Coming("lost"))

\* An announcement of kind k about device d is under way.
In(k, d) ==
    \/ \E i \in 1 .. Len(pending[k]) : pending[k][i].device = d
    \/ coming[k].device = d

\* No two of them are.
Single(k, d) ==
    /\ \A i, j \in 1 .. Len(pending[k]) :
          pending[k][i].device = d /\ pending[k][j].device = d => i = j
    /\ coming[k].device = d => \A i \in 1 .. Len(pending[k]) : pending[k][i].device # d

\* d is announced at most once, as what it is.
AnnouncedOnce(d) ==
    /\ In("found", d) => d \in devices
    /\ In("lost", d) => d \notin devices
    /\ Single("found", d) /\ Single("lost", d)

OneAnnouncement == \A d \in Devices \ overtaken : AnnouncedOnce(d)

\* An application without VirtualCdj is handed no event of it.
OnlyAsked ==
    app \notin UseVirtualCdj => /\ virtualCdj = FALSE
                                /\ pending["update"] = <<>> /\ pending["master"] = <<>>

\* The devices an application that follows its events takes to be there.
Told == {d \in Devices : In("lost", d) \/ (d \in devices /\ ~ In("found", d))}

\* Events of kind k that are under way.
Waiting(k) == Len(pending[k]) + (IF Coming(k) THEN 1 ELSE 0)

CountOK ==
    /\ deviceCount \in Nat /\ hidden \in Nat
    /\ deviceCount + Waiting("found") = Cardinality(devices) + hidden + Waiting("lost")
    /\ overtaken = {} => /\ hidden = 0
                         /\ IsFiniteSet(Told) /\ deviceCount = Cardinality(Told)

SentOK ==
    /\ messagesSent \in Nat /\ thisSecond \in Nat /\ rated \in Nat
    /\ messagesSent = delivered["beat"] + delivered["found"] + delivered["lost"]
    /\ messagesSent = rated + thisSecond

\* The cached beat is the last there was, on its way or queued if it is not
\* delivered.
BeatOK ==
    /\ lastBeat \in FeedEvent \cup {NoEvent}
    /\ lastBeat.id = Made("beat")
    /\ Coming("beat") => coming["beat"] = lastBeat
    /\ ~ Coming("beat") /\ pending["beat"] # <<>> =>
           pending["beat"][Len(pending["beat"])] = lastBeat

\* e is the last beat that was delivered.
Kept(e) == e.id = delivered["beat"] /\ (Quiet("beat") => e = lastBeat)

HistoriesKeep ==
    /\ beatHistory \in Seq(FeedEvent) /\ bpmHistory \in Seq(FeedEvent)
    /\ beatHistory = <<>> <=> bpmHistory = <<>>
    /\ beatHistory # <<>> => Kept(Last(beatHistory)) /\ Kept(Last(bpmHistory))

SlotsKeep ==
    /\ \A d \in Slots : slots[d].beatHistory \in Seq(FeedEvent)
    /\ Quiet("beat") /\ lastBeat.device \in Slots =>
           LET h == slots[lastBeat.device].beatHistory IN h # <<>> /\ Last(h) = lastBeat

LogEntry == [address : Kinds \cup {"setup"}, event : FeedEvent \cup {NoEvent}]

LogKeeps ==
    /\ oscLog \in Seq(LogEntry)
    /\ \A i \in 1 .. Len(oscLog) : NewestBeat(i) => Kept(oscLog[i].event)

\* What EventsMatchPoll says of the five applications.
BeatsKept ==
    /\ app \in {"beatsync", "metronome", "bpm-display"} => Kept(latestBeat)
    /\ app = "bpm-display" => /\ currentBpm \in FeedEvent \cup {NoEvent}
                              /\ latestBeat.id <= currentBpm.id
    /\ app = "timeline" => HistoriesKeep
    /\ app = "comprehensive" => SlotsKeep
    /\ app = "osc" => LogKeeps

Playhead == [position : 0 .. Bars * BarLength, bpm : 0 .. BarLength, onBeat : BOOLEAN]

\* Each player of example-waveform has a playhead, in the waveform.
HeadsOK ==
    /\ DOMAIN heads = DOMAIN players
    /\ \A d \in DOMAIN players : heads[d] \in Playhead

\* example-basic has an entry for a device it takes to be there, and none for
\* another, until it has been told of its loss.
EntriesOK ==
    /\ deviceList \in [Devices -> Nat]
    /\ \A d \in Devices \ (overtaken \cup doubled) :
          In("lost", d) \/ deviceList[d] = IF d \in Told THEN 1 ELSE 0

\* The devices an application of those with panels holds one for.
Held == IF app \in Monitors THEN DOMAIN players ELSE {d \in Slots : slots[d].connected}

SlotFields ==
    DOMAIN slots = Slots /\ \A d \in Slots : DOMAIN slots[d] = DOMAIN EmptySlot

PanelsOK == \A d \in (Drawable \cap Devices) \ overtaken : d \in Held <=> d \in Told

\* e, of kind k, is no event or one delivered since the last loss of d.
Since(e, k, d) == e = NoEvent \/ (e \in FeedEvent /\ lossSeen[d][k] < e.id)

PlayersForget ==
    /\ \A d \in DOMAIN players :
          /\ d \in Devices
          /\ players[d] \in [status : FeedEvent \cup {NoEvent}, lastBeat : FeedEvent \cup {NoEvent}]
          /\ Since(players[d].lastBeat, "beat", d)
          /\ Since(players[d].status, "update", d)
          /\ app = "statusmonitor" => players[d].status = NoEvent
    /\ \A d \in Devices : currentMaster = d => lossSeen[d]["master"] < delivered["master"]
    /\ app # "statusmonitor" => playing = {}
    /\ \A d \in playing : d \in DOMAIN players /\ players[d].lastBeat # NoEvent

SlotsForget ==
    \A d \in Slots \cap Devices : /\ Since(slots[d].lastBeat, "beat", d)
                                  /\ Since(slots[d].status, "update", d)

LinesForget == \A d \in DOMAIN deviceBeats : d \in Devices /\ Since(deviceBeats[d], "beat", d)

LossType ==
    /\ lossSeen \in [Devices -> [{"beat", "update", "master"} -> Nat]]
    /\ \A d \in Devices : \A k \in {"beat", "update", "master"} : lossSeen[d][k] <= delivered[k]

ForgetOK ==
    /\ LossType
    /\ app \in Monitors => PlayersForget
    /\ app \notin Monitors => playing = {} /\ currentMaster = NoMaster
    /\ app = "comprehensive" => SlotsForget
    /\ app = "basic" => LinesForget

IndInv == /\ FeedOK /\ OneAnnouncement /\ OnlyAsked /\ SlotFields /\ ForgetOK
          /\ BeatOK /\ BeatsKept
          /\ app = "waveform" => HeadsOK
          /\ app = "basic" => EntriesOK
          /\ CountsDevices => CountOK
          /\ app = "osc" => SentOK
          /\ ShowsDevices /\ app # "basic" => PanelsOK
=============================================================================
