--------------------------- MODULE DeviceCounters ---------------------------
(***************************************************************************)
(* Four applications that only count devices, one up at a                  *)
(* deviceFoundEvent and one down, but not below zero, at a                 *)
(* deviceLostEvent: example-osc, which sends a message for every event,    *)
(* -beatsync and -metronome, which keep the latest beat, and -bpm-display, *)
(* which also asks getLatestBeat() for the tempo in every frame.           *)
(***************************************************************************)
EXTENDS DeviceApp, SequencesExt

CONSTANT MaxOscLog  \* MAX_OSC_LOG

ASSUME CountersAssumption == MaxOscLog \in Nat \ {0}

VARIABLES
    deviceCount,    \* deviceCount, connectedDevices
    hidden,         \* history: losses that found the count at zero
    latestBeat,     \* latestBeat; in bpm-display, the beat of currentBeat
    currentBpm,     \* the beat that currentBpm and masterDeviceName come from
    messagesSent,   \* messagesSent
    thisSecond,     \* messageCountLastSecond
    perSecond,      \* messagesPerSecond
    rated,          \* history: sum of all rates there have been
    oscLog          \* oscLog: what was sent, newest first

oscVars     == <<messagesSent, thisSecond, perSecond, rated, oscLog>>
counterVars == <<deviceCount, hidden, latestBeat, currentBpm, oscVars>>

CounterInit ==
    /\ deviceCount = 0 /\ hidden = 0
    /\ latestBeat = NoEvent /\ currentBpm = NoEvent
    /\ messagesSent = 0 /\ thisSecond = 0 /\ perSecond = 0 /\ rated = 0
    /\ oscLog = <<[address |-> "setup", event |-> NoEvent]>>

-----------------------------------------------------------------------------
\* Mutant: the count is not kept from falling below zero.
LessUnclamped(n) == n - 1

\* std::max(0, n - 1)
Less(n) == IF n > 0 THEN n - 1 ELSE 0

CountDevice ==
    /\ deviceCount' = CASE Kind = "found" -> deviceCount + 1
                        [] Kind = "lost"  -> Less(deviceCount)
                        [] OTHER          -> deviceCount
    /\ hidden' = IF Kind = "lost" /\ deviceCount = 0 THEN hidden + 1 ELSE hidden

KeepBeat == latestBeat' = IF Kind = "beat" THEN Handed ELSE latestBeat

\* addOscLog: emplace_front and pop_back.
Logged(entry) ==
    LET log == <<entry>> \o oscLog
    IN  IF Len(log) > MaxOscLog THEN Front(log) ELSE log

Osc ==
    /\ app = "osc"
    /\ CountDevice
    /\ messagesSent' = messagesSent + 1 /\ thisSecond' = thisSecond + 1
    /\ oscLog' = Logged([address |-> Kind, event |-> Handed])
    /\ UNCHANGED <<latestBeat, currentBpm, perSecond, rated>>

\* update() counts anew in the first frame after a second or more.
OscRate ==
    /\ app = "osc"
    /\ EndFrame
    /\ \/ /\ perSecond' = thisSecond /\ thisSecond' = 0
          /\ rated' = rated + thisSecond
       \/ UNCHANGED <<perSecond, thisSecond, rated>>
    /\ UNCHANGED <<deviceCount, hidden, latestBeat, currentBpm, messagesSent, oscLog>>

BeatSync ==
    /\ app = "beatsync"
    /\ CountDevice /\ KeepBeat
    /\ UNCHANGED <<currentBpm, oscVars>>

Metronome ==
    /\ app = "metronome"
    /\ CountDevice /\ KeepBeat
    /\ UNCHANGED <<currentBpm, oscVars>>

BpmDisplay ==
    /\ app = "bpm-display"
    /\ CountDevice /\ KeepBeat
    /\ currentBpm' = IF Kind = "beat" THEN Handed ELSE currentBpm
    /\ UNCHANGED oscVars

\* bpm-display takes tempo and name from the cached beat, which may be ahead
\* of the events; the beat number stays that of the last event.
AskBeat ==
    /\ app = "bpm-display"
    /\ EndFrame
    /\ currentBpm' = IF lastBeat = NoEvent THEN currentBpm ELSE lastBeat
    /\ UNCHANGED <<deviceCount, hidden, latestBeat, oscVars>>

CounterStep ==
    \/ Listener /\ (Osc \/ BeatSync \/ Metronome \/ BpmDisplay)
    \/ AskBeat
    \/ OscRate
    \/ app \in {"beatsync", "metronome"} /\ EndFrame /\ UNCHANGED counterVars
=============================================================================
