----------------------------- MODULE LinkBridge -----------------------------
(***************************************************************************)
(* example-ableton-link, built with USE_ABLETON_LINK: a counter of devices *)
(* that passes the tempo of DJ Link on to Ableton Link, or takes Link's.   *)
(* Of the Link session only the calls it receives are kept; the tempo of a *)
(* beat is positive, so currentBpm > 0 holds throughout.                   *)
(***************************************************************************)
EXTENDS DeviceCounters

VARIABLES
    beatAlpha,      \* beatAlpha, in percent; 0 for what is below 90
    currentBeat,    \* currentBeat, a downbeat (1) or another (2)
    linkEnabled,    \* linkEnabled
    followDjLink,   \* followDjLink
    linkCalls       \* what the last updateLink() called on the session

bridgeVars == <<beatAlpha, currentBeat, linkEnabled, followDjLink, linkCalls>>

BridgeInit ==
    /\ beatAlpha = 0 /\ currentBeat = 1
    /\ linkEnabled = TRUE /\ followDjLink = TRUE
    /\ linkCalls = {}

-----------------------------------------------------------------------------
BridgeListener ==
    /\ CountDevice
    /\ \/ Kind = "beat" /\ currentBeat' \in {1, 2} /\ beatAlpha' = 100
       \/ Kind # "beat" /\ UNCHANGED <<currentBeat, beatAlpha>>
    /\ UNCHANGED <<latestBeat, currentBpm, oscVars, linkEnabled, followDjLink, linkCalls>>

\* beatAlpha *= 0.9f
Decay == beatAlpha' = IF beatAlpha = 100 THEN 90 ELSE 0

\* updateLink() comes after the decay.
LinkCalls ==
    IF ~ linkEnabled THEN {}
    ELSE IF ~ followDjLink THEN {"getTempo"}
    ELSE {"setTempo"} \cup (IF beatAlpha' > 90 /\ currentBeat = 1 THEN {"setBeat"} ELSE {})

UpdateLink ==
    /\ EndFrame
    /\ Decay
    /\ linkCalls' = LinkCalls
    /\ UNCHANGED <<counterVars, currentBeat, linkEnabled, followDjLink>>

\* 'l' and 'f'
Toggle ==
    /\ Key
    /\ \/ linkEnabled' = ~ linkEnabled /\ UNCHANGED followDjLink
       \/ followDjLink' = ~ followDjLink /\ UNCHANGED linkEnabled
    /\ UNCHANGED <<virtualCdj, overtaken, counterVars, beatAlpha, currentBeat, linkCalls>>

BridgeStep ==
    /\ app = "ableton-link"
    /\ \/ Listener /\ BridgeListener
       \/ UpdateLink
       \/ Toggle

-----------------------------------------------------------------------------
\* "Sync beat phase on downbeats" (the comment in updateLink()): a frame that
\* pushes the tempo and was handed a downbeat also resets the session's beat.
DownbeatSyncs ==
    /\ frame = "idle" /\ beatAlpha = 90 /\ currentBeat = 1
    /\ "setTempo" \in linkCalls
    => "setBeat" \in linkCalls
=============================================================================
