---------------------------- MODULE MCDeviceApps ----------------------------
(***************************************************************************)
(* Small instances of DeviceApps for TLC.                                  *)
(***************************************************************************)
EXTENDS DeviceApps

Counts(beats, founds, losts, updates, masters) ==
    [k \in Kinds |-> CASE k = "beat"   -> beats
                       [] k = "found"  -> founds
                       [] k = "lost"   -> losts
                       [] k = "update" -> updates
                       [] k = "master" -> masters]

AllApps == Monitors \cup {"comprehensive", "basic", "timeline", "osc", "beatsync",
                          "metronome", "bpm-display", "ableton-link"}

\* Two beats; a device that may go and come back; a status and a new master.
ComeAndGo == Counts(2, 2, 1, 1, 1)

\* Announcements alone: a device that comes, goes and comes back.
Announcements == Counts(0, 2, 1, 0, 0)

\* A beat.
OneBeat == Counts(1, 0, 0, 0, 0)
=============================================================================
