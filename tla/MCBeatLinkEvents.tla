-------------------------- MODULE MCBeatLinkEvents --------------------------
(***************************************************************************)
(* Small instances of BeatLinkEvents for TLC: how many callbacks of each   *)
(* kind an instance makes.                                                 *)
(***************************************************************************)
EXTENDS BeatLinkEvents

Counts(beats, founds, losts, updates, masters) ==
    [k \in Kinds |-> CASE k = "beat"   -> beats
                       [] k = "found"  -> founds
                       [] k = "lost"   -> losts
                       [] k = "update" -> updates
                       [] k = "master" -> masters]

\* Two beats, so that one is cached while the other waits, a device that comes
\* and goes, and a status or a new master.
SafetyEvents == Counts(2, 1, 1, 1, 1)

OneOfVirtualCdj == made["update"] + made["master"] <= 1
=============================================================================
