----------------------------- MODULE MCBeatLink -----------------------------
(***************************************************************************)
(* Small instances of BeatLink for TLC.                                    *)
(***************************************************************************)
EXTENDS BeatLink

Counts(beats, founds, losts, updates, masters) ==
    [k \in Kinds |-> CASE k = "beat"   -> beats
                       [] k = "found"  -> founds
                       [] k = "lost"   -> losts
                       [] k = "update" -> updates
                       [] k = "master" -> masters]

\* One callback of each kind, so that every thread meets every mutex, and a
\* device that comes and goes.
Few == Counts(1, 1, 1, 1, 1)

\* A beat that is dispatched while the next one arrives.
TwoBeats == Counts(2, 0, 0, 0, 0)
=============================================================================
