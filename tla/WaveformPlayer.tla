--------------------------- MODULE WaveformPlayer ---------------------------
(***************************************************************************)
(* The playhead of example-waveform: a player of PlayerMonitor with a      *)
(* position in a waveform of some bars, moved in every frame by the time   *)
(* since lastBeatTime, at the tempo of the last beat, round and round.     *)
(*                                                                         *)
(* A frame lasts one unit of time.  Positions are counted in units that    *)
(* every tempo of the model crosses a whole number of in a frame; the      *)
(* program's are fractions of 1, the end of the waveform.                  *)
(***************************************************************************)
EXTENDS PlayerMonitor

CONSTANTS
    BarLength,  \* barLength, 4 of the 32 beats of the waveform
    Bars,       \* bars in the waveform
    Tempi       \* units a player of the model crosses in a frame

ASSUME WaveformAssumption == /\ BarLength \in Nat \ {0} /\ Bars \in Nat \ {0}
                             /\ Tempi \subseteq 1 .. BarLength

VARIABLE
    heads       \* per player: playheadPosition, bpm, and whether a beat was
                \* handed over in this frame (lastBeatTime is now)

waveformVars == heads

NewHead == [position |-> 0, bpm |-> 0, onBeat |-> FALSE]

WaveformInit == heads = <<>>

-----------------------------------------------------------------------------
\* std::fmod(playheadPosition, barLength)
InFirstBar(position) == position % BarLength

\* lastBeatTime becomes now, in the middle of the frame.  A beat of a device
\* that is no player is dropped.
BeatHead(d) ==
    IF d \in DOMAIN heads
    THEN \E bpm \in Tempi, downbeat \in BOOLEAN :
            heads' = [heads EXCEPT ![d] =
                        [position |-> IF downbeat THEN InFirstBar(@.position)
                                                  ELSE @.position,
                         bpm |-> bpm, onBeat |-> TRUE]]
    ELSE UNCHANGED heads

Entered(f, d, new) == [e \in DOMAIN f \cup {d} |-> IF e = d THEN new ELSE f[e]]
Erased(f, d) == [e \in DOMAIN f \ {d} |-> f[e]]

WaveformListener ==
    LET d == Handed.device
    IN  \/ Kind = "beat"  /\ BeatHead(d)
        \/ Kind = "found" /\ heads' = Entered(heads, d, NewHead)
        \/ Kind = "lost"  /\ heads' = Erased(heads, d)

\* The loop that keeps the playhead within 0 .. 1, both included.
Wrapped(position) == IF position > Bars * BarLength THEN position - Bars * BarLength
                                                    ELSE position

\* updatePlayhead(): no time has passed since a beat this frame was handed.
MovedHead(h) == [h EXCEPT !.position = IF h.onBeat THEN @ ELSE Wrapped(@ + h.bpm),
                          !.onBeat = FALSE]

MoveHeads == heads' = [d \in DOMAIN heads |-> MovedHead(heads[d])]

WaveformStep ==
    /\ app = "waveform"
    /\ \/ Listener /\ Passive /\ WaveformListener
       \/ EndFrame /\ MoveHeads /\ UNCHANGED <<players, currentMaster>>
    /\ UNCHANGED playing
=============================================================================
