---------------------------- MODULE TrackViewers ----------------------------
(***************************************************************************)
(* Five applications that show what the ANLZ files say of a track:         *)
(* example-cue-points, example-song-structure, example-beat-grid,          *)
(* example-color-waveform and example-3band-waveform.                      *)
(*                                                                         *)
(* Database and ANLZ folder are dropped one after the other, in any order  *)
(* and any number of times.  The first two applications put the cursor     *)
(* back when a database is loaded; the other three leave it where it was.  *)
(***************************************************************************)
EXTENDS RekordboxApp

CONSTANTS
    Length,     \* per track, its length in steps of the playhead
    Whole       \* steps of a playhead that is a fraction of the track

ASSUME LengthAssumption == \A t \in Tracks : Length[t] \in Nat

Viewers == {"cue-points", "song-structure"} \cup Wanderers

\* The kinds of data an application asks for.
KindsOf == [a \in Viewers |->
              CASE a = "cue-points"     -> {"cues"}
                [] a = "song-structure" -> {"structure", "grid"}
                [] a = "beat-grid"      -> {"grid"}
                [] OTHER                -> {"waveforms"}]

VARIABLES
    anlzLoaded, \* anlzLoaded, which is never reset
    playhead    \* playheadPosition, playheadBeat or playheadMs

viewerVars == <<anlzLoaded, playhead>>

ViewerInit == anlzLoaded = FALSE /\ playhead = 0

\* Mutant: the data of the track before is kept where there is none.
DataKept(t) == LET found == Find(KindsOf[app], t) IN IF found # {} THEN found ELSE data

DataOf(t) == Find(KindsOf[app], t)

\* Mutant: the playhead stays where it is.
Unmoved == playhead

Rewound == 0

\* selectTrack(i) in the list l, with this anlzLoaded, of a database that has
\* its ANLZ files or not.  An index that is no row changes nothing.
Show(l, i, flag, files) ==
    IF IsRow(l, i)
    THEN /\ selectedTrack' = Row(l, i)
         /\ data' = IF flag /\ files THEN DataOf(Row(l, i)) ELSE {}
         /\ playhead' = Rewound
    ELSE UNCHANGED <<shownVars, playhead>>

-----------------------------------------------------------------------------
\* A key moves the cursor, and selects the track it is on.
Move(c) ==
    /\ databaseLoaded
    /\ cursor' = c
    /\ Show(list, c.sel, anlzLoaded, anlz)
    /\ UNCHANGED <<app, database, databaseLoaded, anlz, list, anlzLoaded>>

KeyUp   == Move(Up(cursor))
KeyDown == Move(Down(cursor, Len(list), Rows))
KeyPage == Move(PageUp(cursor, Rows)) \/ Move(PageDown(cursor, Len(list), Rows))

\* ' ' resets the playhead.
KeySpace == /\ databaseLoaded
            /\ playhead' = 0
            /\ UNCHANGED <<appVars, anlzLoaded>>

\* loadDatabase(): a new object, without ANLZ files, its list, and track 0.
OpenDatabase(d, c) ==
    /\ database' = d /\ databaseLoaded' = TRUE /\ anlz' = FALSE
    /\ list' = TracksOf[d]
    /\ cursor' = c
    /\ Show(TracksOf[d], 0, anlzLoaded, FALSE)
    /\ UNCHANGED <<app, anlzLoaded>>

\* Mutant: the cursor is left where it was.
LoadDatabaseKeepsCursor(d) == OpenDatabase(d, cursor)

LoadDatabase(d) == OpenDatabase(d, AtStart)

\* The file cannot be opened: database and list stay, databaseLoaded is reset.
LoadDatabaseFails ==
    /\ databaseLoaded' = FALSE
    /\ UNCHANGED <<app, database, anlz, list, cursor, shownVars, viewerVars>>

\* The same in the other three, which stay as they are when it fails.
LoadDatabaseHere(d) == OpenDatabase(d, cursor)

\* Mutant: the track on display is not selected again.
LoadAnlzFolderLater ==
    /\ database # Nothing
    /\ anlz' = TRUE /\ anlzLoaded' = TRUE
    /\ UNCHANGED <<app, database, databaseLoaded, list, cursor, shownVars, playhead>>

\* loadAnlzFolder(): the ANLZ files of the database, and the track again.
LoadAnlzFolder ==
    /\ database # Nothing
    /\ anlz' = TRUE /\ anlzLoaded' = TRUE
    /\ Show(list, cursor.sel, TRUE, TRUE)
    /\ UNCHANGED <<app, database, databaseLoaded, list, cursor>>

-----------------------------------------------------------------------------
\* The track by whose data the playhead is measured, or none.
Timed == {x[2] : x \in {x \in data : x[1] = (IF app = "beat-grid" THEN "grid" ELSE "structure")}}

\* update(): where the playhead is a time or a beat, it ends with the data.
AdvanceInData ==
    /\ app \in {"song-structure", "beat-grid"}
    /\ \E t \in Timed : playhead' = IF playhead + 1 > Length[t] THEN 0 ELSE playhead + 1
    /\ UNCHANGED <<appVars, anlzLoaded>>

\* Elsewhere it is a fraction, which cue-points moves only with a track.
AdvanceFraction ==
    /\ app \in {"cue-points", "color-waveform", "3band-waveform"}
    /\ app = "cue-points" => selectedTrack # Nothing
    /\ playhead' = IF playhead + 1 > Whole THEN 0 ELSE playhead + 1
    /\ UNCHANGED <<appVars, anlzLoaded>>

-----------------------------------------------------------------------------
CuePoints ==
    /\ app = "cue-points"
    /\ \/ KeyUp \/ KeyDown \/ KeyPage \/ KeySpace
       \/ \E d \in Databases : LoadDatabase(d)
       \/ LoadDatabaseFails \/ LoadAnlzFolder
       \/ AdvanceFraction

SongStructure ==
    /\ app = "song-structure"
    /\ \/ KeyUp \/ KeyDown \/ KeySpace
       \/ \E d \in Databases : LoadDatabase(d)
       \/ LoadDatabaseFails \/ LoadAnlzFolder
       \/ AdvanceInData

BeatGrid ==
    /\ app = "beat-grid"
    /\ \/ KeyUp \/ KeyDown \/ KeySpace
       \/ \E d \in Databases : LoadDatabaseHere(d)
       \/ LoadAnlzFolder
       \/ AdvanceInData

ColorWaveform ==
    /\ app = "color-waveform"
    /\ \/ KeyUp \/ KeyDown \/ KeySpace
       \/ \E d \in Databases : LoadDatabaseHere(d)
       \/ LoadAnlzFolder
       \/ AdvanceFraction

ThreeBandWaveform ==
    /\ app = "3band-waveform"
    /\ \/ KeyUp \/ KeyDown \/ KeySpace
       \/ \E d \in Databases : LoadDatabaseHere(d)
       \/ LoadAnlzFolder
       \/ AdvanceFraction

ViewerNext == CuePoints \/ SongStructure \/ BeatGrid \/ ColorWaveform \/ ThreeBandWaveform

ViewerSpec == AppInit(Viewers) /\ ViewerInit /\ [][ViewerNext]_<<appVars, viewerVars>>

-----------------------------------------------------------------------------
(***************************************************************************)
(* Properties.                                                             *)
(***************************************************************************)

\* "Refresh current track's cue points" (example-cue-points): whichever order
\* the database and the folder are dropped in, once the ANLZ files of this
\* database are loaded the data on display is all there is for the track.
DataShownOnceLoaded ==
    app \in Viewers /\ anlz /\ IsRow(list, cursor.sel)
        => data = Find(KindsOf[app], selectedTrack)

\* The playhead never stands behind the end of the data it is drawn over,
\* also when a shorter track is selected while it runs.
PlayheadInData ==
    app \in {"song-structure", "beat-grid"} => \A t \in Timed : playhead <= Length[t]
=============================================================================
