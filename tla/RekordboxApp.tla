---------------------------- MODULE RekordboxApp ----------------------------
(***************************************************************************)
(* What the example applications for rekordbox databases have in common: a *)
(* database that is dropped on the window, possibly again and again, the   *)
(* list made from it, the cursor in the list and what is shown of the row  *)
(* that is selected.                                                       *)
(*                                                                         *)
(* Database is a class of crate-digger-cpp, which is not in the repository.*)
(* It is modelled by its uses: open() succeeds or fails, all_track_ids()   *)
(* returns the tracks in an order of their own, and what ANLZ files say    *)
(* of a track is found once load_cue_points() was called on this object.   *)
(***************************************************************************)
EXTENDS Sequences, FiniteSets, ListWindow

CONSTANTS
    Databases,  \* export.pdb files
    TracksOf,   \* per database, its tracks in the order of all_track_ids()
    Analysed,   \* per kind of ANLZ data, the tracks that have some
    Rows,       \* rows of a list that are drawn
    Nothing     \* no database, no track

ASSUME RowsAssumption     == Rows \in Nat \ {0}
ASSUME TracksAssumption   == \A d \in Databases : TracksOf[d] \in Seq(UNION
                                {{TracksOf[e][i] : i \in DOMAIN TracksOf[e]} : e \in Databases})
ASSUME NothingAssumption  == Nothing \notin Databases

TracksIn(d) == {TracksOf[d][i] : i \in DOMAIN TracksOf[d]}
Tracks == UNION {TracksIn(d) : d \in Databases}

\* The kinds of ANLZ data the applications ask for.
Kinds == {"cues", "structure", "grid", "waveforms"}

VARIABLES
    app,            \* the application
    database,       \* database, or Nothing
    databaseLoaded, \* databaseLoaded
    anlz,           \* whether load_cue_points() was called on database
    list,           \* trackIds, tracksWithLoops or tracks
    cursor,         \* selectedTrackIndex and trackScrollOffset
    selectedTrack,  \* selectedTrack (currentTrack), or Nothing
    data            \* what is held of ANLZ files: pairs of a kind and a track

shownVars == <<selectedTrack, data>>
appVars   == <<app, database, databaseLoaded, anlz, list, cursor, shownVars>>

AppInit(apps) ==
    /\ app \in apps
    /\ database = Nothing /\ databaseLoaded = FALSE /\ anlz = FALSE
    /\ list = <<>> /\ cursor = AtStart
    /\ selectedTrack = Nothing /\ data = {}

\* The row of the list with index i, counted from 0 as in the code.
Row(l, i) == l[i + 1]
IsRow(l, i) == i \in 0 .. Len(l) - 1

\* What the getters for these kinds of data find for a track.
Find(kinds, t) == {<<k, t>> : k \in {k \in kinds : t \in Analysed[k]}}

-----------------------------------------------------------------------------
(***************************************************************************)
(* Properties of every application with this state.                        *)
(***************************************************************************)

\* The applications that leave the cursor where it is on a load.
Wanderers == {"beat-grid", "color-waveform", "3band-waveform"}

\* Every variable stays in its type.
AppTypeOK ==
    /\ database \in Databases \cup {Nothing}
    /\ databaseLoaded \in BOOLEAN /\ anlz \in BOOLEAN
    /\ app # "rekordbox-browser" => list \in Seq(Tracks)
    /\ cursor \in Cursor
    /\ selectedTrack \in Tracks \cup {Nothing}
    /\ data \subseteq Kinds \X Tracks

\* However the keys and the loads alternate, the highlight is a row that is
\* drawn, and no row is left empty while others are out of sight; but not in
\* the applications that keep the cursor of one list for the next.
HighlightDrawn ==
    app \notin Wanderers /\ databaseLoaded => Fits(cursor, Len(list), Rows)

\* "Selected track data" (example-cue-points, ofApp.h): the details on display
\* are those of the highlighted row.
HighlightShown ==
    app \in {"cue-points", "song-structure", "track-detail"} /\ databaseLoaded /\ list # <<>>
        => selectedTrack = Row(list, cursor.sel)

\* Whatever was selected, loaded or not found, the data on display is of the
\* track whose name is on display.
DataOfTrack == \A x \in data : x[2] = selectedTrack
=============================================================================
