---------------------------- MODULE TrackDetails ----------------------------
(***************************************************************************)
(* Three applications whose folder is dropped once, database and files     *)
(* together: example-track-detail, example-loop-viewer, example-artwork.   *)
(* Their selectTrack clamps the index and moves the window.                *)
(***************************************************************************)
EXTENDS RekordboxApp, SequencesExt

CONSTANTS
    LoopsOf,    \* per track, the number of its cue points that are loops
    Title,      \* per track, the place of its title in the order of titles
    WithArtwork \* tracks whose artworkPath is not empty

ASSUME LoopsAssumption == \A t \in Tracks : LoopsOf[t] \in Nat

Details == {"track-detail", "loop-viewer", "artwork"}

VARIABLES
    loop,           \* selectedLoopIndex
    artworkLoaded,  \* the tracks of the list whose artworkLoaded is set
    artwork         \* the track currentArtwork shows while hasCurrentArtwork,
                    \* or Nothing

detailVars == <<loop, artworkLoaded, artwork>>

DetailInit == loop = 0 /\ artworkLoaded = {} /\ artwork = Nothing

\* The lists of the tracks S that std::sort may make: larger keys first.
Sorted(S, key) ==
    {s \in SetToSeqs(S) : \A i, j \in DOMAIN s : i < j => key[s[i]] >= key[s[j]]}

\* The lists an application can make of a database.
Lists(d) ==
    CASE app = "track-detail" -> {TracksOf[d]}
      [] app = "loop-viewer"  -> Sorted({t \in TracksIn(d) : LoopsOf[t] > 0}, LoopsOf)
      [] app = "artwork"      -> Sorted(TracksIn(d), [t \in Tracks |-> -Title[t]])

\* Mutant: the loop selected in the track before is kept.
LoopKept == loop

FirstLoop == 0

\* Mutant: the artwork on display stays until other artwork is loaded.
ArtworkKept(t, loaded) == IF t \in loaded THEN t ELSE artwork

\* What is on display of a track: its artwork if that was loaded before.
ArtworkOf(t, loaded) == IF t \in loaded THEN t ELSE Nothing

\* selectTrack(i) in the non-empty list l, from the cursor c: track-detail
\* copies the row and its cue points (loadTrackDetails), the others keep a
\* loop or a picture beside the index.
SelectTrack(l, c, i, files, loaded) ==
    LET new == Select(c, i, Len(l), Rows)
        t   == Row(l, new.sel)
    IN  /\ cursor' = new
        /\ IF app = "track-detail"
           THEN selectedTrack' = t /\ data' = IF files THEN Find({"cues"}, t) ELSE {}
           ELSE UNCHANGED shownVars
        /\ loop' = IF app = "loop-viewer" THEN FirstLoop ELSE loop
        /\ artwork' = IF app = "artwork" THEN ArtworkOf(t, loaded) ELSE artwork

-----------------------------------------------------------------------------
\* UP, DOWN, PAGE_UP and PAGE_DOWN; and HOME and END, which loop-viewer has not.
KeyMove ==
    /\ databaseLoaded /\ list # <<>>
    /\ \E i \in {cursor.sel - 1, cursor.sel + 1, cursor.sel - Rows, cursor.sel + Rows}
               \cup (IF app = "loop-viewer" THEN {} ELSE {0, Len(list) - 1}) :
          SelectTrack(list, cursor, i, anlz, artworkLoaded)
    /\ UNCHANGED <<app, database, databaseLoaded, anlz, list, artworkLoaded>>

\* LEFT and RIGHT of loop-viewer.
KeyLoop ==
    /\ databaseLoaded /\ list # <<>>
    /\ LET n == LoopsOf[Row(list, cursor.sel)]
       IN  n > 0 /\ loop' \in {Larger(0, loop - 1), Smaller(n - 1, loop + 1)}
    /\ UNCHANGED <<appVars, artworkLoaded, artwork>>

\* RETURN of artwork, loadArtworkForTrack: the picture of the track is loaded,
\* unless it has none or no file is found.
KeyReturn ==
    /\ databaseLoaded /\ IsRow(list, cursor.sel)
    /\ LET t == Row(list, cursor.sel)
       IN  \/ /\ artwork' = Nothing
              /\ UNCHANGED artworkLoaded
           \/ /\ t \in WithArtwork
              /\ artwork' = t
              /\ artworkLoaded' = artworkLoaded \cup {t}
    /\ UNCHANGED <<appVars, loop>>

-----------------------------------------------------------------------------
\* loadDatabase(), where the ANLZ files may be missing: a new list, and row 0.
LoadFolder(d, files) ==
    /\ database' = d /\ databaseLoaded' = TRUE /\ anlz' = files
    /\ \E l \in Lists(d) :
          /\ list' = l
          /\ IF l = <<>> THEN UNCHANGED <<cursor, shownVars, loop>> /\ artwork' = Nothing
                         ELSE SelectTrack(l, cursor, 0, files, {})
    /\ artworkLoaded' = {}
    /\ UNCHANGED app

\* No export.pdb, or it cannot be opened: the list is cleared before that.
LoadFolderFails ==
    /\ databaseLoaded' = FALSE /\ list' = <<>>
    /\ artwork' = Nothing /\ artworkLoaded' = {}
    /\ UNCHANGED <<app, database, anlz, cursor, shownVars, loop>>

\* "Loops require ANLZ files": the database is kept, without a list.
LoadFolderWithoutLoops(d) ==
    /\ database' = d /\ anlz' = FALSE
    /\ databaseLoaded' = FALSE /\ list' = <<>>
    /\ UNCHANGED <<app, cursor, shownVars, detailVars>>

-----------------------------------------------------------------------------
TrackDetail ==
    /\ app = "track-detail"
    /\ KeyMove \/ (\E d \in Databases, files \in BOOLEAN : LoadFolder(d, files)) \/ LoadFolderFails

LoopViewer ==
    /\ app = "loop-viewer"
    /\ \/ KeyMove \/ KeyLoop
       \/ \E d \in Databases : LoadFolder(d, TRUE) \/ LoadFolderWithoutLoops(d)
       \/ LoadFolderFails

Artwork ==
    /\ app = "artwork"
    /\ KeyMove \/ KeyReturn \/ (\E d \in Databases : LoadFolder(d, FALSE)) \/ LoadFolderFails

DetailNext == TrackDetail \/ LoopViewer \/ Artwork

DetailSpec == AppInit(Details) /\ DetailInit /\ [][DetailNext]_<<appVars, detailVars>>

-----------------------------------------------------------------------------
(***************************************************************************)
(* Properties.                                                             *)
(***************************************************************************)

\* drawLoopDetails and LEFT and RIGHT index the selected row and its loops
\* without a look at the bounds: both indices are in range whenever they can.
LoopInTrack ==
    app = "loop-viewer" /\ databaseLoaded /\ list # <<>> =>
        /\ IsRow(list, cursor.sel)
        /\ loop \in 0 .. LoopsOf[Row(list, cursor.sel)] - 1

\* The picture on display is one of the highlighted track, also after tracks
\* were loaded, skipped, come back to and replaced by those of another folder.
ArtworkOfHighlight ==
    app = "artwork" /\ artwork # Nothing =>
        IsRow(list, cursor.sel) /\ artwork = Row(list, cursor.sel)
=============================================================================
