-------------------------- MODULE TrackApps_proofs --------------------------
(***************************************************************************)
(* Theorems about the applications that show a track of a list, for any    *)
(* databases, any ANLZ files and a window of any size: the five viewers,   *)
(* and track-detail, loop-viewer and artwork.                              *)
(***************************************************************************)
EXTENDS TrackViewers, TrackDetails, ListWindow_proofs, FiniteSetTheorems

USE RowsAssumption, TracksAssumption, NothingAssumption, LengthAssumption

LEMMA ListType == \A d \in Databases : TracksOf[d] \in Seq(Tracks)
  BY DEF Tracks, TracksIn

LEMMA LenIsNat == ASSUME NEW l \in Seq(Tracks) PROVE Len(l) \in Nat
  OBVIOUS

LEMMA RowType ==
  ASSUME NEW l \in Seq(Tracks), NEW i \in Int, IsRow(l, i)
  PROVE  Row(l, i) \in Tracks /\ i + 1 \in 1 .. Len(l)
  <1>1. Len(l) \in Nat /\ i + 1 \in 1 .. Len(l)
    BY DEF IsRow
  <1>2. l[i + 1] \in Tracks
    BY <1>1
  <1> QED BY <1>1, <1>2 DEF Row

-----------------------------------------------------------------------------
(***************************************************************************)
(* The five viewers of TrackViewers.                                       *)
(***************************************************************************)

\* The types the other parts of the invariant need.
ViewerTypeOK ==
    /\ app \in Viewers
    /\ anlz \in BOOLEAN /\ anlzLoaded \in BOOLEAN
    /\ list \in Seq(Tracks)
    /\ cursor \in Cursor
    /\ data \subseteq Kinds \X Tracks
    /\ playhead \in Nat

\* ANLZ files of a database are looked for once some were loaded.
FilesAreLookedFor == anlz => anlzLoaded

\* The inductive invariant: HighlightShown needs the highlight to be a row,
\* PlayheadInData that all data is of one track.
ViewerInv ==
    /\ ViewerTypeOK
    /\ FilesAreLookedFor
    /\ HighlightDrawn
    /\ HighlightShown
    /\ DataOfTrack
    /\ DataShownOnceLoaded
    /\ PlayheadInData

-----------------------------------------------------------------------------
\* A highlight that fits is a row.
LEMMA FitsIsRow ==
  ASSUME NEW l \in Seq(Tracks), NEW c \in Cursor, l # <<>>, Fits(c, Len(l), Rows)
  PROVE  IsRow(l, c.sel)
  <1>1. Len(l) \in Nat /\ Len(l) > 0
    OBVIOUS
  <1> QED BY <1>1 DEF Fits, IsRow

\* What is found for a track is of the track.
LEMMA FoundType ==
  ASSUME NEW a \in Viewers, NEW t \in Tracks
  PROVE  /\ Find(KindsOf[a], t) \subseteq Kinds \X Tracks
         /\ \A x \in Find(KindsOf[a], t) : x[2] = t
  <1>1. KindsOf[a] \subseteq Kinds
    BY DEF KindsOf, Kinds
  <1> QED BY <1>1 DEF Find, Kinds

\* Whatever track is selected, with ANLZ files or without: its data only, and
\* the playhead within it.
LEMMA ShowKeeps ==
  ASSUME ViewerInv, NEW l \in Seq(Tracks), NEW i \in Int,
         NEW flag \in BOOLEAN, NEW files \in BOOLEAN,
         Show(l, i, flag, files), app' = app
  PROVE  /\ data' \subseteq Kinds \X Tracks
         /\ playhead' \in Nat
         /\ DataOfTrack'
         /\ PlayheadInData'
         /\ IsRow(l, i) => selectedTrack' = Row(l, i)
         /\ IsRow(l, i) /\ flag /\ files => data' = Find(KindsOf[app], selectedTrack')
  <1>1. CASE ~ IsRow(l, i)
    BY <1>1 DEF Show, shownVars, ViewerInv, ViewerTypeOK, DataOfTrack, PlayheadInData, Timed
  <1>2. CASE IsRow(l, i)
    <2>1. /\ selectedTrack' = Row(l, i)
          /\ data' = IF flag /\ files THEN DataOf(Row(l, i)) ELSE {}
          /\ playhead' = 0
      BY <1>2 DEF Show, Rewound
    <2>2. Row(l, i) \in Tracks
      BY <1>2, RowType
    <2>3. /\ data' \subseteq Kinds \X Tracks
          /\ \A x \in data' : x[2] = Row(l, i)
      BY <2>1, <2>2, FoundType DEF DataOf, ViewerInv, ViewerTypeOK
    <2>4. DataOfTrack'
      BY <2>1, <2>3 DEF DataOfTrack
    <2>5. PlayheadInData'
      <3>1. Timed' \subseteq Tracks
        BY <2>3 DEF Timed
      <3> QED BY <3>1, <2>1 DEF PlayheadInData
    <2> QED BY <1>2, <2>1, <2>3, <2>4, <2>5 DEF DataOf
  <1> QED BY <1>1, <1>2

-----------------------------------------------------------------------------
LEMMA ViewerInitInv == AppInit(Viewers) /\ ViewerInit => ViewerInv
  <1> SUFFICES ASSUME AppInit(Viewers), ViewerInit PROVE ViewerInv
    OBVIOUS
  <1> USE DEF AppInit, ViewerInit
  <1>1. ViewerTypeOK
    <2>1. AtStart \in Cursor
      BY DEF AtStart, Cursor
    <2>2. <<>> \in Seq(Tracks)
      OBVIOUS
    <2> QED BY <2>1, <2>2 DEF ViewerTypeOK
  <1>2. FilesAreLookedFor /\ HighlightDrawn /\ HighlightShown /\ DataShownOnceLoaded
    BY DEF FilesAreLookedFor, HighlightDrawn, HighlightShown, DataShownOnceLoaded
  <1>3. DataOfTrack /\ PlayheadInData
    BY DEF DataOfTrack, PlayheadInData, Timed
  <1> QED BY <1>1, <1>2, <1>3 DEF ViewerInv

\* A key moves the highlight to a row of its window, and shows the track.
LEMMA MoveKeeps ==
  ASSUME ViewerInv, NEW c \in Cursor,
         HighlightDrawn => app \in Wanderers \/ ~ databaseLoaded \/ Fits(c, Len(list), Rows),
         Move(c)
  PROVE  ViewerInv'
  <1> USE DEF Move
  <1>1. ViewerTypeOK /\ list \in Seq(Tracks) /\ c.sel \in Int
    BY DEF ViewerInv, ViewerTypeOK, Cursor
  <1>2. /\ data' \subseteq Kinds \X Tracks
        /\ playhead' \in Nat
        /\ DataOfTrack'
        /\ PlayheadInData'
        /\ IsRow(list, c.sel) => selectedTrack' = Row(list, c.sel)
        /\ IsRow(list, c.sel) /\ anlzLoaded /\ anlz => data' = Find(KindsOf[app], selectedTrack')
    BY <1>1, ShowKeeps DEF ViewerTypeOK
  <1>3. ViewerTypeOK' /\ FilesAreLookedFor'
    BY <1>1, <1>2 DEF ViewerTypeOK, FilesAreLookedFor, ViewerInv
  <1>4. HighlightDrawn'
    BY DEF HighlightDrawn, ViewerInv
  <1>5. HighlightShown'
    <2> SUFFICES ASSUME HighlightShown!1' PROVE HighlightShown!2'
      BY DEF HighlightShown
    <2>1. app \notin Wanderers
      BY <1>1 DEF Wanderers, ViewerTypeOK, Viewers
    <2>2. Fits(c, Len(list), Rows)
      BY <2>1 DEF ViewerInv
    <2>3. IsRow(list, c.sel)
      BY <2>2, <1>1, FitsIsRow
    <2> QED BY <2>3, <1>2
  <1>6. DataShownOnceLoaded'
    BY <1>2 DEF DataShownOnceLoaded, ViewerInv, FilesAreLookedFor
  <1> QED BY <1>2, <1>3, <1>4, <1>5, <1>6 DEF ViewerInv

\* loadDatabase: the cursor is put back, or the application is a wanderer.
LEMMA OpenKeeps ==
  ASSUME ViewerInv, NEW d \in Databases, NEW c \in Cursor,
         c = AtStart \/ app \in Wanderers,
         OpenDatabase(d, c)
  PROVE  ViewerInv'
  <1> USE DEF OpenDatabase
  <1> DEFINE l == TracksOf[d]
  <1>1. ViewerTypeOK /\ l \in Seq(Tracks) /\ Len(l) \in Nat /\ Rows \in Nat \ {0}
    BY ListType, LenIsNat DEF ViewerInv
  <1>2. /\ data' \subseteq Kinds \X Tracks
        /\ playhead' \in Nat
        /\ DataOfTrack'
        /\ PlayheadInData'
        /\ IsRow(l, 0) => selectedTrack' = Row(l, 0)
    <2>1. Show(l, 0, anlzLoaded, FALSE) /\ app' = app /\ anlzLoaded \in BOOLEAN
      BY <1>1 DEF ViewerTypeOK
    <2> HIDE DEF l, OpenDatabase
    <2>2. 0 \in Int /\ FALSE \in BOOLEAN
      OBVIOUS
    <2> QED BY <1>1, <2>1, <2>2, ShowKeeps
  <1>3. ViewerTypeOK' /\ FilesAreLookedFor'
    BY <1>1, <1>2 DEF ViewerTypeOK, FilesAreLookedFor
  <1>4. c = AtStart => Fits(c, Len(l), Rows)
    BY <1>1, StartFits
  <1>5. HighlightDrawn'
    BY <1>4 DEF HighlightDrawn
  <1>6. HighlightShown'
    <2> SUFFICES ASSUME HighlightShown!1' PROVE HighlightShown!2'
      BY DEF HighlightShown
    <2>1. c = AtStart
      BY <1>1 DEF Wanderers, ViewerTypeOK, Viewers
    <2>2. IsRow(l, 0) /\ c.sel = 0
      BY <2>1, <1>1, <1>4, FitsIsRow DEF AtStart
    <2> QED BY <2>2, <1>2
  <1>7. DataShownOnceLoaded'
    BY DEF DataShownOnceLoaded
  <1> QED BY <1>2, <1>3, <1>5, <1>6, <1>7 DEF ViewerInv

\* loadAnlzFolder, in either order with loadDatabase, and again.
LEMMA AnlzKeeps == ViewerInv /\ LoadAnlzFolder => ViewerInv'
  <1> SUFFICES ASSUME ViewerInv, LoadAnlzFolder PROVE ViewerInv'
    OBVIOUS
  <1> USE DEF LoadAnlzFolder
  <1>1. ViewerTypeOK /\ list \in Seq(Tracks) /\ cursor \in Cursor /\ cursor.sel \in Int
    BY DEF ViewerInv, ViewerTypeOK, Cursor
  <1>2. /\ data' \subseteq Kinds \X Tracks
        /\ playhead' \in Nat
        /\ DataOfTrack'
        /\ PlayheadInData'
        /\ IsRow(list, cursor.sel) => /\ selectedTrack' = Row(list, cursor.sel)
                                      /\ data' = Find(KindsOf[app], selectedTrack')
    BY <1>1, ShowKeeps
  <1>3. ViewerTypeOK' /\ FilesAreLookedFor' /\ HighlightDrawn'
    BY <1>1, <1>2 DEF ViewerTypeOK, FilesAreLookedFor, HighlightDrawn, ViewerInv
  <1>4. HighlightShown'
    <2> SUFFICES ASSUME HighlightShown!1' PROVE HighlightShown!2'
      BY DEF HighlightShown
    <2>1. app \notin Wanderers
      BY <1>1 DEF Wanderers, ViewerTypeOK, Viewers
    <2>2. IsRow(list, cursor.sel)
      BY <2>1, <1>1, FitsIsRow DEF ViewerInv, HighlightDrawn
    <2> QED BY <2>2, <1>2
  <1>5. DataShownOnceLoaded'
    BY <1>2 DEF DataShownOnceLoaded
  <1> QED BY <1>2, <1>3, <1>4, <1>5 DEF ViewerInv

\* update() and ' ' move the playhead, in song-structure and beat-grid up to
\* the end of the data, which is all of one track.
LEMMA PlayheadKeeps ==
  ASSUME ViewerInv, UNCHANGED <<appVars, anlzLoaded>>, playhead' \in Nat, PlayheadInData'
  PROVE  ViewerInv'
  BY DEF ViewerInv, ViewerTypeOK, FilesAreLookedFor, HighlightDrawn, HighlightShown,
         DataOfTrack, DataShownOnceLoaded, appVars, shownVars

LEMMA AdvanceInDataKeeps == ViewerInv /\ AdvanceInData => ViewerInv'
  <1> SUFFICES ASSUME ViewerInv, AdvanceInData PROVE ViewerInv'
    OBVIOUS
  <1>1. PICK t \in Timed : playhead' = IF playhead + 1 > Length[t] THEN 0 ELSE playhead + 1
    BY DEF AdvanceInData
  <1>2. UNCHANGED <<appVars, anlzLoaded>> /\ Timed' = Timed
    BY DEF AdvanceInData, Timed, appVars, shownVars
  <1>3. Timed \subseteq Tracks
    BY DEF ViewerInv, ViewerTypeOK, Timed
  <1>4. Length[t] \in Nat /\ playhead \in Nat
    BY <1>1, <1>3 DEF ViewerInv, ViewerTypeOK
  <1>5. \A u \in Timed : u = t
    BY <1>1 DEF ViewerInv, DataOfTrack, Timed
  <1>6. playhead' \in Nat /\ PlayheadInData'
    BY <1>1, <1>2, <1>4, <1>5 DEF PlayheadInData
  <1> QED BY <1>2, <1>6, PlayheadKeeps

LEMMA AdvanceFractionKeeps == ViewerInv /\ AdvanceFraction => ViewerInv'
  <1> SUFFICES ASSUME ViewerInv, AdvanceFraction PROVE ViewerInv'
    OBVIOUS
  <1>1. UNCHANGED <<appVars, anlzLoaded>> /\ playhead' \in Nat
    BY DEF AdvanceFraction, ViewerInv, ViewerTypeOK
  <1>2. PlayheadInData'
    BY DEF AdvanceFraction, PlayheadInData, appVars
  <1> QED BY <1>1, <1>2, PlayheadKeeps

LEMMA KeySpaceKeeps == ViewerInv /\ KeySpace => ViewerInv'
  <1> SUFFICES ASSUME ViewerInv, KeySpace PROVE ViewerInv'
    OBVIOUS
  <1>1. UNCHANGED <<appVars, anlzLoaded>> /\ playhead' \in Nat
    BY DEF KeySpace
  <1>2. Timed' = Timed /\ Timed \subseteq Tracks
    BY <1>1 DEF Timed, appVars, shownVars, ViewerInv, ViewerTypeOK
  <1>3. PlayheadInData'
    BY <1>2 DEF KeySpace, PlayheadInData
  <1> QED BY <1>1, <1>3, PlayheadKeeps

LEMMA FailKeeps == ViewerInv /\ LoadDatabaseFails => ViewerInv'
  <1> SUFFICES ASSUME ViewerInv, LoadDatabaseFails PROVE ViewerInv'
    OBVIOUS
  <1> USE DEF LoadDatabaseFails, shownVars, viewerVars, ViewerInv
  <1>1. ViewerTypeOK' /\ FilesAreLookedFor'
    BY DEF ViewerTypeOK, FilesAreLookedFor
  <1>2. HighlightDrawn' /\ HighlightShown'
    BY DEF HighlightDrawn, HighlightShown
  <1>3. DataOfTrack' /\ DataShownOnceLoaded' /\ PlayheadInData'
    BY DEF DataOfTrack, DataShownOnceLoaded, PlayheadInData, Timed
  <1> QED BY <1>1, <1>2, <1>3

-----------------------------------------------------------------------------
LEMMA ViewerKeysKeep == ViewerInv /\ (KeyUp \/ KeyDown \/ KeyPage) => ViewerInv'
  <1> SUFFICES ASSUME ViewerInv, KeyUp \/ KeyDown \/ KeyPage PROVE ViewerInv'
    OBVIOUS
  <1> DEFINE n    == Len(list)
             Keys == {Up(cursor), Down(cursor, n, Rows), PageUp(cursor, Rows),
                      PageDown(cursor, n, Rows)}
  <1>1. n \in Nat /\ Rows \in Nat \ {0} /\ cursor \in Cursor
    BY LenIsNat DEF ViewerInv, ViewerTypeOK
  <1>2. \A c \in Keys : c \in Cursor
    BY <1>1, CursorType
  <1>3. Fits(cursor, n, Rows) => \A c \in Keys : Fits(c, n, Rows)
    BY <1>1, KeysFit
  <1>4. HighlightDrawn => app \in Wanderers \/ ~ databaseLoaded \/ Fits(cursor, n, Rows)
    BY DEF HighlightDrawn
  <1>5. \E c \in Keys : Move(c)
    BY DEF KeyUp, KeyDown, KeyPage
  <1> QED BY <1>2, <1>3, <1>4, <1>5, MoveKeeps

LEMMA ViewerNextInv == ViewerInv /\ [ViewerNext]_<<appVars, viewerVars>> => ViewerInv'
  <1> SUFFICES ASSUME ViewerInv, [ViewerNext]_<<appVars, viewerVars>> PROVE ViewerInv'
    OBVIOUS
  <1>1. CASE KeyUp \/ KeyDown \/ KeyPage
    BY <1>1, ViewerKeysKeep
  <1>2. CASE KeySpace
    BY <1>2, KeySpaceKeeps
  <1>3. ASSUME NEW d \in Databases, LoadDatabase(d) PROVE ViewerInv'
    BY <1>3, CursorType, OpenKeeps DEF LoadDatabase, AtStart, Cursor
  <1>4. ASSUME NEW d \in Databases, LoadDatabaseHere(d), app \in Wanderers PROVE ViewerInv'
    BY <1>4, OpenKeeps DEF LoadDatabaseHere, ViewerInv, ViewerTypeOK
  <1>5. CASE LoadDatabaseFails
    BY <1>5, FailKeeps
  <1>6. CASE LoadAnlzFolder
    BY <1>6, AnlzKeeps
  <1>7. CASE AdvanceInData
    BY <1>7, AdvanceInDataKeeps
  <1>8. CASE AdvanceFraction
    BY <1>8, AdvanceFractionKeeps
  <1>9. CASE UNCHANGED <<appVars, viewerVars>>
    <2>1. PlayheadInData' /\ playhead' \in Nat
      BY <1>9 DEF appVars, viewerVars, shownVars, PlayheadInData, Timed, ViewerInv, ViewerTypeOK
    <2> QED BY <1>9, <2>1, PlayheadKeeps DEF viewerVars
  <1>10. CASE ViewerNext
    BY <1>10, <1>1, <1>2, <1>3, <1>4, <1>5, <1>6, <1>7, <1>8
    DEF ViewerNext, CuePoints, SongStructure, BeatGrid, ColorWaveform, ThreeBandWaveform, Wanderers
  <1> QED BY <1>9, <1>10

-----------------------------------------------------------------------------
\* Selecting a track leaves a track, or what was selected.
LEMMA ShowType ==
  ASSUME selectedTrack \in Tracks \cup {Nothing},
         NEW l \in Seq(Tracks), NEW i \in Int, NEW flag, NEW files, Show(l, i, flag, files)
  PROVE  selectedTrack' \in Tracks \cup {Nothing}
  <1>1. CASE IsRow(l, i)
    BY <1>1, RowType DEF Show
  <1>2. CASE ~ IsRow(l, i)
    BY <1>2 DEF Show, shownVars
  <1> QED BY <1>1, <1>2

\* The types of the state the applications share.
LEMMA ViewerTypes ==
  ViewerInv /\ AppTypeOK /\ [ViewerNext]_<<appVars, viewerVars>> => AppTypeOK'
  <1> SUFFICES ASSUME ViewerInv, AppTypeOK, [ViewerNext]_<<appVars, viewerVars>> PROVE AppTypeOK'
    OBVIOUS
  <1>1. ViewerTypeOK' /\ ViewerTypeOK
    BY ViewerNextInv DEF ViewerInv
  <1> SUFFICES /\ database' \in Databases \cup {Nothing}
               /\ databaseLoaded' \in BOOLEAN
               /\ selectedTrack' \in Tracks \cup {Nothing}
    BY <1>1 DEF ViewerTypeOK, AppTypeOK
  <1>2. /\ database \in Databases \cup {Nothing} /\ databaseLoaded \in BOOLEAN
        /\ selectedTrack \in Tracks \cup {Nothing} /\ list \in Seq(Tracks) /\ cursor \in Cursor
    BY <1>1 DEF AppTypeOK, ViewerTypeOK
  <1>3. ASSUME NEW c \in Cursor, Move(c)
        PROVE  UNCHANGED <<database, databaseLoaded>> /\ selectedTrack' \in Tracks \cup {Nothing}
    <2>1. c.sel \in Int
      BY DEF Cursor
    <2>2. Show(list, c.sel, anlzLoaded, anlz) /\ UNCHANGED <<database, databaseLoaded>>
      BY <1>3 DEF Move
    <2> QED BY <1>2, <2>1, <2>2, ShowType
  <1>4. CASE KeyUp \/ KeyDown \/ KeyPage
    <2>1. Len(list) \in Nat /\ Rows \in Nat \ {0}
      BY <1>2, LenIsNat
    <2>2. \A c \in {Up(cursor), Down(cursor, Len(list), Rows), PageUp(cursor, Rows),
                    PageDown(cursor, Len(list), Rows)} : c \in Cursor
      BY <1>2, <2>1, CursorType
    <2>3. \E c \in Cursor : Move(c)
      BY <1>4, <2>2 DEF KeyUp, KeyDown, KeyPage
    <2> QED BY <1>2, <1>3, <2>3
  <1>5. ASSUME NEW d \in Databases, NEW c, OpenDatabase(d, c)
        PROVE  database' = d /\ databaseLoaded' = TRUE /\ selectedTrack' \in Tracks \cup {Nothing}
    <2>1. Show(TracksOf[d], 0, anlzLoaded, FALSE)
      BY <1>5 DEF OpenDatabase
    <2>2. TracksOf[d] \in Seq(Tracks)
      BY ListType
    <2>3. selectedTrack' \in Tracks \cup {Nothing}
      <3>1. 0 \in Int
        OBVIOUS
      <3> QED BY <1>2, <2>1, <2>2, <3>1, ShowType
    <2> QED BY <1>5, <2>3 DEF OpenDatabase
  <1>6. CASE LoadAnlzFolder
    <2>1. cursor.sel \in Int
      BY <1>2 DEF Cursor
    <2>2. Show(list, cursor.sel, TRUE, TRUE) /\ UNCHANGED <<database, databaseLoaded>>
      BY <1>6 DEF LoadAnlzFolder
    <2> QED BY <1>2, <2>1, <2>2, ShowType
  <1>7. CASE LoadDatabaseFails
    BY <1>2, <1>7 DEF LoadDatabaseFails, shownVars
  <1>8. CASE KeySpace \/ AdvanceInData \/ AdvanceFraction \/ UNCHANGED <<appVars, viewerVars>>
    BY <1>2, <1>8 DEF KeySpace, AdvanceInData, AdvanceFraction, appVars, shownVars
  <1>9. ASSUME NEW d \in Databases, LoadDatabase(d) \/ LoadDatabaseHere(d)
        PROVE  database' = d /\ databaseLoaded' = TRUE /\ selectedTrack' \in Tracks \cup {Nothing}
    BY <1>5, <1>9 DEF LoadDatabase, LoadDatabaseHere
  <1>10. CASE ViewerNext
    BY <1>10, <1>2, <1>4, <1>6, <1>7, <1>8, <1>9
    DEF ViewerNext, CuePoints, SongStructure, BeatGrid, ColorWaveform, ThreeBandWaveform
  <1> QED BY <1>8, <1>10

\* The invariant of the five viewers holds after every key, load and frame.
THEOREM ViewerInvHolds == ViewerSpec => []ViewerInv
  BY ViewerInitInv, ViewerNextInv, PTL DEF ViewerSpec

-----------------------------------------------------------------------------
(***************************************************************************)
(* The three applications of TrackDetails.                                 *)
(***************************************************************************)

DetailTypeOK ==
    /\ app \in Details
    /\ databaseLoaded \in BOOLEAN /\ anlz \in BOOLEAN
    /\ list \in Seq(Tracks)
    /\ cursor \in Cursor
    /\ loop \in Int

\* "Loops": example-loop-viewer lists only tracks that have one.
ListedHaveLoops == app = "loop-viewer" => \A i \in 1 .. Len(list) : LoopsOf[list[i]] > 0

DetailInv ==
    /\ DetailTypeOK
    /\ ListedHaveLoops
    /\ HighlightDrawn
    /\ HighlightShown
    /\ LoopInTrack
    /\ ArtworkOfHighlight

LEMMA TracksAreFinite ==
  ASSUME NEW d \in Databases
  PROVE  IsFiniteSet(TracksIn(d)) /\ TracksIn(d) \subseteq Tracks
  <1> DEFINE s == TracksOf[d]
  <1>1. s \in Seq(Tracks) /\ Len(s) \in Nat /\ DOMAIN s = 1 .. Len(s)
    BY ListType
  <1>2. IsFiniteSet(1 .. Len(s))
    BY <1>1, FS_Interval
  <1>3. s \in Surjection(1 .. Len(s), TracksIn(d))
    BY <1>1 DEF TracksIn, Surjection
  <1>4. IsFiniteSet(TracksIn(d))
    BY <1>2, <1>3, FS_Surjection
  <1> QED BY <1>4 DEF Tracks

\* Sorting keeps to the tracks that are sorted.
LEMMA SortedType ==
  ASSUME NEW S \in SUBSET Tracks, IsFiniteSet(S), NEW key, NEW s \in Sorted(S, key)
  PROVE  s \in Seq(S)
  <1>1. Cardinality(S) \in Nat
    BY FS_CardinalityType
  <1>2. s \in [1 .. Cardinality(S) -> S]
    BY DEF Sorted, SetToSeqs
  <1> QED BY <1>1, <1>2

LEMMA ListsType ==
  ASSUME DetailTypeOK, NEW d \in Databases, NEW l \in Lists(d)
  PROVE  /\ l \in Seq(Tracks)
         /\ app = "loop-viewer" => \A i \in 1 .. Len(l) : LoopsOf[l[i]] > 0
  <1>1. IsFiniteSet(TracksIn(d)) /\ TracksIn(d) \subseteq Tracks
    BY TracksAreFinite
  <1>2. CASE app = "track-detail"
    BY <1>2, ListType DEF Lists
  <1>3. CASE app = "loop-viewer"
    <2> DEFINE S == {t \in TracksIn(d) : LoopsOf[t] > 0}
    <2>1. l \in Sorted(S, LoopsOf)
      BY <1>3 DEF Lists
    <2>2. S \subseteq Tracks /\ IsFiniteSet(S)
      BY <1>1, FS_Subset
    <2> HIDE DEF S
    <2>3. l \in Seq(S)
      BY <2>1, <2>2, SortedType
    <2>4. \A i \in 1 .. Len(l) : l[i] \in S
      BY <2>3
    <2> QED BY <2>2, <2>3, <2>4 DEF S
  <1>4. CASE app = "artwork"
    <2>1. l \in Seq(TracksIn(d))
      BY <1>1, <1>4, SortedType DEF Lists
    <2> QED BY <1>1, <1>4, <2>1
  <1> QED BY <1>2, <1>3, <1>4 DEF DetailTypeOK, Details

\* A selection clamps its index to a row.
LEMMA SelectIsRow ==
  ASSUME NEW l \in Seq(Tracks), l # <<>>, NEW c \in Cursor, NEW i \in Int
  PROVE  /\ Select(c, i, Len(l), Rows) \in Cursor
         /\ Select(c, i, Len(l), Rows).sel \in Int
         /\ IsRow(l, Select(c, i, Len(l), Rows).sel)
  <1>1. Len(l) \in Nat /\ Len(l) > 0
    OBVIOUS
  <1>2. Select(c, i, Len(l), Rows) \in Cursor
    BY <1>1, CursorType
  <1> DEFINE new == Select(c, i, Len(l), Rows)
  <1>3. new.sel \in 0 .. Len(l) - 1
    BY <1>1 DEF Select, Larger, Smaller
  <1> QED BY <1>1, <1>2, <1>3 DEF IsRow, Cursor

\* selectTrack() of a row: loop, picture and details become those of the row.
LEMMA SelectKeeps ==
  ASSUME DetailTypeOK, NEW l \in Seq(Tracks), l # <<>>, NEW i \in Int,
         app = "loop-viewer" => \A j \in 1 .. Len(l) : LoopsOf[l[j]] > 0,
         Fits(cursor, Len(l), Rows) \/ i = 0,
         NEW files, NEW loaded, SelectTrack(l, cursor, i, files, loaded),
         app' = app, databaseLoaded' = TRUE, anlz' \in BOOLEAN, list' = l
  PROVE  DetailInv'
  <1> DEFINE new == Select(cursor, i, Len(l), Rows)
             t   == Row(l, new.sel)
  <1>1. /\ cursor \in Cursor /\ new \in Cursor /\ new.sel \in Int /\ IsRow(l, new.sel)
        /\ Len(l) \in Nat
    <2>1. cursor \in Cursor /\ Len(l) \in Nat
      BY DEF DetailTypeOK
    <2> QED BY <2>1, SelectIsRow
  <1>2. t \in Tracks /\ new.sel + 1 \in 1 .. Len(l)
    BY <1>1, RowType
  <1>3. /\ cursor' = new
        /\ app = "track-detail" => selectedTrack' = t
        /\ loop' = IF app = "loop-viewer" THEN 0 ELSE loop
        /\ app = "artwork" => artwork' = t \/ artwork' = Nothing
    BY DEF SelectTrack, FirstLoop, ArtworkOf
  <1>4. Fits(new, Len(l), Rows)
    BY <1>1, SelectFits, SelectFirstFits
  <1>5. app = "loop-viewer" => LoopsOf[t] > 0
    BY <1>2 DEF Row
  <1> HIDE DEF new, t
  <1>6. DetailTypeOK'
    BY <1>1, <1>3 DEF DetailTypeOK
  <1>7. ListedHaveLoops'
    BY DEF ListedHaveLoops
  <1>8. HighlightDrawn' /\ HighlightShown'
    BY <1>3, <1>4 DEF HighlightDrawn, HighlightShown, t, DetailTypeOK, Details
  <1>9. LoopInTrack'
    <2>1. LoopsOf[t] \in Nat
      BY <1>2, LoopsAssumption
    <2> QED BY <1>1, <1>3, <1>5, <2>1 DEF LoopInTrack, t
  <1>10. ArtworkOfHighlight'
    BY <1>1, <1>3 DEF ArtworkOfHighlight, t
  <1> QED BY <1>6, <1>7, <1>8, <1>9, <1>10 DEF DetailInv

LEMMA DetailInitInv == AppInit(Details) /\ DetailInit => DetailInv
  <1> SUFFICES ASSUME AppInit(Details), DetailInit PROVE DetailInv
    OBVIOUS
  <1>1. AtStart \in Cursor
    BY DEF AtStart, Cursor
  <1>2. list = <<>> /\ databaseLoaded = FALSE /\ artwork = Nothing
    BY DEF AppInit, DetailInit
  <1>3. list \in Seq(Tracks) /\ 1 .. Len(list) = {}
    BY <1>2
  <1>7. app \in Details /\ databaseLoaded = FALSE /\ anlz = FALSE /\ cursor = AtStart /\ loop = 0
    BY DEF AppInit, DetailInit
  <1>4. DetailTypeOK
    <2>1. app \in Details /\ databaseLoaded \in BOOLEAN /\ anlz \in BOOLEAN
      BY <1>7
    <2>2. cursor \in Cursor /\ loop \in Int
      BY <1>1, <1>7
    <2> QED BY <1>3, <2>1, <2>2 DEF DetailTypeOK
  <1>6. ListedHaveLoops
    BY <1>3 DEF ListedHaveLoops
  <1>5. HighlightDrawn /\ HighlightShown /\ LoopInTrack /\ ArtworkOfHighlight
    BY <1>2 DEF HighlightDrawn, HighlightShown, LoopInTrack, ArtworkOfHighlight
  <1> QED BY <1>4, <1>5, <1>6 DEF DetailInv

LEMMA KeyMoveKeeps == DetailInv /\ KeyMove => DetailInv'
  <1> SUFFICES ASSUME DetailInv, KeyMove PROVE DetailInv'
    OBVIOUS
  <1>1. /\ DetailTypeOK /\ list \in Seq(Tracks) /\ list # <<>> /\ databaseLoaded
        /\ Len(list) \in Nat /\ cursor.sel \in Int /\ Rows \in Nat
    BY DEF KeyMove, DetailInv, DetailTypeOK, Cursor
  <1>2. PICK i \in {cursor.sel - 1, cursor.sel + 1, cursor.sel - Rows, cursor.sel + Rows}
                   \cup (IF app = "loop-viewer" THEN {} ELSE {0, Len(list) - 1}) :
           SelectTrack(list, cursor, i, anlz, artworkLoaded)
    BY DEF KeyMove
  <1>3. i \in Int
    BY <1>1
  <1>4. Fits(cursor, Len(list), Rows)
    BY <1>1 DEF DetailInv, HighlightDrawn, DetailTypeOK, Details, Wanderers
  <1>5. app = "loop-viewer" => \A j \in 1 .. Len(list) : LoopsOf[list[j]] > 0
    BY DEF DetailInv, ListedHaveLoops
  <1>6. app' = app /\ databaseLoaded' = TRUE /\ anlz' \in BOOLEAN /\ list' = list
    BY <1>1 DEF KeyMove, DetailTypeOK
  <1> QED BY <1>1, <1>2, <1>3, <1>4, <1>5, <1>6, SelectKeeps

LEMMA KeyLoopKeeps == DetailInv /\ app = "loop-viewer" /\ KeyLoop => DetailInv'
  <1> SUFFICES ASSUME DetailInv, app = "loop-viewer", KeyLoop PROVE DetailInv'
    OBVIOUS
  <1> DEFINE n == LoopsOf[Row(list, cursor.sel)]
  <1>1. IsRow(list, cursor.sel) /\ loop \in 0 .. n - 1 /\ n > 0
    BY DEF KeyLoop, DetailInv, LoopInTrack
  <1>2. n \in Nat
    <2>1. list \in Seq(Tracks) /\ cursor.sel \in Int
      BY DEF DetailInv, DetailTypeOK, Cursor
    <2> QED BY <1>1, <2>1, RowType, LoopsAssumption
  <1>3. loop' \in {Larger(0, loop - 1), Smaller(n - 1, loop + 1)}
    BY DEF KeyLoop
  <1>4. UNCHANGED <<appVars, artworkLoaded, artwork>>
    BY DEF KeyLoop
  <1> HIDE DEF n
  <1>5. loop' \in 0 .. n - 1
    BY <1>1, <1>2, <1>3 DEF Larger, Smaller
  <1> QED BY <1>1, <1>4, <1>5 DEF DetailInv, DetailTypeOK, ListedHaveLoops, HighlightDrawn,
          HighlightShown, LoopInTrack, ArtworkOfHighlight, appVars, shownVars, n

LEMMA KeyReturnKeeps == DetailInv /\ KeyReturn => DetailInv'
  <1> SUFFICES ASSUME DetailInv, KeyReturn PROVE DetailInv'
    OBVIOUS
  <1>1. /\ UNCHANGED <<appVars, loop>> /\ IsRow(list, cursor.sel)
        /\ artwork' \in {Nothing, Row(list, cursor.sel)}
    BY DEF KeyReturn
  <1> QED BY <1>1 DEF DetailInv, DetailTypeOK, ListedHaveLoops, HighlightDrawn,
          HighlightShown, LoopInTrack, ArtworkOfHighlight, appVars, shownVars

LEMMA LoadFolderKeeps ==
  ASSUME DetailInv, NEW d \in Databases, NEW files \in BOOLEAN, LoadFolder(d, files)
  PROVE  DetailInv'
  <1>1. PICK l \in Lists(d) :
           /\ list' = l
           /\ IF l = <<>> THEN UNCHANGED <<cursor, shownVars, loop>> /\ artwork' = Nothing
                          ELSE SelectTrack(l, cursor, 0, files, {})
    BY DEF LoadFolder
  <1>2. DetailTypeOK
    BY DEF DetailInv
  <1>3. /\ l \in Seq(Tracks)
        /\ app = "loop-viewer" => \A i \in 1 .. Len(l) : LoopsOf[l[i]] > 0
    BY <1>2, ListsType
  <1>4. app' = app /\ databaseLoaded' = TRUE /\ anlz' \in BOOLEAN
    BY DEF LoadFolder
  <1>5. CASE l # <<>>
    BY <1>1, <1>2, <1>3, <1>4, <1>5, SelectKeeps
  <1>6. CASE l = <<>>
    <2>1. UNCHANGED <<cursor, loop>> /\ artwork' = Nothing /\ list' = l /\ Len(l) = 0
      BY <1>1, <1>6
    <2>2. DetailTypeOK' /\ ListedHaveLoops'
      BY <1>2, <1>3, <1>4, <2>1 DEF DetailTypeOK, ListedHaveLoops
    <2>3. HighlightDrawn' /\ HighlightShown' /\ LoopInTrack' /\ ArtworkOfHighlight'
      BY <1>6, <2>1 DEF HighlightDrawn, HighlightShown, LoopInTrack, ArtworkOfHighlight, Fits
    <2> QED BY <2>2, <2>3 DEF DetailInv
  <1> QED BY <1>5, <1>6

\* A load that fails leaves no list; only example-loop-viewer keeps a database
\* without ANLZ files.
LEMMA NoListKeeps ==
  ASSUME DetailInv, app' = app, databaseLoaded' = FALSE, anlz' \in BOOLEAN, list' = <<>>,
         UNCHANGED <<cursor, loop>>, app = "artwork" => artwork' = Nothing
  PROVE  DetailInv'
  <1>1. list' \in Seq(Tracks) /\ 1 .. Len(list') = {}
    OBVIOUS
  <1>2. DetailTypeOK' /\ ListedHaveLoops'
    BY <1>1 DEF DetailInv, DetailTypeOK, ListedHaveLoops
  <1>3. HighlightDrawn' /\ HighlightShown' /\ LoopInTrack' /\ ArtworkOfHighlight'
    BY DEF HighlightDrawn, HighlightShown, LoopInTrack, ArtworkOfHighlight
  <1> QED BY <1>2, <1>3 DEF DetailInv

LEMMA DetailNextInv == DetailInv /\ [DetailNext]_<<appVars, detailVars>> => DetailInv'
  <1> SUFFICES ASSUME DetailInv, [DetailNext]_<<appVars, detailVars>> PROVE DetailInv'
    OBVIOUS
  <1>1. CASE KeyMove
    BY <1>1, KeyMoveKeeps
  <1>2. CASE app = "loop-viewer" /\ KeyLoop
    BY <1>2, KeyLoopKeeps
  <1>3. CASE KeyReturn
    BY <1>3, KeyReturnKeeps
  <1>4. ASSUME NEW d \in Databases, NEW files \in BOOLEAN, LoadFolder(d, files)
        PROVE  DetailInv'
    BY <1>4, LoadFolderKeeps
  <1>5. CASE LoadFolderFails
    BY <1>5, NoListKeeps DEF LoadFolderFails, DetailInv, DetailTypeOK
  <1>6. ASSUME NEW d \in Databases, app = "loop-viewer", LoadFolderWithoutLoops(d)
        PROVE  DetailInv'
    BY <1>6, NoListKeeps DEF LoadFolderWithoutLoops, detailVars
  <1>7. CASE UNCHANGED <<appVars, detailVars>>
    BY <1>7 DEF DetailInv, DetailTypeOK, ListedHaveLoops, HighlightDrawn, HighlightShown,
       LoopInTrack, ArtworkOfHighlight, appVars, shownVars, detailVars
  <1> QED BY <1>1, <1>2, <1>3, <1>4, <1>5, <1>6, <1>7 DEF DetailNext, TrackDetail, LoopViewer,
          Artwork

\* selectTrack() of a row: the details are those of a track, and of one only.
LEMMA DetailTypes ==
  DetailInv /\ AppTypeOK /\ DataOfTrack /\ [DetailNext]_<<appVars, detailVars>>
     => AppTypeOK' /\ DataOfTrack'
  <1> SUFFICES ASSUME DetailInv, AppTypeOK, DataOfTrack, [DetailNext]_<<appVars, detailVars>>
               PROVE  AppTypeOK' /\ DataOfTrack'
    OBVIOUS
  <1> DEFINE Shown == /\ selectedTrack \in Tracks \cup {Nothing}
                      /\ data \subseteq Kinds \X Tracks
                      /\ DataOfTrack
  <1>1. DetailTypeOK' /\ DetailTypeOK
    BY DetailNextInv DEF DetailInv
  <1>2. /\ database \in Databases \cup {Nothing} /\ databaseLoaded \in BOOLEAN
        /\ cursor \in Cursor /\ list \in Seq(Tracks) /\ Shown
    BY <1>1 DEF AppTypeOK, DetailTypeOK
  <1> SUFFICES database' \in Databases \cup {Nothing} /\ databaseLoaded' \in BOOLEAN /\ Shown'
    BY <1>1 DEF DetailTypeOK, AppTypeOK
  <1>3. ASSUME UNCHANGED shownVars PROVE Shown'
    BY <1>2, <1>3 DEF shownVars, DataOfTrack
  <1>4. ASSUME NEW l \in Seq(Tracks), l # <<>>, NEW i \in Int, NEW files, NEW loaded,
               SelectTrack(l, cursor, i, files, loaded)
        PROVE  Shown'
    <2> DEFINE t == Row(l, Select(cursor, i, Len(l), Rows).sel)
    <2>1. t \in Tracks
      <3>1. /\ Select(cursor, i, Len(l), Rows).sel \in Int
            /\ IsRow(l, Select(cursor, i, Len(l), Rows).sel)
        BY <1>2, <1>4, SelectIsRow
      <3> QED BY <3>1, RowType
    <2>2. CASE app = "track-detail"
      <3>1. selectedTrack' = t /\ data' = IF files THEN Find({"cues"}, t) ELSE {}
        BY <1>4, <2>2 DEF SelectTrack
      <3> HIDE DEF t
      <3> QED BY <2>1, <3>1 DEF Find, Kinds, DataOfTrack
    <2>3. CASE app # "track-detail"
      BY <1>3, <1>4, <2>3 DEF SelectTrack
    <2> QED BY <2>2, <2>3
  <1> HIDE DEF Shown
  <1>5. CASE KeyMove
    <2>1. UNCHANGED <<database, databaseLoaded>> /\ list # <<>>
      BY <1>5 DEF KeyMove
    <2>2. \E i \in Int : SelectTrack(list, cursor, i, anlz, artworkLoaded)
      <3>1. Len(list) \in Nat /\ cursor.sel \in Int /\ Rows \in Nat
        BY <1>2, LenIsNat DEF Cursor
      <3> QED BY <1>5, <3>1 DEF KeyMove
    <2> QED BY <1>2, <1>4, <2>1, <2>2
  <1>6. CASE KeyLoop \/ KeyReturn \/ UNCHANGED <<appVars, detailVars>>
    <2>1. UNCHANGED <<database, databaseLoaded, shownVars>>
      BY <1>6 DEF KeyLoop, KeyReturn, appVars
    <2> QED BY <1>2, <1>3, <2>1
  <1>7. ASSUME NEW d \in Databases, NEW files \in BOOLEAN, LoadFolder(d, files)
        PROVE  database' = d /\ databaseLoaded' = TRUE /\ Shown'
    <2>1. PICK l \in Lists(d) : IF l = <<>> THEN UNCHANGED shownVars
                                            ELSE SelectTrack(l, cursor, 0, files, {})
      BY <1>7 DEF LoadFolder
    <2>2. l \in Seq(Tracks)
      BY <1>1, ListsType
    <2>3. Shown'
      BY <1>3, <1>4, <2>1, <2>2
    <2> QED BY <1>7, <2>3 DEF LoadFolder
  <1>8. CASE LoadFolderFails
    BY <1>2, <1>3, <1>8 DEF LoadFolderFails
  <1>9. ASSUME NEW d \in Databases, LoadFolderWithoutLoops(d)
        PROVE  database' = d /\ databaseLoaded' = FALSE /\ Shown'
    BY <1>3, <1>9 DEF LoadFolderWithoutLoops
  <1>10. CASE DetailNext
    BY <1>10, <1>5, <1>6, <1>7, <1>8, <1>9, <1>2 DEF DetailNext, TrackDetail, LoopViewer, Artwork
  <1> QED BY <1>6, <1>10

\* The invariant of track-detail, loop-viewer and artwork holds after every key and load.
THEOREM DetailInvHolds == DetailSpec => []DetailInv
  BY DetailInitInv, DetailNextInv, PTL DEF DetailSpec
=============================================================================
