------------------------- MODULE BrowserApps_proofs -------------------------
(***************************************************************************)
(* Theorems about the applications that show lists of a database, for any  *)
(* databases, limits and steps of the tempo range and a window of any      *)
(* size: rekordbox-browser and bpm-search with one list, playlist-browser  *)
(* and tag-browser with panels.                                            *)
(***************************************************************************)
EXTENDS ListBrowsers, PanelBrowsers, ListWindow_proofs

USE RowsAssumption, BpmAssumption

-----------------------------------------------------------------------------
(***************************************************************************)
(* rekordbox-browser and bpm-search.                                       *)
(***************************************************************************)

\* The types the other parts of the invariant need.
BrowserTypeOK ==
    /\ app \in Browsers
    /\ databaseLoaded \in BOOLEAN /\ databaseLoaded => database \in Databases
    /\ Len(list) \in Nat
    /\ cursor \in Cursor
    /\ view \in DOMAIN Views
    /\ bpmMin \in Int /\ bpmMax \in Int /\ bpmStep \in Nat \ {0}

\* rekordbox-browser lists what the view has of the database.
ListOfView == app = "rekordbox-browser" /\ databaseLoaded => list = Items(database, view)

\* The inductive invariant: TrackOfDatabase needs ListOfView, as a track is
\* taken from the list; HighlightDrawn needs RangeOrdered, as the result of a
\* search is a list only within the limits.
BrowserInv ==
    /\ BrowserTypeOK
    /\ ListOfView
    /\ HighlightDrawn
    /\ TrackOfDatabase
    /\ RangeOrdered
    /\ ResultsInRange

-----------------------------------------------------------------------------
LEMMA ItemsType == \A d \in Databases, v \in DOMAIN Views : Len(Items(d, v)) \in Nat
  BY ListsAssumption

LEMMA SearchType ==
  ASSUME NEW d \in Databases, NEW min \in MinBpm .. MaxBpm, NEW max \in MinBpm .. MaxBpm
  PROVE  Len(Search(d, min, max)) \in Nat
  <1>1. Search(d, min, max) \in Seq(TracksIn(d))
    BY ListsAssumption
  <1> QED BY <1>1

LEMMA StartType == AtStart \in Cursor
  BY DEF AtStart, Cursor

LEMMA BrowserInitInv == AppInit(Browsers) /\ BrowserInit => BrowserInv
  <1> SUFFICES ASSUME AppInit(Browsers), BrowserInit PROVE BrowserInv
    OBVIOUS
  <1> USE DEF AppInit, BrowserInit
  <1>1. BrowserTypeOK
    <2>1. bpmStep \in Nat \ {0} /\ bpmMin \in Int /\ bpmMax \in Int
      BY DEF BpmAssumption
    <2>2. view \in DOMAIN Views
      BY DEF Views
    <2>3. Len(list) \in Nat
      OBVIOUS
    <2> QED BY <2>1, <2>2, <2>3, StartType DEF BrowserTypeOK
  <1>2. ListOfView /\ HighlightDrawn /\ TrackOfDatabase /\ ResultsInRange
    BY DEF ListOfView, HighlightDrawn, TrackOfDatabase, ResultsInRange
  <1>3. RangeOrdered
    BY DEF RangeOrdered, BpmAssumption
  <1> QED BY <1>1, <1>2, <1>3 DEF BrowserInv

-----------------------------------------------------------------------------
\* The cursor keys of both applications.
LEMMA BrowserKeyMoveKeeps == BrowserInv /\ BrowserKeyMove => BrowserInv'
  <1> SUFFICES ASSUME BrowserInv, BrowserKeyMove PROVE BrowserInv'
    OBVIOUS
  <1> DEFINE n == Len(list)
  <1>1. n \in Nat /\ Rows \in Nat \ {0} /\ cursor \in Cursor
    BY DEF BrowserInv, BrowserTypeOK, RowsAssumption
  <1>2. cursor' \in Cursor
    BY <1>1, CursorType DEF BrowserKeyMove
  <1>3. Fits(cursor, n, Rows) => Fits(cursor', n, Rows)
    BY <1>1, KeysFit DEF BrowserKeyMove
  <1> USE DEF BrowserKeyMove, browserVars, bpmVars, shownVars
  <1>4. BrowserTypeOK'
    BY <1>2 DEF BrowserInv, BrowserTypeOK
  <1>5. HighlightDrawn'
    BY <1>3 DEF BrowserInv, HighlightDrawn
  <1>6. ListOfView' /\ TrackOfDatabase' /\ RangeOrdered' /\ ResultsInRange'
    BY DEF BrowserInv, ListOfView, TrackOfDatabase, RangeOrdered, ResultsInRange
  <1> QED BY <1>4, <1>5, <1>6 DEF BrowserInv

\* A list that is shown from its start fits.
LEMMA StartDrawn ==
  ASSUME Len(list') \in Nat, cursor' = AtStart
  PROVE  HighlightDrawn'
  <1>1. Fits(AtStart, Len(list'), Rows)
    BY StartFits DEF RowsAssumption
  <1> QED BY <1>1 DEF HighlightDrawn

LEMMA KeyViewKeeps ==
  ASSUME BrowserInv, app = "rekordbox-browser", KeyView
  PROVE  BrowserInv'
  <1> USE DEF KeyView, bpmVars, shownVars
  <1>1. Len(list') \in Nat
    BY ItemsType DEF BrowserInv, BrowserTypeOK
  <1>2. BrowserTypeOK'
    BY <1>1, StartType DEF BrowserInv, BrowserTypeOK
  <1>3. HighlightDrawn'
    BY <1>1, StartDrawn
  <1>4. ListOfView' /\ TrackOfDatabase' /\ RangeOrdered' /\ ResultsInRange'
    BY DEF BrowserInv, ListOfView, TrackOfDatabase, RangeOrdered, ResultsInRange
  <1> QED BY <1>2, <1>3, <1>4 DEF BrowserInv

\* RETURN takes a track from the list, which is that of the database.
LEMMA KeySelectKeeps ==
  ASSUME BrowserInv, app = "rekordbox-browser", KeySelect
  PROVE  BrowserInv'
  <1> USE DEF KeySelect, browserVars, bpmVars
  <1>1. BrowserTypeOK' /\ ListOfView' /\ HighlightDrawn' /\ RangeOrdered' /\ ResultsInRange'
    BY DEF BrowserInv, BrowserTypeOK, ListOfView, HighlightDrawn, RangeOrdered, ResultsInRange
  <1>2. TrackOfDatabase'
    <2>1. CASE IsRow(list, cursor.sel)
      <3>1. list = TracksOf[database] /\ database \in Databases
        BY DEF BrowserInv, ListOfView, Items, BrowserTypeOK
      <3>2. cursor.sel + 1 \in DOMAIN TracksOf[database]
        <4>1. \E S : TracksOf[database] \in Seq(S)
          BY <3>1, TracksAssumption DEF TracksAssumption
        <4> QED BY <4>1, <3>1, <2>1 DEF IsRow, BrowserInv, BrowserTypeOK, Cursor
      <3>3. Row(list, cursor.sel) \in TracksIn(database)
        BY <3>1, <3>2 DEF Row, TracksIn
      <3> QED BY <2>1, <3>3 DEF TrackOfDatabase
    <2>2. CASE ~ IsRow(list, cursor.sel)
      BY <2>2 DEF TrackOfDatabase
    <2> QED BY <2>1, <2>2
  <1> QED BY <1>1, <1>2 DEF BrowserInv

LEMMA LoadListsKeeps ==
  ASSUME BrowserInv, app = "rekordbox-browser", NEW d \in Databases, LoadLists(d)
  PROVE  BrowserInv'
  <1> USE DEF LoadLists, browserVars, bpmVars, NoTrack
  <1>1. Len(list') \in Nat
    BY ItemsType DEF BrowserInv, BrowserTypeOK
  <1>2. BrowserTypeOK'
    BY <1>1, StartType DEF BrowserInv, BrowserTypeOK
  <1>3. HighlightDrawn'
    BY <1>1, StartDrawn
  <1>4. ListOfView' /\ TrackOfDatabase' /\ RangeOrdered' /\ ResultsInRange'
    BY DEF BrowserInv, ListOfView, TrackOfDatabase, RangeOrdered, ResultsInRange
  <1> QED BY <1>2, <1>3, <1>4 DEF BrowserInv

LEMMA LoadListsFailsKeeps == BrowserInv /\ LoadListsFails => BrowserInv'
  BY DEF BrowserInv, LoadListsFails, browserVars, bpmVars, shownVars, BrowserTypeOK, ListOfView,
         HighlightDrawn, TrackOfDatabase, RangeOrdered, ResultsInRange

-----------------------------------------------------------------------------
\* A search in a range that is in order: by a key, or on a load.
LEMMA SearchKeeps ==
  ASSUME BrowserInv, app = "bpm-search", app' = app, NEW d \in Databases,
         database' = d, databaseLoaded' = TRUE, view' = view, bpmStep' = bpmStep,
         NEW min \in Int, NEW max \in Int, bpmMin' = min, bpmMax' = max, RangeOrdered',
         PerformSearch(d, min, max)
  PROVE  BrowserInv'
  <1>1. min \in MinBpm .. MaxBpm /\ max \in MinBpm .. MaxBpm
    BY DEF RangeOrdered, BpmAssumption
  <1>2. list' = Search(d, min, max) /\ cursor' = AtStart
    BY DEF PerformSearch
  <1>3. Len(list') \in Nat
    BY <1>1, <1>2, SearchType
  <1>4. BrowserTypeOK'
    BY <1>2, <1>3, StartType DEF BrowserInv, BrowserTypeOK
  <1>5. HighlightDrawn'
    BY <1>2, <1>3, StartDrawn
  <1>6. ListOfView' /\ TrackOfDatabase' /\ ResultsInRange'
    BY <1>2 DEF ListOfView, TrackOfDatabase, ResultsInRange
  <1> QED BY <1>4, <1>5, <1>6 DEF BrowserInv

\* UP and DOWN keep the ends of the range apart, by any step.
LEMMA KeyRangeKeeps ==
  ASSUME BrowserInv, app = "bpm-search", KeyRange
  PROVE  BrowserInv'
  <1> USE DEF KeyRange
  <1>1. bpmMin' \in Int /\ bpmMax' \in Int /\ RangeOrdered'
    <2>1. /\ bpmMin \in Int /\ bpmMax \in Int /\ bpmStep \in Nat \ {0}
          /\ MinBpm \in Int /\ MaxBpm \in Int
      BY DEF BrowserInv, BrowserTypeOK, BpmAssumption
    <2>2. MinBpm <= bpmMin /\ bpmMin + 1 <= bpmMax /\ bpmMax <= MaxBpm
      BY DEF BrowserInv, RangeOrdered
    <2>3. CASE editingMin
      BY <2>1, <2>2, <2>3 DEF RaisedMin, Larger, Smaller, RangeOrdered
    <2>4. CASE ~ editingMin
      BY <2>1, <2>2, <2>4 DEF LoweredMax, Larger, Smaller, RangeOrdered
    <2> QED BY <2>3, <2>4
  <1>2. database \in Databases
    BY DEF BrowserInv, BrowserTypeOK
  <1> QED BY <1>1, <1>2, SearchKeeps

LEMMA LoadSearchKeeps ==
  ASSUME BrowserInv, app = "bpm-search", NEW d \in Databases, LoadSearch(d)
  PROVE  BrowserInv'
  <1> USE DEF LoadSearch, browserVars, bpmVars
  <1>1. bpmMin' \in Int /\ bpmMax' \in Int /\ RangeOrdered'
    BY DEF BrowserInv, BrowserTypeOK, RangeOrdered
  <1> QED BY <1>1, SearchKeeps

LEMMA KeyEditKeeps == BrowserInv /\ KeyEdit => BrowserInv'
  <1> SUFFICES ASSUME BrowserInv, KeyEdit PROVE BrowserInv'
    OBVIOUS
  <1> USE DEF KeyEdit, appVars, shownVars
  <1>1. bpmStep' \in Nat \ {0}
    BY DEF BrowserInv, BrowserTypeOK, BpmAssumption, Larger, Smaller
  <1>2. BrowserTypeOK'
    BY <1>1 DEF BrowserInv, BrowserTypeOK
  <1>3. ListOfView' /\ HighlightDrawn' /\ TrackOfDatabase' /\ RangeOrdered' /\ ResultsInRange'
    BY DEF BrowserInv, ListOfView, HighlightDrawn, TrackOfDatabase, RangeOrdered, ResultsInRange
  <1> QED BY <1>2, <1>3 DEF BrowserInv

-----------------------------------------------------------------------------
LEMMA BrowserNextInv == BrowserInv /\ [BrowserNext]_<<appVars, browserVars>> => BrowserInv'
  <1> SUFFICES ASSUME BrowserInv, [BrowserNext]_<<appVars, browserVars>> PROVE BrowserInv'
    OBVIOUS
  <1>1. CASE RekordboxBrowser
    BY <1>1, BrowserKeyMoveKeeps, KeyViewKeeps, KeySelectKeeps, LoadListsKeeps, LoadListsFailsKeeps
    DEF RekordboxBrowser
  <1>2. CASE BpmSearch
    BY <1>2, KeyRangeKeeps, KeyEditKeeps, BrowserKeyMoveKeeps, LoadSearchKeeps DEF BpmSearch
  <1>3. CASE UNCHANGED <<appVars, browserVars>>
    BY <1>3 DEF BrowserInv, appVars, browserVars, bpmVars, shownVars, BrowserTypeOK, ListOfView,
                HighlightDrawn, TrackOfDatabase, RangeOrdered, ResultsInRange
  <1> QED BY <1>1, <1>2, <1>3 DEF BrowserNext

-----------------------------------------------------------------------------
\* What a search finds is a list of tracks.
LEMMA SearchFindsTracks ==
  ASSUME NEW d \in Databases, NEW min \in MinBpm .. MaxBpm, NEW max \in MinBpm .. MaxBpm
  PROVE  Search(d, min, max) \in Seq(Tracks)
  <1>1. Search(d, min, max) \in Seq(TracksIn(d))
    BY ListsAssumption
  <1>2. TracksIn(d) \subseteq Tracks
    BY DEF Tracks
  <1> QED BY <1>1, <1>2

LEMMA WithinLimits ==
  \A a, b, min, max \in Int : min <= a /\ a + 1 <= b /\ b <= max
                            => a \in min .. max /\ b \in min .. max
  OBVIOUS

\* The types of the state the applications share: rekordbox-browser takes a
\* track from its list only while that is one of tracks.
LEMMA BrowserTypes ==
  BrowserInv /\ AppTypeOK /\ [BrowserNext]_<<appVars, browserVars>> => AppTypeOK'
  <1> SUFFICES ASSUME BrowserInv, AppTypeOK, [BrowserNext]_<<appVars, browserVars>> PROVE AppTypeOK'
    OBVIOUS
  <1>1. BrowserInv'
    BY BrowserNextInv
  <1>2. BrowserTypeOK' /\ BrowserTypeOK /\ ResultsInRange' /\ RangeOrdered' /\ TrackOfDatabase'
    BY <1>1 DEF BrowserInv
  <1>3. /\ database \in Databases \cup {Nothing} /\ databaseLoaded \in BOOLEAN /\ anlz \in BOOLEAN
        /\ app # "rekordbox-browser" => list \in Seq(Tracks)
        /\ selectedTrack \in Tracks \cup {Nothing} /\ data \subseteq Kinds \X Tracks
    BY DEF AppTypeOK
  <1>4. /\ app' = app /\ anlz' = anlz /\ data' = data
        /\ database' \in Databases \cup {Nothing} /\ databaseLoaded' \in BOOLEAN
    BY <1>3 DEF BrowserNext, RekordboxBrowser, BpmSearch, BrowserKeyMove, KeyView, KeySelect,
       LoadLists, LoadListsFails, KeyRange, KeyEdit, LoadSearch, appVars, shownVars
  <1>5. app' # "rekordbox-browser" => list' \in Seq(Tracks)
    <2> SUFFICES ASSUME app' # "rekordbox-browser" PROVE list' \in Seq(Tracks)
      OBVIOUS
    <2>1. app = "bpm-search" /\ app' = "bpm-search"
      BY <1>2, <1>4 DEF BrowserTypeOK, Browsers
    <2>2. CASE databaseLoaded'
      <3>1. database' \in Databases /\ list' = Search(database, bpmMin, bpmMax)'
        BY <1>2, <2>1, <2>2 DEF BrowserTypeOK, ResultsInRange
      <3>2. bpmMin' \in MinBpm .. MaxBpm /\ bpmMax' \in MinBpm .. MaxBpm
        <4>1. bpmMin' \in Int /\ bpmMax' \in Int /\ MinBpm \in Int /\ MaxBpm \in Int
          BY <1>2, BpmAssumption DEF BrowserTypeOK
        <4>2. MinBpm <= bpmMin' /\ bpmMin' + 1 <= bpmMax' /\ bpmMax' <= MaxBpm
          BY <1>2 DEF RangeOrdered
        <4> QED BY <4>1, <4>2, WithinLimits
      <3> QED BY <3>1, <3>2, SearchFindsTracks
    <2>3. CASE ~ databaseLoaded'
      <3>1. list' = list
        BY <2>1, <2>3 DEF BrowserNext, RekordboxBrowser, BpmSearch, BrowserKeyMove, KeyRange,
           KeyEdit, LoadSearch, appVars
      <3> QED BY <1>3, <2>1, <3>1
    <2> QED BY <2>2, <2>3
  <1>6. selectedTrack' \in Tracks \cup {Nothing}
    <2>1. CASE app = "rekordbox-browser" /\ KeySelect
      <3>1. database' \in Databases
        BY <2>1, <1>2 DEF KeySelect, BrowserTypeOK
      <3>2. selectedTrack' # Nothing => selectedTrack' \in TracksIn(database')
        BY <1>2, <1>4, <2>1 DEF TrackOfDatabase
      <3> QED BY <3>1, <3>2 DEF Tracks
    <2>2. CASE ~ (app = "rekordbox-browser" /\ KeySelect)
      <3>1. selectedTrack' \in {selectedTrack, Nothing}
        BY <2>2 DEF BrowserNext, RekordboxBrowser, BpmSearch, BrowserKeyMove, KeyView, LoadLists,
           LoadListsFails, KeyRange, KeyEdit, LoadSearch, NoTrack, appVars, shownVars
      <3> QED BY <1>3, <3>1
    <2> QED BY <2>1, <2>2
  <1> QED BY <1>2, <1>3, <1>4, <1>5, <1>6 DEF AppTypeOK, BrowserTypeOK

\* The invariant of rekordbox-browser and bpm-search holds after every key and load.
THEOREM BrowserInvHolds == BrowserSpec => []BrowserInv
  BY BrowserInitInv, BrowserNextInv, PTL DEF BrowserSpec

-----------------------------------------------------------------------------
(***************************************************************************)
(* The panels of PanelBrowsers.                                            *)
(***************************************************************************)

PanelTypeOK ==
    /\ app \in PanelApps
    /\ focus \in 1 .. Depth
    /\ DOMAIN lists = Panels /\ \A p \in Panels : IsList(lists[p])
    /\ RowsOf(lists[1]) \subseteq Tops
    /\ app = "tag-browser" => RowsOf(lists[2]) \subseteq Mids
    /\ cursors \in [Panels -> Cursor]

PanelInv == PanelTypeOK /\ PanelHighlightDrawn /\ PanelsFollow

\* The facts about lists that are needed of those in the panels.
LEMMA ListFacts ==
  ASSUME NEW l, IsList(l)
  PROVE  /\ Len(l) \in Nat /\ DOMAIN l = 1 .. Len(l)
         /\ l # <<>> <=> Len(l) > 0
         /\ \A i \in Int : IsRow(l, i) => Row(l, i) \in RowsOf(l)
         /\ l # <<>> <=> IsRow(l, 0)
         /\ l # <<>> => l[1] \in RowsOf(l) /\ Row(l, 0) = l[1]
  <1>1. l \in Seq(RowsOf(l))
    BY DEF IsList
  <1>2. Len(l) \in Nat /\ DOMAIN l = 1 .. Len(l) /\ (l # <<>> <=> Len(l) > 0)
    BY <1>1
  <1>3. \A i \in Int : IsRow(l, i) => Row(l, i) \in RowsOf(l)
    BY <1>2 DEF IsRow, Row, RowsOf
  <1>4. l # <<>> <=> IsRow(l, 0)
    BY <1>2 DEF IsRow
  <1>5. Row(l, 0) = l[1]
    BY DEF Row
  <1> QED BY <1>2, <1>3, <1>4, <1>5

LEMMA EmptyIsList == IsList(<<>>) /\ RowsOf(<<>>) = {} /\ Len(<<>>) = 0
  BY DEF IsList, RowsOf

\* What is listed of a row of the panels that are sources.
LEMMA ChildrenFacts ==
  /\ \A d \in Databases : IsList(TopOf[d]) /\ RowsOf(TopOf[d]) \subseteq Tops
  /\ \A r \in Tops : IsList(Children[r]) /\ RowsOf(Children[r]) \subseteq Mids
  /\ \A r \in Mids : IsList(Children[r])
  BY PanelsAssumption DEF Tops, Mids

\* A cursor that is put back or moved by a key fits where it did.
LEMMA HeightIsNat ==
  ASSUME PanelTypeOK, NEW p \in Panels
  PROVE  Height(p) \in Nat \ {0}
  BY ListFacts DEF PanelTypeOK, Height

\* Putting back the cursors of the panels that are filled.
LEMMA MovedType ==
  ASSUME PanelTypeOK, NEW p \in Panels, NEW c \in Cursor
  PROVE  Moved(p, c) \in [Panels -> Cursor]
  <1> SUFFICES ASSUME NEW q \in Panels
               PROVE  (CASE q < p -> cursors[q] [] q = p -> c [] q > p -> AtStart) \in Cursor
    BY DEF Moved
  <1>1. cursors[q] \in Cursor /\ AtStart \in Cursor /\ q \in Int /\ p \in Int
    BY DEF PanelTypeOK, Panels, AtStart, Cursor
  <1>2. q < p \/ q = p \/ q > p
    BY <1>1
  <1> QED BY <1>1, <1>2

LEMMA DepthFacts ==
  ASSUME PanelTypeOK
  PROVE  Depth \in {2, 3} /\ (app # "playlist-browser" <=> Depth = 3)
  BY DEF PanelTypeOK, PanelApps, Depth

LEMMA FirstIsRow ==
  ASSUME NEW l, IsList(l)
  PROVE  ListedFirst(l) = IF IsRow(l, 0) THEN Children[Row(l, 0)] ELSE <<>>
  BY ListFacts DEF ListedFirst

LEMMA FirstOfTops ==
  ASSUME NEW l, IsList(l), RowsOf(l) \subseteq Tops
  PROVE  IsList(ListedFirst(l)) /\ RowsOf(ListedFirst(l)) \subseteq Mids
  <1>1. CASE l = <<>>
    BY <1>1, EmptyIsList DEF ListedFirst
  <1>2. CASE l # <<>>
    <2>1. l[1] \in Tops
      BY <1>2, ListFacts
    <2> QED BY <1>2, <2>1, ChildrenFacts DEF ListedFirst
  <1> QED BY <1>1, <1>2

LEMMA FirstOfMids ==
  ASSUME NEW l, IsList(l), RowsOf(l) \subseteq Mids
  PROVE  IsList(ListedFirst(l))
  <1>1. CASE l = <<>>
    BY <1>1, EmptyIsList DEF ListedFirst
  <1>2. CASE l # <<>>
    <2>1. l[1] \in Mids
      BY <1>2, ListFacts
    <2> QED BY <1>2, <2>1, ChildrenFacts DEF ListedFirst
  <1> QED BY <1>1, <1>2

\* Filling the panels from one on keeps every panel to what it may list.
LEMMA FilledType ==
  ASSUME PanelTypeOK, NEW p \in Panels, NEW l, IsList(l),
         p = 1 => RowsOf(l) \subseteq Tops,
         p = 2 => RowsOf(l) \subseteq Mids
  PROVE  LET new == Filled(p, l)
         IN  /\ DOMAIN new = Panels /\ \A q \in Panels : IsList(new[q])
             /\ RowsOf(new[1]) \subseteq Tops
             /\ app = "tag-browser" => RowsOf(new[2]) \subseteq Mids
  <1> DEFINE new == Filled(p, l)
  <1>1. DOMAIN new = Panels /\ p \in {1, 2, 3}
    BY DEF Filled, Panels
  <1>2. IsList(lists[1]) /\ IsList(lists[2]) /\ RowsOf(lists[1]) \subseteq Tops
    BY DEF PanelTypeOK, Panels
  <1>3. CASE p = 1
    <2>1. new[1] = l /\ new[2] = ListedFirst(l) /\ new[3] = ListedFirst(ListedFirst(l))
      BY <1>3 DEF Filled, Panels
    <2> HIDE DEF new
    <2>2. IsList(ListedFirst(l)) /\ RowsOf(ListedFirst(l)) \subseteq Mids
      BY <1>3, FirstOfTops
    <2>3. IsList(ListedFirst(ListedFirst(l)))
      BY <2>2, FirstOfMids
    <2>4. \A q \in Panels : IsList(new[q])
      BY <2>1, <2>2, <2>3 DEF Panels
    <2>5. RowsOf(new[1]) \subseteq Tops /\ RowsOf(new[2]) \subseteq Mids
      BY <1>3, <2>1, <2>2
    <2> QED BY <1>1, <2>4, <2>5 DEF new
  <1>4. CASE p = 2
    <2>1. new[1] = lists[1] /\ new[2] = l /\ new[3] = ListedFirst(l)
      BY <1>4 DEF Filled, Panels
    <2> HIDE DEF new
    <2>2. IsList(ListedFirst(l))
      BY <1>4, FirstOfMids
    <2>4. \A q \in Panels : IsList(new[q])
      BY <1>2, <2>1, <2>2 DEF Panels
    <2>5. RowsOf(new[1]) \subseteq Tops /\ RowsOf(new[2]) \subseteq Mids
      BY <1>2, <1>4, <2>1
    <2> QED BY <1>1, <2>4, <2>5 DEF new
  <1>5. CASE p = 3
    <2>1. new[1] = lists[1] /\ new[2] = lists[2] /\ new[3] = l
      BY <1>5 DEF Filled, Panels
    <2> HIDE DEF new
    <2>4. \A q \in Panels : IsList(new[q])
      BY <1>2, <2>1 DEF Panels
    <2>5. RowsOf(new[1]) \subseteq Tops /\ (app = "tag-browser" => RowsOf(new[2]) \subseteq Mids)
      BY <1>2, <2>1 DEF PanelTypeOK
    <2> QED BY <1>1, <2>4, <2>5 DEF new
  <1> QED BY <1>1, <1>3, <1>4, <1>5

\* selectPlaylist, selectCategory, selectTag of a row that is there.
LEMMA SelectPanelKeeps ==
  ASSUME PanelInv, NEW c \in Cursor, focus < Depth, IsRow(lists[focus], c.sel),
         Fits(c, Len(lists[focus]), Height(focus)), MoveTo(c),
         UNCHANGED <<appVars, focus>>
  PROVE  PanelInv'
  <1> DEFINE p == focus
             l == Children[Row(lists[p], c.sel)]
  <1>1. PanelTypeOK /\ PanelHighlightDrawn /\ PanelsFollow
    BY DEF PanelInv
  <1>2. Depth \in {2, 3} /\ p \in {1, 2} /\ p + 1 \in Panels /\ p \in Panels
    BY <1>1, DepthFacts DEF PanelTypeOK, Panels
  <1>3. cursors' = Moved(p, c) /\ lists' = Filled(p + 1, l) /\ app' = app /\ focus' = focus
    BY DEF MoveTo, appVars
  <1>4. c.sel \in Int /\ IsList(lists[p]) /\ Row(lists[p], c.sel) \in RowsOf(lists[p])
    <2>1. c.sel \in Int /\ IsList(lists[p])
      BY <1>1, <1>2 DEF PanelTypeOK, Cursor
    <2> QED BY <2>1, ListFacts
  <1>5. IsList(l) /\ (p = 1 => RowsOf(l) \subseteq Mids)
    <2>1. CASE p = 1
      BY <1>1, <1>4, <2>1, ChildrenFacts DEF PanelTypeOK
    <2>2. CASE p = 2
      <3>1. app = "tag-browser"
        BY <1>1, <2>2, DepthFacts DEF PanelTypeOK, PanelApps, Depth
      <3> QED BY <1>1, <1>4, <2>2, <3>1, ChildrenFacts DEF PanelTypeOK
    <2> QED BY <1>2, <2>1, <2>2
  <1>6. \A q \in Panels : cursors'[q] = (IF q < p THEN cursors[q] ELSE IF q = p THEN c ELSE AtStart)
    BY <1>2, <1>3 DEF Moved, Panels
  <1>7. \A q \in Panels : lists'[q] = (IF q <= p THEN lists[q] ELSE IF q = p + 1 THEN l
                                                              ELSE ListedFirst(l))
    BY <1>2, <1>3 DEF Filled, Panels
  <1>8. cursors' \in [Panels -> Cursor]
    BY <1>1, <1>2, <1>3, MovedType
  <1>9. /\ DOMAIN lists' = Panels /\ \A q \in Panels : IsList(lists'[q])
        /\ RowsOf(lists'[1]) \subseteq Tops
        /\ app = "tag-browser" => RowsOf(lists'[2]) \subseteq Mids
    BY <1>1, <1>2, <1>3, <1>5, FilledType
  <1> HIDE DEF l
  <1>10. PanelTypeOK'
    BY <1>1, <1>3, <1>8, <1>9 DEF PanelTypeOK, Depth
  <1>11. PanelHighlightDrawn'
    <2> SUFFICES ASSUME NEW q \in 1 .. Depth PROVE Fits(cursors[q], Len(lists[q]), Height(q))'
      BY <1>3 DEF PanelHighlightDrawn, Depth
    <2>1. q \in Panels
      BY <1>2 DEF Panels
    <2>2. CASE q < p
      <3>1. cursors'[q] = cursors[q] /\ lists'[q] = lists[q]
        BY <1>2, <1>6, <1>7, <2>1, <2>2 DEF Panels
      <3>2. Fits(cursors[q], Len(lists[q]), Height(q))
        BY <1>1 DEF PanelHighlightDrawn, PanelTypeOK
      <3> QED BY <1>3, <3>1, <3>2 DEF Height
    <2>3. CASE q = p
      <3>1. cursors'[q] = c /\ lists'[q] = lists[q]
        BY <1>2, <1>6, <1>7, <2>1, <2>3 DEF Panels
      <3> QED BY <1>3, <2>3, <3>1 DEF Height
    <2>4. CASE q > p
      <3>1. cursors'[q] = AtStart
        BY <1>2, <1>6, <2>1, <2>4 DEF Panels
      <3>2. Height(q)' \in Nat \ {0} /\ Len(lists'[q]) \in Nat
        <4>1. Len(lists'[q]) \in Nat
          BY <1>9, <2>1, ListFacts
        <4> QED BY <4>1 DEF Height
      <3> QED BY <3>1, <3>2, StartFits
    <2> QED BY <1>2, <2>2, <2>3, <2>4
  <1>12. PanelsFollow'
    <2> SUFFICES ASSUME lists'[1] # <<>>, NEW q \in 1 .. Depth - 1
                 PROVE  lists'[q + 1] = Listed(q)'
      BY <1>3 DEF PanelsFollow, Depth
    <2>1. q \in Panels /\ q + 1 \in Panels /\ q \in {1, 2}
      BY <1>2 DEF Panels
    <2>2. CASE q < p
      <3>1. /\ cursors'[q] = cursors[q] /\ lists'[q] = lists[q] /\ lists'[q + 1] = lists[q + 1]
            /\ lists'[1] = lists[1]
        BY <1>2, <1>6, <1>7, <2>1, <2>2 DEF Panels
      <3> QED BY <1>1, <3>1 DEF PanelsFollow, PanelTypeOK, Listed
    <2>3. CASE q = p
      <3>1. cursors'[q] = c /\ lists'[q] = lists[q] /\ lists'[q + 1] = l
        BY <1>2, <1>6, <1>7, <2>1, <2>3 DEF Panels
      <3> QED BY <2>3, <3>1 DEF Listed, l
    <2>4. CASE q > p
      <3>1. cursors'[q] = AtStart /\ lists'[q] = l /\ lists'[q + 1] = ListedFirst(l)
        BY <1>2, <1>6, <1>7, <2>1, <2>4 DEF Panels
      <3> QED BY <1>5, <3>1, FirstIsRow DEF Listed, AtStart
    <2> QED BY <1>2, <2>1, <2>2, <2>3, <2>4
  <1> QED BY <1>10, <1>11, <1>12 DEF PanelInv

\* The highlight of the last panel moves, or that of a panel without rows.
LEMMA MovePanelKeeps ==
  ASSUME PanelInv, NEW c \in Cursor, ~(focus < Depth /\ IsRow(lists[focus], c.sel)),
         Fits(c, Len(lists[focus]), Height(focus)), MoveTo(c),
         UNCHANGED <<appVars, focus>>
  PROVE  PanelInv'
  <1>1. PanelTypeOK /\ PanelHighlightDrawn /\ PanelsFollow
    BY DEF PanelInv
  <1>2. /\ cursors' = [cursors EXCEPT ![focus] = c] /\ lists' = lists
        /\ app' = app /\ focus' = focus
    BY DEF MoveTo, appVars
  <1>3. /\ Depth \in {2, 3} /\ focus \in 1 .. Depth /\ focus \in Panels
        /\ cursors \in [Panels -> Cursor]
    BY <1>1, DepthFacts DEF PanelTypeOK, Panels
  <1>4. PanelTypeOK'
    BY <1>1, <1>2, <1>3 DEF PanelTypeOK, Depth
  <1>5. \A q \in Panels : cursors'[q] = IF q = focus THEN c ELSE cursors[q]
    BY <1>2, <1>3
  <1>6. PanelHighlightDrawn'
    <2> SUFFICES ASSUME NEW q \in 1 .. Depth PROVE Fits(cursors'[q], Len(lists[q]), Height(q))
      BY <1>2 DEF PanelHighlightDrawn, Depth, Height
    <2>1. q \in Panels
      BY <1>3 DEF Panels
    <2> QED BY <1>1, <1>5, <2>1 DEF PanelHighlightDrawn, PanelTypeOK
  <1>7. PanelsFollow'
    <2> SUFFICES ASSUME lists[1] # <<>>, NEW q \in 1 .. Depth - 1
                 PROVE  lists[q + 1] = Listed(q)'
      BY <1>2 DEF PanelsFollow, Depth
    <2>1. q \in Panels /\ lists[q + 1] = Listed(q)
      BY <1>1, <1>3 DEF PanelsFollow, PanelTypeOK, Panels
    <2>2. CASE q = focus
      <3>1. IsList(lists[q]) /\ c.sel \in Int
        BY <1>1, <2>1 DEF PanelTypeOK, Cursor
      <3>2. Len(lists[q]) \in Nat /\ q < Depth
        BY <1>3, <3>1, ListFacts
      <3>3. Len(lists[q]) = 0
        BY <2>2, <3>2 DEF Fits, IsRow
      <3>4. ~IsRow(lists[q], cursors[q].sel) /\ ~IsRow(lists[q], cursors'[q].sel)
        BY <3>3 DEF IsRow
      <3> QED BY <1>2, <2>1, <3>4 DEF Listed
    <2>3. CASE q # focus
      BY <1>2, <1>5, <2>1, <2>3 DEF Listed
    <2> QED BY <2>2, <2>3
  <1> QED BY <1>4, <1>6, <1>7 DEF PanelInv

LEMMA PanelKeyMoveKeeps == PanelInv /\ PanelKeyMove => PanelInv'
  <1> SUFFICES ASSUME PanelInv, PanelKeyMove PROVE PanelInv'
    OBVIOUS
  <1> DEFINE c == cursors[focus]
             n == Len(lists[focus])
  <1>1. PanelTypeOK /\ PanelHighlightDrawn
    BY DEF PanelInv
  <1>2. /\ focus \in Panels /\ focus \in 1 .. Depth
        /\ c \in Cursor /\ n \in Nat /\ IsList(lists[focus])
    <2>1. focus \in Panels /\ focus \in 1 .. Depth
      BY <1>1, DepthFacts DEF PanelTypeOK, Panels
    <2> QED BY <1>1, <2>1, ListFacts DEF PanelTypeOK
  <1>3. Height(focus) \in Nat \ {0} /\ Fits(c, n, Height(focus))
    BY <1>1, <1>2, HeightIsNat DEF PanelHighlightDrawn, PanelTypeOK
  <1>4. PICK new \in {Up(c), Down(c, n, Height(focus))} : MoveTo(new)
    BY DEF PanelKeyMove
  <1>5. UNCHANGED <<appVars, focus>>
    BY DEF PanelKeyMove
  <1> HIDE DEF c
  <1>6. new \in Cursor
    BY <1>2, <1>3, CursorType
  <1>7. Fits(new, n, Height(focus))
    BY <1>2, <1>3, KeysFit
  <1> QED BY <1>5, <1>6, <1>7, <1>4, SelectPanelKeeps, MovePanelKeeps

LEMMA PanelKeyFocusKeeps == PanelInv /\ PanelKeyFocus => PanelInv'
  <1> SUFFICES ASSUME PanelInv, PanelKeyFocus PROVE PanelInv'
    OBVIOUS
  <1>1. /\ app' = app /\ lists' = lists /\ cursors' = cursors
        /\ focus' \in {(focus % Depth) + 1, Larger(1, focus - 1), Smaller(Depth, focus + 1)}
    BY DEF PanelKeyFocus, appVars
  <1>2. PanelTypeOK
    BY DEF PanelInv
  <1>3. Depth \in {2, 3} /\ focus \in 1 .. Depth
    BY <1>2, DepthFacts DEF PanelTypeOK
  <1>4. focus' \in 1 .. Depth
    BY <1>1, <1>3 DEF Larger, Smaller
  <1> QED BY <1>1, <1>4 DEF PanelInv, PanelTypeOK, PanelHighlightDrawn, PanelsFollow, Depth,
          Height, Listed

LEMMA LoadPanelsKeeps ==
  ASSUME PanelInv, NEW d \in Databases, LoadPanels(d)
  PROVE  PanelInv'
  <1> DEFINE l == TopOf[d]
  <1>1. PanelTypeOK /\ PanelHighlightDrawn
    BY DEF PanelInv
  <1>2. app' = app /\ focus' = focus /\ Depth \in {2, 3} /\ Depth' = Depth
    BY <1>1, DepthFacts DEF LoadPanels, Depth
  <1>3. IsList(l) /\ RowsOf(l) \subseteq Tops
    BY ChildrenFacts
  <1>4. CASE l = <<>>
    <2>1. lists' = [lists EXCEPT ![1] = <<>>] /\ cursors' = [cursors EXCEPT ![1] = AtStart]
      BY <1>4 DEF LoadPanels
    <2>2. /\ \A q \in Panels : lists'[q] = IF q = 1 THEN <<>> ELSE lists[q]
          /\ \A q \in Panels : cursors'[q] = IF q = 1 THEN AtStart ELSE cursors[q]
          /\ DOMAIN lists' = Panels /\ cursors' \in [Panels -> Cursor]
          /\ 1 \in Panels /\ 2 \in Panels
      BY <1>1, <2>1 DEF PanelTypeOK, Panels, AtStart, Cursor
    <2>3. \A q \in Panels : IsList(lists'[q])
      BY <1>1, <2>2, EmptyIsList DEF PanelTypeOK
    <2>4. lists'[1] = <<>> /\ lists'[2] = lists[2]
      BY <2>2
    <2>5. PanelTypeOK'
      BY <1>1, <1>2, <2>2, <2>3, <2>4, EmptyIsList DEF PanelTypeOK
    <2>6. PanelHighlightDrawn'
      <3> SUFFICES ASSUME NEW q \in 1 .. Depth PROVE Fits(cursors[q], Len(lists[q]), Height(q))'
        BY <1>2 DEF PanelHighlightDrawn
      <3>1. q \in Panels
        BY <1>2 DEF Panels
      <3>2. CASE q = 1
        <4>1. Len(lists'[q]) = 0
          BY <2>4, <3>2
        <4> QED BY <4>1 DEF Fits
      <3>3. CASE q # 1
        <4>1. cursors'[q] = cursors[q] /\ lists'[q] = lists[q]
          BY <2>2, <3>1, <3>3
        <4> QED BY <1>1, <1>2, <4>1 DEF PanelHighlightDrawn, PanelTypeOK, Height
      <3> QED BY <3>2, <3>3
    <2>7. PanelsFollow'
      BY <2>4 DEF PanelsFollow
    <2> QED BY <2>5, <2>6, <2>7 DEF PanelInv
  <1>5. CASE l # <<>>
    <2>1. lists' = Filled(1, l) /\ cursors' = Moved(1, AtStart)
      BY <1>5 DEF LoadPanels
    <2>2. \A q \in Panels : cursors'[q] = AtStart
      BY <2>1 DEF Moved, Panels
    <2>3. cursors' \in [Panels -> Cursor]
      <3>1. 1 \in Panels /\ AtStart \in Cursor
        BY DEF AtStart, Cursor, Panels
      <3> QED BY <1>1, <2>1, <3>1, MovedType
    <2>4. /\ lists'[1] = l /\ lists'[2] = ListedFirst(lists'[1])
          /\ lists'[3] = ListedFirst(lists'[2])
      BY <2>1 DEF Filled, Panels
    <2>5. /\ DOMAIN lists' = Panels /\ \A q \in Panels : IsList(lists'[q])
          /\ RowsOf(lists'[1]) \subseteq Tops
          /\ app = "tag-browser" => RowsOf(lists'[2]) \subseteq Mids
      <3>1. 1 \in Panels
        BY DEF Panels
      <3> QED BY <1>1, <1>3, <2>1, <3>1, FilledType
    <2>6. PanelTypeOK'
      BY <1>1, <1>2, <2>3, <2>5 DEF PanelTypeOK
    <2>7. PanelHighlightDrawn'
      <3> SUFFICES ASSUME NEW q \in 1 .. Depth PROVE Fits(cursors[q], Len(lists[q]), Height(q))'
        BY <1>2 DEF PanelHighlightDrawn
      <3>1. q \in Panels
        BY <1>2 DEF Panels
      <3>2. Height(q)' \in Nat \ {0} /\ Len(lists'[q]) \in Nat
        <4>1. Len(lists'[q]) \in Nat
          BY <2>5, <3>1, ListFacts
        <4> QED BY <4>1 DEF Height
      <3> QED BY <2>2, <3>1, <3>2, StartFits
    <2>8. PanelsFollow'
      <3> SUFFICES ASSUME NEW q \in 1 .. Depth - 1 PROVE lists'[q + 1] = Listed(q)'
        BY <1>2 DEF PanelsFollow
      <3>1. q \in {1, 2} /\ q \in Panels
        BY <1>2 DEF Panels
      <3>2. lists'[q + 1] = ListedFirst(lists'[q])
        BY <2>4, <3>1
      <3> QED BY <2>2, <2>5, <3>1, <3>2, FirstIsRow DEF Listed, AtStart
    <2> QED BY <2>6, <2>7, <2>8 DEF PanelInv
  <1> QED BY <1>4, <1>5

LEMMA PanelInitInv == AppInit(PanelApps) /\ PanelInit => PanelInv
  <1> SUFFICES ASSUME AppInit(PanelApps), PanelInit PROVE PanelInv
    OBVIOUS
  <1>1. /\ app \in PanelApps /\ lists = [p \in Panels |-> <<>>]
        /\ cursors = [p \in Panels |-> AtStart] /\ focus = 1
    BY DEF AppInit, PanelInit
  <1>2. DOMAIN lists = Panels /\ lists[1] = <<>> /\ lists[2] = <<>> /\ focus \in 1 .. Depth
    BY <1>1 DEF Panels, Depth
  <1>3. \A p \in Panels : IsList(lists[p]) /\ Len(lists[p]) = 0
    BY <1>1, EmptyIsList
  <1>4. cursors \in [Panels -> Cursor]
    BY <1>1 DEF AtStart, Cursor
  <1>5. PanelTypeOK
    BY <1>1, <1>2, <1>3, <1>4, EmptyIsList DEF PanelTypeOK
  <1>6. PanelHighlightDrawn
    BY <1>3, <1>5, DepthFacts DEF PanelHighlightDrawn, Fits, Panels
  <1>7. PanelsFollow
    BY <1>2 DEF PanelsFollow
  <1> QED BY <1>5, <1>6, <1>7 DEF PanelInv

LEMMA PanelNextInv == PanelInv /\ [PanelNext]_<<appVars, panelVars>> => PanelInv'
  <1> SUFFICES ASSUME PanelInv, [PanelNext]_<<appVars, panelVars>> PROVE PanelInv'
    OBVIOUS
  <1>1. CASE PanelKeyMove
    BY <1>1, PanelKeyMoveKeeps
  <1>2. CASE PanelKeyFocus
    BY <1>2, PanelKeyFocusKeeps
  <1>3. ASSUME NEW d \in Databases, LoadPanels(d) PROVE PanelInv'
    BY <1>3, LoadPanelsKeeps
  <1>4. CASE UNCHANGED <<appVars, panelVars>>
    BY <1>4 DEF PanelInv, PanelTypeOK, PanelHighlightDrawn, PanelsFollow, Depth, Height, Listed,
       appVars, panelVars
  <1> QED BY <1>1, <1>2, <1>3, <1>4 DEF PanelNext, PlaylistBrowser, TagBrowser

\* The panels have their own lists and cursors, and show no track.
NoTrackShown == AppTypeOK /\ list = <<>> /\ selectedTrack = Nothing /\ data = {}

LEMMA PanelTypes ==
  NoTrackShown /\ [PanelNext]_<<appVars, panelVars>> => NoTrackShown'
  <1> SUFFICES ASSUME NoTrackShown, [PanelNext]_<<appVars, panelVars>> PROVE NoTrackShown'
    OBVIOUS
  <1>1. /\ UNCHANGED <<app, anlz, list, cursor, shownVars>>
        /\ \/ UNCHANGED <<database, databaseLoaded>>
           \/ \E d \in Databases : database' = d /\ databaseLoaded' = TRUE
    BY DEF PanelNext, PlaylistBrowser, TagBrowser, PanelKeyMove, PanelKeyFocus, LoadPanels, appVars
  <1> QED BY <1>1 DEF NoTrackShown, AppTypeOK, shownVars

\* The invariant of playlist-browser and tag-browser holds after every key and load.
THEOREM PanelInvHolds == PanelSpec => []PanelInv
  BY PanelInitInv, PanelNextInv, PTL DEF PanelSpec
=============================================================================
