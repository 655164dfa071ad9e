---------------------------- MODULE ListBrowsers ----------------------------
(***************************************************************************)
(* example-rekordbox-browser, which shows one of five lists of a database, *)
(* and example-bpm-search, which shows the tracks in a range of tempo.     *)
(***************************************************************************)
EXTENDS RekordboxApp

CONSTANTS
    ItemsOf,            \* per database and view, what the view lists
    Bpm,                \* per track, its tempo
    MinBpm, MaxBpm,     \* 20 and 300: limits of the range
    FirstMin, FirstMax, \* 120 and 130: the range at the start
    FirstStep, MaxStep  \* 5 and 20: the step at the start, and its limit

ASSUME BpmAssumption ==
    /\ {MinBpm, MaxBpm, FirstMin, FirstMax, FirstStep, MaxStep} \subseteq Int
    /\ MinBpm <= FirstMin /\ FirstMin < FirstMax /\ FirstMax <= MaxBpm
    /\ 1 <= FirstStep /\ FirstStep <= MaxStep

Browsers == {"rekordbox-browser", "bpm-search"}

\* ViewMode; the last one has no list.
Views == <<"Tracks", "Artists", "Albums", "Genres", "Playlists">>

VARIABLES
    view,           \* currentView, an index into Views
    bpmMin, bpmMax, \* the range
    bpmStep,        \* what UP and DOWN add to it or take from it
    editingMin      \* whether they move bpmMin, or bpmMax

bpmVars     == <<bpmMin, bpmMax, bpmStep, editingMin>>
browserVars == <<view, bpmVars>>

BrowserInit ==
    /\ view = 1
    /\ bpmMin = FirstMin /\ bpmMax = FirstMax /\ bpmStep = FirstStep
    /\ editingMin = TRUE

\* What a view lists of the database d.
Items(d, v) == CASE Views[v] = "Tracks"    -> TracksOf[d]
                 [] Views[v] = "Playlists" -> <<>>
                 [] OTHER                  -> ItemsOf[d][v]

\* find_tracks_by_bpm_range
Search(d, min, max) ==
    LET InRange(t) == min <= Bpm[t] /\ Bpm[t] <= max
    IN  SelectSeq(TracksOf[d], InRange)

\* Both of crate-digger-cpp: the lists are lists.
ASSUME ListsAssumption ==
    \A d \in Databases :
        /\ \A v \in DOMAIN Views : Len(Items(d, v)) \in Nat
        /\ \A min, max \in MinBpm .. MaxBpm : Search(d, min, max) \in Seq(TracksIn(d))

-----------------------------------------------------------------------------
(***************************************************************************)
(* example-rekordbox-browser                                               *)
(***************************************************************************)

BrowserKeyMove ==
    /\ databaseLoaded
    /\ cursor' \in {Up(cursor), Down(cursor, Len(list), Rows),
                    PageUp(cursor, Rows), PageDown(cursor, Len(list), Rows)}
    /\ UNCHANGED <<app, database, databaseLoaded, anlz, list, shownVars, browserVars>>

\* Mutant: the cursor of one view is kept in the next.
KeyViewKeepsCursor ==
    /\ databaseLoaded
    /\ \E v \in DOMAIN Views : view' = v /\ list' = Items(database, v)
    /\ UNCHANGED <<app, database, databaseLoaded, anlz, cursor, shownVars, bpmVars>>

\* TAB goes to the next view, '1' to '5' to a view.
KeyView ==
    /\ databaseLoaded
    /\ \E v \in DOMAIN Views : view' = v /\ list' = Items(database, v)
    /\ cursor' = AtStart
    /\ UNCHANGED <<app, database, databaseLoaded, anlz, shownVars, bpmVars>>

\* RETURN looks at the upper bound only: -1, which DOWN gives in an empty
\* list, reads what is before the list, and no track is found by it.
KeySelect ==
    /\ databaseLoaded
    /\ Views[view] = "Tracks" /\ cursor.sel < Len(list)
    /\ selectedTrack' = IF IsRow(list, cursor.sel) THEN Row(list, cursor.sel) ELSE Nothing
    /\ UNCHANGED <<app, database, databaseLoaded, anlz, list, cursor, data, browserVars>>

\* Mutant: selectedTrack.reset() is left out.
TrackKept == selectedTrack

NoTrack == Nothing

\* loadDatabase and refreshLists, which stay in the view.
LoadLists(d) ==
    /\ database' = d /\ databaseLoaded' = TRUE
    /\ list' = Items(d, view) /\ cursor' = AtStart
    /\ selectedTrack' = NoTrack
    /\ UNCHANGED <<app, anlz, data, browserVars>>

LoadListsFails ==
    /\ databaseLoaded' = FALSE
    /\ UNCHANGED <<app, database, anlz, list, cursor, shownVars, browserVars>>

-----------------------------------------------------------------------------
(***************************************************************************)
(* example-bpm-search                                                      *)
(***************************************************************************)

\* performSearch
PerformSearch(d, min, max) == list' = Search(d, min, max) /\ cursor' = AtStart

\* Mutant: bpmMin may reach bpmMax.
RaisedTooFar(b, max) == Smaller(max, b + bpmStep)

\* How far UP raises the lower end, and DOWN lowers the upper one.
RaisedMin(b, max) == Smaller(max - 1, b + bpmStep)
LoweredMax(b, min) == Larger(min + 1, b - bpmStep)

\* UP and DOWN, each followed by a search.
KeyRange ==
    /\ databaseLoaded
    /\ IF editingMin
       THEN bpmMin' \in {RaisedMin(bpmMin, bpmMax), Larger(MinBpm, bpmMin - bpmStep)} /\ UNCHANGED bpmMax
       ELSE bpmMax' \in {Smaller(MaxBpm, bpmMax + bpmStep), LoweredMax(bpmMax, bpmMin)} /\ UNCHANGED bpmMin
    /\ PerformSearch(database, bpmMin', bpmMax')
    /\ UNCHANGED <<app, database, databaseLoaded, anlz, shownVars, view, bpmStep, editingMin>>

\* TAB, '+' and '-'
KeyEdit ==
    /\ databaseLoaded
    /\ \/ editingMin' = ~editingMin /\ UNCHANGED bpmStep
       \/ bpmStep' \in {Smaller(MaxStep, bpmStep + 1), Larger(1, bpmStep - 1)} /\ UNCHANGED editingMin
    /\ UNCHANGED <<appVars, view, bpmMin, bpmMax>>

\* Mutant: the tracks found are those of the database before.
LoadSearchLater(d) ==
    /\ database' = d /\ databaseLoaded' = TRUE
    /\ UNCHANGED <<app, anlz, list, cursor, shownVars, browserVars>>

\* loadDatabase: when it fails everything stays.
LoadSearch(d) ==
    /\ database' = d /\ databaseLoaded' = TRUE
    /\ PerformSearch(d, bpmMin, bpmMax)
    /\ UNCHANGED <<app, anlz, shownVars, browserVars>>

-----------------------------------------------------------------------------
RekordboxBrowser ==
    /\ app = "rekordbox-browser"
    /\ \/ BrowserKeyMove \/ KeyView \/ KeySelect
       \/ \E d \in Databases : LoadLists(d)
       \/ LoadListsFails

BpmSearch ==
    /\ app = "bpm-search"
    /\ \/ KeyRange \/ KeyEdit \/ BrowserKeyMove
       \/ \E d \in Databases : LoadSearch(d)

BrowserNext == RekordboxBrowser \/ BpmSearch

BrowserSpec == AppInit(Browsers) /\ BrowserInit /\ [][BrowserNext]_<<appVars, browserVars>>

-----------------------------------------------------------------------------
(***************************************************************************)
(* Properties.                                                             *)
(***************************************************************************)

\* The details of rekordbox-browser are those of a track of the database that
\* is loaded, never of one that was loaded before it.
TrackOfDatabase ==
    app = "rekordbox-browser" /\ selectedTrack # Nothing => selectedTrack \in TracksIn(database)

\* However the two ends are moved, and by whatever steps, the range stays
\* within its limits, and keeps a width of at least one.
RangeOrdered ==
    MinBpm <= bpmMin /\ bpmMin + 1 <= bpmMax /\ bpmMax <= MaxBpm

\* The results on display are those of the range and the database on display.
ResultsInRange ==
    app = "bpm-search" /\ databaseLoaded => list = Search(database, bpmMin, bpmMax)
=============================================================================
