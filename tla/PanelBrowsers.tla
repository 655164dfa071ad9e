--------------------------- MODULE PanelBrowsers ----------------------------
(***************************************************************************)
(* example-playlist-browser and example-tag-browser: panels side by side,  *)
(* where the row selected in one decides what the next one lists.          *)
(*   playlist-browser: playlists (1), their tracks (2)                     *)
(*   tag-browser:      categories (1), their tags (2), tagged tracks (3)   *)
(* The key of a panel's list goes to the panel in focus.  The database is  *)
(* database in the first and extDatabase in the second.                    *)
(***************************************************************************)
EXTENDS RekordboxApp

CONSTANTS
    TopOf,      \* per database, its playlists or its categories
    Children    \* per playlist, category, tag and track, what is listed of it

RowsOf(l) == {l[i] : i \in DOMAIN l}
IsList(l) == l \in Seq(RowsOf(l))

\* Playlists and categories, and what is listed of one.
Tops == UNION {RowsOf(TopOf[d]) : d \in Databases}
Mids == UNION {RowsOf(Children[r]) : r \in Tops}

ASSUME PanelsAssumption == /\ \A d \in Databases : IsList(TopOf[d])
                           /\ \A r \in Tops \cup Mids : IsList(Children[r])

PanelApps == {"playlist-browser", "tag-browser"}

VARIABLES
    lists,      \* playlistIds, playlistTracks; categoryIds, tagsInCategory, ...
    cursors,    \* the cursor of each panel
    focus       \* focusPanel, counted from 1

panelVars == <<lists, cursors, focus>>

Panels == 1 .. 3

PanelInit == /\ lists = [p \in Panels |-> <<>>]
             /\ cursors = [p \in Panels |-> AtStart]
             /\ focus = 1

Depth == IF app = "playlist-browser" THEN 2 ELSE 3

\* The rows of panel p between which the highlight moves without scrolling:
\* categories and tags do not scroll.
Height(p) == IF app = "playlist-browser" \/ p = 3 THEN Rows ELSE Len(lists[p]) + 1

-----------------------------------------------------------------------------
ListedFirst(l) == IF l = <<>> THEN <<>> ELSE Children[l[1]]

\* Mutant: the panel after the next keeps its list.
FilledNext(p, l) == [lists EXCEPT ![p] = l]

\* The lists once panel p lists l, and its first row, if any, was selected.
Filled(p, l) ==
    [q \in Panels |-> CASE q < p     -> lists[q]
                        [] q = p     -> l
                        [] q = p + 1 -> ListedFirst(l)
                        [] q > p + 1 -> ListedFirst(ListedFirst(l))]

\* Mutant: the cursors of the panels that are filled stay.
MovedOnly(p, c) == [cursors EXCEPT ![p] = c]

\* The cursors once that of panel p is c, and those after it are put back.
Moved(p, c) == [q \in Panels |-> CASE q < p -> cursors[q] [] q = p -> c [] q > p -> AtStart]

\* A row of the panel in focus is selected: selectPlaylist, selectCategory,
\* selectTag; in the last panel only the highlight moves.
MoveTo(c) ==
    LET p == focus
    IN  IF p < Depth /\ IsRow(lists[p], c.sel)
        THEN /\ cursors' = Moved(p, c)
             /\ lists' = Filled(p + 1, Children[Row(lists[p], c.sel)])
        ELSE /\ cursors' = [cursors EXCEPT ![p] = c]
             /\ UNCHANGED lists

PanelKeyMove ==
    /\ databaseLoaded
    /\ \/ MoveTo(Up(cursors[focus]))
       \/ MoveTo(Down(cursors[focus], Len(lists[focus]), Height(focus)))
    /\ UNCHANGED <<appVars, focus>>

\* TAB, LEFT, RIGHT
PanelKeyFocus ==
    /\ databaseLoaded
    /\ focus' \in {(focus % Depth) + 1, Larger(1, focus - 1), Smaller(Depth, focus + 1)}
    /\ UNCHANGED <<appVars, lists, cursors>>

\* loadDatabase, loadExtDatabase: a database with nothing to list leaves the
\* other panels as they are.
LoadPanels(d) ==
    /\ database' = d /\ databaseLoaded' = TRUE
    /\ IF TopOf[d] = <<>>
       THEN /\ lists' = [lists EXCEPT ![1] = <<>>]
            /\ cursors' = [cursors EXCEPT ![1] = AtStart]
       ELSE /\ lists' = Filled(1, TopOf[d])
            /\ cursors' = Moved(1, AtStart)
    /\ UNCHANGED <<app, anlz, list, cursor, shownVars, focus>>

PlaylistBrowser ==
    /\ app = "playlist-browser"
    /\ PanelKeyMove \/ PanelKeyFocus \/ \E d \in Databases : LoadPanels(d)

TagBrowser ==
    /\ app = "tag-browser"
    /\ PanelKeyMove \/ PanelKeyFocus \/ \E d \in Databases : LoadPanels(d)

PanelNext == PlaylistBrowser \/ TagBrowser

PanelSpec == AppInit(PanelApps) /\ PanelInit /\ [][PanelNext]_<<appVars, panelVars>>

-----------------------------------------------------------------------------
(***************************************************************************)
(* Properties.                                                             *)
(***************************************************************************)

\* What panel p + 1 should list: nothing where no row is selected.
Listed(p) == IF IsRow(lists[p], cursors[p].sel) THEN Children[Row(lists[p], cursors[p].sel)]
                                                ELSE <<>>

\* As long as the first panel has rows, every panel lists what belongs to the
\* row selected before it, whatever was empty on the way.
PanelsFollow ==
    app \in PanelApps /\ lists[1] # <<>> =>
        \A p \in 1 .. Depth - 1 : lists[p + 1] = Listed(p)

\* In every panel the highlight is a row, and is drawn where the panel scrolls,
\* also when another list takes its place.
PanelHighlightDrawn ==
    app \in PanelApps => \A p \in 1 .. Depth : Fits(cursors[p], Len(lists[p]), Height(p))
=============================================================================
