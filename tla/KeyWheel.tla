------------------------------ MODULE KeyWheel ------------------------------
(***************************************************************************)
(* example-key-wheel: the keys of a database, placed on the Camelot wheel  *)
(* by their names; one is selected with the mouse or the arrow keys, and   *)
(* its tracks are listed.                                                  *)
(*                                                                         *)
(* Angles are counted in halves of a segment, 0 .. 23, clockwise from the  *)
(* top of the wheel.                                                       *)
(***************************************************************************)
EXTENDS RekordboxApp, SequencesExt

CONSTANTS
    KeysOf      \* per database, its keys: a set of a name and a track list

ASSUME KeysAssumption ==
    \A d \in Databases : /\ IsFiniteSet(KeysOf[d])
                         /\ \A k \in KeysOf[d] : Len(k.tracks) \in Nat

VARIABLES
    keys,       \* keys, a sequence of KeyData
    selectedKey,\* selectedKeyIndex, -1 when none is selected
    stale       \* history: keys were loaded since a key of them was selected

wheelVars == <<keys, selectedKey, stale>>

WheelInit == keys = <<>> /\ selectedKey = -1 /\ stale = FALSE

-----------------------------------------------------------------------------
(***************************************************************************)
(* buildKeyData                                                            *)
(***************************************************************************)

\* The names of camelotMapping, each list from 1 to 12; a name is the sequence
\* of its characters, which are all that find looks at.
MinorNames ==
    <<<<"A", "b", "m">>, <<"E", "b", "m">>, <<"B", "b", "m">>,
      <<"F", "m">>, <<"C", "m">>, <<"G", "m">>,
      <<"D", "m">>, <<"A", "m">>, <<"E", "m">>,
      <<"B", "m">>, <<"F", "#", "m">>, <<"D", "b", "m">>>>

MajorNames ==
    <<<<"B">>, <<"G", "b">>, <<"D", "b">>, <<"A", "b">>,
      <<"E", "b">>, <<"B", "b">>, <<"F">>, <<"C">>,
      <<"G">>, <<"D">>, <<"A">>, <<"E">>>>

\* Mutant: the major names come first.
MajorFirst ==
    [i \in 1 .. 24 |-> [name   |-> (MajorNames \o MinorNames)[i],
                        number |-> ((i - 1) % 12) + 1, minor |-> i > 12]]

camelotMapping ==
    [i \in 1 .. 24 |-> [name   |-> (MinorNames \o MajorNames)[i],
                        number |-> ((i - 1) % 12) + 1, minor |-> i <= 12]]

\* s.find(t) != npos
HasWithin(s, t) == \E i \in 1 .. Len(s) - Len(t) + 1 : SubSeq(s, i, i + Len(t) - 1) = t

\* The place of a key: the first entry whose name is in its name, or has its
\* name in it; number 0 when there is none.
Placed(name) ==
    LET fits == {i \in DOMAIN camelotMapping :
                    \/ HasWithin(name, camelotMapping[i].name)
                    \/ HasWithin(camelotMapping[i].name, name)}
    IN  IF fits = {} THEN [number |-> 0, minor |-> FALSE]
        ELSE LET e == camelotMapping[CHOOSE i \in fits : \A j \in fits : i <= j]
             IN  [number |-> e.number, minor |-> e.minor]

\* Minor keys first, then by their number; std::sort leaves the rest open.
Before(a, b) == IF a.minor # b.minor THEN a.minor ELSE a.number < b.number

\* The KeyData of a key of the database.
KeyDataOf(k) ==
    [name |-> k.name, tracks |-> k.tracks,
     number |-> Placed(k.name).number, minor |-> Placed(k.name).minor]

KeyLists(d) ==
    {s \in SetToSeqs({KeyDataOf(k) : k \in KeysOf[d]}) :
        \A i, j \in DOMAIN s : i < j => ~Before(s[j], s[i])}

-----------------------------------------------------------------------------
(***************************************************************************)
(* The wheel and the mouse.                                                *)
(***************************************************************************)

\* getKeyIndexAtPosition(x, y), in the inner ring or the outer one: the index
\* of the first key with that number there, or -1.
KeyAt(angle, inner) ==
    LET at == {i \in 0 .. Len(keys) - 1 : /\ Row(keys, i).number = (angle \div 2) + 1
                                          /\ Row(keys, i).minor = inner}
    IN  IF at = {} THEN -1 ELSE CHOOSE i \in at : \A j \in at : i <= j

\* drawKeySegment: the halves that are filled for a key begin half a segment
\* before its number.
DrawnOver(k) == {(2 * (k.number - 1) + 23) % 24, (2 * (k.number - 1)) % 24}

\* Mutant: the numbers are taken from 0.
CompatibleFromZero(k) ==
    {<<k.number, k.minor>>, <<k.number, ~k.minor>>,
     <<(k.number + 1) % 12, k.minor>>, <<(k.number + 11) % 12, k.minor>>}

\* drawCompatibleKeys: the same number in both rings, one more and one less.
Compatible(k) ==
    {<<k.number, k.minor>>, <<k.number, ~k.minor>>,
     <<(k.number % 12) + 1, k.minor>>, <<((k.number - 2 + 12) % 12) + 1, k.minor>>}

-----------------------------------------------------------------------------
\* Mutant: the list of the new key is shown where that of the old one stood.
SelectKeyOnly(i) ==
    /\ selectedKey' = i
    /\ UNCHANGED <<app, database, databaseLoaded, anlz, list, cursor, shownVars, keys>>

\* A key is selected, with its first track.
SelectKey(i) ==
    /\ selectedKey' = i
    /\ cursor' = AtStart
    /\ UNCHANGED <<app, database, databaseLoaded, anlz, list, shownVars, keys>>

MousePressed ==
    \E angle \in 0 .. 23, inner \in BOOLEAN :
        /\ KeyAt(angle, inner) >= 0
        /\ SelectKey(KeyAt(angle, inner))
        /\ stale' = FALSE

\* From a key that is no longer there, LEFT may go to another such key.
KeyLeft ==
    /\ databaseLoaded /\ selectedKey > 0
    /\ SelectKey(selectedKey - 1)
    /\ UNCHANGED stale

KeyRight ==
    /\ databaseLoaded /\ selectedKey < Len(keys) - 1
    /\ SelectKey(selectedKey + 1)
    /\ stale' = FALSE

KeyEscape == /\ databaseLoaded
             /\ selectedKey' = -1
             /\ UNCHANGED <<appVars, keys, stale>>

\* Any size may be read of a key that is no longer there.
Sizes == IF IsRow(keys, selectedKey) THEN {Len(Row(keys, selectedKey).tracks)} ELSE 0 .. Rows + 1

KeyTrack ==
    /\ databaseLoaded /\ selectedKey >= 0
    /\ \/ cursor' = Up(cursor)
       \/ \E n \in Sizes : cursor' = Down(cursor, n, Rows)
    /\ UNCHANGED <<app, database, databaseLoaded, anlz, list, shownVars, wheelVars>>

\* loadDatabase, which leaves the selected key and the cursor as they are.
LoadKeys(d) ==
    /\ database' = d /\ databaseLoaded' = TRUE
    /\ keys' \in KeyLists(d)
    /\ stale' = (selectedKey >= 0)
    /\ UNCHANGED <<app, anlz, list, cursor, shownVars, selectedKey>>

WheelNext ==
    /\ app = "key-wheel"
    /\ \/ MousePressed \/ KeyLeft \/ KeyRight \/ KeyEscape \/ KeyTrack
       \/ \E d \in Databases : LoadKeys(d)

-----------------------------------------------------------------------------
(***************************************************************************)
(* Properties.                                                             *)
(***************************************************************************)

\* As long as no database is loaded while a key is selected, the key is one of
\* the wheel, and the highlighted one of its tracks is drawn.
SelectedKeyOnWheel ==
    app = "key-wheel" /\ selectedKey >= 0 /\ ~stale =>
        IsRow(keys, selectedKey) /\ Fits(cursor, Len(Row(keys, selectedKey).tracks), Rows)

\* Every minor key that is called as in the table gets its number, although
\* its name has that of a major key in it: "Am" has "A", "Bm" has "B".
MinorKeysPlaced ==
    app = "key-wheel" =>
        \A n \in 1 .. 12 : Placed(MinorNames[n]) = [number |-> n, minor |-> TRUE]

\* "Camelot wheel rules": where a key is compatible with another, that one is
\* with it, also from 12 to 1; and there are four of them.
CompatibleBothWays ==
    app = "key-wheel" =>
        LET Places   == [number : 1 .. 12, minor : BOOLEAN]
            place(k) == <<k.number, k.minor>>
        IN  /\ \A j, k \in Places : place(j) \in Compatible(k) <=> place(k) \in Compatible(j)
            /\ \A k \in Places : Cardinality(Compatible(k)) = 4

\* "Inner ring: Minor keys (A), Outer ring: Major keys (B)" (ofApp.cpp:110):
\* a key called as in the table is in the ring of its list.
KeysOnTheirRing ==
    \A i \in DOMAIN keys, n \in 1 .. 12 :
        keys[i].name \in {MinorNames[n], MajorNames[n]} =>
            keys[i].minor = (keys[i].name = MinorNames[n])

\* "Click wheel to select key" (ofApp.cpp:407): a click on a segment that is
\* drawn for one key only selects that key.
ClickSelectsDrawn ==
    \A i \in DOMAIN keys : \A angle \in DrawnOver(keys[i]) :
        LET hit == KeyAt(angle, keys[i].minor)
            unique == \A j \in DOMAIN keys \ {i} :
                         <<keys[j].number, keys[j].minor>> # <<keys[i].number, keys[i].minor>>
        IN  unique => hit = i - 1
=============================================================================
