------------------------ MODULE RekordboxApps_proofs ------------------------
(***************************************************************************)
(* Theorems about the thirteen rekordbox applications, for any databases   *)
(* and ANLZ files, any of the applications and a window of any size.  The  *)
(* steps of most of them are the lemmas of TrackApps_proofs and            *)
(* BrowserApps_proofs; those of example-key-wheel are here.                *)
(***************************************************************************)
EXTENDS RekordboxApps, TrackApps_proofs, BrowserApps_proofs, SequenceTheorems,
        WellFoundedInduction

USE RowsAssumption

-----------------------------------------------------------------------------
(***************************************************************************)
(* example-key-wheel.                                                      *)
(***************************************************************************)

\* The keys of all databases.
AllKeys == UNION {{KeyDataOf(k) : k \in KeysOf[d]} : d \in Databases}

\* The types the other part of the invariant needs.
WheelTypeOK ==
    /\ app = "key-wheel"
    /\ keys \in Seq(AllKeys)
    /\ selectedKey \in Nat \cup {-1}
    /\ cursor \in Cursor

WheelInv == WheelTypeOK /\ NoTrackShown /\ SelectedKeyOnWheel

LEMMA KeyTracks == \A k \in AllKeys : Len(k.tracks) \in Nat
  BY KeysAssumption DEF AllKeys, KeyDataOf

\* Placing and sorting the keys loses none and adds none.
LEMMA KeyListsType ==
  ASSUME NEW d \in Databases, NEW l \in KeyLists(d)
  PROVE  l \in Seq(AllKeys)
  <1> DEFINE S == {KeyDataOf(k) : k \in KeysOf[d]}
  <1>1. IsFiniteSet(S)
    <2> DEFINE f == [k \in KeysOf[d] |-> KeyDataOf(k)]
    <2>1. f \in Surjection(KeysOf[d], S)
      BY DEF Surjection
    <2> QED BY <2>1, KeysAssumption, FS_Surjection
  <1>2. Cardinality(S) \in Nat
    BY <1>1, FS_CardinalityType
  <1>3. l \in [1 .. Cardinality(S) -> S]
    BY DEF KeyLists, SetToSeqs
  <1>4. S \subseteq AllKeys
    BY DEF AllKeys
  <1> HIDE DEF S
  <1> QED BY <1>2, <1>3, <1>4

LEMMA LeastNatural ==
  ASSUME NEW S \in SUBSET Nat, S # {}
  PROVE  \E m \in S : \A n \in S : m <= n
  <1> DEFINE R == {p \in Nat \X Nat : p[1] < p[2]}
  <1>1. IsWellFoundedOn(R, Nat)
    BY NatLessThanWellFounded DEF OpToRel
  <1> HIDE DEF R
  <1>2. PICK m \in S : \A n \in S : ~ (<<n, m>> \in R)
    BY <1>1, WFMin
  <1>3. \A n \in S : ~ (n < m)
    BY <1>2 DEF R
  <1> QED BY <1>3

\* A click finds a key of the wheel, or none.
LEMMA KeyAtIsRow ==
  ASSUME WheelTypeOK, NEW angle, NEW inner, KeyAt(angle, inner) >= 0
  PROVE  KeyAt(angle, inner) \in 0 .. Len(keys) - 1
  <1> DEFINE at == {i \in 0 .. Len(keys) - 1 : /\ Row(keys, i).number = (angle \div 2) + 1
                                               /\ Row(keys, i).minor = inner}
  <1>1. CASE at = {}
    BY <1>1 DEF KeyAt
  <1>2. CASE at # {}
    <2>1. at \in SUBSET Nat
      BY DEF WheelTypeOK
    <2>2. KeyAt(angle, inner) = CHOOSE i \in at : \A j \in at : i <= j
      BY <1>2 DEF KeyAt
    <2>3. at \subseteq 0 .. Len(keys) - 1
      OBVIOUS
    <2> HIDE DEF at
    <2>4. \E i \in at : \A j \in at : i <= j
      BY <1>2, <2>1, LeastNatural
    <2> QED BY <2>2, <2>3, <2>4
  <1> QED BY <1>1, <1>2

LEMMA RowOfKeys ==
  ASSUME NEW l \in Seq(AllKeys), NEW i \in Int, IsRow(l, i)
  PROVE  Len(Row(l, i).tracks) \in Nat
  <1>1. Len(l) \in Nat /\ i + 1 \in 1 .. Len(l)
    BY DEF IsRow
  <1>2. l[i + 1] \in AllKeys
    BY <1>1
  <1> QED BY <1>2, KeyTracks DEF Row

\* A key of the wheel is selected, and its tracks are shown from the first.
LEMMA SelectKeyKeeps ==
  ASSUME WheelInv, NEW i \in Int, SelectKey(i), i >= 0,
         ~ stale' => i \in 0 .. Len(keys) - 1
  PROVE  WheelInv'
  <1>1. WheelTypeOK /\ NoTrackShown /\ SelectedKeyOnWheel
    BY DEF WheelInv
  <1>2. /\ selectedKey' = i /\ cursor' = AtStart /\ keys' = keys
        /\ UNCHANGED <<app, database, databaseLoaded, anlz, list, shownVars>>
    BY DEF SelectKey
  <1>3. AtStart \in Cursor
    BY DEF AtStart, Cursor
  <1>4. WheelTypeOK' /\ NoTrackShown'
    BY <1>1, <1>2, <1>3 DEF WheelTypeOK, NoTrackShown, AppTypeOK, shownVars
  <1>5. SelectedKeyOnWheel'
    <2> SUFFICES ASSUME ~ stale'
                 PROVE  IsRow(keys, i) /\ Fits(AtStart, Len(Row(keys, i).tracks), Rows)
      BY <1>2 DEF SelectedKeyOnWheel
    <2>1. IsRow(keys, i)
      BY DEF IsRow
    <2>2. Len(Row(keys, i).tracks) \in Nat
      BY <1>1, <2>1, RowOfKeys DEF WheelTypeOK
    <2> QED BY <2>1, <2>2, StartFits
  <1> QED BY <1>4, <1>5 DEF WheelInv

\* UP and DOWN stay in the list of the key that is selected; what they read of
\* a key that is gone has some length.
LEMMA KeyTrackKeeps == WheelInv /\ KeyTrack => WheelInv'
  <1> SUFFICES ASSUME WheelInv, KeyTrack PROVE WheelInv'
    OBVIOUS
  <1>1. WheelTypeOK /\ NoTrackShown /\ SelectedKeyOnWheel
    BY DEF WheelInv
  <1>2. PICK n \in Sizes \cup {0} :
           \/ cursor' = Up(cursor)
           \/ n \in Sizes /\ cursor' = Down(cursor, n, Rows)
    BY DEF KeyTrack
  <1>3. /\ selectedKey >= 0 /\ UNCHANGED <<keys, selectedKey, stale>>
        /\ UNCHANGED <<app, database, databaseLoaded, anlz, list, shownVars>>
    BY DEF KeyTrack, wheelVars
  <1>4. IsRow(keys, selectedKey) => Len(Row(keys, selectedKey).tracks) \in Nat
    BY <1>1, RowOfKeys DEF WheelTypeOK
  <1>5. /\ n \in Nat
        /\ IsRow(keys, selectedKey) /\ n \in Sizes => n = Len(Row(keys, selectedKey).tracks)
    BY <1>4 DEF Sizes
  <1>6. cursor' \in Cursor
    BY <1>1, <1>2, <1>5, CursorType DEF WheelTypeOK
  <1>7. WheelTypeOK' /\ NoTrackShown'
    BY <1>1, <1>3, <1>6 DEF WheelTypeOK, NoTrackShown, AppTypeOK, shownVars
  <1>8. SelectedKeyOnWheel'
    <2> DEFINE len == Len(Row(keys, selectedKey).tracks)
    <2> SUFFICES ASSUME ~ stale PROVE IsRow(keys, selectedKey) /\ Fits(cursor', len, Rows)
      BY <1>3 DEF SelectedKeyOnWheel
    <2>1. IsRow(keys, selectedKey) /\ Fits(cursor, len, Rows)
      BY <1>1, <1>3 DEF SelectedKeyOnWheel, WheelTypeOK
    <2>2. len \in Nat /\ cursor \in Cursor /\ (n \in Sizes => n = len)
      BY <1>1, <1>4, <1>5, <2>1 DEF WheelTypeOK
    <2> HIDE DEF len
    <2>3. Fits(Up(cursor), len, Rows) /\ Fits(Down(cursor, len, Rows), len, Rows)
      BY <2>1, <2>2, KeysFit
    <2> QED BY <1>2, <2>1, <2>2, <2>3
  <1> QED BY <1>7, <1>8 DEF WheelInv

LEMMA LoadKeysKeeps ==
  ASSUME WheelInv, NEW d \in Databases, LoadKeys(d)
  PROVE  WheelInv'
  <1>1. WheelTypeOK /\ NoTrackShown
    BY DEF WheelInv
  <1>2. /\ database' = d /\ databaseLoaded' = TRUE /\ keys' \in KeyLists(d)
        /\ stale' = (selectedKey >= 0) /\ selectedKey' = selectedKey
        /\ UNCHANGED <<app, anlz, list, cursor, shownVars>>
    BY DEF LoadKeys
  <1>3. keys' \in Seq(AllKeys)
    BY <1>2, KeyListsType
  <1>4. WheelTypeOK' /\ NoTrackShown'
    BY <1>1, <1>2, <1>3 DEF WheelTypeOK, NoTrackShown, AppTypeOK, shownVars
  <1>5. SelectedKeyOnWheel'
    BY <1>2 DEF SelectedKeyOnWheel
  <1> QED BY <1>4, <1>5 DEF WheelInv

LEMMA WheelNextInv == WheelInv /\ [WheelNext]_<<appVars, wheelVars>> => WheelInv'
  <1> SUFFICES ASSUME WheelInv, [WheelNext]_<<appVars, wheelVars>> PROVE WheelInv'
    OBVIOUS
  <1>1. /\ WheelTypeOK /\ SelectedKeyOnWheel /\ NoTrackShown /\ Len(keys) \in Nat
        /\ selectedKey \in Int
    BY DEF WheelInv, WheelTypeOK
  <1>2. CASE MousePressed
    <2>1. PICK angle \in 0 .. 23, inner \in BOOLEAN :
             KeyAt(angle, inner) >= 0 /\ SelectKey(KeyAt(angle, inner))
      BY <1>2 DEF MousePressed
    <2>2. KeyAt(angle, inner) \in 0 .. Len(keys) - 1
      BY <1>1, <2>1, KeyAtIsRow
    <2> QED BY <1>1, <2>1, <2>2, SelectKeyKeeps
  <1>3. CASE KeyLeft
    <2>1. selectedKey > 0 /\ SelectKey(selectedKey - 1) /\ stale' = stale
      BY <1>3 DEF KeyLeft
    <2>2. ~ stale => selectedKey - 1 \in 0 .. Len(keys) - 1
      BY <1>1, <2>1 DEF SelectedKeyOnWheel, WheelTypeOK, IsRow
    <2> QED BY <1>1, <2>1, <2>2, SelectKeyKeeps
  <1>4. CASE KeyRight
    <2>1. SelectKey(selectedKey + 1) /\ selectedKey + 1 \in 0 .. Len(keys) - 1
      BY <1>1, <1>4 DEF KeyRight, WheelTypeOK
    <2> QED BY <1>1, <2>1, SelectKeyKeeps
  <1>5. CASE KeyEscape \/ UNCHANGED <<appVars, wheelVars>>
    <2>1. UNCHANGED <<appVars, keys, stale>> /\ selectedKey' \in {-1, selectedKey}
      BY <1>5 DEF KeyEscape, wheelVars
    <2> QED BY <1>1, <2>1 DEF WheelInv, WheelTypeOK, SelectedKeyOnWheel, NoTrackShown, AppTypeOK,
            appVars, shownVars
  <1>6. CASE KeyTrack
    BY <1>6, KeyTrackKeeps
  <1>7. ASSUME NEW d \in Databases, LoadKeys(d) PROVE WheelInv'
    BY <1>7, LoadKeysKeeps
  <1> QED BY <1>2, <1>3, <1>4, <1>5, <1>6, <1>7 DEF WheelNext

\* The compatible keys of the wheel (drawCompatibleKeys).
Places == [number : 1 .. 12, minor : BOOLEAN]

\* One step up and one step down are each other's inverse, also from 12 to 1.
LEMMA StepsRound ==
  ASSUME NEW a \in 1 .. 12, NEW b \in 1 .. 12
  PROVE  /\ (a % 12) + 1 = b <=> ((b - 2 + 12) % 12) + 1 = a
         /\ (a % 12) + 1 # a /\ ((a - 2 + 12) % 12) + 1 # a
         /\ (a % 12) + 1 # ((a - 2 + 12) % 12) + 1
  OBVIOUS

LEMMA FourElements ==
  ASSUME NEW a, NEW b, NEW c, NEW d,
         a # b, a # c, a # d, b # c, b # d, c # d
  PROVE  Cardinality({a, b, c, d}) = 4
  <1>1. IsFiniteSet({a}) /\ Cardinality({a}) = 1
    BY FS_Singleton
  <1>2. IsFiniteSet({a} \cup {b}) /\ Cardinality({a} \cup {b}) = 2
    BY <1>1, FS_AddElement
  <1>3. IsFiniteSet({a, b} \cup {c}) /\ Cardinality({a, b} \cup {c}) = 3
    <2>1. {a} \cup {b} = {a, b} /\ c \notin {a, b}
      OBVIOUS
    <2> QED BY <1>2, <2>1, FS_AddElement
  <1>4. Cardinality({a, b, c} \cup {d}) = 4
    <2>1. {a, b} \cup {c} = {a, b, c} /\ d \notin {a, b, c}
      OBVIOUS
    <2> QED BY <1>3, <2>1, FS_AddElement
  <1>5. {a, b, c} \cup {d} = {a, b, c, d}
    OBVIOUS
  <1> QED BY <1>4, <1>5

LEMMA CompatibleOneWay ==
  ASSUME NEW j \in Places, NEW k \in Places, <<j.number, j.minor>> \in Compatible(k)
  PROVE  <<k.number, k.minor>> \in Compatible(j)
  <1> DEFINE up(n)   == (n % 12) + 1
             down(n) == ((n - 2 + 12) % 12) + 1
  <1>1. j.number \in 1 .. 12 /\ k.number \in 1 .. 12 /\ j.minor \in BOOLEAN /\ k.minor \in BOOLEAN
    BY DEF Places
  <1>2. /\ up(j.number) = k.number <=> down(k.number) = j.number
        /\ up(k.number) = j.number <=> down(j.number) = k.number
    BY <1>1, StepsRound
  <1>3. \/ j.number = k.number /\ j.minor = k.minor
        \/ j.number = k.number /\ j.minor = ~k.minor
        \/ j.number = up(k.number) /\ j.minor = k.minor
        \/ j.number = down(k.number) /\ j.minor = k.minor
    BY DEF Compatible
  <1>4. \/ k.number = j.number /\ k.minor = j.minor
        \/ k.number = j.number /\ k.minor = ~j.minor
        \/ k.number = up(j.number) /\ k.minor = j.minor
        \/ k.number = down(j.number) /\ k.minor = j.minor
    <2> HIDE DEF up, down
    <2> QED BY <1>1, <1>2, <1>3
  <1> QED BY <1>4, Zenon DEF Compatible

\* "Camelot wheel rules": compatibility goes both ways round the whole wheel,
\* and a key has four compatible places, itself among them.
THEOREM CompatibilityIsMutual == CompatibleBothWays
  <1> SUFFICES /\ \A j, k \in Places : <<j.number, j.minor>> \in Compatible(k)
                                       <=> <<k.number, k.minor>> \in Compatible(j)
               /\ \A k \in Places : Cardinality(Compatible(k)) = 4
    BY DEF CompatibleBothWays, Places
  <1>1. ASSUME NEW k \in Places PROVE Cardinality(Compatible(k)) = 4
    <2> DEFINE n == k.number
               m == k.minor
               u == (n % 12) + 1
               d == ((n - 2 + 12) % 12) + 1
    <2>1. n \in 1 .. 12 /\ m \in BOOLEAN
      BY DEF Places
    <2>2. u # n /\ d # n /\ u # d
      BY <2>1, StepsRound
    <2>3. m # ~m
      BY <2>1
    <2> DEFINE same == <<n, m>>  across == <<n, ~m>>  next == <<u, m>>  prev == <<d, m>>
    <2>4. Compatible(k) = {same, across, next, prev}
      BY DEF Compatible
    <2> HIDE DEF n, m, u, d
    <2>5. /\ same # across /\ same # next /\ same # prev
          /\ across # next /\ across # prev /\ next # prev
      BY <2>2, <2>3
    <2> HIDE DEF same, across, next, prev
    <2>6. Cardinality({same, across, next, prev}) = 4
      BY <2>5, FourElements
    <2> QED BY <2>4, <2>6
  <1> QED BY <1>1, CompatibleOneWay

-----------------------------------------------------------------------------
(***************************************************************************)
(* The names of the keys and their places.  A name is found in another one *)
(* by its letters, of which a minor key has its only capital first and its *)
(* only "m" last.                                                          *)
(***************************************************************************)

Capitals == {"A", "B", "C", "D", "E", "F", "G"}
Letters  == Capitals \cup {"b", "#", "m"}

MinorShape(s) ==
    /\ s \in Seq(Letters) /\ Len(s) \in {2, 3}
    /\ s[1] \in Capitals
    /\ \A i \in 2 .. Len(s) : s[i] \notin Capitals
    /\ \A i \in 1 .. Len(s) : s[i] = "m" <=> i = Len(s)

LEMMA ShapeOfTwo ==
  ASSUME NEW c \in Capitals
  PROVE  MinorShape(<<c, "m">>)
  <1> DEFINE s == <<c, "m">>
  <1>1. s \in Seq(Letters)
    BY DEF Letters
  <1>2. Len(s) = 2 /\ s[1] = c /\ s[2] = "m"
    OBVIOUS
  <1> HIDE DEF s
  <1>3. \A i \in 1 .. Len(s) : i = 1 \/ i = 2
    BY <1>2
  <1>4. MinorShape(s)
    BY <1>1, <1>2, <1>3 DEF MinorShape, Capitals
  <1> QED BY <1>4 DEF s

LEMMA ShapeOfThree ==
  ASSUME NEW c \in Capitals, NEW a \in {"b", "#"}
  PROVE  MinorShape(<<c, a, "m">>)
  <1> DEFINE s == <<c, a, "m">>
  <1>1. s \in Seq(Letters)
    BY DEF Letters
  <1>2. Len(s) = 3 /\ s[1] = c /\ s[2] = a /\ s[3] = "m"
    OBVIOUS
  <1> HIDE DEF s
  <1>3. \A i \in 1 .. Len(s) : i = 1 \/ i = 2 \/ i = 3
    BY <1>2
  <1>4. MinorShape(s)
    BY <1>1, <1>2, <1>3 DEF MinorShape, Capitals
  <1> QED BY <1>4 DEF s

LEMMA MinorNamesShape == \A n \in 1 .. 12 : MinorShape(MinorNames[n])
  <1> SUFFICES ASSUME NEW n \in 1 .. 12 PROVE MinorShape(MinorNames[n]) OBVIOUS
  <1>1. \/ \E c \in Capitals : MinorNames[n] = <<c, "m">>
        \/ \E c \in Capitals : \E a \in {"b", "#"} : MinorNames[n] = <<c, a, "m">>
    BY DEF MinorNames, Capitals
  <1> QED BY <1>1, ShapeOfTwo, ShapeOfThree

LEMMA MinorNamesDiffer ==
  ASSUME NEW m \in 1 .. 12, NEW n \in 1 .. 12, MinorNames[m] = MinorNames[n]
  PROVE  m = n
  BY DEF MinorNames

\* The letters of a name in the one it is found in.
LEMMA WithinLetters ==
  ASSUME NEW s \in Seq(Letters), NEW t \in Seq(Letters), HasWithin(s, t)
  PROVE  \E i \in 1 .. Len(s) - Len(t) + 1 : \A k \in 1 .. Len(t) : t[k] = s[i + k - 1]
  <1>1. PICK i \in 1 .. Len(s) - Len(t) + 1 : SubSeq(s, i, i + Len(t) - 1) = t
    BY DEF HasWithin
  <1>2. Len(s) \in Nat /\ Len(t) \in Nat /\ i \in Nat
    OBVIOUS
  <1>3. \A k \in 1 .. Len(t) : t[k] = s[i + k - 1]
    <2> SUFFICES ASSUME NEW k \in 1 .. Len(t) PROVE t[k] = s[i + k - 1] OBVIOUS
    <2>1. SubSeq(s, i, i + Len(t) - 1)[k] = s[i + k - 1]
      BY <1>2, SubSeqProperties
    <2> QED BY <1>1, <2>1
  <1> QED BY <1>3

\* A minor name is found in no other one.
LEMMA MinorWithinMinor ==
  ASSUME NEW s, NEW t, MinorShape(s), MinorShape(t), HasWithin(s, t)
  PROVE  s = t
  <1>1. PICK i \in 1 .. Len(s) - Len(t) + 1 : \A k \in 1 .. Len(t) : t[k] = s[i + k - 1]
    BY WithinLetters DEF MinorShape
  <1>2. s[i] \in Capitals
    BY <1>1 DEF MinorShape
  <1>3. i = 1
    BY <1>2 DEF MinorShape
  <1>4. \A k \in 1 .. Len(t) : t[k] = s[k]
    BY <1>1, <1>3 DEF MinorShape
  <1>5. s[Len(t)] = "m" /\ Len(t) \in 1 .. Len(s)
    BY <1>1, <1>3, <1>4 DEF MinorShape
  <1>6. Len(t) = Len(s)
    BY <1>5 DEF MinorShape
  <1> QED BY <1>4, <1>6 DEF MinorShape

LEMMA NameIsWithin ==
  ASSUME NEW s \in Seq(Letters)
  PROVE  HasWithin(s, s)
  <1>1. SubSeq(s, 1, 1 + Len(s) - 1) = s
    BY SubSeqProperties
  <1>2. 1 \in 1 .. Len(s) - Len(s) + 1
    OBVIOUS
  <1> QED BY <1>1, <1>2 DEF HasWithin

-----------------------------------------------------------------------------
\* The entries of the table.
LEMMA TableEntries ==
  /\ DOMAIN camelotMapping = 1 .. 24
  /\ \A i \in 1 .. 12 : camelotMapping[i] = [name |-> MinorNames[i], number |-> i, minor |-> TRUE]
  /\ \A i \in 1 .. 12 : camelotMapping[i + 12] = [name |-> MajorNames[i], number |-> i, minor |-> FALSE]
  <1>1. /\ Len(MinorNames) = 12 /\ Len(MajorNames) = 12
        /\ \A i \in 1 .. 12 : (MinorNames \o MajorNames)[i] = MinorNames[i]
        /\ \A i \in 1 .. 12 : (MinorNames \o MajorNames)[i + 12] = MajorNames[i]
    BY DEF MinorNames, MajorNames
  <1>2. \A i \in 1 .. 12 : /\ ((i - 1) % 12) + 1 = i /\ ((i + 12 - 1) % 12) + 1 = i
                          /\ i \in 1 .. 24 /\ i + 12 \in 1 .. 24
                          /\ (i <= 12) = TRUE /\ (i + 12 <= 12) = FALSE
    OBVIOUS
  <1>3. \A i \in 1 .. 12 : camelotMapping[i] =
           [name |-> MinorNames[i], number |-> i, minor |-> TRUE]
    BY <1>1, <1>2 DEF camelotMapping
  <1>4. \A i \in 1 .. 12 : camelotMapping[i + 12] =
           [name |-> MajorNames[i], number |-> i, minor |-> FALSE]
    <2> SUFFICES ASSUME NEW i \in 1 .. 12
                 PROVE  camelotMapping[i + 12] =
                           [name |-> MajorNames[i], number |-> i, minor |-> FALSE]
      OBVIOUS
    <2> DEFINE j == i + 12
    <2>1. j \in 1 .. 24 /\ ((j - 1) % 12) + 1 = i /\ (j <= 12) = FALSE
      OBVIOUS
    <2>2. (MinorNames \o MajorNames)[j] = MajorNames[i]
      BY <1>1
    <2> HIDE DEF j
    <2>3. camelotMapping[j] = [name |-> MajorNames[i], number |-> i, minor |-> FALSE]
      BY <2>1, <2>2 DEF camelotMapping
    <2> QED BY <2>3 DEF j
  <1> QED BY <1>3, <1>4 DEF camelotMapping

\* The first entry that fits.
Fitting(name) == {i \in 1 .. 24 : \/ HasWithin(name, camelotMapping[i].name)
                                  \/ HasWithin(camelotMapping[i].name, name)}

LEMMA PlacedIsFirst ==
  ASSUME NEW name
  PROVE  \/ Fitting(name) = {} /\ Placed(name) = [number |-> 0, minor |-> FALSE]
         \/ \E i \in Fitting(name) :
               /\ \A j \in Fitting(name) : i <= j
               /\ Placed(name) = [number |-> camelotMapping[i].number,
                                  minor  |-> camelotMapping[i].minor]
  <1> DEFINE fits == Fitting(name)
             first == CHOOSE i \in fits : \A j \in fits : i <= j
  <1>1. Placed(name) = IF fits = {} THEN [number |-> 0, minor |-> FALSE]
                       ELSE [number |-> camelotMapping[first].number,
                             minor  |-> camelotMapping[first].minor]
    BY TableEntries DEF Placed, Fitting
  <1>2. fits \in SUBSET Nat
    BY DEF Fitting
  <1> HIDE DEF fits
  <1>3. fits # {} => first \in fits /\ \A j \in fits : first <= j
    BY <1>2, LeastNatural
  <1> HIDE DEF first
  <1>4. CASE fits = {}
    BY <1>1, <1>4 DEF fits
  <1>5. CASE fits # {}
    BY <1>1, <1>3, <1>5 DEF fits
  <1> QED BY <1>4, <1>5

\* A minor name of the table fits its entry and none before it.
LEMMA MinorPlaced ==
  ASSUME NEW n \in 1 .. 12
  PROVE  Placed(MinorNames[n]) = [number |-> n, minor |-> TRUE]
  <1> DEFINE name == MinorNames[n]
  <1>1. MinorShape(name)
    BY MinorNamesShape
  <1>2. n \in Fitting(name)
    <2>1. camelotMapping[n].name = name
      BY TableEntries
    <2>2. HasWithin(name, name)
      BY <1>1, NameIsWithin DEF MinorShape
    <2> QED BY <2>1, <2>2 DEF Fitting
  <1>3. \A i \in 1 .. 12 : i \in Fitting(name) => i = n
    <2> SUFFICES ASSUME NEW i \in 1 .. 12, i \in Fitting(name) PROVE i = n OBVIOUS
    <2>1. HasWithin(name, MinorNames[i]) \/ HasWithin(MinorNames[i], name)
      BY TableEntries DEF Fitting
    <2>2. MinorNames[i] = name
      BY <1>1, <2>1, MinorNamesShape, MinorWithinMinor
    <2> QED BY <2>2, MinorNamesDiffer
  <1>4. Fitting(name) \subseteq 1 .. 24
    BY DEF Fitting
  <1> HIDE DEF name
  <1>5. PICK i \in Fitting(name) :
               /\ \A j \in Fitting(name) : i <= j
               /\ Placed(name) = [number |-> camelotMapping[i].number,
                                  minor  |-> camelotMapping[i].minor]
    BY <1>2, PlacedIsFirst
  <1>6. i <= n /\ i \in 1 .. 24
    BY <1>2, <1>4, <1>5
  <1>7. i = n
    BY <1>3, <1>6
  <1>8. camelotMapping[n].number = n /\ camelotMapping[n].minor = TRUE
    BY TableEntries
  <1>9. Placed(name) = [number |-> n, minor |-> TRUE]
    BY <1>5, <1>7, <1>8
  <1> QED BY <1>9 DEF name

\* What a name begins with is found in it.
LEMMA BeginningIsWithin ==
  ASSUME NEW s \in Seq(Letters), NEW t \in Seq(Letters), Len(t) <= Len(s),
         \A k \in 1 .. Len(t) : t[k] = s[k]
  PROVE  HasWithin(s, t)
  <1> DEFINE u == SubSeq(s, 1, 1 + Len(t) - 1)
  <1>1. Len(s) \in Nat /\ Len(t) \in Nat
    OBVIOUS
  <1>2. /\ u \in Seq(Letters) /\ Len(u) = Len(t)
        /\ \A k \in 1 .. Len(t) : u[k] = s[k]
    BY <1>1, SubSeqProperties
  <1> HIDE DEF u
  <1>3. u = t
    BY <1>1, <1>2
  <1>4. 1 \in 1 .. Len(s) - Len(t) + 1
    BY <1>1
  <1> QED BY <1>3, <1>4 DEF HasWithin, u

LEMMA Beginnings ==
  ASSUME NEW c \in Letters, NEW a \in Letters
  PROVE  /\ HasWithin(<<c, "m">>, <<c>>)
         /\ HasWithin(<<c, a, "m">>, <<c>>)
         /\ HasWithin(<<c, a, "m">>, <<c, a>>)
  <1> DEFINE one == <<c>>  two == <<c, a>>  minor == <<c, "m">>  long == <<c, a, "m">>
  <1>1. one \in Seq(Letters) /\ two \in Seq(Letters) /\ minor \in Seq(Letters) /\ long \in Seq(Letters)
    BY DEF Letters
  <1>2. /\ Len(one) = 1 /\ one[1] = c
        /\ Len(two) = 2 /\ two[1] = c /\ two[2] = a
        /\ Len(minor) = 2 /\ minor[1] = c
        /\ Len(long) = 3 /\ long[1] = c /\ long[2] = a
    OBVIOUS
  <1> HIDE DEF one, two, minor, long
  <1>3. HasWithin(minor, one)
    BY <1>1, <1>2, BeginningIsWithin
  <1>4. HasWithin(long, one)
    BY <1>1, <1>2, BeginningIsWithin
  <1>5. HasWithin(long, two)
    BY <1>1, <1>2, BeginningIsWithin
  <1> QED BY <1>3, <1>4, <1>5 DEF one, two, minor, long

\* Every major name but "Gb" begins that of a minor key.
LEMMA MajorWithinMinor ==
  ASSUME NEW n \in (1 .. 12) \ {2}
  PROVE  \E i \in 1 .. 12 : HasWithin(MinorNames[i], MajorNames[n])
  <1>1. /\ MinorNames[1] = <<"A", "b", "m">> /\ MinorNames[2]  = <<"E", "b", "m">>
        /\ MinorNames[3] = <<"B", "b", "m">> /\ MinorNames[12] = <<"D", "b", "m">>
        /\ MinorNames[4] = <<"F", "m">> /\ MinorNames[5] = <<"C", "m">>
        /\ MinorNames[6] = <<"G", "m">> /\ MinorNames[7] = <<"D", "m">>
    BY DEF MinorNames
  <1>2. /\ MajorNames[1] = <<"B">> /\ MajorNames[3] = <<"D", "b">> /\ MajorNames[4] = <<"A", "b">>
        /\ MajorNames[5] = <<"E", "b">> /\ MajorNames[6] = <<"B", "b">> /\ MajorNames[7] = <<"F">>
        /\ MajorNames[8] = <<"C">> /\ MajorNames[9] = <<"G">> /\ MajorNames[10] = <<"D">>
        /\ MajorNames[11] = <<"A">> /\ MajorNames[12] = <<"E">>
    BY DEF MajorNames
  <1>3. {"A", "B", "C", "D", "E", "F", "G", "b"} \subseteq Letters
    BY DEF Letters, Capitals
  <1>4. /\ HasWithin(MinorNames[3], MajorNames[1])
        /\ HasWithin(MinorNames[12], MajorNames[3])
        /\ HasWithin(MinorNames[1], MajorNames[4])
        /\ HasWithin(MinorNames[2], MajorNames[5])
        /\ HasWithin(MinorNames[3], MajorNames[6])
        /\ HasWithin(MinorNames[4], MajorNames[7])
        /\ HasWithin(MinorNames[5], MajorNames[8])
        /\ HasWithin(MinorNames[6], MajorNames[9])
        /\ HasWithin(MinorNames[7], MajorNames[10])
        /\ HasWithin(MinorNames[1], MajorNames[11])
        /\ HasWithin(MinorNames[2], MajorNames[12])
    BY <1>1, <1>2, <1>3, Beginnings
  <1> QED BY <1>4

LEMMA GbWithinNoMinor ==
  ASSUME NEW i \in 1 .. 12
  PROVE  ~ HasWithin(MinorNames[i], MajorNames[2]) /\ ~ HasWithin(MajorNames[2], MinorNames[i])
  <1> DEFINE s == MinorNames[i]  gb == <<"G", "b">>
  <1>1. gb \in Seq(Letters) /\ Len(gb) = 2 /\ gb[1] = "G" /\ gb[2] = "b" /\ MajorNames[2] = gb
    BY DEF Letters, Capitals, MajorNames
  <1>2. MinorShape(s)
    BY MinorNamesShape
  <1>3. s[1] = "G" => s[2] # "b"
    BY DEF MinorNames
  <1> HIDE DEF s, gb
  <1>4. ASSUME HasWithin(s, gb) PROVE FALSE
    <2>1. PICK k \in 1 .. Len(s) - Len(gb) + 1 : \A j \in 1 .. Len(gb) : gb[j] = s[k + j - 1]
      BY <1>1, <1>2, <1>4, WithinLetters DEF MinorShape
    <2>2. s[k] = "G" /\ s[k + 1] = "b" /\ k \in 1 .. Len(s)
      BY <1>1, <1>2, <2>1 DEF MinorShape
    <2>3. k = 1
      BY <1>2, <2>2 DEF MinorShape, Capitals
    <2> QED BY <1>3, <2>2, <2>3
  <1>5. ASSUME HasWithin(gb, s) PROVE FALSE
    <2>1. PICK k \in 1 .. Len(gb) - Len(s) + 1 : \A j \in 1 .. Len(s) : s[j] = gb[k + j - 1]
      BY <1>1, <1>2, <1>5, WithinLetters DEF MinorShape
    <2>2. Len(s) = 2 /\ k = 1
      BY <1>1, <1>2, <2>1 DEF MinorShape
    <2>3. s[2] = gb[2]
      BY <2>1, <2>2
    <2>4. s[2] = "m"
      BY <1>2, <2>2 DEF MinorShape
    <2> QED BY <1>1, <2>3, <2>4
  <1> QED BY <1>1, <1>4, <1>5 DEF s

\* A key is placed by an entry, or has number 0.
LEMMA PlacedType ==
  ASSUME NEW name
  PROVE  Placed(name).number \in 0 .. 12 /\ Placed(name).minor \in BOOLEAN
  <1>1. CASE Placed(name) = [number |-> 0, minor |-> FALSE]
    BY <1>1
  <1>2. ASSUME NEW i \in Fitting(name),
               Placed(name) = [number |-> camelotMapping[i].number,
                               minor  |-> camelotMapping[i].minor]
        PROVE  Placed(name).number \in 0 .. 12 /\ Placed(name).minor \in BOOLEAN
    <2>1. i \in 1 .. 24
      BY DEF Fitting
    <2> DEFINE e == camelotMapping[i]
    <2>2. Placed(name).number = e.number /\ Placed(name).minor = e.minor
      BY <1>2
    <2>3. CASE i \in 1 .. 12
      <3>1. camelotMapping[i].number = i /\ camelotMapping[i].minor = TRUE
        BY <2>3, TableEntries
      <3>2. Placed(name).number \in 0 .. 12
        BY <2>3, <2>2, <3>1
      <3>3. Placed(name).minor \in BOOLEAN
        BY <2>2, <3>1
      <3> QED BY <3>2, <3>3
    <2>4. CASE i \notin 1 .. 12
      <3>1. PICK j \in 1 .. 12 : i = j + 12
        <4>1. i - 12 \in 1 .. 12 /\ i = (i - 12) + 12
          BY <2>1, <2>4
        <4> QED BY <4>1
      <3>2. camelotMapping[i].number = j /\ camelotMapping[i].minor = FALSE
        BY <3>1, TableEntries
      <3>3. Placed(name).number \in 0 .. 12
        BY <2>2, <3>1, <3>2
      <3>4. Placed(name).minor \in BOOLEAN
        BY <2>2, <3>2
      <3> QED BY <3>3, <3>4
    <2> QED BY <2>3, <2>4
  <1> QED BY <1>1, <1>2, PlacedIsFirst

LEMMA MajorPlaced ==
  ASSUME NEW n \in (1 .. 12) \ {2}
  PROVE  Placed(MajorNames[n]).minor = TRUE
  <1> DEFINE name == MajorNames[n]
  <1>1. PICK k \in 1 .. 12 : HasWithin(MinorNames[k], name)
    BY MajorWithinMinor
  <1> HIDE DEF name
  <1>2. k \in Fitting(name)
    BY <1>1, TableEntries DEF Fitting
  <1>3. PICK i \in Fitting(name) :
               /\ \A j \in Fitting(name) : i <= j
               /\ Placed(name) = [number |-> camelotMapping[i].number,
                                  minor  |-> camelotMapping[i].minor]
    BY <1>2, PlacedIsFirst
  <1>4. i \in 1 .. 12
    BY <1>2, <1>3 DEF Fitting
  <1>5. camelotMapping[i].minor = TRUE
    BY <1>4, TableEntries
  <1>6. Placed(name).minor = TRUE
    BY <1>3, <1>5
  <1> QED BY <1>6 DEF name

LEMMA GbPlaced == Placed(MajorNames[2]) = [number |-> 2, minor |-> FALSE]
  <1> DEFINE name == MajorNames[2]
  <1>1. \A i \in 1 .. 12 : i \notin Fitting(name)
    BY GbWithinNoMinor, TableEntries DEF Fitting
  <1>2. /\ name \in Seq(Letters) /\ Len(name) = 2 /\ name[1] = "G" /\ name[2] = "b"
    BY DEF Letters, Capitals, MajorNames
  <1>3. camelotMapping[14] = [name |-> name, number |-> 2, minor |-> FALSE]
    <2>1. 2 \in 1 .. 12 /\ 2 + 12 = 14
      OBVIOUS
    <2> QED BY <2>1, TableEntries
  <1>4. camelotMapping[13].name = <<"B">>
    <2>1. 1 \in 1 .. 12 /\ 1 + 12 = 13 /\ MajorNames[1] = <<"B">>
      BY DEF MajorNames
    <2>2. camelotMapping[1 + 12].name = MajorNames[1]
      BY <2>1, TableEntries
    <2> QED BY <2>1, <2>2
  <1> DEFINE b == <<"B">>
  <1>5. b \in Seq(Letters) /\ Len(b) = 1 /\ b[1] = "B"
    BY DEF Letters, Capitals
  <1> HIDE DEF name, b
  <1>6. ~ HasWithin(name, b)
    <2> SUFFICES ASSUME HasWithin(name, b) PROVE FALSE OBVIOUS
    <2>1. PICK k \in 1 .. Len(name) - Len(b) + 1 : \A j \in 1 .. Len(b) : b[j] = name[k + j - 1]
      BY <1>2, <1>5, WithinLetters
    <2>2. k \in {1, 2} /\ b[1] = name[k]
      BY <1>2, <1>5, <2>1
    <2> QED BY <1>2, <1>5, <2>2
  <1>7. ~ HasWithin(b, name)
    BY <1>2, <1>5 DEF HasWithin
  <1>8. 13 \notin Fitting(name)
    BY <1>4, <1>6, <1>7 DEF Fitting, b
  <1>9. 14 \in Fitting(name)
    <2>1. HasWithin(name, name)
      BY <1>2, NameIsWithin
    <2> QED BY <1>3, <2>1 DEF Fitting
  <1>10. PICK i \in Fitting(name) :
               /\ \A j \in Fitting(name) : i <= j
               /\ Placed(name) = [number |-> camelotMapping[i].number,
                                  minor  |-> camelotMapping[i].minor]
    BY <1>9, PlacedIsFirst
  <1>11. i = 14
    <2>1. i \in 1 .. 24 /\ i <= 14 /\ i # 13 /\ i \notin 1 .. 12
      BY <1>1, <1>8, <1>9, <1>10 DEF Fitting, name
    <2> QED BY <2>1
  <1>12. camelotMapping[i].number = 2 /\ camelotMapping[i].minor = FALSE
    BY <1>3, <1>11
  <1>13. Placed(name) = [number |-> 2, minor |-> FALSE]
    BY <1>10, <1>12
  <1> QED BY <1>13 DEF name

\* A key called as in the table: a minor one has its number on the inner ring,
\* and so is on the inner ring any major one but "Gb".
KeysOfTable ==
    app = "key-wheel" =>
        \A i \in DOMAIN keys, n \in 1 .. 12 :
            /\ keys[i].name = MinorNames[n] => keys[i].number = n /\ keys[i].minor
            /\ keys[i].name = MajorNames[n] => (keys[i].minor <=> n # 2)

\* Half of a segment that is drawn for a key selects it, if it is alone at its
\* place; the other half never does, and selects its neighbour if there is one.
ClicksOffByHalf ==
    app = "key-wheel" =>
        \A i \in DOMAIN keys :
            LET first  == (2 * (keys[i].number - 1) + 23) % 24
                second == (2 * (keys[i].number - 1)) % 24
                alone  == \A j \in DOMAIN keys \ {i} :
                             <<keys[j].number, keys[j].minor>> # <<keys[i].number, keys[i].minor>>
            IN  /\ \A inner \in BOOLEAN : KeyAt(first, inner) # i - 1
                /\ alone /\ keys[i].number # 0 => KeyAt(second, keys[i].minor) = i - 1

LEMMA SegmentHalves ==
  /\ \A n \in 0 .. 12 : ((2 * (n - 1) + 23) % 24) \div 2 + 1 # n
  /\ \A n \in 1 .. 12 : ((2 * (n - 1)) % 24) \div 2 + 1 = n
  OBVIOUS

LEMMA KeyFields ==
  ASSUME WheelTypeOK, NEW i \in DOMAIN keys
  PROVE  /\ i \in 1 .. Len(keys) /\ Len(keys) \in Nat
         /\ keys[i].number \in 0 .. 12 /\ keys[i].minor \in BOOLEAN
         /\ keys[i].number = Placed(keys[i].name).number
         /\ keys[i].minor = Placed(keys[i].name).minor
  <1>1. keys[i] \in AllKeys /\ i \in 1 .. Len(keys) /\ Len(keys) \in Nat
    BY DEF WheelTypeOK
  <1>2. PICK k : keys[i] = KeyDataOf(k)
    BY <1>1 DEF AllKeys
  <1>3. /\ keys[i].number = Placed(keys[i].name).number
        /\ keys[i].minor = Placed(keys[i].name).minor
    BY <1>2 DEF KeyDataOf
  <1> QED BY <1>1, <1>3, PlacedType

LEMMA TableKeysPlaced == WheelTypeOK => KeysOfTable
  <1> SUFFICES ASSUME WheelTypeOK, NEW i \in DOMAIN keys, NEW n \in 1 .. 12
               PROVE  /\ keys[i].name = MinorNames[n] => keys[i].number = n /\ keys[i].minor
                      /\ keys[i].name = MajorNames[n] => (keys[i].minor <=> n # 2)
    BY DEF KeysOfTable
  <1>1. /\ keys[i].number = Placed(keys[i].name).number
        /\ keys[i].minor = Placed(keys[i].name).minor
    BY KeyFields
  <1>2. ASSUME keys[i].name = MinorNames[n] PROVE keys[i].number = n /\ keys[i].minor
    BY <1>1, <1>2, MinorPlaced
  <1>3. ASSUME keys[i].name = MajorNames[n], n # 2 PROVE keys[i].minor = TRUE
    BY <1>1, <1>3, MajorPlaced
  <1>4. ASSUME keys[i].name = MajorNames[n], n = 2 PROVE keys[i].minor = FALSE
    BY <1>1, <1>4, GbPlaced
  <1> QED BY <1>2, <1>3, <1>4

LEMMA SegmentsOffByHalf == WheelTypeOK => ClicksOffByHalf
  <1> SUFFICES ASSUME WheelTypeOK, NEW i \in DOMAIN keys
               PROVE  LET first  == (2 * (keys[i].number - 1) + 23) % 24
                          second == (2 * (keys[i].number - 1)) % 24
                          alone  == \A j \in DOMAIN keys \ {i} :
                             <<keys[j].number, keys[j].minor>> # <<keys[i].number, keys[i].minor>>
                      IN  /\ \A inner \in BOOLEAN : KeyAt(first, inner) # i - 1
                          /\ alone /\ keys[i].number # 0 => KeyAt(second, keys[i].minor) = i - 1
    BY DEF ClicksOffByHalf
  <1> DEFINE n == keys[i].number
             first  == (2 * (n - 1) + 23) % 24
             second == (2 * (n - 1)) % 24
  <1>1. /\ i \in 1 .. Len(keys) /\ Len(keys) \in Nat
        /\ n \in 0 .. 12 /\ keys[i].minor \in BOOLEAN
    BY KeyFields
  <1>2. first \div 2 + 1 # n /\ (n # 0 => second \div 2 + 1 = n)
    <2> HIDE DEF n
    <2> QED BY <1>1, SegmentHalves
  <1>3. \A j \in 0 .. Len(keys) - 1 : Row(keys, j) = keys[j + 1]
    BY DEF Row
  <1>4. Row(keys, i - 1) = keys[i]
    BY <1>1, <1>3
  <1>5. \A angle, inner :
           LET at == {j \in 0 .. Len(keys) - 1 : /\ Row(keys, j).number = (angle \div 2) + 1
                                                 /\ Row(keys, j).minor = inner}
           IN  /\ at = {} => KeyAt(angle, inner) = -1
               /\ at # {} => KeyAt(angle, inner) \in at
    <2> SUFFICES ASSUME NEW angle, NEW inner
                 PROVE  LET at == {j \in 0 .. Len(keys) - 1 :
                                      /\ Row(keys, j).number = (angle \div 2) + 1
                                      /\ Row(keys, j).minor = inner}
                        IN  /\ at = {} => KeyAt(angle, inner) = -1
                            /\ at # {} => KeyAt(angle, inner) \in at
      OBVIOUS
    <2> DEFINE at == {j \in 0 .. Len(keys) - 1 : /\ Row(keys, j).number = (angle \div 2) + 1
                                                 /\ Row(keys, j).minor = inner}
               low == CHOOSE j \in at : \A k \in at : j <= k
    <2>1. KeyAt(angle, inner) = IF at = {} THEN -1 ELSE low
      BY DEF KeyAt
    <2>2. at \in SUBSET Nat
      OBVIOUS
    <2> HIDE DEF at
    <2>3. at # {} => low \in at
      BY <2>2, LeastNatural
    <2> HIDE DEF low
    <2>4. /\ at = {} => KeyAt(angle, inner) = -1
          /\ at # {} => KeyAt(angle, inner) \in at
      BY <2>1, <2>3
    <2> QED BY <2>4 DEF at
  <1> HIDE DEF first, second
  <1>6. ASSUME NEW inner \in BOOLEAN, KeyAt(first, inner) = i - 1 PROVE FALSE
    <2> DEFINE at == {j \in 0 .. Len(keys) - 1 : /\ Row(keys, j).number = (first \div 2) + 1
                                                 /\ Row(keys, j).minor = inner}
    <2>1. i - 1 \in at
      BY <1>1, <1>5, <1>6
    <2> QED BY <1>2, <1>4, <2>1
  <1>7. ASSUME n # 0,
               \A j \in DOMAIN keys \ {i} :
                  <<keys[j].number, keys[j].minor>> # <<keys[i].number, keys[i].minor>>
        PROVE  KeyAt(second, keys[i].minor) = i - 1
    <2> DEFINE at == {j \in 0 .. Len(keys) - 1 : /\ Row(keys, j).number = (second \div 2) + 1
                                                 /\ Row(keys, j).minor = keys[i].minor}
    <2>1. i - 1 \in at
      BY <1>1, <1>2, <1>4, <1>7
    <2>2. KeyAt(second, keys[i].minor) \in at
      BY <1>5, <2>1
    <2>3. ASSUME NEW j \in at PROVE j = i - 1
      <3>1. /\ j + 1 \in DOMAIN keys
            /\ keys[j + 1].number = n /\ keys[j + 1].minor = keys[i].minor
        BY <1>1, <1>2, <1>3, <1>7 DEF WheelTypeOK
      <3>2. j + 1 = i
        BY <1>7, <3>1
      <3> QED BY <1>1, <3>2
    <2> QED BY <2>2, <2>3
  <1> QED BY <1>6, <1>7 DEF first, second

-----------------------------------------------------------------------------
(***************************************************************************)
(* All thirteen applications.                                              *)
(***************************************************************************)

\* The inductive invariant: that of the application that runs, and what holds
\* of the state all have.  The range is bpm-search's, and stays as it is in
\* the others.
AppsInv ==
    /\ app \in AllApps
    /\ AppTypeOK /\ DataOfTrack /\ RangeOrdered
    /\ app \in Viewers     => ViewerInv
    /\ app \in Details     => DetailInv
    /\ app \in Browsers    => BrowserInv /\ data = {}
    /\ app \in PanelApps   => PanelInv /\ NoTrackShown
    /\ app = "key-wheel"   => WheelInv

\* An application is of one kind.
LEMMA KindsApart ==
  /\ \A a \in Viewers   : a \notin Details \cup Browsers \cup PanelApps \cup {"key-wheel"}
  /\ \A a \in Details   : a \notin Browsers \cup PanelApps \cup {"key-wheel"}
  /\ \A a \in Browsers  : a \notin PanelApps \cup {"key-wheel"}
  /\ "key-wheel" \notin PanelApps
  BY DEF Viewers, Wanderers, Details, Browsers, PanelApps

\* An application without tracks on display.
LEMMA NothingShown == ASSUME data = {} PROVE DataOfTrack
  BY DEF DataOfTrack

LEMMA AppsInitInv == AppsInit => AppsInv
  <1> SUFFICES ASSUME AppsInit PROVE AppsInv
    OBVIOUS
  <1>1. /\ AppInit(Apps) /\ ViewerInit /\ DetailInit /\ BrowserInit /\ PanelInit /\ WheelInit
        /\ app \in Apps
    BY DEF AppsInit, AppInit
  <1>2. app \in AllApps
    BY <1>1, AppsAssumption
  <1>3. /\ app \in Viewers   => AppInit(Viewers)
        /\ app \in Details   => AppInit(Details)
        /\ app \in Browsers  => AppInit(Browsers)
        /\ app \in PanelApps => AppInit(PanelApps)
    BY <1>1 DEF AppInit
  <1>4. /\ database = Nothing /\ databaseLoaded = FALSE /\ anlz = FALSE /\ list = <<>>
        /\ cursor = AtStart /\ selectedTrack = Nothing /\ data = {}
    BY <1>1 DEF AppInit
  <1>5. AtStart \in Cursor /\ <<>> \in Seq(Tracks)
    <2>1. AtStart \in Cursor
      BY DEF AtStart, Cursor
    <2> QED BY <2>1
  <1>6. AppTypeOK /\ NoTrackShown /\ DataOfTrack
    BY <1>4, <1>5 DEF AppTypeOK, NoTrackShown, DataOfTrack
  <1>7. RangeOrdered
    BY <1>1, BpmAssumption DEF BrowserInit, RangeOrdered
  <1>8. ASSUME app = "key-wheel" PROVE WheelInv
    <2>1. keys = <<>> /\ selectedKey = -1
      BY <1>1 DEF WheelInit
    <2>2. keys \in Seq(AllKeys)
      BY <2>1
    <2>3. WheelTypeOK
      BY <1>4, <1>5, <1>8, <2>1, <2>2 DEF WheelTypeOK
    <2>4. SelectedKeyOnWheel
      BY <2>1 DEF SelectedKeyOnWheel
    <2> QED BY <1>6, <2>3, <2>4 DEF WheelInv
  <1>9. /\ app \in Viewers   => ViewerInv
        /\ app \in Details   => DetailInv
        /\ app \in Browsers  => BrowserInv
        /\ app \in PanelApps => PanelInv
    BY <1>1, <1>3, ViewerInitInv, DetailInitInv, BrowserInitInv, PanelInitInv
  <1> QED BY <1>2, <1>4, <1>6, <1>7, <1>8, <1>9 DEF AppsInv

LEMMA ViewerStep ==
  ASSUME AppsInv, app \in Viewers, app' = app, UNCHANGED browserVars,
         [ViewerNext]_<<appVars, viewerVars>>
  PROVE  AppsInv'
  <1>1. ViewerInv /\ AppTypeOK /\ RangeOrdered
    BY DEF AppsInv
  <1>2. ViewerInv' /\ AppTypeOK'
    BY <1>1, ViewerNextInv, ViewerTypes
  <1>3. DataOfTrack'
    BY <1>2 DEF ViewerInv
  <1>4. RangeOrdered'
    BY <1>1 DEF RangeOrdered, browserVars, bpmVars
  <1>5. app' \in AllApps /\ app' \notin Details \cup Browsers \cup PanelApps \cup {"key-wheel"}
    BY KindsApart DEF AllApps
  <1> QED BY <1>2, <1>3, <1>4, <1>5 DEF AppsInv

LEMMA DetailStep ==
  ASSUME AppsInv, app \in Details, app' = app, UNCHANGED browserVars,
         [DetailNext]_<<appVars, detailVars>>
  PROVE  AppsInv'
  <1>1. DetailInv /\ AppTypeOK /\ DataOfTrack /\ RangeOrdered
    BY DEF AppsInv
  <1>2. DetailInv' /\ AppTypeOK' /\ DataOfTrack'
    BY <1>1, DetailNextInv, DetailTypes
  <1>3. RangeOrdered'
    BY <1>1 DEF RangeOrdered, browserVars, bpmVars
  <1>4. app' \in AllApps /\ app' \notin Viewers \cup Browsers \cup PanelApps \cup {"key-wheel"}
    BY KindsApart DEF AllApps
  <1> QED BY <1>2, <1>3, <1>4 DEF AppsInv

LEMMA BrowserStep ==
  ASSUME AppsInv, app \in Browsers, app' = app, [BrowserNext]_<<appVars, browserVars>>
  PROVE  AppsInv'
  <1>1. BrowserInv /\ AppTypeOK /\ data = {}
    BY DEF AppsInv
  <1>2. BrowserInv' /\ AppTypeOK'
    BY <1>1, BrowserNextInv, BrowserTypes
  <1>3. data' = {}
    BY <1>1 DEF BrowserNext, RekordboxBrowser, BpmSearch, BrowserKeyMove, KeyView, KeySelect,
       LoadLists, LoadListsFails, KeyRange, KeyEdit, LoadSearch, appVars, shownVars
  <1>4. RangeOrdered' /\ DataOfTrack'
    BY <1>2, <1>3 DEF BrowserInv, DataOfTrack
  <1>5. app' \in AllApps /\ app' \notin Viewers \cup Details \cup PanelApps \cup {"key-wheel"}
    BY KindsApart DEF AllApps
  <1> QED BY <1>2, <1>3, <1>4, <1>5 DEF AppsInv

LEMMA PanelStep ==
  ASSUME AppsInv, app \in PanelApps, app' = app, UNCHANGED browserVars,
         [PanelNext]_<<appVars, panelVars>>
  PROVE  AppsInv'
  <1>1. PanelInv /\ NoTrackShown /\ RangeOrdered
    BY DEF AppsInv
  <1>2. PanelInv' /\ NoTrackShown'
    BY <1>1, PanelNextInv, PanelTypes
  <1>3. AppTypeOK' /\ DataOfTrack'
    BY <1>2 DEF NoTrackShown, DataOfTrack
  <1>4. RangeOrdered'
    BY <1>1 DEF RangeOrdered, browserVars, bpmVars
  <1>5. app' \in AllApps /\ app' \notin Viewers \cup Details \cup Browsers \cup {"key-wheel"}
    BY KindsApart DEF AllApps
  <1> QED BY <1>2, <1>3, <1>4, <1>5 DEF AppsInv

LEMMA WheelStep ==
  ASSUME AppsInv, app = "key-wheel", app' = app, UNCHANGED browserVars,
         [WheelNext]_<<appVars, wheelVars>>
  PROVE  AppsInv'
  <1>1. WheelInv /\ RangeOrdered
    BY DEF AppsInv
  <1>2. WheelInv'
    BY <1>1, WheelNextInv
  <1>3. AppTypeOK' /\ DataOfTrack'
    BY <1>2 DEF WheelInv, NoTrackShown, DataOfTrack
  <1>4. RangeOrdered'
    BY <1>1 DEF RangeOrdered, browserVars, bpmVars
  <1>5. app' \in AllApps /\ app' \notin Viewers \cup Details \cup Browsers \cup PanelApps
    BY KindsApart DEF AllApps
  <1> QED BY <1>2, <1>3, <1>4, <1>5 DEF AppsInv

\* The application stays the one that was started.
LEMMA AppStays ==
  /\ ViewerNext  => app \in Viewers   /\ app' = app
  /\ DetailNext  => app \in Details   /\ app' = app
  /\ BrowserNext => app \in Browsers  /\ app' = app
  /\ PanelNext   => app \in PanelApps /\ app' = app
  /\ WheelNext   => app = "key-wheel" /\ app' = app
  <1>1. ViewerNext => app \in Viewers /\ app' = app
    BY DEF ViewerNext, CuePoints, SongStructure, BeatGrid, ColorWaveform, ThreeBandWaveform,
       KeyUp, KeyDown, KeyPage, Move, KeySpace, LoadDatabase, LoadDatabaseHere, OpenDatabase,
       LoadDatabaseFails, LoadAnlzFolder, AdvanceInData, AdvanceFraction, appVars, Viewers,
       Wanderers
  <1>2. DetailNext => app \in Details /\ app' = app
    BY DEF DetailNext, TrackDetail, LoopViewer, Artwork, KeyMove, KeyLoop, KeyReturn, LoadFolder,
       LoadFolderFails, LoadFolderWithoutLoops, appVars, Details
  <1>3. BrowserNext => app \in Browsers /\ app' = app
    BY DEF BrowserNext, RekordboxBrowser, BpmSearch, BrowserKeyMove, KeyView, KeySelect,
       LoadLists, LoadListsFails, KeyRange, KeyEdit, LoadSearch, appVars, Browsers
  <1>4. PanelNext => app \in PanelApps /\ app' = app
    BY DEF PanelNext, PlaylistBrowser, TagBrowser, PanelKeyMove, PanelKeyFocus, LoadPanels, appVars,
       PanelApps
  <1>5. WheelNext => app = "key-wheel" /\ app' = app
    BY DEF WheelNext, MousePressed, KeyLeft, KeyRight, KeyEscape, KeyTrack, LoadKeys, SelectKey,
           appVars
  <1> QED BY <1>1, <1>2, <1>3, <1>4, <1>5

LEMMA AppsNextInv ==
  AppsInv /\ [AppsNext]_<<appVars, viewerVars, detailVars, browserVars, panelVars, wheelVars>>
     => AppsInv'
  <1> SUFFICES ASSUME AppsInv, [AppsNext]_<<appVars, viewerVars, detailVars, browserVars,
                                            panelVars, wheelVars>>
               PROVE  AppsInv'
    OBVIOUS
  <1>1. CASE ViewerNext /\ UNCHANGED browserVars
    BY <1>1, AppStays, ViewerStep
  <1>2. CASE DetailNext /\ UNCHANGED browserVars
    BY <1>2, AppStays, DetailStep
  <1>3. CASE BrowserNext
    BY <1>3, AppStays, BrowserStep
  <1>4. CASE PanelNext /\ UNCHANGED browserVars
    BY <1>4, AppStays, PanelStep
  <1>5. CASE WheelNext /\ UNCHANGED browserVars
    BY <1>5, AppStays, WheelStep
  <1>6. CASE UNCHANGED <<appVars, viewerVars, detailVars, browserVars, panelVars, wheelVars>>
    <2>1. app' = app /\ app \in AllApps /\ UNCHANGED browserVars
      BY <1>6 DEF appVars, AppsInv
    <2>2. /\ UNCHANGED <<appVars, viewerVars>> /\ UNCHANGED <<appVars, detailVars>>
          /\ UNCHANGED <<appVars, browserVars>> /\ UNCHANGED <<appVars, panelVars>>
          /\ UNCHANGED <<appVars, wheelVars>>
      BY <1>6
    <2> QED BY <2>1, <2>2, ViewerStep, DetailStep, BrowserStep, PanelStep, WheelStep DEF AllApps
  <1> QED BY <1>1, <1>2, <1>3, <1>4, <1>5, <1>6 DEF AppsNext

\* The invariant of the application that runs, and of what all share, always holds.
THEOREM AppsInvHolds == AppsSpec => []AppsInv
  BY AppsInitInv, AppsNextInv, PTL DEF AppsSpec

\* Every variable of every application stays in its type: no key, load or
\* click takes the window above the list or a track from outside it.
THEOREM TypesAreKept == AppsSpec => []AppTypeOK
  BY AppsInvHolds, PTL DEF AppsInv

\* Keys and loads in any order leave the highlight on a row that is drawn, in
\* every application that puts its cursor back or clamps it.
THEOREM HighlightStaysDrawn == AppsSpec => []HighlightDrawn
  <1>1. AppsInv => HighlightDrawn
    <2> SUFFICES ASSUME AppsInv PROVE HighlightDrawn
      OBVIOUS
    <2>1. CASE app \in Viewers \cup Details \cup Browsers
      BY <2>1 DEF AppsInv, ViewerInv, DetailInv, BrowserInv
    <2>2. CASE app \in PanelApps \cup {"key-wheel"}
      <3>1. list = <<>>
        BY <2>2 DEF AppsInv, WheelInv, NoTrackShown
      <3> QED BY <3>1 DEF HighlightDrawn, Fits
    <2> QED BY <2>1, <2>2 DEF AppsInv, AllApps
  <1> QED BY <1>1, AppsInvHolds, PTL

\* The details on display are those of the highlighted row (cue-points,
\* song-structure and track-detail).
THEOREM DetailsFollowHighlight == AppsSpec => []HighlightShown
  <1>1. AppsInv => HighlightShown
    BY DEF AppsInv, ViewerInv, DetailInv, HighlightShown, Viewers, Details
  <1> QED BY <1>1, AppsInvHolds, PTL

\* The data on display is never that of a track shown before.
THEOREM DataIsOfTrack == AppsSpec => []DataOfTrack
  BY AppsInvHolds, PTL DEF AppsInv

\* Database and ANLZ folder may be dropped in any order on a viewer: once the
\* files of the database are there, all that is found for the track is shown.
THEOREM DataIsShown == AppsSpec => []DataShownOnceLoaded
  <1>1. AppsInv => DataShownOnceLoaded
    BY DEF AppsInv, ViewerInv, DataShownOnceLoaded
  <1> QED BY <1>1, AppsInvHolds, PTL

\* The playhead of song-structure and beat-grid never leaves the data.
THEOREM PlayheadStaysInData == AppsSpec => []PlayheadInData
  <1>1. AppsInv => PlayheadInData
    BY DEF AppsInv, ViewerInv, PlayheadInData, Viewers, Wanderers
  <1> QED BY <1>1, AppsInvHolds, PTL

\* Keys and folders of example-loop-viewer in any order leave both indices of
\* drawLoopDetails, that of the row and that of its loop, in range.
THEOREM LoopStaysInTrack == AppsSpec => []LoopInTrack
  <1>1. AppsInv => LoopInTrack
    BY DEF AppsInv, DetailInv, LoopInTrack, Details
  <1> QED BY <1>1, AppsInvHolds, PTL

\* The picture example-artwork shows is never one of a track shown before.
THEOREM ArtworkIsOfHighlight == AppsSpec => []ArtworkOfHighlight
  <1>1. AppsInv => ArtworkOfHighlight
    BY DEF AppsInv, DetailInv, ArtworkOfHighlight, Details
  <1> QED BY <1>1, AppsInvHolds, PTL

\* The details of rekordbox-browser are of a track of the database loaded.
THEOREM DetailsAreOfDatabase == AppsSpec => []TrackOfDatabase
  <1>1. AppsInv => TrackOfDatabase
    BY DEF AppsInv, BrowserInv, TrackOfDatabase, Browsers
  <1> QED BY <1>1, AppsInvHolds, PTL

\* The tempo range of bpm-search keeps its limits and its width, whatever the
\* limits, the first range and the steps are.
THEOREM RangeStaysOrdered == AppsSpec => []RangeOrdered
  BY AppsInvHolds, PTL DEF AppsInv

\* The results of bpm-search are those of the range and database on display.
THEOREM ResultsAreCurrent == AppsSpec => []ResultsInRange
  <1>1. AppsInv => ResultsInRange
    BY DEF AppsInv, BrowserInv, ResultsInRange, Browsers
  <1> QED BY <1>1, AppsInvHolds, PTL

\* Whatever keys moved the highlights and whatever panels were empty on the
\* way, each panel of example-playlist-browser and example-tag-browser lists
\* what belongs to the row selected in the one before.
THEOREM PanelsAlwaysFollow == AppsSpec => []PanelsFollow
  <1>1. AppsInv => PanelsFollow
    BY DEF AppsInv, PanelInv, PanelsFollow
  <1> QED BY <1>1, AppsInvHolds, PTL

\* The cursors put back by selectPlaylist, selectCategory and selectTag are
\* those that the lists exchanged under them need.
THEOREM PanelHighlightsDrawn == AppsSpec => []PanelHighlightDrawn
  <1>1. AppsInv => PanelHighlightDrawn
    BY DEF AppsInv, PanelInv, PanelHighlightDrawn
  <1> QED BY <1>1, AppsInvHolds, PTL

\* The key selected in example-key-wheel is one of the wheel, and the
\* highlighted one of its tracks is drawn, while no other keys were loaded.
THEOREM SelectedKeyStays == AppsSpec => []SelectedKeyOnWheel
  <1>1. AppsInv => SelectedKeyOnWheel
    BY DEF AppsInv, WheelInv, SelectedKeyOnWheel
  <1> QED BY <1>1, AppsInvHolds, PTL

\* Every minor key that is called as in the table gets its number, although most
\* have the name of a major key in theirs.
THEOREM MinorKeysArePlaced == AppsSpec => []MinorKeysPlaced
  <1>1. MinorKeysPlaced
    BY MinorPlaced DEF MinorKeysPlaced
  <1> QED BY <1>1, PTL

\* What keywheel_rings shows of one key holds of every database: all minor keys
\* called as in the table are on the inner ring with their number, but so are
\* eleven of the twelve major ones, whose names are found in minor ones first.
THEOREM KeysOfTableArePlaced == AppsSpec => []KeysOfTable
  <1>1. AppsInv => KeysOfTable
    BY TableKeysPlaced DEF AppsInv, WheelInv, KeysOfTable
  <1> QED BY <1>1, AppsInvHolds, PTL

\* What keywheel_click shows of one key holds of every one: the segments are drawn
\* half a segment before where getKeyIndexAtPosition looks for them.
THEOREM ClicksAreOffByHalf == AppsSpec => []ClicksOffByHalf
  <1>1. AppsInv => ClicksOffByHalf
    BY SegmentsOffByHalf DEF AppsInv, WheelInv, ClicksOffByHalf
  <1> QED BY <1>1, AppsInvHolds, PTL
=============================================================================
