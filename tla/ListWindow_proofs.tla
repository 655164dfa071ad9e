------------------------- MODULE ListWindow_proofs --------------------------
(***************************************************************************)
(* What the keys do to a highlight and its window, for lists and windows   *)
(* of any size.                                                            *)
(***************************************************************************)
EXTENDS ListWindow, TLAPS

USE DEF Cursor, Larger, Smaller

\* The window never goes above the list, wherever the highlight is: also when
\* a key finds the list empty, or the cursor left over from a longer one.
LEMMA CursorType ==
  ASSUME NEW n \in Nat, NEW rows \in Nat \ {0}, NEW c \in Cursor, NEW i \in Int
  PROVE  /\ AtStart \in Cursor
         /\ Up(c) \in Cursor
         /\ Down(c, n, rows) \in Cursor
         /\ PageUp(c, rows) \in Cursor
         /\ PageDown(c, n, rows) \in Cursor
         /\ Select(c, i, n, rows) \in Cursor
  <1>1. AtStart \in Cursor /\ Up(c) \in Cursor
    BY DEF AtStart, Up
  <1>2. Down(c, n, rows) \in Cursor
    BY DEF Down
  <1>3. PageUp(c, rows) \in Cursor /\ PageDown(c, n, rows) \in Cursor
    BY DEF PageUp, PageDown
  <1>4. Select(c, i, n, rows) \in Cursor
    BY DEF Select
  <1> QED BY <1>1, <1>2, <1>3, <1>4

LEMMA StartFits ==
  ASSUME NEW n \in Nat, NEW rows \in Nat \ {0}
  PROVE  Fits(AtStart, n, rows)
  BY DEF AtStart, Fits

\* The four keys keep the highlight in its window (keyPressed of the rekordbox
\* applications), whether or not the list is longer than the window.
THEOREM KeysFit ==
  ASSUME NEW n \in Nat, NEW rows \in Nat \ {0}, NEW c \in Cursor,
         Fits(c, n, rows)
  PROVE  /\ Fits(Up(c), n, rows)
         /\ Fits(Down(c, n, rows), n, rows)
         /\ Fits(PageUp(c, rows), n, rows)
         /\ Fits(PageDown(c, n, rows), n, rows)
  <1>1. Fits(Up(c), n, rows)
    BY DEF Up, Fits
  <1>2. Fits(Down(c, n, rows), n, rows)
    BY DEF Down, Fits
  <1>3. Fits(PageUp(c, rows), n, rows)
    BY DEF PageUp, Fits
  <1>4. Fits(PageDown(c, n, rows), n, rows)
    BY DEF PageDown, Fits
  <1> QED BY <1>1, <1>2, <1>3, <1>4

\* So does a selection of any row (selectTrack of track-detail, loop-viewer and
\* artwork), also of one that is not there, which is clamped.
THEOREM SelectFits ==
  ASSUME NEW n \in Nat, NEW rows \in Nat \ {0}, NEW c \in Cursor, NEW i \in Int,
         Fits(c, n, rows)
  PROVE  Fits(Select(c, i, n, rows), n, rows)
  BY DEF Select, Fits

\* Row 0 is drawn once it was selected, whatever list the cursor is from: the
\* reset these applications leave out when they load is not needed.
THEOREM SelectFirstFits ==
  ASSUME NEW n \in Nat, NEW rows \in Nat \ {0}, NEW c \in Cursor
  PROVE  Fits(Select(c, 0, n, rows), n, rows)
  BY DEF Select, Fits

\* A highlight that fits is one of the rows that drawTrackList draws.
THEOREM FitsIsDrawn ==
  ASSUME NEW n \in Nat \ {0}, NEW rows \in Nat \ {0}, NEW c \in Cursor,
         Fits(c, n, rows)
  PROVE  c.sel \in Drawn(c, n, rows)
  BY DEF Fits, Drawn
=============================================================================
