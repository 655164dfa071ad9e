----------------------------- MODULE ListWindow -----------------------------
(***************************************************************************)
(* A list of n rows of which `rows' are drawn, and a highlight that the    *)
(* keys move: the arithmetic the rekordbox applications share.  It is      *)
(* written out in the keyPressed of each; the lines "map" names are those  *)
(* of example-cue-points and, for Select, example-track-detail.            *)
(*                                                                         *)
(* A cursor has the index of the highlight, sel (selectedTrackIndex), and  *)
(* that of the first row drawn, top (trackScrollOffset).                   *)
(***************************************************************************)
EXTENDS Integers

Larger(a, b)  == IF a >= b THEN a ELSE b
Smaller(a, b) == IF a <= b THEN a ELSE b

Cursor  == [sel : Int, top : Nat]
AtStart == [sel |-> 0, top |-> 0]

\* OF_KEY_UP, which looks at the upper edge only.
Up(c) ==
    LET s == Larger(0, c.sel - 1)
    IN  [sel |-> s, top |-> Smaller(c.top, s)]

\* Mutant: the window does not follow.
DownOnly(c, n, rows) == [c EXCEPT !.sel = Smaller(n - 1, @ + 1)]

\* OF_KEY_DOWN, which looks at the lower edge only; -1 in an empty list.
Down(c, n, rows) ==
    LET s == Smaller(n - 1, c.sel + 1)
    IN  [sel |-> s, top |-> IF s >= c.top + rows THEN s - rows + 1 ELSE c.top]

\* Mutant: the window goes above the list.
PageUpUnclamped(c, rows) ==
    [sel |-> Larger(0, c.sel - rows), top |-> c.top - rows]

\* OF_KEY_PAGE_UP and OF_KEY_PAGE_DOWN move both by a page.
PageUp(c, rows) ==
    [sel |-> Larger(0, c.sel - rows), top |-> Larger(0, c.top - rows)]

PageDown(c, n, rows) ==
    [sel |-> Smaller(n - 1, c.sel + rows),
     top |-> Larger(0, Smaller(n - rows, c.top + rows))]

\* selectTrack(i) of the applications that clamp the index there.
Select(c, i, n, rows) ==
    LET s == Larger(0, Smaller(i, n - 1))
    IN  IF n = 0 THEN c
        ELSE [sel |-> s, top |-> IF s < c.top THEN s
                                 ELSE IF s >= c.top + rows THEN s - rows + 1
                                 ELSE c.top]

\* The rows drawTrackList draws.
Drawn(c, n, rows) == c.top .. Smaller(c.top + rows, n) - 1

\* The highlight is a row of the list and in the window, and the window has
\* no empty row unless the list is shorter than it.
Fits(c, n, rows) ==
    n > 0 => /\ c.sel \in 0 .. n - 1
             /\ c.top \in 0 .. Larger(0, n - rows)
             /\ c.top <= c.sel /\ c.sel < c.top + rows
=============================================================================
