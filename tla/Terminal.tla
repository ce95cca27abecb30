------------------------------ MODULE Terminal ------------------------------
(***************************************************************************)
(* What the display promises its callers: a page of rows, a cursor at a    *)
(* row and a column, and a page that moves up when the cursor leaves its   *)
(* last row.  Neither a linear buffer nor arithmetic on positions appears. *)
(***************************************************************************)
EXTENDS Integers

CONSTANTS
  Rows, Cols,
  Glyphs,     \* what a caller can show
  Attrs,      \* attributes a caller can give a character
  Erased(_)   \* the glyph that erasing with an attribute leaves

VARIABLES
  page,       \* [row -> [column -> glyph]]
  row, col    \* the cursor

tvars == <<page, row, col>>

\* What is on the page at first is whatever the machine left there.
Init ==
  /\ DOMAIN page = 0 .. Rows - 1
  /\ row \in 0 .. Rows - 1
  /\ col \in 0 .. Cols - 1

\* The cursor enters row r, which may be one below the page.
EnterRow(r, p) ==
  IF r < Rows
  THEN page' = p /\ row' = r
  ELSE /\ page' = [k \in 0 .. Rows - 1 |->
                     IF k + 1 < Rows THEN p[k + 1]
                     ELSE [j \in 0 .. Cols - 1 |-> Erased(7)]]
       /\ row' = Rows - 1

Show(g) ==
  LET p == [page EXCEPT ![row][col] = g]
  IN  IF col + 1 < Cols
      THEN page' = p /\ row' = row /\ col' = col + 1
      ELSE EnterRow(row + 1, p) /\ col' = 0

NewLine == EnterRow(row + 1, page) /\ col' = 0

Return == col' = 0 /\ UNCHANGED <<page, row>>

\* The cursor steps back, to the end of the row above if need be, and erases.
Erase(a) ==
  /\ row > 0 \/ col > 0
  /\ IF col > 0 THEN col' = col - 1 /\ row' = row
     ELSE col' = Cols - 1 /\ row' = row - 1
  /\ page' = [page EXCEPT ![row'][col'] = Erased(a)]

Next ==
  \/ \E g \in Glyphs : Show(g)
  \/ NewLine
  \/ Return
  \/ \E a \in Attrs : Erase(a)

Spec == Init /\ [][Next]_tvars
=============================================================================
