---------------------------- MODULE DisplayProofs ----------------------------
(***************************************************************************)
(* Theorems about Display, for a screen of any size and any text.          *)
(***************************************************************************)
EXTENDS Display, TLAPS

-----------------------------------------------------------------------------
(* Positions, rows and columns                                             *)

\* A screen has at least one row.
LEMMA SizeFacts ==
  /\ CRT_SIZE \in Nat
  /\ CRT_SIZE >= CRT_COLS
  /\ CRT_COLS \in Nat \ {0}
  /\ CRT_ROWS \in Nat \ {0}
BY CrtAssumption DEF CRT_SIZE

\* A row number and a column number determine each other's sum.
LEMMA Unique ==
  ASSUME NEW d \in Nat \ {0}, NEW r1 \in Nat, NEW r2 \in Nat,
         NEW k1 \in 0 .. d - 1, NEW k2 \in 0 .. d - 1,
         r1 * d + k1 = r2 * d + k2
  PROVE  r1 = r2 /\ k1 = k2
<1>1. CASE r1 < r2
  <2>1. r2 * d >= (r1 + 1) * d
    BY <1>1
  <2> QED BY <2>1
<1>2. CASE r2 < r1
  <2>1. r1 * d >= (r2 + 1) * d
    BY <1>2
  <2> QED BY <2>1
<1> QED BY <1>1, <1>2

\* Every position has a row and a column.
LEMMA RowCol ==
  ASSUME NEW n \in Nat
  PROVE  /\ Row(n) \in Nat
         /\ Col(n) \in 0 .. CRT_COLS - 1
         /\ n = Row(n) * CRT_COLS + Col(n)
BY SizeFacts DEF Row, Col

\* Every row and column have a position.
LEMMA Position ==
  ASSUME NEW r \in Nat, NEW k \in 0 .. CRT_COLS - 1
  PROVE  /\ r * CRT_COLS + k \in Nat
         /\ Row(r * CRT_COLS + k) = r
         /\ Col(r * CRT_COLS + k) = k
<1>1. r * CRT_COLS + k \in Nat
  BY SizeFacts
<1> DEFINE n == r * CRT_COLS + k
<1>2. /\ Row(n) \in Nat
      /\ Col(n) \in 0 .. CRT_COLS - 1
      /\ Row(n) * CRT_COLS + Col(n) = r * CRT_COLS + k
  BY <1>1, RowCol
<1> HIDE DEF n
<1>3. Row(n) = r /\ Col(n) = k
  BY <1>2, Unique, SizeFacts
<1> QED BY <1>1, <1>3 DEF n

\* A position is on the screen exactly when its row is.
LEMMA OnScreen ==
  ASSUME NEW r \in Nat, NEW k \in 0 .. CRT_COLS - 1
  PROVE  r * CRT_COLS + k < CRT_SIZE <=> r < CRT_ROWS
<1>1. CASE r < CRT_ROWS
  <2>1. CRT_ROWS * CRT_COLS >= (r + 1) * CRT_COLS
    BY <1>1, SizeFacts
  <2> QED BY <1>1, <2>1, SizeFacts DEF CRT_SIZE
<1>2. CASE ~(r < CRT_ROWS)
  <2>1. r * CRT_COLS >= CRT_ROWS * CRT_COLS
    BY <1>2, SizeFacts
  <2> QED BY <1>2, <2>1, SizeFacts DEF CRT_SIZE
<1> QED BY <1>1, <1>2

\* The row of a position on the screen is a row of the screen.
LEMMA RowOnScreen ==
  ASSUME NEW n \in 0 .. CRT_SIZE - 1
  PROVE  Row(n) \in 0 .. CRT_ROWS - 1
<1>1. n \in Nat /\ n < CRT_SIZE
  BY SizeFacts
<1>2. /\ Row(n) \in Nat
      /\ Col(n) \in 0 .. CRT_COLS - 1
      /\ n = Row(n) * CRT_COLS + Col(n)
  BY <1>1, RowCol
<1>3. Row(n) < CRT_ROWS
  BY <1>1, <1>2, OnScreen
<1> QED BY <1>2, <1>3, SizeFacts

-----------------------------------------------------------------------------
(* What one character does                                                 *)

\* Line feed goes to the first column of the next row, carriage return to that
\* of this one.
LEMMA LineStart ==
  ASSUME NEW n \in Nat
  PROVE  /\ n + CRT_COLS - (n % CRT_COLS) = (Row(n) + 1) * CRT_COLS + 0
         /\ n - (n % CRT_COLS) = Row(n) * CRT_COLS + 0
<1> DEFINE base == Row(n) * CRT_COLS
<1>1. n = base + Col(n) /\ Row(n) \in Nat /\ Col(n) \in Nat
  BY RowCol, SizeFacts
<1>2. (Row(n) + 1) * CRT_COLS = base + CRT_COLS /\ base \in Nat
  BY <1>1, SizeFacts
<1>3. n % CRT_COLS = Col(n)
  BY DEF Col
<1> HIDE DEF base
<1>4. /\ n + CRT_COLS - Col(n) = base + CRT_COLS
      /\ n - Col(n) = base
  BY <1>1, <1>2, SizeFacts
<1>5. base + CRT_COLS + 0 = base + CRT_COLS /\ base + 0 = base
  BY <1>2, SizeFacts
<1> QED BY <1>2, <1>3, <1>4, <1>5 DEF base

\* Giving a character its attribute, or erasing it, gives a cell.
LEMMA AttributedType ==
  ASSUME NEW x \in Cell
  PROVE  /\ Attributed(x) \in Cell
         /\ [Attributed(x) EXCEPT !.ch = Space] \in Cell
<1>1. Attributed(x) \in [attr : 0 .. 255, ch : 0 .. 255]
  BY DEF Cell, Attributed
<1>2. Space \in 0 .. 255
  BY DEF Space
<1> HIDE DEF Attributed
<1> QED BY <1>1, <1>2 DEF Cell

\* A character leaves the cursor on the screen or just behind it.
LEMMA PutType ==
  ASSUME NEW s \in Screen, NEW x \in Cell
  PROVE  /\ Put(s, x).buf \in [0 .. CRT_SIZE - 1 -> Cell]
         /\ Put(s, x).pos \in 0 .. CRT_SIZE
<1>screen. /\ s.buf \in [0 .. CRT_SIZE - 1 -> Cell]
      /\ s.pos \in 0 .. CRT_SIZE - 1
  BY DEF Screen
<1>nat. s.pos \in Nat
  BY <1>screen, SizeFacts
<1>1. /\ s.buf \in [0 .. CRT_SIZE - 1 -> Cell]
      /\ s.pos \in 0 .. CRT_SIZE - 1
      /\ s.pos \in Nat
      /\ Attributed(x) \in Cell
  BY <1>screen, <1>nat, AttributedType
<1>2. CASE x.ch = BS /\ s.pos > 0
  <2>1. Put(s, x) = [buf |-> [s.buf EXCEPT ![s.pos - 1] = [Attributed(x) EXCEPT !.ch = Space]],
                     pos |-> s.pos - 1]
    BY <1>2 DEF Put, BS, LF, CR, TAB
  <2>2. [Attributed(x) EXCEPT !.ch = Space] \in Cell
    BY AttributedType
  <2> QED BY <1>1, <1>2, <2>1, <2>2, SizeFacts
<1>3. CASE x.ch = LF
  <2>1. /\ Put(s, x).buf = s.buf
        /\ Put(s, x).pos = s.pos + CRT_COLS - (s.pos % CRT_COLS)
    BY <1>3 DEF Put, BS, LF, CR, TAB, Screen
  <2>2. Row(s.pos) + 1 <= CRT_ROWS /\ Row(s.pos) \in Nat
    BY <1>1, RowOnScreen, SizeFacts
  <2>3. (Row(s.pos) + 1) * CRT_COLS <= CRT_ROWS * CRT_COLS
    BY <2>2, SizeFacts
  <2>4. (Row(s.pos) + 1) * CRT_COLS \in Nat
    BY <2>2, SizeFacts
  <2>5. Put(s, x).pos = (Row(s.pos) + 1) * CRT_COLS
    BY <1>1, <2>1, <2>4, LineStart
  <2>6. (Row(s.pos) + 1) * CRT_COLS <= CRT_SIZE
    BY <2>3 DEF CRT_SIZE
  <2> QED BY <1>1, <2>1, <2>4, <2>5, <2>6, SizeFacts
<1>4. CASE x.ch = CR
  <2>1. /\ Put(s, x).buf = s.buf
        /\ Put(s, x).pos = s.pos - (s.pos % CRT_COLS)
    BY <1>4 DEF Put, BS, LF, CR, TAB, Screen
  <2>2. /\ Row(s.pos) \in Nat
        /\ s.pos - (s.pos % CRT_COLS) = Row(s.pos) * CRT_COLS + 0
        /\ Col(s.pos) \in 0 .. CRT_COLS - 1
    BY <1>1, RowCol, LineStart
  <2>3. Row(s.pos) * CRT_COLS + 0 \in Nat
    BY <2>2, SizeFacts
  <2>4. s.pos % CRT_COLS \in Nat
    BY <2>2, SizeFacts DEF Col
  <2> QED BY <1>1, <2>1, <2>2, <2>3, <2>4, SizeFacts
<1>5. CASE x.ch \notin {BS, TAB, LF, CR}
  <2>1. Put(s, x) = [buf |-> [s.buf EXCEPT ![s.pos] = Attributed(x)],
                     pos |-> s.pos + 1]
    BY <1>5 DEF Put
  <2> QED BY <1>1, <2>1, SizeFacts
<1>6. CASE x.ch = TAB \/ (x.ch = BS /\ ~(s.pos > 0))
  <2>1. Put(s, x) = s
    BY <1>6 DEF Put, BS, LF, CR, TAB
  <2> QED BY <1>1, <2>1, SizeFacts
<1> QED BY <1>2, <1>3, <1>4, <1>5, <1>6

\* Scrolling brings the cursor back onto the screen.
LEMMA CgaPutcType ==
  ASSUME NEW s \in Screen, NEW x \in Cell
  PROVE  CgaPutc(s, x) \in Screen
<1> DEFINE t == Put(s, x)
<1>1. t.buf \in [0 .. CRT_SIZE - 1 -> Cell] /\ t.pos \in 0 .. CRT_SIZE
  BY PutType
<1>2. CASE t.pos < CRT_SIZE
  <2>1. t = [buf |-> t.buf, pos |-> t.pos]
    BY DEF Put, Screen
  <2>2. t \in Screen
    BY <1>1, <1>2, <2>1, SizeFacts DEF Screen
  <2> QED BY <1>2, <2>2 DEF CgaPutc, Scroll
<1>3. CASE ~(t.pos < CRT_SIZE)
  <2> DEFINE b == [k \in 0 .. CRT_SIZE - 1 |->
                     IF k < CRT_SIZE - CRT_COLS THEN t.buf[k + CRT_COLS] ELSE Blank]
  <2>1. CgaPutc(s, x) = [buf |-> b, pos |-> t.pos - CRT_COLS]
    BY <1>3 DEF CgaPutc, Scroll
  <2>2. b \in [0 .. CRT_SIZE - 1 -> Cell]
    <3>1. Blank \in Cell
      BY DEF Blank, Cell, Space
    <3> HIDE DEF t
    <3> QED BY <1>1, <3>1, SizeFacts
  <2>3. t.pos - CRT_COLS \in 0 .. CRT_SIZE - 1
    BY <1>1, <1>3, SizeFacts
  <2> QED BY <2>1, <2>2, <2>3 DEF Screen
<1> QED BY <1>2, <1>3

-----------------------------------------------------------------------------
(* The invariant                                                           *)

\* Every step keeps the types and the origin of what is printed.
LEMMA IInvStep == IInv /\ [Next]_vars => IInv'
<1> SUFFICES ASSUME IInv, [Next]_vars PROVE IInv'
  OBVIOUS
<1> USE DEF IInv, TypeOK, Working
<1>space. Plain(Space) \in Cell
  BY DEF Plain, Space, Cell
<1>1. ASSUME NEW x \in Output, Cputchar(x) PROVE IInv'
  BY <1>1, DisplayAssumption DEF Cputchar
<1>2. ASSUME NEW at \in {"serial", "lpt"}, NEW ready \in BOOLEAN, Wait(at, ready)
      PROVE IInv'
  <2>1. i' \in 0 .. WAIT
    BY <1>2, DisplayAssumption DEF Wait
  <2> QED BY <1>2, <2>1 DEF Wait
<1>zero. 0 \in 0 .. WAIT
  BY DisplayAssumption
<1>3. CASE SerialPutc
  BY <1>3, <1>zero DEF SerialPutc
<1>4. CASE LptPutc
  BY <1>4, <1>zero DEF LptPutc
<1>5. CASE CgaChar
  <2>1. crt' \in Screen
    BY <1>5, CgaPutcType DEF CgaChar
  <2>2. crt'.pos \in 0 .. CRT_SIZE - 1
    BY <2>1 DEF Screen
  <2>3. spaces' \in 0 .. 5
    BY <1>5 DEF CgaChar
  <2> QED BY <1>5, <2>1, <2>2, <2>3 DEF CgaChar
<1>6. CASE CgaTab
  BY <1>6, <1>space DEF CgaTab
<1>7. CASE PortReady
  BY <1>7 DEF PortReady
<1>8. CASE UNCHANGED vars
  BY <1>8 DEF vars
<1> QED
  BY <1>1, <1>2, <1>3, <1>4, <1>5, <1>6, <1>7, <1>8 DEF Next, Kernel

\* The initial states have the invariant.
LEMMA IInvInit == Init => IInv
<1> SUFFICES ASSUME Init PROVE IInv
  OBVIOUS
<1>1. crt \in Screen
  BY DisplayAssumption DEF Init
<1>2. crt.pos \in 0 .. CRT_SIZE - 1
  BY <1>1 DEF Screen
<1>3. Plain(0) \in Cell
  BY DEF Plain, Cell
<1> QED BY <1>1, <1>2, <1>3, DisplayAssumption DEF Init, IInv, TypeOK, Working

\* Type correctness: cga_putc never writes past video memory, and every wait
\* loop stops counting at its bound.
THEOREM TypeCorrect == Spec => []TypeOK
<1>1. IInv => TypeOK
  BY DEF IInv
<1> QED BY <1>1, IInvInit, IInvStep, PTL DEF Spec

-----------------------------------------------------------------------------
(* The page                                                                *)

\* A cell of the grid is a cell of the buffer.
LEMMA GridCell ==
  ASSUME NEW b, NEW r \in 0 .. CRT_ROWS - 1, NEW k \in 0 .. CRT_COLS - 1
  PROVE  Grid(b)[r][k] = b[r * CRT_COLS + k]
BY DEF Grid

\* Writing one cell of the buffer writes the cell at its row and column.
LEMMA GridWrite ==
  ASSUME NEW b \in [0 .. CRT_SIZE - 1 -> Cell], NEW n \in 0 .. CRT_SIZE - 1,
         NEW x
  PROVE  Grid([b EXCEPT ![n] = x]) = [Grid(b) EXCEPT ![Row(n)][Col(n)] = x]
<1>1. n \in Nat
  BY SizeFacts
<1>2. /\ Row(n) \in 0 .. CRT_ROWS - 1
      /\ Col(n) \in 0 .. CRT_COLS - 1
      /\ n = Row(n) * CRT_COLS + Col(n)
  BY <1>1, RowCol, RowOnScreen
<1>3. ASSUME NEW r \in 0 .. CRT_ROWS - 1, NEW k \in 0 .. CRT_COLS - 1
      PROVE  [b EXCEPT ![n] = x][r * CRT_COLS + k]
               = IF r = Row(n) /\ k = Col(n) THEN x ELSE b[r * CRT_COLS + k]
  <2>1. r \in Nat /\ r < CRT_ROWS
    BY SizeFacts
  <2>2. /\ r * CRT_COLS + k \in Nat
        /\ r * CRT_COLS + k < CRT_SIZE
        /\ Row(r * CRT_COLS + k) = r
        /\ Col(r * CRT_COLS + k) = k
    BY <2>1, Position, OnScreen
  <2>3. r * CRT_COLS + k = n <=> r = Row(n) /\ k = Col(n)
    BY <1>2, <2>2
  <2>4. r * CRT_COLS + k \in 0 .. CRT_SIZE - 1
    BY <2>2, SizeFacts
  <2> HIDE DEF Row, Col
  <2> QED BY <2>3, <2>4
<1>4. ASSUME NEW r \in 0 .. CRT_ROWS - 1
      PROVE  Grid([b EXCEPT ![n] = x])[r]
               = [Grid(b) EXCEPT ![Row(n)][Col(n)] = x][r]
  <2>1. Grid([b EXCEPT ![n] = x])[r]
          = [k \in 0 .. CRT_COLS - 1 |->
               IF r = Row(n) /\ k = Col(n) THEN x ELSE b[r * CRT_COLS + k]]
    BY <1>3 DEF Grid
  <2>2. Grid(b)[r] = [k \in 0 .. CRT_COLS - 1 |-> b[r * CRT_COLS + k]]
    BY DEF Grid
  <2>3. DOMAIN Grid(b) = 0 .. CRT_ROWS - 1
    BY DEF Grid
  <2>4. [Grid(b) EXCEPT ![Row(n)][Col(n)] = x][r]
          = IF r = Row(n) THEN [Grid(b)[r] EXCEPT ![Col(n)] = x] ELSE Grid(b)[r]
    BY <1>2, <2>3
  <2> QED BY <1>2, <2>1, <2>2, <2>4
<1> QED BY <1>4 DEF Grid

\* Moving the buffer up by one row's cells moves the grid up by one row.
LEMMA GridScroll ==
  ASSUME NEW b \in [0 .. CRT_SIZE - 1 -> Cell]
  PROVE  Grid([j \in 0 .. CRT_SIZE - 1 |->
                 IF j < CRT_SIZE - CRT_COLS THEN b[j + CRT_COLS] ELSE Blank])
           = [r \in 0 .. CRT_ROWS - 1 |->
                IF r + 1 < CRT_ROWS THEN Grid(b)[r + 1]
                ELSE [k \in 0 .. CRT_COLS - 1 |-> Erased(7)]]
<1> DEFINE b2 == [j \in 0 .. CRT_SIZE - 1 |->
                    IF j < CRT_SIZE - CRT_COLS THEN b[j + CRT_COLS] ELSE Blank]
<1>1. Blank = Erased(7)
  BY DEF Blank, Erased
<1>2. ASSUME NEW r \in 0 .. CRT_ROWS - 1, NEW k \in 0 .. CRT_COLS - 1
      PROVE  b2[r * CRT_COLS + k]
               = IF r + 1 < CRT_ROWS THEN b[(r + 1) * CRT_COLS + k] ELSE Erased(7)
  <2> DEFINE n == r * CRT_COLS + k
  <2>1. r \in Nat /\ r + 1 \in Nat /\ r < CRT_ROWS
    BY SizeFacts
  <2>2. n \in Nat /\ n < CRT_SIZE
    BY <2>1, Position, OnScreen
  <2>3. (r + 1) * CRT_COLS + k = n + CRT_COLS
    BY <2>1, SizeFacts
  <2>4. n + CRT_COLS < CRT_SIZE <=> r + 1 < CRT_ROWS
    BY <2>1, <2>3, OnScreen
  <2> HIDE DEF n
  <2>5. n < CRT_SIZE - CRT_COLS <=> r + 1 < CRT_ROWS
    BY <2>2, <2>4, SizeFacts
  <2>6. b2[n] = IF n < CRT_SIZE - CRT_COLS THEN b[n + CRT_COLS] ELSE Blank
    BY <2>2, SizeFacts
  <2> QED BY <1>1, <2>3, <2>5, <2>6 DEF n
<1> HIDE DEF b2
<1>3. ASSUME NEW r \in 0 .. CRT_ROWS - 1
      PROVE  Grid(b2)[r] = IF r + 1 < CRT_ROWS THEN Grid(b)[r + 1]
                           ELSE [k \in 0 .. CRT_COLS - 1 |-> Erased(7)]
  <2>1. Grid(b2)[r] = [k \in 0 .. CRT_COLS - 1 |-> b2[r * CRT_COLS + k]]
    BY DEF Grid
  <2>2. CASE r + 1 < CRT_ROWS
    <3>1. r + 1 \in 0 .. CRT_ROWS - 1
      BY <2>2, SizeFacts
    <3>2. Grid(b)[r + 1] = [k \in 0 .. CRT_COLS - 1 |-> b[(r + 1) * CRT_COLS + k]]
      BY <3>1 DEF Grid
    <3> QED BY <1>2, <2>1, <2>2, <3>2
  <2>3. CASE ~(r + 1 < CRT_ROWS)
    BY <1>2, <2>1, <2>3
  <2> QED BY <2>2, <2>3
<1> QED BY <1>3 DEF Grid, b2

\* At the start of a row, scrolling is what the page does on entering the row.
LEMMA ScrollRow ==
  ASSUME NEW b \in [0 .. CRT_SIZE - 1 -> Cell], NEW R \in 1 .. CRT_ROWS,
         NEW t, t.buf = b, t.pos = R * CRT_COLS + 0
  PROVE  /\ Grid(Scroll(t).buf) =
              IF R < CRT_ROWS THEN Grid(b)
              ELSE [r \in 0 .. CRT_ROWS - 1 |->
                      IF r + 1 < CRT_ROWS THEN Grid(b)[r + 1]
                      ELSE [k \in 0 .. CRT_COLS - 1 |-> Erased(7)]]
         /\ Row(Scroll(t).pos) = IF R < CRT_ROWS THEN R ELSE CRT_ROWS - 1
         /\ Col(Scroll(t).pos) = 0
<1>1. R \in Nat /\ 0 \in 0 .. CRT_COLS - 1
  BY SizeFacts
<1>2. t.pos \in Nat /\ (t.pos < CRT_SIZE <=> R < CRT_ROWS)
  BY <1>1, Position, OnScreen
<1>3. CASE R < CRT_ROWS
  <2>1. Scroll(t) = t
    BY <1>2, <1>3 DEF Scroll
  <2> QED BY <1>1, <1>3, <2>1, Position
<1>4. CASE ~(R < CRT_ROWS)
  <2>1. R = CRT_ROWS
    BY <1>4, SizeFacts
  <2>2. /\ Scroll(t).buf = [j \in 0 .. CRT_SIZE - 1 |->
              IF j < CRT_SIZE - CRT_COLS THEN b[j + CRT_COLS] ELSE Blank]
        /\ Scroll(t).pos = t.pos - CRT_COLS
    BY <1>2, <1>4 DEF Scroll
  <2>3. CRT_ROWS - 1 \in Nat
    BY SizeFacts
  <2>4. t.pos - CRT_COLS = (CRT_ROWS - 1) * CRT_COLS + 0
    BY <2>1, <2>3, SizeFacts
  <2>5. Row(Scroll(t).pos) = CRT_ROWS - 1 /\ Col(Scroll(t).pos) = 0
    BY <1>1, <2>2, <2>3, <2>4, Position
  <2> QED BY <1>4, <2>2, <2>5, GridScroll
<1> QED BY <1>3, <1>4

\* cga_putc of one character is one operation of the page, or none.
LEMMA CgaCharRefines ==
  ASSUME IInv, CgaChar
  PROVE  [Page!Next]_Page!tvars
<1> DEFINE x == Attributed(c)
           n == crt.pos
           b == crt.buf
           t == Put(crt, c)
<1>1. /\ b \in [0 .. CRT_SIZE - 1 -> Cell]
      /\ n \in 0 .. CRT_SIZE - 1
      /\ c \in Cell
      /\ crt' = Scroll(t)
      /\ c.ch # TAB
  BY DEF IInv, TypeOK, Screen, CgaChar, CgaPutc
<1>2. x \in Glyphs
  BY DEF IInv, Working, CgaChar, Glyphs
<1>3. n \in Nat /\ n < CRT_SIZE
  BY <1>1, SizeFacts
<1>4. /\ Row(n) \in 0 .. CRT_ROWS - 1
      /\ Col(n) \in 0 .. CRT_COLS - 1
      /\ n = Row(n) * CRT_COLS + Col(n)
  BY <1>1, <1>3, RowCol, RowOnScreen
<1>5. Row(n) + 1 \in 1 .. CRT_ROWS /\ Row(n) \in Nat
  BY <1>4, SizeFacts
<1>6. CASE c.ch \notin {BS, TAB, LF, CR}
  <2> DEFINE b1 == [b EXCEPT ![n] = x]
  <2>1. t = [buf |-> b1, pos |-> n + 1]
    BY <1>6 DEF Put
  <2>2. x \in Cell
    BY <1>1, AttributedType
  <2>3. b1 \in [0 .. CRT_SIZE - 1 -> Cell]
    BY <1>1, <2>2
  <2>4. Grid(b1) = [Grid(b) EXCEPT ![Row(n)][Col(n)] = x]
    <3>1. \A v : Grid([b EXCEPT ![n] = v]) = [Grid(b) EXCEPT ![Row(n)][Col(n)] = v]
      BY <1>1, GridWrite
    <3> HIDE DEF x
    <3> QED BY <3>1
  <2>5. CASE Col(n) + 1 < CRT_COLS
    <3>1. Col(n) + 1 \in 0 .. CRT_COLS - 1
      BY <1>4, <2>5, SizeFacts
    <3>2. n + 1 = Row(n) * CRT_COLS + (Col(n) + 1)
      <4>1. Row(n) * CRT_COLS \in Nat
        BY <1>5, SizeFacts
      <4> QED BY <1>4, <4>1, SizeFacts
    <3>3. Row(n + 1) = Row(n) /\ Col(n + 1) = Col(n) + 1 /\ n + 1 < CRT_SIZE
      <4>1. Row(n) < CRT_ROWS
        BY <1>4, SizeFacts
      <4> QED BY <1>5, <3>1, <3>2, <4>1, Position, OnScreen
    <3>4. crt'.buf = b1 /\ crt'.pos = n + 1
      BY <1>1, <2>1, <3>3 DEF Scroll
    <3>5. Page!Show(x)
      BY <2>4, <2>5, <3>3, <3>4 DEF Page!Show
    <3> QED BY <1>2, <3>5 DEF Page!Next
  <2>6. CASE ~(Col(n) + 1 < CRT_COLS)
    <3>1. Col(n) = CRT_COLS - 1
      BY <1>4, <2>6, SizeFacts
    <3>2. n + 1 = (Row(n) + 1) * CRT_COLS + 0
      <4>1. (Row(n) + 1) * CRT_COLS = Row(n) * CRT_COLS + CRT_COLS
        BY <1>5, SizeFacts
      <4>2. Row(n) * CRT_COLS \in Nat
        BY <1>5, SizeFacts
      <4> QED BY <1>4, <3>1, <4>1, <4>2, SizeFacts
    <3>3. t.buf = b1 /\ t.pos = (Row(n) + 1) * CRT_COLS + 0
      BY <2>1, <3>2
    <3> HIDE DEF b1, t
    <3>4. /\ Page!EnterRow(Row(n) + 1, Grid(b1))
          /\ Col(crt'.pos) = 0
      BY <1>1, <1>5, <2>3, <3>3, ScrollRow DEF Page!EnterRow
    <3>5. Page!Show(x)
      BY <2>4, <2>6, <3>4 DEF Page!Show
    <3> QED BY <1>2, <3>5 DEF Page!Next
  <2> QED BY <2>5, <2>6
<1>7. CASE c.ch = LF
  <2>1. /\ t.buf = b
        /\ t.pos = (Row(n) + 1) * CRT_COLS + 0
    <3>1. t.buf = b /\ t.pos = n + CRT_COLS - (n % CRT_COLS)
      BY <1>7 DEF Put, BS, LF, CR, TAB, IInv, TypeOK, Screen
    <3> QED BY <1>3, <3>1, LineStart
  <2> HIDE DEF t
  <2>2. /\ Page!EnterRow(Row(n) + 1, Grid(b))
        /\ Col(crt'.pos) = 0
    BY <1>1, <1>5, <2>1, ScrollRow DEF Page!EnterRow
  <2>3. Page!NewLine
    BY <2>2 DEF Page!NewLine
  <2> QED BY <2>3 DEF Page!Next
<1>8. CASE c.ch = CR
  <2>1. /\ t.buf = b
        /\ t.pos = Row(n) * CRT_COLS + 0
    <3>1. t.buf = b /\ t.pos = n - (n % CRT_COLS)
      BY <1>8 DEF Put, BS, LF, CR, TAB, IInv, TypeOK, Screen
    <3> QED BY <1>3, <3>1, LineStart
  <2>2. /\ Row(t.pos) = Row(n) /\ Col(t.pos) = 0
        /\ t.pos < CRT_SIZE
    <3>1. Row(n) < CRT_ROWS /\ 0 \in 0 .. CRT_COLS - 1
      BY <1>4, SizeFacts
    <3> QED BY <1>5, <2>1, <3>1, Position, OnScreen
  <2>3. crt' = t
    BY <1>1, <2>2 DEF Scroll
  <2> HIDE DEF t
  <2>4. Page!Return
    BY <2>1, <2>2, <2>3 DEF Page!Return
  <2> QED BY <2>4 DEF Page!Next
<1>9. CASE c.ch = BS /\ n > 0
  <2> DEFINE e == [x EXCEPT !.ch = Space]
             b1 == [b EXCEPT ![n - 1] = e]
  <2>1. t.buf = b1 /\ t.pos = n - 1
    <3>1. t = [buf |-> b1, pos |-> n - 1]
      BY <1>9 DEF Put, BS, LF, CR, TAB
    <3> QED BY <3>1
  <2>2. n - 1 \in 0 .. CRT_SIZE - 1 /\ n - 1 \in Nat /\ n - 1 < CRT_SIZE
    BY <1>1, <1>9, SizeFacts
  <2>3. crt'.buf = b1 /\ crt'.pos = n - 1
    BY <1>1, <2>1, <2>2 DEF Scroll
  <2>4. Grid(b1) = [Grid(b) EXCEPT ![Row(n - 1)][Col(n - 1)] = e]
    <3>1. \A v : Grid([b EXCEPT ![n - 1] = v])
                  = [Grid(b) EXCEPT ![Row(n - 1)][Col(n - 1)] = v]
      BY <1>1, <2>2, GridWrite
    <3> HIDE DEF e
    <3> QED BY <3>1
  <2>5. e = Erased(x.attr)
    BY <1>1, AttributedType DEF Cell, Erased
  <2>6. IF Col(n) > 0 THEN Col(n - 1) = Col(n) - 1 /\ Row(n - 1) = Row(n)
        ELSE Col(n - 1) = CRT_COLS - 1 /\ Row(n - 1) = Row(n) - 1 /\ Row(n) > 0
    <3>0. Row(n) * CRT_COLS \in Nat
      BY <1>5, SizeFacts
    <3>1. CASE Col(n) > 0
      <4>1. Col(n) - 1 \in 0 .. CRT_COLS - 1
        BY <1>4, <3>1, SizeFacts
      <4>2. n - 1 = Row(n) * CRT_COLS + (Col(n) - 1)
        BY <1>4, <3>0, SizeFacts
      <4> QED BY <1>5, <3>1, <4>1, <4>2, Position
    <3>2. CASE ~(Col(n) > 0)
      <4>1. Col(n) = 0
        BY <1>4, <3>2, SizeFacts
      <4>2. Row(n) > 0
        <5> SUFFICES ASSUME Row(n) = 0 PROVE FALSE
          BY <1>5
        <5> QED BY <1>4, <1>9, <4>1, SizeFacts
      <4>3. Row(n) - 1 \in Nat /\ CRT_COLS - 1 \in 0 .. CRT_COLS - 1
        BY <1>5, <4>2, SizeFacts
      <4>4. (Row(n) - 1) * CRT_COLS = Row(n) * CRT_COLS - CRT_COLS
        BY <1>5, SizeFacts
      <4>5. n - 1 = (Row(n) - 1) * CRT_COLS + (CRT_COLS - 1)
        BY <1>4, <3>0, <4>1, <4>4, SizeFacts
      <4> QED BY <3>2, <4>2, <4>3, <4>5, Position
    <3> QED BY <3>1, <3>2
  <2>7. x.attr \in {g.attr : g \in Glyphs}
    BY <1>2
  <2> HIDE DEF b1, t, x, e
  <2>8. Page!Erase(x.attr)
    BY <1>4, <2>3, <2>4, <2>5, <2>6 DEF Page!Erase
  <2> QED BY <2>7, <2>8 DEF Page!Next
<1>10. CASE c.ch = BS /\ ~(n > 0)
  <2>1. t = crt
    BY <1>10 DEF Put, BS, LF, CR, TAB
  <2>2. crt' = crt
    BY <1>1, <1>3, <2>1 DEF Scroll
  <2> QED BY <2>2 DEF Page!tvars
<1> QED BY <1>1, <1>6, <1>7, <1>8, <1>9, <1>10

\* The display implements the page: for any screen size, characters appear
\* where a terminal would show them, and scrolling loses the top row only.
THEOREM Refinement == Spec => PageSpec
<1>1. Init => Page!Init
  <2> SUFFICES ASSUME Init PROVE Page!Init
    OBVIOUS
  <2>1. crt.pos \in 0 .. CRT_SIZE - 1 /\ crt.pos \in Nat
    BY IInvInit, SizeFacts DEF IInv, TypeOK, Screen
  <2>2. DOMAIN Grid(crt.buf) = 0 .. CRT_ROWS - 1
    BY DEF Grid
  <2> QED BY <2>1, <2>2, RowCol, RowOnScreen DEF Page!Init
<1>2. IInv /\ [Next]_vars => [Page!Next]_Page!tvars
  <2> SUFFICES ASSUME IInv, [Next]_vars PROVE [Page!Next]_Page!tvars
    OBVIOUS
  <2>1. CASE CgaChar
    BY <2>1, CgaCharRefines
  <2>2. CASE UNCHANGED crt
    BY <2>2 DEF Page!tvars
  <2>3. [Next]_vars => CgaChar \/ UNCHANGED crt
    BY DEF Next, Kernel, Cputchar, Wait, SerialPutc, LptPutc, CgaTab, PortReady, vars
  <2> QED BY <2>1, <2>2, <2>3
<1> QED BY <1>1, <1>2, IInvInit, IInvStep, PTL DEF Spec, PageSpec, Page!Spec
=============================================================================
