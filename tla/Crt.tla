-------------------------------- MODULE Crt --------------------------------
(***************************************************************************)
(* What cga_putc does to the text screen (kern/console.c, "Text-mode       *)
(* CGA/VGA display output"), as operators on a screen: a record of crt_buf *)
(* and crt_pos.  A character is a byte with an attribute byte; attribute 0 *)
(* stands for "none given".                                                *)
(***************************************************************************)
EXTENDS Integers

CONSTANTS CRT_ROWS, CRT_COLS

ASSUME CrtAssumption == CRT_ROWS \in Nat \ {0} /\ CRT_COLS \in Nat \ {0}

CRT_SIZE == CRT_ROWS * CRT_COLS

Cell == [attr : 0 .. 255, ch : 0 .. 255]
Screen == [buf : [0 .. CRT_SIZE - 1 -> Cell], pos : 0 .. CRT_SIZE - 1]

BS == 8
TAB == 9
LF == 10
CR == 13
Space == 32

\* 0x0700 | ' ', what a scrolled-in row is filled with
Blank == [attr |-> 7, ch |-> Space]

Plain(b) == [attr |-> 0, ch |-> b]

\* if no attribute given, then use black on white
Attributed(c) == IF c.attr = 0 THEN [c EXCEPT !.attr = 7] ELSE c

\* The cursor movement and the write of each kind of character, before the
\* check for the end of the screen.  '\t' does nothing here: cga_putc calls
\* cons_putc(' ') five times for it.
Put(s, c) ==
  LET x == Attributed(c) IN
  CASE c.ch = BS /\ s.pos > 0 ->
         [buf |-> [s.buf EXCEPT ![s.pos - 1] = [x EXCEPT !.ch = Space]],
          pos |-> s.pos - 1]
    [] c.ch = LF -> [s EXCEPT !.pos = s.pos + CRT_COLS - (s.pos % CRT_COLS)]
    [] c.ch = CR -> [s EXCEPT !.pos = s.pos - (s.pos % CRT_COLS)]
    [] c.ch \notin {BS, TAB, LF, CR} ->
         [buf |-> [s.buf EXCEPT ![s.pos] = x], pos |-> s.pos + 1]
    [] OTHER -> s

Scroll_AtEnd(s) ==
  IF s.pos <= CRT_SIZE THEN s
  ELSE [buf |-> [k \in 0 .. CRT_SIZE - 1 |->
                   IF k < CRT_SIZE - CRT_COLS THEN s.buf[k + CRT_COLS] ELSE Blank],
        pos |-> s.pos - CRT_COLS]

Scroll_Dirty(s) ==
  IF s.pos < CRT_SIZE THEN s
  ELSE [buf |-> [k \in 0 .. CRT_SIZE - 1 |->
                   IF k < CRT_SIZE - CRT_COLS THEN s.buf[k + CRT_COLS]
                   ELSE s.buf[k]],
        pos |-> s.pos - CRT_COLS]

\* memmove one row up, blank the last row, step the position back one row
Scroll(s) ==
  IF s.pos < CRT_SIZE THEN s
  ELSE [buf |-> [k \in 0 .. CRT_SIZE - 1 |->
                   IF k < CRT_SIZE - CRT_COLS THEN s.buf[k + CRT_COLS] ELSE Blank],
        pos |-> s.pos - CRT_COLS]

\* cga_putc for everything but '\t'
CgaPutc(s, c) == Scroll(Put(s, c))
=============================================================================
