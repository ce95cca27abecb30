------------------------------ MODULE Display ------------------------------
(***************************************************************************)
(* The output half of the JOS console driver, kern/console.c: cons_putc    *)
(* writes each character to the serial line, the parallel port and the     *)
(* screen.  The two ports are polled, with a bound, and each can become    *)
(* ready or busy between any two polls, or stay busy for ever.             *)
(***************************************************************************)
EXTENDS Crt, Sequences

CONSTANTS
  WAIT,         \* polls of a port before it is written anyway (12800)
  Output,       \* characters the kernel prints: [attr, ch]
  InitScreens,  \* what the BIOS can leave on the screen
  MaxOutput     \* characters printed in a behaviour          (bound)

ASSUME DisplayAssumption ==
  /\ WAIT \in Nat
  /\ Output \subseteq Cell
  /\ InitScreens \subseteq Screen
  /\ MaxOutput \in Nat

VARIABLES
  pc,           \* port or step cons_putc is at
  c,            \* its argument
  spaces,       \* cons_putc(' ') calls that a '\t' still has to make
  i,            \* the poll counter of serial_putc and lpt_putc
  txrdy, lptrdy,     \* the status bits of the two ports
  crt,          \* crt_buf and crt_pos
  cursor,       \* the cursor position in the 6845's registers 14 and 15
  printed       \* characters the kernel has asked for so far

vars == <<pc, c, spaces, i, txrdy, lptrdy, crt, cursor, printed>>

-----------------------------------------------------------------------------
(* cputchar / cons_putc                                                    *)

Cputchar(x) ==
  /\ pc = "idle"
  /\ printed < MaxOutput
  /\ printed' = printed + 1
  /\ c' = x
  /\ spaces' = 0
  /\ i' = 0
  /\ pc' = "serial"
  /\ UNCHANGED <<txrdy, lptrdy, crt, cursor>>

\* One delay() in the wait loop of serial_putc or lpt_putc.
Wait(at, ready) ==
  /\ pc = at
  /\ ~ready /\ i < WAIT
  /\ i' = i + 1
  /\ UNCHANGED <<pc, c, spaces, txrdy, lptrdy, crt, cursor, printed>>

SerialPutc_Unbounded ==
  /\ pc = "serial"
  /\ txrdy
  /\ txrdy' = FALSE
  /\ i' = 0
  /\ pc' = "lpt"
  /\ UNCHANGED <<c, spaces, lptrdy, crt, cursor, printed>>

\* The outb that follows it, whether the port became ready or time ran out.
SerialPutc ==
  /\ pc = "serial"
  /\ txrdy \/ i = WAIT
  /\ txrdy' = FALSE
  /\ i' = 0
  /\ pc' = "lpt"
  /\ UNCHANGED <<c, spaces, lptrdy, crt, cursor, printed>>

LptPutc ==
  /\ pc = "lpt"
  /\ lptrdy \/ i = WAIT
  /\ lptrdy' = FALSE
  /\ i' = 0
  /\ pc' = "cga"
  /\ UNCHANGED <<c, spaces, txrdy, crt, cursor, printed>>

\* cga_putc of a character that is not '\t'; the last space of a '\t' also
\* ends the cga_putc of the '\t' itself.
CgaChar ==
  /\ pc = "cga"
  /\ c.ch # TAB
  /\ crt' = CgaPutc(crt, c)
  /\ cursor' = crt'.pos
  /\ spaces' = IF spaces = 0 THEN 0 ELSE spaces - 1
  /\ pc' = IF spaces > 1 THEN "serial" ELSE "idle"
  /\ UNCHANGED <<c, i, txrdy, lptrdy, printed>>

\* '\t' calls cons_putc(' ') five times, each a trip through all three devices.
\* The scroll check and the cursor update that the outer call still has to do
\* change nothing: the fifth space has left crt_pos on the screen and in the 6845.
CgaTab ==
  /\ pc = "cga"
  /\ c.ch = TAB
  /\ c' = Plain(Space)
  /\ spaces' = 5
  /\ pc' = "serial"
  /\ UNCHANGED <<i, txrdy, lptrdy, crt, cursor, printed>>

Kernel ==
  \/ Wait("serial", txrdy) \/ SerialPutc
  \/ Wait("lpt", lptrdy) \/ LptPutc
  \/ CgaChar \/ CgaTab

\* The line sends a byte on, the printer takes one (external).
PortReady ==
  /\ \/ txrdy' = TRUE /\ UNCHANGED lptrdy
     \/ lptrdy' = TRUE /\ UNCHANGED txrdy
  /\ UNCHANGED <<pc, c, spaces, i, crt, cursor, printed>>

\* cga_init takes the position from the 6845.
Init ==
  /\ pc = "idle"
  /\ c = Plain(0)
  /\ spaces = 0
  /\ i = 0
  /\ txrdy \in BOOLEAN
  /\ lptrdy \in BOOLEAN
  /\ crt \in InitScreens
  /\ cursor = crt.pos
  /\ printed = 0

Next == (\E x \in Output : Cputchar(x)) \/ Kernel \/ PortReady

\* The processor runs; the ports need never become ready.
Spec == Init /\ [][Next]_vars /\ WF_vars(Kernel)

-----------------------------------------------------------------------------
(* Properties                                                              *)

\* Types; in particular crt_pos is a cell of the screen whenever cga_putc is
\* entered, so `crt_buf[crt_pos++] = c` never writes past video memory.
TypeOK ==
  /\ pc \in {"idle", "serial", "lpt", "cga"}
  /\ c \in Cell
  /\ spaces \in 0 .. 5
  /\ i \in 0 .. WAIT
  /\ txrdy \in BOOLEAN /\ lptrdy \in BOOLEAN
  /\ crt \in Screen
  /\ cursor \in 0 .. CRT_SIZE - 1
  /\ printed \in Nat

Erased(a) == [attr |-> a, ch |-> Space]

Glyphs == {Attributed(x) : x \in Output \union {Plain(Space)}}

\* cons_putc is at work only on what a caller printed or a '\t' expands to.
Working == pc # "idle" => c \in Output \union {Plain(Space)}

IInv == TypeOK /\ Working

\* The buffer as rows of cells, and the position as a row and a column.
Grid(b) == [r \in 0 .. CRT_ROWS - 1 |-> [k \in 0 .. CRT_COLS - 1 |-> b[r * CRT_COLS + k]]]
Row(n) == n \div CRT_COLS
Col(n) == n % CRT_COLS

Page == INSTANCE Terminal
          WITH Rows <- CRT_ROWS, Cols <- CRT_COLS,
               Glyphs <- Glyphs, Attrs <- {g.attr : g \in Glyphs},
               Erased <- Erased,
               page <- Grid(crt.buf), row <- Row(crt.pos), col <- Col(crt.pos)

\* The linear buffer with its position behaves as a page with a cursor at a
\* row and a column: wrap at the end of a row, erase back into the row above,
\* scroll by one row with a blank last row.
PageSpec == Page!Spec

\* Printing always comes to an end, even on a machine whose serial line and
\* printer never become ready, and then the blinking cursor is where the next
\* character goes.
PutcReturns == pc # "idle" ~> (pc = "idle" /\ cursor = crt.pos)
=============================================================================
