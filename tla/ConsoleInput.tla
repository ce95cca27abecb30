---------------------------- MODULE ConsoleInput ----------------------------
(***************************************************************************)
(* The input half of the JOS console driver, kern/console.c: the keyboard  *)
(* translation kbd_proc_data, the serial poll serial_proc_data, the loop   *)
(* cons_intr that stores characters in the ring `cons`, and the reader     *)
(* cons_getc / getchar.  No interrupt is ever enabled in this kernel       *)
(* (boot.S executes cli and no sti follows), so both devices are polled    *)
(* from inside cons_getc; the devices run concurrently with the poll and   *)
(* can produce a byte between any two iterations of its loops.             *)
(***************************************************************************)
EXTENDS Integers, Sequences

CONSTANTS
  CONSBUFSIZE,          \* slots of the ring
  shiftcode,            \* [byte -> flags a key holds down]
  togglecode,           \* [byte -> flags a key toggles]
  normalmap, shiftmap, ctlmap,   \* [byte -> character]
  Keys,                 \* keys of the modelled keyboard: [make, ext]
  SerialBytes,          \* bytes the serial line can carry
  MouseEnabled,         \* whether auxiliary (mouse) bytes reach the i8042
  KbdFifo,              \* bytes the keyboard controller can hold  (bound)
  MaxEvents             \* external events of a behaviour          (bound)

Byte == 0 .. 255
Mods == {"SHIFT", "CTL", "ALT"}                   \* flags that keys hold down
Locks == {"CAPSLOCK", "NUMLOCK", "SCROLLLOCK"}    \* flags that keys toggle
Flags == Mods \union Locks \union {"E0ESC"}

ASSUME SizeAssumption == CONSBUFSIZE \in Nat \ {0}

ASSUME TableAssumption ==
  /\ shiftcode \in [Byte -> SUBSET Mods]
  /\ togglecode \in [Byte -> SUBSET Locks]
  /\ normalmap \in [Byte -> Byte]
  /\ shiftmap \in [Byte -> Byte]
  /\ ctlmap \in [Byte -> Byte]

ASSUME DeviceAssumption ==
  /\ Keys \subseteq [make : 1 .. 95, ext : BOOLEAN]
  /\ SerialBytes \subseteq Byte
  /\ MouseEnabled \in BOOLEAN
  /\ KbdFifo \in Nat /\ MaxEvents \in Nat

KEY_DEL == 233
E0 == 224               \* the escape prefix of the extended keys

VARIABLES
  pc,                   \* where the kernel is in getchar / cons_getc
  buf, rpos, wpos,      \* the ring `cons`
  shift,                \* static uint32_t shift of kbd_proc_data
  serial_exists,
  ret,                  \* value of the last cons_getc that returned
  uart,                 \* does the machine have a COM1
  rx,                   \* COM1 receive buffer: empty or one byte (FIFO off)
  kbq,                  \* i8042 output: bytes for port 0x60, oldest first
  held,                 \* keys physically down
  lost,                 \* the keyboard controller dropped a key event
  port92,               \* the reset bit of port 0x92 has been written
  events                \* external events so far

ring == <<buf, rpos, wpos>>
keyboard == <<kbq, held, lost>>
devices == <<uart, rx, keyboard, events>>
vars == <<pc, ring, shift, serial_exists, ret, port92, devices>>

-----------------------------------------------------------------------------
(* Kernel.  An operator with an underscore in its name is a defect the      *)
(* checks seed to show that a property notices it; no specification uses it. *)

\* `pos++; if (pos == CONSBUFSIZE) pos = 0`
Succ(i) == IF i + 1 = CONSBUFSIZE THEN 0 ELSE i + 1

Stash_NoWrap(c) ==
  /\ buf' = IF c = 0 THEN buf ELSE [buf EXCEPT ![wpos] = c]
  /\ wpos' = IF c = 0 THEN wpos ELSE wpos + 1
  /\ UNCHANGED rpos

Stash_KeepsNul(c) ==
  /\ buf' = [buf EXCEPT ![wpos] = c]
  /\ wpos' = Succ(wpos)
  /\ UNCHANGED rpos

\* One turn of cons_intr's loop with a character c from its device.
Stash(c) ==
  /\ buf' = IF c = 0 THEN buf ELSE [buf EXCEPT ![wpos] = c]
  /\ wpos' = IF c = 0 THEN wpos ELSE Succ(wpos)
  /\ UNCHANGED rpos

SerialInit_NoProbe ==
  /\ serial_exists' = TRUE
  /\ rx' = <<>>

\* serial_init probes COM1 (a missing one reads as 0xFF) and throws a pending
\* byte away.
SerialInit ==
  /\ serial_exists' = uart
  /\ rx' = <<>>

\* cons_init after the BSS is cleared: cga_init has nothing to do with input,
\* and kbd_init does nothing, so stale scan codes stay.
ConsInit ==
  /\ pc = "boot"
  /\ pc' = "idle"
  /\ SerialInit
  /\ UNCHANGED <<ring, shift, ret, port92, uart, keyboard, events>>

CallGetchar ==
  /\ pc = "idle"
  /\ pc' = "serial"
  /\ UNCHANGED <<ring, shift, serial_exists, ret, port92, devices>>

\* COM_LSR_DATA and COM_RX as port reads; a missing UART reads as 0xFF.
SerialReady == ~uart \/ rx # <<>>
SerialData == IF uart THEN rx[1] ELSE 255

\* serial_intr polls only a port that exists.
SerialByte ==
  /\ pc = "serial"
  /\ serial_exists
  /\ SerialReady
  /\ Stash(SerialData)
  /\ rx' = <<>>
  /\ UNCHANGED <<pc, shift, serial_exists, ret, port92, uart, keyboard, events>>

SerialDone ==
  /\ pc = "serial"
  /\ ~serial_exists \/ ~SerialReady
  /\ pc' = "kbd"
  /\ UNCHANGED <<ring, shift, serial_exists, ret, port92, devices>>

\* KBS_DIB set and KBS_TERR clear: port 0x60 holds a keyboard byte.
KbdReady == kbq # <<>> /\ ~Head(kbq).aux

\* inb(KBDATAP) inside one turn of kbd_intr's loop.
data == Head(kbq).data

KbdRead ==
  /\ pc = "kbd"
  /\ KbdReady
  /\ kbq' = Tail(kbq)
  /\ UNCHANGED <<pc, serial_exists, ret, uart, rx, held, lost, events>>

KbdEscape ==
  /\ KbdRead
  /\ data = E0
  /\ shift' = shift \union {"E0ESC"}
  /\ UNCHANGED <<ring, port92>>

KbdRelease_KeepsFlag ==
  /\ KbdRead
  /\ data >= 128 /\ data # E0
  /\ shift' = shift \ {"E0ESC"}
  /\ UNCHANGED <<ring, port92>>

KbdRelease_KeepsEscape ==
  /\ KbdRead
  /\ data >= 128 /\ data # E0
  /\ LET code == IF "E0ESC" \in shift THEN data ELSE data - 128
     IN  shift' = shift \ shiftcode[code]
  /\ UNCHANGED <<ring, port92>>

KbdRelease ==
  /\ KbdRead
  /\ data >= 128 /\ data # E0
  /\ LET code == IF "E0ESC" \in shift THEN data ELSE data - 128
     IN  shift' = shift \ (shiftcode[code] \union {"E0ESC"})
  /\ UNCHANGED <<ring, port92>>

SymDiff(S, T) == (S \ T) \union (T \ S)

charcode(flags) ==
  IF "CTL" \in flags THEN ctlmap
  ELSE IF "SHIFT" \in flags THEN shiftmap ELSE normalmap

SwapCase(c) ==
  IF c \in 97 .. 122 THEN c - 32
  ELSE IF c \in 65 .. 90 THEN c + 32 ELSE c

\* A key goes down: fold it into the shift state, translate, stash.
KbdPress ==
  /\ KbdRead
  /\ data < 128
  /\ LET code == IF "E0ESC" \in shift THEN data + 128 ELSE data
         flags == SymDiff((shift \ {"E0ESC"}) \union shiftcode[code],
                          togglecode[code])
         key == charcode(flags)[code]
         c == IF "CAPSLOCK" \in flags THEN SwapCase(key) ELSE key
     IN  /\ shift' = flags
         /\ Stash(c)
         /\ port92' = (port92 \/ ({"CTL", "ALT"} \subseteq flags /\ c = KEY_DEL))

\* No data, or data the status register attributes to the mouse.
KbdDone ==
  /\ pc = "kbd"
  /\ ~KbdReady
  /\ pc' = "take"
  /\ UNCHANGED <<ring, shift, serial_exists, ret, port92, devices>>

TakeChar ==
  /\ pc = "take"
  /\ rpos # wpos
  /\ ret' = buf[rpos]
  /\ rpos' = Succ(rpos)
  /\ pc' = "idle"
  /\ UNCHANGED <<buf, wpos, shift, serial_exists, port92, devices>>

\* cons_getc returns 0 and getchar calls it again.
TakeNone ==
  /\ pc = "take"
  /\ rpos = wpos
  /\ ret' = 0
  /\ pc' = "serial"
  /\ UNCHANGED <<ring, shift, serial_exists, port92, devices>>

Kernel ==
  \/ ConsInit \/ CallGetchar
  \/ SerialByte \/ SerialDone
  \/ KbdEscape \/ KbdRelease \/ KbdPress
  \/ KbdDone
  \/ TakeChar \/ TakeNone

-----------------------------------------------------------------------------
(* The machine around the kernel (external to the source)                  *)

Event == /\ events < MaxEvents
         /\ events' = events + 1

kernelvars == <<ring, shift, serial_exists, ret>>

\* shiftcode restricted to the keys that exist: what holding K means.
Modifiers(K) ==
  UNION {shiftcode[IF k.ext THEN k.make + 128 ELSE k.make] : k \in K}

\* A scan code with the modifiers that were down when it was sent (a history
\* variable: the kernel reads only aux and data).
Entry(b, K) == [aux |-> FALSE, data |-> b, mods |-> Modifiers(K)]

ScanCode(k, b, K) ==
  IF k.ext THEN <<Entry(E0, K), Entry(b, K)>> ELSE <<Entry(b, K)>>

\* The controller queues a whole scan code or drops it.
Enqueue(s) ==
  IF Len(kbq) + Len(s) <= KbdFifo
  THEN kbq' = kbq \o s /\ UNCHANGED lost
  ELSE lost' = TRUE /\ UNCHANGED kbq

\* A key goes down, or repeats because it stays down.
KeyDown(k) ==
  /\ Event
  /\ held' = held \union {k}
  /\ Enqueue(ScanCode(k, k.make, held'))
  /\ UNCHANGED <<pc, kernelvars, port92, uart, rx>>

KeyUp(k) ==
  /\ Event
  /\ k \in held
  /\ held' = held \ {k}
  /\ Enqueue(ScanCode(k, k.make + 128, held'))
  /\ UNCHANGED <<pc, kernelvars, port92, uart, rx>>

MouseByte ==
  /\ MouseEnabled
  /\ Event
  /\ Enqueue(<<[aux |-> TRUE, data |-> 0, mods |-> {}]>>)
  /\ UNCHANGED <<pc, kernelvars, port92, uart, rx, held>>

\* A byte the kernel did not read in time is overwritten: serial_init turned
\* the UART's FIFO off.
SerialArrive(b) ==
  /\ Event
  /\ uart
  /\ rx' = <<b>>
  /\ UNCHANGED <<pc, kernelvars, port92, uart, keyboard>>

\* The write to port 0x92 takes effect some time after the outb; until then
\* the kernel runs on.
Reset ==
  /\ port92
  /\ pc' = "boot"
  /\ buf' = [i \in 0 .. CONSBUFSIZE - 1 |-> 0]
  /\ rpos' = 0 /\ wpos' = 0
  /\ shift' = {}
  /\ serial_exists' = FALSE
  /\ ret' = 0
  /\ port92' = FALSE
  /\ rx' = <<>>
  /\ kbq' = <<>>
  /\ UNCHANGED <<uart, held, lost, events>>

Environment ==
  \/ \E k \in Keys : KeyDown(k) \/ KeyUp(k)
  \/ \E b \in SerialBytes : SerialArrive(b)
  \/ MouseByte
  \/ Reset

Init ==
  /\ pc = "boot"
  /\ buf = [i \in 0 .. CONSBUFSIZE - 1 |-> 0]
  /\ rpos = 0 /\ wpos = 0
  /\ shift = {}
  /\ serial_exists = FALSE
  /\ ret = 0
  /\ uart \in BOOLEAN
  /\ rx = <<>>
  /\ kbq = <<>>
  /\ held = {}
  /\ lost = FALSE
  /\ port92 = FALSE
  /\ events = 0

Next == Kernel \/ Environment

\* The processor always takes another instruction; nobody has to type, and
\* the reset need not come.
Spec == Init /\ [][Next]_vars /\ WF_vars(Kernel)

-----------------------------------------------------------------------------
(* Properties                                                              *)

KbdEntry == [aux : BOOLEAN, data : Byte, mods : SUBSET Flags]

\* Every variable keeps its type; in particular both ring indices stay inside
\* buf[], so `cons.buf[cons.wpos++]` and `cons.buf[cons.rpos++]` never index
\* past it.
TypeOK ==
  /\ pc \in {"boot", "idle", "serial", "kbd", "take"}
  /\ buf \in [0 .. CONSBUFSIZE - 1 -> Byte]
  /\ rpos \in 0 .. CONSBUFSIZE - 1
  /\ wpos \in 0 .. CONSBUFSIZE - 1
  /\ shift \subseteq Flags
  /\ serial_exists \in BOOLEAN
  /\ ret \in Byte
  /\ uart \in BOOLEAN
  /\ serial_exists => uart
  /\ rx \in Seq(SerialBytes) /\ Len(rx) <= 1
  /\ kbq \in Seq(KbdEntry)
  /\ held \subseteq Keys
  /\ lost \in BOOLEAN
  /\ port92 \in BOOLEAN
  /\ events \in Nat

\* The characters a ring b holds between indices r and w, oldest first.
Count(r, w) == IF w >= r THEN w - r ELSE w - r + CONSBUFSIZE

Slot(r, i) == IF r + i - 1 >= CONSBUFSIZE THEN r + i - 1 - CONSBUFSIZE
              ELSE r + i - 1

Contents(b, r, w) == [i \in 1 .. Count(r, w) |-> b[Slot(r, i)]]

Waiting == Contents(buf, rpos, wpos)

\* The characters a key or the serial line can deliver.
Typeable ==
  {c \in Byte : \E t \in {normalmap, shiftmap, ctlmap} : \E b \in Byte :
                  c = t[b] \/ c = SwapCase(t[b])}

Delivered == (Typeable \union SerialBytes) \ {0}

Queue == INSTANCE InputQueue
           WITH Capacity <- CONSBUFSIZE, Chars <- Delivered,
                q <- Waiting, ret <- ret

\* The store that nothing in cons_intr prevents: every slot but the one that
\* tells a full ring from an empty one is taken, and wpos runs into rpos.
Overrun ==
  /\ Len(Waiting) = CONSBUFSIZE - 1
  /\ wpos' = rpos
  /\ UNCHANGED <<rpos, ret>>

\* The ring with its two indices behaves as a first-in first-out queue of
\* characters a device delivered, across wrap-around, interleaved input of the
\* two devices and reboots.  The one step that is not a step of that queue is
\* an Overrun; the ring is a queue again behind it.
QueueSpec == Queue!Init /\ [][Queue!Next \/ Overrun]_<<Waiting, ret>>

\* However late the kernel polls, and however the keys are interleaved, a key
\* is never translated with a modifier that was up when the key went down
\* (as long as the keyboard controller dropped nothing): the E0 escape and
\* the release codes leave no flag behind in `shift`.
NoPhantomModifier ==
  [][ KbdPress /\ ~lost => shift' \cap Mods \subseteq Head(kbq).mods ]_vars

\* Once every scan code has been read, `shift` holds no modifier of a key that
\* is up and no half-read escape.
NoStuckModifier ==
  kbq = <<>> /\ ~lost => /\ shift \cap Mods \subseteq Modifiers(held)
                         /\ "E0ESC" \notin shift

AuxWaits == \E k \in DOMAIN kbq : kbq[k].aux

\* Keystrokes are eventually all read, once the typing pauses: neither a
\* missing nor a talking serial port stops the keyboard.  A mouse byte does
\* (see MouseIgnored), so the promise ends there.
KeyboardDrains == kbq # <<>> ~> kbq = <<>> \/ AuxWaits

\* "Ignore data from mouse." (console.c:325): the keys behind a mouse byte are
\* read like all others.
MouseIgnored == kbq # <<>> ~> kbq = <<>>
=============================================================================
