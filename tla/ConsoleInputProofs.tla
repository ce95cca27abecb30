------------------------- MODULE ConsoleInputProofs -------------------------
(***************************************************************************)
(* Theorems about ConsoleInput, for every ring size, every translation     *)
(* table and every keyboard.                                               *)
(***************************************************************************)
EXTENDS ConsoleInput, SequenceTheorems, TLAPS

-----------------------------------------------------------------------------
(* Type correctness                                                        *)

\* What holding some keys means is a set of flags of `shift`.
LEMMA ModifiersType ==
  ASSUME NEW K \in SUBSET Keys
  PROVE  Modifiers(K) \subseteq Flags
<1>1. \A k \in K : k.make \in 1 .. 95
  BY DeviceAssumption
<1>2. \A k \in K : (IF k.ext THEN k.make + 128 ELSE k.make) \in Byte
  BY <1>1 DEF Byte
<1>3. \A k \in K : shiftcode[IF k.ext THEN k.make + 128 ELSE k.make] \subseteq Mods
  BY <1>2, TableAssumption
<1> QED BY <1>3 DEF Modifiers, Flags

\* The bytes of one key event are keyboard entries.
LEMMA ScanCodeType ==
  ASSUME NEW k \in Keys, NEW b \in Byte, NEW K \in SUBSET Keys
  PROVE  ScanCode(k, b, K) \in Seq(KbdEntry)
<1>1. Entry(E0, K) \in KbdEntry /\ Entry(b, K) \in KbdEntry
  BY ModifiersType DEF Entry, KbdEntry, E0, Byte
<1> QED BY <1>1 DEF ScanCode

\* Queueing a scan code keeps the controller's queue a queue of entries.
LEMMA EnqueueType ==
  ASSUME TypeOK, NEW s \in Seq(KbdEntry), Enqueue(s)
  PROVE  kbq' \in Seq(KbdEntry) /\ lost' \in BOOLEAN
<1>1. kbq \o s \in Seq(KbdEntry)
  BY ConcatProperties DEF TypeOK
<1>2. CASE Len(kbq) + Len(s) <= KbdFifo
  BY <1>1, <1>2 DEF TypeOK, Enqueue
<1>3. CASE ~(Len(kbq) + Len(s) <= KbdFifo)
  BY <1>3 DEF TypeOK, Enqueue
<1> QED BY <1>2, <1>3

\* Storing a byte keeps the ring's indices inside the ring.
LEMMA StashType ==
  ASSUME TypeOK, NEW c \in Byte, Stash(c)
  PROVE  /\ buf' \in [0 .. CONSBUFSIZE - 1 -> Byte]
         /\ rpos' \in 0 .. CONSBUFSIZE - 1
         /\ wpos' \in 0 .. CONSBUFSIZE - 1
BY SizeAssumption DEF TypeOK, Stash, Succ

\* The head of the keyboard queue is an entry, and its tail a queue.
LEMMA KbdReadType ==
  ASSUME TypeOK, KbdRead
  PROVE  data \in Byte /\ kbq' \in Seq(KbdEntry)
<1>1. kbq \in Seq(KbdEntry) /\ kbq # <<>>
  BY DEF TypeOK, KbdRead, KbdReady
<1>2. Head(kbq) \in KbdEntry /\ Tail(kbq) \in Seq(KbdEntry)
  BY <1>1, HeadTailProperties
<1> QED BY <1>2 DEF KbdRead, KbdEntry, data

\* What the serial loop reads came over the line.
LEMMA SerialDataType ==
  ASSUME TypeOK, serial_exists, SerialReady
  PROVE  SerialData \in SerialBytes \cap Byte
<1>1. uart /\ rx # <<>>
  BY DEF TypeOK, SerialReady
<1>2. rx[1] \in SerialBytes
  BY <1>1, HeadTailProperties DEF TypeOK
<1> QED BY <1>1, <1>2, DeviceAssumption DEF SerialData

\* The translation of a key press is a character of the tables, and a byte.
LEMMA TranslateType ==
  ASSUME NEW code \in Byte, NEW flags \in SUBSET Flags
  PROVE  /\ charcode(flags)[code] \in Typeable \cap Byte
         /\ SwapCase(charcode(flags)[code]) \in Typeable \cap Byte
<1>1. charcode(flags) \in {normalmap, shiftmap, ctlmap}
  BY DEF charcode
<1>2. charcode(flags)[code] \in Byte
  BY <1>1, TableAssumption
<1>3. SwapCase(charcode(flags)[code]) \in Byte
  BY <1>2 DEF SwapCase, Byte
<1>4. /\ charcode(flags)[code] \in Typeable
      /\ SwapCase(charcode(flags)[code]) \in Typeable
  BY <1>1, <1>2, <1>3 DEF Typeable
<1> QED BY <1>2, <1>3, <1>4

\* A key press stores a character of the tables and leaves a shift state.
LEMMA KbdPressStash ==
  ASSUME TypeOK, KbdPress
  PROVE  /\ shift' \subseteq Flags
         /\ \E c \in Typeable \cap Byte : Stash(c)
         /\ port92' \in BOOLEAN
<1> DEFINE code == IF "E0ESC" \in shift THEN data + 128 ELSE data
           flags == SymDiff((shift \ {"E0ESC"}) \union shiftcode[code],
                            togglecode[code])
           key == charcode(flags)[code]
           c == IF "CAPSLOCK" \in flags THEN SwapCase(key) ELSE key
<1>1. code \in Byte
  <2>1. KbdRead /\ data < 128
    BY DEF KbdPress
  <2>2. data \in Byte
    BY <2>1, KbdReadType
  <2>3. data \in 0 .. 127
    BY <2>1, <2>2 DEF Byte
  <2> HIDE DEF data
  <2> QED BY <2>3 DEF Byte
<1>2. flags \subseteq Flags
  <2>1. shiftcode[code] \subseteq Mods /\ togglecode[code] \subseteq Locks
    BY <1>1, TableAssumption
  <2> HIDE DEF code
  <2> QED BY <2>1 DEF TypeOK, SymDiff, Flags
<1>3. c \in Typeable \cap Byte
  BY <1>1, <1>2, TranslateType
<1>4. /\ shift' = flags
      /\ Stash(c)
      /\ port92' = (port92 \/ ({"CTL", "ALT"} \subseteq flags /\ c = KEY_DEL))
  BY DEF KbdPress
<1>5. port92' \in BOOLEAN
  BY <1>4 DEF TypeOK
<1> HIDE DEF c, flags
<1> QED BY <1>2, <1>3, <1>4, <1>5

\* A release code is a make code with its top bit set.
LEMMA ReleaseCodeType ==
  ASSUME NEW n \in 1 .. 95
  PROVE  n + 128 \in Byte
BY DEF Byte

\* Every step keeps every variable's type, the ring indices in particular.
LEMMA TypeStep == TypeOK /\ [Next]_vars => TypeOK'
<1> SUFFICES ASSUME TypeOK, [Next]_vars PROVE TypeOK'
  OBVIOUS
<1> USE DEF TypeOK, ring, devices, keyboard
<1>1. CASE ConsInit
  BY <1>1 DEF ConsInit, SerialInit
<1>2. CASE CallGetchar
  BY <1>2 DEF CallGetchar
<1>3. CASE SerialByte
  <2>1. SerialData \in Byte
    BY <1>3, SerialDataType DEF SerialByte
  <2> QED BY <1>3, <2>1, StashType DEF SerialByte
<1>4. CASE SerialDone
  BY <1>4 DEF SerialDone
<1>5. CASE KbdEscape
  BY <1>5, KbdReadType DEF KbdEscape, KbdRead, Flags
<1>6. CASE KbdRelease
  BY <1>6, KbdReadType DEF KbdRelease, KbdRead
<1>7. CASE KbdPress
  <2>1. PICK c \in Typeable \cap Byte : Stash(c)
    BY <1>7, KbdPressStash
  <2> QED BY <1>7, <2>1, KbdPressStash, StashType, KbdReadType
          DEF KbdPress, KbdRead
<1>8. CASE KbdDone
  BY <1>8 DEF KbdDone
<1>9. CASE TakeChar
  BY <1>9, SizeAssumption DEF TakeChar, Succ
<1>10. CASE TakeNone
  BY <1>10 DEF TakeNone, Byte
<1>11. ASSUME NEW k \in Keys, KeyDown(k) PROVE TypeOK'
  <2>1. k.make \in 1 .. 95
    BY DeviceAssumption
  <2>2. k.make \in Byte /\ held' \in SUBSET Keys
    BY <1>11, <2>1 DEF KeyDown, Byte
  <2>3. kbq' \in Seq(KbdEntry) /\ lost' \in BOOLEAN
    BY <1>11, <2>2, ScanCodeType, EnqueueType DEF KeyDown
  <2> QED BY <1>11, <2>2, <2>3 DEF KeyDown, Event, kernelvars
<1>12. ASSUME NEW k \in Keys, KeyUp(k) PROVE TypeOK'
  <2>1. k.make \in 1 .. 95
    BY DeviceAssumption
  <2>2. k.make + 128 \in Byte
    BY <2>1, ReleaseCodeType
  <2>3. held' \in SUBSET Keys
    BY <1>12 DEF KeyUp
  <2>4. kbq' \in Seq(KbdEntry) /\ lost' \in BOOLEAN
    BY <1>12, <2>2, <2>3, ScanCodeType, EnqueueType DEF KeyUp
  <2> QED BY <1>12, <2>3, <2>4 DEF KeyUp, Event, kernelvars
<1>13. ASSUME NEW b \in SerialBytes, SerialArrive(b) PROVE TypeOK'
  BY <1>13, DeviceAssumption DEF SerialArrive, Event, kernelvars
<1>14. CASE MouseByte
  <2>1. <<[aux |-> TRUE, data |-> 0, mods |-> {}]>> \in Seq(KbdEntry)
    BY DEF KbdEntry, Byte
  <2>2. kbq' \in Seq(KbdEntry) /\ lost' \in BOOLEAN
    BY <1>14, <2>1, EnqueueType DEF MouseByte
  <2> QED BY <1>14, <2>2 DEF MouseByte, Event, kernelvars
<1>15. CASE Reset
  <2>1. buf' \in [0 .. CONSBUFSIZE - 1 -> Byte]
    BY <1>15 DEF Reset, Byte
  <2>2. /\ kbq' \in Seq(KbdEntry)
        /\ rx' \in Seq(SerialBytes)
        /\ Len(rx') <= 1
        /\ shift' \subseteq Flags
    BY <1>15 DEF Reset
  <2>3. /\ rpos' \in 0 .. CONSBUFSIZE - 1
        /\ wpos' \in 0 .. CONSBUFSIZE - 1
        /\ ret' \in Byte
    BY <1>15, SizeAssumption DEF Reset, Byte
  <2> QED BY <1>15, <2>1, <2>2, <2>3 DEF Reset
<1>16. CASE UNCHANGED vars
  BY <1>16 DEF vars
<1> QED
  BY <1>1, <1>2, <1>3, <1>4, <1>5, <1>6, <1>7, <1>8, <1>9, <1>10, <1>11,
     <1>12, <1>13, <1>14, <1>15, <1>16
  DEF Next, Kernel, Environment

\* Type correctness: cons.buf is never indexed out of range, and every
\* character cons_getc returns is a byte.
THEOREM TypeCorrect == Spec => []TypeOK
<1>1. Init => TypeOK
  BY SizeAssumption DEF Init, TypeOK, Byte
<1> QED BY <1>1, TypeStep, PTL DEF Spec

-----------------------------------------------------------------------------
(* The ring is a first-in first-out queue                                  *)

Slots == 0 .. CONSBUFSIZE - 1

\* What a ring holds is a sequence of bytes shorter than the ring.
LEMMA ContentsSeq ==
  ASSUME NEW b \in [Slots -> Byte], NEW r \in Slots, NEW w \in Slots
  PROVE  /\ Count(r, w) \in Slots
         /\ \A i \in 1 .. Count(r, w) : Slot(r, i) \in Slots
         /\ Contents(b, r, w) \in Seq(Byte)
         /\ Len(Contents(b, r, w)) = Count(r, w)
         /\ \A i \in 1 .. Count(r, w) : Contents(b, r, w)[i] = b[Slot(r, i)]
<1>1. Count(r, w) \in Slots
  BY SizeAssumption DEF Count, Slots
<1>2. \A i \in 1 .. Count(r, w) : Slot(r, i) \in Slots
  BY SizeAssumption DEF Count, Slot, Slots
<1>3. /\ Contents(b, r, w) \in [1 .. Count(r, w) -> Byte]
      /\ \A i \in 1 .. Count(r, w) : Contents(b, r, w)[i] = b[Slot(r, i)]
  BY <1>2 DEF Contents
<1>4. Count(r, w) \in Nat
  BY <1>1, SizeAssumption DEF Slots
<1>5. Contents(b, r, w) \in Seq(Byte)
  BY <1>3, <1>4, SeqDef
<1>6. Len(Contents(b, r, w)) = Count(r, w)
  <2>1. 1 .. Len(Contents(b, r, w)) = 1 .. Count(r, w)
    BY <1>3, <1>5, LenProperties
  <2>2. Len(Contents(b, r, w)) \in Nat
    BY <1>5, LenProperties
  <2> QED BY <2>1, <2>2, <1>4
<1> QED BY <1>1, <1>2, <1>3, <1>5, <1>6

\* Storing a character appends it, unless it is the one that fills the ring:
\* that one makes the ring look empty.
LEMMA ContentsPut ==
  ASSUME NEW b \in [Slots -> Byte], NEW r \in Slots, NEW w \in Slots,
         NEW c \in Byte
  PROVE  Contents([b EXCEPT ![w] = c], r, Succ(w))
           = IF Len(Contents(b, r, w)) + 1 = CONSBUFSIZE THEN <<>>
             ELSE Append(Contents(b, r, w), c)
<1> DEFINE b2 == [b EXCEPT ![w] = c]
           s == Contents(b, r, w)
           s2 == Contents(b2, r, Succ(w))
<1>1. b2 \in [Slots -> Byte] /\ Succ(w) \in Slots
  BY SizeAssumption DEF Slots, Succ
<1>2. /\ s \in Seq(Byte) /\ Len(s) = Count(r, w)
      /\ \A i \in 1 .. Count(r, w) : s[i] = b[Slot(r, i)]
  BY ContentsSeq
<1>3. /\ s2 \in Seq(Byte) /\ Len(s2) = Count(r, Succ(w))
      /\ \A i \in 1 .. Count(r, Succ(w)) : s2[i] = b2[Slot(r, i)]
  BY <1>1, ContentsSeq
<1> HIDE DEF s, s2
<1>4. CASE Count(r, w) + 1 = CONSBUFSIZE
  <2>1. Count(r, Succ(w)) = 0
    BY <1>4, SizeAssumption DEF Count, Succ, Slots
  <2>2. s2 = <<>>
    BY <1>3, <2>1, EmptySeq
  <2> QED BY <1>2, <1>4, <2>2 DEF s, s2
<1>5. CASE Count(r, w) + 1 # CONSBUFSIZE
  <2>1. Count(r, Succ(w)) = Count(r, w) + 1
    BY <1>5, SizeAssumption DEF Count, Succ, Slots
  <2>2. \A i \in 1 .. Count(r, w) : Slot(r, i) # w
    BY SizeAssumption DEF Count, Slot, Slots
  <2>3. Slot(r, Count(r, w) + 1) = w
    BY <1>5, SizeAssumption DEF Count, Slot, Slots
  <2>4. Count(r, w) \in Nat
    BY ContentsSeq, SizeAssumption DEF Slots
  <2>5. /\ Append(s, c) \in Seq(Byte)
        /\ Len(Append(s, c)) = Len(s) + 1
        /\ \A i \in 1 .. Len(s) : Append(s, c)[i] = s[i]
        /\ Append(s, c)[Len(s) + 1] = c
    BY <1>2, AppendProperties
  <2>6. \A i \in 1 .. Count(r, w) : s2[i] = s[i]
    <3> TAKE i \in 1 .. Count(r, w)
    <3>1. i \in 1 .. Count(r, Succ(w))
      BY <2>1, <2>4
    <3>2. Slot(r, i) \in Slots /\ Slot(r, i) # w
      BY <2>2, ContentsSeq
    <3> QED BY <1>2, <1>3, <3>1, <3>2
  <2>7. s2[Count(r, w) + 1] = c
    BY <1>3, <2>1, <2>3, <2>4
  <2>8. \A i \in 1 .. Len(s2) : s2[i] = Append(s, c)[i]
    BY <1>2, <1>3, <2>1, <2>4, <2>5, <2>6, <2>7
  <2>9. s2 = Append(s, c)
    BY <1>2, <1>3, <2>1, <2>5, <2>8, SeqEqual
  <2> QED BY <1>2, <1>5, <2>9 DEF s, s2
<1> QED BY <1>4, <1>5

\* Reading takes the oldest character.
LEMMA ContentsGet ==
  ASSUME NEW b \in [Slots -> Byte], NEW r \in Slots, NEW w \in Slots, r # w
  PROVE  /\ Contents(b, r, w) # <<>>
         /\ Head(Contents(b, r, w)) = b[r]
         /\ Contents(b, Succ(r), w) = Tail(Contents(b, r, w))
<1> DEFINE s == Contents(b, r, w)
           s2 == Contents(b, Succ(r), w)
<1>1. Succ(r) \in Slots
  BY SizeAssumption DEF Slots, Succ
<1>2. /\ s \in Seq(Byte) /\ Len(s) = Count(r, w)
      /\ \A i \in 1 .. Count(r, w) : s[i] = b[Slot(r, i)]
  BY ContentsSeq
<1>3. /\ s2 \in Seq(Byte) /\ Len(s2) = Count(Succ(r), w)
      /\ \A i \in 1 .. Count(Succ(r), w) : s2[i] = b[Slot(Succ(r), i)]
  BY <1>1, ContentsSeq
<1>4. /\ Count(r, w) \in Nat \ {0}
      /\ Count(Succ(r), w) = Count(r, w) - 1
  BY SizeAssumption DEF Count, Succ, Slots
<1>5. Slot(r, 1) = r
  BY SizeAssumption DEF Slot, Slots
<1>6. \A i \in 1 .. Count(Succ(r), w) : Slot(Succ(r), i) = Slot(r, i + 1)
  BY SizeAssumption DEF Count, Slot, Succ, Slots
<1> HIDE DEF s, s2
<1>7. s # <<>> /\ Head(s) = b[r]
  BY <1>2, <1>4, <1>5, EmptySeq
<1>8. /\ Tail(s) \in Seq(Byte)
      /\ Len(Tail(s)) = Len(s) - 1
      /\ \A i \in 1 .. Len(Tail(s)) : Tail(s)[i] = s[i + 1]
  BY <1>2, <1>7, HeadTailProperties
<1>9. \A i \in 1 .. Len(s2) : s2[i] = Tail(s)[i]
  BY <1>2, <1>3, <1>4, <1>6, <1>8
<1>10. s2 = Tail(s)
  BY <1>2, <1>3, <1>4, <1>8, <1>9, SeqEqual
<1> QED BY <1>7, <1>10 DEF s, s2

\* Nothing is waiting exactly when the indices agree.
LEMMA ContentsEmpty ==
  ASSUME NEW b \in [Slots -> Byte], NEW r \in Slots, NEW w \in Slots
  PROVE  Contents(b, r, w) = <<>> <=> r = w
<1>1. Count(r, w) = 0 <=> r = w
  BY SizeAssumption DEF Count, Slots
<1> QED BY <1>1, ContentsSeq, EmptySeq

\* cons_intr's loop body is the abstract Put, an Overrun, or nothing for a NUL.
LEMMA StashRefines ==
  ASSUME TypeOK, NEW c \in (Typeable \union SerialBytes) \cap Byte,
         Stash(c), UNCHANGED ret
  PROVE  [Queue!Next \/ Overrun]_<<Waiting, ret>>
<1>1. CASE c = 0
  <2>1. UNCHANGED ring
    BY <1>1 DEF Stash, ring
  <2> QED BY <2>1 DEF Waiting, ring
<1>2. CASE c # 0
  <2>1. c \in Delivered
    BY <1>2 DEF Delivered
  <2>2. buf' = [buf EXCEPT ![wpos] = c] /\ wpos' = Succ(wpos) /\ rpos' = rpos
    BY <1>2 DEF Stash
  <2>3. /\ buf \in [Slots -> Byte] /\ rpos \in Slots /\ wpos \in Slots
        /\ Len(Waiting) = Count(rpos, wpos)
        /\ Count(rpos, wpos) \in Slots
    BY ContentsSeq DEF TypeOK, Slots, Waiting
  <2>4. CASE Len(Waiting) + 1 = CONSBUFSIZE
    <3>1. Len(Waiting) = CONSBUFSIZE - 1
      BY <2>3, <2>4, SizeAssumption DEF Slots
    <3>2. wpos' = rpos
      BY <2>2, <2>3, <2>4, SizeAssumption DEF Count, Succ, Slots
    <3> QED BY <2>2, <3>1, <3>2 DEF Overrun
  <2>5. CASE Len(Waiting) + 1 # CONSBUFSIZE
    <3>1. Waiting' = Append(Waiting, c)
      BY <2>2, <2>3, <2>5, ContentsPut DEF Waiting
    <3>2. Len(Waiting) < CONSBUFSIZE - 1
      BY <2>3, <2>5, SizeAssumption DEF Slots
    <3>3. Queue!Put(c)
      BY <3>1, <3>2 DEF Queue!Put
    <3> QED BY <2>1, <3>3 DEF Queue!Next
  <2> QED BY <2>4, <2>5
<1> QED BY <1>1, <1>2

\* Every step of the console is a step of the queue, leaves it alone, or is the
\* store into a ring that is full.
LEMMA QueueStep ==
  ASSUME TypeOK, [Next]_vars
  PROVE  [Queue!Next \/ Overrun]_<<Waiting, ret>>
<1>1. ASSUME UNCHANGED ring, UNCHANGED ret PROVE [Queue!Next \/ Overrun]_<<Waiting, ret>>
  BY <1>1 DEF Waiting, ring
<1>2. CASE SerialByte
  <2>1. SerialData \in (Typeable \union SerialBytes) \cap Byte
    BY <1>2, SerialDataType DEF SerialByte
  <2> QED BY <1>2, <2>1, StashRefines DEF SerialByte
<1>3. CASE KbdPress
  <2>1. PICK c \in Typeable \cap Byte : Stash(c)
    BY <1>3, KbdPressStash
  <2> QED BY <1>3, <2>1, StashRefines DEF KbdPress, KbdRead
<1>4. CASE TakeChar
  <2>1. Queue!Get
    BY <1>4, ContentsGet DEF TakeChar, Queue!Get, Waiting, TypeOK, Slots
  <2> QED BY <2>1 DEF Queue!Next
<1>5. CASE TakeNone
  <2>1. Queue!GetNone
    BY <1>5, ContentsEmpty
    DEF TakeNone, Queue!GetNone, Waiting, TypeOK, Slots, ring
  <2> QED BY <2>1 DEF Queue!Next
<1>6. CASE Reset
  <2>1. TypeOK' /\ rpos' = wpos'
    BY <1>6, TypeStep DEF Reset, Next, Environment
  <2>2. Waiting' = <<>>
    BY <2>1, ContentsEmpty DEF Waiting, TypeOK, Slots
  <2>3. Queue!Reset
    BY <1>6, <2>2 DEF Reset, Queue!Reset
  <2> QED BY <2>3 DEF Queue!Next
<1>7. CASE ConsInit \/ CallGetchar \/ SerialDone \/ KbdEscape \/ KbdRelease
           \/ KbdDone
  BY <1>1, <1>7 DEF ConsInit, SerialInit, CallGetchar, SerialDone, KbdEscape, KbdRelease,
                    KbdDone, KbdRead
<1>8. ASSUME Environment, ~Reset PROVE [Queue!Next \/ Overrun]_<<Waiting, ret>>
  BY <1>1, <1>8 DEF Environment, KeyDown, KeyUp, SerialArrive, MouseByte,
                    kernelvars
<1>9. CASE UNCHANGED vars
  BY <1>1, <1>9 DEF vars
<1> QED BY <1>2, <1>3, <1>4, <1>5, <1>6, <1>7, <1>8, <1>9 DEF Next, Kernel

\* The console implements the queue: characters come out of cons_getc in the
\* order the devices delivered them, each once, none invented, across
\* wrap-around of both indices, and it returns 0 only when none waits; the only
\* exception is the store into a ring with CONSBUFSIZE - 1 characters.
THEOREM Refinement == Spec => QueueSpec
<1>1. Init => Queue!Init
  <2> SUFFICES ASSUME Init PROVE Queue!Init
    OBVIOUS
  <2>1. buf \in [Slots -> Byte] /\ rpos \in Slots /\ wpos = rpos /\ ret = 0
    BY SizeAssumption DEF Init, Slots, Byte
  <2>2. Waiting = <<>>
    BY <2>1, ContentsEmpty DEF Waiting
  <2> QED BY <2>1, <2>2 DEF Queue!Init
<1>2. TypeOK /\ [Next]_vars => [Queue!Next \/ Overrun]_<<Waiting, ret>>
  BY QueueStep
<1> QED BY <1>1, <1>2, TypeCorrect, PTL DEF Spec, QueueSpec
-----------------------------------------------------------------------------
(* No modifier is invented and none sticks                                 *)

\* Whether the E0 escape precedes entry i of the queue q, read with the shift
\* state s.
Escaped(q, s, i) == IF i = 1 THEN "E0ESC" \in s ELSE q[i - 1].data = E0

\* The index into the tables that the kernel will compute for entry i.
Code(q, s, i) ==
  LET b == IF q[i].data < 128 THEN q[i].data ELSE q[i].data - 128
  IN  IF Escaped(q, s, i) THEN b + 128 ELSE b

\* The modifiers that were down before the key event of entry i.
Before(q, s, i) ==
  LET j == IF Escaped(q, s, i) THEN i - 2 ELSE i - 1
  IN  IF j <= 0 THEN s \cap Mods ELSE q[j].mods

\* The event of entry i turns the modifiers before it into those it carries.
Follows(q, s, i) ==
  /\ q[i].data < 128 =>
       Before(q, s, i) \union shiftcode[Code(q, s, i)] \subseteq q[i].mods
  /\ q[i].data >= 128 /\ q[i].data # E0 =>
       Before(q, s, i) \ shiftcode[Code(q, s, i)] \subseteq q[i].mods

\* An escape is followed by the byte it belongs to.
Completed(q, s, i) ==
  q[i].data = E0 => /\ ~Escaped(q, s, i)
                    /\ i < Len(q) /\ ~q[i + 1].aux

\* Entry i is one the kernel gets to: no mouse byte is in its way.
Reached(q, i) == \A j \in 1 .. i : ~q[j].aux

\* Read in order from the state s, the queue q is a series of key events.
Coherent(q, s) ==
  /\ \A i \in 1 .. Len(q) : Reached(q, i) => Follows(q, s, i) /\ Completed(q, s, i)
  /\ "E0ESC" \in s => q # <<>> /\ ~q[1].aux

\* What is known once the queue is read: the modifiers of the keys K.
Ends(q, s, K) ==
  Reached(q, Len(q)) =>
    IF q = <<>> THEN s \cap Mods \subseteq Modifiers(K)
    ELSE q[Len(q)].mods = Modifiers(K)

KeysInv == ~lost => Coherent(kbq, shift) /\ Ends(kbq, shift, held)

\* The fields of an entry.
LEMMA EntryFields ==
  ASSUME NEW q \in Seq(KbdEntry), NEW i \in 1 .. Len(q)
  PROVE  /\ q[i].aux \in BOOLEAN /\ q[i].data \in Nat /\ q[i].data \in Byte
         /\ q[i].mods \subseteq Flags
<1>1. q[i] \in KbdEntry
  BY ElementOfSeq
<1>2. q[i].aux \in BOOLEAN /\ q[i].data \in Byte /\ q[i].mods \subseteq Flags
  BY <1>1 DEF KbdEntry
<1>3. \A b \in Byte : b \in Nat
  BY DEF Byte
<1> QED BY <1>2, <1>3

\* Taking the first entry off: the state t that the kernel is left in has the
\* escape if the entry was one, and no modifier the entry does not account for.
LEMMA TakeEntry ==
  ASSUME NEW q \in Seq(KbdEntry), q # <<>>, ~q[1].aux,
         NEW s \in SUBSET Flags, Coherent(q, s),
         NEW t \in SUBSET Flags, "E0ESC" \in t <=> q[1].data = E0,
         q[1].data = E0 => t \cap Mods = s \cap Mods,
         q[1].data # E0 => t \cap Mods \subseteq q[1].mods
  PROVE  /\ Coherent(Tail(q), t)
         /\ \A K : Ends(q, s, K) => Ends(Tail(q), t, K)
<1> DEFINE p == Tail(q)
<1>1. /\ p \in Seq(KbdEntry) /\ Len(q) \in Nat /\ Len(q) >= 1
      /\ Len(p) = Len(q) - 1 /\ \A i \in 1 .. Len(p) : p[i] = q[i + 1]
  BY HeadTailProperties, EmptySeq, LenProperties
<1> HIDE DEF p
<1>2. ASSUME NEW i \in 0 .. Len(p), Reached(p, i)
      PROVE  Reached(q, i + 1)
  <2> SUFFICES ASSUME NEW j \in 1 .. i + 1 PROVE ~q[j].aux
    BY DEF Reached
  <2>1. CASE j = 1
    BY <2>1
  <2>2. CASE j # 1
    <3>1. j - 1 \in 1 .. i /\ j - 1 \in 1 .. Len(p)
      BY <1>1, <2>2
    <3>2. p[j - 1] = q[j]
      BY <1>1, <3>1
    <3> QED BY <1>2, <3>1, <3>2 DEF Reached
  <2> QED BY <2>1, <2>2
<1>3. ASSUME NEW i \in 1 .. Len(p)
      PROVE  /\ Escaped(p, t, i) <=> Escaped(q, s, i + 1)
             /\ Code(p, t, i) = Code(q, s, i + 1)
  <2>1. p[i] = q[i + 1] /\ (i # 1 => p[i - 1] = q[i])
    BY <1>1
  <2>2. Escaped(p, t, i) <=> Escaped(q, s, i + 1)
    BY <2>1 DEF Escaped
  <2> QED BY <2>1, <2>2 DEF Code
<1>4. ASSUME NEW i \in 1 .. Len(p), Reached(p, i)
      PROVE  /\ Before(p, t, i) \subseteq Before(q, s, i + 1)
             /\ Follows(p, t, i) /\ Completed(p, t, i)
  <2>1. Reached(q, i + 1) /\ i + 1 \in 1 .. Len(q)
    BY <1>1, <1>2, <1>4
  <2>2. Follows(q, s, i + 1) /\ Completed(q, s, i + 1)
    BY <2>1 DEF Coherent
  <2>3. p[i] = q[i + 1]
    BY <1>1
  <2>4. CASE i = 1
    <3>1. Before(p, t, i) = t \cap Mods
      BY <2>4 DEF Before
    <3>2. Before(q, s, i + 1) = IF q[1].data = E0 THEN s \cap Mods ELSE q[1].mods
      BY <2>4 DEF Before, Escaped
    <3>3. Before(p, t, i) \subseteq Before(q, s, i + 1)
      BY <3>1, <3>2
    <3> QED BY <1>1, <1>3, <2>2, <2>3, <3>3 DEF Follows, Completed
  <2>5. CASE i # 1
    <3>1. i - 1 \in 1 .. Len(p) /\ p[i - 1] = q[i]
      BY <1>1, <2>5
    <3>2. CASE Escaped(p, t, i)
      <4>1. p[i - 1].data = E0 /\ Escaped(q, s, i + 1)
        BY <1>3, <2>5, <3>2 DEF Escaped
      <4>2. Before(q, s, i + 1) = q[i - 1].mods
        BY <4>1, <2>5 DEF Before
      <4>3. CASE i = 2
        <5>1. Before(p, t, i) = t \cap Mods
          BY <3>2, <4>3 DEF Before
        <5>2. Reached(p, 1)
          BY <1>4, <4>3 DEF Reached
        <5>3. Reached(q, 2) /\ 2 \in 1 .. Len(q)
          BY <1>1, <1>2, <4>3, <5>2
        <5>4. Completed(q, s, 2)
          BY <5>3 DEF Coherent
        <5>5. q[1].data # E0
          BY <3>1, <4>1, <4>3, <5>4 DEF Completed, Escaped
        <5>6. Before(p, t, i) \subseteq Before(q, s, i + 1)
          BY <4>2, <4>3, <5>1, <5>5
        <5> QED BY <1>1, <1>3, <2>2, <2>3, <5>6 DEF Follows, Completed
      <4>4. CASE i # 2
        <5>1. Before(p, t, i) = p[i - 2].mods /\ p[i - 2] = q[i - 1]
          BY <1>1, <2>5, <3>2, <4>4 DEF Before
        <5>2. Before(p, t, i) \subseteq Before(q, s, i + 1)
          BY <4>2, <5>1
        <5> QED BY <1>1, <1>3, <2>2, <2>3, <5>2 DEF Follows, Completed
      <4> QED BY <4>3, <4>4
    <3>3. CASE ~Escaped(p, t, i)
      <4>1. Before(p, t, i) = p[i - 1].mods
        BY <2>5, <3>3 DEF Before
      <4>2. Before(q, s, i + 1) = q[i].mods
        BY <1>3, <2>5, <3>3 DEF Before
      <4>3. Before(p, t, i) \subseteq Before(q, s, i + 1)
        BY <3>1, <4>1, <4>2
      <4> QED BY <1>1, <1>3, <2>2, <2>3, <4>3 DEF Follows, Completed
    <3> QED BY <3>2, <3>3
  <2> QED BY <2>4, <2>5
<1>5. /\ Reached(q, 1) /\ 1 \in 1 .. Len(q)
      /\ Completed(q, s, 1)
  BY <1>1 DEF Reached, Coherent
<1>6. "E0ESC" \in t => p # <<>> /\ ~p[1].aux
  <2> SUFFICES ASSUME "E0ESC" \in t PROVE p # <<>> /\ ~p[1].aux
    OBVIOUS
  <2>1. 1 < Len(q) /\ ~q[2].aux
    BY <1>5 DEF Completed
  <2>2. Len(p) # 0 /\ 1 \in 1 .. Len(p)
    BY <1>1, <2>1
  <2> QED BY <1>1, <2>1, <2>2, EmptySeq
<1>7. ASSUME NEW K, Ends(q, s, K) PROVE Ends(p, t, K)
  <2> SUFFICES ASSUME Reached(p, Len(p))
               PROVE  IF p = <<>> THEN t \cap Mods \subseteq Modifiers(K)
                      ELSE p[Len(p)].mods = Modifiers(K)
    BY DEF Ends
  <2>1. Reached(q, Len(q))
    BY <1>1, <1>2
  <2>2. q[Len(q)].mods = Modifiers(K)
    BY <1>7, <2>1 DEF Ends
  <2>3. CASE p = <<>>
    <3>1. Len(q) = 1
      BY <1>1, <2>3
    <3>2. q[1].data # E0
      BY <1>5, <3>1 DEF Completed
    <3> QED BY <2>2, <2>3, <3>1, <3>2
  <2>4. CASE p # <<>>
    <3>1. Len(p) \in 1 .. Len(p)
      BY <1>1, <2>4, EmptySeq
    <3> QED BY <1>1, <2>2, <2>4, <3>1
  <2> QED BY <2>3, <2>4
<1> QED BY <1>4, <1>6, <1>7 DEF Coherent, p

\* What a step of kbd_proc_data makes of `shift`.
LEMMA KbdShift ==
  ASSUME TypeOK, Coherent(kbq, shift), KbdEscape \/ KbdRelease \/ KbdPress
  PROVE  /\ kbq # <<>> /\ ~kbq[1].aux /\ kbq' = Tail(kbq)
         /\ "E0ESC" \in shift' <=> kbq[1].data = E0
         /\ kbq[1].data = E0 => shift' \cap Mods = shift \cap Mods
         /\ kbq[1].data # E0 => shift' \cap Mods \subseteq kbq[1].mods
<1>1. kbq \in Seq(KbdEntry) /\ kbq # <<>> /\ ~Head(kbq).aux /\ kbq' = Tail(kbq)
  BY DEF TypeOK, KbdEscape, KbdRelease, KbdPress, KbdRead, KbdReady
<1>2. 1 \in 1 .. Len(kbq) /\ Head(kbq) = kbq[1]
  BY <1>1, EmptySeq, HeadTailProperties, LenProperties
<1>3. data = kbq[1].data /\ data \in Byte /\ data \in 0 .. 255
  BY <1>1, <1>2, EntryFields DEF data, Byte
<1>4. Follows(kbq, shift, 1) /\ Completed(kbq, shift, 1)
  BY <1>1, <1>2 DEF Coherent, Reached
<1>5. /\ Escaped(kbq, shift, 1) <=> "E0ESC" \in shift
      /\ Before(kbq, shift, 1) = shift \cap Mods
  BY DEF Escaped, Before
<1> DEFINE code == Code(kbq, shift, 1)
<1> HIDE DEF data
<1>6. code \in Byte
  BY <1>3, <1>5 DEF Code, Byte
<1>7. shiftcode[code] \subseteq Mods /\ togglecode[code] \subseteq Locks
  BY <1>6, TableAssumption
<1>8. CASE KbdEscape
  BY <1>1, <1>2, <1>3, <1>8 DEF KbdEscape, Mods
<1>9. CASE KbdRelease
  <2>1. data >= 128 /\ data # E0
    BY <1>9 DEF KbdRelease
  <2>2. code = IF "E0ESC" \in shift THEN data ELSE data - 128
    BY <1>3, <1>5, <2>1 DEF Code
  <2> HIDE DEF code
  <2>3. shift' = shift \ (shiftcode[code] \union {"E0ESC"})
    BY <1>9, <2>2 DEF KbdRelease
  <2>4. (shift \cap Mods) \ shiftcode[code] \subseteq kbq[1].mods
    BY <1>3, <1>4, <1>5, <2>1 DEF Follows, code
  <2> QED BY <1>1, <1>2, <1>3, <2>1, <2>3, <2>4
<1>10. CASE KbdPress
  <2>0. data < 128
    BY <1>10 DEF KbdPress
  <2>1. data < 128 /\ data # E0
    BY <1>3, <2>0 DEF E0
  <2>2. code = IF "E0ESC" \in shift THEN data + 128 ELSE data
    BY <1>3, <1>5, <2>1 DEF Code
  <2> HIDE DEF code
  <2>3. shift' = SymDiff((shift \ {"E0ESC"}) \union shiftcode[code], togglecode[code])
    BY <1>10, <2>2 DEF KbdPress
  <2>4. (shift \cap Mods) \union shiftcode[code] \subseteq kbq[1].mods
    BY <1>3, <1>4, <1>5, <2>1 DEF Follows, code
  <2>5. shift' \cap Mods = (shift \cap Mods) \union shiftcode[code]
    BY <1>7, <2>3 DEF SymDiff, Mods, Locks
  <2>6. "E0ESC" \notin shift'
    BY <1>7, <2>3 DEF SymDiff, Mods, Locks
  <2> QED BY <1>1, <1>2, <1>3, <2>1, <2>4, <2>5, <2>6
<1> QED BY <1>8, <1>9, <1>10

\* Bytes that are added behind do not change what is in front.
LEMMA InFront ==
  ASSUME NEW q \in Seq(KbdEntry), NEW x \in Seq(KbdEntry),
         NEW s \in SUBSET Flags, Coherent(q, s)
  PROVE  /\ \A i \in 1 .. Len(q) : Reached(q \o x, i) => /\ Follows(q \o x, s, i)
                                                         /\ Completed(q \o x, s, i)
         /\ \A i \in 0 .. Len(q) : Reached(q \o x, i) <=> Reached(q, i)
         /\ "E0ESC" \in s => q \o x # <<>> /\ ~(q \o x)[1].aux
<1> DEFINE r == q \o x
<1>1. /\ r \in Seq(KbdEntry) /\ Len(r) = Len(q) + Len(x)
      /\ Len(q) \in Nat /\ Len(x) \in Nat
      /\ \A i \in 1 .. Len(q) : r[i] = q[i]
  BY ConcatProperties, LenProperties
<1> HIDE DEF r
<1>2. ASSUME NEW i \in 0 .. Len(q)
      PROVE  Reached(r, i) <=> Reached(q, i)
  BY <1>1 DEF Reached
<1>3. ASSUME NEW i \in 1 .. Len(q), Reached(r, i)
      PROVE  Follows(r, s, i) /\ Completed(r, s, i)
  <2>1. Follows(q, s, i) /\ Completed(q, s, i)
    BY <1>2, <1>3 DEF Coherent
  <2>2. \A j \in 1 .. i : r[j] = q[j]
    BY <1>1
  <2>3. (Escaped(r, s, i) <=> Escaped(q, s, i)) /\ r[i] = q[i]
    BY <2>2 DEF Escaped
  <2>4. Code(r, s, i) = Code(q, s, i)
    BY <2>3 DEF Code
  <2>5. Before(r, s, i) = Before(q, s, i)
    BY <2>2, <2>3 DEF Before
  <2>6. Follows(r, s, i)
    BY <2>1, <2>3, <2>4, <2>5 DEF Follows
  <2>7. Completed(r, s, i)
    <3> SUFFICES ASSUME r[i].data = E0
                 PROVE  ~Escaped(r, s, i) /\ i < Len(r) /\ ~r[i + 1].aux
      BY DEF Completed
    <3>1. ~Escaped(q, s, i) /\ i < Len(q) /\ ~q[i + 1].aux
      BY <2>1, <2>3 DEF Completed
    <3>2. r[i + 1] = q[i + 1]
      BY <1>1, <3>1
    <3> QED BY <1>1, <2>3, <3>1, <3>2
  <2> QED BY <2>6, <2>7
<1>4. "E0ESC" \in s => r # <<>> /\ ~r[1].aux
  <2> SUFFICES ASSUME "E0ESC" \in s PROVE r # <<>> /\ ~r[1].aux
    OBVIOUS
  <2>1. q # <<>> /\ ~q[1].aux
    BY DEF Coherent
  <2>2. Len(q) # 0
    BY <2>1, EmptySeq
  <2>3. r[1] = q[1] /\ Len(r) # 0
    BY <1>1, <2>2
  <2> QED BY <2>1, <2>3
<1> QED BY <1>2, <1>3, <1>4 DEF r

\* A mouse byte behind the keys stops the kernel there.
LEMMA AddMouse ==
  ASSUME NEW q \in Seq(KbdEntry), NEW s \in SUBSET Flags, Coherent(q, s),
         NEW e \in KbdEntry, e.aux
  PROVE  Coherent(q \o <<e>>, s) /\ \A K : Ends(q \o <<e>>, s, K)
<1> DEFINE r == q \o <<e>>
<1>1. /\ Len(r) = Len(q) + 1 /\ Len(q) \in Nat /\ r[Len(q) + 1] = e
      /\ <<e>> \in Seq(KbdEntry)
  BY ConcatProperties, LenProperties
<1>2. /\ \A i \in 1 .. Len(q) : Reached(r, i) => Follows(r, s, i) /\ Completed(r, s, i)
      /\ "E0ESC" \in s => r # <<>> /\ ~r[1].aux
  BY <1>1, InFront
<1> HIDE DEF r
<1>3. ~Reached(r, Len(q) + 1)
  BY <1>1 DEF Reached
<1>4. Coherent(r, s)
  BY <1>1, <1>2, <1>3 DEF Coherent
<1>5. \A K : Ends(r, s, K)
  BY <1>1, <1>3 DEF Ends
<1> QED BY <1>4, <1>5 DEF r

\* The byte that stands for a key in the tables.
KeyCode(k) == IF k.ext THEN k.make + 128 ELSE k.make

\* What pressing and releasing a key does to the modifiers that are down.
LEMMA ModifiersStep ==
  ASSUME NEW K \in SUBSET Keys, NEW k \in Keys
  PROVE  /\ Modifiers(K) \union shiftcode[KeyCode(k)] \subseteq Modifiers(K \union {k})
         /\ Modifiers(K) \ shiftcode[KeyCode(k)] \subseteq Modifiers(K \ {k})
BY DEF Modifiers, KeyCode

\* The last byte of a scan code is no escape.
LEMMA ScanByte ==
  ASSUME NEW m \in 1 .. 95, NEW b, b = m \/ b = m + 128
  PROVE  m \in Nat /\ m < 128 /\ b \in Byte /\ b \in Nat /\ b # E0
BY DEF Byte, E0

\* A key event behind the others.
LEMMA AddKey ==
  ASSUME NEW q \in Seq(KbdEntry), NEW s \in SUBSET Flags, Coherent(q, s),
         NEW K \in SUBSET Keys, NEW L \in SUBSET Keys, Ends(q, s, K),
         NEW k \in Keys, NEW b,
         \/ b = k.make /\ Modifiers(K) \union shiftcode[KeyCode(k)] \subseteq Modifiers(L)
         \/ b = k.make + 128 /\ Modifiers(K) \ shiftcode[KeyCode(k)] \subseteq Modifiers(L)
  PROVE  /\ Coherent(q \o ScanCode(k, b, L), s)
         /\ Ends(q \o ScanCode(k, b, L), s, L)
<1> DEFINE x == ScanCode(k, b, L)
           r == q \o x
           n == Len(q)
           mk == k.make
<1>0. k.ext \in BOOLEAN /\ mk \in 1 .. 95
  BY DeviceAssumption
<1> HIDE DEF mk
<1>1. /\ mk \in Nat /\ mk < 128
      /\ b = mk \/ b = mk + 128
      /\ b \in Byte /\ b \in Nat /\ b # E0
  <2>1. b = mk \/ b = mk + 128
    BY DEF mk
  <2> QED BY <1>0, <2>1, ScanByte
<1>2. /\ x \in Seq(KbdEntry)
      /\ Len(x) = IF k.ext THEN 2 ELSE 1
      /\ k.ext => x[1] = Entry(E0, L) /\ x[2] = Entry(b, L)
      /\ ~k.ext => x[1] = Entry(b, L)
      /\ Len(x) \in Nat /\ Len(x) >= 1
  BY <1>1, ScanCodeType DEF ScanCode
<1> HIDE DEF x
<1>3. /\ r \in Seq(KbdEntry) /\ Len(r) = n + Len(x) /\ n \in Nat
      /\ \A i \in 1 .. n : r[i] = q[i]
      /\ r[n + 1] = x[1]
      /\ k.ext => r[n + 2] = x[2]
  <2>1. /\ r \in Seq(KbdEntry) /\ Len(r) = n + Len(x)
        /\ \A i \in 1 .. n + Len(x) : r[i] = IF i <= n THEN q[i] ELSE x[i - n]
    BY <1>2, ConcatProperties
  <2>2. n \in Nat
    BY LenProperties
  <2> HIDE DEF r, n
  <2>3. \A i \in 1 .. n : r[i] = q[i]
    BY <1>2, <2>1, <2>2
  <2>4. r[n + 1] = x[1]
    BY <1>2, <2>1, <2>2
  <2>5. k.ext => r[n + 2] = x[2]
    BY <1>2, <2>1, <2>2
  <2> QED BY <2>1, <2>2, <2>3, <2>4, <2>5
<1>4. /\ \A i \in 1 .. n : Reached(r, i) => Follows(r, s, i) /\ Completed(r, s, i)
      /\ Reached(r, n) <=> Reached(q, n)
      /\ "E0ESC" \in s => r # <<>> /\ ~r[1].aux
  BY <1>2, <1>3, InFront
<1> HIDE DEF r
<1>5. /\ Entry(b, L).data = b /\ ~Entry(b, L).aux /\ Entry(b, L).mods = Modifiers(L)
      /\ Entry(E0, L).data = E0 /\ ~Entry(E0, L).aux
  BY DEF Entry
<1>6. ASSUME Reached(q, n)
      PROVE  /\ ~Escaped(r, s, n + 1)
             /\ (IF n = 0 THEN s \cap Mods ELSE r[n].mods) \subseteq Modifiers(K)
  <2>1. CASE n = 0
    <3>1. q = <<>>
      BY <2>1, EmptySeq
    <3> QED BY <1>6, <2>1, <3>1 DEF Ends, Coherent, Escaped
  <2>2. CASE n # 0
    <3>1. n \in 1 .. Len(q) /\ q # <<>> /\ r[n] = q[n]
      BY <1>3, <2>2, EmptySeq
    <3>2. Completed(q, s, n)
      BY <1>6, <3>1 DEF Coherent
    <3>3. q[n].data # E0
      BY <1>3, <3>2 DEF Completed
    <3> QED BY <1>3, <1>6, <2>2, <3>1, <3>3 DEF Ends, Escaped
  <2> QED BY <2>1, <2>2
<1>7. ASSUME Reached(r, n + 1)
      PROVE  Reached(q, n)
  BY <1>3, <1>4, <1>7 DEF Reached
<1>8. Len(r) \in 1 .. Len(r) /\ r # <<>> /\ r[Len(r)] = Entry(b, L)
  BY <1>1, <1>2, <1>3, EmptySeq
<1>9. ASSUME Reached(q, n), NEW i \in 1 .. Len(r), r[i] = Entry(b, L),
             Before(r, s, i) \subseteq Modifiers(K),
             Escaped(r, s, i) <=> k.ext
      PROVE  Follows(r, s, i) /\ Completed(r, s, i)
  <2>1. r[i].data = b /\ r[i].mods = Modifiers(L)
    BY <1>5, <1>9
  <2>2. Code(r, s, i) = KeyCode(k)
    <3>1. KeyCode(k) = IF k.ext THEN mk + 128 ELSE mk
      BY DEF KeyCode, mk
    <3>2. (IF b < 128 THEN b ELSE b - 128) = mk
      BY <1>1
    <3>3. Code(r, s, i) = IF Escaped(r, s, i) THEN mk + 128 ELSE mk
      BY <2>1, <3>2 DEF Code
    <3> QED BY <1>9, <3>1, <3>3
  <2>3. Completed(r, s, i)
    BY <1>1, <2>1 DEF Completed
  <2>4. CASE b = mk /\ Modifiers(K) \union shiftcode[KeyCode(k)] \subseteq Modifiers(L)
    <3>1. b < 128 /\ ~(b >= 128)
      BY <1>1, <2>4
    <3> QED BY <1>9, <2>1, <2>2, <2>3, <2>4, <3>1 DEF Follows
  <2>5. CASE b = mk + 128 /\ Modifiers(K) \ shiftcode[KeyCode(k)] \subseteq Modifiers(L)
    <3>1. ~(b < 128) /\ b >= 128
      BY <1>1, <2>5
    <3> QED BY <1>9, <2>1, <2>2, <2>3, <2>5, <3>1 DEF Follows
  <2> QED BY <2>4, <2>5 DEF mk
<1>10. CASE ~k.ext
  <2>1. Len(r) = n + 1 /\ r[n + 1] = Entry(b, L) /\ n + 1 \in 1 .. Len(r)
    BY <1>2, <1>3, <1>10
  <2>2. ASSUME Reached(r, n + 1) PROVE Follows(r, s, n + 1) /\ Completed(r, s, n + 1)
    <3>1. Reached(q, n) /\ ~Escaped(r, s, n + 1)
      BY <1>6, <1>7, <2>2
    <3>2. Before(r, s, n + 1) \subseteq Modifiers(K)
      BY <1>3, <1>6, <3>1 DEF Before
    <3> QED BY <1>9, <1>10, <2>1, <3>1, <3>2
  <2>3. Coherent(r, s)
    BY <1>3, <1>4, <2>1, <2>2 DEF Coherent
  <2> QED BY <1>5, <1>8, <2>3 DEF Ends, r, x
<1>11. CASE k.ext
  <2>1. /\ Len(r) = n + 2 /\ r[n + 1] = Entry(E0, L) /\ r[n + 2] = Entry(b, L)
        /\ n + 1 \in 1 .. Len(r) /\ n + 2 \in 1 .. Len(r)
    BY <1>2, <1>3, <1>11
  <2>2. ASSUME Reached(r, n + 1) PROVE Follows(r, s, n + 1) /\ Completed(r, s, n + 1)
    <3>1. ~Escaped(r, s, n + 1)
      BY <1>6, <1>7, <2>2
    <3>2. r[n + 1].data = E0 /\ ~r[n + 2].aux /\ n + 1 < Len(r) /\ n + 1 + 1 = n + 2
      BY <1>3, <1>5, <2>1
    <3> QED BY <3>1, <3>2 DEF Follows, Completed, E0
  <2>3. ASSUME Reached(r, n + 2) PROVE Follows(r, s, n + 2) /\ Completed(r, s, n + 2)
    <3>1. Reached(r, n + 1)
      BY <1>3, <2>3 DEF Reached
    <3>2. Reached(q, n)
      BY <1>7, <3>1
    <3>3. Escaped(r, s, n + 2)
      BY <1>3, <1>5, <2>1 DEF Escaped
    <3>4. Before(r, s, n + 2) \subseteq Modifiers(K)
      BY <1>3, <1>6, <3>2, <3>3 DEF Before
    <3> QED BY <1>9, <1>11, <2>1, <3>2, <3>3, <3>4
  <2>4. Coherent(r, s)
    BY <1>3, <1>4, <2>1, <2>2, <2>3 DEF Coherent
  <2> QED BY <1>5, <1>8, <2>4 DEF Ends, r, x
<1> QED BY <1>0, <1>10, <1>11

\* Every step of the kernel and of the keyboard keeps the keys coherent.
LEMMA KeysStep == TypeOK /\ KeysInv /\ [Next]_vars => KeysInv'
<1> SUFFICES ASSUME TypeOK, KeysInv, [Next]_vars PROVE KeysInv'
  OBVIOUS
<1> USE DEF ring, devices, keyboard, kernelvars
<1>0. /\ kbq \in Seq(KbdEntry) /\ shift \in SUBSET Flags /\ held \in SUBSET Keys
      /\ shift' \in SUBSET Flags /\ held' \in SUBSET Keys
  BY TypeStep DEF TypeOK
<1>1. ASSUME UNCHANGED <<shift, kbq, held, lost>> PROVE KeysInv'
  BY <1>1 DEF KeysInv
<1>2. CASE KbdEscape \/ KbdRelease \/ KbdPress
  <2>1. held' = held /\ lost' = lost
    BY <1>2 DEF KbdEscape, KbdRelease, KbdPress, KbdRead
  <2> SUFFICES ASSUME ~lost PROVE Coherent(kbq', shift') /\ Ends(kbq', shift', held)
    BY <2>1 DEF KeysInv
  <2>2. Coherent(kbq, shift) /\ Ends(kbq, shift, held)
    BY DEF KeysInv
  <2>3. /\ kbq # <<>> /\ ~kbq[1].aux /\ kbq' = Tail(kbq)
        /\ "E0ESC" \in shift' <=> kbq[1].data = E0
        /\ kbq[1].data = E0 => shift' \cap Mods = shift \cap Mods
        /\ kbq[1].data # E0 => shift' \cap Mods \subseteq kbq[1].mods
    BY <1>2, <2>2, KbdShift
  <2>4. /\ Coherent(Tail(kbq), shift')
        /\ \A K : Ends(kbq, shift, K) => Ends(Tail(kbq), shift', K)
    BY <1>0, <2>2, <2>3, TakeEntry
  <2> QED BY <2>2, <2>3, <2>4
<1>3. ASSUME NEW k \in Keys, KeyDown(k) \/ KeyUp(k) PROVE KeysInv'
  <2> SUFFICES ASSUME ~lost' PROVE Coherent(kbq', shift') /\ Ends(kbq', shift', held')
    BY DEF KeysInv
  <2>1. PICK b :
          /\ \/ b = k.make /\ held' = held \union {k}
             \/ b = k.make + 128 /\ held' = held \ {k}
          /\ Enqueue(ScanCode(k, b, held'))
    BY <1>3 DEF KeyDown, KeyUp
  <2>2. kbq' = kbq \o ScanCode(k, b, held') /\ ~lost /\ shift' = shift
    BY <1>3, <2>1 DEF Enqueue, KeyDown, KeyUp
  <2>3. Coherent(kbq, shift) /\ Ends(kbq, shift, held)
    BY <2>2 DEF KeysInv
  <2>4. \/ b = k.make /\ Modifiers(held) \union shiftcode[KeyCode(k)] \subseteq Modifiers(held')
        \/ b = k.make + 128 /\ Modifiers(held) \ shiftcode[KeyCode(k)] \subseteq Modifiers(held')
    BY <1>0, <2>1, ModifiersStep
  <2>5. /\ Coherent(kbq \o ScanCode(k, b, held'), shift)
        /\ Ends(kbq \o ScanCode(k, b, held'), shift, held')
    BY <1>0, <2>3, <2>4, AddKey
  <2> QED BY <2>2, <2>5
<1>4. CASE MouseByte
  <2> DEFINE e == [aux |-> TRUE, data |-> 0, mods |-> {}]
  <2> SUFFICES ASSUME ~lost' PROVE Coherent(kbq', shift') /\ Ends(kbq', shift', held')
    BY DEF KeysInv
  <2>1. e \in KbdEntry /\ e.aux
    BY DEF KbdEntry, Byte
  <2>2. kbq' = kbq \o <<e>> /\ ~lost /\ shift' = shift
    BY <1>4 DEF MouseByte, Enqueue
  <2> HIDE DEF e
  <2>3. Coherent(kbq, shift)
    BY <2>2 DEF KeysInv
  <2>4. Coherent(kbq \o <<e>>, shift) /\ \A K : Ends(kbq \o <<e>>, shift, K)
    BY <1>0, <2>1, <2>3, AddMouse
  <2> QED BY <2>2, <2>4
<1>5. CASE Reset
  <2>1. kbq' = <<>> /\ shift' = {}
    BY <1>5 DEF Reset
  <2>2. Coherent(<<>>, {}) /\ Ends(<<>>, {}, held')
    BY DEF Coherent, Ends
  <2> QED BY <2>1, <2>2 DEF KeysInv
<1>6. CASE UNCHANGED vars
  BY <1>1, <1>6 DEF vars
<1>7. CASE ConsInit \/ CallGetchar \/ SerialByte \/ SerialDone \/ KbdDone
           \/ TakeChar \/ TakeNone
  BY <1>1, <1>7 DEF ConsInit, SerialInit, CallGetchar, SerialByte, SerialDone, KbdDone,
                    TakeChar, TakeNone
<1>8. ASSUME NEW b \in SerialBytes, SerialArrive(b) PROVE KeysInv'
  BY <1>1, <1>8 DEF SerialArrive
<1> QED BY <1>2, <1>3, <1>4, <1>5, <1>6, <1>7, <1>8 DEF Next, Kernel, Environment

LEMMA KeysHold == Spec => []KeysInv
<1>1. Init => KeysInv
  BY DEF Init, KeysInv, Coherent, Ends
<1> QED BY <1>1, TypeCorrect, KeysStep, PTL DEF Spec

\* However late the kernel polls, once it has read every scan code no modifier
\* of a key that is up is left in `shift`, and no half-read escape: for every
\* keyboard whose keys have scan codes 1 to 95, with or without the prefix, and
\* across reboots with keys held down.
THEOREM NoneSticks == Spec => []NoStuckModifier
<1>1. KeysInv => NoStuckModifier
  BY DEF KeysInv, Coherent, Ends, Reached, NoStuckModifier
<1> QED BY <1>1, KeysHold, PTL

\* No key is translated with a modifier that was up when the key went down,
\* however the presses and releases of many keys wait in the controller.
THEOREM NoneInvented == Spec => NoPhantomModifier
<1>1. TypeOK /\ KeysInv =>
        [KbdPress /\ ~lost => shift' \cap Mods \subseteq Head(kbq).mods]_vars
  <2> SUFFICES ASSUME TypeOK, KeysInv, KbdPress, ~lost
               PROVE  shift' \cap Mods \subseteq Head(kbq).mods
    OBVIOUS
  <2>1. /\ kbq # <<>>
        /\ kbq[1].data # E0 => shift' \cap Mods \subseteq kbq[1].mods
    BY KbdShift DEF KeysInv
  <2>2. Head(kbq) = kbq[1]
    BY <2>1, HeadTailProperties DEF TypeOK
  <2>3. data < 128
    BY DEF KbdPress
  <2>4. data # E0
    BY <2>3 DEF E0
  <2> QED BY <2>1, <2>2, <2>4 DEF data
<1> QED BY <1>1, TypeCorrect, KeysHold, PTL DEF NoPhantomModifier
=============================================================================
