--------------------------- MODULE MonitorProofs ---------------------------
(***************************************************************************)
(* Theorems about Monitor, for a line buffer, an argument vector and a     *)
(* screen of any size and for whatever is typed.                           *)
(***************************************************************************)
EXTENDS Monitor, SequenceTheorems, WellFoundedInduction, TLAPS

-----------------------------------------------------------------------------
(* Numbers and the screen                                                  *)

\* A nonempty set of numbers has a least member.
LEMMA LeastNat ==
  ASSUME NEW T, T \subseteq Nat, T # {}
  PROVE  \E x \in T : \A y \in T : x <= y
<1> DEFINE R == OpToRel(<, Nat)
<1>1. IsWellFoundedOn(R, Nat)
  BY NatLessThanWellFounded
<1>2. \A x, y \in Nat : <<x, y>> \in R <=> x < y
  BY DEF OpToRel
<1> HIDE DEF R
<1>3. PICK x \in T : \A y \in T : <<y, x>> \notin R
  BY <1>1, WFMin
<1>4. \A y \in T : x <= y
  <2> TAKE y \in T
  <2>1. x \in Nat /\ y \in Nat
    OBVIOUS
  <2>2. ~(y < x)
    BY <1>2, <1>3, <2>1
  <2> QED BY <2>1, <2>2
<1> QED BY <1>4

\* A screen has at least one row.
LEMMA SizeFacts ==
  /\ CRT_SIZE \in Nat
  /\ CRT_SIZE >= CRT_COLS
  /\ CRT_COLS \in Nat \ {0}
BY CrtAssumption DEF CRT_SIZE

\* Line feed stays within a row of the screen, carriage return on it.
LEMMA LineStart ==
  ASSUME NEW n \in 0 .. CRT_SIZE - 1
  PROVE  /\ n + CRT_COLS - (n % CRT_COLS) \in 0 .. CRT_SIZE
         /\ n - (n % CRT_COLS) \in 0 .. CRT_SIZE - 1
<1> DEFINE q == n \div CRT_COLS
           r == n % CRT_COLS
           base == q * CRT_COLS
<1>1. /\ n \in Nat /\ q \in Nat
      /\ r \in 0 .. CRT_COLS - 1
      /\ n = base + r
  BY SizeFacts
<1>2. base \in Nat /\ (q + 1) * CRT_COLS = base + CRT_COLS
  BY <1>1, SizeFacts
<1>3. base + CRT_COLS <= CRT_SIZE
  <2>1. CASE q < CRT_ROWS
    <3>1. (q + 1) * CRT_COLS <= CRT_ROWS * CRT_COLS
      BY <1>1, <2>1, CrtAssumption
    <3> QED BY <1>2, <3>1 DEF CRT_SIZE
  <2>2. CASE ~(q < CRT_ROWS)
    <3>1. base >= CRT_ROWS * CRT_COLS
      BY <1>1, <2>2, CrtAssumption
    <3>2. base >= CRT_SIZE
      BY <3>1 DEF CRT_SIZE
    <3> HIDE DEF base
    <3> QED BY <1>1, <1>2, <3>2, SizeFacts
  <2> QED BY <2>1, <2>2
<1> HIDE DEF base, r
<1>4. n + CRT_COLS - r \in 0 .. CRT_SIZE /\ n - r \in 0 .. CRT_SIZE - 1
  BY <1>1, <1>2, <1>3, SizeFacts
<1> QED BY <1>4 DEF r

\* A character leaves the cursor on the screen or just behind it.
LEMMA PutType ==
  ASSUME NEW s \in Screen, NEW c \in 0 .. 255
  PROVE  /\ Put(s, Plain(c)).buf \in [0 .. CRT_SIZE - 1 -> Cell]
         /\ Put(s, Plain(c)).pos \in 0 .. CRT_SIZE
         /\ Put(s, Plain(c)).pos < CRT_SIZE => Put(s, Plain(c)) \in Screen
<1> DEFINE x == [attr |-> 7, ch |-> c]
           y == [attr |-> 7, ch |-> Space]
<1>1. /\ s.buf \in [0 .. CRT_SIZE - 1 -> Cell]
      /\ s.pos \in 0 .. CRT_SIZE - 1
      /\ x \in Cell /\ y \in Cell
  BY DEF Screen, Cell, Space
<1>2. Attributed(Plain(c)) = x /\ Plain(c).ch = c /\ [x EXCEPT !.ch = Space] = y
  BY DEF Attributed, Plain
<1> HIDE DEF x, y
<1>3. CASE c = BS /\ s.pos > 0
  <2>1. Put(s, Plain(c)) = [buf |-> [s.buf EXCEPT ![s.pos - 1] = y], pos |-> s.pos - 1]
    BY <1>2, <1>3 DEF Put, BS, LF, CR, TAB
  <2> QED BY <1>1, <1>3, <2>1, SizeFacts DEF Screen
<1>4. CASE c = LF
  <2>1. Put(s, Plain(c))
          = [buf |-> s.buf, pos |-> s.pos + CRT_COLS - (s.pos % CRT_COLS)]
    BY <1>2, <1>4 DEF Put, BS, LF, CR, TAB, Screen
  <2> DEFINE m == s.pos + CRT_COLS - (s.pos % CRT_COLS)
  <2>2. m \in 0 .. CRT_SIZE
    BY <1>1, LineStart
  <2> HIDE DEF m
  <2>3. m < CRT_SIZE => m \in 0 .. CRT_SIZE - 1
    BY <2>2, SizeFacts
  <2>4. Put(s, Plain(c)) = [buf |-> s.buf, pos |-> m]
    BY <2>1 DEF m
  <2> QED BY <1>1, <2>2, <2>3, <2>4 DEF Screen
<1>5. CASE c = CR
  <2>1. Put(s, Plain(c)) = [buf |-> s.buf, pos |-> s.pos - (s.pos % CRT_COLS)]
    BY <1>2, <1>5 DEF Put, BS, LF, CR, TAB, Screen
  <2> DEFINE m == s.pos - (s.pos % CRT_COLS)
  <2>2. m \in 0 .. CRT_SIZE - 1
    BY <1>1, LineStart
  <2> HIDE DEF m
  <2>3. m \in 0 .. CRT_SIZE
    BY <2>2, SizeFacts
  <2>4. Put(s, Plain(c)) = [buf |-> s.buf, pos |-> m]
    BY <2>1 DEF m
  <2> QED BY <1>1, <2>2, <2>3, <2>4 DEF Screen
<1>6. CASE c \notin {BS, TAB, LF, CR}
  <2>1. Put(s, Plain(c)) = [buf |-> [s.buf EXCEPT ![s.pos] = x], pos |-> s.pos + 1]
    BY <1>2, <1>6 DEF Put
  <2> QED BY <1>1, <2>1, SizeFacts DEF Screen
<1>7. CASE c = TAB \/ (c = BS /\ ~(s.pos > 0))
  <2>1. Put(s, Plain(c)) = s
    BY <1>2, <1>7 DEF Put, BS, LF, CR, TAB
  <2> QED BY <1>1, <2>1, SizeFacts
<1> QED BY <1>3, <1>4, <1>5, <1>6, <1>7

\* Scrolling brings the cursor back onto the screen.
LEMMA CgaPutcType ==
  ASSUME NEW s \in Screen, NEW c \in 0 .. 255
  PROVE  CgaPutc(s, Plain(c)) \in Screen
<1> DEFINE t == Put(s, Plain(c))
           b == [k \in 0 .. CRT_SIZE - 1 |->
                   IF k < CRT_SIZE - CRT_COLS THEN t.buf[k + CRT_COLS] ELSE Blank]
<1>1. /\ t.buf \in [0 .. CRT_SIZE - 1 -> Cell] /\ t.pos \in 0 .. CRT_SIZE
      /\ t.pos < CRT_SIZE => t \in Screen
  BY PutType
<1>2. CASE t.pos < CRT_SIZE
  BY <1>1, <1>2 DEF CgaPutc, Scroll
<1>3. CASE ~(t.pos < CRT_SIZE)
  <2>1. CgaPutc(s, Plain(c)) = [buf |-> b, pos |-> t.pos - CRT_COLS]
    BY <1>3 DEF CgaPutc, Scroll
  <2>2. Blank \in Cell
    BY DEF Blank, Cell, Space
  <2> HIDE DEF t
  <2>3. b \in [0 .. CRT_SIZE - 1 -> Cell]
    BY <1>1, <2>2, SizeFacts
  <2>4. t.pos - CRT_COLS \in 0 .. CRT_SIZE - 1
    BY <1>1, <1>3, SizeFacts
  <2> QED BY <2>1, <2>3, <2>4 DEF Screen, t
<1> QED BY <1>2, <1>3

\* A visible character appears behind what is there; when that fills the
\* screen, all of it moves up by a row.
LEMMA ShowsVisible ==
  ASSUME NEW s \in Screen, NEW c \in Space .. 255, CRT_COLS < CRT_SIZE,
         NEW d, d = Scrolled(s, Plain(c))
  PROVE  /\ d = IF s.pos = CRT_SIZE - 1 THEN CRT_COLS ELSE 0
         /\ CgaPutc(s, Plain(c)).pos = s.pos + 1 - d
         /\ CgaPutc(s, Plain(c)).buf[s.pos - d].ch = c
         /\ \A k \in d .. s.pos - 1 : CgaPutc(s, Plain(c)).buf[k - d] = s.buf[k]
<1> DEFINE x == [attr |-> 7, ch |-> c]
           b == [s.buf EXCEPT ![s.pos] = x]
           t == [buf |-> b, pos |-> s.pos + 1]
<1>1. /\ s.buf \in [0 .. CRT_SIZE - 1 -> Cell]
      /\ s.pos \in 0 .. CRT_SIZE - 1
  BY DEF Screen
<1>2. Attributed(Plain(c)) = x /\ Plain(c).ch = c
  BY DEF Attributed, Plain
<1>3. Put(s, Plain(c)) = t
  <2>1. c \notin {BS, TAB, LF, CR}
    BY DEF Space, BS, TAB, LF, CR
  <2> QED BY <1>2, <2>1 DEF Put
<1>4. /\ DOMAIN b = 0 .. CRT_SIZE - 1
      /\ b[s.pos] = x
      /\ \A k \in 0 .. s.pos - 1 : b[k] = s.buf[k]
  BY <1>1, SizeFacts
<1>5. x.ch = c
  OBVIOUS
<1>6. CASE s.pos = CRT_SIZE - 1
  <2>1. ~(t.pos < CRT_SIZE) /\ t.pos >= CRT_SIZE
    BY <1>6, SizeFacts
  <2>2. d = CRT_COLS
    BY <1>3, <2>1 DEF Scrolled
  <2>3. t.buf = b /\ t.pos = s.pos + 1
    OBVIOUS
  <2> HIDE DEF t, b, x
  <2> DEFINE u == [k \in 0 .. CRT_SIZE - 1 |->
                     IF k < CRT_SIZE - CRT_COLS THEN t.buf[k + CRT_COLS]
                     ELSE Blank]
  <2>4. CgaPutc(s, Plain(c)) = [buf |-> u, pos |-> t.pos - CRT_COLS]
    BY <1>3, <2>1 DEF CgaPutc, Scroll
  <2>5. \A k \in CRT_COLS .. s.pos : u[k - CRT_COLS] = b[k]
    BY <1>1, <1>6, <2>3, SizeFacts
  <2>6. s.pos \in CRT_COLS .. s.pos
    BY <1>1, <1>6, SizeFacts
  <2> HIDE DEF u
  <2>7. u[s.pos - CRT_COLS] = x
    BY <1>4, <2>5, <2>6
  <2>8. \A k \in CRT_COLS .. s.pos - 1 : u[k - CRT_COLS] = s.buf[k]
    <3> TAKE k \in CRT_COLS .. s.pos - 1
    <3>1. k \in CRT_COLS .. s.pos /\ k \in 0 .. s.pos - 1
      BY <1>1, SizeFacts
    <3> QED BY <1>4, <2>5, <3>1
  <2>9. /\ CgaPutc(s, Plain(c)).buf = u
        /\ CgaPutc(s, Plain(c)).pos = t.pos - CRT_COLS
    BY <2>4
  <2>10. CgaPutc(s, Plain(c)).pos = s.pos + 1 - d
    <3>1. t.pos - CRT_COLS = s.pos + 1 - d
      BY <1>1, <2>2, <2>3, SizeFacts
    <3> QED BY <2>9, <3>1
  <2>11. CgaPutc(s, Plain(c)).buf[s.pos - d].ch = c
    BY <1>5, <2>2, <2>7, <2>9
  <2>12. \A k \in d .. s.pos - 1 : CgaPutc(s, Plain(c)).buf[k - d] = s.buf[k]
    BY <2>2, <2>8, <2>9
  <2> QED BY <1>6, <2>2, <2>10, <2>11, <2>12
<1>7. CASE s.pos # CRT_SIZE - 1
  <2>1. t.pos < CRT_SIZE /\ ~(t.pos >= CRT_SIZE)
    BY <1>1, <1>7, SizeFacts
  <2>2. d = 0
    BY <1>3, <2>1 DEF Scrolled
  <2>3. CgaPutc(s, Plain(c)) = [buf |-> b, pos |-> s.pos + 1]
    BY <1>3, <2>1 DEF CgaPutc, Scroll
  <2>4. \A k \in 0 .. s.pos - 1 : k - 0 = k
    OBVIOUS
  <2> HIDE DEF x, b
  <2>5. s.pos - 0 = s.pos /\ s.pos + 1 - 0 = s.pos + 1
    BY <1>1, SizeFacts
  <2> QED BY <1>4, <1>5, <1>7, <2>2, <2>3, <2>4, <2>5
<1> QED BY <1>6, <1>7

\* Backspace takes back the last character and leaves those before it alone.
LEMMA Erases ==
  ASSUME NEW s \in Screen, s.pos > 0
  PROVE  /\ Scrolled(s, Plain(BS)) = 0
         /\ CgaPutc(s, Plain(BS)).pos = s.pos - 1
         /\ \A k \in 0 .. s.pos - 2 : CgaPutc(s, Plain(BS)).buf[k] = s.buf[k]
<1> DEFINE y == [attr |-> 7, ch |-> Space]
           b == [s.buf EXCEPT ![s.pos - 1] = y]
<1>1. /\ s.buf \in [0 .. CRT_SIZE - 1 -> Cell]
      /\ s.pos \in 0 .. CRT_SIZE - 1
  BY DEF Screen
<1>2. Plain(BS).ch = BS /\ [Attributed(Plain(BS)) EXCEPT !.ch = Space] = y
  <2>1. Plain(BS).ch = BS /\ Attributed(Plain(BS)) = [attr |-> 7, ch |-> BS]
    BY DEF Attributed, Plain
  <2> QED BY <2>1
<1>3. Put(s, Plain(BS)) = [buf |-> b, pos |-> s.pos - 1]
  BY <1>2 DEF Put, BS, LF, CR, TAB
<1>4. s.pos - 1 < CRT_SIZE /\ ~(s.pos - 1 >= CRT_SIZE)
  BY <1>1, SizeFacts
<1>5. CgaPutc(s, Plain(BS)) = [buf |-> b, pos |-> s.pos - 1]
  BY <1>3, <1>4 DEF CgaPutc, Scroll
<1>6. \A k \in 0 .. s.pos - 2 : b[k] = s.buf[k]
  BY <1>1, SizeFacts
<1> HIDE DEF b
<1>7. Scrolled(s, Plain(BS)) = 0
  BY <1>3, <1>4 DEF Scrolled
<1> QED BY <1>5, <1>6, <1>7

\* A sequence is a function on the numbers up to its length.
LEMMA SeqIs ==
  ASSUME NEW S, NEW s \in Seq(S), NEW n, Len(s) = n
  PROVE  n \in Nat /\ s \in [1 .. n -> S] /\ DOMAIN s = 1 .. n
BY LenProperties

\* Two sequences of a length are equal when they agree everywhere.
LEMMA SeqBuild ==
  ASSUME NEW S, NEW n \in Nat, NEW f \in [1 .. n -> S]
  PROVE  /\ f \in Seq(S)
         /\ \A s \in Seq(S) : Len(s) = n /\ (\A k \in 1 .. n : s[k] = f[k]) => s = f
<1>1. f \in Seq(S)
  BY SeqDef
<1>2. ASSUME NEW s \in Seq(S), Len(s) = n, \A k \in 1 .. n : s[k] = f[k]
      PROVE  s = f
  BY <1>2, SeqIs
<1> QED BY <1>1, <1>2

-----------------------------------------------------------------------------
(* The invariant                                                           *)

\* What has been typed ends no string, and the prompt comes before the line.
Line ==
  pc = "read" =>
    /\ \A k \in 0 .. i - 1 : buf[k] # 0
    /\ out # <<>> => i = 0

\* The line that runcmd was given is the buffer's, without the final NUL.
Given ==
  /\ line \in Seq(1 .. 255) /\ Len(line) = i
  /\ p <= i /\ buf[i] = 0

\* buf is the line with the white space up to p cut out.
Cut ==
  \A k \in 0 .. i - 1 :
    buf[k] = IF k < p /\ ~Black(line, k + 1) THEN 0 ELSE line[k + 1]

\* The start of the last word that may have been saved.
Seen == IF pc = "scan" THEN p + 1 ELSE p

\* argv holds the words that start up to there, in their order.
Saved ==
  /\ {argv[n] + 1 : n \in 0 .. argc - 1} = {k \in WordStarts(line) : k <= Seen}
  /\ \A m, n \in 0 .. argc - 1 : m < n => argv[m] < argv[n]

\* Between words runcmd is never in the middle of one, and it looks a command
\* up at the end of the line.
Place ==
  /\ pc = "gobble" => ~Black(line, p) \/ ~Black(line, p + 1)
  /\ pc = "lookup" => p = i /\ argc > 0 /\ argv[argc] = -1

Parsing ==
  pc \in {"gobble", "scan", "lookup"} => Given /\ Cut /\ Saved /\ Place

IInv == TypeOK /\ Line /\ EchoMatchesLine /\ Parsing


\* Numbers that the code counts with.
LEMMA BufferFacts ==
  /\ BUFLEN \in Nat \ {0} /\ MAXARGS \in Nat \ {0}
  /\ Space \in 0 .. 255 /\ LF \in 0 .. 255 /\ BS \in 0 .. 255
BY MonitorAssumption DEF Space, LF, BS

\* The initial states have the invariant.
LEMMA IInvInit == Init => IInv
<1> SUFFICES ASSUME Init PROVE IInv
  OBVIOUS
<1>1. TypeOK
  <2>1. crt \in Screen
    BY MonitorAssumption DEF Init
  <2>2. 0 \in 0 .. BUFLEN - 1 /\ 0 \in 0 .. MAXARGS - 1 /\ 0 \in 0 .. MaxTyped
    BY MonitorAssumption
  <2>3. argv \in [0 .. MAXARGS - 1 -> -1 .. BUFLEN - 1]
    BY BufferFacts DEF Init
  <2> QED BY <2>1, <2>2, <2>3 DEF Init, TypeOK
<1> QED BY <1>1 DEF Init, IInv, Line, EchoMatchesLine, Parsing

-----------------------------------------------------------------------------
(* readline                                                                *)

\* Echoing a character keeps the screen a screen.
LEMMA EchoType ==
  ASSUME TypeOK, NEW c \in 0 .. 255, Echo(c)
  PROVE  crt' \in Screen /\ start' \in Int /\ out' = <<>> /\ out = <<>>
<1>1. Scrolled(crt, Plain(c)) \in Int
  BY SizeFacts DEF Scrolled
<1>2. start' \in Int
  <2>1. start \in Int
    BY DEF TypeOK
  <2> QED BY <1>1, <2>1 DEF Echo
<1>3. crt' \in Screen
  BY CgaPutcType DEF Echo, TypeOK
<1> QED BY <1>2, <1>3 DEF Echo

\* A character that is typed is a byte other than 0.
LEMMA TypedChar ==
  ASSUME TypeOK, NEW c, Getchar(c)
  PROVE  /\ c \in 1 .. 255 /\ pc = "read" /\ out = <<>>
         /\ typed' \in 0 .. MaxTyped
<1>1. typed' \in 0 .. MaxTyped
  <2>1. typed \in 0 .. MaxTyped
    BY DEF TypeOK
  <2> QED BY <2>1, MonitorAssumption DEF Getchar
<1>2. c \in 1 .. 255
  BY MonitorAssumption DEF Getchar
<1> QED BY <1>1, <1>2 DEF Getchar

\* Nothing is printed over the line, and a new one starts empty.
LEMMA PromptStep ==
  ASSUME IInv, ReadlineStart \/ Cputchar
  PROVE  IInv'
<1>1. CASE ReadlineStart
  <2>1. Prompt \in Seq(0 .. 255) /\ Prompt # <<>>
    BY DEF Prompt, Space
  <2>2. TypeOK'
    <3>1. i' \in 0 .. BUFLEN - 1
      BY <1>1, BufferFacts DEF ReadlineStart
    <3> QED BY <1>1, <2>1, <3>1
            DEF ReadlineStart, Cprintf, TypeOK, IInv, parsing
  <2> QED BY <1>1, <2>1, <2>2
          DEF ReadlineStart, Cprintf, IInv, Line, EchoMatchesLine, Parsing
<1>2. CASE Cputchar
  <2>1. Head(out) \in 0 .. 255 /\ Tail(out) \in Seq(0 .. 255)
    <3>1. out \in Seq(0 .. 255) /\ out # <<>>
      BY <1>2 DEF Cputchar, IInv, TypeOK
    <3> QED BY <3>1, HeadTailProperties
  <2>2. crt' \in Screen
    BY <1>2, <2>1, CgaPutcType DEF Cputchar, IInv, TypeOK
  <2>3. start' = crt'.pos /\ start' \in Nat /\ start' \in Int
    BY <1>2, <2>2, SizeFacts DEF Cputchar, Screen
  <2>4. TypeOK'
    BY <1>2, <2>1, <2>2, <2>3 DEF Cputchar, parsing, IInv, TypeOK
  <2>5. Line'
    BY <1>2, <2>1 DEF Cputchar, IInv, Line
  <2>6. EchoMatchesLine'
    <3>1. SUFFICES ASSUME pc = "read" PROVE EchoMatchesLine'
      BY <1>2 DEF Cputchar, EchoMatchesLine
    <3>2. i' = 0
      BY <1>2, <3>1 DEF Cputchar, IInv, Line
    <3> QED BY <2>3, <3>2 DEF EchoMatchesLine
  <2>7. Parsing'
    BY <1>2 DEF Cputchar, parsing, IInv, Parsing, Given, Cut, Saved, Seen, Place
  <2> QED BY <2>4, <2>5, <2>6, <2>7 DEF IInv
<1> QED BY <1>1, <1>2

\* Erasing a character takes it from the screen and from the buffer.
LEMMA BackspaceStep ==
  ASSUME IInv, NEW c, Backspace(c)
  PROVE  IInv'
<1>1. /\ pc = "read" /\ out = <<>> /\ out' = <<>> /\ pc' = "read"
      /\ typed' \in 0 .. MaxTyped /\ crt' \in Screen /\ start' \in Int
  BY BufferFacts, TypedChar, EchoType DEF Backspace, IInv
<1>2. i > 0 /\ i' = i - 1 /\ i \in 0 .. BUFLEN - 1 /\ buf' = buf
  BY DEF Backspace, IInv, TypeOK
<1>3. TypeOK'
  <2>1. i' \in 0 .. BUFLEN - 1
    BY <1>2, BufferFacts
  <2> QED BY <1>1, <2>1 DEF Backspace, parsing, IInv, TypeOK
<1>4. Line'
  BY <1>1, <1>2, BufferFacts DEF IInv, Line
<1>5. EchoMatchesLine'
  <2>1. /\ start >= 0 /\ start \in Int /\ crt.pos = start + i /\ crt \in Screen
        /\ \A k \in 0 .. i - 1 : crt.buf[start + k].ch = buf[k]
    BY <1>1 DEF IInv, TypeOK, EchoMatchesLine
  <2>2. crt.pos > 0
    BY <1>2, <2>1, BufferFacts
  <2>3. /\ start' = start /\ crt'.pos = crt.pos - 1
        /\ \A k \in 0 .. crt.pos - 2 : crt'.buf[k] = crt.buf[k]
    BY <2>1, <2>2, Erases DEF Backspace, Echo
  <2>4. crt'.pos = start' + i'
    BY <1>2, <2>1, <2>3, BufferFacts
  <2>5. ASSUME NEW k \in 0 .. i - 2 PROVE crt'.buf[start + k].ch = buf[k]
    <3>1. start + k \in 0 .. crt.pos - 2 /\ k \in 0 .. i - 1
      BY <1>2, <2>1, BufferFacts
    <3> QED BY <2>1, <2>3, <3>1
  <2>6. i' - 1 = i - 2
    BY <1>2, BufferFacts
  <2> QED BY <1>2, <2>1, <2>3, <2>4, <2>5, <2>6 DEF EchoMatchesLine
<1> QED BY <1>1, <1>3, <1>4, <1>5 DEF IInv, Parsing

\* A character that is stored is the one that is shown behind the others.
LEMMA InsertStep ==
  ASSUME IInv, NEW c, Insert(c)
  PROVE  IInv'
<1>1. /\ pc = "read" /\ out = <<>> /\ out' = <<>> /\ pc' = "read"
      /\ typed' \in 0 .. MaxTyped /\ c \in Space .. 255
  <2>1. c \in 1 .. 255 /\ pc = "read" /\ out = <<>> /\ typed' \in 0 .. MaxTyped
    BY TypedChar DEF Insert, IInv
  <2>2. c \in Space .. 255
    BY <2>1 DEF Insert, Space
  <2> QED BY <2>1, <2>2 DEF Insert, Echo
<1>2. crt' \in Screen /\ start' \in Int
  <2>1. c \in 0 .. 255
    BY <1>1 DEF Space
  <2> QED BY <2>1, EchoType DEF Insert, IInv
<1>3. /\ i \in 0 .. BUFLEN - 1 /\ i < BUFLEN - 1 /\ i' = i + 1
      /\ buf \in [0 .. BUFLEN - 1 -> 0 .. 255] /\ buf' = [buf EXCEPT ![i] = c]
  BY DEF Insert, IInv, TypeOK
<1>4. /\ buf'[i] = c
      /\ \A k \in 0 .. i - 1 : buf'[k] = buf[k]
  BY <1>3, BufferFacts
<1>5. TypeOK'
  <2>1. buf' \in [0 .. BUFLEN - 1 -> 0 .. 255] /\ i' \in 0 .. BUFLEN - 1
    BY <1>1, <1>3, BufferFacts DEF Space
  <2> QED BY <1>1, <1>2, <2>1 DEF Insert, parsing, IInv, TypeOK
<1>6. Line'
  <2>1. \A k \in 0 .. i - 1 : buf[k] # 0
    BY <1>1 DEF IInv, Line
  <2>2. c # 0
    BY <1>1 DEF Space
  <2>3. \A k \in 0 .. i : k = i \/ k \in 0 .. i - 1
    BY <1>3, BufferFacts
  <2>4. i' - 1 = i
    BY <1>3, BufferFacts
  <2> QED BY <1>1, <1>4, <2>1, <2>2, <2>3, <2>4 DEF Line
<1>7. EchoMatchesLine'
  <2> DEFINE d == Scrolled(crt, Plain(c))
  <2>1. /\ start >= 0 /\ start \in Int /\ crt.pos = start + i /\ crt \in Screen
        /\ \A k \in 0 .. i - 1 : crt.buf[start + k].ch = buf[k]
    BY <1>1 DEF IInv, TypeOK, EchoMatchesLine
  <2>2. CRT_COLS < CRT_SIZE /\ i + 1 <= CRT_SIZE - CRT_COLS
    BY <1>3, LineFits, BufferFacts, SizeFacts
  <2>3. /\ crt' = CgaPutc(crt, Plain(c)) /\ start' = start - d
    BY DEF Insert, Echo
  <2>4. /\ d = IF crt.pos = CRT_SIZE - 1 THEN CRT_COLS ELSE 0
        /\ crt'.pos = crt.pos + 1 - d
        /\ crt'.buf[crt.pos - d].ch = c
        /\ \A k \in d .. crt.pos - 1 : crt'.buf[k - d] = crt.buf[k]
    BY <1>1, <2>1, <2>2, <2>3, ShowsVisible
  <2> HIDE DEF d
  <2>5. d \in Nat /\ d <= start
    BY <1>3, <2>1, <2>2, <2>4, SizeFacts, BufferFacts
  <2>6. start' >= 0 /\ crt'.pos = start' + i'
    BY <1>3, <2>1, <2>3, <2>4, <2>5, BufferFacts
  <2>7. start' + i = crt.pos - d
    BY <1>3, <2>1, <2>3, <2>5, BufferFacts
  <2>8. ASSUME NEW k \in 0 .. i PROVE crt'.buf[start' + k].ch = buf'[k]
    <3>1. CASE k = i
      BY <1>4, <2>4, <2>7, <3>1
    <3>2. CASE k # i
      <4>1. k \in 0 .. i - 1 /\ start + k \in d .. crt.pos - 1
        BY <1>3, <2>1, <2>5, <3>2, BufferFacts
      <4>2. (start + k) - d = start' + k
        BY <2>1, <2>3, <2>5
      <4> QED BY <1>4, <2>1, <2>4, <4>1, <4>2
    <3> QED BY <3>1, <3>2
  <2>9. i' - 1 = i
    BY <1>3, BufferFacts
  <2> QED BY <2>6, <2>8, <2>9 DEF EchoMatchesLine
<1> QED BY <1>1, <1>5, <1>6, <1>7 DEF IInv, Parsing

\* The line that runcmd gets is what was typed, whole and uncut.
LEMMA EndLineStep ==
  ASSUME IInv, NEW c, EndLine(c)
  PROVE  IInv'
<1>1. /\ pc = "read" /\ out = <<>> /\ out' = <<>> /\ pc' = "gobble"
      /\ typed' \in 0 .. MaxTyped /\ crt' \in Screen /\ start' \in Int
  BY BufferFacts, TypedChar, EchoType DEF EndLine, IInv
<1>2. /\ i \in 0 .. BUFLEN - 1 /\ i' = i
      /\ buf \in [0 .. BUFLEN - 1 -> 0 .. 255] /\ buf' = [buf EXCEPT ![i] = 0]
      /\ p' = 0 /\ argc' = 0 /\ line' = [k \in 1 .. i |-> buf[k - 1]]
      /\ \A k \in 0 .. i - 1 : buf[k] # 0
  BY <1>1 DEF EndLine, IInv, TypeOK, Line
<1>3. line' \in Seq(1 .. 255) /\ Len(line') = i
  <2>1. \A k \in 1 .. i : buf[k - 1] \in 1 .. 255
    BY <1>2, BufferFacts
  <2> HIDE DEF EndLine
  <2> QED BY <1>2, <2>1
<1>4. TypeOK'
  <2>1. line' \in Seq(0 .. 255)
    BY <1>3
  <2>2. argv' \in [0 .. MAXARGS - 1 -> -1 .. BUFLEN - 1]
    <3>1. argv \in [0 .. MAXARGS - 1 -> -1 .. BUFLEN - 1]
      BY DEF IInv, TypeOK
    <3> QED BY <3>1, BufferFacts DEF EndLine
  <2>3. /\ buf' \in [0 .. BUFLEN - 1 -> 0 .. 255] /\ i' \in 0 .. BUFLEN - 1
        /\ p' \in 0 .. BUFLEN - 1 /\ argc' \in 0 .. MAXARGS - 1
    BY <1>2, BufferFacts
  <2>4. /\ reply' \in {"none", "too many", "ran", "unknown"}
        /\ pc' \in {"prompt", "read", "gobble", "scan", "lookup"}
        /\ out' \in Seq(0 .. 255)
    BY <1>1, EmptySeq DEF EndLine
  <2> QED BY <1>1, <2>1, <2>2, <2>3, <2>4 DEF TypeOK
<1>5. Given'
  BY <1>2, <1>3, BufferFacts DEF Given
<1>6. Cut'
  <2>1. ASSUME NEW k \in 0 .. i - 1 PROVE buf'[k] = line'[k + 1] /\ ~(k < 0)
    BY <1>2, BufferFacts
  <2> QED BY <1>2, <2>1 DEF Cut
<1>7. Saved'
  <2>1. {k \in WordStarts(line') : k <= 0} = {}
    BY <1>3 DEF WordStarts
  <2>2. \A n \in 0 .. argc' - 1 : FALSE
    BY <1>2
  <2> QED BY <1>1, <1>2, <2>1, <2>2 DEF Saved, Seen
<1>8. Place'
  BY <1>1, <1>2, <1>3 DEF Place, Black
<1> QED BY <1>1, <1>4, <1>5, <1>6, <1>7, <1>8
        DEF IInv, Line, EchoMatchesLine, Parsing


\* A character that is not taken changes nothing.
LEMMA IgnoreStep ==
  ASSUME IInv, NEW c, Ignore(c)
  PROVE  IInv'
<1>1. pc = "read" /\ typed' \in 0 .. MaxTyped
  BY TypedChar DEF Ignore, IInv
<1>2. UNCHANGED <<pc, buf, i, start, line, crt, out, p, argv, argc, reply>>
  BY DEF Ignore, reading, parsing
<1>3. TypeOK'
  BY <1>1, <1>2 DEF IInv, TypeOK
<1> QED BY <1>1, <1>2, <1>3 DEF IInv, Line, EchoMatchesLine, Parsing

-----------------------------------------------------------------------------
(* runcmd                                                                  *)

\* The line is a function on the numbers up to i.
LEMMA LineIs ==
  ASSUME Given
  PROVE  line \in [1 .. i -> 1 .. 255]
<1>1. line \in Seq(1 .. 255)
  BY DEF Given
<1>2. Len(line) = i
  BY DEF Given
<1> QED BY <1>1, <1>2, LenProperties

\* What runcmd finds at p: the NUL at the line's end, or the line's character.
LEMMA AtP ==
  ASSUME TypeOK, Given, Cut
  PROVE  /\ p \in Nat /\ i \in Nat /\ p <= i /\ p \in 0 .. BUFLEN - 1
         /\ i \in 0 .. BUFLEN - 1 /\ DOMAIN line = 1 .. i
         /\ DOMAIN line \subseteq Nat
         /\ buf[p] = 0 <=> p = i
         /\ p < i => buf[p] = line[p + 1] /\ p + 1 \in 0 .. BUFLEN - 1
         /\ Black(line, p + 1) <=> buf[p] # 0 /\ buf[p] \notin WHITESPACE
<1>1. /\ p \in 0 .. BUFLEN - 1 /\ i \in 0 .. BUFLEN - 1 /\ p <= i /\ buf[i] = 0
      /\ line \in Seq(1 .. 255) /\ Len(line) = i
  BY DEF TypeOK, Given
<1>2. /\ p \in Nat /\ i \in Nat /\ DOMAIN line = 1 .. i
      /\ 1 .. i \subseteq Nat
  BY <1>1, BufferFacts, LenProperties
<1>3. ASSUME p < i
      PROVE  buf[p] = line[p + 1] /\ line[p + 1] # 0 /\ p + 1 \in DOMAIN line
  <2>1. p \in 0 .. i - 1 /\ ~(p < p) /\ p + 1 \in 1 .. i
    BY <1>2, <1>3
  <2>2. line[p + 1] \in 1 .. 255
    <3>1. line \in [1 .. i -> 1 .. 255]
      BY LineIs
    <3> QED BY <2>1, <3>1
  <2>3. buf[p] = IF p < p /\ ~Black(line, p + 1) THEN 0 ELSE line[p + 1]
    BY <2>1 DEF Cut
  <2>4. line[p + 1] # 0
    BY <2>2
  <2> QED BY <1>2, <2>1, <2>3, <2>4
<1>4. p < i => p + 1 \in 0 .. BUFLEN - 1
  BY <1>1, BufferFacts
<1>5. p < i \/ p = i
  BY <1>1, <1>2
<1>6. p = i => p + 1 \notin DOMAIN line
  BY <1>2
<1>7. ~(p < i /\ p = i)
  BY <1>2
<1> QED BY <1>1, <1>2, <1>3, <1>4, <1>5, <1>6, <1>7 DEF Black

\* While p is not inside a word, the words that have started have ended.
LEMMA NoStart ==
  ASSUME NEW s, NEW n \in Nat, ~Black(s, n + 1) \/ Black(s, n),
         DOMAIN s \subseteq Nat
  PROVE  {k \in WordStarts(s) : k <= n + 1} = {k \in WordStarts(s) : k <= n}
<1>1. n + 1 \notin WordStarts(s)
  <2>1. (n + 1) - 1 = n
    OBVIOUS
  <2> QED BY <2>1 DEF WordStarts
<1>2. \A k \in WordStarts(s) : k \in Nat
  BY DEF WordStarts
<1>3. \A k \in WordStarts(s) : k <= n + 1 <=> k <= n
  BY <1>1, <1>2
<1> QED BY <1>3

\* White space is cut from the buffer and from nothing else.
LEMMA GobbleStep ==
  ASSUME IInv, Gobble
  PROVE  IInv'
<1>1. /\ pc = "gobble" /\ pc' = pc /\ buf[p] # 0 /\ buf[p] \in WHITESPACE
      /\ buf' = [buf EXCEPT ![p] = 0] /\ p' = p + 1
      /\ UNCHANGED <<i, crt, out, start, line, argv, argc, reply, typed>>
  BY DEF Gobble
<1>2. TypeOK /\ Given /\ Cut /\ Saved /\ Place
  BY <1>1 DEF IInv, Parsing
<1>3. /\ p \in Nat /\ i \in Nat /\ p <= i /\ p \in 0 .. BUFLEN - 1
      /\ i \in 0 .. BUFLEN - 1 /\ DOMAIN line = 1 .. i
      /\ p # i /\ p < i /\ p + 1 \in 0 .. BUFLEN - 1
      /\ ~Black(line, p + 1) /\ DOMAIN line \subseteq Nat
  BY <1>1, <1>2, AtP
<1>4. buf \in [0 .. BUFLEN - 1 -> 0 .. 255]
  BY <1>2 DEF TypeOK
<1>5. buf' \in [0 .. BUFLEN - 1 -> 0 .. 255]
  BY <1>1, <1>3, <1>4
<1>6. TypeOK'
  BY <1>1, <1>2, <1>3, <1>5 DEF TypeOK
<1>7. Given'
  <2>1. p + 1 <= i
    BY <1>3
  <2>2. buf'[i] = buf[i]
    BY <1>1, <1>3, <1>4
  <2> QED BY <1>1, <1>2, <2>1, <2>2 DEF Given
<1>8. Cut'
  <2>1. ASSUME NEW k \in 0 .. i - 1
        PROVE  buf'[k] = IF k < p + 1 /\ ~Black(line, k + 1) THEN 0 ELSE line[k + 1]
    <3>1. k \in 0 .. BUFLEN - 1 /\ (k < p + 1 <=> k < p \/ k = p)
      BY <1>3, BufferFacts
    <3>2. buf[k] = IF k < p /\ ~Black(line, k + 1) THEN 0 ELSE line[k + 1]
      BY <1>2 DEF Cut
    <3>3. buf'[k] = IF k = p THEN 0 ELSE buf[k]
      BY <1>1, <1>4, <3>1
    <3> QED BY <1>3, <3>1, <3>2, <3>3
  <2> QED BY <1>1, <2>1 DEF Cut
<1>9. Saved'
  <2>1. {k \in WordStarts(line) : k <= p + 1} = {k \in WordStarts(line) : k <= p}
    BY <1>3, NoStart
  <2> QED BY <1>1, <1>2, <2>1 DEF Saved, Seen
<1>10. Place'
  BY <1>1, <1>3 DEF Place
<1> QED BY <1>1, <1>6, <1>7, <1>8, <1>9, <1>10
        DEF IInv, Line, EchoMatchesLine, Parsing

\* A word that starts at p becomes the next argument.
LEMMA SaveArgStep ==
  ASSUME IInv, SaveArg
  PROVE  IInv'
<1>1. /\ pc = "gobble" /\ pc' = "scan" /\ buf[p] # 0 /\ buf[p] \notin WHITESPACE
      /\ argc # MAXARGS - 1
      /\ argv' = [argv EXCEPT ![argc] = p] /\ argc' = argc + 1
      /\ UNCHANGED <<buf, i, start, line, crt, out, p, reply, typed>>
  BY DEF SaveArg, reading
<1>2. TypeOK /\ Given /\ Cut /\ Saved /\ Place
  BY <1>1 DEF IInv, Parsing
<1>3. /\ p \in Nat /\ p \in 0 .. BUFLEN - 1 /\ DOMAIN line = 1 .. i /\ i \in Nat
      /\ Black(line, p + 1)
  BY <1>1, <1>2, AtP
<1>4. /\ argv \in [0 .. MAXARGS - 1 -> -1 .. BUFLEN - 1]
      /\ argc \in 0 .. MAXARGS - 1
  BY <1>2 DEF TypeOK
<1>5. argc \in Nat /\ argc' \in 0 .. MAXARGS - 1
  BY <1>1, <1>4, BufferFacts
<1>6. /\ argv' \in [0 .. MAXARGS - 1 -> -1 .. BUFLEN - 1]
      /\ argv'[argc] = p
      /\ \A n \in 0 .. argc - 1 : argv'[n] = argv[n]
  BY <1>1, <1>3, <1>4, BufferFacts
<1>7. TypeOK'
  BY <1>1, <1>2, <1>5, <1>6 DEF TypeOK
<1>8. Saved'
  <2> DEFINE Old == {argv[n] + 1 : n \in 0 .. argc - 1}
             New == {argv'[n] + 1 : n \in 0 .. argc' - 1}
  <2>1. \A n : n \in 0 .. argc' - 1 <=> n \in 0 .. argc - 1 \/ n = argc
    BY <1>1, <1>5
  <2>2. New = Old \cup {p + 1}
    BY <1>6, <2>1
  <2>3. Old = {k \in WordStarts(line) : k <= p}
    BY <1>1, <1>2 DEF Saved, Seen
  <2>4. p + 1 \in WordStarts(line)
    <3>1. ~Black(line, p) /\ (p + 1) - 1 = p
      BY <1>1, <1>2, <1>3 DEF Place
    <3> QED BY <1>3, <3>1 DEF WordStarts, Black
  <2>5. \A k \in WordStarts(line) : k <= p + 1 <=> k <= p \/ k = p + 1
    BY <1>3 DEF WordStarts
  <2>6. New = {k \in WordStarts(line) : k <= p + 1}
    BY <2>2, <2>3, <2>4, <2>5
  <2>7. ASSUME NEW m \in 0 .. argc' - 1, NEW n \in 0 .. argc' - 1, m < n
        PROVE  argv'[m] < argv'[n]
    <3>1. m \in 0 .. argc - 1
      BY <1>1, <1>5, <2>7
    <3>2. CASE n \in 0 .. argc - 1
      BY <1>2, <1>6, <2>7, <3>1, <3>2 DEF Saved
    <3>3. CASE n = argc
      <4>1. argv[m] + 1 \in Old
        BY <3>1
      <4>2. argv[m] + 1 <= p
        BY <2>3, <4>1
      <4>3. argv[m] \in Int
        <5>1. m \in 0 .. MAXARGS - 1
          BY <1>4, <3>1, BufferFacts
        <5>2. argv[m] \in -1 .. BUFLEN - 1
          BY <1>4, <5>1
        <5> QED BY <5>2, BufferFacts
      <4>4. argv[m] < p
        BY <1>3, <4>2, <4>3
      <4> QED BY <1>6, <3>1, <3>3, <4>4
    <3> QED BY <2>1, <3>2, <3>3
  <2> HIDE DEF Old
  <2> QED BY <1>1, <2>6, <2>7 DEF Saved, Seen
<1>9. Given' /\ Cut' /\ Place'
  BY <1>1, <1>2 DEF Given, Cut, Place
<1> QED BY <1>1, <1>7, <1>8, <1>9 DEF IInv, Line, EchoMatchesLine, Parsing

\* Inside a word p moves on, and at its end the search for the next one starts.
LEMMA ScanStep ==
  ASSUME IInv, Scan
  PROVE  IInv'
<1>1. /\ pc = "scan"
      /\ UNCHANGED <<buf, i, start, line, crt, out, argv, argc, reply, typed>>
      /\ IF buf[p] # 0 /\ buf[p] \notin WHITESPACE
         THEN p' = p + 1 /\ pc' = "scan" ELSE pc' = "gobble" /\ p' = p
  BY DEF Scan, reading
<1>2. TypeOK /\ Given /\ Cut /\ Saved
  BY <1>1 DEF IInv, Parsing
<1>3. /\ p \in Nat /\ p \in 0 .. BUFLEN - 1 /\ DOMAIN line = 1 .. i /\ i \in Nat
      /\ DOMAIN line \subseteq Nat
      /\ p < i => p + 1 \in 0 .. BUFLEN - 1
      /\ p <= i /\ (buf[p] = 0 <=> p = i)
      /\ Black(line, p + 1) <=> buf[p] # 0 /\ buf[p] \notin WHITESPACE
  BY <1>2, AtP
<1>4. CASE Black(line, p + 1)
  <2>1. /\ p' = p + 1 /\ pc' = "scan" /\ p < i /\ p + 1 <= i
        /\ p + 1 \in 0 .. BUFLEN - 1
    BY <1>1, <1>3, <1>4
  <2>2. TypeOK'
    BY <1>1, <1>2, <2>1 DEF TypeOK
  <2>3. Given'
    BY <1>1, <1>2, <2>1 DEF Given
  <2>4. Cut'
    <3>1. ASSUME NEW k \in 0 .. i - 1
          PROVE  buf[k] = IF k < p + 1 /\ ~Black(line, k + 1) THEN 0 ELSE line[k + 1]
      <4>1. k < p + 1 <=> k < p \/ k = p
        BY <1>3
      <4> QED BY <1>2, <1>4, <4>1 DEF Cut
    <3> QED BY <1>1, <2>1, <3>1 DEF Cut
  <2>5. Saved'
    <3>1. {k \in WordStarts(line) : k <= (p + 1) + 1}
            = {k \in WordStarts(line) : k <= p + 1}
      BY <1>3, <1>4, NoStart
    <3> QED BY <1>1, <1>2, <2>1, <3>1 DEF Saved, Seen
  <2>6. Place'
    BY <2>1 DEF Place
  <2> QED BY <2>1, <2>2, <2>3, <2>4, <2>5, <2>6
          DEF IInv, Line, EchoMatchesLine, Parsing
<1>5. CASE ~Black(line, p + 1)
  <2>1. p' = p /\ pc' = "gobble"
    BY <1>1, <1>3, <1>5
  <2>2. TypeOK'
    BY <1>1, <1>2, <2>1 DEF TypeOK
  <2>3. Given' /\ Cut' /\ Place'
    BY <1>1, <1>2, <1>5, <2>1 DEF Given, Cut, Place
  <2>4. Saved'
    <3>1. {k \in WordStarts(line) : k <= p + 1} = {k \in WordStarts(line) : k <= p}
      BY <1>3, <1>5, NoStart
    <3> QED BY <1>1, <1>2, <2>1, <3>1 DEF Saved, Seen
  <2> QED BY <2>1, <2>2, <2>3, <2>4 DEF IInv, Line, EchoMatchesLine, Parsing
<1> QED BY <1>4, <1>5

\* The parse ends at the line's NUL, with the null pointer behind the last
\* argument.
LEMMA EndParseStep ==
  ASSUME IInv, EndParse
  PROVE  IInv'
<1>1. /\ pc = "gobble" /\ buf[p] = 0
      /\ argv' = [argv EXCEPT ![argc] = -1]
      /\ pc' = IF argc = 0 THEN "prompt" ELSE "lookup"
      /\ UNCHANGED <<buf, i, start, line, crt, out, p, argc, reply, typed>>
  BY DEF EndParse, reading
<1>2. TypeOK /\ Given /\ Cut /\ Saved
  BY <1>1 DEF IInv, Parsing
<1>3. p = i
  BY <1>1, <1>2, AtP
<1>4. /\ argv \in [0 .. MAXARGS - 1 -> -1 .. BUFLEN - 1]
      /\ argc \in 0 .. MAXARGS - 1
  BY <1>2 DEF TypeOK
<1>5. /\ argv' \in [0 .. MAXARGS - 1 -> -1 .. BUFLEN - 1]
      /\ argv'[argc] = -1
      /\ \A n \in 0 .. argc - 1 : argv'[n] = argv[n]
  BY <1>1, <1>4, BufferFacts
<1>6. pc' \in {"prompt", "read", "gobble", "scan", "lookup"}
  BY <1>1
<1>7. TypeOK'
  BY <1>1, <1>2, <1>5, <1>6 DEF TypeOK
<1>8. CASE argc = 0
  <2>1. pc' = "prompt"
    BY <1>1, <1>8
  <2> QED BY <1>7, <2>1 DEF IInv, Line, EchoMatchesLine, Parsing
<1>9. CASE argc # 0
  <2>1. pc' = "lookup" /\ argc > 0
    BY <1>1, <1>4, <1>9, BufferFacts
  <2>2. Saved'
    <3>1. {argv'[n] + 1 : n \in 0 .. argc - 1} = {argv[n] + 1 : n \in 0 .. argc - 1}
      BY <1>5
    <3>2. \A m, n \in 0 .. argc - 1 : m < n => argv'[m] < argv'[n]
      BY <1>2, <1>5 DEF Saved
    <3> QED BY <1>1, <1>2, <2>1, <3>1, <3>2 DEF Saved, Seen
  <2>3. Given' /\ Cut' /\ Place'
    BY <1>1, <1>2, <1>3, <1>5, <2>1 DEF Given, Cut, Place
  <2> QED BY <1>7, <2>1, <2>2, <2>3 DEF IInv, Line, EchoMatchesLine, Parsing
<1> QED BY <1>8, <1>9


-----------------------------------------------------------------------------
(* The arguments                                                           *)

\* A word ends at the one place where white space or the line's end follows.
LEMMA WordEnds ==
  ASSUME NEW s \in Seq(1 .. 255), NEW a \in 1 .. Len(s), Black(s, a)
  PROVE  /\ WordEnd(s, a) \in a .. Len(s)
         /\ \A j \in a .. WordEnd(s, a) : Black(s, j)
         /\ ~Black(s, WordEnd(s, a) + 1)
<1> DEFINE T == {e \in Nat : e >= a /\ ~Black(s, e + 1)}
<1>1. Len(s) \in Nat /\ DOMAIN s = 1 .. Len(s) /\ a \in Nat
  BY LenProperties
<1>2. Len(s) \in T
  BY <1>1 DEF Black
<1>3. PICK e \in T : \A y \in T : e <= y
  BY <1>2, LeastNat
<1>4. e \in a .. Len(s) /\ ~Black(s, e + 1)
  BY <1>1, <1>2, <1>3
<1>5. ASSUME NEW j \in a .. e PROVE Black(s, j)
  <2>1. CASE j = a
    BY <2>1
  <2>2. CASE j # a
    <3>1. j - 1 \in Nat /\ j - 1 >= a /\ (j - 1) + 1 = j /\ ~(e <= j - 1)
      BY <1>1, <1>4, <2>2
    <3>2. j - 1 \notin T
      BY <1>3, <3>1
    <3> QED BY <3>1, <3>2
  <2> QED BY <2>1, <2>2
<1> HIDE DEF T
<1> QED BY <1>4, <1>5 DEF WordEnd

\* The string at a is what comes before the first NUL from there on.
LEMMA CStringIs ==
  ASSUME NEW a \in 0 .. BUFLEN - 1, NEW e \in a .. BUFLEN - 1,
         buf[e] = 0, \A k \in a .. e - 1 : buf[k] # 0
  PROVE  CString(a) = [k \in 1 .. e - a |-> buf[a + k - 1]]
<1> DEFINE End(n) == buf[n] = 0 /\ \A k \in a .. n - 1 : buf[k] # 0
<1>1. End(e)
  OBVIOUS
<1>2. ASSUME NEW n \in a .. BUFLEN - 1, End(n) PROVE n = e
  <2>1. n \in Int /\ e \in Int /\ a \in Int
    BY BufferFacts
  <2>2. CASE n < e
    <3>1. n \in a .. e - 1
      BY <2>1, <2>2
    <3> QED BY <1>2, <3>1
  <2>3. CASE e < n
    <3>1. e \in a .. n - 1
      BY <2>1, <2>3
    <3> QED BY <1>2, <3>1
  <2> QED BY <2>1, <2>2, <2>3
<1>3. (CHOOSE n \in a .. BUFLEN - 1 : End(n)) = e
  <2> HIDE DEF End
  <2> QED BY <1>1, <1>2
<1> QED BY <1>3 DEF CString

\* Before the command is looked up, every argument is a word of the line.
LEMMA ArgumentIsWord ==
  ASSUME TypeOK, Given, Cut, Saved, Place, pc = "lookup",
         NEW n \in 0 .. argc - 1
  PROVE  /\ CString(argv[n]) = Word(line, argv[n] + 1)
         /\ CString(argv[n]) \in Seq(0 .. 255)
<1> DEFINE a == argv[n]
           e == WordEnd(line, a + 1)
<1>1. /\ p = i /\ i \in Nat /\ i \in 0 .. BUFLEN - 1 /\ DOMAIN line = 1 .. i
      /\ line \in Seq(1 .. 255) /\ Len(line) = i /\ buf[i] = 0
      /\ line \in [1 .. i -> 1 .. 255]
  <2>1. line \in Seq(1 .. 255) /\ Len(line) = i /\ buf[i] = 0
    BY DEF Given
  <2>2. line \in [1 .. i -> 1 .. 255]
    BY LineIs
  <2> QED BY <2>1, <2>2, AtP DEF Place
<1>2. a + 1 \in WordStarts(line)
  BY DEF Saved
<1>3. a \in Int
  <2>1. argc \in 0 .. MAXARGS - 1 /\ argv \in [0 .. MAXARGS - 1 -> -1 .. BUFLEN - 1]
    BY DEF TypeOK
  <2>3. n \in 0 .. MAXARGS - 1
    BY <2>1, BufferFacts
  <2>2. argv[n] \in -1 .. BUFLEN - 1
    BY <2>1, <2>3
  <2> QED BY <2>2, BufferFacts
<1> HIDE DEF a
<1>4. Black(line, a + 1) /\ a + 1 \in 1 .. i
  BY <1>1, <1>2 DEF WordStarts
<1>5. /\ e \in a + 1 .. i
      /\ \A j \in a + 1 .. e : Black(line, j)
      /\ ~Black(line, e + 1)
  BY <1>1, <1>4, WordEnds
<1> HIDE DEF e
<1>6. /\ a \in 0 .. BUFLEN - 1 /\ e \in a .. BUFLEN - 1 /\ e \in Nat
      /\ e = i \/ e \in 0 .. i - 1
  BY <1>1, <1>3, <1>4, <1>5, BufferFacts
<1>7. ASSUME NEW k \in a .. e - 1
      PROVE  buf[k] = line[k + 1] /\ line[k + 1] \in 1 .. 255
  <2>1. k \in 0 .. i - 1 /\ k + 1 \in a + 1 .. e /\ k + 1 \in 1 .. i
    BY <1>1, <1>3, <1>4, <1>5
  <2>2. buf[k] = IF k < p /\ ~Black(line, k + 1) THEN 0 ELSE line[k + 1]
    BY <2>1 DEF Cut
  <2>3. Black(line, k + 1)
    BY <1>5, <2>1
  <2>4. line[k + 1] \in 1 .. 255
    BY <1>1, <2>1
  <2> QED BY <2>2, <2>3, <2>4
<1>8. buf[e] = 0
  <2>1. CASE e \in 0 .. i - 1
    <3>1. e < p
      BY <1>1, <2>1
    <3>2. buf[e] = IF e < p /\ ~Black(line, e + 1) THEN 0 ELSE line[e + 1]
      BY <2>1 DEF Cut
    <3> QED BY <1>5, <3>1, <3>2
  <2> QED BY <1>1, <1>6, <2>1
<1> DEFINE m == e - a
           f == [k \in 1 .. m |-> buf[a + k - 1]]
<1>9. m \in Nat /\ m = e - (a + 1) + 1
  BY <1>3, <1>5, <1>6
<1>10. CString(a) = f
  <2>1. \A k \in a .. e - 1 : buf[k] # 0
    <3> TAKE k \in a .. e - 1
    <3>1. buf[k] = line[k + 1] /\ line[k + 1] \in 1 .. 255
      BY <1>7
    <3> QED BY <3>1
  <2> QED BY <1>6, <1>8, <2>1, CStringIs
<1>11. ASSUME NEW k \in 1 .. m
       PROVE  f[k] = line[(a + 1) + k - 1] /\ f[k] \in 1 .. 255
  <2>1. a + k - 1 \in a .. e - 1 /\ (a + k - 1) + 1 = (a + 1) + k - 1
    BY <1>3, <1>6
  <2>2. buf[a + k - 1] = line[(a + k - 1) + 1] /\ line[(a + k - 1) + 1] \in 1 .. 255
    BY <1>7, <2>1
  <2> QED BY <2>1, <2>2
<1>12. f \in [1 .. m -> 1 .. 255]
  BY <1>11
<1> DEFINE w == SubSeq(line, a + 1, e)
<1>13. /\ w \in Seq(1 .. 255) /\ Len(w) = m
       /\ \A k \in 1 .. m : w[k] = line[(a + 1) + k - 1]
  <2>1. a + 1 \in Int /\ e \in Int /\ a + 1 <= e
    BY <1>3, <1>5, <1>6
  <2>2. \A j \in a + 1 .. e : line[j] \in 1 .. 255
    BY <1>1, <1>4, <1>5
  <2>3. /\ w \in Seq(1 .. 255) /\ Len(w) = e - (a + 1) + 1
        /\ \A k \in 1 .. e - (a + 1) + 1 : w[k] = line[(a + 1) + k - 1]
    BY <2>1, <2>2, SubSeqProperties
  <2> QED BY <1>9, <2>3
<1> HIDE DEF m, f, w
<1>14. w = f /\ f \in Seq(1 .. 255)
  BY <1>9, <1>11, <1>12, <1>13, SeqBuild
<1>15. CString(a) = Word(line, a + 1)
  BY <1>10, <1>14 DEF Word, e, w
<1>16. CString(a) \in Seq(0 .. 255)
  <2>1. 1 .. 255 \subseteq 0 .. 255
    OBVIOUS
  <2> QED BY <1>10, <1>14, <2>1, SeqMonotonic
<1> QED BY <1>15, <1>16 DEF a

\* When the command is looked up, the arguments are the words of the line.
LEMMA ArgumentsAreWords == IInv => ArgvSplitsLine
<1> SUFFICES ASSUME IInv, pc = "lookup" PROVE ArgvSplitsLine
  BY DEF ArgvSplitsLine
<1>1. TypeOK /\ Given /\ Cut /\ Saved /\ Place
  BY DEF IInv, Parsing
<1>2. p = i /\ argv[argc] = -1 /\ DOMAIN line = 1 .. i /\ i \in Nat
  BY <1>1, AtP DEF Place
<1>3. {k \in WordStarts(line) : k <= p} = WordStarts(line)
  <2>1. \A k \in WordStarts(line) : k <= i
    BY <1>2 DEF WordStarts
  <2> QED BY <1>2, <2>1
<1>4. {argv[n] + 1 : n \in 0 .. argc - 1} = WordStarts(line)
  BY <1>1, <1>3 DEF Saved, Seen
<1>5. \A n \in 0 .. argc - 1 : CString(argv[n]) = Word(line, argv[n] + 1)
  BY <1>1, ArgumentIsWord
<1> QED BY <1>1, <1>2, <1>4, <1>5 DEF ArgvSplitsLine, Saved

\* What runcmd prints is text, and it goes back to the prompt.
LEMMA ReplyStep ==
  ASSUME IInv, TooMany \/ Lookup
  PROVE  IInv'
<1>1. ASSUME NEW text \in Seq(0 .. 255), Say(text)
      PROVE  out' \in Seq(0 .. 255) /\ UNCHANGED crt
  BY <1>1, BufferFacts, AppendProperties DEF Say, Cprintf
<1>2. /\ pc' = "prompt" /\ reply' \in {"none", "too many", "ran", "unknown"}
      /\ UNCHANGED <<buf, i, start, line, p, argv, argc, typed>>
  BY DEF TooMany, Lookup, reading
<1>3. <<84>> \in Seq(0 .. 255) /\ <<72>> \in Seq(0 .. 255)
  OBVIOUS
<1>4. out' \in Seq(0 .. 255) /\ UNCHANGED crt
  <2>1. CASE TooMany
    BY <1>1, <1>3, <2>1 DEF TooMany
  <2>2. CASE Lookup
    <3>1. TypeOK /\ Given /\ Cut /\ Saved /\ Place /\ pc = "lookup"
      BY <2>2 DEF Lookup, IInv, Parsing
    <3>2. 0 \in 0 .. argc - 1
      <4>1. argc > 0 /\ argc \in 0 .. MAXARGS - 1
        BY <3>1 DEF Place, TypeOK
      <4> QED BY <4>1, BufferFacts
    <3>3. CString(argv[0]) \in Seq(0 .. 255)
      BY <3>1, <3>2, ArgumentIsWord
    <3> QED BY <1>1, <1>3, <2>2, <3>3 DEF Lookup
  <2> QED BY <2>1, <2>2
<1>5. TypeOK'
  BY <1>2, <1>4 DEF IInv, TypeOK
<1> QED BY <1>2, <1>5 DEF IInv, Line, EchoMatchesLine, Parsing

-----------------------------------------------------------------------------
(* The theorems                                                            *)

\* Every step keeps the invariant.
LEMMA IInvStep == IInv /\ [Next]_vars => IInv'
<1> SUFFICES ASSUME IInv, [Next]_vars PROVE IInv'
  OBVIOUS
<1>1. CASE ReadlineStart \/ Cputchar
  BY <1>1, PromptStep
<1>2. CASE Gobble
  BY <1>2, GobbleStep
<1>3. CASE SaveArg
  BY <1>3, SaveArgStep
<1>4. CASE TooMany \/ Lookup
  BY <1>4, ReplyStep
<1>5. CASE Scan
  BY <1>5, ScanStep
<1>6. CASE EndParse
  BY <1>6, EndParseStep
<1>7. CASE Type
  BY <1>7, BackspaceStep, InsertStep, EndLineStep, IgnoreStep DEF Type
<1>8. CASE UNCHANGED vars
  <2>1. UNCHANGED <<pc, buf, i, start, line, crt, out, p, argv, argc, reply, typed>>
    BY <1>8 DEF vars, reading, parsing
  <2>2. TypeOK'
    BY <2>1 DEF IInv, TypeOK
  <2>3. Line' /\ EchoMatchesLine'
    BY <2>1 DEF IInv, Line, EchoMatchesLine
  <2>4. Parsing'
    BY <2>1 DEF IInv, Parsing, Given, Cut, Saved, Seen, Place
  <2> QED BY <2>2, <2>3, <2>4 DEF IInv
<1> QED BY <1>1, <1>2, <1>3, <1>4, <1>5, <1>6, <1>7, <1>8
        DEF Next, Kernel, Runcmd

\* The invariant holds in every reachable state.
LEMMA Invariant == Spec => []IInv
BY IInvInit, IInvStep, PTL DEF Spec

\* Type correctness: readline keeps a place for the final NUL however long the
\* line, runcmd one for the null pointer however many its words, and no pointer
\* into the buffer leaves it.
THEOREM TypeCorrect == Spec => []TypeOK
<1>1. IInv => TypeOK
  BY DEF IInv
<1> QED BY <1>1, Invariant, PTL

\* The echo: while a line is typed, the screen shows exactly what readline has
\* stored, over row ends, scrolling and erasing.
THEOREM ShowsLine == Spec => []EchoMatchesLine
<1>1. IInv => EchoMatchesLine
  BY DEF IInv
<1> QED BY <1>1, Invariant, PTL

\* The arguments: cutting the buffer in place gives runcmd the words of the
\* line, in their order, each as a string of its own.
THEOREM SplitsLine == Spec => []ArgvSplitsLine
BY Invariant, ArgumentsAreWords, PTL
=============================================================================
