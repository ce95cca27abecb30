------------------------------ MODULE Monitor ------------------------------
(***************************************************************************)
(* The kernel monitor: monitor and runcmd (kern/monitor.c) around readline *)
(* (lib/readline.c), with the echo on the screen.  getchar hands over any  *)
(* character a console can deliver; ConsoleInput says where they come      *)
(* from.                                                                   *)
(***************************************************************************)
EXTENDS Crt, Sequences

CONSTANTS
  BUFLEN,       \* size of readline's static buf
  MAXARGS,      \* size of runcmd's argv
  Commands,     \* the names in commands[], as strings of bytes
  Typed,        \* the characters getchar can return here
  InitScreens,  \* the screen when monitor is entered
  MaxTyped      \* characters typed in a behaviour            (bound)

ASSUME MonitorAssumption ==
  /\ BUFLEN \in Nat \ {0} /\ MAXARGS \in Nat \ {0}
  /\ Commands \subseteq Seq(1 .. 255)
  /\ Typed \subseteq 1 .. 255
  /\ InitScreens \subseteq Screen
  /\ MaxTyped \in Nat

\* A line never scrolls off the screen while it is typed (1023 <= 1920).
ASSUME LineFits == BUFLEN - 1 <= CRT_SIZE - CRT_COLS

DEL == 127
WHITESPACE == {TAB, CR, LF, Space}
Prompt == <<75, 62, Space>>        \* "K> "

VARIABLES
  pc,           \* step of monitor, readline or runcmd
  buf, i,       \* readline's buffer and its length so far
  crt,          \* the screen
  out,          \* what cprintf has still to print
  p,            \* runcmd's running pointer into buf
  argv, argc,
  reply,        \* what runcmd did with the line: a command, "unknown", ...
  start,        \* history: the screen cell of the line's first character
  line,         \* history: the line as it was typed
  typed         \* characters typed so far

reading == <<buf, i, start, line>>
parsing == <<p, argv, argc, reply>>
vars == <<pc, reading, crt, out, parsing, typed>>

-----------------------------------------------------------------------------
(* Console output, one character after the other                           *)

\* cprintf hands its text to cputchar; nothing else runs until it is out.
Cprintf(text) ==
  /\ out = <<>>
  /\ out' = text

Cputchar ==
  /\ out # <<>>
  /\ out' = Tail(out)
  /\ crt' = CgaPutc(crt, Plain(Head(out)))
  /\ start' = crt'.pos
  /\ UNCHANGED <<pc, buf, i, line, parsing, typed>>

\* How far the characters already on the screen move up.
Scrolled(s, c) == IF Put(s, c).pos >= CRT_SIZE THEN CRT_COLS ELSE 0

Echo(c) ==
  /\ out = <<>>
  /\ crt' = CgaPutc(crt, Plain(c))
  /\ start' = start - Scrolled(crt, Plain(c))
  /\ UNCHANGED out

-----------------------------------------------------------------------------
(* monitor and readline                                                    *)

\* readline("K> ") up to its loop
ReadlineStart ==
  /\ pc = "prompt" /\ out = <<>>
  /\ pc' = "read"
  /\ Cprintf(Prompt)
  /\ i' = 0
  /\ UNCHANGED <<buf, line, crt, start, parsing, typed>>

Getchar(c) ==
  /\ pc = "read" /\ out = <<>>
  /\ typed < MaxTyped
  /\ c \in Typed
  /\ typed' = typed + 1

Backspace(c) ==
  /\ c \in {BS, DEL} /\ i > 0
  /\ Getchar(c)
  /\ Echo(BS)
  /\ i' = i - 1
  /\ UNCHANGED <<pc, buf, line, parsing>>

Insert_EchoFull(c) ==
  /\ ~(c \in {BS, DEL} /\ i > 0)
  /\ c >= Space /\ i <= BUFLEN - 1
  /\ Getchar(c)
  /\ Echo(c)
  /\ buf' = IF i = BUFLEN - 1 THEN buf ELSE [buf EXCEPT ![i] = c]
  /\ i' = IF i = BUFLEN - 1 THEN i ELSE i + 1
  /\ UNCHANGED <<pc, line, parsing>>

\* A DEL on an empty line is not a deletion and is stored like any other
\* character from ' ' up.
Insert(c) ==
  /\ ~(c \in {BS, DEL} /\ i > 0)
  /\ c >= Space /\ i < BUFLEN - 1
  /\ Getchar(c)
  /\ Echo(c)
  /\ buf' = [buf EXCEPT ![i] = c]
  /\ i' = i + 1
  /\ UNCHANGED <<pc, line, parsing>>

EndLine(c) ==
  /\ c \in {LF, CR}
  /\ Getchar(c)
  /\ Echo(LF)
  /\ buf' = [buf EXCEPT ![i] = 0]
  /\ line' = [k \in 1 .. i |-> buf[k - 1]]
  /\ pc' = "gobble"
  /\ p' = 0
  /\ argc' = 0
  /\ argv' = [argv EXCEPT ![0] = -1]
  /\ reply' = "none"
  /\ UNCHANGED i

\* Any other character, and a visible one that no longer fits.
Ignore(c) ==
  /\ ~(c \in {BS, DEL} /\ i > 0)
  /\ ~(c >= Space /\ i < BUFLEN - 1)
  /\ c \notin {LF, CR}
  /\ Getchar(c)
  /\ UNCHANGED <<pc, reading, crt, out, parsing>>

-----------------------------------------------------------------------------
(* runcmd.  A pointer into buf is an index; the null pointer is -1.        *)

\* while (*buf && strchr(WHITESPACE, *buf)) *buf++ = 0;
Gobble ==
  /\ pc = "gobble"
  /\ buf[p] # 0 /\ buf[p] \in WHITESPACE
  /\ buf' = [buf EXCEPT ![p] = 0]
  /\ p' = p + 1
  /\ UNCHANGED <<pc, i, crt, out, start, line, argv, argc, reply, typed>>

SaveArg_Late ==
  /\ pc = "gobble"
  /\ buf[p] # 0 /\ buf[p] \notin WHITESPACE
  /\ argc # MAXARGS
  /\ argv' = [argv EXCEPT ![argc] = p]
  /\ argc' = argc + 1
  /\ pc' = "scan"
  /\ UNCHANGED <<reading, crt, out, p, reply, typed>>

SaveArg ==
  /\ pc = "gobble"
  /\ buf[p] # 0 /\ buf[p] \notin WHITESPACE
  /\ argc # MAXARGS - 1
  /\ argv' = [argv EXCEPT ![argc] = p]
  /\ argc' = argc + 1
  /\ pc' = "scan"
  /\ UNCHANGED <<reading, crt, out, p, reply, typed>>

Say(text) == Cprintf(Append(text, LF)) /\ UNCHANGED crt

TooMany_Continue ==
  /\ pc = "gobble"
  /\ buf[p] # 0 /\ buf[p] \notin WHITESPACE
  /\ argc = MAXARGS - 1
  /\ Say(<<84>>)
  /\ reply' = "too many"
  /\ UNCHANGED <<pc, reading, p, argv, argc, typed>>

TooMany ==
  /\ pc = "gobble"
  /\ buf[p] # 0 /\ buf[p] \notin WHITESPACE
  /\ argc = MAXARGS - 1
  /\ Say(<<84>>)
  /\ reply' = "too many"
  /\ pc' = "prompt"
  /\ UNCHANGED <<reading, p, argv, argc, typed>>

Scan_StopsAtSpace ==
  /\ pc = "scan"
  /\ IF buf[p] # 0 /\ buf[p] # Space
     THEN p' = p + 1 /\ UNCHANGED pc
     ELSE pc' = "gobble" /\ p' = p + 1
  /\ UNCHANGED <<reading, crt, out, argv, argc, reply, typed>>

Scan ==
  /\ pc = "scan"
  /\ IF buf[p] # 0 /\ buf[p] \notin WHITESPACE
     THEN p' = p + 1 /\ UNCHANGED pc
     ELSE pc' = "gobble" /\ UNCHANGED p
  /\ UNCHANGED <<reading, crt, out, argv, argc, reply, typed>>

EndParse ==
  /\ pc = "gobble"
  /\ buf[p] = 0
  /\ argv' = [argv EXCEPT ![argc] = -1]
  /\ pc' = IF argc = 0 THEN "prompt" ELSE "lookup"
  /\ UNCHANGED <<reading, crt, out, p, argc, reply, typed>>

\* The NUL-terminated string at index a of buf.
CString(a) ==
  LET e == CHOOSE n \in a .. BUFLEN - 1 :
             buf[n] = 0 /\ \A k \in a .. n - 1 : buf[k] # 0
  IN  [k \in 1 .. e - a |-> buf[a + k - 1]]

\* The strcmp loop and the call: a command prints and returns 0, an unknown
\* one is named in the reply; neither ends the monitor.
Lookup ==
  /\ pc = "lookup"
  /\ LET name == CString(argv[0]) IN
     IF name \in Commands
     THEN reply' = "ran" /\ Say(<<72>>)
     ELSE reply' = "unknown" /\ Say(name)
  /\ pc' = "prompt"
  /\ UNCHANGED <<reading, p, argv, argc, typed>>

Runcmd == Gobble \/ SaveArg \/ TooMany \/ Scan \/ EndParse \/ Lookup

Type == \E c \in Typed : Backspace(c) \/ Insert(c) \/ EndLine(c) \/ Ignore(c)

Init ==
  /\ pc = "prompt"
  /\ buf = [k \in 0 .. BUFLEN - 1 |-> 0]
  /\ i = 0
  /\ crt \in InitScreens
  /\ out = <<>>
  /\ p = 0
  /\ argv = [k \in 0 .. MAXARGS - 1 |-> -1]
  /\ argc = 0
  /\ reply = "none"
  /\ start = 0
  /\ line = <<>>
  /\ typed = 0

Kernel == ReadlineStart \/ Cputchar \/ Runcmd

Next == Kernel \/ Type

\* The kernel runs; nobody has to type.
Spec == Init /\ [][Next]_vars /\ WF_vars(Kernel)

-----------------------------------------------------------------------------
(* Properties                                                              *)

\* Types; in particular every index into buf, argv and the screen that the
\* code forms is in range, with one slot of buf left for the final NUL and one
\* of argv for the final null pointer.
TypeOK ==
  /\ pc \in {"prompt", "read", "gobble", "scan", "lookup"}
  /\ buf \in [0 .. BUFLEN - 1 -> 0 .. 255]
  /\ i \in 0 .. BUFLEN - 1
  /\ crt \in Screen
  /\ out \in Seq(0 .. 255)
  /\ p \in 0 .. BUFLEN - 1
  /\ argv \in [0 .. MAXARGS - 1 -> -1 .. BUFLEN - 1]
  /\ argc \in 0 .. MAXARGS - 1
  /\ reply \in {"none", "too many", "ran", "unknown"}
  /\ start \in Int
  /\ line \in Seq(0 .. 255)
  /\ typed \in 0 .. MaxTyped

\* What the user sees is what runcmd will get: while a line is typed, the
\* cells from its first character to the cursor show exactly buf[0..i), also
\* after erasing back over the end of a row, after the screen scrolled, and
\* when the buffer is full.
EchoMatchesLine ==
  pc = "read" /\ out = <<>> =>
    /\ start >= 0
    /\ crt.pos = start + i
    /\ \A k \in 0 .. i - 1 : crt.buf[start + k].ch = buf[k]

\* The words of a line are its maximal runs without white space.
Black(s, k) == k \in DOMAIN s /\ s[k] \notin WHITESPACE
WordStarts(s) == {k \in DOMAIN s : Black(s, k) /\ ~Black(s, k - 1)}
WordEnd(s, k) == CHOOSE e \in k .. Len(s) :
                   (\A j \in k .. e : Black(s, j)) /\ ~Black(s, e + 1)
Word(s, k) == SubSeq(s, k, WordEnd(s, k))

\* Cutting the buffer in place yields the words of the line that was typed, in
\* their order, as NUL-terminated strings inside buf: no cut damages an earlier
\* argument.
ArgvSplitsLine ==
  pc = "lookup" =>
    /\ {argv[n] + 1 : n \in 0 .. argc - 1} = WordStarts(line)
    /\ \A m, n \in 0 .. argc - 1 : m < n => argv[m] < argv[n]
    /\ \A n \in 0 .. argc - 1 : CString(argv[n]) = Word(line, argv[n] + 1)
    /\ argv[argc] = -1

\* runcmd always ends in a new prompt, whatever was typed.
PromptReturns == pc # "read" ~> pc = "read" /\ out = <<>>
=============================================================================
