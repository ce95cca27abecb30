------------------------------- MODULE Printf -------------------------------
(***************************************************************************)
(* Formatted printing (lib/printfmt.c): vprintfmt reads a format, one      *)
(* action per case of its switch, and hands characters to putch, which is  *)
(* sprintputch with the buffer of vsnprintf.  `out` holds what the current *)
(* case has yet to put.                                                    *)
(***************************************************************************)
EXTENDS Directive

CONSTANTS
  Formats,      \* the formats to print, as sequences of items
  Sizes         \* the sizes of the buffer

Digits == {Hexdigits[k] : k \in 1 .. 10}
Conversions == {"c", "e", "s", "d", "u", "x", "p", "o", "%"}
Known == Digits \cup {"-", ".", "#", "l", "*"} \cup Conversions

\* What may be written, with the arguments that it needs.  A width or precision
\* of 0 is not: vprintfmt takes its digit for the flag.
WellFormed(d) ==
  /\ d.before \in Seq(Char \ {"%", NUL})
  /\ d.flags \in Seq({"-", "0", "#"})
  /\ {d.width, d.precision} \subseteq (Nat \ {0}) \cup {None, Star}
  /\ d.longs \in Nat
  /\ d.conv \in Conversions \/ d.conv \in Char \ Known
  /\ d.width = Star => d.stars[1] \in Int
  /\ d.precision = Star => d.stars[2] \in Int
  /\ d.conv \in {"d", "u", "x", "p", "e"} => d.value \in Int
  /\ d.conv = "c" => d.value \in Char
  /\ d.conv = "s" => d.value \in Seq(Char)

ASSUME PrintfAssumption ==
  /\ Known \cup {Hexdigits[k] : k \in 1 .. 16} \subseteq Char
  /\ {NUL, " ", "(", "n", ")", "r", "?", "E", "X"} \subseteq Char
  /\ Sizes \subseteq Int
  /\ {UInt, ULongLong} \subseteq Nat \ {0} /\ MAXERROR \in Int
  /\ \A f \in Formats :
       /\ f \in Seq({f[k] : k \in DOMAIN f})
       /\ \A k \in DOMAIN f : WellFormed(f[k])
       /\ \A k \in DOMAIN f : f[k].conv = NUL => k = Len(f)

VARIABLES
  items, n,     \* the format's items, and vsnprintf's n
  fmt, ap,      \* positions in the format and in the arguments
  pc,           \* "start", "text", "switch", "digits" or "done"
  padc, width, precision, lflag, altflag,
  out,
  buf, b, cnt,  \* the buffer, and sprintbuf's position and count in it
  ret,          \* what vsnprintf returns
  put           \* history: every character that was put

flags == <<padc, width, precision, lflag, altflag>>
sprintbuf == <<buf, b, cnt>>
vars == <<items, n, fmt, ap, pc, flags, out, sprintbuf, ret, put>>

Prefixes(ss) ==
  LET upto[k \in 0 .. Len(ss)] == IF k = 0 THEN <<>> ELSE upto[k - 1] \o ss[k]
  IN  upto
Flatten(ss) == Prefixes(ss)[Len(ss)]

format == Flatten([k \in DOMAIN items |-> Written(items[k])])
args == Flatten([k \in DOMAIN items |-> Arguments(items[k])])
ch == IF fmt <= Len(format) THEN format[fmt] ELSE NUL

-----------------------------------------------------------------------------
(* printnum and the strings                                                *)

PrintNum_KeepsWidth(num, base, w, c) ==
  LET print[x \in Nat] == [k \in Int |->
        (IF x >= base THEN print[x \div base][k] ELSE Pad(c, k - 1))
          \o <<Hexdigits[(x % base) + 1]>>]
  IN  print[num][w]

PrintNum(num, base, w, c) ==
  LET print[x \in Nat] == [k \in Int |->
        (IF x >= base THEN print[x \div base][k - 1] ELSE Pad(c, k - 1))
          \o <<Hexdigits[(x % base) + 1]>>]
  IN  print[num][w]

\* A negative size is a huge one.
Strnlen(s, size) ==
  LET len == Len(s) - 1 IN IF size < 0 \/ len < size THEN len ELSE size

\* %s: pad on the left unless '-' asks for the right, with what is left of
\* the width after the characters.
PutString(arg) ==
  LET s == IF arg = NULL THEN <<"(", "n", "u", "l", "l", ")", NUL>> ELSE arg
      k == Strnlen(s, precision)
      leftpad == width > 0 /\ padc # "-"
      text == [j \in 1 .. k |-> IF altflag /\ s[j] = "\t" THEN "?" ELSE s[j]]
  IN  IF leftpad THEN Pad(padc, width - k) \o text
      ELSE text \o Pad(" ", width - k)

\* %e prints the message through a call of printfmt, with "%s" or "error %d".
PutError(e) ==
  LET err == IF e < 0 THEN -e ELSE e
  IN  IF err >= MAXERROR \/ err = 0
      THEN <<"e", "r", "r", "o", "r", " ">> \o PrintNum(err, 10, -1, " ")
      ELSE <<"E">> \o PrintNum(err, 10, -1, " ")

-----------------------------------------------------------------------------
(* vprintfmt                                                               *)

Ready(p) == pc = p /\ out = <<>>

\* The caller passed a buffer, and not an empty one.
Buffer == buf # NULL /\ n >= 1

\* `if (buf == NULL || n < 1) return -E_INVAL;`
Vsnprintf ==
  /\ pc = "start"
  /\ IF Buffer THEN pc' = "text" /\ UNCHANGED ret
               ELSE pc' = "done" /\ ret' = -3
  /\ UNCHANGED <<items, n, fmt, ap, flags, out, sprintbuf, put>>

Text ==
  /\ Ready("text")
  /\ ch \notin {"%", NUL}
  /\ out' = <<ch>>
  /\ fmt' = fmt + 1
  /\ UNCHANGED <<items, n, ap, pc, flags, sprintbuf, ret, put>>

\* The end of the format, and of vsnprintf: the buffer is terminated.
End ==
  /\ Ready("text")
  /\ ch = NUL
  /\ pc' = "done"
  /\ buf' = [buf EXCEPT ![b] = NUL]
  /\ ret' = cnt
  /\ UNCHANGED <<items, n, fmt, ap, flags, out, b, cnt, put>>

Percent ==
  /\ Ready("text")
  /\ ch = "%"
  /\ pc' = "switch"
  /\ padc' = " " /\ width' = -1 /\ precision' = -1 /\ lflag' = 0 /\ altflag' = FALSE
  /\ fmt' = fmt + 1
  /\ UNCHANGED <<items, n, ap, out, sprintbuf, ret, put>>

\* `goto reswitch` after a flag.
Flag ==
  /\ Ready("switch")
  /\ \/ ch \in {"-", "0"} /\ padc' = ch /\ UNCHANGED <<width, altflag, lflag>>
     \/ ch = "." /\ width' = (IF width < 0 THEN 0 ELSE width)
                 /\ UNCHANGED <<padc, altflag, lflag>>
     \/ ch = "#" /\ altflag' = TRUE /\ UNCHANGED <<padc, width, lflag>>
     \/ ch = "l" /\ lflag' = lflag + 1 /\ UNCHANGED <<padc, width, altflag>>
  /\ fmt' = fmt + 1
  /\ UNCHANGED <<items, n, ap, pc, precision, out, sprintbuf, ret, put>>

DigitValue(c) == (CHOOSE k \in 1 .. 10 : Hexdigits[k] = c) - 1

\* The first number is the width, the next the precision.
ProcessPrecision(v) ==
  IF width < 0 THEN width' = v /\ precision' = -1
  ELSE precision' = v /\ UNCHANGED width

\* A number that does not start with 0, digit by digit.
FirstDigit ==
  /\ Ready("switch")
  /\ ch \in Digits \ {"0"}
  /\ precision' = DigitValue(ch)
  /\ pc' = "digits"
  /\ fmt' = fmt + 1
  /\ UNCHANGED <<items, n, ap, padc, width, lflag, altflag, out, sprintbuf, ret, put>>

NextDigit_NoBreak ==
  /\ Ready("digits")
  /\ IF ch \in Digits
     THEN /\ precision' = precision * 10 + DigitValue(ch)
          /\ fmt' = fmt + 1
          /\ UNCHANGED width
     ELSE UNCHANGED <<width, precision, fmt>>
  /\ UNCHANGED <<items, n, ap, pc, padc, lflag, altflag, out, sprintbuf, ret, put>>

NextDigit ==
  /\ Ready("digits")
  /\ IF ch \in Digits
     THEN /\ precision' = precision * 10 + DigitValue(ch)
          /\ fmt' = fmt + 1
          /\ UNCHANGED <<width, pc>>
     ELSE /\ ProcessPrecision(precision)
          /\ pc' = "switch"
          /\ UNCHANGED fmt
  /\ UNCHANGED <<items, n, ap, padc, lflag, altflag, out, sprintbuf, ret, put>>

Asterisk ==
  /\ Ready("switch")
  /\ ch = "*"
  /\ ProcessPrecision(args[ap])
  /\ ap' = ap + 1
  /\ fmt' = fmt + 1
  /\ UNCHANGED <<items, n, pc, padc, lflag, altflag, out, sprintbuf, ret, put>>

\* A case that puts s and ends the directive.
Convert(s) ==
  /\ out' = s
  /\ pc' = "text"
  /\ UNCHANGED <<items, n, flags, sprintbuf, ret, put>>

Getuint(v) == v % (IF lflag >= 2 THEN ULongLong ELSE UInt)

\* The conversions that take an argument.
ConvertArg ==
  /\ Ready("switch")
  /\ \/ ch = "c" /\ Convert(<<args[ap]>>)
     \/ ch = "e" /\ Convert(PutError(args[ap]))
     \/ ch = "s" /\ Convert(PutString(args[ap]))
     \/ /\ ch = "d"
        /\ Convert(IF args[ap] < 0
                   THEN <<"-">> \o PrintNum(-args[ap], 10, width, padc)
                   ELSE PrintNum(args[ap], 10, width, padc))
     \/ ch = "u" /\ Convert(PrintNum(Getuint(args[ap]), 10, width, padc))
     \/ ch = "x" /\ Convert(PrintNum(Getuint(args[ap]), 16, width, padc))
     \/ ch = "p" /\ Convert(<<"0", "x">> \o PrintNum(args[ap] % UInt, 16, width, padc))
  /\ ap' = ap + 1
  /\ fmt' = fmt + 1

\* '%' itself, and octal, which is not written yet.
ConvertPlain ==
  /\ Ready("switch")
  /\ \/ ch = "o" /\ Convert(<<"X", "X", "X">>)
     \/ ch = "%" /\ Convert(<<"%">>)
  /\ fmt' = fmt + 1
  /\ UNCHANGED ap

\* Print the '%' and go back to the character after it.
Unrecognized ==
  /\ Ready("switch")
  /\ ch \notin Known
  /\ Convert(<<"%">>)
  /\ \E k \in 1 .. fmt - 1 :
       /\ format[k] = "%" /\ \A j \in k + 1 .. fmt - 1 : format[j] # "%"
       /\ fmt' = k + 1
  /\ UNCHANGED ap

Sprintputch_FillsBuffer ==
  /\ out # <<>>
  /\ cnt' = cnt + 1
  /\ IF b < n THEN buf' = [buf EXCEPT ![b] = Head(out)] /\ b' = b + 1
     ELSE UNCHANGED <<buf, b>>
  /\ out' = Tail(out)
  /\ put' = Append(put, Head(out))
  /\ UNCHANGED <<items, n, fmt, ap, pc, flags, ret>>

Sprintputch_CountsStored ==
  /\ out # <<>>
  /\ IF b < n - 1 THEN buf' = [buf EXCEPT ![b] = Head(out)] /\ b' = b + 1 /\ cnt' = cnt + 1
     ELSE UNCHANGED sprintbuf
  /\ out' = Tail(out)
  /\ put' = Append(put, Head(out))
  /\ UNCHANGED <<items, n, fmt, ap, pc, flags, ret>>

Sprintputch ==
  /\ out # <<>>
  /\ cnt' = cnt + 1
  /\ IF b < n - 1 THEN buf' = [buf EXCEPT ![b] = Head(out)] /\ b' = b + 1
     ELSE UNCHANGED <<buf, b>>
  /\ out' = Tail(out)
  /\ put' = Append(put, Head(out))
  /\ UNCHANGED <<items, n, fmt, ap, pc, flags, ret>>

Done == pc = "done" /\ UNCHANGED vars

Init ==
  /\ items \in Formats
  /\ n \in Sizes
  /\ fmt = 1 /\ ap = 1
  /\ pc = "start"
  /\ padc = " " /\ width = -1 /\ precision = -1 /\ lflag = 0 /\ altflag = FALSE
  /\ out = <<>>
  /\ buf \in {[k \in 0 .. n |-> "?"], NULL} /\ b = 0 /\ cnt = 0
  /\ ret = 0
  /\ put = <<>>

Next ==
  \/ Vsnprintf \/ Text \/ End \/ Percent \/ Flag \/ FirstDigit \/ NextDigit
  \/ Asterisk \/ ConvertArg \/ ConvertPlain \/ Unrecognized
  \/ Sprintputch
  \/ Done

Spec == Init /\ [][Next]_vars /\ WF_vars(Next)

-----------------------------------------------------------------------------
(* Properties                                                              *)

\* Types; the store of a character and of the NUL stay inside the n bytes, and
\* the format is not read beyond its end nor an argument that was not passed.
TypeOK ==
  /\ pc \in {"start", "text", "switch", "digits", "done"}
  /\ pc \in {"text", "switch", "digits"} => b \in 0 .. n - 1
  /\ fmt \in 1 .. Len(format) + 1
  /\ ap \in 1 .. Len(args) + 1
  /\ cnt \in Nat /\ lflag \in Nat

\* Directives whose padding the comment at the head of printfmt.c promises:
\* '-' is for strings only, and a '0' beside it would replace it.
Supported(d) ==
  HasFlag(d, "-") => ~HasFlag(d, "0") /\ d.conv \notin {"d", "u", "x", "p"}

\* What is put is what the directives mean, whatever flags, widths and
\* arguments an earlier directive had; an unknown directive appears literally.
PrintsAsWritten ==
  pc = "done" /\ Buffer /\ (\A k \in DOMAIN items : Supported(items[k])) =>
    put = Flatten([k \in DOMAIN items |-> Meaning(items[k])])

\* The buffer holds as much of the output as fits before its last byte, and
\* vsnprintf returns the length of all of it and terminates what it stored.
BufferHoldsPrefix ==
  Buffer =>
    /\ cnt = Len(put)
    /\ b = IF cnt < n THEN cnt ELSE n - 1
    /\ \A k \in 0 .. b - 1 : buf[k] = put[k + 1]
    /\ \A k \in b + 1 .. n : buf[k] = "?"
    /\ pc = "done" => buf[b] = NUL /\ ret = cnt

\* Every format is printed to its end.
Returns == <>(pc = "done")
=============================================================================
