----------------------------- MODULE Directive -----------------------------
(***************************************************************************)
(* What a format means, stated without the loop that reads it: a format is *)
(* a sequence of items, each a text followed by one directive.  Characters *)
(* are one-letter strings; "\t" stands for the unprintable ones.           *)
(***************************************************************************)
EXTENDS Integers, Sequences

CONSTANTS
  Char,         \* the characters, NUL among them
  UInt,         \* 2^32: an unsigned int is below it
  ULongLong,    \* 2^64
  MAXERROR      \* error codes below it have a message (code 0 has none)

NUL == "NUL"
None == -1      \* no width, no precision
Star == -2      \* a width or precision taken from the arguments
NULL == <<>>    \* the null pointer; other strings end in NUL

Hexdigits == <<"0", "1", "2", "3", "4", "5", "6", "7",
               "8", "9", "a", "b", "c", "d", "e", "f">>

Power(base) ==
  LET power[k \in Nat] == IF k = 0 THEN 1 ELSE base * power[k - 1]
  IN  power

\* The digits of v without leading zeros: how many, and each by its weight.
Places(v, base) ==
  CHOOSE k \in 1 .. v + 1 : (k = 1 \/ Power(base)[k - 1] <= v) /\ v < Power(base)[k]
Numeral(v, base) ==
  LET k == Places(v, base)
  IN  [j \in 1 .. k |-> Hexdigits[((v \div Power(base)[k - j]) % base) + 1]]

Pad(c, k) == [j \in 1 .. k |-> c]

-----------------------------------------------------------------------------
(* An item as the programmer writes it                                     *)

Number(w) == CASE w = None -> <<>>
               [] w = Star -> <<"*">>
               [] OTHER -> Numeral(w, 10)

Written(d) ==
  d.before \o <<"%">> \o d.flags \o Number(d.width)
    \o (IF d.precision = None THEN <<>> ELSE <<".">> \o Number(d.precision))
    \o Pad("l", d.longs) \o (IF d.conv = NUL THEN <<>> ELSE <<d.conv>>)

\* Its arguments: the stars' and the value's.
Arguments(d) ==
  (IF d.width = Star THEN <<d.stars[1]>> ELSE <<>>)
    \o (IF d.precision = Star THEN <<d.stars[2]>> ELSE <<>>)
    \o (IF d.conv \in {"c", "e", "s", "d", "u", "p", "x"} THEN <<d.value>> ELSE <<>>)

-----------------------------------------------------------------------------
(* The text it stands for                                                  *)

HasFlag(d, c) == \E j \in 1 .. Len(d.flags) : d.flags[j] = c
Width(d) == IF d.width = Star THEN d.stars[1] ELSE d.width
Precision(d) == IF d.precision = Star THEN d.stars[2] ELSE d.precision

Fill(d, text) ==
  LET k == Width(d) - Len(text)
  IN  IF k <= 0 THEN text
      ELSE IF HasFlag(d, "-") THEN text \o Pad(" ", k)
      ELSE Pad(IF HasFlag(d, "0") THEN "0" ELSE " ", k) \o text

\* The characters of a string that a directive shows.
Shown(d) ==
  LET s == IF d.value = NULL THEN <<"(", "n", "u", "l", "l", ")", NUL>> ELSE d.value
      k == IF Precision(d) >= 0 /\ Precision(d) < Len(s) - 1
           THEN Precision(d) ELSE Len(s) - 1
  IN  [j \in 1 .. k |-> IF HasFlag(d, "#") /\ s[j] = "\t" THEN "?" ELSE s[j]]

\* An unsigned directive reads its argument in the size that the l's select.
Unsigned(v, longs) == v % (IF longs >= 2 THEN ULongLong ELSE UInt)

\* "E" and the code stand for the message of an error.
ErrorMeaning(e) ==
  LET err == IF e < 0 THEN -e ELSE e
  IN  (IF err \in 1 .. MAXERROR - 1 THEN <<"E">> ELSE <<"e", "r", "r", "o", "r", " ">>)
        \o Numeral(err, 10)

Meaning(d) ==
  d.before \o
    CASE d.conv = "c" -> <<d.value>>
      [] d.conv = "s" -> Fill(d, Shown(d))
      [] d.conv = "d" /\ d.value < 0 -> <<"-">> \o Fill(d, Numeral(-d.value, 10))
      [] d.conv = "d" /\ d.value >= 0 -> Fill(d, Numeral(d.value, 10))
      [] d.conv = "u" -> Fill(d, Numeral(Unsigned(d.value, d.longs), 10))
      [] d.conv = "x" -> Fill(d, Numeral(Unsigned(d.value, d.longs), 16))
      [] d.conv = "p" -> <<"0", "x">> \o Fill(d, Numeral(Unsigned(d.value, 0), 16))
      [] d.conv = "e" -> ErrorMeaning(d.value)
      [] d.conv = "o" -> <<"X", "X", "X">>       \* not written yet
      [] d.conv = "%" -> <<"%">>
      [] OTHER -> SubSeq(Written(d), Len(d.before) + 1, Len(Written(d)))
=============================================================================
