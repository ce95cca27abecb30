--------------------------- MODULE StringMeaning ----------------------------
(***************************************************************************)
(* What the routines of lib/string.c promise: what a caller owes, the      *)
(* memory after the call and the value returned, from the memory m before  *)
(* it.  No loop, no order of steps.  The promises are those of the C       *)
(* library and of the comments in string.c; where the two differ the       *)
(* source decides: strlcpy returns how many bytes it copied (the C         *)
(* library's returns the length of the whole source), and strchr and       *)
(* strfind stop at the NUL before they compare with c (the C library's     *)
(* strchr finds the NUL).                                                  *)
(***************************************************************************)
EXTENDS FiniteSetsExt, Integers

NUL == 0
Byte == 0 .. 255

Block(a, k) == a .. a + k - 1
Bytes(m, c) == {a \in DOMAIN m : m[a] = c}

\* The first address of T from a on.
From(a, T) == Min({b \in T : b >= a})

\* The bytes from src on at dst, the others as before.
Moved(m, dst, src, n) ==
  [a \in DOMAIN m |-> IF a \in Block(dst, n) THEN m[a - dst + src] ELSE m[a]]

\* The end of the string at s, within n bytes or wherever it is.
End(m, s) == From(s, Bytes(m, NUL))
EndIn(m, s, n) == From(s, Bytes(m, NUL) \cup {s + n})

\* Where the byte at p and its counterpart at q differ.
Differ(m, p, q) ==
  {a \in DOMAIN m : a - p + q \in DOMAIN m /\ m[a] # m[a - p + q]}

-----------------------------------------------------------------------------
(* Numbers: white space, a sign, a prefix, digits below the base. *)

White == {32, 9}
Plus == 43
Minus == 45
CharX == 120
Zero == 48

\* The value of a digit, 36 for what is no digit.
Digit(c) == CASE c \in 48 .. 57  -> c - 48
              [] c \in 97 .. 122 -> c - 97 + 10
              [] c \in 65 .. 90  -> c - 65 + 10
              [] OTHER           -> 36

Sign(m, s) == From(s, {a \in DOMAIN m : m[a] \notin White})
Prefix(m, s) == Sign(m, s) + (IF m[Sign(m, s)] \in {Plus, Minus} THEN 1 ELSE 0)

Hex(m, s, base) == /\ base \in {0, 16}
                   /\ m[Prefix(m, s)] = Zero /\ m[Prefix(m, s) + 1] = CharX
Octal(m, s, base) == base = 0 /\ m[Prefix(m, s)] = Zero /\ ~Hex(m, s, base)

Base(m, s, base) == CASE Hex(m, s, base)   -> 16
                      [] Octal(m, s, base) -> 8
                      [] OTHER             -> IF base = 0 THEN 10 ELSE base
Digits(m, s, base) == Prefix(m, s) + (IF Hex(m, s, base) THEN 2 ELSE 0)
NumberEnd(m, s, base) ==
  From(Digits(m, s, base), {a \in DOMAIN m : Digit(m[a]) >= Base(m, s, base)})

\* The value of the first k digits from a on.
Positional(m, a, base) ==
  LET value[k \in Nat] ==
        IF k = 0 THEN 0 ELSE value[k - 1] * base + Digit(m[a + k - 1])
  IN  value

Number(m, s, base) ==
  LET a == Digits(m, s, base)
      abs == Positional(m, a, Base(m, s, base))[NumberEnd(m, s, base) - a]
  IN  IF m[Sign(m, s)] = Minus THEN -abs ELSE abs

-----------------------------------------------------------------------------
(* A call x. *)

\* A string at a, or else n bytes, in memory that is not in `out`.
Text(m, a, out) == \E e \in Bytes(m, NUL) : a <= e /\ a .. e \subseteq DOMAIN m \ out
TextIn(m, a, n, out) == Text(m, a, out) \/ Block(a, n) \subseteq DOMAIN m \ out

\* Where strcpy and strcat copy the string to.
Target(x) == IF x.fn = "strcat" THEN End(x.mem, x.dst) ELSE x.dst

Routines ==
  {"strlen", "strnlen", "strcpy", "strcat", "strncpy", "strlcpy", "strcmp", "strncmp",
   "strchr", "strfind", "memset", "memmove", "memcmp", "memfind", "strtol"}

\* What the caller sees to: strings end, memory is as large as the call says,
\* and a string is not copied over itself.
Requires(x) ==
  /\ x.fn \in Routines
  /\ x.dst \in Nat /\ x.src \in Nat /\ x.n \in Nat /\ x.c \in Int
  /\ DOMAIN x.mem \subseteq Int /\ x.mem \in [DOMAIN x.mem -> Byte]
  /\ x.fn \in {"memmove", "memset", "strncpy", "strlcpy", "memcmp"} =>
       Block(x.dst, x.n) \subseteq DOMAIN x.mem
  /\ x.fn \in {"memmove", "memcmp", "memfind"} => Block(x.src, x.n) \subseteq DOMAIN x.mem
  /\ x.fn \in {"strlen", "strchr", "strfind", "strcmp", "strtol"} => Text(x.mem, x.src, {})
  /\ x.fn \in {"strcmp", "strcat"} => Text(x.mem, x.dst, {})
  /\ x.fn \in {"strnlen", "strncmp"} => TextIn(x.mem, x.src, x.n, {})
  /\ x.fn = "strncmp" => TextIn(x.mem, x.dst, x.n, {})
  /\ x.fn = "strncpy" => TextIn(x.mem, x.src, x.n, Block(x.dst, x.n))
  /\ x.fn = "strlcpy" => TextIn(x.mem, x.src, x.n - 1, Block(x.dst, x.n))
  /\ x.fn \in {"strcpy", "strcat"} =>
       \E e \in Bytes(x.mem, NUL) :
         LET to == x.dst .. Target(x) + (e - x.src) IN
         x.src <= e /\ to \subseteq DOMAIN x.mem /\ x.src .. e \subseteq DOMAIN x.mem \ to
  /\ x.fn = "strtol" => x.c \in {0} \cup 2 .. 36

\* The memory after the call.
After(x) ==
  LET m == x.mem IN
  CASE x.fn = "memmove" -> Moved(m, x.dst, x.src, x.n)
    [] x.fn = "memset"  -> [a \in DOMAIN m |->
                              IF a \in Block(x.dst, x.n) THEN x.c % 256 ELSE m[a]]
    [] x.fn \in {"strcpy", "strcat"} ->
         Moved(m, Target(x), x.src, End(m, x.src) - x.src + 1)
    [] x.fn = "strncpy" -> [a \in DOMAIN m |->
                              IF a \notin Block(x.dst, x.n) THEN m[a]
                              ELSE IF a - x.dst + x.src < EndIn(m, x.src, x.n)
                                     THEN m[a - x.dst + x.src] ELSE NUL]
    [] x.fn = "strlcpy" /\ x.n > 0 ->
         LET k == EndIn(m, x.src, x.n - 1) - x.src IN
         [Moved(m, x.dst, x.src, k) EXCEPT ![x.dst + k] = NUL]
    [] OTHER -> m

\* How a comparison comes out whose first difference is at a.
Compared(x, a) == x.mem[a] - x.mem[a - x.dst + x.src]

\* Where a routine that compares or searches stops.
Stops(x) ==
  LET m == x.mem IN
  CASE x.fn = "strlen"  -> Bytes(m, NUL)
    [] x.fn = "strnlen" -> Bytes(m, NUL) \cup {x.src + x.n}
    [] x.fn = "strcmp"  -> Bytes(m, NUL) \cup Differ(m, x.dst, x.src)
    [] x.fn = "strncmp" -> Bytes(m, NUL) \cup Differ(m, x.dst, x.src) \cup {x.dst + x.n}
    [] x.fn = "memcmp"  -> Differ(m, x.dst, x.src) \cup {x.dst + x.n}
    [] x.fn \in {"strchr", "strfind"} -> Bytes(m, NUL) \cup Bytes(m, x.c % 256)
    [] x.fn = "memfind" -> Bytes(m, x.c % 256) \cup {x.src + x.n}

\* The value it returns; 0 is the null pointer too.
Value(x) ==
  LET m == x.mem
      p == From(x.dst, Stops(x))
      q == From(x.src, Stops(x)) IN
  CASE x.fn \in {"strlen", "strnlen"} -> q - x.src
    [] x.fn = "strlcpy" -> IF x.n = 0 THEN 0 ELSE EndIn(m, x.src, x.n - 1) - x.src
    [] x.fn = "strcmp"  -> Compared(x, p)
    [] x.fn \in {"strncmp", "memcmp"} -> IF p < x.dst + x.n THEN Compared(x, p) ELSE 0
    [] x.fn = "strchr"  -> IF m[q] = NUL THEN 0 ELSE q
    [] x.fn \in {"strfind", "memfind"} -> q
    [] x.fn = "strtol"  -> Number(m, x.src, x.c)
    [] OTHER            -> x.dst
=============================================================================
