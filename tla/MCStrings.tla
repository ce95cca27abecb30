------------------------------ MODULE MCStrings -----------------------------
(* Blocks of every size, place and alignment in 14 bytes, overlapping in both *)
(* directions; strings up to two bytes long with bytes on both sides of the *)
(* sign of a char; numbers of up to five characters.                          *)
EXTENDS Strings, Sequences

CallOf(fn, dst, src, k, c, m) ==
  [fn |-> fn, dst |-> dst, src |-> src, n |-> k, c |-> c, mem |-> m]

\* Memory from address 0 on.
Memory(bytes) == [a \in 0 .. Len(bytes) - 1 |-> bytes[a + 1]]

Ramp == [a \in 0 .. 13 |-> a + 1]
Blocks ==
  {CallOf("memmove", dst, src, k, 0, Ramp) :
     dst \in 0 .. 13, src \in 0 .. 13, k \in 0 .. 9}
  \cup {CallOf("memset", dst, 0, k, c, Ramp) : dst \in 0 .. 13, k \in 0 .. 9, c \in {0, 511}}

\* Two strings: one at 0, the other at 4, room for both behind the first.
Texts == UNION {[1 .. k -> {1, 200}] : k \in 0 .. 2}
Padded(text, k) == text \o [i \in 1 .. k - Len(text) |-> 0]
Pairs == {Memory(Padded(p, 4) \o Padded(q, 5)) : p \in Texts, q \in Texts}
Apart(p) == Memory(Padded(p, 8) \o <<1, 200, 0>>)

Copies ==
  {CallOf(fn, 0, 4, k, 0, m) : fn \in {"strncpy", "strlcpy"}, k \in 0 .. 4, m \in Pairs}
  \cup {CallOf(fn, 0, 8, 0, 0, Apart(p)) : fn \in {"strcpy", "strcat"}, p \in Texts}
Reads ==
  {CallOf(fn, 0, 4, k, c, m) :
     fn \in {"strnlen", "strncmp", "memcmp", "memfind"}, k \in 0 .. 4, c \in {0, 200, 456},
     m \in Pairs}
  \cup {CallOf(fn, 0, 4, 0, c, m) :
          fn \in {"strlen", "strcmp", "strchr", "strfind"}, c \in {0, 1, 200}, m \in Pairs}

\* Space, tab, signs, 0, 7, x, a, F and z.
Characters == {32, 9, 43, 45, 48, 55, 120, 97, 70, 122}
Numbers ==
  {CallOf("strtol", 0, 0, 0, b, Memory(t \o <<0, 0>>)) :
     b \in {0, 10, 16}, t \in [1 .. 3 -> Characters]}
  \cup {CallOf("strtol", 0, 0, 0, b, Memory(<<32, 45>> \o t \o <<0, 0>>)) :
          b \in {0, 8, 16, 36}, t \in [1 .. 3 -> {48, 55, 120, 97}]}

Inside(x) == x.dst + x.n <= 14 /\ x.src + x.n <= 14
MCCalls == {x \in Blocks : Inside(x)} \cup Copies \cup Reads \cup Numbers
=============================================================================
