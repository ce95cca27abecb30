------------------------------ MODULE Strings -------------------------------
(***************************************************************************)
(* lib/string.c, one action per turn of a loop or of a rep instruction.    *)
(* The registers keep the names of the parameters: d is dst, v1 or p, and  *)
(* s is src, v2 or q.                                                      *)
(***************************************************************************)
EXTENDS StringMeaning

CONSTANT Calls  \* [fn, dst, src, n, c, mem]: what is called, and the memory before

ASSUME StringsAssumption == \A x \in Calls : Requires(x)

VARIABLES
  call,
  mem,
  pc,
  s, d, n,      \* pointers and count, as the loop changes them
  w, step,      \* bytes that one turn of rep moves, and the way the pointers go
  neg, base, val, \* strtol's locals
  ret

regs == <<s, d, n>>
reps == <<w, step>>
number == <<neg, base, val>>
vars == <<call, mem, pc, regs, reps, number, ret>>

Return(value) == pc' = "done" /\ ret' = value

Init ==
  /\ call \in Calls
  /\ mem = call.mem /\ pc = call.fn
  /\ s = call.src /\ d = call.dst /\ n = call.n
  /\ w = 1 /\ step = 1 /\ neg = FALSE /\ base = call.c /\ val = 0 /\ ret = 0

-----------------------------------------------------------------------------
(* Blocks of memory. *)

Aligned(a) == a % 4 = 0

Memmove_FromBehind ==
  /\ pc = "memmove" /\ pc' = "movs"
  /\ LET back == s < d /\ s + n > d
         size == IF Aligned(s) /\ Aligned(d) /\ Aligned(n) THEN 4 ELSE 1 IN
     /\ w' = size /\ n' = n \div size
     /\ step' = IF back THEN -size ELSE size
     /\ s' = IF back THEN s + n - 1 ELSE s
     /\ d' = IF back THEN d + n - 1 ELSE d
  /\ UNCHANGED <<call, mem, number, ret>>

\* From the end if the source's end would be overwritten first.
Memmove ==
  /\ pc = "memmove" /\ pc' = "movs"
  /\ LET back == s < d /\ s + n > d
         size == IF Aligned(s) /\ Aligned(d) /\ Aligned(n) THEN 4 ELSE 1 IN
     /\ w' = size /\ n' = n \div size
     /\ step' = IF back THEN -size ELSE size
     /\ s' = IF back THEN s + n - size ELSE s
     /\ d' = IF back THEN d + n - size ELSE d
  /\ UNCHANGED <<call, mem, number, ret>>

Movs ==
  /\ pc = "movs" /\ n > 0
  /\ mem' = [a \in DOMAIN mem |-> IF a \in d .. d + w - 1 THEN mem[a - d + s] ELSE mem[a]]
  /\ s' = s + step /\ d' = d + step /\ n' = n - 1
  /\ UNCHANGED <<call, pc, reps, number, ret>>

Memset ==
  /\ pc = "memset"
  /\ IF n = 0 THEN Return(d) /\ UNCHANGED <<n, w>>
     ELSE LET size == IF Aligned(d) /\ Aligned(n) THEN 4 ELSE 1 IN
          /\ pc' = "stos" /\ w' = size /\ n' = n \div size /\ UNCHANGED ret
  /\ UNCHANGED <<call, mem, s, d, step, number>>

\* Each byte of the word is the low byte of c.
Stos ==
  /\ pc = "stos" /\ n > 0
  /\ mem' = [a \in DOMAIN mem |-> IF a \in d .. d + w - 1 THEN call.c % 256 ELSE mem[a]]
  /\ d' = d + w /\ n' = n - 1
  /\ UNCHANGED <<call, pc, s, reps, number, ret>>

RepEnd ==
  /\ pc \in {"movs", "stos"} /\ n = 0
  /\ Return(call.dst)
  /\ UNCHANGED <<call, mem, regs, reps, number>>

-----------------------------------------------------------------------------
(* Copies of strings. *)

Strcat ==
  /\ pc = "strcat"
  /\ IF mem[d] # NUL THEN d' = d + 1 /\ UNCHANGED pc
                     ELSE pc' = "strcpy" /\ UNCHANGED d
  /\ UNCHANGED <<call, mem, s, n, reps, number, ret>>

Strcpy ==
  /\ pc = "strcpy"
  /\ mem' = [mem EXCEPT ![d] = mem[s]]
  /\ d' = d + 1 /\ s' = s + 1
  /\ IF mem[s] = NUL THEN Return(call.dst) ELSE UNCHANGED <<pc, ret>>
  /\ UNCHANGED <<call, n, reps, number>>

Strncpy ==
  /\ pc = "strncpy"
  /\ IF n = 0 THEN Return(call.dst) /\ UNCHANGED <<mem, regs>>
     ELSE /\ mem' = [mem EXCEPT ![d] = mem[s]]
          /\ d' = d + 1 /\ n' = n - 1
          /\ s' = IF mem[s] # NUL THEN s + 1 ELSE s
          /\ UNCHANGED <<pc, ret>>
  /\ UNCHANGED <<call, reps, number>>

Strlcpy_PostDecrement ==
  /\ pc = "strlcpy"
  /\ \/ n = 0 /\ d = call.dst /\ Return(0) /\ UNCHANGED <<mem, regs>>
     \/ /\ n > 0 /\ mem[s] # NUL
        /\ mem' = [mem EXCEPT ![d] = mem[s]]
        /\ d' = d + 1 /\ s' = s + 1 /\ n' = n - 1
        /\ UNCHANGED <<pc, ret>>
     \/ /\ mem[s] = NUL \/ n = 0
        /\ mem' = [mem EXCEPT ![d] = NUL]
        /\ Return(d - call.dst) /\ UNCHANGED regs
  /\ UNCHANGED <<call, reps, number>>

Strlcpy ==
  /\ pc = "strlcpy"
  /\ \/ n = 0 /\ Return(0) /\ UNCHANGED <<mem, regs>>
     \/ /\ n > 1 /\ mem[s] # NUL
        /\ mem' = [mem EXCEPT ![d] = mem[s]]
        /\ d' = d + 1 /\ s' = s + 1 /\ n' = n - 1
        /\ UNCHANGED <<pc, ret>>
     \/ /\ n > 0 /\ (n = 1 \/ mem[s] = NUL)
        /\ mem' = [mem EXCEPT ![d] = NUL]
        /\ Return(d - call.dst) /\ UNCHANGED regs
  /\ UNCHANGED <<call, reps, number>>

-----------------------------------------------------------------------------
(* Loops that only read. *)

\* strlen, strnlen
Count ==
  /\ pc \in {"strlen", "strnlen"}
  /\ IF (pc = "strnlen" => n > 0) /\ mem[s] # NUL
       THEN s' = s + 1 /\ n' = n - 1 /\ UNCHANGED <<pc, ret>>
       ELSE Return(s - call.src) /\ UNCHANGED <<s, n>>
  /\ UNCHANGED <<call, mem, d, reps, number>>

Signed(b) == IF b > 127 THEN b - 256 ELSE b

Compare_SignedChar ==
  /\ pc \in {"strcmp", "strncmp"}
  /\ IF pc = "strncmp" /\ n = 0 THEN Return(0) /\ UNCHANGED regs
     ELSE IF mem[d] = mem[s] /\ mem[d] # NUL
       THEN d' = d + 1 /\ s' = s + 1 /\ n' = n - 1 /\ UNCHANGED <<pc, ret>>
       ELSE Return(Signed(mem[d]) - Signed(mem[s])) /\ UNCHANGED regs
  /\ UNCHANGED <<call, mem, reps, number>>

\* strcmp, strncmp
Compare ==
  /\ pc \in {"strcmp", "strncmp"}
  /\ IF pc = "strncmp" /\ n = 0 THEN Return(0) /\ UNCHANGED regs
     ELSE IF mem[d] = mem[s] /\ mem[d] # NUL
       THEN d' = d + 1 /\ s' = s + 1 /\ n' = n - 1 /\ UNCHANGED <<pc, ret>>
       ELSE Return(mem[d] - mem[s]) /\ UNCHANGED regs
  /\ UNCHANGED <<call, mem, reps, number>>

Memcmp ==
  /\ pc = "memcmp"
  /\ IF n = 0 THEN Return(0) /\ UNCHANGED regs
     ELSE /\ n' = n - 1
          /\ IF mem[d] # mem[s] THEN Return(mem[d] - mem[s]) /\ UNCHANGED <<d, s>>
                                ELSE d' = d + 1 /\ s' = s + 1 /\ UNCHANGED <<pc, ret>>
  /\ UNCHANGED <<call, mem, reps, number>>

\* strchr, strfind
Find ==
  /\ pc \in {"strchr", "strfind"}
  /\ IF mem[s] = NUL THEN Return(IF pc = "strchr" THEN 0 ELSE s) /\ UNCHANGED s
     ELSE IF mem[s] = call.c % 256 THEN Return(s) /\ UNCHANGED s
     ELSE s' = s + 1 /\ UNCHANGED <<pc, ret>>
  /\ UNCHANGED <<call, mem, d, n, reps, number>>

Memfind ==
  /\ pc = "memfind"
  /\ IF s = call.src + call.n \/ mem[s] = call.c % 256
       THEN Return(s) /\ UNCHANGED s
       ELSE s' = s + 1 /\ UNCHANGED <<pc, ret>>
  /\ UNCHANGED <<call, mem, d, n, reps, number>>

-----------------------------------------------------------------------------
(* strtol *)

StrtolWhite ==
  /\ pc = "strtol"
  /\ IF mem[s] \in White THEN s' = s + 1 /\ UNCHANGED <<pc, neg>>
     ELSE /\ pc' = "prefix" /\ neg' = (mem[s] = Minus)
          /\ s' = IF mem[s] \in {Plus, Minus} THEN s + 1 ELSE s
  /\ UNCHANGED <<call, mem, d, n, reps, base, val, ret>>

StrtolPrefix ==
  /\ pc = "prefix" /\ pc' = "digits"
  /\ IF base \in {0, 16} /\ mem[s] = Zero /\ mem[s + 1] = CharX
       THEN s' = s + 2 /\ base' = 16
     ELSE IF base = 0 /\ mem[s] = Zero THEN s' = s + 1 /\ base' = 8
     ELSE base' = (IF base = 0 THEN 10 ELSE base) /\ UNCHANGED s
  /\ UNCHANGED <<call, mem, d, n, reps, neg, val, ret>>

StrtolDigit ==
  /\ pc = "digits"
  /\ IF Digit(mem[s]) < base
       THEN /\ s' = s + 1 /\ val' = val * base + Digit(mem[s])
            /\ UNCHANGED <<pc, ret>>
       ELSE Return(IF neg THEN -val ELSE val) /\ UNCHANGED <<s, val>>
  /\ UNCHANGED <<call, mem, d, n, reps, neg, base>>

Done == pc = "done" /\ UNCHANGED vars

Next ==
  \/ Memmove \/ Movs \/ Memset \/ Stos \/ RepEnd
  \/ Strcat \/ Strcpy \/ Strncpy \/ Strlcpy
  \/ Count \/ Compare \/ Memcmp \/ Find \/ Memfind
  \/ StrtolWhite \/ StrtolPrefix \/ StrtolDigit
  \/ Done

Spec == Init /\ [][Next]_vars

-----------------------------------------------------------------------------
(* Properties. *)

\* A pointer that has moved stands in the memory of the call or one behind it;
\* memmove's stand in their blocks or one behind, or up to a word in front,
\* where a backward move of words leaves them.  A routine with a size writes no
\* byte behind it.
TypeOK ==
  /\ mem \in [DOMAIN call.mem -> Byte]
  /\ s \in Int /\ d \in Int /\ ret \in Int
  /\ call.fn # "memmove" => /\ s # call.src => s - 1 \in DOMAIN mem
                            /\ d # call.dst => d - 1 \in DOMAIN mem
  /\ call.fn = "memmove" => /\ s \in call.src - 4 .. call.src + call.n
                            /\ d \in call.dst - 4 .. call.dst + call.n
  /\ call.fn \in {"strncpy", "strlcpy", "memset", "memmove"} =>
       \A a \in DOMAIN mem : mem[a] # call.mem[a] => a \in Block(call.dst, call.n)

\* Every turn of a rep reads only the source's bytes and writes only the
\* destination's, whichever way it goes and whatever the alignment: a backward
\* move starts a word or a byte in front of the end (string.c:154, :157), and
\* no word reaches over an end.
RepStaysInside ==
  pc \in {"movs", "stos"} /\ n > 0 =>
    /\ Block(d, w) \subseteq Block(call.dst, call.n)
    /\ pc = "movs" => Block(s, w) \subseteq Block(call.src, call.n)

\* Every routine leaves the memory and returns the value that it promises; what
\* strtol stores through endptr is the end of the number.
KeepsPromise ==
  pc = "done" =>
    /\ mem = After(call) /\ ret = Value(call)
    /\ call.fn = "strtol" => s = NumberEnd(call.mem, call.src, call.c)

=============================================================================
