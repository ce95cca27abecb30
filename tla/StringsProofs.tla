---------------------------- MODULE StringsProofs ---------------------------
(***************************************************************************)
(* Theorems about Strings: every routine leaves and returns what it        *)
(* promises and stays inside its memory, for memory of any size, strings   *)
(* of any length and every call whose caller keeps his side.               *)
(***************************************************************************)
EXTENDS Strings, WellFoundedInduction, TLAPS

M == call.mem
S == call.src
D == call.dst
N == call.n
C == call.c

-----------------------------------------------------------------------------
(* The invariant: what holds between two turns of each loop.               *)

\* strlen, strnlen, strchr, strfind, memfind: no byte so far was one to stop at.
Scanning ==
  /\ pc = call.fn /\ mem = M /\ d = D
  /\ s \in Int /\ S <= s
  /\ \A k \in S .. s - 1 : k \in DOMAIN M \ Stops(call)
  /\ pc = "strnlen" => n = N - (s - S)

\* strcmp, strncmp, memcmp: no pair of bytes so far was one to stop at.
Comparing ==
  /\ pc = call.fn /\ mem = M
  /\ d \in Int /\ D <= d /\ s = d - D + S
  /\ \A k \in D .. d - 1 : k \in DOMAIN M \ Stops(call) /\ k - D + S \in DOMAIN M
  /\ pc # "strcmp" => n = N - (d - D)

\* memmove: after some turns of rep, the bytes from D on have moved, or those
\* up to the end.
Upwards ==
  /\ step = w /\ ~(S < D /\ S + N > D)
  /\ d = D + (N - w * n) /\ s = S + (N - w * n)
  /\ mem = Moved(M, D, S, N - w * n)

Downwards ==
  /\ step = -w /\ S < D
  /\ d = D + w * n - w /\ s = S + w * n - w
  /\ mem = Moved(M, D + w * n, S + w * n, N - w * n)

Moving ==
  /\ call.fn = "memmove"
  /\ w \in {1, 4} /\ n \in Nat /\ w * n <= N
  /\ Upwards \/ Downwards

\* memset: the bytes before d are set.
Setting ==
  /\ call.fn = "memset" /\ s = S
  /\ w \in {1, 4} /\ n \in Nat /\ w * n <= N /\ d = D + (N - w * n)
  /\ mem = [a \in DOMAIN M |-> IF a \in D .. d - 1 THEN C % 256 ELSE M[a]]

\* strcat looks for the end of the string at D.
Appending ==
  /\ call.fn = "strcat" /\ mem = M /\ s = S
  /\ d \in Int /\ D <= d
  /\ \A k \in D .. d - 1 : k \in DOMAIN M \ Bytes(M, NUL)

\* The string at S goes on at s.
InString == s \in Int /\ S <= s /\ \A k \in S .. s - 1 : k \in DOMAIN M \ Bytes(M, NUL)

\* strcpy, and strcat's second half: the bytes before s are copied.
Copying ==
  /\ call.fn \in {"strcpy", "strcat"}
  /\ InString
  /\ Target(call) \in Int /\ D <= Target(call)
  /\ d = Target(call) + (s - S)
  /\ mem = Moved(M, Target(call), S, s - S)

\* strncpy: the bytes before d are copied, or padded from the string's end on.
Padding ==
  /\ call.fn = "strncpy"
  /\ InString
  /\ d \in D .. D + N /\ n = N - (d - D)
  /\ s - S <= d - D
  /\ s - S < d - D => s \in Bytes(M, NUL)
  /\ mem = [a \in DOMAIN M |-> IF a \notin D .. d - 1 THEN M[a]
                               ELSE IF a - D + S < s THEN M[a - D + S] ELSE NUL]

\* strlcpy: the bytes before s are copied, and there is room for a NUL.
Limiting ==
  /\ call.fn = "strlcpy"
  /\ InString
  /\ d = D + (s - S) /\ n = N - (s - S)
  /\ IF N = 0 THEN s = S ELSE n >= 1
  /\ mem = Moved(M, D, S, s - S)

\* strtol, in front of the sign, the prefix and the next digit.
AtSign ==
  /\ call.fn = "strtol" /\ mem = M /\ d = D /\ base = C /\ val = 0
  /\ InString /\ \A k \in S .. s - 1 : M[k] \in White

AtPrefix ==
  /\ call.fn = "strtol" /\ mem = M /\ d = D /\ base = C /\ val = 0
  /\ InString /\ s = Prefix(M, S)
  /\ neg = (M[Sign(M, S)] = Minus)

AtDigit ==
  /\ call.fn = "strtol" /\ mem = M /\ d = D /\ base = Base(M, S, C)
  /\ InString /\ S <= Digits(M, S, C) /\ Digits(M, S, C) <= s
  /\ Digits(M, S, C) \in Int
  /\ \A k \in Digits(M, S, C) .. s - 1 : Digit(M[k]) < base
  /\ neg = (M[Sign(M, S)] = Minus)
  /\ val \in Int
  /\ val = Positional(M, Digits(M, S, C), base)[s - Digits(M, S, C)]

Finished ==
  /\ mem = After(call) /\ ret = Value(call)
  /\ call.fn = "strtol" => s = NumberEnd(M, S, C)

\* A call that has just begun.
Fresh == pc = call.fn /\ mem = M /\ s = S /\ d = D /\ n = N

Phase ==
  /\ pc \in Routines \cup {"movs", "stos", "prefix", "digits", "done"}
  /\ pc \in {"memmove", "memset"} => Fresh
  /\ pc = "movs" => Moving
  /\ pc = "stos" => Setting
  /\ pc = "strcat" => Appending
  /\ pc = "strcpy" => Copying
  /\ pc = "strncpy" => Padding
  /\ pc = "strlcpy" => Limiting
  /\ pc \in {"strlen", "strnlen", "strchr", "strfind", "memfind"} => Scanning
  /\ pc \in {"strcmp", "strncmp", "memcmp"} => Comparing
  /\ pc = "strtol" => AtSign
  /\ pc = "prefix" => AtPrefix
  /\ pc = "digits" => AtDigit
  /\ pc = "done" => Finished

IInv == call \in Calls /\ TypeOK /\ Phase


-----------------------------------------------------------------------------
(* Addresses                                                               *)

\* The first address of T is the one in front of which there is none.
LEMMA FromIs ==
  ASSUME NEW T, NEW s0 \in Int, NEW a \in T, a \in Int, s0 <= a,
         \A k \in s0 .. a - 1 : k \notin T, T \subseteq Int
  PROVE  From(s0, T) = a
<1> DEFINE U == {b \in T : b >= s0}
<1>1. a \in U
  OBVIOUS
<1>2. \A b \in U : a <= b
  <2> TAKE b \in U
  <2>1. b \in Int /\ b >= s0 /\ b \in T
    OBVIOUS
  <2>2. ~(b < a)
    <3>1. b < a => b \in s0 .. a - 1
      BY <2>1
    <3> QED BY <2>1, <3>1
  <2> QED BY <2>1, <2>2
<1>3. \A b \in U : b \in Int
  OBVIOUS
<1> HIDE DEF U
<1>4. \A b \in U : (\A y \in U : b <= y) => b = a
  BY <1>1, <1>2, <1>3
<1>5. Min(U) = a
  BY <1>1, <1>2, <1>4 DEF Min
<1> QED BY <1>5 DEF From, U

\* What the caller of any routine sees to.
LEMMA Called ==
  ASSUME call \in Calls
  PROVE  /\ Requires(call) /\ call.fn \in Routines
         /\ S \in Nat /\ D \in Nat /\ N \in Nat /\ C \in Int
         /\ DOMAIN M \subseteq Int /\ M \in [DOMAIN M -> Byte]
BY StringsAssumption DEF Requires, S, D, N, C, M

\* A string ends behind everything that is known to be inside it.
LEMMA TextBound ==
  ASSUME NEW m, NEW a \in Int, NEW b \in Int, NEW except, Text(m, a, except),
         DOMAIN m \subseteq Int,
         a <= b, \A k \in a .. b - 1 : k \notin Bytes(m, NUL)
  PROVE  /\ b \in DOMAIN m /\ b \notin except
         /\ \A k \in a .. b : k \notin except
<1>1. PICK e \in Bytes(m, NUL) : a <= e /\ a .. e \subseteq DOMAIN m \ except
  BY DEF Text
<1>2. e \in Int
  BY DEF Bytes
<1>3. ~(e < b)
  <2>1. e < b => e \in a .. b - 1
    BY <1>1, <1>2
  <2> QED BY <2>1
<1>4. b \in a .. e /\ \A k \in a .. b : k \in a .. e
  BY <1>1, <1>2, <1>3
<1> QED BY <1>1, <1>4

-----------------------------------------------------------------------------
(* strlen, strnlen, strchr, strfind, memfind                               *)

\* The pointer stays in the memory, or it is at the end of the n bytes.
LEMMA ScanBound ==
  ASSUME call \in Calls, Scanning,
         pc \in {"strlen", "strnlen", "strchr", "strfind", "memfind"}
  PROVE  /\ pc \in {"strnlen", "memfind"} => s <= S + N /\ S + N \in Stops(call)
         /\ s \in DOMAIN M \/ (pc \in {"strnlen", "memfind"} /\ s = S + N)
         /\ Stops(call) \subseteq Int
         /\ s \in Int /\ S \in Int /\ N \in Nat
<1>1. /\ S \in Nat /\ N \in Nat /\ DOMAIN M \subseteq Int /\ Requires(call)
      /\ s \in Int /\ S <= s /\ pc = call.fn
      /\ \A k \in S .. s - 1 : k \in DOMAIN M /\ k \notin Stops(call)
  BY Called DEF Scanning
<1>2. CASE pc \in {"strlen", "strchr", "strfind"}
  <2>1. Bytes(M, NUL) \subseteq Stops(call) /\ Stops(call) \subseteq Int
    BY <1>1, <1>2 DEF Stops, M, Bytes
  <2>2. Text(M, S, {})
    BY <1>1, <1>2 DEF Requires, M, S
  <2>3. s \in DOMAIN M
    BY <1>1, <2>1, <2>2, TextBound
  <2> QED BY <1>1, <1>2, <2>1, <2>3
<1>3. CASE pc = "strnlen"
  <2>1. Stops(call) = Bytes(M, NUL) \cup {S + N}
    BY <1>1, <1>3 DEF Stops, M, S, N
  <2>2. Stops(call) \subseteq Int /\ S + N \in Stops(call)
    BY <1>1, <2>1 DEF Bytes
  <2>3. s <= S + N
    BY <1>1, <2>2
  <2>4. TextIn(M, S, N, {})
    BY <1>1, <1>3 DEF Requires, M, S, N
  <2>5. CASE Text(M, S, {})
    <3>1. s \in DOMAIN M
      BY <1>1, <2>1, <2>5, TextBound
    <3> QED BY <1>1, <2>2, <2>3, <3>1
  <2>6. CASE Block(S, N) \subseteq DOMAIN M
    <3>1. s = S + N \/ s \in Block(S, N)
      BY <1>1, <2>3 DEF Block
    <3> QED BY <1>1, <1>3, <2>2, <2>3, <2>6, <3>1
  <2> QED BY <2>4, <2>5, <2>6 DEF TextIn
<1>4. CASE pc = "memfind"
  <2>1. Stops(call) = Bytes(M, C % 256) \cup {S + N}
    BY <1>1, <1>4 DEF Stops, M, S, N, C
  <2>2. Stops(call) \subseteq Int /\ S + N \in Stops(call)
    BY <1>1, <2>1 DEF Bytes
  <2>3. s <= S + N
    BY <1>1, <2>2
  <2>4. Block(S, N) \subseteq DOMAIN M
    BY <1>1, <1>4 DEF Requires, M, S, N
  <2>5. s = S + N \/ s \in Block(S, N)
    BY <1>1, <2>3 DEF Block
  <2> QED BY <1>1, <1>4, <2>2, <2>3, <2>4, <2>5
<1> QED BY <1>2, <1>3, <1>4

\* What is found is the first place to stop at.
LEMMA ScanFound ==
  ASSUME call \in Calls, Scanning, s \in Stops(call),
         pc \in {"strlen", "strnlen", "strchr", "strfind", "memfind"}
  PROVE  From(S, Stops(call)) = s
<1>1. /\ Stops(call) \subseteq Int /\ s \in Int /\ S \in Int /\ S <= s
      /\ \A k \in S .. s - 1 : k \notin Stops(call)
  BY ScanBound DEF Scanning
<1> QED BY <1>1, FromIs


\* A step that moves no pointer and writes nothing keeps the types.
LEMMA StaysInside ==
  ASSUME TypeOK, UNCHANGED <<call, mem, s, d>>, ret' \in Int
  PROVE  TypeOK'
BY DEF TypeOK

\* A routine that only reads leaves the memory as it was.
LEMMA ReaderLeaves ==
  ASSUME call.fn \in {"strlen", "strnlen", "strchr", "strfind", "memfind", "strcmp",
                      "strncmp", "memcmp", "strtol"}
  PROVE  After(call) = M
BY DEF After, M

\* One that has returned what it promises is finished.
LEMMA Ends ==
  ASSUME IInv, TypeOK', call' = call, pc' = "done", ret' = Value(call),
         mem' = After(call), call.fn # "strtol"
  PROVE  IInv'
<1>1. Finished'
  BY DEF Finished, M, S, C
<1>2. Phase'
  BY <1>1 DEF Phase, Routines
<1> QED BY <1>2 DEF IInv

\* A byte that is not one to stop at is passed.
LEMMA ScanOn ==
  ASSUME IInv, pc \in {"strlen", "strnlen", "strchr", "strfind", "memfind"},
         s \notin Stops(call), s' = s + 1, pc = "strnlen" => n' = n - 1,
         UNCHANGED <<call, mem, pc, d, ret>>
  PROVE  IInv'
<1>1. call \in Calls /\ Scanning /\ TypeOK
  BY DEF IInv, Phase
<1>2. s \in DOMAIN M /\ s \in Int /\ S \in Int /\ N \in Nat
  <2>1. pc \in {"strnlen", "memfind"} => S + N \in Stops(call)
    BY <1>1, ScanBound
  <2> QED BY <1>1, <2>1, ScanBound
<1>3. Scanning'
  <2>1. pc = call.fn /\ mem = M /\ d = D /\ S <= s
    BY <1>1 DEF Scanning
  <2>2. \A k \in S .. (s + 1) - 1 : k \in DOMAIN M \ Stops(call)
    <3> TAKE k \in S .. (s + 1) - 1
    <3>1. k = s \/ k \in S .. s - 1
      BY <1>2
    <3> QED BY <1>1, <1>2, <3>1 DEF Scanning
  <2>3. pc = "strnlen" => n - 1 = N - ((s + 1) - S)
    BY <1>1, <1>2 DEF Scanning
  <2>4. M' = M /\ S' = S /\ D' = D /\ N' = N
    BY DEF M, S, D, N
  <2>5. s + 1 \in Int /\ S <= s + 1
    BY <1>2, <2>1
  <2> QED BY <2>1, <2>2, <2>3, <2>4, <2>5 DEF Scanning
<1>4. TypeOK'
  <2>1. mem = M /\ s' - 1 = s /\ s' \in Int
    BY <1>1, <1>2 DEF Scanning
  <2>2. call.fn # "memmove" /\ call.fn \notin {"strncpy", "strlcpy", "memset"}
    BY <1>1 DEF Scanning
  <2> QED BY <1>1, <1>2, <2>1, <2>2 DEF TypeOK, M
<1>5. Phase'
  BY <1>3 DEF IInv, Phase, Routines
<1> QED BY <1>1, <1>4, <1>5 DEF IInv

\* strlen and strnlen
LEMMA CountStep ==
  ASSUME IInv, Count
  PROVE  IInv'
<1>1. /\ pc \in {"strlen", "strnlen"} /\ UNCHANGED <<call, mem, d>>
      /\ call \in Calls /\ Scanning /\ TypeOK
  BY DEF Count, IInv, Phase
<1>2. /\ s \in Int /\ S \in Int /\ N \in Nat
      /\ s \in DOMAIN M \/ (pc = "strnlen" /\ s = S + N)
      /\ pc = call.fn /\ mem = M /\ (pc = "strnlen" => n = N - (s - S) /\ s <= S + N)
  BY <1>1, ScanBound DEF Scanning
<1>3. s \in Stops(call) <=> ~((pc = "strnlen" => n > 0) /\ mem[s] # NUL)
  <2>1. CASE pc = "strlen"
    BY <1>1, <1>2, <2>1 DEF Stops, M, Bytes
  <2>2. CASE pc = "strnlen"
    <3>1. n > 0 <=> s # S + N
      BY <1>2, <2>2
    <3>2. s \in Stops(call) <=> s \in Bytes(M, NUL) \/ s = S + N
      BY <1>2, <2>2 DEF Stops, M, S, N
    <3> QED BY <1>2, <2>2, <3>1, <3>2 DEF Bytes
  <2> QED BY <1>1, <2>1, <2>2
<1>4. CASE s \notin Stops(call)
  BY <1>1, <1>3, <1>4, ScanOn DEF Count
<1>5. CASE s \in Stops(call)
  <2>1. pc' = "done" /\ ret' = s - S /\ UNCHANGED <<s, n>>
    BY <1>3, <1>5 DEF Count, Return, S
  <2>2. TypeOK'
    BY <1>1, <1>2, <2>1, StaysInside
  <2>3. ret' = Value(call)
    BY <1>1, <1>2, <1>5, <2>1, ScanFound DEF Value, S
  <2>4. call.fn # "strtol" /\ mem' = After(call)
    BY <1>1, <1>2, ReaderLeaves
  <2> QED BY <1>1, <2>1, <2>2, <2>3, <2>4, Ends
<1> QED BY <1>4, <1>5

\* strchr and strfind
LEMMA FindStep ==
  ASSUME IInv, Find
  PROVE  IInv'
<1>1. /\ pc \in {"strchr", "strfind"} /\ UNCHANGED <<call, mem, d, n>>
      /\ call \in Calls /\ Scanning /\ TypeOK
  BY DEF Find, IInv, Phase
<1>2. /\ s \in Int /\ S \in Int /\ s \in DOMAIN M /\ pc = call.fn /\ mem = M
  BY <1>1, ScanBound DEF Scanning
<1>3. s \in Stops(call) <=> mem[s] = NUL \/ mem[s] = call.c % 256
  <2>1. Stops(call) = Bytes(M, NUL) \cup Bytes(M, call.c % 256)
    BY <1>1, <1>2 DEF Stops, M
  <2> HIDE DEF M
  <2> QED BY <1>2, <2>1 DEF Bytes
<1>4. CASE s \notin Stops(call)
  BY <1>1, <1>3, <1>4, ScanOn DEF Find
<1>5. CASE s \in Stops(call)
  <2>1. /\ pc' = "done" /\ UNCHANGED s
        /\ ret' = IF mem[s] = NUL /\ pc = "strchr" THEN 0 ELSE s
    BY <1>3, <1>5 DEF Find, Return
  <2>2. TypeOK'
    BY <1>1, <1>2, <2>1, StaysInside
  <2>3. ret' = Value(call)
    <3>1. From(call.src, Stops(call)) = s
      BY <1>1, <1>5, ScanFound DEF S
    <3>2. CASE pc = "strchr"
      BY <1>2, <2>1, <3>1, <3>2 DEF Value, M
    <3>3. CASE pc = "strfind"
      BY <1>2, <2>1, <3>1, <3>3 DEF Value
    <3> QED BY <1>1, <3>2, <3>3
  <2>4. call.fn # "strtol" /\ mem' = After(call)
    BY <1>1, <1>2, ReaderLeaves
  <2> QED BY <1>1, <2>1, <2>2, <2>3, <2>4, Ends
<1> QED BY <1>4, <1>5

\* memfind
LEMMA MemfindStep ==
  ASSUME IInv, Memfind
  PROVE  IInv'
<1>1. /\ pc = "memfind" /\ UNCHANGED <<call, mem, d, n>>
      /\ call \in Calls /\ Scanning /\ TypeOK
  BY DEF Memfind, IInv, Phase
<1>2. /\ s \in Int /\ S \in Int /\ N \in Nat
      /\ s \in DOMAIN M \/ s = S + N
      /\ pc = call.fn /\ mem = M
  BY <1>1, ScanBound DEF Scanning
<1>3. s \in Stops(call) <=> s = S + N \/ mem[s] = call.c % 256
  <2>1. Stops(call) = Bytes(M, call.c % 256) \cup {S + N}
    BY <1>1, <1>2 DEF Stops, M, S, N
  <2> HIDE DEF M
  <2> QED BY <1>2, <2>1 DEF Bytes
<1>4. CASE s \notin Stops(call)
  <2>1. s' = s + 1 /\ UNCHANGED <<pc, ret>>
    BY <1>3, <1>4 DEF Memfind, S, N
  <2> QED BY <1>1, <1>4, <2>1, ScanOn
<1>5. CASE s \in Stops(call)
  <2>1. pc' = "done" /\ UNCHANGED s /\ ret' = s
    BY <1>3, <1>5 DEF Memfind, Return, S, N
  <2>2. TypeOK'
    BY <1>1, <1>2, <2>1, StaysInside
  <2>3. ret' = Value(call)
    <3>1. From(call.src, Stops(call)) = s
      BY <1>1, <1>5, ScanFound DEF S
    <3> QED BY <1>1, <1>2, <2>1, <3>1 DEF Value
  <2>4. call.fn # "strtol" /\ mem' = After(call)
    BY <1>1, <1>2, ReaderLeaves
  <2> QED BY <1>1, <2>1, <2>2, <2>3, <2>4, Ends
<1> QED BY <1>4, <1>5

-----------------------------------------------------------------------------
(* strcmp, strncmp, memcmp                                                 *)

\* Bytes that have passed a comparison are equal, and not NUL for a string.
LEMMA PassedAlike ==
  ASSUME call \in Calls, Comparing, pc \in {"strcmp", "strncmp", "memcmp"}
  PROVE  /\ \A k \in D .. d - 1 : M[k] = M[k - D + S]
         /\ pc # "memcmp" => \A k \in D .. d - 1 : k \notin Bytes(M, NUL)
         /\ pc # "memcmp" => \A k \in S .. s - 1 : k \notin Bytes(M, NUL)
<1>1. /\ S \in Nat /\ D \in Nat /\ d \in Int /\ D <= d /\ s = d - D + S /\ pc = call.fn
      /\ \A k \in D .. d - 1 : k \in DOMAIN M /\ k \notin Stops(call) /\ k - D + S \in DOMAIN M
  BY Called DEF Comparing
<1>2. Differ(M, D, S) \subseteq Stops(call)
  BY <1>1 DEF Stops, M, D, S
<1>3. pc # "memcmp" => Bytes(M, NUL) \subseteq Stops(call)
  BY <1>1 DEF Stops, M, D, S
<1>4. \A k \in D .. d - 1 : M[k] = M[k - D + S]
  BY <1>1, <1>2 DEF Differ
<1>5. pc # "memcmp" => \A k \in D .. d - 1 : k \notin Bytes(M, NUL)
  BY <1>1, <1>3
<1>6. ASSUME pc # "memcmp", NEW k \in S .. s - 1
      PROVE  k \notin Bytes(M, NUL)
  <2>1. k - S + D \in D .. d - 1 /\ (k - S + D) - D + S = k
    BY <1>1
  <2>2. M[k - S + D] = M[k] /\ k - S + D \in DOMAIN M
    BY <1>1, <1>4, <2>1
  <2> QED BY <1>5, <1>6, <2>1, <2>2 DEF Bytes
<1> QED BY <1>4, <1>5, <1>6

\* The pointers stay in the memory, or they are at the end of the n bytes.
LEMMA CompareBound ==
  ASSUME call \in Calls, Comparing, pc \in {"strcmp", "strncmp", "memcmp"}
  PROVE  /\ pc # "strcmp" => d <= D + N /\ D + N \in Stops(call)
         /\ (d \in DOMAIN M /\ s \in DOMAIN M) \/ (pc # "strcmp" /\ d = D + N)
         /\ Stops(call) \subseteq Int
         /\ s \in Int /\ d \in Int /\ S \in Int /\ D \in Int /\ N \in Nat
<1>1. /\ S \in Nat /\ D \in Nat /\ N \in Nat /\ DOMAIN M \subseteq Int /\ Requires(call)
      /\ d \in Int /\ D <= d /\ s = d - D + S /\ pc = call.fn /\ s \in Int /\ S <= s
      /\ \A k \in D .. d - 1 : k \in DOMAIN M /\ k \notin Stops(call)
  BY Called DEF Comparing
<1>2. Differ(M, D, S) \subseteq Int /\ Bytes(M, NUL) \subseteq Int
  BY <1>1 DEF Differ, Bytes
<1>3. ASSUME pc # "memcmp"
      PROVE  /\ Text(M, D, {}) => d \in DOMAIN M
             /\ Text(M, S, {}) => s \in DOMAIN M
  BY <1>1, <1>3, PassedAlike, TextBound
<1>4. CASE pc = "strcmp"
  <2>1. Stops(call) = Bytes(M, NUL) \cup Differ(M, D, S)
    BY <1>1, <1>4 DEF Stops, M, D, S
  <2>2. Text(M, S, {}) /\ Text(M, D, {})
    BY <1>1, <1>4 DEF Requires, M, S, D
  <2> QED BY <1>1, <1>2, <1>3, <1>4, <2>1, <2>2
<1>5. CASE pc # "strcmp"
  <2>1. Stops(call) \subseteq Int /\ D + N \in Stops(call)
    <3>1. CASE pc = "strncmp"
      <4>1. Stops(call) = Bytes(M, NUL) \cup Differ(M, D, S) \cup {D + N}
        BY <1>1, <3>1 DEF Stops, M, D, S, N
      <4> QED BY <1>1, <1>2, <4>1
    <3>2. CASE pc = "memcmp"
      <4>1. Stops(call) = Differ(M, D, S) \cup {D + N}
        BY <1>1, <3>2 DEF Stops, M, D, S, N
      <4> QED BY <1>1, <1>2, <4>1
    <3> QED BY <1>5, <3>1, <3>2
  <2>2. d <= D + N
    BY <1>1, <2>1
  <2>3. d = D + N \/ (d \in Block(D, N) /\ s \in Block(S, N))
    BY <1>1, <2>2 DEF Block
  <2>4. CASE pc = "strncmp"
    <3>1. TextIn(M, S, N, {}) /\ TextIn(M, D, N, {})
      BY <1>1, <2>4 DEF Requires, M, S, D, N
    <3>2. d = D + N \/ (d \in DOMAIN M /\ s \in DOMAIN M)
      BY <1>3, <2>3, <2>4, <3>1 DEF TextIn
    <3> QED BY <1>1, <1>5, <2>1, <2>2, <3>2
  <2>5. CASE pc = "memcmp"
    <3>1. Block(S, N) \subseteq DOMAIN M /\ Block(D, N) \subseteq DOMAIN M
      BY <1>1, <2>5 DEF Requires, M, S, D, N
    <3> QED BY <1>1, <1>5, <2>1, <2>2, <2>3, <3>1
  <2> QED BY <1>5, <2>4, <2>5
<1> QED BY <1>4, <1>5

\* The comparison ends at the first place to stop at.
LEMMA CompareFound ==
  ASSUME call \in Calls, Comparing, d \in Stops(call),
         pc \in {"strcmp", "strncmp", "memcmp"}
  PROVE  From(D, Stops(call)) = d
<1>1. /\ Stops(call) \subseteq Int /\ d \in Int /\ D \in Int /\ D <= d
      /\ \A k \in D .. d - 1 : k \notin Stops(call)
  BY CompareBound DEF Comparing
<1> QED BY <1>1, FromIs

\* A comparison ends where it must.
LEMMA CompareStops ==
  ASSUME call \in Calls, Comparing, pc \in {"strcmp", "strncmp", "memcmp"}
  PROVE  d \in Stops(call) <=>
           \/ pc # "strcmp" /\ n = 0
           \/ M[d] # M[s]
           \/ pc # "memcmp" /\ M[d] = NUL
<1>1. /\ pc = call.fn /\ s = d - D + S /\ D <= d
      /\ pc # "strcmp" => n = N - (d - D) /\ d <= D + N
      /\ (d \in DOMAIN M /\ s \in DOMAIN M) \/ (pc # "strcmp" /\ d = D + N)
      /\ s \in Int /\ d \in Int /\ S \in Int /\ D \in Int /\ N \in Nat
  BY CompareBound DEF Comparing
<1>2. pc # "strcmp" => (n = 0 <=> d = D + N)
  BY <1>1
<1>3. d \in DOMAIN M /\ s \in DOMAIN M =>
        (d \in Differ(M, D, S) <=> M[d] # M[s]) /\ (d \in Bytes(M, NUL) <=> M[d] = NUL)
  BY <1>1 DEF Differ, Bytes
<1>4. CASE pc = "strcmp"
  <2>1. Stops(call) = Bytes(M, NUL) \cup Differ(M, D, S)
    BY <1>1, <1>4 DEF Stops, M, D, S
  <2> QED BY <1>1, <1>3, <1>4, <2>1
<1>5. CASE pc = "strncmp"
  <2>1. Stops(call) = Bytes(M, NUL) \cup Differ(M, D, S) \cup {D + N}
    BY <1>1, <1>5 DEF Stops, M, D, S, N
  <2> QED BY <1>1, <1>2, <1>3, <1>5, <2>1
<1>6. CASE pc = "memcmp"
  <2>1. Stops(call) = Differ(M, D, S) \cup {D + N}
    BY <1>1, <1>6 DEF Stops, M, D, S, N
  <2> QED BY <1>1, <1>2, <1>3, <1>6, <2>1
<1> QED BY <1>4, <1>5, <1>6

\* A pair of equal bytes is passed.
LEMMA CompareOn ==
  ASSUME IInv, pc \in {"strcmp", "strncmp", "memcmp"}, d \notin Stops(call),
         d' = d + 1, s' = s + 1, n' = n - 1, UNCHANGED <<call, mem, pc, ret>>
  PROVE  IInv'
<1>1. call \in Calls /\ Comparing /\ TypeOK
  BY DEF IInv, Phase
<1>2. /\ s \in DOMAIN M /\ d \in DOMAIN M
      /\ s \in Int /\ d \in Int /\ S \in Int /\ D \in Int /\ N \in Nat
  <2>1. pc # "strcmp" => D + N \in Stops(call)
    BY <1>1, CompareBound
  <2> QED BY <1>1, <2>1, CompareBound
<1>3. Comparing'
  <2>1. pc = call.fn /\ mem = M /\ D <= d /\ s = d - D + S
    BY <1>1 DEF Comparing
  <2>2. \A k \in D .. (d + 1) - 1 : k \in DOMAIN M \ Stops(call) /\ k - D + S \in DOMAIN M
    <3> TAKE k \in D .. (d + 1) - 1
    <3>1. k = d \/ k \in D .. d - 1
      BY <1>2
    <3> QED BY <1>1, <1>2, <2>1, <3>1 DEF Comparing
  <2>3. pc # "strcmp" => n - 1 = N - ((d + 1) - D)
    BY <1>1, <1>2 DEF Comparing
  <2>4. M' = M /\ S' = S /\ D' = D /\ N' = N
    BY DEF M, S, D, N
  <2>5. d + 1 \in Int /\ D <= d + 1 /\ s + 1 = (d + 1) - D + S
    BY <1>2, <2>1
  <2> QED BY <2>1, <2>2, <2>3, <2>4, <2>5 DEF Comparing
<1>4. TypeOK'
  <2>1. mem = M /\ s' - 1 = s /\ s' \in Int /\ d' - 1 = d /\ d' \in Int
    BY <1>1, <1>2 DEF Comparing
  <2>2. call.fn # "memmove" /\ call.fn \notin {"strncpy", "strlcpy", "memset"}
    BY <1>1 DEF Comparing
  <2> QED BY <1>1, <1>2, <2>1, <2>2 DEF TypeOK, M
<1>5. Phase'
  BY <1>3 DEF IInv, Phase, Routines
<1> QED BY <1>1, <1>4, <1>5 DEF IInv

\* One that ends returns the difference of the bytes, or 0 when there are no more.
LEMMA CompareEnds ==
  ASSUME IInv, pc \in {"strcmp", "strncmp", "memcmp"}, d \in Stops(call),
         pc' = "done", ret' = IF pc # "strcmp" /\ n = 0 THEN 0 ELSE M[d] - M[s],
         UNCHANGED <<call, mem, s, d>>
  PROVE  IInv'
<1>1. call \in Calls /\ Comparing /\ TypeOK
  BY DEF IInv, Phase
<1>2. /\ pc = call.fn /\ mem = M /\ s = d - D + S
      /\ pc # "strcmp" => n = N - (d - D) /\ d <= D + N
      /\ (d \in DOMAIN M /\ s \in DOMAIN M) \/ (pc # "strcmp" /\ d = D + N)
      /\ s \in Int /\ d \in Int /\ S \in Int /\ D \in Int /\ N \in Nat
      /\ M \in [DOMAIN M -> Byte]
  BY <1>1, CompareBound, Called DEF Comparing
<1>3. pc # "strcmp" => (n = 0 <=> ~(d < D + N))
  BY <1>2
<1>4. ret' \in Int
  <2>1. CASE pc # "strcmp" /\ n = 0
    BY <2>1
  <2>2. CASE ~(pc # "strcmp" /\ n = 0)
    <3>1. d \in DOMAIN M /\ s \in DOMAIN M
      BY <1>2, <1>3, <2>2
    <3>2. M[d] \in Int /\ M[s] \in Int
      BY <1>2, <3>1 DEF Byte
    <3>3. M[d] - M[s] \in Int
      BY <3>2
    <3> QED BY <2>2, <3>3
  <2> QED BY <2>1, <2>2
<1>5. TypeOK'
  BY <1>1, <1>4, StaysInside
<1>6. ret' = Value(call)
  <2>1. From(call.dst, Stops(call)) = d
    BY <1>1, CompareFound DEF D
  <2>2. Compared(call, d) = M[d] - M[s]
    BY <1>2 DEF Compared, M, S, D
  <2>3. CASE pc = "strcmp"
    BY <1>2, <2>1, <2>2, <2>3 DEF Value
  <2>4. CASE pc \in {"strncmp", "memcmp"}
    <3>1. Value(call) = IF d < D + N THEN Compared(call, d) ELSE 0
      BY <1>2, <2>1, <2>4 DEF Value, D, N
    <3> QED BY <1>3, <2>2, <2>4, <3>1
  <2> QED BY <2>3, <2>4
<1>7. call.fn # "strtol" /\ mem' = After(call)
  BY <1>2, ReaderLeaves
<1> QED BY <1>5, <1>6, <1>7, Ends

\* strcmp and strncmp
LEMMA CompareStep ==
  ASSUME IInv, Compare
  PROVE  IInv'
<1>1. /\ pc \in {"strcmp", "strncmp"} /\ UNCHANGED <<call, mem>>
      /\ call \in Calls /\ Comparing
  BY DEF Compare, IInv, Phase
<1>2. mem = M
  BY <1>1 DEF Comparing
<1>3. d \in Stops(call) <=> \/ pc = "strncmp" /\ n = 0
                            \/ ~(mem[d] = mem[s] /\ mem[d] # NUL)
  BY <1>1, <1>2, CompareStops
<1>4. CASE d \notin Stops(call)
  <2>1. d' = d + 1 /\ s' = s + 1 /\ n' = n - 1 /\ UNCHANGED <<pc, ret>>
    BY <1>3, <1>4 DEF Compare
  <2> QED BY <1>1, <1>4, <2>1, CompareOn
<1>5. CASE d \in Stops(call)
  <2>1. /\ pc' = "done" /\ UNCHANGED <<s, d>>
        /\ ret' = IF pc # "strcmp" /\ n = 0 THEN 0 ELSE M[d] - M[s]
    BY <1>1, <1>2, <1>3, <1>5 DEF Compare, Return, regs
  <2> QED BY <1>1, <1>5, <2>1, CompareEnds
<1> QED BY <1>4, <1>5

\* memcmp
LEMMA MemcmpStep ==
  ASSUME IInv, Memcmp
  PROVE  IInv'
<1>1. /\ pc = "memcmp" /\ UNCHANGED <<call, mem>>
      /\ call \in Calls /\ Comparing
  BY DEF Memcmp, IInv, Phase
<1>2. mem = M
  BY <1>1 DEF Comparing
<1>3. d \in Stops(call) <=> n = 0 \/ mem[d] # mem[s]
  BY <1>1, <1>2, CompareStops
<1>4. CASE d \notin Stops(call)
  <2>1. d' = d + 1 /\ s' = s + 1 /\ n' = n - 1 /\ UNCHANGED <<pc, ret>>
    BY <1>3, <1>4 DEF Memcmp
  <2> QED BY <1>1, <1>4, <2>1, CompareOn
<1>5. CASE d \in Stops(call)
  <2>1. /\ pc' = "done" /\ UNCHANGED <<s, d>>
        /\ ret' = IF pc # "strcmp" /\ n = 0 THEN 0 ELSE M[d] - M[s]
    BY <1>1, <1>2, <1>3, <1>5 DEF Memcmp, Return, regs
  <2> QED BY <1>1, <1>5, <2>1, CompareEnds
<1> QED BY <1>4, <1>5

-----------------------------------------------------------------------------
(* Bytes that are moved                                                    *)

\* What has moved is bytes, and it has moved into its block only.
LEMMA MovedInside ==
  ASSUME NEW m, NEW to \in Int, NEW from \in Int, NEW k \in Int,
         m \in [DOMAIN m -> Byte], DOMAIN m \subseteq Int,
         Block(from, k) \subseteq DOMAIN m
  PROVE  /\ Moved(m, to, from, k) \in [DOMAIN m -> Byte]
         /\ \A a \in DOMAIN m : Moved(m, to, from, k)[a] # m[a] => a \in Block(to, k)
<1>1. ASSUME NEW a \in DOMAIN m, a \in Block(to, k)
      PROVE  a - to + from \in DOMAIN m
  BY <1>1 DEF Block
<1>2. \A a \in DOMAIN m : Moved(m, to, from, k)[a] # m[a] => a \in Block(to, k)
  BY DEF Moved
<1>3. \A a \in DOMAIN m :
        (IF a \in Block(to, k) THEN m[a - to + from] ELSE m[a]) \in Byte
  BY <1>1
<1>4. Moved(m, to, from, k) \in [DOMAIN m -> Byte]
  BY <1>3 DEF Moved
<1> QED BY <1>2, <1>4

\* Nothing has moved at first.
LEMMA NothingMoved ==
  ASSUME NEW m, NEW T, m \in [DOMAIN m -> T], NEW dst \in Int, NEW src \in Int
  PROVE  Moved(m, dst, src, 0) = m
<1>1. Block(dst, 0) = {}
  BY DEF Block
<1>2. m = [a \in DOMAIN m |-> m[a]]
  OBVIOUS
<1> QED BY <1>1, <1>2 DEF Moved

\* After n of n turns of w bytes each nothing is left.
LEMMA WholeWords ==
  ASSUME NEW size \in {1, 4}, NEW k \in Nat, size = 4 => Aligned(k)
  PROVE  k \div size \in Nat /\ size * (k \div size) = k
BY DEF Aligned

-----------------------------------------------------------------------------
(* memmove                                                                 *)

\* What the caller of memmove and memset sees to.
LEMMA Blocks ==
  ASSUME call \in Calls, call.fn \in {"memmove", "memset"}
  PROVE  /\ S \in Nat /\ D \in Nat /\ N \in Nat /\ C \in Int
         /\ DOMAIN M \subseteq Int /\ M \in [DOMAIN M -> Byte]
         /\ Block(D, N) \subseteq DOMAIN M
         /\ call.fn = "memmove" => Block(S, N) \subseteq DOMAIN M
<1>1. Requires(call)
  BY Called
<1> QED BY <1>1, Called DEF Requires, M, S, D, N

\* The first step of memmove sets up a rep that moves all bytes.
LEMMA MemmoveStep ==
  ASSUME IInv, Memmove
  PROVE  IInv'
<1>1. /\ pc = "memmove" /\ pc' = "movs" /\ UNCHANGED <<call, mem, ret>>
      /\ call \in Calls /\ TypeOK
      /\ call.fn = "memmove" /\ mem = M /\ s = S /\ d = D /\ n = N
  BY DEF IInv, Memmove, Phase, Fresh
<1> DEFINE back == s < d /\ s + n > d
           size == IF Aligned(s) /\ Aligned(d) /\ Aligned(n) THEN 4 ELSE 1
<1>2. /\ w' = size /\ n' = n \div size
      /\ step' = IF back THEN -size ELSE size
      /\ s' = IF back THEN s + n - size ELSE s
      /\ d' = IF back THEN d + n - size ELSE d
  BY DEF Memmove
<1>3. S \in Nat /\ D \in Nat /\ N \in Nat /\ M \in [DOMAIN M -> Byte]
  BY <1>1, Blocks
<1>4. size \in {1, 4} /\ n \div size \in Nat /\ size * (n \div size) = N
  BY <1>1, <1>3, WholeWords
<1> HIDE DEF size
<1>5. w' \in {1, 4} /\ n' \in Nat /\ w' * n' = N
  BY <1>2, <1>4
<1>6. M' = M /\ S' = S /\ D' = D /\ N' = N
  BY <1>1 DEF M, S, D, N
<1>7. Moving'
  <2>1. CASE back
    <3>1. step' = -w' /\ S < D /\ d' = D + N - w' /\ s' = S + N - w'
      BY <1>1, <1>2, <2>1
    <3>2. Moved(M, D + N, S + N, 0) = M
      <4>1. D + N \in Int /\ S + N \in Int
        BY <1>3
      <4> QED BY <1>3, <4>1, NothingMoved
    <3>3. Downwards'
      BY <1>1, <1>3, <1>5, <1>6, <3>1, <3>2 DEF Downwards
    <3> QED BY <1>1, <1>3, <1>5, <1>6, <3>3 DEF Moving
  <2>2. CASE ~back
    <3>1. step' = w' /\ ~(S < D /\ S + N > D) /\ d' = D /\ s' = S
      BY <1>1, <1>2, <2>2
    <3>2. Moved(M, D, S, 0) = M
      BY <1>3, NothingMoved
    <3>3. Upwards'
      BY <1>1, <1>3, <1>5, <1>6, <3>1, <3>2 DEF Upwards
    <3> QED BY <1>1, <1>3, <1>5, <1>6, <3>3 DEF Moving
  <2> QED BY <2>1, <2>2
<1>8. TypeOK'
  <2>1. s' \in S - 4 .. S + N /\ d' \in D - 4 .. D + N
    BY <1>1, <1>2, <1>3, <1>4
  <2>2. s' \in Int /\ d' \in Int
    BY <1>3, <2>1
  <2> QED BY <1>1, <2>1, <2>2 DEF TypeOK, S, D, N
<1>9. Phase'
  BY <1>1, <1>7 DEF Phase, Routines
<1> QED BY <1>1, <1>8, <1>9 DEF IInv

\* A turn moves the bytes from the k-th on, those before it have moved.
TurnUp(m, dst, src, k, size) ==
  \A a \in DOMAIN m :
    (IF a \in dst + k .. dst + k + size - 1
       THEN Moved(m, dst, src, k)[a - (dst + k) + (src + k)]
       ELSE Moved(m, dst, src, k)[a])
      = Moved(m, dst, src, k + size)[a]

\* The source of a turn has not been overwritten.
LEMMA MovesUp ==
  ASSUME NEW m, NEW dst \in Int, NEW src \in Int, NEW len \in Int, NEW k \in Nat,
         NEW size \in {1, 4}, k + size <= len, ~(src < dst /\ src + len > dst),
         Block(dst, len) \subseteq DOMAIN m, Block(src, len) \subseteq DOMAIN m,
         DOMAIN m \subseteq Int
  PROVE  TurnUp(m, dst, src, k, size)
<1> SUFFICES ASSUME NEW a \in DOMAIN m
             PROVE  (IF a \in dst + k .. dst + k + size - 1
                       THEN Moved(m, dst, src, k)[a - (dst + k) + (src + k)]
                       ELSE Moved(m, dst, src, k)[a])
                    = (IF a \in Block(dst, k + size) THEN m[a - dst + src] ELSE m[a])
  BY DEF Moved, TurnUp
<1>1. CASE a \in dst + k .. dst + k + size - 1
  <2>1. /\ a - (dst + k) + (src + k) = a - dst + src
        /\ a - dst + src \in DOMAIN m /\ a - dst + src \notin Block(dst, k)
        /\ a \in Block(dst, k + size)
    BY <1>1 DEF Block
  <2>2. Moved(m, dst, src, k)[a - dst + src] = m[a - dst + src]
    BY <2>1 DEF Moved
  <2> QED BY <1>1, <2>1, <2>2
<1>2. CASE a \notin dst + k .. dst + k + size - 1
  <2>1. a \in Block(dst, k + size) <=> a \in Block(dst, k)
    BY <1>2 DEF Block
  <2> QED BY <1>2, <2>1 DEF Moved
<1> QED BY <1>1, <1>2

\* Downwards, a turn moves the bytes before the j-th, those from there on have moved.
TurnDown(m, dst, src, len, j, size) ==
  \A a \in DOMAIN m :
    (IF a \in dst + j - size .. dst + j - 1
       THEN Moved(m, dst + j, src + j, len - j)[a - (dst + j - size) + (src + j - size)]
       ELSE Moved(m, dst + j, src + j, len - j)[a])
      = Moved(m, dst + (j - size), src + (j - size), len - (j - size))[a]

\* The source of a turn downwards has not been overwritten.
LEMMA MovesDown ==
  ASSUME NEW m, NEW dst \in Int, NEW src \in Int, NEW len \in Int, NEW j \in Int,
         NEW size \in {1, 4}, size <= j, j <= len, src < dst,
         Block(dst, len) \subseteq DOMAIN m, Block(src, len) \subseteq DOMAIN m,
         DOMAIN m \subseteq Int
  PROVE  TurnDown(m, dst, src, len, j, size)
<1> DEFINE from == dst + (j - size)
<1> SUFFICES ASSUME NEW a \in DOMAIN m
             PROVE  (IF a \in dst + j - size .. dst + j - 1
                       THEN Moved(m, dst + j, src + j, len - j)
                              [a - (dst + j - size) + (src + j - size)]
                       ELSE Moved(m, dst + j, src + j, len - j)[a])
                    = (IF a \in Block(from, len - (j - size))
                         THEN m[a - from + (src + (j - size))] ELSE m[a])
  BY DEF Moved, TurnDown
<1>1. CASE a \in dst + j - size .. dst + j - 1
  <2>1. /\ a - (dst + j - size) + (src + j - size) = a - dst + src
        /\ a - from + (src + (j - size)) = a - dst + src
        /\ a - dst + src \in DOMAIN m
        /\ a - dst + src \notin Block(dst + j, len - j)
        /\ a \in Block(from, len - (j - size))
    BY <1>1 DEF Block
  <2>2. Moved(m, dst + j, src + j, len - j)[a - dst + src] = m[a - dst + src]
    BY <2>1 DEF Moved
  <2> QED BY <1>1, <2>1, <2>2
<1>2. CASE a \notin dst + j - size .. dst + j - 1
  <2>1. /\ a \in Block(from, len - (j - size)) <=> a \in Block(dst + j, len - j)
        /\ a - from + (src + (j - size)) = a - (dst + j) + (src + j)
    BY <1>2 DEF Block
  <2> QED BY <1>2, <2>1 DEF Moved
<1> QED BY <1>1, <1>2

\* A turn of rep keeps what rep does.
LEMMA MovsTurn ==
  ASSUME IInv, Movs
  PROVE  Moving'
<1>1. /\ Moving /\ n > 0 /\ UNCHANGED <<call, pc, w, step>>
      /\ s' = s + step /\ d' = d + step /\ n' = n - 1
      /\ mem' = [a \in DOMAIN mem |-> IF a \in d .. d + w - 1 THEN mem[a - d + s] ELSE mem[a]]
      /\ call.fn = "memmove" /\ call \in Calls
  BY DEF IInv, Phase, Movs, reps, Moving
<1>2. /\ S \in Nat /\ D \in Nat /\ N \in Nat
      /\ Block(D, N) \subseteq DOMAIN M
      /\ Block(S, N) \subseteq DOMAIN M
      /\ DOMAIN M \subseteq Int
  BY <1>1, Blocks
<1> DEFINE j == w * n
           jj == w * n'
<1>3. /\ w' = w /\ w \in {1, 4} /\ n' \in Nat
      /\ j \in Nat /\ w <= j /\ j <= N /\ jj = j - w /\ jj <= N /\ w' * n' = jj
      /\ S' = S /\ D' = D /\ N' = N /\ M' = M /\ call'.fn = "memmove"
  <2>1. /\ w \in {1, 4} /\ n \in Nat /\ n' \in Nat /\ n' = n - 1 /\ n > 0 /\ j <= N
    BY <1>1 DEF Moving
  <2>2. j \in Nat /\ w <= j /\ jj = j - w
    BY <2>1
  <2>3. w' * n' = jj
    BY <1>1
  <2> HIDE DEF j, jj
  <2>4. jj <= N
    BY <1>2, <2>1, <2>2
  <2> QED BY <1>1, <2>1, <2>2, <2>3, <2>4 DEF S, D, N, M
<1>4. CASE Upwards
  <2> DEFINE k == N - j
  <2>1. /\ step = w /\ ~(S < D /\ S + N > D) /\ d = D + k /\ s = S + k
        /\ mem = Moved(M, D, S, k)
    BY <1>4 DEF Upwards
  <2> HIDE DEF j, jj
  <2>0. /\ k \in Nat /\ k + w <= N /\ N - jj = k + w
    BY <1>2, <1>3
  <2> HIDE DEF k
  <2>2. DOMAIN mem = DOMAIN M
    BY <2>1 DEF Moved
  <2>3. d + w - 1 = D + k + w - 1
    BY <1>2, <1>3, <2>0, <2>1
  <2>4. mem' = [a \in DOMAIN M |->
                 IF a \in D + k .. D + k + w - 1
                   THEN Moved(M, D, S, k)[a - (D + k) + (S + k)]
                   ELSE Moved(M, D, S, k)[a]]
    BY <1>1, <2>1, <2>2, <2>3
  <2>5. mem' = Moved(M, D, S, k + w)
    <3>1. \A a \in DOMAIN M :
            (IF a \in D + k .. D + k + w - 1
               THEN Moved(M, D, S, k)[a - (D + k) + (S + k)]
               ELSE Moved(M, D, S, k)[a])
              = Moved(M, D, S, k + w)[a]
      <4>1. /\ k \in Nat /\ w \in {1, 4} /\ k + w <= N /\ ~(S < D /\ S + N > D)
            /\ S \in Int /\ D \in Int /\ N \in Int
        BY <1>2, <1>3, <2>0, <2>1
      <4>2. TurnUp(M, D, S, k, w)
        BY <4>1, <1>2, MovesUp
      <4> QED BY <4>2 DEF TurnUp
    <3>2. mem' = [a \in DOMAIN M |-> Moved(M, D, S, k + w)[a]]
      BY <2>4, <3>1
    <3> QED BY <3>2 DEF Moved
  <2>6. /\ d' = D + (k + w) /\ s' = S + (k + w) /\ step' = w
    BY <1>1, <1>2, <1>3, <2>0, <2>1
  <2>7. Upwards'
    BY <1>3, <2>0, <2>1, <2>5, <2>6 DEF Upwards, jj
  <2> QED BY <1>3, <2>7 DEF Moving
<1>5. CASE Downwards
  <2>1. /\ step = -w /\ S < D /\ d = D + j - w /\ s = S + j - w
        /\ mem = Moved(M, D + j, S + j, N - j)
    BY <1>5 DEF Downwards
  <2> HIDE DEF j, jj
  <2>2. DOMAIN mem = DOMAIN M
    BY <2>1 DEF Moved
  <2>3. d + w - 1 = D + j - 1
    BY <1>2, <1>3, <2>1
  <2>4. mem' = [a \in DOMAIN M |->
                 IF a \in D + j - w .. D + j - 1
                   THEN Moved(M, D + j, S + j, N - j)
                          [a - (D + j - w) + (S + j - w)]
                   ELSE Moved(M, D + j, S + j, N - j)[a]]
    BY <1>1, <2>1, <2>2, <2>3
  <2>5. mem' = Moved(M, D + (j - w), S + (j - w), N - (j - w))
    <3>1. \A a \in DOMAIN M :
            (IF a \in D + j - w .. D + j - 1
               THEN Moved(M, D + j, S + j, N - j)[a - (D + j - w) + (S + j - w)]
               ELSE Moved(M, D + j, S + j, N - j)[a])
              = Moved(M, D + (j - w), S + (j - w), N - (j - w))[a]
      <4>1. /\ j \in Int /\ w \in {1, 4} /\ w <= j /\ j <= N /\ S < D
            /\ S \in Int /\ D \in Int /\ N \in Int
        BY <1>2, <1>3, <2>1
      <4>2. TurnDown(M, D, S, N, j, w)
        BY <4>1, <1>2, MovesDown
      <4> QED BY <4>2 DEF TurnDown
    <3>2. mem' = [a \in DOMAIN M |-> Moved(M, D + (j - w), S + (j - w), N - (j - w))[a]]
      BY <2>4, <3>1
    <3> QED BY <3>2 DEF Moved
  <2>6. /\ d' = D + (j - w) - w /\ s' = S + (j - w) - w /\ step' = -w
    BY <1>1, <1>2, <1>3, <2>1
  <2>7. Downwards'
    BY <1>3, <2>1, <2>5, <2>6 DEF Downwards, jj
  <2> QED BY <1>3, <2>7 DEF Moving
<1> QED BY <1>1, <1>4, <1>5 DEF Moving

\* memmove's rep
LEMMA MovsStep ==
  ASSUME IInv, Movs
  PROVE  IInv'
<1>1. /\ Moving' /\ call.fn = "memmove" /\ call \in Calls /\ TypeOK
      /\ pc = "movs" /\ UNCHANGED <<call, pc, ret>>
  BY MovsTurn DEF IInv, Phase, Moving, Movs
<1>2. /\ S \in Nat /\ D \in Nat /\ N \in Nat /\ M \in [DOMAIN M -> Byte]
      /\ Block(S, N) \subseteq DOMAIN M
      /\ DOMAIN M \subseteq Int
  BY <1>1, Blocks
<1>3. M' = M /\ S' = S /\ D' = D /\ N' = N
  BY <1>1 DEF M, S, D, N
<1> DEFINE j == w' * n'
<1>4. w' \in {1, 4} /\ n' \in Nat /\ j <= N
  BY <1>1, <1>3 DEF Moving
<1>5. j \in Nat
  <2>1. \A x \in {1, 4} : \A y \in Nat : x * y \in Nat
    OBVIOUS
  <2> QED BY <1>4, <2>1
<1>6. \/ d' = D + (N - j) /\ s' = S + (N - j) /\ mem' = Moved(M, D, S, N - j)
      \/ d' = D + j - w' /\ s' = S + j - w' /\ mem' = Moved(M, D + j, S + j, N - j)
  BY <1>1, <1>3 DEF Moving, Upwards, Downwards
<1> HIDE DEF j
<1>7. /\ s' \in S - 4 .. S + N /\ d' \in D - 4 .. D + N
      /\ s' \in Int /\ d' \in Int
  BY <1>2, <1>4, <1>5, <1>6
<1>8. /\ mem' \in [DOMAIN M -> Byte]
      /\ \A a \in DOMAIN M : mem'[a] # M[a] => a \in Block(D, N)
  <2>1. Block(S, N - j) \subseteq DOMAIN M /\ Block(S + j, N - j) \subseteq DOMAIN M
    BY <1>2, <1>4, <1>5 DEF Block
  <2>2. /\ N - j \in Int /\ D + j \in Int /\ S + j \in Int
        /\ D \in Int /\ S \in Int
    BY <1>2, <1>4, <1>5
  <2>3. Block(D, N - j) \subseteq Block(D, N) /\ Block(D + j, N - j) \subseteq Block(D, N)
    BY <1>2, <1>4, <1>5 DEF Block
  <2>4. CASE mem' = Moved(M, D, S, N - j)
    <3>1. /\ Moved(M, D, S, N - j) \in [DOMAIN M -> Byte]
          /\ \A a \in DOMAIN M :
               Moved(M, D, S, N - j)[a] # M[a] => a \in Block(D, N - j)
      BY <1>2, <2>1, <2>2, MovedInside
    <3> QED BY <2>3, <2>4, <3>1
  <2>5. CASE mem' = Moved(M, D + j, S + j, N - j)
    <3>1. /\ Moved(M, D + j, S + j, N - j) \in [DOMAIN M -> Byte]
          /\ \A a \in DOMAIN M :
               Moved(M, D + j, S + j, N - j)[a] # M[a] => a \in Block(D + j, N - j)
      BY <1>2, <2>1, <2>2, MovedInside
    <3> QED BY <2>3, <2>5, <3>1
  <2> QED BY <1>6, <2>4, <2>5
<1>9. TypeOK'
  <2>1. DOMAIN mem' = DOMAIN M
    BY <1>8
  <2> QED BY <1>1, <1>7, <1>8, <2>1 DEF TypeOK, M, S, D, N
<1>10. Phase'
  BY <1>1 DEF Phase, Routines
<1> QED BY <1>1, <1>9, <1>10 DEF IInv

-----------------------------------------------------------------------------
(* memset, and the end of rep                                              *)

\* What memset promises.
LEMMA MemsetLeaves ==
  ASSUME call.fn = "memset"
  PROVE  After(call) = [a \in DOMAIN M |-> IF a \in Block(D, N) THEN C % 256 ELSE M[a]]
BY DEF After, M, D, N, C

\* The first step of memset sets up a rep that sets all bytes, if there are any.
LEMMA MemsetStep ==
  ASSUME IInv, Memset
  PROVE  IInv'
<1>1. /\ pc = "memset" /\ UNCHANGED <<call, mem, s, d>>
      /\ call \in Calls /\ TypeOK
      /\ call.fn = "memset" /\ mem = M /\ s = S /\ d = D /\ n = N
  BY DEF IInv, Memset, Phase, Fresh
<1>2. S \in Nat /\ D \in Nat /\ N \in Nat /\ C \in Int /\ M \in [DOMAIN M -> Byte]
  BY <1>1, Blocks
<1>3. M = [a \in DOMAIN M |-> M[a]]
  BY <1>2
<1>4. CASE n = 0
  <2>1. pc' = "done" /\ ret' = D
    BY <1>1, <1>4 DEF Memset, Return
  <2>2. Block(D, N) = {}
    BY <1>1, <1>2, <1>4 DEF Block
  <2>3. mem' = After(call)
    BY <1>1, <1>3, <2>2, MemsetLeaves
  <2>4. ret' = Value(call)
    BY <1>1, <2>1 DEF Value, D
  <2>5. TypeOK'
    BY <1>1, <1>2, <2>1, StaysInside
  <2> QED BY <1>1, <2>1, <2>3, <2>4, <2>5, Ends
<1>5. CASE n # 0
  <2> DEFINE size == IF Aligned(d) /\ Aligned(n) THEN 4 ELSE 1
  <2>1. pc' = "stos" /\ w' = size /\ n' = n \div size /\ UNCHANGED ret
    BY <1>1, <1>5 DEF Memset
  <2>2. size \in {1, 4} /\ n \div size \in Nat /\ size * (n \div size) = N
    BY <1>1, <1>2, WholeWords
  <2> HIDE DEF size
  <2>3. w' \in {1, 4} /\ n' \in Nat /\ w' * n' = N
    BY <2>1, <2>2
  <2>4. M' = M /\ S' = S /\ D' = D /\ N' = N /\ C' = C
    BY <1>1 DEF M, S, D, N, C
  <2>5. D = D + (N - N) /\ D .. D - 1 = {} /\ N <= N
    BY <1>2
  <2>6. mem = [a \in DOMAIN M |-> IF a \in D .. D - 1 THEN C % 256 ELSE M[a]]
    BY <1>1, <1>3, <2>5
  <2>7. Setting'
    BY <1>1, <2>3, <2>4, <2>5, <2>6 DEF Setting
  <2>8. TypeOK'
    BY <1>1, <2>1, StaysInside DEF TypeOK
  <2>9. Phase'
    BY <2>1, <2>7 DEF Phase, Routines
  <2> QED BY <1>1, <2>8, <2>9 DEF IInv
<1> QED BY <1>4, <1>5

\* A turn of memset's rep sets the bytes from d on, those before it are set.
LEMMA StosStep ==
  ASSUME IInv, Stos
  PROVE  IInv'
<1>1. /\ pc = "stos" /\ n > 0 /\ UNCHANGED <<call, pc, s, w, ret>>
      /\ mem' = [a \in DOMAIN mem |-> IF a \in d .. d + w - 1 THEN C % 256 ELSE mem[a]]
      /\ d' = d + w /\ n' = n - 1
      /\ call \in Calls /\ TypeOK /\ Setting /\ call.fn = "memset"
  BY DEF IInv, Stos, Phase, reps, C, Setting
<1>2. /\ S \in Nat /\ D \in Nat /\ N \in Nat /\ C \in Int
      /\ M \in [DOMAIN M -> Byte] /\ DOMAIN M \subseteq Int
      /\ Block(D, N) \subseteq DOMAIN M
  BY <1>1, Blocks
<1> DEFINE j == w * n
           jj == w * n'
           now == D + (N - j)
<1>3. /\ w \in {1, 4} /\ n' \in Nat /\ w' * n' = jj /\ j \in Nat /\ w <= j /\ jj = j - w
      /\ j <= N /\ d = now /\ s = S
      /\ mem = [a \in DOMAIN M |-> IF a \in D .. d - 1 THEN C % 256 ELSE M[a]]
  <2>1. /\ w \in {1, 4} /\ n \in Nat /\ n' \in Nat /\ n' = n - 1 /\ n > 0 /\ j <= N
        /\ d = now /\ s = S
        /\ mem = [a \in DOMAIN M |-> IF a \in D .. d - 1 THEN C % 256 ELSE M[a]]
    BY <1>1 DEF Setting
  <2>2. j \in Nat /\ w <= j /\ jj = j - w
    BY <2>1
  <2>3. w' * n' = jj
    BY <1>1
  <2> QED BY <2>1, <2>2, <2>3
<1>4. d = D + (N - j)
  BY <1>3
<1> HIDE DEF j, jj, now
<1>5. /\ d \in Int /\ D <= d /\ d + w <= D + N /\ jj <= N
      /\ d + w = D + (N - jj) /\ d + w \in Int
  BY <1>2, <1>3, <1>4
<1>6. DOMAIN mem = DOMAIN M
  BY <1>3
<1>7. \A a \in DOMAIN M :
        (IF a \in d .. d + w - 1 THEN C % 256 ELSE mem[a])
          = IF a \in D .. (d + w) - 1 THEN C % 256 ELSE M[a]
  <2> TAKE a \in DOMAIN M
  <2>1. a \in D .. (d + w) - 1 <=> a \in D .. d - 1 \/ a \in d .. d + w - 1
    BY <1>2, <1>3, <1>5
  <2> QED BY <1>3, <2>1
<1>8. mem' = [a \in DOMAIN M |-> IF a \in D .. (d + w) - 1 THEN C % 256 ELSE M[a]]
  BY <1>1, <1>6, <1>7
<1>9. M' = M /\ S' = S /\ D' = D /\ N' = N /\ C' = C
  BY <1>1 DEF M, S, D, N, C
<1>10. Setting'
  BY <1>1, <1>3, <1>5, <1>8, <1>9 DEF Setting
<1>11. TypeOK'
  <2>1. C % 256 \in Byte
    BY <1>2 DEF Byte
  <2>2. mem' \in [DOMAIN M -> Byte]
    BY <1>2, <1>8, <2>1
  <2>3. \A a \in DOMAIN M : mem'[a] # M[a] => a \in Block(D, N)
    <3> TAKE a \in DOMAIN M
    <3>1. a \in D .. (d + w) - 1 => a \in Block(D, N)
      BY <1>2, <1>5 DEF Block
    <3> QED BY <1>8, <3>1
  <2>4. (d + w) - 1 \in DOMAIN M
    <3>1. (d + w) - 1 \in Block(D, N)
      BY <1>2, <1>3, <1>5 DEF Block
    <3> QED BY <1>2, <3>1
  <2>5. DOMAIN mem' = DOMAIN M
    BY <2>2
  <2> QED BY <1>1, <1>5, <1>6, <2>2, <2>3, <2>4, <2>5 DEF TypeOK, M, D, N
<1>12. Phase'
  BY <1>1, <1>10 DEF Phase, Routines
<1> QED BY <1>1, <1>11, <1>12 DEF IInv

\* When the count is used up, everything has moved, or is set.
LEMMA RepEndStep ==
  ASSUME IInv, RepEnd
  PROVE  IInv'
<1>1. /\ pc \in {"movs", "stos"} /\ n = 0 /\ pc' = "done" /\ ret' = call.dst
      /\ UNCHANGED <<call, mem, s, d>> /\ call \in Calls /\ TypeOK
  BY DEF IInv, RepEnd, Return, regs
<1>2. \/ pc = "movs" /\ Moving
      \/ pc = "stos" /\ Setting
  BY <1>1 DEF IInv, Phase
<1>3. call.fn \in {"memmove", "memset"}
  BY <1>2 DEF Moving, Setting
<1>4. /\ S \in Nat /\ D \in Nat /\ N \in Nat /\ C \in Int
      /\ M \in [DOMAIN M -> Byte] /\ DOMAIN M \subseteq Int
  BY <1>1, <1>3, Blocks
<1>5. w * n = 0
  BY <1>1, <1>2 DEF Moving, Setting
<1>6. D + 0 = D /\ S + 0 = S /\ N - 0 = N /\ D + (N - 0) = D + N
  BY <1>4
<1>7. mem = After(call)
  <2>1. CASE Moving
    <3>1. mem = Moved(M, D, S, N)
      BY <1>5, <1>6, <2>1 DEF Moving, Upwards, Downwards
    <3> QED BY <2>1, <3>1 DEF Moving, After, M, S, D, N
  <2>2. CASE Setting
    <3>1. /\ d = D + N /\ call.fn = "memset"
          /\ mem = [a \in DOMAIN M |-> IF a \in D .. d - 1 THEN C % 256 ELSE M[a]]
      BY <1>5, <1>6, <2>2 DEF Setting
    <3>2. D .. d - 1 = Block(D, N)
      BY <1>4, <3>1 DEF Block
    <3> QED BY <3>1, <3>2, MemsetLeaves
  <2> QED BY <1>2, <2>1, <2>2
<1>8. ret' = Value(call)
  BY <1>1, <1>3 DEF Value
<1>9. TypeOK'
  BY <1>1, <1>4, StaysInside DEF D
<1> QED BY <1>1, <1>3, <1>7, <1>8, <1>9, Ends

-----------------------------------------------------------------------------
(* strcat and strcpy                                                       *)

\* One more byte is copied, which the bytes copied so far have not overwritten.
LEMMA CopyOn ==
  ASSUME NEW m, NEW dst \in Int, NEW src \in Int, NEW k \in Nat,
         DOMAIN m \subseteq Int, dst + k \in DOMAIN m, src + k \in DOMAIN m,
         src + k \notin Block(dst, k)
  PROVE  /\ Moved(m, dst, src, k)[src + k] = m[src + k]
         /\ [Moved(m, dst, src, k) EXCEPT ![dst + k] = m[src + k]]
              = Moved(m, dst, src, k + 1)
<1> DEFINE old == Moved(m, dst, src, k)
           new == Moved(m, dst, src, k + 1)
<1>1. old[src + k] = m[src + k]
  BY DEF Moved
<1>2. \A a \in DOMAIN m : (IF a = dst + k THEN m[src + k] ELSE old[a]) = new[a]
  <2> TAKE a \in DOMAIN m
  <2>1. a \in Block(dst, k + 1) <=> a = dst + k \/ a \in Block(dst, k)
    BY DEF Block
  <2>2. CASE a = dst + k
    <3>1. a - dst + src = src + k
      BY <2>2
    <3>2. new[a] = m[a - dst + src]
      BY <2>1, <2>2 DEF Moved
    <3> QED BY <2>2, <3>1, <3>2
  <2>3. CASE a # dst + k
    BY <2>1, <2>3 DEF Moved
  <2> QED BY <2>2, <2>3
<1>3. DOMAIN old = DOMAIN m /\ DOMAIN new = DOMAIN m
  BY DEF Moved
<1>4. [old EXCEPT ![dst + k] = m[src + k]]
        = [a \in DOMAIN m |-> IF a = dst + k THEN m[src + k] ELSE old[a]]
  BY <1>3
<1>5. new = [a \in DOMAIN m |-> new[a]]
  BY DEF Moved
<1> HIDE DEF old, new
<1>6. [old EXCEPT ![dst + k] = m[src + k]] = new
  BY <1>2, <1>4, <1>5
<1> QED BY <1>1, <1>6 DEF old, new

\* The end of a string is the first NUL.
LEMMA StringEnds ==
  ASSUME NEW a \in Int, NEW b \in Bytes(M, NUL), call \in Calls, a <= b,
         \A k \in a .. b - 1 : k \notin Bytes(M, NUL)
  PROVE  End(M, a) = b
<1>1. Bytes(M, NUL) \subseteq Int
  BY Called DEF Bytes
<1>2. b \in Int
  BY <1>1
<1>3. From(a, Bytes(M, NUL)) = b
  BY <1>1, <1>2, FromIs
<1> QED BY <1>3 DEF End

\* A turn of strcat's first loop: on, or to strcpy at the string's end.
LEMMA StrcatStep ==
  ASSUME IInv, Strcat
  PROVE  IInv'
<1>1. /\ pc = "strcat" /\ UNCHANGED <<call, mem, s, n, ret>>
      /\ call \in Calls /\ TypeOK /\ call.fn = "strcat" /\ mem = M /\ s = S
      /\ d \in Int /\ D <= d
      /\ \A k \in D .. d - 1 : k \in DOMAIN M /\ k \notin Bytes(M, NUL)
  BY DEF IInv, Strcat, Phase, Appending
<1>2. /\ S \in Nat /\ D \in Nat /\ DOMAIN M \subseteq Int /\ M \in [DOMAIN M -> Byte]
      /\ Requires(call)
  BY <1>1, Called
<1>3. Text(M, D, {})
  BY <1>1, <1>2 DEF Requires, M, D
<1>4. d \in DOMAIN M
  BY <1>1, <1>2, <1>3, TextBound
<1>5. M' = M /\ S' = S /\ D' = D
  BY <1>1 DEF M, S, D
<1>6. CASE mem[d] # NUL
  <2>1. d' = d + 1 /\ pc' = "strcat"
    BY <1>1, <1>6 DEF Strcat
  <2>2. \A k \in D .. (d + 1) - 1 : k \in DOMAIN M \ Bytes(M, NUL)
    <3> TAKE k \in D .. (d + 1) - 1
    <3>1. k = d \/ k \in D .. d - 1
      BY <1>1, <1>2
    <3> QED BY <1>1, <1>4, <1>6, <3>1 DEF Bytes
  <2>3. d + 1 \in Int /\ D <= d + 1 /\ (d + 1) - 1 = d
    BY <1>1, <1>2
  <2>4. Appending'
    BY <1>1, <1>5, <2>1, <2>2, <2>3 DEF Appending
  <2>5. TypeOK'
    BY <1>1, <1>4, <2>1, <2>3 DEF TypeOK
  <2>6. Phase'
    BY <2>1, <2>4 DEF Phase, Routines
  <2> QED BY <1>1, <2>5, <2>6 DEF IInv
<1>7. CASE mem[d] = NUL
  <2>1. pc' = "strcpy" /\ UNCHANGED d
    BY <1>1, <1>7 DEF Strcat
  <2>2. End(M, D) = d
    <3>1. d \in Bytes(M, NUL)
      BY <1>1, <1>4, <1>7 DEF Bytes
    <3> QED BY <1>1, <1>2, <3>1, StringEnds
  <2>3. Target(call) = d /\ Target(call)' = d
    BY <1>1, <2>2 DEF Target, M, D
  <2>4. Moved(M, d, S, 0) = M
    BY <1>1, <1>2, NothingMoved
  <2>5. d = d + (S - S) /\ S - S = 0 /\ S .. S - 1 = {} /\ S <= S /\ S \in Int
    BY <1>1, <1>2
  <2>6. InString'
    BY <1>1, <1>5, <2>5 DEF InString
  <2>7. Copying'
    BY <1>1, <1>5, <2>1, <2>3, <2>4, <2>5, <2>6 DEF Copying
  <2>8. TypeOK'
    BY <1>1, <2>1, StaysInside DEF TypeOK
  <2>9. Phase'
    BY <2>1, <2>7 DEF Phase, Routines
  <2> QED BY <1>1, <2>8, <2>9 DEF IInv
<1> QED BY <1>6, <1>7

\* A turn of strcpy's loop copies a byte, the NUL at last.
LEMMA StrcpyStep ==
  ASSUME IInv, Strcpy
  PROVE  IInv'
<1> DEFINE T == Target(call)
<1>1. /\ pc = "strcpy" /\ UNCHANGED call
      /\ mem' = [mem EXCEPT ![d] = mem[s]] /\ d' = d + 1 /\ s' = s + 1
      /\ call \in Calls /\ TypeOK
      /\ call.fn \in {"strcpy", "strcat"} /\ InString
      /\ T \in Int /\ D <= T /\ d = T + (s - S)
      /\ mem = Moved(M, T, S, s - S)
  BY DEF IInv, Strcpy, Phase, Copying
<1>2. /\ S \in Nat /\ D \in Nat /\ DOMAIN M \subseteq Int /\ M \in [DOMAIN M -> Byte]
      /\ Requires(call)
      /\ s \in Int /\ S <= s
      /\ \A k \in S .. s - 1 : k \in DOMAIN M /\ k \notin Bytes(M, NUL)
  BY <1>1, Called DEF InString
<1>3. PICK e \in Bytes(M, NUL) :
        /\ S <= e /\ D .. T + (e - S) \subseteq DOMAIN M
        /\ \A k \in S .. e : k \in DOMAIN M /\ k \notin D .. T + (e - S)
  <2>1. \E e \in Bytes(M, NUL) :
          LET to == D .. T + (e - S) IN
          S <= e /\ to \subseteq DOMAIN M /\ S .. e \subseteq DOMAIN M \ to
    BY <1>1, <1>2 DEF Requires, M, S, D
  <2> QED BY <2>1
<1>4. e \in Int
  BY <1>2, <1>3 DEF Bytes
<1> HIDE DEF T
<1>5. s <= e
  <2>1. e < s => e \in S .. s - 1
    BY <1>2, <1>3, <1>4
  <2> QED BY <1>2, <1>4, <2>1
<1> DEFINE k == s - S
<1>6. k \in Nat /\ S + k = s /\ T + k = d /\ k + 1 = (s + 1) - S
  BY <1>1, <1>2
<1>7. s \in DOMAIN M /\ s \notin D .. T + (e - S) /\ d \in DOMAIN M
  <2>1. s \in S .. e /\ d \in D .. T + (e - S)
    BY <1>1, <1>2, <1>4, <1>5
  <2> QED BY <1>3, <2>1
<1>8. s \notin Block(T, k)
  <2>1. s \in Block(T, k) => s \in D .. T + (e - S)
    BY <1>1, <1>2, <1>4, <1>5 DEF Block
  <2> QED BY <1>7, <2>1
<1> HIDE DEF k
<1>9. mem[s] = M[s] /\ mem' = Moved(M, T, S, k + 1)
  <2>1. /\ Moved(M, T, S, k)[S + k] = M[S + k]
        /\ [Moved(M, T, S, k) EXCEPT ![T + k] = M[S + k]] = Moved(M, T, S, k + 1)
    <3>1. /\ T \in Int /\ S \in Int /\ k \in Nat /\ DOMAIN M \subseteq Int
          /\ T + k \in DOMAIN M /\ S + k \in DOMAIN M /\ S + k \notin Block(T, k)
      BY <1>1, <1>2, <1>6, <1>7, <1>8
    <3> QED BY <3>1, CopyOn
  <2>2. mem = Moved(M, T, S, k)
    BY <1>1 DEF k
  <2> QED BY <1>1, <1>6, <2>1, <2>2
<1>10. M' = M /\ S' = S /\ D' = D /\ T' = T
  BY <1>1 DEF M, S, D, T, Target
<1>11. /\ mem' \in [DOMAIN M -> Byte]
       /\ s' \in Int /\ d' \in Int /\ s' - 1 \in DOMAIN M /\ d' - 1 \in DOMAIN M
  <2>1. Block(S, k + 1) \subseteq DOMAIN M
    <3>1. Block(S, k + 1) \subseteq S .. e
      BY <1>2, <1>4, <1>5, <1>6 DEF Block
    <3> QED BY <1>3, <3>1
  <2>2. k + 1 \in Int
    BY <1>6
  <2>3. Moved(M, T, S, k + 1) \in [DOMAIN M -> Byte]
    BY <1>1, <1>2, <2>1, <2>2, MovedInside
  <2>4. /\ (s + 1) - 1 = s /\ (d + 1) - 1 = d
        /\ s + 1 \in Int /\ d + 1 \in Int
    BY <1>1, <1>2
  <2>5. s' = s + 1 /\ d' = d + 1
    BY <1>1
  <2> QED BY <1>7, <1>9, <2>3, <2>4, <2>5
<1>12. ret' \in Int => TypeOK'
  <2>1. DOMAIN mem' = DOMAIN M
    BY <1>11
  <2> QED BY <1>1, <1>11, <2>1 DEF TypeOK, M
<1>13. CASE mem[s] = NUL
  <2>1. pc' = "done" /\ ret' = call.dst
    BY <1>1, <1>13 DEF Strcpy, Return
  <2>2. TypeOK'
    BY <1>2, <1>12, <2>1 DEF D
  <2>3. End(M, S) = s
    <3>1. s \in Bytes(M, NUL)
      BY <1>7, <1>9, <1>13 DEF Bytes
    <3> QED BY <1>1, <1>2, <3>1, StringEnds
  <2>4. After(call) = Moved(M, T, S, k + 1)
    <3>1. After(call) = Moved(M, T, S, End(M, S) - S + 1)
      BY <1>1 DEF After, M, S, T
    <3> QED BY <2>3, <3>1 DEF k
  <2>5. ret' = Value(call) /\ call.fn # "strtol"
    BY <1>1, <2>1 DEF Value
  <2> QED BY <1>1, <1>9, <2>1, <2>2, <2>4, <2>5, Ends
<1>14. CASE mem[s] # NUL
  <2>1. pc' = "strcpy" /\ ret' = ret
    BY <1>1, <1>14 DEF Strcpy
  <2>2. TypeOK'
    BY <1>1, <1>12, <2>1 DEF TypeOK
  <2>3. \A a \in S .. (s + 1) - 1 : a \in DOMAIN M \ Bytes(M, NUL)
    <3> TAKE a \in S .. (s + 1) - 1
    <3>1. a = s \/ a \in S .. s - 1
      BY <1>2
    <3> QED BY <1>2, <1>7, <1>9, <1>14, <3>1 DEF Bytes
  <2>4. s + 1 \in Int /\ S <= s + 1
    BY <1>2
  <2>5. InString'
    BY <1>1, <1>10, <2>3, <2>4 DEF InString
  <2>6. d + 1 = T + ((s + 1) - S)
    BY <1>1, <1>2
  <2>7. Copying'
    BY <1>1, <1>6, <1>9, <1>10, <2>5, <2>6 DEF Copying, T
  <2>8. Phase'
    BY <2>1, <2>7 DEF Phase, Routines
  <2> QED BY <1>1, <2>2, <2>8 DEF IInv
<1> QED BY <1>13, <1>14

-----------------------------------------------------------------------------
(* strncpy and strlcpy                                                     *)

\* A string of which at most n bytes are read ends at its NUL or after the n bytes.
LEMMA CutStringEnds ==
  ASSUME NEW a \in Int, NEW b \in Int, NEW k \in Int, call \in Calls, a <= b,
         b \in Bytes(M, NUL) \/ b = a + k,
         \A i \in a .. b - 1 : i \notin Bytes(M, NUL), b <= a + k
  PROVE  EndIn(M, a, k) = b
<1> DEFINE T == Bytes(M, NUL) \cup {a + k}
<1>1. T \subseteq Int
  BY Called DEF Bytes
<1>2. b \in T /\ \A i \in a .. b - 1 : i \notin T
  OBVIOUS
<1> HIDE DEF T
<1>3. From(a, T) = b
  BY <1>1, <1>2, FromIs
<1> QED BY <1>3 DEF EndIn, T

\* A string of which at most k bytes are read is in the memory that is not written.
LEMMA CutStringBound ==
  ASSUME NEW a \in Int, NEW b \in Int, NEW k \in Int, NEW out, call \in Calls,
         TextIn(M, a, k, out), a <= b, b < a + k,
         \A i \in a .. b - 1 : i \notin Bytes(M, NUL)
  PROVE  b \in DOMAIN M /\ b \notin out
<1>1. CASE Text(M, a, out)
  <2>1. DOMAIN M \subseteq Int
    BY Called
  <2> QED BY <1>1, <2>1, TextBound
<1>2. CASE Block(a, k) \subseteq DOMAIN M \ out
  <2>1. b \in Block(a, k)
    BY DEF Block
  <2> QED BY <1>2, <2>1
<1> QED BY <1>1, <1>2 DEF TextIn

\* The caller of strncpy and strlcpy provides a block to write.
LEMMA Buffers ==
  ASSUME call \in Calls, call.fn \in {"strncpy", "strlcpy"}
  PROVE  /\ S \in Nat /\ D \in Nat /\ N \in Nat
         /\ DOMAIN M \subseteq Int /\ M \in [DOMAIN M -> Byte]
         /\ Block(D, N) \subseteq DOMAIN M
         /\ call.fn = "strncpy" => TextIn(M, S, N, Block(D, N))
         /\ call.fn = "strlcpy" => TextIn(M, S, N - 1, Block(D, N))
<1>1. Requires(call)
  BY Called
<1> QED BY <1>1, Called DEF Requires, M, S, D, N

\* A turn of strncpy's loop copies a byte, or pads with NUL once the string has ended.
LEMMA StrncpyStep ==
  ASSUME IInv, Strncpy
  PROVE  IInv'
<1>1. /\ pc = "strncpy" /\ UNCHANGED call
      /\ call \in Calls /\ TypeOK /\ call.fn = "strncpy" /\ InString
      /\ d \in D .. D + N /\ n = N - (d - D) /\ s - S <= d - D
      /\ s - S < d - D => s \in Bytes(M, NUL)
      /\ mem = [a \in DOMAIN M |-> IF a \notin D .. d - 1 THEN M[a]
                                   ELSE IF a - D + S < s THEN M[a - D + S] ELSE NUL]
  BY DEF IInv, Strncpy, Phase, Padding
<1>2. /\ S \in Nat /\ D \in Nat /\ N \in Nat
      /\ DOMAIN M \subseteq Int /\ M \in [DOMAIN M -> Byte]
      /\ Block(D, N) \subseteq DOMAIN M /\ TextIn(M, S, N, Block(D, N))
  BY <1>1, Buffers
<1>3. /\ s \in Int /\ S <= s
      /\ \A k \in S .. s - 1 : k \in DOMAIN M /\ k \notin Bytes(M, NUL)
  BY <1>1 DEF InString
<1>4. d \in Int /\ D <= d /\ d <= D + N
  BY <1>1, <1>2
<1>5. CASE n = 0
  <2>1. pc' = "done" /\ ret' = call.dst /\ UNCHANGED <<mem, s, d>>
    BY <1>1, <1>5 DEF Strncpy, Return, regs
  <2>2. d = D + N
    BY <1>1, <1>2, <1>4, <1>5
  <2>3. EndIn(M, S, N) = s
    <3>1. s <= S + N /\ (s < S + N => s - S < d - D)
      BY <1>1, <1>2, <1>3, <2>2
    <3>2. s \in Bytes(M, NUL) \/ s = S + N
      BY <1>1, <1>2, <1>3, <3>1
    <3> QED BY <1>1, <1>2, <1>3, <3>1, <3>2, CutStringEnds
  <2>4. After(call) = [a \in DOMAIN M |-> IF a \notin Block(D, N) THEN M[a]
                                          ELSE IF a - D + S < s THEN M[a - D + S] ELSE NUL]
    BY <1>1, <2>3 DEF After, M, S, D, N
  <2>5. Block(D, N) = D .. d - 1
    BY <1>2, <2>2 DEF Block
  <2>6. mem' = After(call)
    BY <1>1, <2>1, <2>4, <2>5
  <2>7. TypeOK'
    BY <1>1, <1>2, <2>1, StaysInside DEF D
  <2>8. ret' = Value(call)
    BY <1>1, <2>1 DEF Value
  <2> QED BY <1>1, <2>1, <2>6, <2>7, <2>8, Ends
<1>6. CASE n # 0
  <2>1. /\ mem' = [mem EXCEPT ![d] = mem[s]] /\ d' = d + 1 /\ n' = n - 1
        /\ s' = IF mem[s] # NUL THEN s + 1 ELSE s
        /\ UNCHANGED <<pc, ret>>
    BY <1>6 DEF Strncpy
  <2>2. d < D + N /\ s < S + N
    BY <1>1, <1>2, <1>3, <1>4, <1>6
  <2>3. s \in DOMAIN M /\ s \notin Block(D, N)
    BY <1>1, <1>2, <1>3, <2>2, CutStringBound
  <2>4. d \in DOMAIN M /\ s \notin D .. d - 1
    <3>1. d \in Block(D, N) /\ (s \in D .. d - 1 => s \in Block(D, N))
      BY <1>2, <1>3, <1>4, <2>2 DEF Block
    <3> QED BY <1>2, <2>3, <3>1
  <2>5. mem[s] = M[s] /\ DOMAIN mem = DOMAIN M
    BY <1>1, <2>3, <2>4
  <2> DEFINE t == IF M[s] # NUL THEN s + 1 ELSE s
  <2>6. s' = t
    BY <2>1, <2>5
  <2>7. /\ t \in Int /\ S <= t /\ t - S <= (d + 1) - D
    BY <1>1, <1>2, <1>3, <1>4
  <2>8. \A k \in S .. t - 1 : k \in DOMAIN M \ Bytes(M, NUL)
    <3> TAKE k \in S .. t - 1
    <3>1. k \in S .. s - 1 \/ (k = s /\ M[s] # NUL)
      BY <1>2, <1>3
    <3> QED BY <1>3, <2>3, <3>1 DEF Bytes
  <2>9. t - S < (d + 1) - D => t \in Bytes(M, NUL)
    <3>1. CASE M[s] = NUL
      BY <2>3, <3>1 DEF Bytes
    <3>2. CASE M[s] # NUL
      <4>1. s \notin Bytes(M, NUL)
        BY <3>2 DEF Bytes
      <4>2. t = s + 1 /\ ~(s - S < d - D)
        BY <1>1, <3>2, <4>1
      <4> QED BY <1>2, <1>3, <1>4, <4>2
    <3> QED BY <3>1, <3>2
  <2>10. \A a \in DOMAIN M :
           (IF a = d THEN M[s] ELSE mem[a])
             = IF a \notin D .. (d + 1) - 1 THEN M[a]
               ELSE IF a - D + S < t THEN M[a - D + S] ELSE NUL
    <3> TAKE a \in DOMAIN M
    <3>1. a \in Int
      BY <1>2
    <3>2. CASE a = d
      <4>1. a \in D .. (d + 1) - 1
        BY <1>2, <1>4, <3>2
      <4>2. CASE M[s] # NUL
        <5>1. s \notin Bytes(M, NUL)
          BY <4>2 DEF Bytes
        <5>2. t = s + 1 /\ ~(s - S < d - D)
          BY <1>1, <4>2, <5>1
        <5>3. d - D + S = s /\ d - D + S < t
          BY <1>1, <1>2, <1>3, <1>4, <5>2
        <5> QED BY <3>2, <4>1, <5>3
      <4>3. CASE M[s] = NUL
        <5>1. ~(d - D + S < t)
          BY <1>1, <1>2, <1>3, <1>4, <4>3
        <5> QED BY <3>2, <4>1, <4>3, <5>1
      <4> QED BY <4>2, <4>3
    <3>3. CASE a # d
      <4>1. a \in D .. (d + 1) - 1 <=> a \in D .. d - 1
        BY <1>2, <1>4, <3>1, <3>3
      <4>2. a \in D .. d - 1 => (a - D + S < t <=> a - D + S < s)
        <5>1. CASE M[s] = NUL
          BY <5>1
        <5>2. CASE M[s] # NUL
          <6>1. s \notin Bytes(M, NUL)
            BY <5>2 DEF Bytes
          <6>2. t = s + 1 /\ ~(s - S < d - D)
            BY <1>1, <5>2, <6>1
          <6> HIDE DEF t
          <6> QED BY <1>2, <1>3, <1>4, <3>1, <6>2
        <5> QED BY <5>1, <5>2
      <4>3. mem[a] = IF a \notin D .. d - 1 THEN M[a]
                     ELSE IF a - D + S < s THEN M[a - D + S] ELSE NUL
        BY <1>1
      <4> QED BY <3>3, <4>1, <4>2, <4>3
    <3> QED BY <3>2, <3>3
  <2> HIDE DEF t
  <2>11. mem' = [a \in DOMAIN M |-> IF a \notin D .. (d + 1) - 1 THEN M[a]
                                    ELSE IF a - D + S < t THEN M[a - D + S] ELSE NUL]
    <3>1. mem' = [a \in DOMAIN M |-> IF a = d THEN M[s] ELSE mem[a]]
      BY <2>1, <2>5
    <3> QED BY <2>10, <3>1
  <2>12. M' = M /\ S' = S /\ D' = D /\ N' = N
    BY <1>1 DEF M, S, D, N
  <2>13. d + 1 \in D .. D + N /\ n - 1 = N - ((d + 1) - D)
    BY <1>1, <1>2, <1>4, <2>2
  <2>14. InString'
    BY <2>6, <2>7, <2>8, <2>12 DEF InString
  <2>15. Padding'
    BY <1>1, <2>1, <2>6, <2>7, <2>9, <2>11, <2>12, <2>13, <2>14 DEF Padding
  <2>16. TypeOK'
    <3>1. mem' \in [DOMAIN M -> Byte]
      <4>1. mem \in [DOMAIN M -> Byte] /\ M[s] \in Byte
        BY <1>1, <1>2, <2>3 DEF TypeOK, M
      <4> QED BY <2>1, <2>5, <4>1
    <3>2. \A a \in DOMAIN M : mem'[a] # M[a] => a \in Block(D, N)
      <4> TAKE a \in DOMAIN M
      <4>1. a \in D .. (d + 1) - 1 => a \in Block(D, N)
        BY <1>2, <1>4, <2>2 DEF Block
      <4> QED BY <2>11, <4>1
    <3>3. DOMAIN mem' = DOMAIN M
      BY <3>1
    <3>4. t # S => t - 1 \in DOMAIN M
      <4>1. t # S => t - 1 \in S .. t - 1
        BY <1>2, <2>7
      <4> QED BY <2>8, <4>1
    <3>5. d + 1 \in Int /\ (d + 1) - 1 = d
      BY <1>4
    <3> QED BY <1>1, <2>1, <2>4, <2>6, <2>7, <3>1, <3>2, <3>3, <3>4, <3>5 DEF TypeOK, M, S, D, N
  <2>17. Phase'
    BY <1>1, <2>1, <2>15 DEF Phase, Routines
  <2> QED BY <1>1, <2>16, <2>17 DEF IInv
<1> QED BY <1>5, <1>6

\* A turn of strlcpy copies a byte while there is room for it and for the NUL.
LEMMA StrlcpyStep ==
  ASSUME IInv, Strlcpy
  PROVE  IInv'
<1> DEFINE k == s - S
<1>1. /\ pc = "strlcpy" /\ UNCHANGED call
      /\ call \in Calls /\ TypeOK /\ call.fn = "strlcpy" /\ InString
      /\ d = D + k /\ n = N - k
      /\ IF N = 0 THEN s = S ELSE n >= 1
      /\ mem = Moved(M, D, S, k)
  BY DEF IInv, Strlcpy, Phase, Limiting
<1>2. /\ S \in Nat /\ D \in Nat /\ N \in Nat
      /\ DOMAIN M \subseteq Int /\ M \in [DOMAIN M -> Byte]
      /\ Block(D, N) \subseteq DOMAIN M /\ TextIn(M, S, N - 1, Block(D, N))
  BY <1>1, Buffers
<1>3. /\ s \in Int /\ S <= s
      /\ \A i \in S .. s - 1 : i \in DOMAIN M /\ i \notin Bytes(M, NUL)
  BY <1>1 DEF InString
<1>4. k \in Nat /\ S + k = s /\ (N # 0 => k < N) /\ (N = 0 => k = 0) /\ d \in Int /\ D <= d
  <2>1. d = D + k /\ n = N - k /\ (N = 0 => s = S) /\ (N # 0 => n >= 1)
    BY <1>1
  <2>2. k \in Nat /\ S + k = s /\ (s = S => k = 0)
    BY <1>2, <1>3
  <2> HIDE DEF k
  <2>3. d \in Int /\ D <= d /\ (N # 0 => k < N)
    BY <1>2, <2>1, <2>2
  <2> QED BY <2>1, <2>2, <2>3
<1>5. M' = M /\ S' = S /\ D' = D /\ N' = N
  BY <1>1 DEF M, S, D, N
<1>6. ASSUME s < S + (N - 1)
      PROVE  /\ s \in DOMAIN M /\ s \notin Block(D, k) /\ mem[s] = M[s]
             /\ d \in DOMAIN M
  <2>1. N - 1 \in Int /\ S \in Int
    BY <1>2
  <2>2. s \in DOMAIN M /\ s \notin Block(D, N)
    BY <1>1, <1>2, <1>3, <1>6, <2>1, CutStringBound
  <2>3. s \notin Block(D, k)
    <3>1. s \in Block(D, k) => s \in Block(D, N)
      BY <1>2, <1>3, <1>4, <1>6 DEF Block
    <3> QED BY <2>2, <3>1
  <2>4. d \in DOMAIN M
    <3>1. d \in Block(D, N)
      BY <1>1, <1>2, <1>3, <1>4, <1>6 DEF Block
    <3> QED BY <1>2, <3>1
  <2>5. mem[s] = M[s]
    BY <1>1, <2>2, <2>3 DEF Moved
  <2> QED BY <2>2, <2>3, <2>4, <2>5
<1>7. CASE n = 0 /\ pc' = "done" /\ ret' = 0 /\ UNCHANGED <<mem, regs>>
  <2>1. N = 0 /\ s = S
    BY <1>1, <1>2, <1>4, <1>7
  <2>2. Moved(M, D, S, 0) = M
    BY <1>2, NothingMoved
  <2>3. mem' = M
    BY <1>2, <1>1, <1>4, <1>7, <2>1, <2>2
  <2>4. After(call) = M
    BY <1>1, <2>1 DEF After, M, N
  <2>5. ret' = Value(call)
    BY <1>1, <1>7, <2>1 DEF Value, N
  <2>6. TypeOK'
    BY <1>1, <1>7, StaysInside DEF regs
  <2> QED BY <1>1, <1>7, <2>3, <2>4, <2>5, <2>6, Ends
<1>8. CASE /\ n > 1 /\ mem[s] # NUL
           /\ mem' = [mem EXCEPT ![d] = mem[s]]
           /\ d' = d + 1 /\ s' = s + 1 /\ n' = n - 1
           /\ UNCHANGED <<pc, ret>>
  <2>1. s < S + (N - 1)
    BY <1>1, <1>2, <1>3, <1>8
  <2>2. s \in DOMAIN M /\ s \notin Block(D, k) /\ mem[s] = M[s] /\ d \in DOMAIN M
    BY <1>6, <2>1
  <2> DEFINE t == s + 1
  <2>3. /\ t \in Int /\ S <= t /\ t - S = k + 1 /\ d + 1 = D + (t - S)
        /\ n - 1 = N - (t - S) /\ t - 1 = s /\ (d + 1) - 1 = d /\ d + 1 \in Int
        /\ n - 1 >= 1 /\ N # 0
    BY <1>1, <1>2, <1>3, <1>4, <1>8
  <2>4. \A i \in S .. t - 1 : i \in DOMAIN M \ Bytes(M, NUL)
    <3> TAKE i \in S .. t - 1
    <3>1. i = s \/ i \in S .. s - 1
      BY <1>2, <1>3
    <3> QED BY <1>3, <1>8, <2>2, <3>1 DEF Bytes
  <2> HIDE DEF t
  <2>5. mem' = Moved(M, D, S, t - S)
    <3>1. /\ D \in Int /\ S \in Int /\ k \in Nat /\ DOMAIN M \subseteq Int
          /\ D + k \in DOMAIN M /\ S + k \in DOMAIN M /\ S + k \notin Block(D, k)
      BY <1>1, <1>2, <1>4, <2>2
    <3> HIDE DEF k
    <3>2. [Moved(M, D, S, k) EXCEPT ![D + k] = M[S + k]] = Moved(M, D, S, k + 1)
      BY <3>1, CopyOn
    <3> QED BY <1>1, <1>4, <1>8, <2>2, <2>3, <3>2
  <2>6. InString'
    <3>1. s' = t
      BY <1>8 DEF t
    <3> QED BY <1>5, <2>3, <2>4, <3>1 DEF InString
  <2>7. Limiting'
    <3>1. s' = t /\ d' = d + 1 /\ n' = n - 1
      BY <1>8 DEF t
    <3> QED BY <1>1, <1>5, <2>3, <2>5, <2>6, <3>1 DEF Limiting
  <2>8. TypeOK'
    <3>1. Block(S, t - S) \subseteq DOMAIN M
      <4>1. Block(S, t - S) \subseteq S .. t - 1
        BY <1>2, <2>3 DEF Block
      <4> QED BY <2>4, <4>1
    <3>2. t - S \in Int /\ D \in Int /\ S \in Int
      BY <1>2, <2>3
    <3>3. /\ mem' \in [DOMAIN M -> Byte]
          /\ \A a \in DOMAIN M : mem'[a] # M[a] => a \in Block(D, t - S)
      BY <1>2, <2>5, <3>1, <3>2, MovedInside
    <3>4. Block(D, t - S) \subseteq Block(D, N)
      <4>1. t - S <= N /\ t - S \in Int /\ N \in Int /\ D \in Int
        BY <1>2, <1>4, <2>3
      <4> QED BY <4>1 DEF Block
    <3>5. DOMAIN mem' = DOMAIN M
      BY <3>3
    <3>6. s' = t /\ d' = d + 1
      BY <1>8 DEF t
    <3> QED BY <1>1, <1>8, <2>2, <2>3, <3>3, <3>4, <3>5, <3>6 DEF TypeOK, M, D, N
  <2>9. Phase'
    BY <1>1, <1>8, <2>7 DEF Phase, Routines
  <2> QED BY <1>1, <2>8, <2>9 DEF IInv
<1>9. CASE /\ n > 0 /\ (n = 1 \/ mem[s] = NUL)
           /\ mem' = [mem EXCEPT ![d] = NUL]
           /\ pc' = "done" /\ ret' = d - call.dst /\ UNCHANGED regs
  <2>1. N # 0 /\ N > 0 /\ s <= S + (N - 1) /\ d \in Block(D, N) /\ N - 1 \in Int
    BY <1>1, <1>2, <1>3, <1>4, <1>9 DEF Block
  <2>2. EndIn(M, S, N - 1) = s
    <3>1. s \in Bytes(M, NUL) \/ s = S + (N - 1)
      <4>1. CASE s = S + (N - 1)
        BY <4>1
      <4>2. CASE s # S + (N - 1)
        <5>1. s < S + (N - 1) /\ n # 1
          BY <1>1, <1>2, <1>3, <2>1, <4>2
        <5> QED BY <1>6, <1>9, <5>1 DEF Bytes
      <4> QED BY <4>1, <4>2
    <3> QED BY <1>1, <1>2, <1>3, <2>1, <3>1, CutStringEnds
  <2>3. mem' = After(call)
    <3>1. After(call) = [Moved(M, D, S, k) EXCEPT ![D + k] = NUL]
      BY <1>1, <2>1, <2>2 DEF After, M, S, D, N
    <3> QED BY <1>1, <1>9, <3>1
  <2>4. ret' = Value(call) /\ ret' \in Int
    <3>1. Value(call) = k
      BY <1>1, <2>1, <2>2 DEF Value, M, S, N
    <3>2. ret' = k
      BY <1>1, <1>2, <1>4, <1>9 DEF D
    <3> QED BY <1>4, <3>1, <3>2
  <2>5. TypeOK'
    <3>1. /\ mem \in [DOMAIN M -> Byte]
          /\ \A a \in DOMAIN mem : mem[a] # M[a] => a \in Block(D, N)
      BY <1>1 DEF TypeOK, M, D, N
    <3>2. mem' \in [DOMAIN M -> Byte]
      <4>1. NUL \in Byte
        BY DEF NUL, Byte
      <4>2. mem' = [mem EXCEPT ![d] = NUL]
        BY <1>9
      <4>3. mem \in [DOMAIN M -> Byte]
        BY <3>1
      <4> QED BY <4>1, <4>2, <4>3
    <3>3. \A a \in DOMAIN M : mem'[a] # M[a] => a \in Block(D, N)
      <4> TAKE a \in DOMAIN M
      <4>1. a # d => mem'[a] = mem[a]
        BY <1>9, <3>1
      <4> QED BY <2>1, <3>1, <4>1
    <3>4. DOMAIN mem' = DOMAIN M /\ DOMAIN mem = DOMAIN M
      BY <3>1, <3>2
    <3> QED BY <1>1, <1>9, <2>4, <3>2, <3>3, <3>4 DEF TypeOK, M, D, N, regs
  <2> QED BY <1>1, <1>9, <2>3, <2>4, <2>5, Ends
<1> QED BY <1>7, <1>8, <1>9 DEF Strlcpy, Return

-----------------------------------------------------------------------------
(* The value of a numeral                                                  *)

\* A set of naturals that is not empty has a least member.
LEMMA LeastMember ==
  ASSUME NEW T, T \subseteq Nat, T # {}
  PROVE  \E k \in T : \A i \in T : ~(i < k)
<1> DEFINE Less == OpToRel(<, Nat)
<1>1. IsWellFoundedOn(Less, Nat)
  BY NatLessThanWellFounded
<1>2. \A i, k \in Nat : <<i, k>> \in Less <=> i < k
  BY DEF OpToRel
<1> HIDE DEF Less
<1>3. \E k \in T : \A i \in T : ~(<<i, k>> \in Less)
  BY <1>1, WFMin
<1> QED BY <1>2, <1>3

\* A function on the naturals can be defined by Horner's rule.
LEMMA HornerExists ==
  ASSUME NEW b, NEW dig
  PROVE  \E f : f = [k \in Nat |-> IF k = 0 THEN 0 ELSE f[k - 1] * b + dig[k]]
<1> DEFINE Step(v, k) == v * b + dig[k]
           Run(f, k) == f[0] = 0 /\ \A i \in 1 .. k : f[i] = Step(f[i - 1], i)
<1> HIDE DEF Step
<1>1. \A k \in Nat : \E f : Run(f, k)
  <2> DEFINE T == {k \in Nat : ~\E f : Run(f, k)}
  <2>1. SUFFICES T = {}
    OBVIOUS
  <2>2. SUFFICES ASSUME T # {} PROVE FALSE
    OBVIOUS
  <2>3. PICK k \in T : \A i \in T : ~(i < k)
    <3>1. T \subseteq Nat
      OBVIOUS
    <3> HIDE DEF T
    <3> QED BY <2>2, <3>1, LeastMember
  <2>4. k \in Nat /\ ~\E f : Run(f, k)
    OBVIOUS
  <2>5. CASE k = 0
    <3>1. Run([i \in {0} |-> 0], 0)
      OBVIOUS
    <3> QED BY <2>4, <2>5, <3>1
  <2>6. CASE k # 0
    <3>1. k - 1 \in Nat /\ k - 1 < k
      BY <2>4, <2>6
    <3>2. k - 1 \notin T
      BY <2>3, <3>1
    <3>3. PICK f : Run(f, k - 1)
      BY <3>1, <3>2
    <3> DEFINE g == [i \in 0 .. k |-> IF i = k THEN Step(f[k - 1], k) ELSE f[i]]
    <3>4. g[0] = 0
      BY <2>4, <2>6, <3>3
    <3>5. ASSUME NEW i \in 1 .. k
          PROVE  g[i] = Step(g[i - 1], i)
      <4>1. i \in 0 .. k /\ i - 1 \in 0 .. k /\ i - 1 # k
        BY <2>4
      <4>2. g[i - 1] = f[i - 1]
        BY <4>1
      <4>3. CASE i = k
        BY <4>1, <4>2, <4>3
      <4>4. CASE i # k
        <5>1. i \in 1 .. k - 1
          BY <2>4, <4>4
        <5>2. f[i] = Step(f[i - 1], i)
          BY <3>3, <5>1
        <5> QED BY <4>1, <4>2, <4>4, <5>2
      <4> QED BY <4>3, <4>4
    <3>6. Run(g, k)
      BY <3>4, <3>5
    <3> HIDE DEF Run
    <3> QED BY <2>4, <3>6
  <2> QED BY <2>5, <2>6
<1>2. ASSUME NEW f, NEW g, NEW k \in Nat, Run(f, k), Run(g, k)
      PROVE  f[k] = g[k]
  <2> DEFINE T == {i \in 0 .. k : f[i] # g[i]}
  <2>1. SUFFICES ASSUME T # {} PROVE FALSE
    BY <1>2
  <2>2. PICK i \in T : \A x \in T : ~(x < i)
    <3>1. T \subseteq Nat
      OBVIOUS
    <3> HIDE DEF T
    <3> QED BY <2>1, <3>1, LeastMember
  <2>3. i \in 0 .. k /\ f[i] # g[i]
    OBVIOUS
  <2>4. i # 0
    BY <1>2, <2>3
  <2>5. i \in 1 .. k /\ i - 1 \in 0 .. k /\ i - 1 < i
    BY <2>3, <2>4
  <2>6. f[i - 1] = g[i - 1]
    BY <2>2, <2>5
  <2>7. f[i] = Step(f[i - 1], i) /\ g[i] = Step(g[i - 1], i)
    BY <1>2, <2>5
  <2> QED BY <2>3, <2>6, <2>7
<1> DEFINE F(k) == CHOOSE f : Run(f, k)
           V == [k \in Nat |-> F(k)[k]]
<1>3. \A k \in Nat : Run(F(k), k)
  <2> HIDE DEF Run
  <2> QED BY <1>1
<1>4. ASSUME NEW k \in Nat
      PROVE  V[k] = IF k = 0 THEN 0 ELSE Step(V[k - 1], k)
  <2>1. Run(F(k), k) /\ V[k] = F(k)[k]
    BY <1>3
  <2>2. CASE k = 0
    BY <2>1, <2>2
  <2>3. CASE k # 0
    <3>1. k - 1 \in Nat /\ k \in 1 .. k /\ \A i \in 1 .. k - 1 : i \in 1 .. k
      BY <2>3
    <3> HIDE DEF F
    <3>2. Run(F(k), k - 1) /\ F(k)[k] = Step(F(k)[k - 1], k)
      BY <2>1, <3>1
    <3>3. Run(F(k - 1), k - 1)
      BY <1>3, <3>1
    <3>4. F(k)[k - 1] = F(k - 1)[k - 1]
      <4> HIDE DEF Run
      <4> QED BY <1>2, <3>1, <3>2, <3>3
    <3>5. V[k - 1] = F(k - 1)[k - 1]
      BY <3>1
    <3> QED BY <2>1, <2>3, <3>2, <3>4, <3>5
  <2> QED BY <2>2, <2>3
<1>5. V = [k \in Nat |-> V[k]]
  OBVIOUS
<1> HIDE DEF V
<1>6. V = [k \in Nat |-> IF k = 0 THEN 0 ELSE Step(V[k - 1], k)]
  BY <1>4, <1>5
<1> QED BY <1>6 DEF Step

\* The value of no digits is 0; a digit more multiplies by the base and adds.
LEMMA PositionalIs ==
  ASSUME NEW m, NEW a, NEW b
  PROVE  /\ Positional(m, a, b)[0] = 0
         /\ \A k \in Nat : Positional(m, a, b)[k + 1]
                             = Positional(m, a, b)[k] * b + Digit(m[a + (k + 1) - 1])
<1> DEFINE dig == [k \in Nat |-> Digit(m[a + k - 1])]
<1>1. PICK g : g = [k \in Nat |-> IF k = 0 THEN 0 ELSE g[k - 1] * b + dig[k]]
  <2> HIDE DEF dig
  <2> QED BY HornerExists
<1>2. g = [k \in Nat |-> IF k = 0 THEN 0 ELSE g[k - 1] * b + Digit(m[a + k - 1])]
  BY <1>1
<1> DEFINE f == Positional(m, a, b)
<1>3. f = [k \in Nat |-> IF k = 0 THEN 0 ELSE f[k - 1] * b + Digit(m[a + k - 1])]
  BY <1>2 DEF Positional
<1> HIDE DEF f
<1>4. \A k \in Nat : f[k] = IF k = 0 THEN 0 ELSE f[k - 1] * b + Digit(m[a + k - 1])
  BY <1>3
<1>5. f[0] = 0
  BY <1>4
<1>6. ASSUME NEW k \in Nat
      PROVE  f[k + 1] = f[k] * b + Digit(m[a + (k + 1) - 1])
  <2>1. k + 1 \in Nat /\ k + 1 # 0 /\ (k + 1) - 1 = k
    OBVIOUS
  <2>2. f[k + 1] = f[(k + 1) - 1] * b + Digit(m[a + (k + 1) - 1])
    BY <1>4, <2>1
  <2> QED BY <2>1, <2>2
<1> QED BY <1>5, <1>6 DEF f

-----------------------------------------------------------------------------
(* strtol                                                                  *)

\* The pointer is at a byte of the string.
LEMMA InNumber ==
  ASSUME call \in Calls, call.fn = "strtol", InString
  PROVE  /\ s \in DOMAIN M /\ s \in Int /\ S <= s /\ S \in Int
         /\ DOMAIN M \subseteq Int /\ M \in [DOMAIN M -> Byte]
         /\ C \in {0} \cup 2 .. 36
<1>1. /\ DOMAIN M \subseteq Int /\ M \in [DOMAIN M -> Byte] /\ S \in Int /\ Requires(call)
  BY Called
<1>2. Text(M, S, {}) /\ C \in {0} \cup 2 .. 36
  BY <1>1 DEF Requires, M, S, C
<1>3. s \in Int /\ S <= s /\ \A k \in S .. s - 1 : k \in DOMAIN M /\ k \notin Bytes(M, NUL)
  BY DEF InString
<1>4. s \in DOMAIN M
  BY <1>1, <1>2, <1>3, TextBound
<1> QED BY <1>1, <1>2, <1>3, <1>4

\* A byte that is not NUL is passed.
LEMMA InStringOn ==
  ASSUME call \in Calls, call.fn = "strtol", InString, M[s] # NUL
  PROVE  \A k \in S .. (s + 1) - 1 : k \in DOMAIN M \ Bytes(M, NUL)
<1>1. s \in DOMAIN M /\ s \in Int /\ S <= s /\ S \in Int
  BY InNumber
<1> TAKE k \in S .. (s + 1) - 1
<1>2. k = s \/ k \in S .. s - 1
  BY <1>1
<1> QED BY <1>1, <1>2 DEF InString, Bytes

\* In a number, a pointer that is S or has passed a byte is where TypeOK wants it.
LEMMA NumberType ==
  ASSUME call' = call, mem' = mem, d' = d, ret' \in Int, InString', TypeOK, mem = M,
         call.fn = "strtol", S \in Int
  PROVE  TypeOK'
<1>1. M' = M /\ S' = S
  BY DEF M, S
<1>2. s' \in Int /\ S <= s' /\ \A k \in S .. s' - 1 : k \in DOMAIN M
  BY <1>1 DEF InString
<1>3. s' # S => s' - 1 \in S .. s' - 1
  <2>1. \A x \in Int : S <= x /\ x # S => x - 1 \in S .. x - 1
    OBVIOUS
  <2> QED BY <1>2, <2>1
<1>4. s' # S => s' - 1 \in DOMAIN mem
  BY <1>2, <1>3
<1> QED BY <1>2, <1>4 DEF TypeOK, S

\* strtol passes white space, then a sign.
LEMMA StrtolWhiteStep ==
  ASSUME IInv, StrtolWhite
  PROVE  IInv'
<1>1. /\ pc = "strtol" /\ UNCHANGED <<call, mem, d, n, base, val, ret>>
      /\ call \in Calls /\ TypeOK
      /\ call.fn = "strtol" /\ mem = M /\ d = D /\ base = C /\ val = 0
      /\ InString /\ \A k \in S .. s - 1 : M[k] \in White
  BY DEF IInv, StrtolWhite, Phase, AtSign
<1>2. /\ s \in DOMAIN M /\ s \in Int /\ S <= s /\ S \in Int
      /\ DOMAIN M \subseteq Int /\ M \in [DOMAIN M -> Byte]
  BY <1>1, InNumber
<1>3. M' = M /\ S' = S /\ D' = D /\ C' = C
  BY <1>1 DEF M, S, D, C
<1>4. ret' \in Int
  BY <1>1 DEF TypeOK
<1>5. CASE mem[s] \in White
  <2>1. s' = s + 1 /\ pc' = "strtol"
    BY <1>1, <1>5 DEF StrtolWhite
  <2>2. M[s] # NUL
    BY <1>1, <1>5 DEF White, NUL
  <2>3. \A k \in S .. (s + 1) - 1 : k \in DOMAIN M \ Bytes(M, NUL)
    BY <1>1, <2>2, InStringOn
  <2>4. \A k \in S .. (s + 1) - 1 : M[k] \in White
    <3> TAKE k \in S .. (s + 1) - 1
    <3>1. k = s \/ k \in S .. s - 1
      BY <1>2
    <3> QED BY <1>1, <1>5, <3>1
  <2>5. s + 1 \in Int /\ S <= s + 1
    BY <1>2
  <2>6. InString'
    BY <1>3, <2>1, <2>3, <2>5 DEF InString
  <2>7. AtSign'
    BY <1>1, <1>3, <2>1, <2>4, <2>6 DEF AtSign
  <2>8. TypeOK'
    BY <1>1, <1>2, <1>4, <2>6, NumberType
  <2>9. Phase'
    BY <1>1, <2>1, <2>7 DEF Phase, Routines
  <2> QED BY <1>1, <2>8, <2>9 DEF IInv
<1>6. CASE mem[s] \notin White
  <2> DEFINE t == IF M[s] \in {Plus, Minus} THEN s + 1 ELSE s
  <2>1. s' = t /\ pc' = "prefix" /\ neg' = (M[s] = Minus)
    BY <1>1, <1>6 DEF StrtolWhite
  <2>2. Sign(M, S) = s
    <3> DEFINE T == {a \in DOMAIN M : M[a] \notin White}
    <3>1. T \subseteq Int /\ s \in T /\ \A k \in S .. s - 1 : k \notin T
      BY <1>1, <1>2, <1>6
    <3> HIDE DEF T
    <3>2. From(S, T) = s
      BY <1>2, <3>1, FromIs
    <3> QED BY <3>2 DEF Sign, T
  <2>3. Prefix(M, S) = t
    <3>1. s + 0 = s
      BY <1>2
    <3> QED BY <2>2, <3>1 DEF Prefix
  <2>4. t \in Int /\ S <= t
    BY <1>2
  <2>5. \A k \in S .. t - 1 : k \in DOMAIN M \ Bytes(M, NUL)
    <3>1. CASE M[s] \in {Plus, Minus}
      <4>1. M[s] # NUL
        BY <3>1 DEF Plus, Minus, NUL
      <4> QED BY <1>1, <3>1, <4>1, InStringOn
    <3>2. CASE M[s] \notin {Plus, Minus}
      BY <1>1, <3>2 DEF InString
    <3> QED BY <3>1, <3>2
  <2> HIDE DEF t
  <2>6. InString'
    BY <1>3, <2>1, <2>4, <2>5 DEF InString
  <2>7. AtPrefix'
    BY <1>1, <1>3, <2>1, <2>2, <2>3, <2>6 DEF AtPrefix
  <2>8. TypeOK'
    BY <1>1, <1>2, <1>4, <2>6, NumberType
  <2>9. Phase'
    BY <2>1, <2>7 DEF Phase, Routines
  <2> QED BY <1>1, <2>8, <2>9 DEF IInv
<1> QED BY <1>5, <1>6

\* strtol passes the prefix that the base asks for.
LEMMA StrtolPrefixStep ==
  ASSUME IInv, StrtolPrefix
  PROVE  IInv'
<1>1. /\ pc = "prefix" /\ pc' = "digits" /\ UNCHANGED <<call, mem, d, n, neg, val, ret>>
      /\ call \in Calls /\ TypeOK
      /\ call.fn = "strtol" /\ mem = M /\ d = D /\ base = C /\ val = 0
      /\ InString /\ s = Prefix(M, S)
      /\ neg = (M[Sign(M, S)] = Minus)
  BY DEF IInv, StrtolPrefix, Phase, AtPrefix
<1>2. /\ s \in DOMAIN M /\ s \in Int /\ S <= s /\ S \in Int
      /\ DOMAIN M \subseteq Int /\ M \in [DOMAIN M -> Byte]
  BY <1>1, InNumber
<1>3. M' = M /\ S' = S /\ D' = D /\ C' = C
  BY <1>1 DEF M, S, D, C
<1>4. ret' \in Int
  BY <1>1 DEF TypeOK
<1> DEFINE hex == C \in {0, 16} /\ M[s] = Zero /\ M[s + 1] = CharX
           octal == C = 0 /\ M[s] = Zero /\ ~hex
           t == IF hex THEN s + 2 ELSE IF octal THEN s + 1 ELSE s
<1>5. Hex(M, S, C) <=> hex
  BY <1>1 DEF Hex
<1>6. Octal(M, S, C) <=> octal
  BY <1>1, <1>5 DEF Octal
<1>7. base' = Base(M, S, C) /\ s' = t
  <2>1. CASE hex
    <3>1. base' = 16 /\ s' = s + 2
      BY <1>1, <2>1 DEF StrtolPrefix
    <3>2. Base(M, S, C) = 16
      BY <1>5, <1>6, <2>1 DEF Base
    <3> QED BY <2>1, <3>1, <3>2
  <2>2. CASE octal
    <3>1. base' = 8 /\ s' = s + 1
      BY <1>1, <2>2 DEF StrtolPrefix
    <3>2. Base(M, S, C) = 8
      BY <1>5, <1>6, <2>2 DEF Base
    <3> QED BY <2>2, <3>1, <3>2
  <2>3. CASE ~hex /\ ~octal
    <3>1. base' = (IF C = 0 THEN 10 ELSE C) /\ s' = s
      BY <1>1, <2>3 DEF StrtolPrefix
    <3>2. Base(M, S, C) = IF C = 0 THEN 10 ELSE C
      BY <1>5, <1>6, <2>3 DEF Base
    <3> QED BY <2>3, <3>1, <3>2
  <2> QED BY <2>1, <2>2, <2>3
<1>8. Digits(M, S, C) = IF hex THEN s + 2 ELSE s
  <2>1. s + 0 = s
    BY <1>2
  <2> QED BY <1>1, <1>5, <2>1 DEF Digits
<1>9. \A k \in S .. t - 1 : k \in DOMAIN M \ Bytes(M, NUL)
  <2>1. ASSUME M[s] = Zero
        PROVE  /\ \A k \in S .. (s + 1) - 1 : k \in DOMAIN M \ Bytes(M, NUL)
               /\ s + 1 \in DOMAIN M
    <3>1. M[s] # NUL
      BY <2>1 DEF Zero, NUL
    <3>2. \A k \in S .. (s + 1) - 1 : k \in DOMAIN M \ Bytes(M, NUL)
      BY <1>1, <3>1, InStringOn
    <3>3. Text(M, S, {}) /\ s + 1 \in Int /\ S <= s + 1
      BY <1>1, <1>2, Called DEF Requires, M, S
    <3>4. s + 1 \in DOMAIN M
      BY <1>2, <3>2, <3>3, TextBound
    <3> QED BY <3>2, <3>4
  <2>2. CASE hex
    <3>1. s + 1 \notin Bytes(M, NUL)
      BY <2>2 DEF CharX, NUL, Bytes
    <3> TAKE k \in S .. t - 1
    <3>2. k = s + 1 \/ k \in S .. (s + 1) - 1
      BY <1>2, <2>2
    <3> QED BY <2>1, <2>2, <3>1, <3>2
  <2>3. CASE octal
    <3>1. t = s + 1
      BY <2>3
    <3> QED BY <2>1, <2>3, <3>1
  <2>4. CASE ~hex /\ ~octal
    BY <1>1, <2>4 DEF InString
  <2> QED BY <2>2, <2>3, <2>4
<1> DEFINE a == Digits(M, S, C)
           b == Base(M, S, C)
<1>10. /\ t \in Int /\ S <= t /\ a \in Int /\ S <= a /\ a <= t
       /\ ~octal => t = a
       /\ octal => t = a + 1 /\ M[a] = Zero /\ b = 8
  <2>1. octal => b = 8
    BY <1>5, <1>6 DEF Base
  <2>2. octal => a = s /\ t = s + 1 /\ M[s] = Zero
    BY <1>8
  <2>3. ~octal => t = a
    BY <1>8
  <2>4. t \in Int /\ S <= t /\ a \in Int /\ S <= a
    BY <1>2, <1>8
  <2> HIDE DEF a, b, t, octal
  <2>5. a <= t
    BY <1>2, <2>2, <2>3, <2>4
  <2> QED BY <2>1, <2>2, <2>3, <2>4, <2>5
<1> HIDE DEF a, b, t
<1>11. /\ \A k \in a .. t - 1 : Digit(M[k]) < b
       /\ Positional(M, a, b)[t - a] = 0
  <2>1. Positional(M, a, b)[0] = 0
    BY PositionalIs
  <2>2. CASE octal
    <3>1. Digit(M[a]) = 0
      BY <1>10, <2>2 DEF Digit, Zero
    <3>2. \A k \in a .. t - 1 : k = a
      BY <1>10, <2>2
    <3>3. Positional(M, a, b)[0 + 1] = Positional(M, a, b)[0] * b + Digit(M[a + (0 + 1) - 1])
      BY PositionalIs
    <3>4. a + (0 + 1) - 1 = a /\ 0 + 1 = 1 /\ t - a = 1 /\ b = 8 /\ 0 * 8 + 0 = 0
      BY <1>10, <2>2
    <3>5. Positional(M, a, b)[t - a] = 0
      BY <2>1, <3>1, <3>3, <3>4
    <3>6. \A k \in a .. t - 1 : Digit(M[k]) < b
      <4> TAKE k \in a .. t - 1
      <4>1. Digit(M[k]) = 0
        BY <3>1, <3>2
      <4> QED BY <3>4, <4>1
    <3> QED BY <3>5, <3>6
  <2>3. CASE ~octal
    <3>1. t - a = 0 /\ a .. t - 1 = {}
      BY <1>10, <2>3
    <3> QED BY <2>1, <3>1
  <2> QED BY <2>2, <2>3
<1>12. InString'
  BY <1>3, <1>7, <1>9, <1>10 DEF InString
<1>13. AtDigit'
  <2>1. /\ Digits(M, S, C)' = a /\ Base(M, S, C)' = b
    BY <1>3 DEF a, b
  <2>2. base' = b /\ s' = t /\ val' = 0
    BY <1>1, <1>7 DEF b
  <2>3. Positional(M', a, base')[s' - a] = 0
    BY <1>3, <1>11, <2>2
  <2>4. neg' = (M[Sign(M, S)] = Minus)'
    <3>1. (M[Sign(M, S)] = Minus)' <=> (M[Sign(M, S)] = Minus)
      BY <1>3
    <3> QED BY <1>1, <3>1
  <2> QED BY <1>1, <1>3, <1>10, <1>11, <1>12, <2>1, <2>2, <2>3, <2>4 DEF AtDigit
<1>14. TypeOK'
  BY <1>1, <1>2, <1>4, <1>12, NumberType
<1>15. Phase'
  BY <1>1, <1>13 DEF Phase, Routines
<1> QED BY <1>1, <1>14, <1>15 DEF IInv

\* The value of a character as a digit, and the base, are small numbers.
LEMMA DigitBase ==
  /\ \A c \in Byte : Digit(c) \in 0 .. 36
  /\ Digit(NUL) = 36
  /\ C \in {0} \cup 2 .. 36 => Base(M, S, C) \in 2 .. 36
<1>1. \A c \in Byte : Digit(c) \in 0 .. 36
  BY DEF Digit, Byte
<1>2. Digit(NUL) = 36
  BY DEF Digit, NUL
<1>3. C \in {0} \cup 2 .. 36 => Base(M, S, C) \in 2 .. 36
  <2>1. CASE Hex(M, S, C)
    <3>1. ~Octal(M, S, C)
      BY <2>1 DEF Octal
    <3> QED BY <2>1, <3>1 DEF Base
  <2>2. CASE Octal(M, S, C)
    <3>1. ~Hex(M, S, C)
      BY <2>2 DEF Octal
    <3> QED BY <2>2, <3>1 DEF Base
  <2>3. CASE ~Hex(M, S, C) /\ ~Octal(M, S, C)
    BY <2>3 DEF Base
  <2> QED BY <2>1, <2>2, <2>3
<1> QED BY <1>1, <1>2, <1>3

\* A digit adds to the value; anything else ends the number.
LEMMA StrtolDigitStep ==
  ASSUME IInv, StrtolDigit
  PROVE  IInv'
<1> DEFINE a == Digits(M, S, C)
           b == Base(M, S, C)
           g == Digit(M[s])
<1>1. /\ pc = "digits" /\ UNCHANGED <<call, mem, d, n, neg, base>>
      /\ call \in Calls /\ TypeOK
      /\ call.fn = "strtol" /\ mem = M /\ d = D /\ base = b
      /\ InString /\ S <= a /\ a <= s /\ a \in Int
      /\ \A k \in a .. s - 1 : Digit(M[k]) < b
      /\ neg = (M[Sign(M, S)] = Minus)
      /\ val \in Int /\ val = Positional(M, a, b)[s - a]
  BY DEF IInv, StrtolDigit, Phase, AtDigit
<1>2. /\ s \in DOMAIN M /\ s \in Int /\ S <= s /\ S \in Int
      /\ DOMAIN M \subseteq Int /\ M \in [DOMAIN M -> Byte]
      /\ C \in {0} \cup 2 .. 36
  BY <1>1, InNumber
<1>3. M' = M /\ S' = S /\ D' = D /\ C' = C
  BY <1>1 DEF M, S, D, C
<1>4. g \in Int /\ b \in 2 .. 36 /\ \A k \in DOMAIN M : Digit(M[k]) \in Int
  BY <1>2, DigitBase
<1>5. ret \in Int
  BY <1>1 DEF TypeOK
<1> HIDE DEF a, b, g
<1>6. CASE g < b
  <2>1. s' = s + 1 /\ val' = val * b + g /\ UNCHANGED <<pc, ret>>
    BY <1>1, <1>6 DEF StrtolDigit, g
  <2>2. M[s] # NUL
    BY <1>4, <1>6, DigitBase DEF g
  <2>3. \A k \in S .. (s + 1) - 1 : k \in DOMAIN M \ Bytes(M, NUL)
    BY <1>1, <2>2, InStringOn
  <2>4. s + 1 \in Int /\ S <= s + 1 /\ a <= s + 1
    BY <1>1, <1>2
  <2>5. InString'
    BY <1>3, <2>1, <2>3, <2>4 DEF InString
  <2>6. \A k \in a .. (s + 1) - 1 : Digit(M[k]) < b
    <3> TAKE k \in a .. (s + 1) - 1
    <3>1. k = s \/ k \in a .. s - 1
      BY <1>1, <1>2
    <3> QED BY <1>1, <1>6, <3>1 DEF g
  <2>7. val' \in Int
    <3>1. \A x, y \in Int : x * y \in Int
      OBVIOUS
    <3>2. val * b \in Int
      BY <1>1, <1>4, <3>1
    <3> QED BY <1>4, <2>1, <3>2
  <2>8. val' = Positional(M, a, b)[(s + 1) - a]
    <3> DEFINE k == s - a
    <3>1. k \in Nat /\ k + 1 = (s + 1) - a /\ a + (k + 1) - 1 = s
      BY <1>1, <1>2
    <3> HIDE DEF k
    <3>2. Positional(M, a, b)[k + 1] = Positional(M, a, b)[k] * b + Digit(M[a + (k + 1) - 1])
      BY <3>1, PositionalIs
    <3> QED BY <1>1, <2>1, <3>1, <3>2 DEF k, g
  <2>9. AtDigit'
    <3>1. Digits(M, S, C)' = a /\ Base(M, S, C)' = b /\ base' = b
      BY <1>1, <1>3 DEF a, b
    <3>2. neg' = (M[Sign(M, S)] = Minus)'
      <4>1. (M[Sign(M, S)] = Minus)' <=> (M[Sign(M, S)] = Minus)
        BY <1>3
      <4> QED BY <1>1, <4>1
    <3>3. \A k \in a .. s' - 1 : Digit(M[k]) < b
      BY <2>1, <2>6
    <3>4. val' = Positional(M', a, base')[s' - a]
      BY <1>3, <2>1, <2>8, <3>1
    <3> QED BY <1>1, <1>3, <2>1, <2>4, <2>5, <2>7, <3>1, <3>2, <3>3, <3>4 DEF AtDigit
  <2>10. TypeOK'
    BY <1>1, <1>2, <1>5, <2>1, <2>5, NumberType
  <2>11. Phase'
    BY <1>1, <2>1, <2>9 DEF Phase, Routines
  <2> QED BY <1>1, <2>10, <2>11 DEF IInv
<1>7. CASE ~(g < b)
  <2>1. pc' = "done" /\ ret' = (IF neg THEN -val ELSE val) /\ s' = s
    BY <1>1, <1>7 DEF StrtolDigit, Return, g
  <2>2. NumberEnd(M, S, C) = s
    <3> DEFINE T == {k \in DOMAIN M : Digit(M[k]) >= b}
    <3>1. T \subseteq Int /\ s \in T
      BY <1>2, <1>4, <1>7 DEF g
    <3>2. \A k \in a .. s - 1 : k \notin T
      BY <1>1, <1>4
    <3> HIDE DEF T
    <3>3. From(a, T) = s
      BY <1>1, <1>2, <3>1, <3>2, FromIs
    <3> QED BY <3>3 DEF NumberEnd, T, a, b
  <2>3. ret' = Number(M, S, C)
    <3>1. Number(M, S, C) = IF M[Sign(M, S)] = Minus THEN -val ELSE val
      BY <1>1, <2>2 DEF Number, a, b
    <3> QED BY <1>1, <2>1, <3>1
  <2>4. Finished'
    <3>1. ret' = Value(call)
      BY <1>1, <2>3 DEF Value, M, S, C
    <3>2. mem' = After(call)
      BY <1>1, ReaderLeaves
    <3>3. s' = NumberEnd(M', S', C')
      BY <1>3, <2>1, <2>2
    <3> QED BY <1>1, <3>1, <3>2, <3>3 DEF Finished
  <2>5. ret' \in Int
    BY <1>1, <2>1
  <2>6. TypeOK'
    <3>1. UNCHANGED <<call, mem, s, d>>
      BY <1>1, <2>1
    <3> QED BY <1>1, <2>5, <3>1, StaysInside
  <2>7. Phase'
    BY <2>1, <2>4 DEF Phase, Routines
  <2> QED BY <1>1, <2>6, <2>7 DEF IInv
<1> QED BY <1>6, <1>7

-----------------------------------------------------------------------------
(* The invariant and the theorems                                          *)

\* A call that has just begun is between two turns of its first loop.
LEMMA Starts ==
  ASSUME Init
  PROVE  IInv
<1>1. /\ call \in Calls /\ mem = M /\ pc = call.fn /\ s = S /\ d = D /\ n = N
      /\ base = C /\ val = 0 /\ ret = 0
  BY DEF Init, M, S, D, N, C
<1>2. /\ call.fn \in Routines /\ S \in Nat /\ D \in Nat /\ N \in Nat /\ C \in Int
      /\ DOMAIN M \subseteq Int /\ M \in [DOMAIN M -> Byte]
  BY <1>1, Called
<1>3. TypeOK
  <2>1. s \in S - 4 .. S + N /\ d \in D - 4 .. D + N
    BY <1>1, <1>2
  <2>2. mem \in [DOMAIN M -> Byte] /\ s \in Int /\ d \in Int /\ ret \in Int
    BY <1>1, <1>2
  <2> QED BY <1>1, <2>1, <2>2 DEF TypeOK, M, S, D, N
<1>4. /\ S .. S - 1 = {} /\ D .. D - 1 = {} /\ S <= S /\ D <= D /\ S - S = 0 /\ D - D = 0
      /\ N - 0 = N /\ D + 0 = D /\ S = D - D + S /\ D + (S - S) = D
      /\ D \in Int /\ S \in Int /\ D \in D .. D + N
  BY <1>2
<1>5. Moved(M, D, S, 0) = M
  BY <1>2, NothingMoved
<1>6. M = [a \in DOMAIN M |-> M[a]]
  BY <1>2
<1>7. InString
  BY <1>1, <1>4 DEF InString
<1>8. pc \in {"memmove", "memset"} => Fresh
  BY <1>1 DEF Fresh
<1>9. pc = "strcat" => Appending
  BY <1>1, <1>4 DEF Appending
<1>10. pc = "strcpy" => Copying
  <2>1. pc = "strcpy" => Target(call) = D
    BY <1>1 DEF Target, D
  <2> QED BY <1>1, <1>4, <1>5, <1>7, <2>1 DEF Copying
<1>11. pc = "strncpy" => Padding
  <2>1. mem = [a \in DOMAIN M |-> IF a \notin D .. d - 1 THEN M[a]
                                 ELSE IF a - D + S < s THEN M[a - D + S] ELSE NUL]
    BY <1>1, <1>4, <1>6
  <2>2. d \in D .. D + N /\ n = N - (d - D) /\ s - S <= d - D /\ ~(s - S < d - D)
    BY <1>1, <1>2
  <2> QED BY <1>1, <1>7, <2>1, <2>2 DEF Padding
<1>12. pc = "strlcpy" => Limiting
  <2>1. d = D + (s - S) /\ n = N - (s - S) /\ IF N = 0 THEN s = S ELSE n >= 1
    BY <1>1, <1>2
  <2> QED BY <1>1, <1>4, <1>5, <1>7, <2>1 DEF Limiting
<1>13. pc \in {"strlen", "strnlen", "strchr", "strfind", "memfind"} => Scanning
  BY <1>1, <1>4 DEF Scanning
<1>14. pc \in {"strcmp", "strncmp", "memcmp"} => Comparing
  BY <1>1, <1>4 DEF Comparing
<1>15. pc = "strtol" => AtSign
  BY <1>1, <1>4, <1>7 DEF AtSign
<1>16. pc \notin {"movs", "stos", "prefix", "digits", "done"}
  BY <1>1, <1>2 DEF Routines
<1>17. Phase
  BY <1>1, <1>2, <1>8, <1>9, <1>10, <1>11, <1>12, <1>13, <1>14, <1>15, <1>16 DEF Phase
<1> QED BY <1>1, <1>3, <1>17 DEF IInv

\* A step that changes nothing keeps the invariant.
LEMMA Stutters ==
  ASSUME IInv, UNCHANGED vars
  PROVE  IInv'
<1>1. UNCHANGED <<call, mem, pc, s, d, n, w, step, neg, base, val, ret>>
  BY DEF vars, regs, reps, number
<1>2. M' = M /\ S' = S /\ D' = D /\ N' = N /\ C' = C
  BY <1>1 DEF M, S, D, N, C
<1>3. InString' <=> InString
  BY <1>1, <1>2 DEF InString
<1>4. TypeOK'
  BY <1>1 DEF IInv, TypeOK
<1>5. (Moving' <=> Moving) /\ (Setting' <=> Setting) /\ (Appending' <=> Appending)
  BY <1>1, <1>2 DEF Moving, Upwards, Downwards, Setting, Appending
<1>6. (Copying' <=> Copying) /\ (Padding' <=> Padding) /\ (Limiting' <=> Limiting)
  BY <1>1, <1>2, <1>3 DEF Copying, Padding, Limiting
<1>7. (Scanning' <=> Scanning) /\ (Comparing' <=> Comparing) /\ (Fresh' <=> Fresh)
  BY <1>1, <1>2 DEF Scanning, Comparing, Fresh
<1>8. (AtSign' <=> AtSign) /\ (AtPrefix' <=> AtPrefix) /\ (AtDigit' <=> AtDigit)
  BY <1>1, <1>2, <1>3 DEF AtSign, AtPrefix, AtDigit
<1>9. Finished' <=> Finished
  BY <1>1, <1>2 DEF Finished
<1>10. Phase'
  BY <1>1, <1>5, <1>6, <1>7, <1>8, <1>9 DEF IInv, Phase
<1> QED BY <1>1, <1>4, <1>10 DEF IInv

\* Every turn of every loop keeps the invariant.
LEMMA Keeps ==
  ASSUME IInv, [Next]_vars
  PROVE  IInv'
<1>1. CASE Memmove
  BY <1>1, MemmoveStep
<1>2. CASE Movs
  BY <1>2, MovsStep
<1>3. CASE Memset
  BY <1>3, MemsetStep
<1>4. CASE Stos
  BY <1>4, StosStep
<1>5. CASE RepEnd
  BY <1>5, RepEndStep
<1>6. CASE Strcat
  BY <1>6, StrcatStep
<1>7. CASE Strcpy
  BY <1>7, StrcpyStep
<1>8. CASE Strncpy
  BY <1>8, StrncpyStep
<1>9. CASE Strlcpy
  BY <1>9, StrlcpyStep
<1>10. CASE Count
  BY <1>10, CountStep
<1>11. CASE Compare
  BY <1>11, CompareStep
<1>12. CASE Memcmp
  BY <1>12, MemcmpStep
<1>13. CASE Find
  BY <1>13, FindStep
<1>14. CASE Memfind
  BY <1>14, MemfindStep
<1>15. CASE StrtolWhite
  BY <1>15, StrtolWhiteStep
<1>16. CASE StrtolPrefix
  BY <1>16, StrtolPrefixStep
<1>17. CASE StrtolDigit
  BY <1>17, StrtolDigitStep
<1>18. CASE Done \/ UNCHANGED vars
  BY <1>18, Stutters DEF Done
<1> QED BY <1>1, <1>2, <1>3, <1>4, <1>5, <1>6, <1>7, <1>8, <1>9, <1>10, <1>11, <1>12,
           <1>13, <1>14, <1>15, <1>16, <1>17, <1>18 DEF Next

\* The invariant of all routines.
LEMMA Invariant == Spec => []IInv
<1>1. Init => IInv
  BY Starts
<1>2. IInv /\ [Next]_vars => IInv'
  BY Keeps
<1> QED BY <1>1, <1>2, PTL DEF Spec

\* A pointer that has moved stands in the memory of the call or one behind it,
\* memmove's between a word in front of their blocks and their end, and a
\* routine with a size writes nothing behind it.
THEOREM TypeCorrect == Spec => []TypeOK
<1>1. IInv => TypeOK
  BY DEF IInv
<1> QED BY Invariant, <1>1, PTL

\* Every routine that returns has left the memory and returns the value that it
\* promises, for memory of every size and every call whose caller keeps his side.
THEOREM PromisesKept == Spec => []KeepsPromise
<1>1. IInv => KeepsPromise
  BY DEF IInv, Phase, Finished, KeepsPromise, M, S, C
<1> QED BY Invariant, <1>1, PTL

\* Between two turns of a rep, what the next turn reads and writes lies in the
\* blocks that the call names.
THEOREM RepInside == Spec => []RepStaysInside
<1>1. IInv => RepStaysInside
  <2> SUFFICES ASSUME IInv, pc \in {"movs", "stos"}, n > 0
               PROVE  /\ Block(d, w) \subseteq Block(D, N)
                      /\ pc = "movs" => Block(s, w) \subseteq Block(S, N)
    BY DEF RepStaysInside, D, N, S
  <2>1. /\ pc = "movs" => Moving
        /\ pc = "stos" => Setting
        /\ call \in Calls
    BY DEF IInv, Phase
  <2>2. S \in Nat /\ D \in Nat /\ N \in Nat
    BY <2>1, Blocks DEF Moving, Setting
  <2>3. w \in {1, 4} /\ n \in Nat /\ w * n <= N
    BY <2>1 DEF Moving, Setting
  <2> DEFINE j == w * n
  <2>4. j \in Nat /\ w <= j
    <3>1. \A x \in {1, 4} : \A y \in Nat : y > 0 => x * y \in Nat /\ x <= x * y
      OBVIOUS
    <3> QED BY <2>3, <3>1
  <2>5. /\ d = D + (N - j) \/ d = D + j - w
        /\ pc = "movs" => s = S + (N - j) \/ s = S + j - w
    BY <2>1 DEF Moving, Upwards, Downwards, Setting
  <2>6. j <= N
    BY <2>3
  <2> HIDE DEF j
  <2> QED BY <2>2, <2>3, <2>4, <2>5, <2>6 DEF Block
<1> QED BY Invariant, <1>1, PTL
=============================================================================
