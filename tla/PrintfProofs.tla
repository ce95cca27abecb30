---------------------------- MODULE PrintfProofs ----------------------------
(***************************************************************************)
(* Theorems about Printf, for every format, every argument and every size  *)
(* of the buffer: vsnprintf never stores outside it, and what it stores,   *)
(* terminates and returns belongs to one and the same output; vprintfmt    *)
(* reads no character and no argument that is not there, and what it puts  *)
(* is what the directives mean.                                            *)
(***************************************************************************)
EXTENDS Printf, WellFoundedInduction, TLAPS

\* What a character does to a sequence of anything.
LEMMA AppendAny ==
  ASSUME NEW s, NEW len \in Nat, s = [k \in 1 .. len |-> s[k]], NEW e
  PROVE  Append(s, e) = [k \in 1 .. len + 1 |-> IF k = len + 1 THEN e ELSE s[k]]
<1> DEFINE S == {s[k] : k \in 1 .. len} \cup {e}
<1>1. \A k \in 1 .. len : s[k] \in S
  OBVIOUS
<1>2. s \in [1 .. len -> S] /\ e \in S
  BY <1>1
<1> HIDE DEF S
<1>3. s \in Seq(S) /\ Len(s) = len
  BY <1>2
<1> QED BY <1>2, <1>3

\* The invariant: between two characters the position in the buffer is the
\* number of characters put, up to the last byte, and nothing is left to put
\* before the first directive and after the last.
Stored ==
  /\ cnt \in Nat
  /\ put = [k \in 1 .. cnt |-> put[k]]
  /\ DOMAIN buf = 0 .. n
  /\ b = IF cnt < n THEN cnt ELSE n - 1
  /\ \A k \in 0 .. b - 1 : buf[k] = put[k + 1]
  /\ \A k \in b + 1 .. n : buf[k] = "?"

IInv ==
  /\ n \in Int
  /\ cnt \in Nat
  /\ Buffer => Stored
  /\ pc \in {"start", "done"} => out = <<>>
  /\ pc \notin {"start", "done"} => Buffer
  /\ Buffer /\ pc = "done" => buf[b] = NUL /\ ret = cnt

\* A buffer of n bytes is no null pointer.
LEMMA NotNull ==
  ASSUME NEW f, NEW m \in Int, m >= 1, DOMAIN f = 0 .. m
  PROVE  f # NULL
<1>1. 0 \in DOMAIN f
  OBVIOUS
<1>2. 0 \notin DOMAIN <<>>
  OBVIOUS
<1> QED BY <1>1, <1>2 DEF NULL

\* The invariant says what the buffer promises.
LEMMA InvBuffer == IInv => BufferHoldsPrefix
<1> SUFFICES ASSUME IInv, Buffer
             PROVE  cnt = Len(put)
  BY DEF IInv, Stored, BufferHoldsPrefix
<1>1. Len(put) = cnt
  BY DEF IInv, Stored
<1> QED BY <1>1

\* The buffer starts untouched.
LEMMA InitInv == Init => IInv
<1> SUFFICES ASSUME Init PROVE IInv
  OBVIOUS
<1>1. n \in Int /\ cnt = 0 /\ b = 0 /\ put = <<>> /\ out = <<>> /\ pc = "start"
  BY PrintfAssumption DEF Init
<1>2. buf \in {[k \in 0 .. n |-> "?"], NULL}
  BY DEF Init
<1>3. put = [k \in 1 .. 0 |-> put[k]]
  BY <1>1
<1>4. Buffer => Stored
  BY <1>1, <1>2, <1>3 DEF Stored, Buffer
<1> QED BY <1>1, <1>4 DEF IInv

\* A step that puts no character leaves the buffer alone.
LEMMA NoPut ==
  ASSUME IInv, UNCHANGED <<n, sprintbuf, put>>,
         pc' \in {"start", "done"} => out' = <<>>,
         pc' \notin {"start", "done"} => Buffer,
         Buffer /\ pc' = "done" => pc = "done" /\ ret' = ret
  PROVE  IInv'
BY DEF IInv, Stored, Buffer, sprintbuf

\* Every step keeps the invariant.
LEMMA NextInv == IInv /\ [Next]_vars => IInv'
<1> SUFFICES ASSUME IInv, [Next]_vars PROVE IInv'
  OBVIOUS
<1>1. CASE Vsnprintf
  <2>1. /\ UNCHANGED <<n, sprintbuf, put, out>> /\ out = <<>>
        /\ pc' = IF Buffer THEN "text" ELSE "done"
    BY <1>1 DEF Vsnprintf, IInv
  <2> QED BY <2>1, NoPut DEF IInv
<1>2. CASE Text \/ Percent \/ Flag \/ FirstDigit \/ NextDigit \/ Asterisk
  <2>1. /\ UNCHANGED <<n, sprintbuf, put>> /\ pc' \in {"text", "switch", "digits"}
        /\ pc \notin {"start", "done"}
    BY <1>2 DEF Text, Percent, Flag, FirstDigit, NextDigit, Asterisk, Ready
  <2> QED BY <2>1, NoPut DEF IInv
<1>3. CASE ConvertArg \/ ConvertPlain \/ Unrecognized
  <2>1. UNCHANGED <<n, sprintbuf, put>> /\ pc' = "text" /\ pc \notin {"start", "done"}
    BY <1>3 DEF ConvertArg, ConvertPlain, Unrecognized, Convert, Ready
  <2> QED BY <2>1, NoPut DEF IInv
<1>4. CASE End
  <2>1. /\ UNCHANGED <<n, b, cnt, put, out>> /\ out = <<>> /\ pc = "text"
        /\ pc' = "done" /\ ret' = cnt /\ buf' = [buf EXCEPT ![b] = NUL]
    BY <1>4 DEF End, Ready
  <2>2. Buffer /\ n \in Int /\ n >= 1 /\ Stored
    BY <2>1 DEF IInv, Buffer
  <2>3. Stored' /\ buf'[b] = NUL
    <3>1. b \in 0 .. n - 1 /\ b \in DOMAIN buf /\ n \in Int
      BY <2>2 DEF Stored
    <3>2. DOMAIN buf' = 0 .. n /\ buf'[b] = NUL
      BY <2>1, <2>2, <3>1 DEF Stored
    <3>3. \A k \in 0 .. n : k # b => buf'[k] = buf[k]
      BY <2>1, <2>2 DEF Stored
    <3>4. \A k \in 0 .. b - 1 : buf'[k] = put[k + 1]
      <4>1. \A k \in 0 .. b - 1 : k \in 0 .. n /\ k # b
        BY <2>2, <3>1
      <4> QED BY <2>2, <3>3, <4>1 DEF Stored
    <3>5. \A k \in b + 1 .. n : buf'[k] = "?"
      <4>1. \A k \in b + 1 .. n : k \in 0 .. n /\ k # b
        BY <2>2, <3>1
      <4> QED BY <2>2, <3>3, <4>1 DEF Stored
    <3> QED BY <2>1, <2>2, <3>2, <3>4, <3>5 DEF Stored
  <2> QED BY <2>1, <2>3 DEF IInv
<1>5. CASE Sprintputch
  <2> DEFINE c == Head(out)
  <2>1. /\ UNCHANGED <<n, pc>> /\ pc \notin {"start", "done"}
        /\ cnt' = cnt + 1 /\ put' = Append(put, c)
        /\ b < n - 1 => buf' = [buf EXCEPT ![b] = c] /\ b' = b + 1
        /\ ~(b < n - 1) => UNCHANGED <<buf, b>>
    BY <1>5 DEF Sprintputch, IInv, sprintbuf
  <2> HIDE DEF c
  <2>2. Buffer /\ n \in Int /\ n >= 1 /\ Stored
    BY <2>1 DEF IInv, Buffer
  <2>3. Stored'
    <3>1. n \in Int /\ cnt \in Nat /\ b \in 0 .. n - 1 /\ DOMAIN buf = 0 .. n
      BY <2>2 DEF Stored
    <3>2. put' = [k \in 1 .. cnt + 1 |-> IF k = cnt + 1 THEN c ELSE put[k]]
      BY <2>1, <2>2, AppendAny DEF Stored
    <3>3. /\ put' = [k \in 1 .. cnt' |-> put'[k]]
          /\ \A k \in 1 .. cnt : put'[k] = put[k]
          /\ put'[cnt + 1] = c
      BY <2>1, <3>1, <3>2
    <3>4. CASE b < n - 1
      <4>1. b = cnt /\ b' = b + 1 /\ DOMAIN buf' = 0 .. n /\ buf'[b] = c
        BY <2>1, <2>2, <3>1, <3>4 DEF Stored
      <4>2. \A k \in 0 .. n : k # b => buf'[k] = buf[k]
        BY <2>1, <3>1, <3>4
      <4>3. \A k \in 0 .. b' - 1 : buf'[k] = put'[k + 1]
        <5>1. \A k \in 0 .. b - 1 : k \in 0 .. n /\ k # b /\ k + 1 \in 1 .. cnt
          BY <2>2, <3>1, <4>1
        <5>2. \A k \in 0 .. b - 1 : buf'[k] = put'[k + 1]
          BY <2>2, <3>3, <4>2, <5>1 DEF Stored
        <5> QED BY <3>1, <3>3, <4>1, <5>2
      <4>4. \A k \in b' + 1 .. n : buf'[k] = "?"
        BY <2>2, <3>1, <4>1, <4>2 DEF Stored
      <4> QED BY <2>1, <2>2, <3>1, <3>3, <3>4, <4>1, <4>3, <4>4 DEF Stored
    <3>5. CASE ~(b < n - 1)
      <4>1. UNCHANGED <<buf, b>> /\ b = n - 1 /\ cnt >= n - 1
        BY <2>1, <2>2, <3>1, <3>5 DEF Stored
      <4>2. \A k \in 0 .. b - 1 : buf[k] = put'[k + 1]
        <5>1. \A k \in 0 .. b - 1 : k + 1 \in 1 .. cnt
          BY <2>2, <3>1, <4>1
        <5> QED BY <2>2, <3>3, <5>1 DEF Stored
      <4> QED BY <2>1, <2>2, <3>1, <3>3, <4>1, <4>2 DEF Stored
    <3> QED BY <3>4, <3>5
  <2>4. Buffer'
    <3>1. n' \in Int /\ n' >= 1 /\ DOMAIN buf' = 0 .. n'
      BY <2>1, <2>2, <2>3 DEF Stored
    <3> QED BY <3>1, NotNull DEF Buffer
  <2> QED BY <2>1, <2>3, <2>4 DEF IInv
<1>6. CASE UNCHANGED vars
  BY <1>6, NoPut DEF vars, IInv
<1> QED BY <1>1, <1>2, <1>3, <1>4, <1>5, <1>6 DEF Next, Done

\* Whatever the format puts, the buffer holds as much of it as fits before
\* its last byte, is terminated when vsnprintf returns, and the length of all
\* of the output is returned (sprintputch and vsnprintf, printfmt.c:262-285).
THEOREM Terminated == Spec => []BufferHoldsPrefix
BY InitInv, NextInv, InvBuffer, PTL DEF Spec

-----------------------------------------------------------------------------
(* Recursive functions on the naturals                                     *)

\* A set of naturals that is not empty has a least member.
LEMMA LeastMember ==
  ASSUME NEW T, T \subseteq Nat, T # {}
  PROVE  \E k \in T : \A i \in T : ~(i < k)
<1> DEFINE Less == OpToRel(<, Nat)
<1>1. IsWellFoundedOn(Less, Nat)
  BY NatLessThanWellFounded
<1>2. \A i, k \in Nat : <<i, k>> \in Less <=> i < k
  BY DEF OpToRel
<1> HIDE DEF Less
<1>3. \E k \in T : \A i \in T : ~(<<i, k>> \in Less)
  BY <1>1, WFMin
<1> QED BY <1>2, <1>3

\* A set that holds 0 and with a number the next one holds all.
LEMMA Climbs ==
  ASSUME NEW T, 0 \in T, \A k \in Nat : k \in T => k + 1 \in T
  PROVE  Nat \subseteq T
<1> DEFINE R == {k \in Nat : k \notin T}
<1> SUFFICES ASSUME R # {} PROVE FALSE
  OBVIOUS
<1>1. R \subseteq Nat /\ R # {}
  OBVIOUS
<1>2. PICK k \in R : \A i \in R : ~(i < k)
  <2> HIDE DEF R
  <2> QED BY <1>1, LeastMember
<1>3. k \in Nat /\ k \notin T /\ k # 0
  OBVIOUS
<1>4. k - 1 \in Nat /\ k - 1 < k /\ (k - 1) + 1 = k
  BY <1>3
<1>5. k - 1 \in T
  BY <1>2, <1>4
<1> QED BY <1>3, <1>4, <1>5

\* f starts with v0 and goes on from each value with h.
Iteration(f, V, v0, h) ==
  f \in [Nat -> V] /\ f[0] = v0 /\ \A k \in Nat : f[k + 1] = h[f[k]][k]

\* A value for 0 and a step from each number to the next make a function.
LEMMA Iterates ==
  ASSUME NEW V, NEW v0 \in V, NEW h,
         \A v \in V : \A k \in Nat : h[v][k] \in V
  PROVE  \E f : Iteration(f, V, v0, h)
<1> DEFINE Run(f, k) == /\ f \in [Nat -> V] /\ f[0] = v0
                        /\ \A i \in Nat : i < k => f[i + 1] = h[f[i]][i]
           T == {k \in Nat : \E f : Run(f, k)}
<1>1. 0 \in T
  <2>1. Run([i \in Nat |-> v0], 0)
    OBVIOUS
  <2> HIDE DEF Run
  <2> QED BY <2>1
<1>2. ASSUME NEW k \in Nat, k \in T PROVE k + 1 \in T
  <2>1. PICK f : Run(f, k)
    BY <1>2
  <2>2. f \in [Nat -> V] /\ h[f[k]][k] \in V
    BY <2>1
  <2> DEFINE g == [i \in Nat |-> IF i = k + 1 THEN h[f[k]][k] ELSE f[i]]
  <2>3. g \in [Nat -> V] /\ g[0] = v0
    BY <2>1, <2>2
  <2>4. ASSUME NEW i \in Nat, i < k + 1 PROVE g[i + 1] = h[g[i]][i]
    <3>1. g[i] = f[i]
      BY <2>4
    <3>2. CASE i = k
      BY <3>1, <3>2
    <3>3. CASE i # k
      <4>1. i < k /\ i + 1 # k + 1 /\ i + 1 \in Nat
        BY <2>4, <3>3
      <4> QED BY <2>1, <3>1, <4>1
    <3> QED BY <3>2, <3>3
  <2>5. Run(g, k + 1)
    BY <2>3, <2>4
  <2> HIDE DEF Run
  <2> QED BY <2>5
<1>3. Nat \subseteq T
  <2> HIDE DEF T
  <2> QED BY <1>1, <1>2, Climbs
<1>4. \A k \in Nat : \E f : Run(f, k)
  BY <1>3
<1> DEFINE F(k) == CHOOSE f : Run(f, k)
<1>5. \A k \in Nat : Run(F(k), k)
  BY <1>4
<1>6. ASSUME NEW f, NEW g, NEW k \in Nat, Run(f, k), Run(g, k)
      PROVE  f[k] = g[k]
  <2> DEFINE E == {i \in Nat : i <= k => f[i] = g[i]}
  <2>1. 0 \in E
    BY <1>6
  <2>2. ASSUME NEW i \in Nat, i \in E PROVE i + 1 \in E
    <3>1. i + 1 <= k => i <= k /\ i < k
      BY <1>6
    <3>2. i + 1 <= k => f[i + 1] = h[f[i]][i] /\ g[i + 1] = h[g[i]][i]
      BY <1>6, <3>1
    <3> QED BY <2>2, <3>1, <3>2
  <2>3. Nat \subseteq E
    <3> HIDE DEF E
    <3> QED BY <2>1, <2>2, Climbs
  <2> QED BY <1>6, <2>3
<1> DEFINE f == [k \in Nat |-> F(k)[k]]
<1>7. f \in [Nat -> V]
  <2>1. \A k \in Nat : F(k)[k] \in V
    BY <1>5
  <2> HIDE DEF F
  <2> QED BY <2>1
<1>8. f[0] = v0
  <2>1. Run(F(0), 0)
    BY <1>5
  <2> HIDE DEF F
  <2> QED BY <2>1
<1>9. ASSUME NEW k \in Nat PROVE f[k + 1] = h[f[k]][k]
  <2> HIDE DEF F, Run
  <2>1. k + 1 \in Nat /\ k <= k /\ k < k + 1 /\ \A i \in Nat : i < k => i < k + 1
    OBVIOUS
  <2>2. Run(F(k + 1), k + 1) /\ Run(F(k), k)
    BY <1>5, <2>1
  <2>3. Run(F(k + 1), k) /\ F(k + 1)[k + 1] = h[F(k + 1)[k]][k]
    BY <2>1, <2>2 DEF Run
  <2>4. F(k + 1)[k] = F(k)[k]
    BY <1>6, <2>1, <2>2, <2>3
  <2> QED BY <2>1, <2>3, <2>4
<1> HIDE DEF f
<1> QED BY <1>7, <1>8, <1>9 DEF Iteration

-----------------------------------------------------------------------------
(* Sequences                                                               *)

\* Two sequences in a row.
LEMMA Cat ==
  ASSUME NEW S, NEW s \in Seq(S), NEW t \in Seq(S)
  PROVE  /\ s \o t \in Seq(S) /\ Len(s \o t) = Len(s) + Len(t)
         /\ \A i \in 1 .. Len(s) : (s \o t)[i] = s[i]
         /\ \A i \in 1 .. Len(t) : (s \o t)[Len(s) + i] = t[i]
OBVIOUS

\* A row of equal characters.
LEMMA PadIs ==
  ASSUME NEW S, NEW c \in S, NEW k \in Int
  PROVE  /\ Pad(c, k) \in Seq(S) /\ Len(Pad(c, k)) = (IF k < 0 THEN 0 ELSE k)
         /\ \A i \in 1 .. Len(Pad(c, k)) : Pad(c, k)[i] = c
<1>1. CASE k >= 0
  <2>1. Pad(c, k) \in [1 .. k -> S] /\ k \in Nat
    BY <1>1 DEF Pad
  <2>2. Pad(c, k) \in Seq(S) /\ Len(Pad(c, k)) = k
    BY <2>1
  <2> QED BY <1>1, <2>2 DEF Pad
<1>2. CASE k < 0
  <2>1. 1 .. k = 1 .. 0
    BY <1>2
  <2>2. Pad(c, k) = [j \in 1 .. 0 |-> c]
    BY <2>1 DEF Pad
  <2>3. Pad(c, k) = <<>>
    BY <2>2
  <2> QED BY <1>2, <2>3
<1> QED BY <1>1, <1>2

\* One more character of a sequence.
LEMMA OneMore ==
  ASSUME NEW S, NEW s \in Seq(S), NEW j \in 0 .. Len(s) - 1
  PROVE  /\ SubSeq(s, 1, j) \in Seq(S)
         /\ SubSeq(s, 1, j + 1) = SubSeq(s, 1, j) \o <<s[j + 1]>>
OBVIOUS

\* All and none of a sequence.
LEMMA AllOf ==
  ASSUME NEW S, NEW s \in Seq(S)
  PROVE  SubSeq(s, 1, Len(s)) = s /\ SubSeq(s, 1, 0) = <<>>
OBVIOUS

\* The rows of the first so many sequences of a sequence.
LEMMA PrefixesAre ==
  ASSUME NEW S, NEW ss, Len(ss) \in Nat, \A k \in 1 .. Len(ss) : ss[k] \in Seq(S)
  PROVE  /\ \A k \in 0 .. Len(ss) : Prefixes(ss)[k] \in Seq(S)
         /\ Prefixes(ss)[0] = <<>>
         /\ \A k \in 1 .. Len(ss) : Prefixes(ss)[k] = Prefixes(ss)[k - 1] \o ss[k]
<1> DEFINE L == Len(ss)
           V == Seq(S)
           h == [v \in V |-> [k \in Nat |-> IF k + 1 <= L THEN v \o ss[k + 1] ELSE v]]
<1>1. <<>> \in V
  OBVIOUS
<1>2. \A v \in V : \A k \in Nat : h[v][k] \in V
  <2>1. ASSUME NEW v \in V, NEW k \in Nat
        PROVE  (IF k + 1 <= L THEN v \o ss[k + 1] ELSE v) \in V
    <3>1. k + 1 <= L => k + 1 \in 1 .. L
      OBVIOUS
    <3>2. k + 1 <= L => ss[k + 1] \in Seq(S)
      BY <3>1
    <3> QED BY <3>2
  <2> HIDE DEF L, V
  <2> QED BY <2>1
<1> HIDE DEF h, V
<1>3. PICK f \in [Nat -> V] : f[0] = <<>> /\ \A k \in Nat : f[k + 1] = h[f[k]][k]
  <2>1. \E f : Iteration(f, V, <<>>, h)
    BY <1>1, <1>2, Iterates
  <2> QED BY <2>1 DEF Iteration
<1> DEFINE g == [k \in 0 .. L |-> f[k]]
<1>4. ASSUME NEW k \in 0 .. L
      PROVE  g[k] = IF k = 0 THEN <<>> ELSE g[k - 1] \o ss[k]
  <2>1. CASE k = 0
    BY <1>3, <2>1
  <2>2. CASE k # 0
    <3>1. k - 1 \in Nat /\ k - 1 \in 0 .. L /\ (k - 1) + 1 = k /\ k <= L
      BY <2>2
    <3>2. f[k] = h[f[k - 1]][k - 1]
      BY <1>3, <3>1
    <3>3. f[k - 1] \in V
      BY <1>3, <3>1
    <3>4. h[f[k - 1]][k - 1] = f[k - 1] \o ss[k]
      BY <3>1, <3>3 DEF h
    <3> QED BY <2>2, <3>1, <3>2, <3>4
  <2> QED BY <2>1, <2>2
<1>5. g = [k \in 0 .. L |-> IF k = 0 THEN <<>> ELSE g[k - 1] \o ss[k]]
  <2>1. DOMAIN g = 0 .. L /\ g = [k \in 0 .. L |-> g[k]]
    OBVIOUS
  <2> HIDE DEF g
  <2> QED BY <1>4, <2>1
<1> DEFINE p == Prefixes(ss)
<1>6. p = [k \in 0 .. L |-> IF k = 0 THEN <<>> ELSE p[k - 1] \o ss[k]]
  <2> HIDE DEF g
  <2> QED BY <1>5 DEF Prefixes
<1>7. \A k \in 0 .. L : p[k] = IF k = 0 THEN <<>> ELSE p[k - 1] \o ss[k]
  <2> HIDE DEF p
  <2> QED BY <1>6
<1>8. ASSUME NEW k \in Nat PROVE k <= L => p[k] \in V
  <2> DEFINE T == {i \in Nat : i <= L => p[i] \in V}
  <2> HIDE DEF p
  <2>1. 0 \in T
    <3>1. 0 \in 0 .. L
      OBVIOUS
    <3> QED BY <1>1, <1>7, <3>1
  <2>2. ASSUME NEW i \in Nat, i \in T PROVE i + 1 \in T
    <3>1. CASE i + 1 <= L
      <4>1. i <= L /\ i + 1 \in 0 .. L /\ i + 1 \in 1 .. L /\ i + 1 # 0 /\ (i + 1) - 1 = i
        BY <3>1
      <4>2. p[i + 1] = p[i] \o ss[i + 1]
        BY <1>7, <4>1
      <4>3. p[i] \in Seq(S) /\ ss[i + 1] \in Seq(S)
        BY <2>2, <4>1 DEF V
      <4>4. p[i] \o ss[i + 1] \in V
        BY <4>3 DEF V
      <4>5. p[i + 1] \in V
        BY <4>2, <4>4
      <4> QED BY <4>5
    <3> QED BY <3>1
  <2>3. Nat \subseteq T
    <3> HIDE DEF T
    <3> QED BY <2>1, <2>2, Climbs
  <2> QED BY <2>3
<1> HIDE DEF p
<1>9. /\ \A k \in 0 .. L : p[k] \in V
      /\ p[0] = <<>>
      /\ \A k \in 1 .. L : p[k] = p[k - 1] \o ss[k]
  <2>1. 0 \in 0 .. L /\ \A k \in 1 .. L : k \in 0 .. L /\ k # 0
    OBVIOUS
  <2>2. \A k \in 0 .. L : k \in Nat /\ k <= L
    OBVIOUS
  <2> HIDE DEF L
  <2> QED BY <1>7, <1>8, <2>1, <2>2
<1> QED BY <1>9 DEF p, V

\* t begins with s.
Begins(s, t) == Len(s) <= Len(t) /\ \A j \in 1 .. Len(s) : t[j] = s[j]

\* A longer row begins with the shorter.
LEMMA RowsGrow ==
  ASSUME NEW S, NEW ss, Len(ss) \in Nat, \A k \in 1 .. Len(ss) : ss[k] \in Seq(S),
         NEW k \in 0 .. Len(ss)
  PROVE  Flatten(ss) \in Seq(S) /\ Begins(Prefixes(ss)[k], Flatten(ss))
<1> DEFINE L == Len(ss)
           p == Prefixes(ss)
           T == {m \in Nat : k + m <= L => Begins(p[k], p[k + m])}
<1>1. /\ \A i \in 0 .. L : p[i] \in Seq(S)
      /\ \A i \in 1 .. L : p[i] = p[i - 1] \o ss[i]
  BY PrefixesAre
<1> HIDE DEF p
<1>2. 0 \in T
  <2>1. p[k] \in Seq(S) /\ k + 0 = k
    BY <1>1
  <2>2. Begins(p[k], p[k])
    BY <2>1 DEF Begins
  <2> QED BY <2>1, <2>2
<1>3. ASSUME NEW m \in Nat, m \in T PROVE m + 1 \in T
  <2>1. SUFFICES ASSUME k + (m + 1) <= L PROVE Begins(p[k], p[k + (m + 1)])
    OBVIOUS
  <2> DEFINE i == k + m
  <2>2. /\ i \in 0 .. L /\ i + 1 \in 1 .. L /\ (i + 1) - 1 = i /\ i <= L
        /\ k + (m + 1) = i + 1
    BY <2>1
  <2>3. Begins(p[k], p[i])
    BY <1>3, <2>2
  <2> HIDE DEF i
  <2>4. p[i + 1] = p[i] \o ss[i + 1] /\ p[i] \in Seq(S) /\ ss[i + 1] \in Seq(S)
    BY <1>1, <2>2
  <2>5. p[k] \in Seq(S)
    BY <1>1
  <2>6. /\ Len(p[i + 1]) >= Len(p[i]) /\ Len(p[i]) \in Nat /\ Len(p[i + 1]) \in Nat
        /\ \A j \in 1 .. Len(p[i]) : p[i + 1][j] = p[i][j]
    <3> DEFINE s == p[i]
               t == ss[i + 1]
    <3>1. s \in Seq(S) /\ t \in Seq(S) /\ p[i + 1] = s \o t
      BY <2>4
    <3> HIDE DEF s, t
    <3>2. /\ s \o t \in Seq(S) /\ Len(s \o t) = Len(s) + Len(t)
          /\ \A j \in 1 .. Len(s) : (s \o t)[j] = s[j]
      BY <3>1, Cat
    <3>3. Len(s) \in Nat /\ Len(t) \in Nat
      BY <3>1
    <3> QED BY <3>1, <3>2, <3>3 DEF s
  <2>7. Len(p[k]) \in Nat
    BY <2>5
  <2>8. Begins(p[k], p[i + 1])
    BY <2>3, <2>6, <2>7 DEF Begins
  <2> QED BY <2>2, <2>8
<1>4. Nat \subseteq T
  <2> HIDE DEF T
  <2> QED BY <1>2, <1>3, Climbs
<1>5. L - k \in Nat /\ k + (L - k) = L
  OBVIOUS
<1>6. Begins(p[k], p[L])
  <2>1. L - k \in T
    BY <1>4, <1>5
  <2>2. k + (L - k) <= L => Begins(p[k], p[k + (L - k)])
    BY <2>1
  <2> QED BY <1>5, <2>2
<1>7. Flatten(ss) = p[L]
  BY DEF Flatten, p
<1>8. L \in 0 .. L
  OBVIOUS
<1> QED BY <1>1, <1>6, <1>7, <1>8 DEF p

\* The k-th sequence is in the row of all.
Found(ss, k) ==
  /\ Len(Prefixes(ss)[k - 1]) \in Nat
  /\ Len(Prefixes(ss)[k]) = Len(Prefixes(ss)[k - 1]) + Len(ss[k])
  /\ Len(Prefixes(ss)[k]) <= Len(Flatten(ss))
  /\ \A j \in 1 .. Len(ss[k]) : Flatten(ss)[Len(Prefixes(ss)[k - 1]) + j] = ss[k][j]

\* Where an element of a sequence is in the row of all.
LEMMA InRow ==
  ASSUME NEW S, NEW ss, Len(ss) \in Nat, \A k \in 1 .. Len(ss) : ss[k] \in Seq(S),
         NEW k \in 1 .. Len(ss)
  PROVE  Found(ss, k)
<1>1. k - 1 \in 0 .. Len(ss) /\ k \in 0 .. Len(ss)
  OBVIOUS
<1>2. Begins(Prefixes(ss)[k], Flatten(ss))
  BY <1>1, RowsGrow
<1> DEFINE s == Prefixes(ss)[k - 1]
           t == ss[k]
           F == Flatten(ss)
<1>3. s \in Seq(S) /\ t \in Seq(S) /\ Prefixes(ss)[k] = s \o t
  BY <1>1, PrefixesAre
<1>4. Len(s \o t) <= Len(F) /\ \A j \in 1 .. Len(s \o t) : F[j] = (s \o t)[j]
  BY <1>2, <1>3 DEF Begins
<1> HIDE DEF s, t, F
<1>5. /\ s \o t \in Seq(S) /\ Len(s \o t) = Len(s) + Len(t)
      /\ \A i \in 1 .. Len(t) : (s \o t)[Len(s) + i] = t[i]
  BY <1>3, Cat
<1>6. Len(s) \in Nat /\ Len(t) \in Nat
  BY <1>3
<1>7. ASSUME NEW j \in 1 .. Len(t) PROVE F[Len(s) + j] = t[j]
  <2>1. Len(s) + j \in 1 .. Len(s \o t)
    BY <1>5, <1>6
  <2> QED BY <1>4, <1>5, <2>1
<1> QED BY <1>3, <1>4, <1>5, <1>6, <1>7 DEF s, t, F, Found

-----------------------------------------------------------------------------
(* Numerals                                                                *)

\* The powers of a base.
LEMMA PowerIs ==
  ASSUME NEW B \in Nat
  PROVE  /\ \A k \in Nat : Power(B)[k] \in Nat
         /\ Power(B)[0] = 1
         /\ \A k \in Nat : Power(B)[k + 1] = B * Power(B)[k]
<1> DEFINE h == [v \in Nat |-> [k \in Nat |-> B * v]]
<1>1. \A v \in Nat : \A k \in Nat : h[v][k] \in Nat /\ h[v][k] = B * v
  <2>1. \A v \in Nat : B * v \in Nat
    OBVIOUS
  <2> QED BY <2>1
<1> HIDE DEF h
<1>2. PICK f : Iteration(f, Nat, 1, h)
  <2>1. 1 \in Nat
    OBVIOUS
  <2> QED BY <1>1, <2>1, Iterates
<1>3. /\ f \in [Nat -> Nat] /\ f[0] = 1
      /\ \A k \in Nat : f[k + 1] = B * f[k]
  BY <1>1, <1>2 DEF Iteration
<1>4. ASSUME NEW k \in Nat PROVE f[k] = IF k = 0 THEN 1 ELSE B * f[k - 1]
  <2>1. CASE k = 0
    BY <1>3, <2>1
  <2>2. CASE k # 0
    <3>1. k - 1 \in Nat /\ (k - 1) + 1 = k
      BY <2>2
    <3>2. f[(k - 1) + 1] = B * f[k - 1]
      BY <1>3, <3>1
    <3> QED BY <2>2, <3>1, <3>2
  <2> QED BY <2>1, <2>2
<1>5. f = [k \in Nat |-> IF k = 0 THEN 1 ELSE B * f[k - 1]]
  BY <1>3, <1>4
<1> DEFINE p == Power(B)
<1>6. p = [k \in Nat |-> IF k = 0 THEN 1 ELSE B * p[k - 1]]
  BY <1>5 DEF Power
<1> HIDE DEF p
<1>7. \A k \in Nat : p[k] = IF k = 0 THEN 1 ELSE B * p[k - 1]
  BY <1>6
<1>8. ASSUME NEW k \in Nat PROVE p[k + 1] = B * p[k]
  <2>1. k + 1 \in Nat /\ k + 1 # 0 /\ (k + 1) - 1 = k
    OBVIOUS
  <2>2. p[k + 1] = B * p[(k + 1) - 1]
    BY <1>7, <2>1
  <2> QED BY <2>1, <2>2
<1>9. p[0] = 1
  BY <1>7
<1>10. Nat \subseteq {k \in Nat : p[k] \in Nat}
  <2> DEFINE T == {k \in Nat : p[k] \in Nat}
  <2>1. 0 \in T
    BY <1>9
  <2>2. ASSUME NEW k \in Nat, k \in T PROVE k + 1 \in T
    <3>1. p[k] \in Nat
      BY <2>2
    <3> DEFINE q == p[k]
    <3>2. B * q \in Nat
      <4> HIDE DEF q
      <4> QED BY <3>1 DEF q
    <3> QED BY <1>8, <3>2
  <2> HIDE DEF T
  <2>3. Nat \subseteq T
    BY <2>1, <2>2, Climbs
  <2> QED BY <2>3 DEF T
<1> QED BY <1>8, <1>9, <1>10 DEF p

\* Dividing by two numbers is dividing by their product.
LEMMA DivDiv ==
  ASSUME NEW v \in Nat, NEW B \in Nat \ {0}, NEW p \in Nat \ {0}
  PROVE  (v \div B) \div p = v \div (B * p)
OBVIOUS

\* Powers are positive and grow.
LEMMA PowersGrow ==
  ASSUME NEW B \in Nat \ {0}, NEW k \in Nat, NEW m \in Nat
  PROVE  Power(B)[k] \in Nat \ {0} /\ Power(B)[k] <= Power(B)[k + m]
<1> DEFINE p == Power(B)
           T == {i \in Nat : p[i] # 0}
           U == {i \in Nat : p[k] <= p[k + i]}
<1>1. /\ B \in Nat /\ \A i \in Nat : p[i] \in Nat
      /\ p[0] = 1 /\ \A i \in Nat : p[i + 1] = B * p[i]
  BY PowerIs
<1>2. \A x \in Nat : x # 0 => B * x # 0 /\ x <= B * x
  OBVIOUS
<1> HIDE DEF p
<1>3. Nat \subseteq T
  <2>1. 0 \in T
    BY <1>1
  <2>2. ASSUME NEW i \in Nat, i \in T PROVE i + 1 \in T
    BY <1>1, <1>2, <2>2
  <2> HIDE DEF T
  <2> QED BY <2>1, <2>2, Climbs
<1>4. \A i \in Nat : p[i] \in Nat /\ p[i] # 0 /\ p[i] <= p[i + 1]
  BY <1>1, <1>2, <1>3
<1>5. Nat \subseteq U
  <2>1. 0 \in U
    BY <1>4
  <2>2. ASSUME NEW i \in Nat, i \in U PROVE i + 1 \in U
    <3>1. k + i \in Nat /\ k + (i + 1) = (k + i) + 1 /\ k + (i + 1) \in Nat
      OBVIOUS
    <3>2. p[k] <= p[k + i] /\ p[k + i] <= p[k + (i + 1)]
      BY <1>4, <2>2, <3>1
    <3>3. p[k] \in Nat /\ p[k + i] \in Nat /\ p[k + (i + 1)] \in Nat
      BY <1>4, <3>1
    <3>4. p[k] <= p[k + (i + 1)]
      BY <3>2, <3>3
    <3> QED BY <3>4
  <2> HIDE DEF U
  <2> QED BY <2>1, <2>2, Climbs
<1> QED BY <1>4, <1>5 DEF p

\* v has k digits.
Placed(v, B, k) ==
  (k = 1 \/ Power(B)[k - 1] <= v) /\ v < Power(B)[k]

\* No number has two counts of digits.
LEMMA PlacedOnce ==
  ASSUME NEW B \in Nat \ {0}, NEW v \in Nat, NEW k \in Nat \ {0}, NEW m \in Nat \ {0},
         Placed(v, B, k), Placed(v, B, m)
  PROVE  k = m
<1>1. ASSUME NEW i \in Nat \ {0}, NEW j \in Nat \ {0}, Placed(v, B, i), Placed(v, B, j)
      PROVE  ~(i < j)
  <2>1. SUFFICES ASSUME i < j PROVE FALSE
    OBVIOUS
  <2>2. i \in Nat /\ (j - 1) - i \in Nat /\ i + ((j - 1) - i) = j - 1 /\ j # 1
    BY <2>1
  <2>3. Power(B)[i] <= Power(B)[i + ((j - 1) - i)]
    BY <2>2, PowersGrow
  <2>4. j - 1 \in Nat /\ 0 \in Nat
    BY <2>2
  <2>5. Power(B)[i] \in Nat /\ Power(B)[j - 1] \in Nat
    BY <2>2, <2>4, PowersGrow
  <2>6. Power(B)[j - 1] <= v /\ v < Power(B)[i]
    BY <1>1, <2>2 DEF Placed
  <2> QED BY <2>2, <2>3, <2>5, <2>6
<1>2. ~(k < m) /\ ~(m < k)
  BY <1>1
<1> QED BY <1>2

\* One digit, and one more.
LEMMA PlacedSteps ==
  ASSUME NEW B \in Nat \ {0, 1}, NEW v \in Nat
  PROVE  /\ v < B => Placed(v, B, 1)
         /\ \A k \in Nat \ {0} :
              B <= v /\ Placed(v \div B, B, k) => Placed(v, B, k + 1)
<1>1. /\ \A k \in Nat : Power(B)[k] \in Nat
      /\ Power(B)[0] = 1
      /\ \A k \in Nat : Power(B)[k + 1] = B * Power(B)[k]
  BY PowerIs
<1>2. Power(B)[1] = B
  <2>1. Power(B)[0 + 1] = B * Power(B)[0]
    BY <1>1
  <2> QED BY <1>1, <2>1
<1>3. v < B => Placed(v, B, 1)
  BY <1>2 DEF Placed
<1>4. ASSUME NEW k \in Nat \ {0}, B <= v, Placed(v \div B, B, k)
      PROVE  Placed(v, B, k + 1)
  <2> DEFINE q == v \div B
             x == Power(B)[k]
  <2>1. q \in Nat /\ B * q <= v /\ v < B * q + B
    OBVIOUS
  <2>2. x \in Nat /\ Power(B)[k + 1] = B * x /\ (k + 1) - 1 = k
    BY <1>1
  <2>3. q < x
    BY <1>4 DEF Placed
  <2>4. \A y, z \in Nat : y < z => B * y + B <= B * z
    OBVIOUS
  <2>5. v < Power(B)[k + 1]
    <3> HIDE DEF q, x
    <3>1. B * q + B <= B * x
      BY <2>1, <2>2, <2>3, <2>4
    <3>2. B * q \in Nat /\ B * x \in Nat
      BY <2>1, <2>2
    <3> QED BY <2>1, <2>2, <3>1, <3>2
  <2>6. x <= v
    <3>1. CASE k = 1
      BY <1>2, <1>4, <3>1
    <3>2. CASE k # 1
      <4> DEFINE y == Power(B)[k - 1]
      <4>1. k - 1 \in Nat /\ (k - 1) + 1 = k
        OBVIOUS
      <4>2. y \in Nat /\ x = B * y
        BY <1>1, <4>1
      <4>3. y <= q
        BY <1>4, <3>2 DEF Placed
      <4>4. \A z, w \in Nat : z <= w => B * z <= B * w
        OBVIOUS
      <4> HIDE DEF x, y, q
      <4>5. B * y <= B * q /\ B * y \in Nat /\ B * q \in Nat
        BY <2>1, <4>2, <4>3, <4>4
      <4> QED BY <2>1, <4>2, <4>5
    <3> QED BY <3>1, <3>2
  <2> QED BY <2>2, <2>5, <2>6 DEF Placed
<1> QED BY <1>3, <1>4

\* Every number has its count of digits.
LEMMA PlacesIs ==
  ASSUME NEW B \in Nat \ {0, 1}, NEW v \in Nat
  PROVE  Places(v, B) \in Nat \ {0} /\ Placed(v, B, Places(v, B))
<1> DEFINE T == {x \in Nat : ~\E k \in 1 .. x + 1 : Placed(x, B, k)}
<1>1. T = {}
  <2>1. SUFFICES ASSUME T # {} PROVE FALSE
    OBVIOUS
  <2>2. PICK x \in T : \A y \in T : ~(y < x)
    <3>1. T \subseteq Nat
      OBVIOUS
    <3> HIDE DEF T
    <3> QED BY <2>1, <3>1, LeastMember
  <2>3. x \in Nat /\ ~\E k \in 1 .. x + 1 : Placed(x, B, k)
    OBVIOUS
  <2>4. 1 \in 1 .. x + 1
    BY <2>3
  <2>5. ~(x < B)
    BY <2>3, <2>4, PlacedSteps
  <2>6. B <= x /\ x \div B \in Nat /\ x \div B < x
    BY <2>3, <2>5
  <2> DEFINE q == x \div B
  <2>7. q \notin T
    BY <2>2, <2>6
  <2>8. PICK k \in 1 .. q + 1 : Placed(q, B, k)
    BY <2>6, <2>7
  <2>9. k \in Nat \ {0} /\ k + 1 \in 1 .. x + 1
    <3> HIDE DEF q
    <3>1. q \in Nat /\ q < x
      BY <2>6 DEF q
    <3> QED BY <2>3, <2>8, <3>1
  <2>10. Placed(x, B, k + 1)
    BY <2>3, <2>6, <2>8, <2>9, PlacedSteps
  <2> QED BY <2>3, <2>9, <2>10
<1>2. \E k \in 1 .. v + 1 : Placed(v, B, k)
  BY <1>1
<1>3. Places(v, B) = CHOOSE k \in 1 .. v + 1 : Placed(v, B, k)
  BY DEF Places, Placed
<1>4. Places(v, B) \in 1 .. v + 1 /\ Placed(v, B, Places(v, B))
  BY <1>2, <1>3
<1> QED BY <1>4

\* A count of digits is the count.
LEMMA PlacesAre ==
  ASSUME NEW B \in Nat \ {0, 1}, NEW v \in Nat, NEW k \in Nat \ {0}, Placed(v, B, k)
  PROVE  Places(v, B) = k
<1>1. Places(v, B) \in Nat \ {0} /\ Placed(v, B, Places(v, B))
  BY PlacesIs
<1> HIDE DEF Placed
<1> QED BY <1>1, PlacedOnce

\* The digits as characters.
LEMMA Hex ==
  /\ \A i \in 1 .. 16 : Hexdigits[i] \in Char
  /\ Digits \subseteq Char
  /\ \A i, j \in 1 .. 10 : Hexdigits[i] = Hexdigits[j] => i = j
<1>1. \A i \in 1 .. 16 : Hexdigits[i] \in Char
  BY PrintfAssumption
<1>2. \A i, j \in 1 .. 10 : Hexdigits[i] = Hexdigits[j] => i = j
  BY DEF Hexdigits
<1> QED BY <1>1, <1>2 DEF Digits

Bases == 2 .. 16
Digit(d) == Hexdigits[d + 1]

\* A numeral and its digits.
LEMMA NumeralIs ==
  ASSUME NEW B \in Bases, NEW v \in Nat
  PROVE  /\ Numeral(v, B) \in Seq(Char) /\ Len(Numeral(v, B)) = Places(v, B)
         /\ Places(v, B) \in Nat \ {0}
         /\ \A j \in 1 .. Places(v, B) :
              Numeral(v, B)[j] = Digit((v \div Power(B)[Places(v, B) - j]) % B)
<1> DEFINE k == Places(v, B)
           D(j) == Digit((v \div Power(B)[k - j]) % B)
<1>1. B \in Nat \ {0, 1} /\ B \in Nat \ {0} /\ B <= 16
  BY DEF Bases
<1>2. k \in Nat \ {0}
  BY <1>1, PlacesIs
<1>3. Numeral(v, B) = [j \in 1 .. k |-> D(j)]
  BY DEF Numeral, Digit
<1> HIDE DEF k
<1>4. ASSUME NEW j \in 1 .. k PROVE D(j) \in Char
  <2> DEFINE p == Power(B)[k - j]
             q == v \div p
  <2>1. k - j \in Nat /\ 0 \in Nat
    BY <1>2
  <2>2. p \in Nat \ {0}
    BY <1>1, <2>1, PowersGrow
  <2> HIDE DEF p
  <2>3. q \in Nat
    BY <2>2
  <2> HIDE DEF q
  <2>4. (q % B) + 1 \in 1 .. 16
    BY <1>1, <2>3
  <2>5. Digit(q % B) \in Char
    BY <2>4, Hex DEF Digit
  <2> QED BY <2>5 DEF p, q
<1> HIDE DEF D
<1>5. Numeral(v, B) \in [1 .. k -> Char]
  BY <1>3, <1>4
<1>6. Numeral(v, B) \in Seq(Char) /\ Len(Numeral(v, B)) = k
  BY <1>2, <1>5
<1>7. \A j \in 1 .. k : Numeral(v, B)[j] = D(j)
  BY <1>3
<1> QED BY <1>2, <1>6, <1>7 DEF k, D

\* A numeral of one digit.
LEMMA NumeralSmall ==
  ASSUME NEW B \in Bases, NEW v \in Nat, v < B
  PROVE  Numeral(v, B) = <<Digit(v)>>
<1>1. B \in Nat \ {0, 1} /\ B \in Nat
  BY DEF Bases
<1>2. Placed(v, B, 1)
  BY <1>1, PlacedSteps
<1>3. Places(v, B) = 1
  <2>1. 1 \in Nat \ {0}
    OBVIOUS
  <2> QED BY <1>1, <1>2, <2>1, PlacesAre
<1>4. (v \div 1) % B = v
  BY <1>1
<1>5. Power(B)[1 - 1] = 1
  BY <1>1, PowerIs
<1>6. /\ Numeral(v, B) \in Seq(Char) /\ Len(Numeral(v, B)) = 1
      /\ Numeral(v, B)[1] = Digit(v)
  <2>1. 1 \in 1 .. Places(v, B)
    BY <1>3
  <2>2. Numeral(v, B)[1] = Digit((v \div Power(B)[Places(v, B) - 1]) % B)
    BY <2>1, NumeralIs
  <2>3. Numeral(v, B) \in Seq(Char) /\ Len(Numeral(v, B)) = Places(v, B)
    BY NumeralIs
  <2> QED BY <1>3, <1>4, <1>5, <2>2, <2>3
<1> QED BY <1>6

\* A longer numeral ends in the last digit.
LEMMA NumeralLarge ==
  ASSUME NEW B \in Bases, NEW v \in Nat, B <= v
  PROVE  Numeral(v, B) = Numeral(v \div B, B) \o <<Digit(v % B)>>
<1> DEFINE q == v \div B
           k == Places(q, B)
           s == Numeral(v, B)
           t == Numeral(q, B)
           e == Digit(v % B)
<1>1. B \in Nat \ {0, 1} /\ B \in Nat \ {0} /\ B <= 16
  BY DEF Bases
<1>2. q \in Nat
  BY <1>1
<1>3. k \in Nat \ {0} /\ Placed(q, B, k)
  BY <1>1, <1>2, PlacesIs
<1>4. Placed(v, B, k + 1) /\ k + 1 \in Nat \ {0}
  <2>1. ASSUME NEW m \in Nat \ {0}, Placed(v \div B, B, m)
        PROVE  Placed(v, B, m + 1)
    BY <1>1, <2>1, PlacedSteps
  <2> HIDE DEF k
  <2> QED BY <1>3, <2>1
<1>5. Places(v, B) = k + 1
  BY <1>1, <1>4, PlacesAre
<1>6. s \in Seq(Char) /\ Len(s) = k + 1
  BY <1>5, NumeralIs
<1>7. t \in Seq(Char) /\ Len(t) = k
  BY <1>2, NumeralIs
<1>8. ASSUME NEW j \in 1 .. k + 1
      PROVE  s[j] = Digit((v \div Power(B)[k + 1 - j]) % B)
  <2>1. s[j] = Digit((v \div Power(B)[Places(v, B) - j]) % B)
    <3>1. j \in 1 .. Places(v, B)
      BY <1>5
    <3> QED BY <3>1, NumeralIs
  <2> HIDE DEF k, s
  <2>2. Places(v, B) - j = k + 1 - j
    BY <1>3, <1>5
  <2> QED BY <2>1, <2>2
<1>9. \A j \in 1 .. k : t[j] = Digit((q \div Power(B)[k - j]) % B)
  BY <1>2, NumeralIs
<1>10. ASSUME NEW j \in 1 .. k PROVE s[j] = t[j]
  <2> DEFINE p == Power(B)[k - j]
  <2>1. k - j \in Nat /\ (k - j) + 1 = k + 1 - j /\ j \in 1 .. k + 1
    BY <1>3
  <2>2. p \in Nat \ {0}
    BY <1>1, <2>1, PowersGrow
  <2>3. Power(B)[(k - j) + 1] = B * p
    BY <1>1, <2>1, PowerIs
  <2>4. q \div p = v \div (B * p)
    <3> HIDE DEF p
    <3> QED BY <1>1, <2>2, DivDiv
  <2>5. s[j] = Digit((v \div (B * p)) % B)
    BY <1>8, <2>1, <2>3
  <2>6. t[j] = Digit((q \div p) % B)
    BY <1>9
  <2> HIDE DEF p, q, s, t
  <2> QED BY <2>4, <2>5, <2>6
<1>11. s[k + 1] = e
  <2> DEFINE m == k + 1
  <2>1. m \in 1 .. k + 1 /\ k + 1 - m = 0
    BY <1>3
  <2>2. Power(B)[0] = 1 /\ v \div 1 = v
    BY <1>1, PowerIs
  <2> HIDE DEF m, k, s
  <2>3. s[m] = Digit((v \div Power(B)[k + 1 - m]) % B)
    BY <1>8, <2>1
  <2>4. s[m] = Digit(v % B)
    BY <2>1, <2>2, <2>3
  <2> QED BY <2>4 DEF m
<1>12. e \in Char
  <2>1. (v % B) + 1 \in 1 .. 16
    BY <1>1
  <2> QED BY <2>1, Hex DEF Digit
<1> HIDE DEF q, k, s, t, e
<1>13. s = t \o <<e>>
  BY <1>3, <1>6, <1>7, <1>10, <1>11, <1>12
<1> QED BY <1>13 DEF q, s, t, e

\* printnum as its recursion says.
Prints(f, B, c) ==
  f = [x \in Nat |-> [k \in Int |->
         (IF x >= B THEN f[x \div B][k - 1] ELSE Pad(c, k - 1))
           \o <<Hexdigits[(x % B) + 1]>>]]

\* The field of a numeral.
Field(x, B, k, c) == Pad(c, k - Len(Numeral(x, B))) \o Numeral(x, B)

\* One step of the recursion.
LEMMA FieldStep ==
  ASSUME NEW B \in Bases, NEW c \in Char, NEW x \in Nat, NEW k \in Int
  PROVE  /\ Field(x, B, k, c) \in Seq(Char)
         /\ x < B => Field(x, B, k, c) = Pad(c, k - 1) \o <<Hexdigits[(x % B) + 1]>>
         /\ B <= x => Field(x, B, k, c)
                        = Field(x \div B, B, k - 1, c) \o <<Hexdigits[(x % B) + 1]>>
<1> DEFINE s == Numeral(x, B)
<1>1. s \in Seq(Char) /\ Len(s) \in Nat
  BY NumeralIs
<1>2. k - Len(s) \in Int
  BY <1>1
<1>3. Pad(c, k - Len(s)) \in Seq(Char)
  BY <1>2, PadIs
<1>4. Field(x, B, k, c) \in Seq(Char)
  <2> HIDE DEF s
  <2>1. Pad(c, k - Len(s)) \o s \in Seq(Char)
    BY <1>1, <1>3
  <2> QED BY <2>1 DEF Field, s
<1>5. ASSUME x < B
      PROVE  Field(x, B, k, c) = Pad(c, k - 1) \o <<Hexdigits[(x % B) + 1]>>
  <2>1. s = <<Digit(x)>>
    BY <1>5, NumeralSmall
  <2>2. Len(s) = 1 /\ x % B = x
    BY <1>5, <2>1 DEF Bases
  <2> QED BY <2>1, <2>2 DEF Field, Digit
<1>6. ASSUME B <= x
      PROVE  Field(x, B, k, c)
               = Field(x \div B, B, k - 1, c) \o <<Hexdigits[(x % B) + 1]>>
  <2> DEFINE q == x \div B
             t == Numeral(q, B)
             e == Hexdigits[(x % B) + 1]
             p == Pad(c, k - Len(s))
  <2>1. s = t \o <<e>>
    BY <1>6, NumeralLarge DEF Digit
  <2>2. q \in Nat /\ (x % B) + 1 \in 1 .. 16
    BY DEF Bases
  <2>3. t \in Seq(Char) /\ e \in Char
    BY <2>2, NumeralIs, Hex
  <2> HIDE DEF s, q, t, e
  <2>4. Len(s) = Len(t) + 1 /\ Len(t) \in Nat
    BY <2>1, <2>3
  <2>5. k - Len(s) = (k - 1) - Len(t)
    BY <2>4
  <2>6. p \in Seq(Char)
    BY <1>3
  <2>7. p = Pad(c, (k - 1) - Len(t))
    BY <2>5
  <2> HIDE DEF p
  <2>8. p \o (t \o <<e>>) = (p \o t) \o <<e>>
    BY <2>3, <2>6
  <2>9. Field(x, B, k, c) = p \o s
    BY DEF Field, s, p
  <2>10. Field(q, B, k - 1, c) = p \o t
    BY <2>7 DEF Field, t
  <2>11. Field(x, B, k, c) = Field(q, B, k - 1, c) \o <<e>>
    BY <2>1, <2>8, <2>9, <2>10
  <2> QED BY <2>11 DEF q, e
<1> QED BY <1>4, <1>5, <1>6

\* printnum's recursion has a function, and it is the field of the numeral.
LEMMA PrintNumIs ==
  ASSUME NEW B \in Bases, NEW c \in Char, NEW v \in Nat, NEW w \in Int
  PROVE  PrintNum(v, B, w, c) = Field(v, B, w, c)
<1>1. /\ B \in Nat \ {0, 1}
      /\ \A x \in Nat : x \div B \in Nat /\ (B <= x => x \div B < x)
  BY DEF Bases
<1>2. \E f : Prints(f, B, c)
  <2> DEFINE g == [x \in Nat |-> [k \in Int |-> Field(x, B, k, c)]]
  <2>1. ASSUME NEW x \in Nat, NEW k \in Int
        PROVE  Field(x, B, k, c)
                 = (IF x >= B THEN g[x \div B][k - 1] ELSE Pad(c, k - 1))
                     \o <<Hexdigits[(x % B) + 1]>>
    <3>1. CASE x >= B
      <4>1. x \div B \in Nat /\ k - 1 \in Int
        BY <1>1
      <4>2. g[x \div B][k - 1] = Field(x \div B, B, k - 1, c)
        BY <4>1
      <4>3. B <= x
        BY <1>1, <3>1
      <4>4. Field(x, B, k, c)
              = Field(x \div B, B, k - 1, c) \o <<Hexdigits[(x % B) + 1]>>
        <5> HIDE DEF g
        <5> QED BY <4>3, FieldStep
      <4> HIDE DEF g
      <4> QED BY <3>1, <4>2, <4>4
    <3>2. CASE ~(x >= B)
      <4>1. x < B
        BY <1>1, <3>2
      <4> QED BY <3>2, <4>1, FieldStep
    <3> QED BY <3>1, <3>2
  <2>2. Prints(g, B, c)
    BY <2>1 DEF Prints
  <2> HIDE DEF g
  <2> QED BY <2>2
<1> DEFINE f == CHOOSE f : Prints(f, B, c)
<1>3. Prints(f, B, c)
  BY <1>2
<1>4. PrintNum(v, B, w, c) = f[v][w]
  BY DEF PrintNum, Prints
<1> HIDE DEF f
<1>5. ASSUME NEW x \in Nat, NEW k \in Int
      PROVE  f[x][k] = (IF x >= B THEN f[x \div B][k - 1] ELSE Pad(c, k - 1))
                         \o <<Hexdigits[(x % B) + 1]>>
  <2> DEFINE R(y, i) == (IF y >= B THEN f[y \div B][i - 1] ELSE Pad(c, i - 1))
                          \o <<Hexdigits[(y % B) + 1]>>
  <2>1. f = [y \in Nat |-> [i \in Int |-> R(y, i)]]
    BY <1>3 DEF Prints
  <2> HIDE DEF R
  <2>2. f[x] = [i \in Int |-> R(x, i)]
    BY <2>1
  <2>3. f[x][k] = R(x, k)
    BY <2>2
  <2> QED BY <2>3 DEF R
<1> DEFINE T == {x \in Nat : ~\A k \in Int : f[x][k] = Field(x, B, k, c)}
<1>6. T = {}
  <2>1. SUFFICES ASSUME T # {} PROVE FALSE
    OBVIOUS
  <2>2. PICK x \in T : \A y \in T : ~(y < x)
    <3>1. T \subseteq Nat
      OBVIOUS
    <3> HIDE DEF T
    <3> QED BY <2>1, <3>1, LeastMember
  <2>3. x \in Nat
    OBVIOUS
  <2>4. PICK k \in Int : f[x][k] # Field(x, B, k, c)
    OBVIOUS
  <2>5. CASE x >= B
    <3>1. x \div B \in Nat /\ x \div B < x /\ k - 1 \in Int /\ B <= x
      BY <1>1, <2>3, <2>5
    <3>2. f[x \div B][k - 1] = Field(x \div B, B, k - 1, c)
      BY <2>2, <3>1
    <3>3. f[x][k] = f[x \div B][k - 1] \o <<Hexdigits[(x % B) + 1]>>
      BY <1>5, <2>3, <2>5
    <3>4. Field(x, B, k, c)
            = Field(x \div B, B, k - 1, c) \o <<Hexdigits[(x % B) + 1]>>
      BY <2>3, <3>1, FieldStep
    <3> QED BY <2>4, <3>2, <3>3, <3>4
  <2>6. CASE ~(x >= B)
    <3>1. x < B
      BY <1>1, <2>3, <2>6
    <3>2. f[x][k] = Pad(c, k - 1) \o <<Hexdigits[(x % B) + 1]>>
      BY <1>5, <2>3, <2>6
    <3>3. Field(x, B, k, c) = Pad(c, k - 1) \o <<Hexdigits[(x % B) + 1]>>
      BY <2>3, <3>1, FieldStep
    <3> QED BY <2>4, <3>2, <3>3
  <2> QED BY <2>5, <2>6
<1> QED BY <1>4, <1>6

\* A digit's value.
LEMMA DigitIs ==
  ASSUME NEW d \in 0 .. 9
  PROVE  /\ Digit(d) \in Digits /\ DigitValue(Digit(d)) = d
         /\ Digit(d) = "0" => d = 0
<1>1. d + 1 \in 1 .. 10
  OBVIOUS
<1>2. \A k \in 1 .. 10 : Hexdigits[k] = Digit(d) => k = d + 1
  BY <1>1, Hex DEF Digit
<1>3. DigitValue(Digit(d)) = d
  <2>1. \E k \in 1 .. 10 : Hexdigits[k] = Digit(d)
    BY <1>1 DEF Digit
  <2> DEFINE m == CHOOSE k \in 1 .. 10 : Hexdigits[k] = Digit(d)
  <2>2. m \in 1 .. 10 /\ Hexdigits[m] = Digit(d)
    BY <2>1
  <2>3. DigitValue(Digit(d)) = m - 1
    BY DEF DigitValue
  <2> HIDE DEF m
  <2>4. m = d + 1
    BY <1>2, <2>2
  <2> QED BY <2>3, <2>4
<1>4. Digit(d) = "0" => d = 0
  <2>1. Hexdigits[1] = "0" /\ 1 \in 1 .. 10
    BY DEF Hexdigits
  <2> QED BY <1>2, <2>1
<1> QED BY <1>1, <1>3, <1>4 DEF Digits, Digit

\* The value of the first m digits of v.
Front(v, m) == v \div Power(10)[Len(Number(v)) - m]

\* A number as it is written, and what reading it digit by digit makes of it.
LEMMA NumberIs ==
  ASSUME NEW v \in Nat \ {0}
  PROVE  /\ Number(v) \in Seq(Digits) /\ Number(v) \in Seq(Char) /\ Len(Number(v)) >= 1
         /\ Number(v)[1] # "0" /\ DigitValue(Number(v)[1]) = Front(v, 1)
         /\ \A j \in 1 .. Len(Number(v)) - 1 :
              Front(v, j) * 10 + DigitValue(Number(v)[j + 1]) = Front(v, j + 1)
         /\ Front(v, Len(Number(v))) = v
         /\ \A j \in 1 .. Len(Number(v)) : Front(v, j) \in Nat
<1> DEFINE k == Places(v, 10)
           P(i) == Power(10)[i]
           s == Number(v)
<1>1. /\ 10 \in Nat \ {0, 1} /\ 10 \in Nat \ {0} /\ 10 \in Nat /\ 10 \in Bases
      /\ v \in Nat
  BY DEF Bases
<1>2. s = Numeral(v, 10)
  BY DEF Number, None, Star
<1>3. k \in Nat \ {0} /\ s \in Seq(Char) /\ Len(s) = k
  BY <1>1, <1>2, NumeralIs
<1>4. ASSUME NEW j \in 1 .. k PROVE s[j] = Digit((v \div P(k - j)) % 10)
  <2>1. Numeral(v, 10)[j] = Digit((v \div Power(10)[Places(v, 10) - j]) % 10)
    BY <1>1, NumeralIs
  <2> QED BY <1>2, <2>1
<1>5. Placed(v, 10, k)
  BY <1>1, PlacesIs
<1>6. /\ \A i \in Nat : P(i) \in Nat \ {0} /\ P(i + 1) = 10 * P(i)
      /\ P(0) = 1
  <2>1. ASSUME NEW i \in Nat PROVE P(i) \in Nat \ {0}
    <3>1. 0 \in Nat
      OBVIOUS
    <3> QED BY <1>1, <3>1, PowersGrow
  <2>2. \A i \in Nat : P(i + 1) = 10 * P(i)
    BY <1>1, PowerIs
  <2>3. P(0) = 1
    BY <1>1, PowerIs
  <2> QED BY <2>1, <2>2, <2>3
<1> DEFINE f(j) == v \div P(k - j)
<1>7. \A j \in 1 .. k : Front(v, j) = f(j)
  BY <1>3 DEF Front
<1> HIDE DEF k, P, s
<1>8. ASSUME NEW j \in 0 .. k PROVE f(j) \in Nat /\ f(j) % 10 \in 0 .. 9
  <2>1. k - j \in Nat
    BY <1>3
  <2> DEFINE p == P(k - j)
  <2>2. p \in Nat \ {0}
    BY <1>6, <2>1
  <2> HIDE DEF p
  <2>3. v \div p \in Nat /\ (v \div p) % 10 \in 0 .. 9
    BY <2>2
  <2> QED BY <2>3 DEF p
<1>9. ASSUME NEW j \in 0 .. k - 1 PROVE f(j + 1) = f(j) * 10 + (f(j + 1) % 10)
  <2>1. k - (j + 1) \in Nat /\ (k - (j + 1)) + 1 = k - j
    BY <1>3
  <2> DEFINE p == P(k - (j + 1))
  <2>2. p \in Nat \ {0} /\ P(k - j) = 10 * p
    BY <1>6, <2>1
  <2> HIDE DEF p
  <2>3. (v \div p) \div 10 = v \div (p * 10)
    BY <1>1, <2>2, DivDiv
  <2>4. p * 10 = 10 * p
    BY <2>2
  <2>5. f(j + 1) = v \div p /\ f(j) = v \div (p * 10)
    BY <2>2, <2>4 DEF p
  <2>6. \A x \in Nat : x = (x \div 10) * 10 + (x % 10)
    OBVIOUS
  <2>7. v \div p \in Nat
    BY <2>2
  <2> HIDE DEF f
  <2> DEFINE x == v \div p
  <2>8. x \in Nat /\ f(j + 1) = x /\ f(j) = x \div 10
    BY <2>3, <2>5, <2>7
  <2> HIDE DEF x
  <2> QED BY <2>6, <2>8
<1> HIDE DEF f
<1>10. ASSUME NEW j \in 1 .. k
       PROVE  s[j] \in Digits /\ DigitValue(s[j]) = f(j) % 10 /\ (s[j] = "0" => f(j) % 10 = 0)
  <2>1. s[j] = Digit(f(j) % 10)
    BY <1>4 DEF f
  <2>2. f(j) % 10 \in 0 .. 9
    BY <1>8
  <2> DEFINE x == f(j) % 10
  <2> HIDE DEF x
  <2>3. x \in 0 .. 9 /\ s[j] = Digit(x)
    BY <2>1, <2>2 DEF x
  <2>4. s[j] \in Digits /\ DigitValue(s[j]) = x /\ (s[j] = "0" => x = 0)
    BY <2>3, DigitIs
  <2> QED BY <2>4 DEF x
<1>11. f(0) = 0
  <2>1. P(k) \in Nat \ {0} /\ v < P(k)
    BY <1>3, <1>5, <1>6 DEF Placed, P
  <2>2. \A p \in Nat \ {0} : v < p => v \div p = 0
    OBVIOUS
  <2>3. k - 0 = k
    BY <1>3
  <2> QED BY <2>1, <2>2, <2>3 DEF f
<1>12. f(k) = v
  <2>1. k - k = 0
    BY <1>3
  <2> QED BY <1>6, <2>1 DEF f
<1>13. f(1) = f(1) % 10 /\ f(1) # 0
  <2>1. 0 \in 0 .. k - 1 /\ 0 + 1 = 1 /\ 1 \in 0 .. k
    BY <1>3
  <2>2. f(1) = f(0) * 10 + (f(1) % 10)
    BY <1>9, <2>1
  <2>3. f(1) = f(1) % 10
    BY <1>8, <1>11, <2>1, <2>2
  <2>4. P(k - 1) <= v
    <3>1. CASE k = 1
      <4>1. k - 1 = 0
        BY <3>1
      <4> QED BY <1>1, <1>6, <4>1
    <3>2. CASE k # 1
      BY <1>5, <3>2 DEF Placed, P
    <3> QED BY <3>1, <3>2
  <2>5. k - 1 \in Nat
    BY <1>3
  <2>6. \A p \in Nat \ {0} : p <= v => v \div p # 0
    OBVIOUS
  <2> QED BY <1>6, <2>3, <2>4, <2>5, <2>6 DEF f
<1>14. s \in Seq(Digits)
  BY <1>3, <1>10
<1>15. s[1] # "0" /\ DigitValue(s[1]) = Front(v, 1)
  <2>1. 1 \in 1 .. k
    BY <1>3
  <2> QED BY <1>7, <1>10, <1>13, <2>1
<1>16. ASSUME NEW j \in 1 .. k - 1
       PROVE  Front(v, j) * 10 + DigitValue(s[j + 1]) = Front(v, j + 1)
  <2>1. j \in 0 .. k - 1 /\ j \in 1 .. k /\ j + 1 \in 1 .. k
    BY <1>3
  <2> QED BY <1>7, <1>9, <1>10, <2>1
<1>17. Front(v, k) = v
  <2>1. k \in 1 .. k
    BY <1>3
  <2> QED BY <1>7, <1>12, <2>1
<1>18. \A j \in 1 .. k : Front(v, j) \in Nat
  BY <1>7, <1>8
<1>19. Len(s) >= 1
  BY <1>3
<1> QED BY <1>3, <1>14, <1>15, <1>16, <1>17, <1>18, <1>19 DEF s

-----------------------------------------------------------------------------
(* The text of a directive                                                 *)

\* Where its parts end.
FlagsEnd(d) == Len(d.before) + 1 + Len(d.flags)
WidthEnd(d) == FlagsEnd(d) + Len(Number(d.width))
PointEnd(d) == WidthEnd(d) + (IF d.precision = None THEN 0 ELSE 1)
PrecisionEnd(d) ==
  PointEnd(d) + (IF d.precision = None THEN 0 ELSE Len(Number(d.precision)))
LongsEnd(d) == PrecisionEnd(d) + d.longs

\* The characters of its parts.
Spelled(d) ==
  /\ Written(d) \in Seq(Char)
  /\ Len(Written(d)) = LongsEnd(d) + (IF d.conv = NUL THEN 0 ELSE 1)
  /\ \A j \in 1 .. Len(d.before) : Written(d)[j] = d.before[j]
  /\ Written(d)[Len(d.before) + 1] = "%"
  /\ \A j \in 1 .. Len(d.flags) : Written(d)[Len(d.before) + 1 + j] = d.flags[j]
  /\ \A j \in 1 .. Len(Number(d.width)) :
       Written(d)[FlagsEnd(d) + j] = Number(d.width)[j]
  /\ d.precision # None =>
       /\ Written(d)[WidthEnd(d) + 1] = "."
       /\ \A j \in 1 .. Len(Number(d.precision)) :
            Written(d)[PointEnd(d) + j] = Number(d.precision)[j]
  /\ \A j \in 1 .. d.longs : Written(d)[PrecisionEnd(d) + j] = "l"
  /\ d.conv # NUL => Written(d)[LongsEnd(d) + 1] = d.conv

\* r is s and t in a row.
Joined(s, t, r) ==
  /\ Begins(s, r) /\ Len(r) = Len(s) + Len(t)
  /\ \A j \in 1 .. Len(t) : r[Len(s) + j] = t[j]

\* Two sequences in a row, once more.
LEMMA Join ==
  ASSUME NEW S, NEW s \in Seq(S), NEW t \in Seq(S)
  PROVE  s \o t \in Seq(S) /\ Joined(s, t, s \o t)
<1>1. /\ s \o t \in Seq(S) /\ Len(s \o t) = Len(s) + Len(t)
      /\ \A i \in 1 .. Len(s) : (s \o t)[i] = s[i]
      /\ \A i \in 1 .. Len(t) : (s \o t)[Len(s) + i] = t[i]
  BY Cat
<1>2. Len(s) \in Nat /\ Len(t) \in Nat
  OBVIOUS
<1> QED BY <1>1, <1>2 DEF Begins, Joined

\* A sequence of one.
LEMMA One ==
  ASSUME NEW S, NEW e \in S
  PROVE  <<e>> \in Seq(S) /\ Len(<<e>>) = 1 /\ <<e>>[1] = e
OBVIOUS

\* A sequence of six.
LEMMA Six ==
  ASSUME NEW S, NEW c1 \in S, NEW c2 \in S, NEW c3 \in S, NEW c4 \in S, NEW c5 \in S,
         NEW c6 \in S
  PROVE  <<c1, c2, c3, c4, c5, c6>> \in Seq(S)
OBVIOUS

\* A sequence over a larger set.
LEMMA Widen ==
  ASSUME NEW S, NEW R, S \subseteq R, NEW s \in Seq(S)
  PROVE  s \in Seq(R)
OBVIOUS

\* What begins with something that begins with s begins with s.
LEMMA BeginsOn ==
  ASSUME NEW S, NEW s \in Seq(S), NEW t \in Seq(S), NEW r \in Seq(S),
         Begins(s, t), Begins(t, r)
  PROVE  Begins(s, r)
<1>1. Len(s) \in Nat /\ Len(t) \in Nat /\ Len(r) \in Nat
  OBVIOUS
<1> QED BY <1>1 DEF Begins

\* The characters that the model names are characters.
LEMMA Chars ==
  /\ Known \subseteq Char /\ NUL \in Char
  /\ {"%", ".", "*", "l", "-", "0", "#"} \subseteq Char
  /\ {" ", "(", "n", "u", "l", ")", "r", "e", "o", "?", "E", "X", "x"} \subseteq Char
<1>1. Known \subseteq Char /\ {NUL, " ", "(", "n", ")", "r", "?", "E", "X"} \subseteq Char
  BY PrintfAssumption
<1>2. "0" \in Digits
  BY DEF Digits, Hexdigits
<1> QED BY <1>1, <1>2 DEF Known, Conversions

\* The numbers of a directive.
LEMMA NumbersAre ==
  ASSUME NEW v \in (Nat \ {0}) \cup {None, Star}
  PROVE  /\ Number(v) \in Seq(Char)
         /\ v = None => Number(v) = <<>> /\ Len(Number(v)) = 0
         /\ v = Star => Number(v) = <<"*">> /\ Len(Number(v)) = 1
<1>1. CASE v = None
  BY <1>1 DEF Number, None, Star
<1>2. CASE v = Star
  <2>1. "*" \in Char
    BY Chars
  <2>2. <<"*">> \in Seq(Char) /\ Len(<<"*">>) = 1
    BY <2>1, One
  <2> QED BY <1>2, <2>2 DEF Number, None, Star
<1>3. CASE v \in Nat \ {0}
  BY <1>3, NumberIs DEF None, Star
<1> QED BY <1>1, <1>2, <1>3

\* The text of a directive has these characters.
LEMMA WrittenIs ==
  ASSUME NEW d, WellFormed(d)
  PROVE  Spelled(d)
<1> DEFINE t1 == d.before
           t2 == <<"%">>
           t3 == d.flags
           t4 == Number(d.width)
           t5 == IF d.precision = None THEN <<>> ELSE <<".">> \o Number(d.precision)
           t6 == Pad("l", d.longs)
           t7 == IF d.conv = NUL THEN <<>> ELSE <<d.conv>>
           s2 == t1 \o t2
           s3 == s2 \o t3
           s4 == s3 \o t4
           s5 == s4 \o t5
           s6 == s5 \o t6
           W == s6 \o t7
           num == Number(d.precision)
<1>1. t1 \in Seq(Char) /\ t3 \in Seq(Char)
  <2>1. d.before \in Seq(Char \ {"%", NUL}) /\ d.flags \in Seq({"-", "0", "#"})
    BY DEF WellFormed
  <2>2. Char \ {"%", NUL} \subseteq Char /\ {"-", "0", "#"} \subseteq Char
    BY Chars
  <2> QED BY <2>1, <2>2, Widen
<1>2. t2 \in Seq(Char) /\ Len(t2) = 1 /\ t2[1] = "%"
  <2>1. "%" \in Char
    BY Chars
  <2> QED BY <2>1, One
<1>3. t4 \in Seq(Char) /\ num \in Seq(Char)
  <2>1. {d.width, d.precision} \subseteq (Nat \ {0}) \cup {None, Star}
    BY DEF WellFormed
  <2> QED BY <2>1, NumbersAre
<1>4. /\ t5 \in Seq(Char)
      /\ Len(t5) = IF d.precision = None THEN 0 ELSE 1 + Len(num)
      /\ d.precision # None =>
           t5[1] = "." /\ \A j \in 1 .. Len(num) : t5[1 + j] = num[j]
  <2>1. CASE d.precision = None
    BY <2>1
  <2>2. CASE d.precision # None
    <3> HIDE DEF num
    <3>1. <<".">> \in Seq(Char) /\ Len(<<".">>) = 1 /\ <<".">>[1] = "."
      <4>1. "." \in Char
        BY Chars
      <4> QED BY <4>1, One
    <3> DEFINE p == <<".">>
               r == p \o num
    <3> HIDE DEF p
    <3>2. p \in Seq(Char) /\ Len(p) = 1 /\ p[1] = "." /\ num \in Seq(Char)
      BY <1>3, <3>1 DEF p
    <3>3. r \in Seq(Char) /\ Joined(p, num, r)
      BY <3>2, Join DEF r
    <3>4. t5 = r
      BY <2>2 DEF p, num
    <3> HIDE DEF r
    <3> HIDE DEF t5
    <3> QED BY <2>2, <3>2, <3>3, <3>4 DEF Joined, Begins
  <2> QED BY <2>1, <2>2
<1>5. /\ t6 \in Seq(Char) /\ Len(t6) = d.longs /\ d.longs \in Nat
      /\ \A j \in 1 .. Len(t6) : t6[j] = "l"
  <2>1. d.longs \in Nat /\ "l" \in Char
    BY Chars DEF WellFormed
  <2>2. d.longs \in Int /\ ~(d.longs < 0)
    BY <2>1
  <2> QED BY <2>1, <2>2, PadIs
<1>6. /\ t7 \in Seq(Char) /\ Len(t7) = (IF d.conv = NUL THEN 0 ELSE 1)
      /\ d.conv # NUL => t7[1] = d.conv
  <2>1. d.conv \in Char
    BY Chars DEF WellFormed, Known
  <2> QED BY <2>1
<1>7. Written(d) = W
  BY DEF Written
<1> HIDE DEF t1, t2, t3, t4, t5, t6, t7, num
<1>8. /\ s2 \in Seq(Char) /\ Joined(t1, t2, s2)
      /\ Begins(t1, s2) /\ Len(s2) = Len(t1) + Len(t2)
      /\ \A j \in 1 .. Len(t2) : s2[Len(t1) + j] = t2[j]
  <2>1. s2 \in Seq(Char) /\ Joined(t1, t2, s2)
    BY <1>1, <1>2, Join
  <2> QED BY <2>1 DEF Joined
<1> HIDE DEF s2
<1>9. /\ s3 \in Seq(Char) /\ Joined(s2, t3, s3)
      /\ Begins(s2, s3) /\ Len(s3) = Len(s2) + Len(t3)
      /\ \A j \in 1 .. Len(t3) : s3[Len(s2) + j] = t3[j]
  <2>1. s3 \in Seq(Char) /\ Joined(s2, t3, s3)
    BY <1>1, <1>8, Join
  <2> QED BY <2>1 DEF Joined
<1> HIDE DEF s3
<1>10. /\ s4 \in Seq(Char) /\ Joined(s3, t4, s4)
       /\ Begins(s3, s4) /\ Len(s4) = Len(s3) + Len(t4)
       /\ \A j \in 1 .. Len(t4) : s4[Len(s3) + j] = t4[j]
  <2>1. s4 \in Seq(Char) /\ Joined(s3, t4, s4)
    BY <1>3, <1>9, Join
  <2> QED BY <2>1 DEF Joined
<1> HIDE DEF s4
<1>11. /\ s5 \in Seq(Char) /\ Joined(s4, t5, s5)
       /\ Begins(s4, s5) /\ Len(s5) = Len(s4) + Len(t5)
       /\ \A j \in 1 .. Len(t5) : s5[Len(s4) + j] = t5[j]
  <2>1. s5 \in Seq(Char) /\ Joined(s4, t5, s5)
    BY <1>4, <1>10, Join
  <2> QED BY <2>1 DEF Joined
<1> HIDE DEF s5
<1>12. /\ s6 \in Seq(Char) /\ Joined(s5, t6, s6)
       /\ Begins(s5, s6) /\ Len(s6) = Len(s5) + Len(t6)
       /\ \A j \in 1 .. Len(t6) : s6[Len(s5) + j] = t6[j]
  <2>1. s6 \in Seq(Char) /\ Joined(s5, t6, s6)
    BY <1>5, <1>11, Join
  <2> QED BY <2>1 DEF Joined
<1> HIDE DEF s6
<1>13. /\ W \in Seq(Char) /\ Joined(s6, t7, W)
       /\ Begins(s6, W) /\ Len(W) = Len(s6) + Len(t7)
       /\ \A j \in 1 .. Len(t7) : W[Len(s6) + j] = t7[j]
  <2>1. W \in Seq(Char) /\ Joined(s6, t7, W)
    BY <1>6, <1>12, Join
  <2> QED BY <2>1 DEF Joined
<1> HIDE DEF W
<1>14. Begins(s5, W)
  BY <1>11, <1>12, <1>13, BeginsOn
<1>15. Begins(s4, W)
  BY <1>10, <1>11, <1>13, <1>14, BeginsOn
<1>16. Begins(s3, W)
  BY <1>9, <1>10, <1>13, <1>15, BeginsOn
<1>17. Begins(s2, W)
  BY <1>8, <1>9, <1>13, <1>16, BeginsOn
<1>18. Begins(t1, W)
  BY <1>1, <1>8, <1>13, <1>17, BeginsOn
<1>19. /\ Len(t1) \in Nat /\ Len(t3) \in Nat /\ Len(t4) \in Nat /\ Len(num) \in Nat
       /\ Len(s2) = Len(t1) + 1
       /\ Len(s3) = FlagsEnd(d) /\ Len(s4) = WidthEnd(d)
       /\ Len(s5) = PrecisionEnd(d) /\ Len(s6) = LongsEnd(d)
       /\ PointEnd(d) = Len(s4) + (IF d.precision = None THEN 0 ELSE 1)
  <2>1. Len(t1) \in Nat /\ Len(t3) \in Nat /\ Len(t4) \in Nat /\ Len(num) \in Nat
    BY <1>1, <1>3
  <2>2. Len(s2) = Len(t1) + 1
    BY <1>2, <1>8
  <2>3. Len(s3) = FlagsEnd(d)
    BY <1>9, <2>2 DEF FlagsEnd, t1, t3
  <2>4. Len(s4) = WidthEnd(d)
    BY <1>10, <2>3 DEF WidthEnd, t4
  <2>5. PointEnd(d) = Len(s4) + (IF d.precision = None THEN 0 ELSE 1)
    BY <2>4 DEF PointEnd
  <2>6. Len(s5) = PrecisionEnd(d)
    <3>1. Len(s4) \in Nat
      BY <1>10
    <3> QED BY <1>4, <1>11, <2>1, <2>5, <3>1 DEF PrecisionEnd, num
  <2>7. Len(s6) = LongsEnd(d)
    BY <1>5, <1>12, <2>6 DEF LongsEnd
  <2> QED BY <2>1, <2>2, <2>3, <2>4, <2>5, <2>6, <2>7
<1>20. \A j \in 1 .. Len(t1) : W[j] = t1[j]
  BY <1>18 DEF Begins
<1>21. W[Len(t1) + 1] = "%"
  BY <1>2, <1>8, <1>17, <1>19 DEF Begins
<1>22. ASSUME NEW j \in 1 .. Len(t3) PROVE W[Len(t1) + 1 + j] = t3[j]
  <2>1. Len(t1) + 1 + j \in 1 .. Len(s3) /\ Len(s2) + j = Len(t1) + 1 + j
    BY <1>9, <1>19
  <2> QED BY <1>9, <1>16, <2>1 DEF Begins
<1>23. ASSUME NEW j \in 1 .. Len(t4) PROVE W[FlagsEnd(d) + j] = t4[j]
  <2>1. Len(s3) \in Nat /\ Len(s4) = Len(s3) + Len(t4)
    BY <1>9, <1>10
  <2>2. Len(s3) + j \in 1 .. Len(s4) /\ Len(s3) + j = FlagsEnd(d) + j
    BY <1>19, <2>1
  <2> QED BY <1>10, <1>15, <2>2 DEF Begins
<1>24. ASSUME d.precision # None, NEW j \in 1 .. Len(t5) PROVE W[WidthEnd(d) + j] = t5[j]
  <2>1. Len(s4) \in Nat /\ Len(t5) \in Nat /\ Len(s5) = Len(s4) + Len(t5)
    BY <1>4, <1>10, <1>11
  <2>2. Len(s4) + j \in 1 .. Len(s5) /\ Len(s4) + j = WidthEnd(d) + j
    BY <1>19, <2>1
  <2> QED BY <1>11, <1>14, <2>2 DEF Begins
<1>25. ASSUME d.precision # None
       PROVE  /\ W[WidthEnd(d) + 1] = "."
              /\ \A j \in 1 .. Len(num) : W[PointEnd(d) + j] = num[j]
  <2>1. 1 \in 1 .. Len(t5) /\ WidthEnd(d) \in Nat /\ PointEnd(d) = WidthEnd(d) + 1
    BY <1>4, <1>10, <1>19, <1>25
  <2>2. ASSUME NEW j \in 1 .. Len(num) PROVE W[PointEnd(d) + j] = num[j]
    <3>1. 1 + j \in 1 .. Len(t5) /\ PointEnd(d) + j = WidthEnd(d) + (1 + j)
      BY <1>4, <1>19, <1>25, <2>1
    <3>2. t5[1 + j] = num[j]
      BY <1>4, <1>25
    <3> QED BY <1>24, <1>25, <3>1, <3>2
  <2> QED BY <1>4, <1>24, <1>25, <2>1, <2>2
<1>26. ASSUME NEW j \in 1 .. d.longs PROVE W[PrecisionEnd(d) + j] = "l"
  <2>1. Len(s5) + j \in 1 .. Len(s6) /\ j \in 1 .. Len(t6)
    BY <1>5, <1>11, <1>12
  <2>2. s6[Len(s5) + j] = "l"
    BY <1>5, <1>12, <2>1
  <2>3. W[Len(s5) + j] = s6[Len(s5) + j]
    BY <1>13, <2>1 DEF Begins
  <2> QED BY <1>19, <2>2, <2>3
<1>27. d.conv # NUL => W[LongsEnd(d) + 1] = d.conv
  BY <1>6, <1>13, <1>19
<1>28. Len(W) = LongsEnd(d) + (IF d.conv = NUL THEN 0 ELSE 1)
  BY <1>6, <1>13, <1>19
<1> QED BY <1>7, <1>13, <1>20, <1>21, <1>22, <1>23, <1>25, <1>26, <1>27, <1>28
       DEF Spelled, t1, t3, t4, num

-----------------------------------------------------------------------------
(* The arguments of a directive                                            *)

Any == Int \cup Char \cup Seq(Char)
Taking == {"c", "e", "s", "d", "u", "p", "x"}

\* Arguments that the width takes, and those that both stars take.
WidthStar(d) == IF d.width = Star THEN 1 ELSE 0
Stars(d) == WidthStar(d) + (IF d.precision = Star THEN 1 ELSE 0)

Listed(d) ==
  /\ Arguments(d) \in Seq(Any)
  /\ Len(Arguments(d)) = Stars(d) + (IF d.conv \in Taking THEN 1 ELSE 0)
  /\ d.width = Star => Arguments(d)[1] = d.stars[1]
  /\ d.precision = Star => Arguments(d)[WidthStar(d) + 1] = d.stars[2]
  /\ d.conv \in Taking => Arguments(d)[Stars(d) + 1] = d.value

\* The arguments of a directive are the stars' and the value.
LEMMA ArgumentsAre ==
  ASSUME NEW d, WellFormed(d)
  PROVE  Listed(d)
<1> DEFINE t1 == IF d.width = Star THEN <<d.stars[1]>> ELSE <<>>
           t2 == IF d.precision = Star THEN <<d.stars[2]>> ELSE <<>>
           t3 == IF d.conv \in Taking THEN <<d.value>> ELSE <<>>
           s2 == t1 \o t2
           W == s2 \o t3
<1>1. /\ t1 \in Seq(Any) /\ Len(t1) = WidthStar(d)
      /\ d.width = Star => t1[1] = d.stars[1]
  <2>1. d.width = Star => d.stars[1] \in Any
    BY DEF WellFormed, Any
  <2> QED BY <2>1, One DEF WidthStar
<1>2. /\ t2 \in Seq(Any) /\ Len(t2) = IF d.precision = Star THEN 1 ELSE 0
      /\ d.precision = Star => t2[1] = d.stars[2]
  <2>1. d.precision = Star => d.stars[2] \in Any
    BY DEF WellFormed, Any
  <2> QED BY <2>1, One
<1>3. /\ t3 \in Seq(Any) /\ Len(t3) = IF d.conv \in Taking THEN 1 ELSE 0
      /\ d.conv \in Taking => t3[1] = d.value
  <2>1. d.conv \in Taking => d.value \in Any
    BY DEF WellFormed, Any, Taking
  <2> QED BY <2>1, One
<1>4. Arguments(d) = W
  BY DEF Arguments, Taking
<1> HIDE DEF t1, t2, t3
<1>5. /\ s2 \in Seq(Any) /\ Joined(t1, t2, s2)
      /\ Begins(t1, s2) /\ Len(s2) = Len(t1) + Len(t2)
      /\ \A j \in 1 .. Len(t2) : s2[Len(t1) + j] = t2[j]
  <2>1. s2 \in Seq(Any) /\ Joined(t1, t2, s2)
    BY <1>1, <1>2, Join
  <2> QED BY <2>1 DEF Joined
<1> HIDE DEF s2
<1>6. /\ W \in Seq(Any) /\ Joined(s2, t3, W)
      /\ Begins(s2, W) /\ Len(W) = Len(s2) + Len(t3)
      /\ \A j \in 1 .. Len(t3) : W[Len(s2) + j] = t3[j]
  <2>1. W \in Seq(Any) /\ Joined(s2, t3, W)
    BY <1>3, <1>5, Join
  <2> QED BY <2>1 DEF Joined
<1> HIDE DEF W
<1>7. /\ WidthStar(d) \in {0, 1} /\ Len(s2) = Stars(d)
      /\ Len(t1) = WidthStar(d) /\ (d.width = Star => WidthStar(d) = 1)
  BY <1>1, <1>2, <1>5 DEF WidthStar, Stars
<1>8. Len(W) = Stars(d) + (IF d.conv \in Taking THEN 1 ELSE 0)
  BY <1>3, <1>6, <1>7
<1>9. d.width = Star => W[1] = d.stars[1]
  BY <1>1, <1>2, <1>5, <1>6, <1>7 DEF Begins
<1>10. d.precision = Star => W[WidthStar(d) + 1] = d.stars[2]
  BY <1>2, <1>5, <1>6, <1>7 DEF Begins
<1>11. d.conv \in Taking => W[Stars(d) + 1] = d.value
  BY <1>3, <1>6, <1>7
<1> QED BY <1>4, <1>6, <1>8, <1>9, <1>10, <1>11 DEF Listed

-----------------------------------------------------------------------------
(* The text that a directive stands for                                    *)

\* Padding of no width.
LEMMA NoPad ==
  ASSUME NEW S, NEW c, NEW k \in Int, k <= 0, NEW t \in Seq(S)
  PROVE  Pad(c, k) \o t = t /\ t \o Pad(c, k) = t
<1>1. 1 .. k = 1 .. 0
  OBVIOUS
<1>2. Pad(c, k) = [j \in 1 .. 0 |-> c]
  BY <1>1 DEF Pad
<1>3. Pad(c, k) = <<>>
  BY <1>2
<1> QED BY <1>3

\* What Fill pads with.
PadOf(d) == IF HasFlag(d, "-") THEN "-" ELSE IF HasFlag(d, "0") THEN "0" ELSE " "

\* The characters to pad with.
LEMMA Pads ==
  /\ "0" \in Char /\ " " \in Char /\ "-" \in Char
  /\ \A d : PadOf(d) \in Char
BY Chars DEF PadOf

\* Fill, with a width that the flags have left or made 0.
LEMMA FillIs ==
  ASSUME NEW d, NEW t \in Seq(Char), NEW w \in Int, Width(d) \in Int,
         w = Width(d) \/ (Width(d) < 0 /\ w = 0)
  PROVE  /\ Fill(d, t) \in Seq(Char)
         /\ ~HasFlag(d, "-") => Fill(d, t) = Pad(PadOf(d), w - Len(t)) \o t
         /\ HasFlag(d, "-") => Fill(d, t) = t \o Pad(" ", w - Len(t))
<1> DEFINE k == Width(d) - Len(t)
           m == w - Len(t)
           c == IF HasFlag(d, "0") THEN "0" ELSE " "
<1>1. k \in Int /\ m \in Int /\ (k = m \/ (k <= 0 /\ m <= 0))
  <2>1. Len(t) \in Nat
    OBVIOUS
  <2> QED BY <2>1
<1>2. c \in Char /\ " " \in Char
  BY Pads
<1>3. ~HasFlag(d, "-") => PadOf(d) = c
  BY DEF PadOf
<1>4. Fill(d, t) = IF k <= 0 THEN t
                   ELSE IF HasFlag(d, "-") THEN t \o Pad(" ", k) ELSE Pad(c, k) \o t
  BY DEF Fill
<1> HIDE DEF k, m, c
<1>5. CASE k <= 0
  <2>1. m <= 0
    BY <1>1, <1>5
  <2>2. Pad(c, m) \o t = t /\ t \o Pad(" ", m) = t
    BY <1>1, <2>1, NoPad
  <2> QED BY <1>3, <1>4, <1>5, <2>2 DEF m
<1>6. CASE ~(k <= 0)
  <2>1. k = m
    BY <1>1, <1>6
  <2>2. Pad(c, k) \in Seq(Char) /\ Pad(" ", k) \in Seq(Char)
    BY <1>1, <1>2, PadIs
  <2> DEFINE p == Pad(c, k)
             q == Pad(" ", k)
  <2> HIDE DEF p, q
  <2>3. p \o t \in Seq(Char) /\ t \o q \in Seq(Char)
    <3>1. p \in Seq(Char) /\ q \in Seq(Char)
      BY <2>2 DEF p, q
    <3> QED BY <3>1, Cat
  <2>4. Fill(d, t) = IF HasFlag(d, "-") THEN t \o q ELSE p \o t
    BY <1>4, <1>6 DEF p, q
  <2>5. Fill(d, t) \in Seq(Char)
    BY <2>3, <2>4
  <2>6. ~HasFlag(d, "-") => Fill(d, t) = Pad(PadOf(d), m) \o t
    BY <1>3, <2>1, <2>4 DEF p
  <2>7. HasFlag(d, "-") => Fill(d, t) = t \o Pad(" ", m)
    BY <2>1, <2>4 DEF q
  <2> QED BY <2>5, <2>6, <2>7 DEF m
<1> QED BY <1>5, <1>6

\* A point makes a missing or a negative width 0.
WidthRead(d) == width = Width(d) \/ (Width(d) < 0 /\ width = 0)

\* Everything before the conversion is read.
AllRead(d) ==
  /\ WellFormed(d)
  /\ padc \in Char /\ (Supported(d) => padc = PadOf(d))
  /\ altflag = HasFlag(d, "#")
  /\ WidthRead(d) /\ precision = Precision(d)
  /\ lflag = d.longs

\* Width and precision are numbers.
LEMMA WidthIs ==
  ASSUME NEW d, WellFormed(d)
  PROVE  /\ Width(d) \in Int /\ Precision(d) \in Int
         /\ d.width \in Int /\ d.precision \in Int
<1>1. {d.width, d.precision} \subseteq (Nat \ {0}) \cup {None, Star}
  BY DEF WellFormed
<1>2. d.width \in Int /\ d.precision \in Int
  BY <1>1 DEF None, Star
<1>3. (d.width = Star => d.stars[1] \in Int) /\ (d.precision = Star => d.stars[2] \in Int)
  BY DEF WellFormed
<1> QED BY <1>2, <1>3 DEF Width, Precision

\* A number fills its field.
LEMMA NumberFills ==
  ASSUME NEW d, AllRead(d), NEW v \in Nat, NEW B \in Bases
  PROVE  /\ PrintNum(v, B, width, padc) \in Seq(Char)
         /\ Supported(d) /\ ~HasFlag(d, "-") =>
              PrintNum(v, B, width, padc) = Fill(d, Numeral(v, B))
<1>1. /\ WellFormed(d) /\ padc \in Char
      /\ Supported(d) => padc = PadOf(d)
      /\ width = Width(d) \/ (Width(d) < 0 /\ width = 0)
  BY DEF AllRead, WidthRead
<1>2. Width(d) \in Int /\ width \in Int
  BY <1>1, WidthIs
<1>3. PrintNum(v, B, width, padc) = Field(v, B, width, padc)
  BY <1>1, <1>2, PrintNumIs
<1>4. Field(v, B, width, padc) \in Seq(Char)
  BY <1>1, <1>2, FieldStep
<1>5. Numeral(v, B) \in Seq(Char)
  BY NumeralIs
<1>6. ASSUME ~HasFlag(d, "-")
      PROVE  Fill(d, Numeral(v, B))
               = Pad(PadOf(d), width - Len(Numeral(v, B))) \o Numeral(v, B)
  BY <1>1, <1>2, <1>5, <1>6, FillIs
<1> QED BY <1>1, <1>3, <1>4, <1>6 DEF Field

\* A number without a field.
LEMMA Bare ==
  ASSUME NEW v \in Nat
  PROVE  PrintNum(v, 10, -1, " ") = Numeral(v, 10) /\ Numeral(v, 10) \in Seq(Char)
<1>1. 10 \in Bases /\ " " \in Char /\ (-1) \in Int
  <2>1. " " \in Char
    BY Pads
  <2>2. 10 \in Bases
    BY DEF Bases
  <2>3. (-1) \in Int
    OBVIOUS
  <2> QED BY <2>1, <2>2, <2>3
<1>2. PrintNum(v, 10, -1, " ") = Field(v, 10, -1, " ")
  BY <1>1, PrintNumIs
<1>3. Numeral(v, 10) \in Seq(Char) /\ Len(Numeral(v, 10)) \in Nat
  BY <1>1, NumeralIs
<1>4. -1 - Len(Numeral(v, 10)) \in Int /\ -1 - Len(Numeral(v, 10)) <= 0
  BY <1>3
<1>5. Pad(" ", -1 - Len(Numeral(v, 10))) \o Numeral(v, 10) = Numeral(v, 10)
  BY <1>3, <1>4, NoPad
<1> QED BY <1>2, <1>3, <1>5 DEF Field

\* %e puts the message.
LEMMA ErrorIs ==
  ASSUME NEW e \in Int
  PROVE  PutError(e) = ErrorMeaning(e) /\ PutError(e) \in Seq(Char)
<1> DEFINE err == IF e < 0 THEN -e ELSE e
           m == <<"E">>
           r == <<"e", "r", "r", "o", "r", " ">>
           t == PrintNum(err, 10, -1, " ")
<1>1. err \in Nat
  OBVIOUS
<1>2. t = Numeral(err, 10) /\ t \in Seq(Char)
  <2> HIDE DEF err
  <2> QED BY <1>1, Bare
<1>3. MAXERROR \in Int
  BY PrintfAssumption
<1>4. PutError(e) = IF err >= MAXERROR \/ err = 0 THEN r \o t ELSE m \o t
  BY DEF PutError
<1>5. ErrorMeaning(e) = (IF err \in 1 .. MAXERROR - 1 THEN m ELSE r) \o Numeral(err, 10)
  BY DEF ErrorMeaning
<1>6. r \in Seq(Char) /\ m \in Seq(Char)
  <2>1. "e" \in Char /\ "r" \in Char /\ "o" \in Char /\ " " \in Char /\ "E" \in Char
    BY Chars
  <2>2. <<"e", "r", "r", "o", "r", " ">> \in Seq(Char)
    BY <2>1, Six
  <2>3. <<"E">> \in Seq(Char)
    BY <2>1, One
  <2> QED BY <2>2, <2>3
<1> HIDE DEF err, t, m, r
<1>7. r \o t \in Seq(Char) /\ m \o t \in Seq(Char)
  BY <1>2, <1>6, Cat
<1>8. err \in 1 .. MAXERROR - 1 <=> ~(err >= MAXERROR \/ err = 0)
  BY <1>1, <1>3
<1> QED BY <1>2, <1>4, <1>5, <1>7, <1>8

\* The null pointer's text.
Nulls == <<"(", "n", "u", "l", "l", ")", NUL>>
Source(arg) == IF arg = NULL THEN Nulls ELSE arg
Chosen(s, k, alt) == [j \in 1 .. k |-> IF alt /\ s[j] = "\t" THEN "?" ELSE s[j]]

\* The characters of a string that are shown.
LEMMA ChosenIs ==
  ASSUME NEW arg \in Seq(Char), NEW p \in Int, NEW alt
  PROVE  /\ Source(arg) \in Seq(Char) /\ Len(Source(arg)) >= 1
         /\ Strnlen(Source(arg), p) \in Nat
         /\ Chosen(Source(arg), Strnlen(Source(arg), p), alt) \in Seq(Char)
         /\ Len(Chosen(Source(arg), Strnlen(Source(arg), p), alt)) = Strnlen(Source(arg), p)
<1> DEFINE s == Source(arg)
           k == Strnlen(s, p)
<1>1. "(" \in Char /\ "n" \in Char /\ "u" \in Char /\ "l" \in Char /\ ")" \in Char
  BY Chars
<1>2. NUL \in Char /\ "?" \in Char
  BY Chars
<1>3. Nulls \in Seq(Char) /\ Len(Nulls) = 7
  BY <1>1, <1>2 DEF Nulls
<1>4. s \in Seq(Char) /\ Len(s) >= 1
  <2>1. CASE arg = NULL
    BY <1>3, <2>1 DEF Source
  <2>2. CASE arg # NULL
    <3>1. Len(arg) # 0
      BY <2>2 DEF NULL
    <3>2. Len(arg) \in Nat
      OBVIOUS
    <3> QED BY <2>2, <3>1, <3>2 DEF Source
  <2> QED BY <2>1, <2>2
<1> HIDE DEF s
<1>5. k \in Nat /\ k <= Len(s)
  BY <1>4 DEF Strnlen
<1> HIDE DEF k
<1>6. ASSUME NEW j \in 1 .. k PROVE (IF alt /\ s[j] = "\t" THEN "?" ELSE s[j]) \in Char
  <2>1. j \in 1 .. Len(s)
    BY <1>4, <1>5
  <2>2. s[j] \in Char
    BY <1>4, <2>1
  <2> QED BY <1>2, <2>2
<1>7. Chosen(s, k, alt) \in [1 .. k -> Char]
  BY <1>6 DEF Chosen
<1>8. Chosen(s, k, alt) \in Seq(Char) /\ Len(Chosen(s, k, alt)) = k
  BY <1>5, <1>7
<1> QED BY <1>4, <1>5, <1>8 DEF s, k

\* %s pads and shows as it means to.
LEMMA StringIs ==
  ASSUME NEW d, AllRead(d), d.value \in Seq(Char)
  PROVE  /\ PutString(d.value) \in Seq(Char)
         /\ Supported(d) => PutString(d.value) = Fill(d, Shown(d))
<1> DEFINE s == Source(d.value)
           k == Strnlen(s, precision)
           t == Chosen(s, k, altflag)
           leftpad == width > 0 /\ padc # "-"
<1>1. /\ WellFormed(d) /\ padc \in Char /\ (Supported(d) => padc = PadOf(d))
      /\ altflag = HasFlag(d, "#")
      /\ width = Width(d) \/ (Width(d) < 0 /\ width = 0)
      /\ precision = Precision(d)
  BY DEF AllRead, WidthRead
<1>2. Width(d) \in Int /\ width \in Int /\ precision \in Int /\ Precision(d) \in Int
  BY <1>1, WidthIs
<1>3. /\ s \in Seq(Char) /\ Len(s) \in Nat /\ Len(s) >= 1
      /\ k \in Nat /\ t \in Seq(Char) /\ Len(t) = k
  BY <1>2, ChosenIs
<1>4. PutString(d.value) = IF leftpad THEN Pad(padc, width - k) \o t
                           ELSE t \o Pad(" ", width - k)
  BY DEF PutString, Source, Nulls, Chosen
<1>5. Shown(d) = t
  <2> DEFINE m == IF Precision(d) >= 0 /\ Precision(d) < Len(s) - 1
                  THEN Precision(d) ELSE Len(s) - 1
  <2>1. k = m
    <3> HIDE DEF s
    <3> QED BY <1>1, <1>2, <1>3 DEF Strnlen
  <2>2. Shown(d) = Chosen(s, m, HasFlag(d, "#"))
    BY DEF Shown, Chosen, Source, Nulls
  <2> HIDE DEF m, k, s
  <2> QED BY <1>1, <2>1, <2>2
<1> HIDE DEF s, k, t
<1>6. width - k \in Int /\ Pad(padc, width - k) \in Seq(Char) /\ Pad(" ", width - k) \in Seq(Char)
  <2>1. width - k \in Int
    BY <1>2, <1>3
  <2>2. " " \in Char
    BY Pads
  <2> QED BY <1>1, <2>1, <2>2, PadIs
<1>7. PutString(d.value) \in Seq(Char)
  <2> DEFINE p == Pad(padc, width - k)
             q == Pad(" ", width - k)
  <2>1. p \in Seq(Char) /\ q \in Seq(Char)
    BY <1>6
  <2> HIDE DEF p, q
  <2>2. p \o t \in Seq(Char) /\ t \o q \in Seq(Char)
    BY <1>3, <2>1, Cat
  <2> QED BY <1>4, <2>2 DEF p, q
<1>8. /\ ~HasFlag(d, "-") => Fill(d, t) = Pad(PadOf(d), width - k) \o t
      /\ HasFlag(d, "-") => Fill(d, t) = t \o Pad(" ", width - k)
  <2>1. ASSUME ~HasFlag(d, "-") PROVE Fill(d, t) = Pad(PadOf(d), width - Len(t)) \o t
    BY <1>1, <1>2, <1>3, <2>1, FillIs
  <2>2. ASSUME HasFlag(d, "-") PROVE Fill(d, t) = t \o Pad(" ", width - Len(t))
    BY <1>1, <1>2, <1>3, <2>2, FillIs
  <2> QED BY <1>3, <2>1, <2>2
<1>9. ASSUME Supported(d) PROVE PutString(d.value) = Fill(d, t)
  <2>1. padc = PadOf(d)
    BY <1>1, <1>9
  <2>2. CASE HasFlag(d, "-")
    <3>1. padc = "-"
      BY <2>1, <2>2 DEF PadOf
    <3> QED BY <1>4, <1>8, <2>2, <3>1
  <2>3. CASE ~HasFlag(d, "-") /\ width > 0
    <3>1. padc # "-"
      BY <2>1, <2>3 DEF PadOf
    <3> QED BY <1>4, <1>8, <2>1, <2>3, <3>1
  <2>4. CASE ~HasFlag(d, "-") /\ ~(width > 0)
    <3>1. width - k <= 0
      BY <1>2, <1>3, <2>4
    <3>2. Pad(padc, width - k) \o t = t /\ t \o Pad(" ", width - k) = t
      BY <1>3, <1>6, <3>1, NoPad
    <3> QED BY <1>4, <1>8, <2>1, <2>4, <3>2
  <2> QED BY <2>2, <2>3, <2>4
<1> QED BY <1>5, <1>7, <1>9

\* What each directive means.
LEMMA MeaningIs ==
  ASSUME NEW d
  PROVE  /\ d.conv = "c" => Meaning(d) = d.before \o <<d.value>>
         /\ d.conv = "s" => Meaning(d) = d.before \o Fill(d, Shown(d))
         /\ d.conv = "d" /\ d.value \in Int /\ d.value < 0 =>
              Meaning(d) = d.before \o (<<"-">> \o Fill(d, Numeral(-d.value, 10)))
         /\ d.conv = "d" /\ d.value \in Nat =>
              Meaning(d) = d.before \o Fill(d, Numeral(d.value, 10))
         /\ d.conv = "u" =>
              Meaning(d) = d.before \o Fill(d, Numeral(Unsigned(d.value, d.longs), 10))
         /\ d.conv = "x" =>
              Meaning(d) = d.before \o Fill(d, Numeral(Unsigned(d.value, d.longs), 16))
         /\ d.conv = "p" =>
              Meaning(d) = d.before
                \o (<<"0", "x">> \o Fill(d, Numeral(Unsigned(d.value, 0), 16)))
         /\ d.conv = "e" => Meaning(d) = d.before \o ErrorMeaning(d.value)
         /\ d.conv = "o" => Meaning(d) = d.before \o <<"X", "X", "X">>
         /\ d.conv = "%" => Meaning(d) = d.before \o <<"%">>
         /\ d.conv \notin Conversions =>
              Meaning(d) = d.before \o SubSeq(Written(d), Len(d.before) + 1, Len(Written(d)))
<1>1. ASSUME d.conv = "c" PROVE Meaning(d) = d.before \o <<d.value>>
  BY <1>1 DEF Meaning
<1>2. ASSUME d.conv = "s" PROVE Meaning(d) = d.before \o Fill(d, Shown(d))
  BY <1>2 DEF Meaning
<1>3. ASSUME d.conv = "d", d.value \in Int, d.value < 0
      PROVE  Meaning(d) = d.before \o (<<"-">> \o Fill(d, Numeral(-d.value, 10)))
  <2>1. ~(d.value >= 0)
    BY <1>3
  <2> QED BY <1>3, <2>1 DEF Meaning
<1>4. ASSUME d.conv = "d", d.value \in Nat
      PROVE  Meaning(d) = d.before \o Fill(d, Numeral(d.value, 10))
  <2>1. ~(d.value < 0) /\ d.value >= 0
    BY <1>4
  <2> QED BY <1>4, <2>1 DEF Meaning
<1>5. ASSUME d.conv = "u"
      PROVE  Meaning(d) = d.before \o Fill(d, Numeral(Unsigned(d.value, d.longs), 10))
  BY <1>5 DEF Meaning
<1>6. ASSUME d.conv = "x"
      PROVE  Meaning(d) = d.before \o Fill(d, Numeral(Unsigned(d.value, d.longs), 16))
  BY <1>6 DEF Meaning
<1>7. ASSUME d.conv = "p"
      PROVE  Meaning(d) = d.before
               \o (<<"0", "x">> \o Fill(d, Numeral(Unsigned(d.value, 0), 16)))
  BY <1>7 DEF Meaning
<1>8. ASSUME d.conv = "e" PROVE Meaning(d) = d.before \o ErrorMeaning(d.value)
  BY <1>8 DEF Meaning
<1>9. ASSUME d.conv = "o" PROVE Meaning(d) = d.before \o <<"X", "X", "X">>
  BY <1>9 DEF Meaning
<1>10. ASSUME d.conv = "%" PROVE Meaning(d) = d.before \o <<"%">>
  BY <1>10 DEF Meaning
<1>11. ASSUME d.conv \notin Conversions
       PROVE  Meaning(d) = d.before \o SubSeq(Written(d), Len(d.before) + 1, Len(Written(d)))
  BY <1>11 DEF Meaning, Conversions
<1> QED BY <1>1, <1>2, <1>3, <1>4, <1>5, <1>6, <1>7, <1>8, <1>9, <1>10, <1>11

\* What each conversion puts.
Puts(d, s) ==
  /\ d.conv = "c" => s = <<d.value>>
  /\ d.conv = "e" => s = PutError(d.value)
  /\ d.conv = "s" => s = PutString(d.value)
  /\ d.conv = "d" => s = IF d.value < 0
                         THEN <<"-">> \o PrintNum(-d.value, 10, width, padc)
                         ELSE PrintNum(d.value, 10, width, padc)
  /\ d.conv = "u" => s = PrintNum(Getuint(d.value), 10, width, padc)
  /\ d.conv = "x" => s = PrintNum(Getuint(d.value), 16, width, padc)
  /\ d.conv = "p" => s = <<"0", "x">> \o PrintNum(d.value % UInt, 16, width, padc)
  /\ d.conv = "o" => s = <<"X", "X", "X">>
  /\ d.conv = "%" => s = <<"%">>

\* Unsigned arguments are naturals.
LEMMA UnsignedIs ==
  ASSUME NEW v \in Int, NEW l \in Nat
  PROVE  Unsigned(v, l) \in Nat
<1>1. UInt \in Nat \ {0} /\ ULongLong \in Nat \ {0}
  BY PrintfAssumption
<1>2. \A m \in Nat \ {0} : v % m \in Nat
  OBVIOUS
<1> QED BY <1>1, <1>2 DEF Unsigned

\* What is put is what is meant.
LEMMA PutsMeaning ==
  ASSUME NEW d, AllRead(d), d.conv \in Conversions, NEW s, Puts(d, s)
  PROVE  /\ s \in Seq(Char)
         /\ Supported(d) => d.before \o s = Meaning(d)
<1>1. /\ WellFormed(d) /\ lflag = d.longs /\ d.longs \in Nat
      /\ d.conv \in {"d", "u", "x", "p", "e"} => d.value \in Int
      /\ d.conv = "c" => d.value \in Char
      /\ d.conv = "s" => d.value \in Seq(Char)
  BY DEF AllRead, WellFormed
<1>2. 10 \in Bases /\ 16 \in Bases
  BY DEF Bases
<1>3. "-" \in Char /\ "0" \in Char /\ "x" \in Char /\ "X" \in Char /\ "%" \in Char
  BY Chars
<1>4. d.conv \in {"d", "u", "x", "p"} /\ Supported(d) => ~HasFlag(d, "-")
  BY DEF Supported
<1>5. CASE d.conv = "c"
  <2>1. s = <<d.value>> /\ d.value \in Char
    BY <1>1, <1>5 DEF Puts
  <2>2. s \in Seq(Char)
    BY <2>1, One
  <2> QED BY <1>5, <2>1, <2>2, MeaningIs
<1>6. CASE d.conv = "e"
  <2>1. s = PutError(d.value) /\ d.value \in Int
    BY <1>1, <1>6 DEF Puts
  <2>2. s \in Seq(Char) /\ s = ErrorMeaning(d.value)
    BY <2>1, ErrorIs
  <2> QED BY <1>6, <2>2, MeaningIs
<1>7. CASE d.conv = "s"
  <2>1. s = PutString(d.value) /\ d.value \in Seq(Char)
    BY <1>1, <1>7 DEF Puts
  <2>2. s \in Seq(Char) /\ (Supported(d) => s = Fill(d, Shown(d)))
    BY <2>1, StringIs
  <2> QED BY <1>7, <2>2, MeaningIs
<1>8. CASE d.conv = "d" /\ d.value < 0
  <2> DEFINE v == -d.value
             t == PrintNum(v, 10, width, padc)
             m == <<"-">>
  <2>1. d.value \in Int /\ v \in Nat /\ s = m \o t
    BY <1>1, <1>8 DEF Puts
  <2>2. t \in Seq(Char) /\ (Supported(d) => t = Fill(d, Numeral(v, 10)))
    <3> HIDE DEF v
    <3> QED BY <1>2, <1>4, <1>8, <2>1, NumberFills
  <2>3. m \in Seq(Char)
    BY <1>3, One
  <2>4. Meaning(d) = d.before \o (m \o Fill(d, Numeral(v, 10)))
    BY <1>8, <2>1, MeaningIs
  <2> HIDE DEF v, t, m
  <2>5. m \o t \in Seq(Char)
    BY <2>2, <2>3, Cat
  <2> QED BY <2>1, <2>2, <2>4, <2>5
<1>9. CASE d.conv = "d" /\ ~(d.value < 0)
  <2> DEFINE v == d.value
             t == PrintNum(v, 10, width, padc)
  <2>1. v \in Nat /\ s = t
    BY <1>1, <1>9 DEF Puts
  <2>2. t \in Seq(Char) /\ (Supported(d) => t = Fill(d, Numeral(v, 10)))
    <3> HIDE DEF v
    <3> QED BY <1>2, <1>4, <1>9, <2>1, NumberFills
  <2>3. Meaning(d) = d.before \o Fill(d, Numeral(v, 10))
    BY <1>9, <2>1, MeaningIs
  <2> HIDE DEF v, t
  <2> QED BY <2>1, <2>2, <2>3
<1>10. CASE d.conv = "u"
  <2> DEFINE v == Getuint(d.value)
             t == PrintNum(v, 10, width, padc)
  <2>1. v = Unsigned(d.value, d.longs) /\ s = t
    BY <1>1, <1>10 DEF Puts, Getuint, Unsigned
  <2>2. v \in Nat
    <3>1. d.value \in Int
      BY <1>1, <1>10
    <3> QED BY <1>1, <2>1, <3>1, UnsignedIs
  <2>3. t \in Seq(Char) /\ (Supported(d) => t = Fill(d, Numeral(v, 10)))
    <3> HIDE DEF v
    <3> QED BY <1>2, <1>4, <1>10, <2>2, NumberFills
  <2>4. Meaning(d) = d.before \o Fill(d, Numeral(v, 10))
    BY <1>10, <2>1, MeaningIs
  <2> HIDE DEF v, t
  <2> QED BY <2>1, <2>3, <2>4
<1>11. CASE d.conv = "x"
  <2> DEFINE v == Getuint(d.value)
             t == PrintNum(v, 16, width, padc)
  <2>1. v = Unsigned(d.value, d.longs) /\ s = t
    BY <1>1, <1>11 DEF Puts, Getuint, Unsigned
  <2>2. v \in Nat
    <3>1. d.value \in Int
      BY <1>1, <1>11
    <3> QED BY <1>1, <2>1, <3>1, UnsignedIs
  <2>3. t \in Seq(Char) /\ (Supported(d) => t = Fill(d, Numeral(v, 16)))
    <3> HIDE DEF v
    <3> QED BY <1>2, <1>4, <1>11, <2>2, NumberFills
  <2>4. Meaning(d) = d.before \o Fill(d, Numeral(v, 16))
    BY <1>11, <2>1, MeaningIs
  <2> HIDE DEF v, t
  <2> QED BY <2>1, <2>3, <2>4
<1>12. CASE d.conv = "p"
  <2> DEFINE v == d.value % UInt
             t == PrintNum(v, 16, width, padc)
             m == <<"0", "x">>
  <2>1. v = Unsigned(d.value, 0) /\ s = m \o t
    BY <1>12 DEF Puts, Unsigned
  <2>2. v \in Nat
    <3>1. d.value \in Int /\ 0 \in Nat
      BY <1>1, <1>12
    <3> QED BY <2>1, <3>1, UnsignedIs
  <2>3. t \in Seq(Char) /\ (Supported(d) => t = Fill(d, Numeral(v, 16)))
    <3> HIDE DEF v
    <3> QED BY <1>2, <1>4, <1>12, <2>2, NumberFills
  <2>4. Meaning(d) = d.before \o (m \o Fill(d, Numeral(v, 16)))
    BY <1>12, <2>1, MeaningIs
  <2>5. m \in Seq(Char)
    BY <1>3
  <2> HIDE DEF v, t, m
  <2>6. m \o t \in Seq(Char)
    BY <2>3, <2>5, Cat
  <2> QED BY <2>1, <2>3, <2>4, <2>6
<1>13. CASE d.conv = "o"
  <2>1. s = <<"X", "X", "X">>
    BY <1>13 DEF Puts
  <2>2. <<"X", "X", "X">> \in Seq(Char)
    BY <1>3
  <2> QED BY <1>13, <2>1, <2>2, MeaningIs
<1>14. CASE d.conv = "%"
  <2>1. s = <<"%">>
    BY <1>14 DEF Puts
  <2>2. <<"%">> \in Seq(Char)
    BY <1>3, One
  <2> QED BY <1>14, <2>1, <2>2, MeaningIs
<1> QED BY <1>5, <1>6, <1>7, <1>8, <1>9, <1>10, <1>11, <1>12, <1>13, <1>14 DEF Conversions

\* The rest of a sequence completes what it begins with.
LEMMA Completes ==
  ASSUME NEW S, NEW s \in Seq(S), NEW t \in Seq(S), Begins(s, t)
  PROVE  s \o SubSeq(t, Len(s) + 1, Len(t)) = t
BY DEF Begins

\* The ends of the parts, one behind the other.
LEMMA EndsAre ==
  ASSUME NEW d, WellFormed(d)
  PROVE  /\ Len(d.before) \in Nat /\ FlagsEnd(d) \in Nat /\ WidthEnd(d) \in Nat
         /\ PointEnd(d) \in Nat /\ PrecisionEnd(d) \in Nat /\ LongsEnd(d) \in Nat
         /\ Len(d.before) + 1 <= FlagsEnd(d) /\ FlagsEnd(d) <= WidthEnd(d)
         /\ WidthEnd(d) <= PointEnd(d) /\ PointEnd(d) <= PrecisionEnd(d)
         /\ PrecisionEnd(d) <= LongsEnd(d)
         /\ LongsEnd(d) <= Len(Written(d)) /\ Len(Written(d)) \in Nat
<1>1. d.flags \in Seq({"-", "0", "#"}) /\ d.longs \in Nat
  BY DEF WellFormed
<1>2. d.before \in Seq(Char \ {"%", NUL})
  BY DEF WellFormed
<1>3. Number(d.width) \in Seq(Char) /\ Number(d.precision) \in Seq(Char)
  <2>1. {d.width, d.precision} \subseteq (Nat \ {0}) \cup {None, Star}
    BY DEF WellFormed
  <2> QED BY <2>1, NumbersAre
<1>4. /\ Len(d.before) \in Nat /\ Len(d.flags) \in Nat
      /\ Len(Number(d.width)) \in Nat /\ Len(Number(d.precision)) \in Nat
  BY <1>1, <1>2, <1>3
<1>5. FlagsEnd(d) \in Nat /\ Len(d.before) + 1 <= FlagsEnd(d)
  <2> DEFINE x == Len(d.before)
             y == Len(d.flags)
  <2>1. x \in Nat /\ y \in Nat /\ FlagsEnd(d) = x + 1 + y
    BY <1>4 DEF FlagsEnd
  <2> HIDE DEF x, y
  <2>2. FlagsEnd(d) \in Nat /\ x + 1 <= FlagsEnd(d)
    BY <2>1
  <2> QED BY <2>2 DEF x
<1>6. WidthEnd(d) \in Nat /\ FlagsEnd(d) <= WidthEnd(d)
  BY <1>4, <1>5 DEF WidthEnd
<1>7. PointEnd(d) \in Nat /\ WidthEnd(d) <= PointEnd(d)
  BY <1>6 DEF PointEnd
<1>8. PrecisionEnd(d) \in Nat /\ PointEnd(d) <= PrecisionEnd(d)
  BY <1>4, <1>7 DEF PrecisionEnd
<1>9. LongsEnd(d) \in Nat /\ PrecisionEnd(d) <= LongsEnd(d)
  BY <1>1, <1>8 DEF LongsEnd
<1>10. LongsEnd(d) <= Len(Written(d)) /\ Len(Written(d)) \in Nat
  <2>1. Len(Written(d)) = LongsEnd(d) + (IF d.conv = NUL THEN 0 ELSE 1)
    BY WrittenIs DEF Spelled
  <2> QED BY <1>9, <2>1
<1> QED BY <1>4, <1>5, <1>6, <1>7, <1>8, <1>9, <1>10

\* A directive that vprintfmt does not know means its own text.
LEMMA LiteralIs ==
  ASSUME NEW d, WellFormed(d), d.conv \notin Conversions
  PROVE  Meaning(d) = Written(d)
<1>1. Spelled(d)
  BY WrittenIs
<1>2. d.before \in Seq(Char)
  <2>1. d.before \in Seq(Char \ {"%", NUL}) /\ Char \ {"%", NUL} \subseteq Char
    BY DEF WellFormed
  <2> QED BY <2>1, Widen
<1>3. Written(d) \in Seq(Char)
  BY <1>1 DEF Spelled
<1>4. Len(d.before) <= Len(Written(d))
  BY EndsAre
<1>5. Begins(d.before, Written(d))
  BY <1>1, <1>4 DEF Begins, Spelled
<1>6. d.before \o SubSeq(Written(d), Len(d.before) + 1, Len(Written(d))) = Written(d)
  BY <1>2, <1>3, <1>5, Completes
<1> QED BY <1>6, MeaningIs

\* The characters that %s shows are characters.
LEMMA ShownIs ==
  ASSUME NEW d, WellFormed(d), d.value \in Seq(Char)
  PROVE  Shown(d) \in Seq(Char)
<1> DEFINE s == Source(d.value)
           p == Precision(d)
           m == IF p >= 0 /\ p < Len(s) - 1 THEN p ELSE Len(s) - 1
           k == Strnlen(s, p)
<1>1. p \in Int
  BY WidthIs
<1>2. Shown(d) = Chosen(s, m, HasFlag(d, "#"))
  BY DEF Shown, Chosen, Source, Nulls
<1> HIDE DEF p
<1>3. s \in Seq(Char) /\ Len(s) >= 1 /\ Chosen(s, k, HasFlag(d, "#")) \in Seq(Char)
  BY <1>1, ChosenIs
<1> HIDE DEF s
<1>4. Len(s) \in Nat
  BY <1>3
<1>5. k = m
  BY <1>1, <1>3, <1>4 DEF Strnlen
<1> HIDE DEF k, m
<1> QED BY <1>2, <1>3, <1>5

\* Filling keeps characters characters.
LEMMA FilledIs ==
  ASSUME NEW d, WellFormed(d), NEW t \in Seq(Char)
  PROVE  Fill(d, t) \in Seq(Char)
<1>1. Width(d) \in Int
  BY WidthIs
<1> DEFINE w == Width(d)
<1>2. w \in Int /\ (w = Width(d) \/ (Width(d) < 0 /\ w = 0))
  BY <1>1
<1> HIDE DEF w
<1> QED BY <1>1, <1>2, FillIs

\* What a directive means is text.
LEMMA MeaningText ==
  ASSUME NEW d, WellFormed(d)
  PROVE  Meaning(d) \in Seq(Char)
<1>1. /\ d.before \in Seq(Char)
      /\ d.conv \in {"d", "u", "x", "p", "e"} => d.value \in Int
      /\ d.conv = "c" => d.value \in Char
      /\ d.conv = "s" => d.value \in Seq(Char)
      /\ d.longs \in Nat
  <2>1. d.before \in Seq(Char \ {"%", NUL}) /\ Char \ {"%", NUL} \subseteq Char
    BY DEF WellFormed
  <2>2. d.before \in Seq(Char)
    BY <2>1, Widen
  <2> QED BY <2>2 DEF WellFormed
<1>2. 10 \in Bases /\ 16 \in Bases
  BY DEF Bases
<1>3. "-" \in Char /\ "0" \in Char /\ "x" \in Char /\ "X" \in Char /\ "%" \in Char
  BY Chars
<1>4. ASSUME NEW B \in Bases, NEW v \in Nat PROVE Fill(d, Numeral(v, B)) \in Seq(Char)
  <2>1. Numeral(v, B) \in Seq(Char)
    BY NumeralIs
  <2> QED BY <2>1, FilledIs
<1>5. ASSUME NEW s \in Seq(Char) PROVE d.before \o s \in Seq(Char)
  BY <1>1, <1>5, Cat
<1>6. CASE d.conv = "c"
  <2>1. <<d.value>> \in Seq(Char)
    BY <1>1, <1>6, One
  <2> QED BY <1>5, <1>6, <2>1, MeaningIs
<1>7. CASE d.conv = "e"
  <2>1. d.value \in Int
    BY <1>1, <1>7
  <2>2. ErrorMeaning(d.value) \in Seq(Char)
    BY <2>1, ErrorIs
  <2> QED BY <1>5, <1>7, <2>2, MeaningIs
<1>8. CASE d.conv = "s"
  <2>1. Shown(d) \in Seq(Char)
    BY <1>1, <1>8, ShownIs
  <2>2. Fill(d, Shown(d)) \in Seq(Char)
    BY <2>1, FilledIs
  <2> QED BY <1>5, <1>8, <2>2, MeaningIs
<1>9. CASE d.conv = "d" /\ d.value < 0
  <2> DEFINE v == -d.value
             m == <<"-">>
             t == Fill(d, Numeral(v, 10))
  <2>1. d.value \in Int /\ v \in Nat
    BY <1>1, <1>9
  <2>2. t \in Seq(Char)
    <3> HIDE DEF v
    <3> QED BY <1>2, <1>4, <2>1
  <2>3. m \in Seq(Char)
    BY <1>3, One
  <2>4. Meaning(d) = d.before \o (m \o t)
    BY <1>9, <2>1, MeaningIs
  <2> HIDE DEF v, t, m
  <2>5. m \o t \in Seq(Char)
    BY <2>2, <2>3, Cat
  <2> QED BY <1>5, <2>4, <2>5
<1>10. CASE d.conv = "d" /\ ~(d.value < 0)
  <2>1. d.value \in Nat
    BY <1>1, <1>10
  <2>2. Fill(d, Numeral(d.value, 10)) \in Seq(Char)
    BY <1>2, <1>4, <2>1
  <2>3. Meaning(d) = d.before \o Fill(d, Numeral(d.value, 10))
    BY <1>10, <2>1, MeaningIs
  <2> QED BY <1>5, <2>2, <2>3
<1>11. CASE d.conv \in {"u", "x", "p"}
  <2> DEFINE v == Unsigned(d.value, d.longs)
             w == Unsigned(d.value, 0)
             m == <<"0", "x">>
             t == Fill(d, Numeral(w, 16))
  <2>1. d.value \in Int /\ 0 \in Nat
    BY <1>1, <1>11
  <2>2. v \in Nat /\ w \in Nat
    BY <1>1, <2>1, UnsignedIs
  <2>3. /\ d.conv = "u" => Meaning(d) = d.before \o Fill(d, Numeral(v, 10))
        /\ d.conv = "x" => Meaning(d) = d.before \o Fill(d, Numeral(v, 16))
        /\ d.conv = "p" => Meaning(d) = d.before \o (m \o t)
    BY MeaningIs
  <2> HIDE DEF v, w
  <2>4. Fill(d, Numeral(v, 10)) \in Seq(Char) /\ Fill(d, Numeral(v, 16)) \in Seq(Char)
    BY <1>2, <1>4, <2>2
  <2>5. t \in Seq(Char)
    BY <1>2, <1>4, <2>2
  <2>6. m \in Seq(Char)
    BY <1>3
  <2> HIDE DEF t, m
  <2>7. m \o t \in Seq(Char)
    BY <2>5, <2>6, Cat
  <2> QED BY <1>5, <1>11, <2>3, <2>4, <2>7
<1>12. CASE d.conv = "o"
  <2>1. <<"X", "X", "X">> \in Seq(Char)
    BY <1>3
  <2> QED BY <1>5, <1>12, <2>1, MeaningIs
<1>13. CASE d.conv = "%"
  <2>1. <<"%">> \in Seq(Char)
    BY <1>3, One
  <2> QED BY <1>5, <1>13, <2>1, MeaningIs
<1>14. CASE d.conv \notin Conversions
  <2>1. Written(d) \in Seq(Char)
    BY WrittenIs DEF Spelled
  <2> QED BY <1>14, <2>1, LiteralIs
<1> QED BY <1>6, <1>7, <1>8, <1>9, <1>10, <1>11, <1>12, <1>13, <1>14 DEF Conversions

-----------------------------------------------------------------------------
(* Where vprintfmt is in the format                                        *)

N == Len(items)

Texts == [k \in DOMAIN items |-> Written(items[k])]
Lists == [k \in DOMAIN items |-> Arguments(items[k])]
Senses == [k \in DOMAIN items |-> Meaning(items[k])]

\* j characters of the k-th item are read, and t of its arguments are taken.
At(k, j, t) ==
  /\ fmt = Len(Prefixes(Texts)[k - 1]) + j + 1
  /\ ap = Len(Prefixes(Lists)[k - 1]) + t + 1

\* The items of a format are well-formed, and only the last may lack a conversion.
LEMMA FormatIs ==
  ASSUME items \in Formats
  PROVE  /\ N \in Nat /\ DOMAIN items = 1 .. N
         /\ \A k \in 1 .. N : WellFormed(items[k])
         /\ \A k \in 1 .. N : items[k].conv = NUL => k = N
<1>1. /\ items \in Seq({items[k] : k \in DOMAIN items})
      /\ \A k \in DOMAIN items : WellFormed(items[k])
      /\ \A k \in DOMAIN items : items[k].conv = NUL => k = Len(items)
  BY PrintfAssumption
<1>2. Len(items) \in Nat /\ DOMAIN items = 1 .. Len(items)
  BY <1>1
<1> QED BY <1>1, <1>2 DEF N

\* A function on 1 .. m is as long.
LEMMA RowIs ==
  ASSUME NEW S, NEW m \in Nat, NEW f, f \in [1 .. m -> S]
  PROVE  f \in Seq(S) /\ Len(f) = m
OBVIOUS

\* The texts, arguments and meanings of the items.
LEMMA RowsAre ==
  ASSUME items \in Formats
  PROVE  /\ Len(Texts) = N /\ Len(Lists) = N /\ Len(Senses) = N
         /\ \A k \in 1 .. N : Texts[k] = Written(items[k]) /\ Texts[k] \in Seq(Char)
         /\ \A k \in 1 .. N : Lists[k] = Arguments(items[k]) /\ Lists[k] \in Seq(Any)
         /\ \A k \in 1 .. N : Senses[k] = Meaning(items[k]) /\ Senses[k] \in Seq(Char)
<1>1. /\ N \in Nat /\ DOMAIN items = 1 .. N
      /\ \A k \in 1 .. N : WellFormed(items[k])
  BY FormatIs
<1>2. \A k \in 1 .. N : Written(items[k]) \in Seq(Char)
  <2>1. ASSUME NEW k \in 1 .. N PROVE Written(items[k]) \in Seq(Char)
    <3>1. Spelled(items[k])
      BY <1>1, WrittenIs
    <3> QED BY <3>1 DEF Spelled
  <2> QED BY <2>1
<1>3. \A k \in 1 .. N : Arguments(items[k]) \in Seq(Any)
  <2>1. ASSUME NEW k \in 1 .. N PROVE Arguments(items[k]) \in Seq(Any)
    <3>1. Listed(items[k])
      BY <1>1, ArgumentsAre
    <3> QED BY <3>1 DEF Listed
  <2> QED BY <2>1
<1>4. \A k \in 1 .. N : Meaning(items[k]) \in Seq(Char)
  BY <1>1, MeaningText
<1>5. /\ Texts \in [1 .. N -> Seq(Char)]
      /\ \A k \in 1 .. N : Texts[k] = Written(items[k])
  BY <1>1, <1>2 DEF Texts
<1>6. /\ Lists \in [1 .. N -> Seq(Any)]
      /\ \A k \in 1 .. N : Lists[k] = Arguments(items[k])
  BY <1>1, <1>3 DEF Lists
<1>7. /\ Senses \in [1 .. N -> Seq(Char)]
      /\ \A k \in 1 .. N : Senses[k] = Meaning(items[k])
  BY <1>1, <1>4 DEF Senses
<1>8. Len(Texts) = N /\ Len(Lists) = N /\ Len(Senses) = N
  BY <1>1, <1>5, <1>6, <1>7, RowIs
<1> QED BY <1>2, <1>3, <1>4, <1>5, <1>6, <1>7, <1>8

\* The next character and the next argument.
LEMMA Reads ==
  ASSUME items \in Formats, NEW k \in 1 .. N, NEW j \in Nat, NEW t \in Nat, At(k, j, t)
  PROVE  /\ fmt \in Nat /\ ap \in Nat
         /\ j < Len(Written(items[k])) => fmt \in 1 .. Len(format) /\ ch = Written(items[k])[j + 1]
         /\ j <= Len(Written(items[k])) => fmt \in 1 .. Len(format) + 1
         /\ t < Len(Arguments(items[k])) =>
              ap \in 1 .. Len(args) /\ args[ap] = Arguments(items[k])[t + 1]
         /\ t <= Len(Arguments(items[k])) => ap \in 1 .. Len(args) + 1
<1> DEFINE w == Written(items[k])
           a == Arguments(items[k])
           x == Len(Prefixes(Texts)[k - 1])
           y == Len(Prefixes(Lists)[k - 1])
<1>1. N \in Nat
  BY FormatIs
<1>2. /\ Len(Texts) = N /\ Len(Lists) = N
      /\ Texts[k] = w /\ Lists[k] = a /\ w \in Seq(Char) /\ a \in Seq(Any)
      /\ \A i \in 1 .. N : Texts[i] \in Seq(Char)
      /\ \A i \in 1 .. N : Lists[i] \in Seq(Any)
  BY RowsAre
<1>3. /\ x \in Nat /\ x + Len(w) <= Len(Flatten(Texts))
      /\ \A i \in 1 .. Len(w) : Flatten(Texts)[x + i] = w[i]
  <2>1. /\ Len(Texts) \in Nat /\ k \in 1 .. Len(Texts)
        /\ \A i \in 1 .. Len(Texts) : Texts[i] \in Seq(Char)
    BY <1>1, <1>2
  <2>2. Found(Texts, k)
    BY <2>1, InRow
  <2> HIDE DEF w
  <2> QED BY <1>2, <2>2 DEF Found
<1>4. /\ y \in Nat /\ y + Len(a) <= Len(Flatten(Lists))
      /\ \A i \in 1 .. Len(a) : Flatten(Lists)[y + i] = a[i]
  <2>1. /\ Len(Lists) \in Nat /\ k \in 1 .. Len(Lists)
        /\ \A i \in 1 .. Len(Lists) : Lists[i] \in Seq(Any)
    BY <1>1, <1>2
  <2>2. Found(Lists, k)
    BY <2>1, InRow
  <2> HIDE DEF a
  <2> QED BY <1>2, <2>2 DEF Found
<1>5. format = Flatten(Texts) /\ args = Flatten(Lists)
  BY DEF format, args, Texts, Lists
<1>6. fmt = x + j + 1 /\ ap = y + t + 1
  BY DEF At
<1>7. Flatten(Texts) \in Seq(Char) /\ Flatten(Lists) \in Seq(Any)
  <2>1. /\ Len(Texts) \in Nat /\ k \in 0 .. Len(Texts)
        /\ \A i \in 1 .. Len(Texts) : Texts[i] \in Seq(Char)
    BY <1>1, <1>2
  <2>2. /\ Len(Lists) \in Nat /\ k \in 0 .. Len(Lists)
        /\ \A i \in 1 .. Len(Lists) : Lists[i] \in Seq(Any)
    BY <1>1, <1>2
  <2>3. Flatten(Texts) \in Seq(Char)
    BY <2>1, RowsGrow
  <2>4. Flatten(Lists) \in Seq(Any)
    BY <2>2, RowsGrow
  <2> QED BY <2>3, <2>4
<1> HIDE DEF w, a, x, y
<1>8. /\ Len(w) \in Nat /\ Len(a) \in Nat
      /\ Len(format) \in Nat /\ Len(args) \in Nat
  BY <1>2, <1>5, <1>7
<1>9. fmt \in Nat /\ ap \in Nat
  BY <1>3, <1>4, <1>6
<1>10. ASSUME j < Len(w) PROVE fmt \in 1 .. Len(format) /\ ch = w[j + 1]
  <2>1. j + 1 \in 1 .. Len(w) /\ fmt = x + (j + 1)
    BY <1>3, <1>6, <1>8, <1>10
  <2>2. fmt \in 1 .. Len(format)
    BY <1>3, <1>5, <1>8, <2>1
  <2> QED BY <1>3, <1>5, <2>1, <2>2 DEF ch
<1>11. j <= Len(w) => fmt \in 1 .. Len(format) + 1
  BY <1>3, <1>5, <1>6, <1>8
<1>12. ASSUME t < Len(a) PROVE ap \in 1 .. Len(args) /\ args[ap] = a[t + 1]
  <2>1. t + 1 \in 1 .. Len(a) /\ ap = y + (t + 1)
    BY <1>4, <1>6, <1>8, <1>12
  <2>2. ap \in 1 .. Len(args)
    BY <1>4, <1>5, <1>8, <2>1
  <2> QED BY <1>4, <1>5, <2>1, <2>2
<1>13. t <= Len(a) => ap \in 1 .. Len(args) + 1
  BY <1>4, <1>5, <1>6, <1>8
<1> QED BY <1>9, <1>10, <1>11, <1>12, <1>13 DEF w, a

\* Behind an item is before the next.
LEMMA Passes ==
  ASSUME items \in Formats, NEW k \in 1 .. N
  PROVE  /\ At(k, Len(Written(items[k])), Len(Arguments(items[k]))) => At(k + 1, 0, 0)
         /\ Prefixes(Senses)[k] = Prefixes(Senses)[k - 1] \o Meaning(items[k])
         /\ Prefixes(Senses)[k - 1] \in Seq(Char)
<1> DEFINE w == Written(items[k])
           a == Arguments(items[k])
           x == Len(Prefixes(Texts)[k - 1])
           y == Len(Prefixes(Lists)[k - 1])
<1>1. N \in Nat
  BY FormatIs
<1>2. /\ Len(Texts) = N /\ Len(Lists) = N /\ Len(Senses) = N
      /\ Texts[k] = w /\ Lists[k] = a /\ w \in Seq(Char) /\ a \in Seq(Any)
      /\ Senses[k] = Meaning(items[k])
      /\ \A i \in 1 .. N : Texts[i] \in Seq(Char)
      /\ \A i \in 1 .. N : Lists[i] \in Seq(Any)
      /\ \A i \in 1 .. N : Senses[i] \in Seq(Char)
  BY RowsAre
<1>3. x \in Nat /\ Len(Prefixes(Texts)[k]) = x + Len(w)
  <2>1. /\ Len(Texts) \in Nat /\ k \in 1 .. Len(Texts)
        /\ \A i \in 1 .. Len(Texts) : Texts[i] \in Seq(Char)
    BY <1>1, <1>2
  <2>2. Found(Texts, k)
    BY <2>1, InRow
  <2> HIDE DEF w
  <2> QED BY <1>2, <2>2 DEF Found
<1>4. y \in Nat /\ Len(Prefixes(Lists)[k]) = y + Len(a)
  <2>1. /\ Len(Lists) \in Nat /\ k \in 1 .. Len(Lists)
        /\ \A i \in 1 .. Len(Lists) : Lists[i] \in Seq(Any)
    BY <1>1, <1>2
  <2>2. Found(Lists, k)
    BY <2>1, InRow
  <2> HIDE DEF a
  <2> QED BY <1>2, <2>2 DEF Found
<1>5. /\ Prefixes(Senses)[k] = Prefixes(Senses)[k - 1] \o Meaning(items[k])
      /\ Prefixes(Senses)[k - 1] \in Seq(Char)
  <2>1. /\ Len(Senses) \in Nat /\ k \in 1 .. Len(Senses) /\ k - 1 \in 0 .. Len(Senses)
        /\ \A i \in 1 .. Len(Senses) : Senses[i] \in Seq(Char)
    BY <1>1, <1>2
  <2>2. /\ Prefixes(Senses)[k] = Prefixes(Senses)[k - 1] \o Senses[k]
        /\ Prefixes(Senses)[k - 1] \in Seq(Char)
    BY <2>1, PrefixesAre
  <2> QED BY <1>2, <2>2
<1>6. ASSUME At(k, Len(w), Len(a)) PROVE At(k + 1, 0, 0)
  <2>1. fmt = x + Len(w) + 1 /\ ap = y + Len(a) + 1
    BY <1>6 DEF At
  <2>2. (k + 1) - 1 = k
    OBVIOUS
  <2>3. Len(Prefixes(Texts)[(k + 1) - 1]) = x + Len(w) /\ Len(Prefixes(Lists)[(k + 1) - 1]) = y + Len(a)
    BY <1>3, <1>4, <2>2
  <2>4. Len(w) \in Nat /\ Len(a) \in Nat
    BY <1>2
  <2> HIDE DEF w, a, x, y
  <2>5. x + Len(w) + 1 = (x + Len(w)) + 0 + 1 /\ y + Len(a) + 1 = (y + Len(a)) + 0 + 1
    BY <1>3, <1>4, <2>4
  <2> QED BY <2>1, <2>3, <2>5 DEF At
<1> QED BY <1>5, <1>6

\* Behind the last item is the end of the format.
LEMMA EndsThere ==
  ASSUME items \in Formats, At(N + 1, 0, 0)
  PROVE  /\ ch = NUL /\ fmt \in 1 .. Len(format) + 1 /\ ap \in 1 .. Len(args) + 1
<1>1. N \in Nat
  BY FormatIs
<1>2. /\ Len(Texts) = N /\ Len(Lists) = N
      /\ \A i \in 1 .. N : Texts[i] \in Seq(Char)
      /\ \A i \in 1 .. N : Lists[i] \in Seq(Any)
  BY RowsAre
<1>3. /\ Len(Texts) \in Nat /\ 0 \in 0 .. Len(Texts)
      /\ \A i \in 1 .. Len(Texts) : Texts[i] \in Seq(Char)
  BY <1>1, <1>2
<1>4. /\ Len(Lists) \in Nat /\ 0 \in 0 .. Len(Lists)
      /\ \A i \in 1 .. Len(Lists) : Lists[i] \in Seq(Any)
  BY <1>1, <1>2
<1>5. Flatten(Texts) \in Seq(Char) /\ Flatten(Texts) = Prefixes(Texts)[N]
  <2>1. Flatten(Texts) \in Seq(Char)
    BY <1>3, RowsGrow
  <2> QED BY <1>2, <2>1 DEF Flatten
<1>6. Flatten(Lists) \in Seq(Any) /\ Flatten(Lists) = Prefixes(Lists)[N]
  <2>1. Flatten(Lists) \in Seq(Any)
    BY <1>4, RowsGrow
  <2> QED BY <1>2, <2>1 DEF Flatten
<1>7. format = Flatten(Texts) /\ args = Flatten(Lists)
  BY DEF format, args, Texts, Lists
<1>8. Len(format) \in Nat /\ Len(args) \in Nat
  BY <1>5, <1>6, <1>7
<1>9. (N + 1) - 1 = N
  BY <1>1
<1>10. fmt = Len(format) + 0 + 1 /\ ap = Len(args) + 0 + 1
  BY <1>5, <1>6, <1>7, <1>9 DEF At
<1>11. /\ fmt \in 1 .. Len(format) + 1 /\ ap \in 1 .. Len(args) + 1
       /\ ~(fmt <= Len(format))
  BY <1>8, <1>10
<1> QED BY <1>11 DEF ch

-----------------------------------------------------------------------------
(* The invariant of vprintfmt                                              *)

AllSupported == \A k \in DOMAIN items : Supported(items[k])

\* Put, or about to be put: what the items before the k-th mean, and s.
Promised(k, s) == AllSupported => put \o out = Prefixes(Senses)[k - 1] \o s

\* The first m flags are read.
FlagsRead(d, m) ==
  LET Seen(c) == \E i \in 1 .. m : d.flags[i] = c
  IN  /\ Supported(d) =>
           padc = IF Seen("-") THEN "-" ELSE IF Seen("0") THEN "0" ELSE " "
      /\ altflag = Seen("#")

\* Where vprintfmt is in the directive of item k, when j characters are read.
ReadingFlags(k, d, j) ==
  /\ pc = "switch" /\ j \in Len(d.before) + 1 .. FlagsEnd(d)
  /\ At(k, j, 0)
  /\ FlagsRead(d, j - Len(d.before) - 1)
  /\ width = -1 /\ precision = -1 /\ lflag = 0

ReadingWidth(k, d, j) ==
  /\ pc = "digits" /\ d.width \in Nat /\ j \in FlagsEnd(d) + 1 .. WidthEnd(d)
  /\ At(k, j, 0)
  /\ FlagsRead(d, Len(d.flags))
  /\ width = -1 /\ precision = Front(d.width, j - FlagsEnd(d)) /\ lflag = 0

AfterWidth(k, d, j) ==
  /\ pc = "switch" /\ d.width # None /\ j = WidthEnd(d)
  /\ At(k, j, WidthStar(d))
  /\ FlagsRead(d, Len(d.flags))
  /\ width = Width(d) /\ precision = -1 /\ lflag = 0

AfterPoint(k, d, j) ==
  /\ pc = "switch" /\ d.precision # None /\ j = PointEnd(d)
  /\ At(k, j, WidthStar(d))
  /\ FlagsRead(d, Len(d.flags))
  /\ WidthRead(d) /\ width >= 0 /\ precision = -1 /\ lflag = 0

ReadingPrecision(k, d, j) ==
  /\ pc = "digits" /\ d.precision \in Nat /\ j \in PointEnd(d) + 1 .. PrecisionEnd(d)
  /\ At(k, j, WidthStar(d))
  /\ FlagsRead(d, Len(d.flags))
  /\ WidthRead(d) /\ width >= 0
  /\ precision = Front(d.precision, j - PointEnd(d)) /\ lflag = 0

ReadingLongs(k, d, j) ==
  /\ pc = "switch" /\ j \in PrecisionEnd(d) .. LongsEnd(d)
  /\ At(k, j, Stars(d))
  /\ FlagsRead(d, Len(d.flags))
  /\ WidthRead(d) /\ precision = Precision(d) /\ lflag = j - PrecisionEnd(d)

Phase(k, d, j) ==
  \/ ReadingFlags(k, d, j) \/ ReadingWidth(k, d, j) \/ AfterWidth(k, d, j)
  \/ AfterPoint(k, d, j) \/ ReadingPrecision(k, d, j) \/ ReadingLongs(k, d, j)

InDirective ==
  /\ out = <<>>
  /\ \E k \in 1 .. N : /\ Promised(k, items[k].before)
                       /\ \E j \in 0 .. Len(Written(items[k])) : Phase(k, items[k], j)

\* In the text before a directive, in the text of one that vprintfmt does not
\* know, and behind the last.
InBefore(k, j) ==
  /\ j \in 0 .. Len(items[k].before)
  /\ At(k, j, 0) /\ Promised(k, SubSeq(items[k].before, 1, j))

InLiteral(k, j) ==
  /\ items[k].conv \notin Conversions
  /\ j \in Len(items[k].before) + 1 .. Len(Written(items[k])) - 1
  /\ At(k, j, Stars(items[k])) /\ Promised(k, SubSeq(Written(items[k]), 1, j))

Behind == At(N + 1, 0, 0) /\ Promised(N + 1, <<>>)

InText ==
  \/ \E k \in 1 .. N : \E j \in 0 .. Len(Written(items[k])) : InBefore(k, j) \/ InLiteral(k, j)
  \/ Behind

Parsing ==
  /\ items \in Formats /\ n \in Int
  /\ pc \in {"start", "text", "switch", "digits", "done"}
  /\ pc \in {"text", "switch", "digits"} => n >= 1
  /\ put \in Seq(Char) /\ out \in Seq(Char)
  /\ padc \in {" ", "-", "0"} /\ lflag \in Nat
  /\ pc = "start" => fmt = 1 /\ ap = 1 /\ put = <<>> /\ out = <<>> /\ cnt = 0
  /\ pc = "text" => InText
  /\ pc \in {"switch", "digits"} => InDirective
  /\ pc = "done" =>
       /\ fmt \in 1 .. Len(format) + 1 /\ ap \in 1 .. Len(args) + 1
       /\ out = <<>> /\ (Buffer => Behind)

\* The format and its arguments stay.
LEMMA Same ==
  ASSUME UNCHANGED items
  PROVE  /\ N' = N /\ Texts' = Texts /\ Lists' = Lists /\ Senses' = Senses
         /\ AllSupported' = AllSupported /\ format' = format /\ args' = args
<1>1. N' = N
  BY DEF N
<1>2. Texts' = Texts
  BY DEF Texts
<1>3. Lists' = Lists
  BY DEF Lists
<1>4. Senses' = Senses
  BY DEF Senses
<1>5. AllSupported' = AllSupported
  BY DEF AllSupported
<1>6. format' = format /\ args' = args
  BY DEF format, args
<1> QED BY <1>1, <1>2, <1>3, <1>4, <1>5, <1>6

\* The next position.
LEMMA AtNext ==
  ASSUME items \in Formats, UNCHANGED items, NEW k \in 1 .. N, NEW j \in Int, NEW t \in Int,
         At(k, j, t)
  PROVE  /\ UNCHANGED <<fmt, ap>> => At(k, j, t)'
         /\ fmt' = fmt + 1 /\ ap' = ap => At(k, j + 1, t)'
         /\ fmt' = fmt + 1 /\ ap' = ap + 1 => At(k, j + 1, t + 1)'
<1> DEFINE x == Len(Prefixes(Texts)[k - 1])
           y == Len(Prefixes(Lists)[k - 1])
<1>1. N \in Nat
  BY FormatIs
<1>2. /\ Len(Texts) = N /\ Len(Lists) = N
      /\ \A i \in 1 .. N : Texts[i] \in Seq(Char)
      /\ \A i \in 1 .. N : Lists[i] \in Seq(Any)
  BY RowsAre
<1>3. x \in Nat
  <2>1. /\ Len(Texts) \in Nat /\ k \in 1 .. Len(Texts)
        /\ \A i \in 1 .. Len(Texts) : Texts[i] \in Seq(Char)
    BY <1>1, <1>2
  <2>2. Found(Texts, k)
    BY <2>1, InRow
  <2> QED BY <2>2 DEF Found
<1>4. y \in Nat
  <2>1. /\ Len(Lists) \in Nat /\ k \in 1 .. Len(Lists)
        /\ \A i \in 1 .. Len(Lists) : Lists[i] \in Seq(Any)
    BY <1>1, <1>2
  <2>2. Found(Lists, k)
    BY <2>1, InRow
  <2> QED BY <2>2 DEF Found
<1>5. fmt = x + j + 1 /\ ap = y + t + 1
  BY DEF At
<1>6. Texts' = Texts /\ Lists' = Lists
  BY Same
<1>7. /\ At(k, j, t)' <=> fmt' = x + j + 1 /\ ap' = y + t + 1
      /\ At(k, j + 1, t)' <=> fmt' = x + (j + 1) + 1 /\ ap' = y + t + 1
      /\ At(k, j + 1, t + 1)' <=> fmt' = x + (j + 1) + 1 /\ ap' = y + (t + 1) + 1
  BY <1>6 DEF At
<1> HIDE DEF x, y
<1> QED BY <1>3, <1>4, <1>5, <1>7

\* The digits, one by one.
LEMMA DigitsAre == Digits = {"0", "1", "2", "3", "4", "5", "6", "7", "8", "9"}
<1>1. 1 .. 10 = {1, 2, 3, 4, 5, 6, 7, 8, 9, 10}
  OBVIOUS
<1> QED BY <1>1 DEF Digits, Hexdigits

\* The character behind the first j of a directive.
Follows(d) ==
  LET W == Written(d)
  IN  /\ \A j \in 0 .. Len(d.before) - 1 : W[j + 1] = d.before[j + 1] /\ W[j + 1] \in Char \ {"%", NUL}
      /\ W[Len(d.before) + 1] = "%"
      /\ \A j \in Len(d.before) + 1 .. FlagsEnd(d) - 1 :
           W[j + 1] = d.flags[j - Len(d.before)] /\ W[j + 1] \in {"-", "0", "#"}
      /\ \A j \in FlagsEnd(d) .. WidthEnd(d) - 1 : W[j + 1] = Number(d.width)[j - FlagsEnd(d) + 1]
      /\ d.precision # None =>
           /\ W[WidthEnd(d) + 1] = "." /\ PointEnd(d) = WidthEnd(d) + 1
           /\ \A j \in PointEnd(d) .. PrecisionEnd(d) - 1 :
                W[j + 1] = Number(d.precision)[j - PointEnd(d) + 1]
      /\ \A j \in PrecisionEnd(d) .. LongsEnd(d) - 1 : W[j + 1] = "l"
      /\ d.conv # NUL => W[LongsEnd(d) + 1] = d.conv
      /\ Len(W) = LongsEnd(d) + (IF d.conv = NUL THEN 0 ELSE 1)

\* The parts of a directive follow each other as written.
LEMMA FollowsIs ==
  ASSUME NEW d, WellFormed(d)
  PROVE  Follows(d)
<1> DEFINE W == Written(d)
           w0 == Len(d.before)
           w1 == FlagsEnd(d)
           w2 == WidthEnd(d)
           w3 == PointEnd(d)
           w4 == PrecisionEnd(d)
           w5 == LongsEnd(d)
           l1 == Len(d.flags)
           l2 == Len(Number(d.width))
           l4 == Len(Number(d.precision))
           l5 == d.longs
<1>1. /\ w0 \in Nat /\ w1 \in Nat /\ w2 \in Nat /\ w3 \in Nat /\ w4 \in Nat /\ w5 \in Nat
  BY EndsAre
<1>2. d.before \in Seq(Char \ {"%", NUL}) /\ d.flags \in Seq({"-", "0", "#"}) /\ l5 \in Nat
  BY DEF WellFormed
<1>3. l1 \in Nat /\ l2 \in Nat /\ l4 \in Nat
  <2>1. {d.width, d.precision} \subseteq (Nat \ {0}) \cup {None, Star}
    BY DEF WellFormed
  <2>2. Number(d.width) \in Seq(Char) /\ Number(d.precision) \in Seq(Char)
    BY <2>1, NumbersAre
  <2> QED BY <1>2, <2>2
<1>4. /\ w1 = w0 + 1 + l1 /\ w2 = w1 + l2
      /\ w3 = w2 + (IF d.precision = None THEN 0 ELSE 1)
      /\ w4 = w3 + (IF d.precision = None THEN 0 ELSE l4)
      /\ w5 = w4 + l5
  BY DEF FlagsEnd, WidthEnd, PointEnd, PrecisionEnd, LongsEnd
<1>5. Spelled(d)
  BY WrittenIs
<1>6. /\ \A j \in 1 .. w0 : W[j] = d.before[j]
      /\ W[w0 + 1] = "%"
      /\ \A j \in 1 .. l1 : W[w0 + 1 + j] = d.flags[j]
      /\ \A j \in 1 .. l2 : W[w1 + j] = Number(d.width)[j]
      /\ d.precision # None =>
           /\ W[w2 + 1] = "."
           /\ \A j \in 1 .. l4 : W[w3 + j] = Number(d.precision)[j]
      /\ \A j \in 1 .. l5 : W[w4 + j] = "l"
      /\ d.conv # NUL => W[w5 + 1] = d.conv
      /\ Len(W) = w5 + (IF d.conv = NUL THEN 0 ELSE 1)
  BY <1>5 DEF Spelled
<1>7. \A j \in 1 .. w0 : d.before[j] \in Char \ {"%", NUL}
  BY <1>2
<1>8. \A j \in 1 .. l1 : d.flags[j] \in {"-", "0", "#"}
  BY <1>2
<1> HIDE DEF W, w0, w1, w2, w3, w4, w5, l1, l2, l4, l5
<1>9. ASSUME NEW j \in 0 .. w0 - 1
      PROVE  W[j + 1] = d.before[j + 1] /\ W[j + 1] \in Char \ {"%", NUL}
  <2>1. j + 1 \in 1 .. w0
    BY <1>1
  <2> QED BY <1>6, <1>7, <2>1
<1>10. ASSUME NEW j \in w0 + 1 .. w1 - 1
       PROVE  W[j + 1] = d.flags[j - w0] /\ W[j + 1] \in {"-", "0", "#"}
  <2>1. j - w0 \in 1 .. l1 /\ w0 + 1 + (j - w0) = j + 1
    BY <1>1, <1>3, <1>4
  <2> QED BY <1>6, <1>8, <2>1
<1>11. ASSUME NEW j \in w1 .. w2 - 1 PROVE W[j + 1] = Number(d.width)[j - w1 + 1]
  <2>1. j - w1 + 1 \in 1 .. l2 /\ w1 + (j - w1 + 1) = j + 1
    BY <1>1, <1>3, <1>4
  <2> QED BY <1>6, <2>1
<1>12. ASSUME d.precision # None
       PROVE  /\ W[w2 + 1] = "." /\ w3 = w2 + 1
              /\ \A j \in w3 .. w4 - 1 : W[j + 1] = Number(d.precision)[j - w3 + 1]
  <2>1. ASSUME NEW j \in w3 .. w4 - 1 PROVE W[j + 1] = Number(d.precision)[j - w3 + 1]
    <3>1. j - w3 + 1 \in 1 .. l4 /\ w3 + (j - w3 + 1) = j + 1
      BY <1>1, <1>3, <1>4, <1>12
    <3> QED BY <1>6, <1>12, <3>1
  <2> QED BY <1>4, <1>6, <1>12, <2>1
<1>13. ASSUME NEW j \in w4 .. w5 - 1 PROVE W[j + 1] = "l"
  <2>1. w4 \in Nat /\ l5 \in Nat /\ w5 = w4 + l5
    BY <1>1, <1>2, <1>4
  <2>2. j - w4 + 1 \in 1 .. l5 /\ w4 + (j - w4 + 1) = j + 1
    BY <2>1
  <2> QED BY <1>6, <2>2
<1> QED BY <1>6, <1>9, <1>10, <1>11, <1>12, <1>13 DEF Follows, W, w0, w1, w2, w3, w4, w5, l5

-----------------------------------------------------------------------------
(* What vprintfmt reads next                                               *)

\* The counts of the arguments.
LEMMA StarsAre ==
  ASSUME NEW d, WellFormed(d)
  PROVE  /\ WidthStar(d) \in Nat /\ Stars(d) \in Nat /\ WidthStar(d) <= Stars(d)
         /\ d.width = Star => WidthStar(d) = 1
         /\ d.width # Star => WidthStar(d) = 0
         /\ d.precision = Star => Stars(d) = WidthStar(d) + 1
         /\ d.precision # Star => Stars(d) = WidthStar(d)
         /\ Len(Arguments(d)) = Stars(d) + (IF d.conv \in Taking THEN 1 ELSE 0)
         /\ Len(Arguments(d)) \in Nat /\ Stars(d) <= Len(Arguments(d))
<1>1. Listed(d)
  BY ArgumentsAre
<1>2. Len(Arguments(d)) = Stars(d) + (IF d.conv \in Taking THEN 1 ELSE 0)
  BY <1>1 DEF Listed
<1>3. WidthStar(d) \in {0, 1} /\ Stars(d) = WidthStar(d) + (IF d.precision = Star THEN 1 ELSE 0)
  BY DEF WidthStar, Stars
<1>4. Stars(d) \in Nat /\ WidthStar(d) \in Nat /\ WidthStar(d) <= Stars(d)
  BY <1>3
<1>5. Len(Arguments(d)) \in Nat /\ Stars(d) <= Len(Arguments(d))
  BY <1>2, <1>4
<1> QED BY <1>2, <1>3, <1>4, <1>5 DEF WidthStar

\* A conversion is none of the characters before it.
LEMMA ConvIs ==
  ASSUME NEW d, WellFormed(d)
  PROVE  /\ d.conv \in Char /\ d.conv \notin Digits \cup {"-", ".", "#", "l", "*"}
         /\ d.conv \in Conversions \/ d.conv \notin Known
<1>1. d.conv \in Conversions \/ d.conv \in Char \ Known
  BY DEF WellFormed
<1>2. CASE d.conv \in Conversions
  BY <1>2, Chars, DigitsAre DEF Conversions, Known
<1>3. CASE d.conv \in Char \ Known
  BY <1>3 DEF Known
<1> QED BY <1>1, <1>2, <1>3

\* Behind the l's comes the conversion, or the end of the format.
LEMMA ReadsConv ==
  ASSUME items \in Formats, NEW k \in 1 .. N, NEW d, d = items[k], At(k, LongsEnd(d), Stars(d))
  PROVE  ch = d.conv
<1>1. WellFormed(d) /\ (d.conv = NUL => k = N) /\ N \in Nat
  BY FormatIs
<1>2. Follows(d)
  BY <1>1, FollowsIs
<1>3. LongsEnd(d) \in Nat /\ Stars(d) \in Nat
  BY <1>1, EndsAre, StarsAre
<1>4. CASE d.conv # NUL
  <2>1. Len(Written(d)) = LongsEnd(d) + 1 /\ Written(d)[LongsEnd(d) + 1] = d.conv
    BY <1>2, <1>4 DEF Follows
  <2>2. LongsEnd(d) < Len(Written(d))
    BY <1>3, <2>1
  <2>3. ch = Written(items[k])[LongsEnd(d) + 1]
    BY <1>3, <2>2, Reads
  <2> QED BY <2>1, <2>3
<1>5. CASE d.conv = NUL
  <2>1. Len(Written(d)) = LongsEnd(d) + 0
    BY <1>2, <1>5 DEF Follows
  <2>2. Len(Arguments(d)) = Stars(d) + 0
    <3>1. d.conv \notin Taking
      BY <1>5 DEF Taking, NUL
    <3> QED BY <1>1, <3>1, StarsAre
  <2>3. At(k, Len(Written(items[k])), Len(Arguments(items[k])))
    BY <1>3, <2>1, <2>2
  <2>4. At(N + 1, 0, 0)
    BY <1>1, <1>5, <2>3, Passes
  <2> QED BY <1>5, <2>4, EndsThere
<1> QED BY <1>4, <1>5

\* Behind the width, if no precision comes, and behind the precision.
LEMMA ReadsTail ==
  ASSUME items \in Formats, NEW k \in 1 .. N, NEW d, d = items[k], At(k, PrecisionEnd(d), Stars(d))
  PROVE  ch = d.conv \/ ch = "l"
<1>1. WellFormed(d) /\ N \in Nat
  BY FormatIs
<1>2. Follows(d)
  BY <1>1, FollowsIs
<1> DEFINE x == PrecisionEnd(d)
           y == LongsEnd(d)
<1>3. x \in Nat /\ y \in Nat /\ x <= y /\ y <= Len(Written(d)) /\ Len(Written(d)) \in Nat
      /\ Stars(d) \in Nat
  BY <1>1, EndsAre, StarsAre
<1>4. \A j \in x .. y - 1 : Written(d)[j + 1] = "l"
  BY <1>2 DEF Follows
<1>5. CASE x = y
  BY <1>5, ReadsConv
<1>6. CASE x < y
  <2>1. x < Len(Written(d)) /\ x \in x .. y - 1
    <3> HIDE DEF x, y
    <3> QED BY <1>3, <1>6
  <2>2. ch = Written(items[k])[x + 1]
    BY <1>3, <2>1, Reads
  <2> QED BY <1>4, <2>1, <2>2
<1>7. x = y \/ x < y
  <2> HIDE DEF x, y
  <2> QED BY <1>3
<1> QED BY <1>5, <1>6, <1>7

\* Behind the digits of a number comes no digit.
LEMMA ReadsEnd ==
  ASSUME items \in Formats, NEW k \in 1 .. N, NEW d, d = items[k]
  PROVE  /\ d.width \in Nat /\ At(k, WidthEnd(d), 0) => ch \notin Digits
         /\ d.precision \in Nat /\ At(k, PrecisionEnd(d), WidthStar(d)) => ch \notin Digits
<1>1. WellFormed(d) /\ N \in Nat
  BY FormatIs
<1>2. Follows(d)
  BY <1>1, FollowsIs
<1>3. d.conv \notin Digits /\ "l" \notin Digits /\ "." \notin Digits
  BY <1>1, ConvIs, DigitsAre
<1>4. ASSUME d.width \in Nat, At(k, WidthEnd(d), 0)
      PROVE  ch \notin Digits
  <2>1. WidthStar(d) = 0
    BY <1>4 DEF WidthStar, Star
  <2>2. CASE d.precision = None
    <3>1. PrecisionEnd(d) = WidthEnd(d)
      <4>1. WidthEnd(d) \in Nat
        BY <1>1, EndsAre
      <4> QED BY <2>2, <4>1 DEF PrecisionEnd, PointEnd
    <3>2. d.precision # Star
      BY <2>2 DEF None, Star
    <3>3. Stars(d) = 0
      BY <1>1, <2>1, <3>2, StarsAre
    <3>4. At(k, PrecisionEnd(d), Stars(d))
      BY <1>4, <3>1, <3>3
    <3>5. ch = d.conv \/ ch = "l"
      BY <3>4, ReadsTail
    <3> QED BY <1>3, <3>5
  <2>3. CASE d.precision # None
    <3>1. WidthEnd(d) \in Nat /\ PointEnd(d) \in Nat /\ Len(Written(d)) \in Nat
          /\ PointEnd(d) = WidthEnd(d) + 1
          /\ PointEnd(d) <= PrecisionEnd(d) /\ PrecisionEnd(d) <= LongsEnd(d)
          /\ LongsEnd(d) <= Len(Written(d)) /\ PrecisionEnd(d) \in Nat /\ LongsEnd(d) \in Nat
      BY <1>1, <1>2, <2>3, EndsAre DEF Follows
    <3>2. WidthEnd(d) < Len(Written(d))
      BY <3>1
    <3>3. 0 \in Nat
      OBVIOUS
    <3>4. ch = Written(items[k])[WidthEnd(d) + 1]
      BY <1>4, <3>1, <3>2, <3>3, Reads
    <3>5. Written(d)[WidthEnd(d) + 1] = "."
      BY <1>2, <2>3 DEF Follows
    <3> QED BY <1>3, <3>4, <3>5
  <2> QED BY <2>2, <2>3
<1>5. ASSUME d.precision \in Nat, At(k, PrecisionEnd(d), WidthStar(d))
      PROVE  ch \notin Digits
  <2>1. d.precision # Star
    BY <1>5 DEF Star
  <2>2. Stars(d) = WidthStar(d)
    BY <1>1, <2>1, StarsAre
  <2>3. ch = d.conv \/ ch = "l"
    BY <1>5, <2>2, ReadsTail
  <2> QED BY <1>3, <2>3
<1> QED BY <1>4, <1>5

\* What comes next in a directive: a flag, the width, its star, the point, the
\* precision, its star, an l or the conversion.
FlagNext(k, d, j) ==
  /\ ReadingFlags(k, d, j) /\ j < FlagsEnd(d)
  /\ ch = d.flags[j - Len(d.before)] /\ ch \in {"-", "0", "#"}
WidthNext(k, d, j) ==
  /\ ReadingFlags(k, d, j) /\ j = FlagsEnd(d)
  /\ d.width \in Nat \ {0} /\ ch = Number(d.width)[1]
WidthStarNext(k, d, j) ==
  /\ ReadingFlags(k, d, j) /\ j = FlagsEnd(d)
  /\ d.width = Star /\ ch = "*"
PointNext(k, d, j) ==
  /\ pc = "switch" /\ At(k, j, WidthStar(d)) /\ j = WidthEnd(d)
  /\ FlagsRead(d, Len(d.flags))
  /\ width = Width(d) /\ precision = -1 /\ lflag = 0
  /\ d.precision # None /\ ch = "."
PrecisionNext(k, d, j) ==
  /\ AfterPoint(k, d, j)
  /\ d.precision \in Nat \ {0} /\ ch = Number(d.precision)[1]
PrecisionStarNext(k, d, j) ==
  /\ AfterPoint(k, d, j)
  /\ d.precision = Star /\ ch = "*"
LongNext(k, d, j) ==
  ReadingLongs(k, d, j) /\ j < LongsEnd(d) /\ ch = "l"
ConversionNext(k, d, j) ==
  ReadingLongs(k, d, j) /\ j = LongsEnd(d) /\ ch = d.conv

SwitchNext(k, d, j) ==
  \/ FlagNext(k, d, j) \/ WidthNext(k, d, j) \/ WidthStarNext(k, d, j)
  \/ PointNext(k, d, j) \/ PrecisionNext(k, d, j) \/ PrecisionStarNext(k, d, j)
  \/ LongNext(k, d, j) \/ ConversionNext(k, d, j)

\* A number that is written has a first character.
LEMMA NumberStarts ==
  ASSUME NEW v \in (Nat \ {0}) \cup {Star}
  PROVE  Number(v) \in Seq(Char) /\ Len(Number(v)) >= 1
<1>1. v \in (Nat \ {0}) \cup {None, Star}
  OBVIOUS
<1>2. CASE v = Star
  <2>1. Number(v) \in Seq(Char) /\ Len(Number(v)) = 1
    BY <1>1, <1>2, NumbersAre
  <2> QED BY <2>1
<1>3. CASE v \in Nat \ {0}
  BY <1>3, NumberIs
<1> QED BY <1>2, <1>3

\* An l or the conversion.
LEMMA LongsNext ==
  ASSUME items \in Formats, NEW k \in 1 .. N, NEW d, d = items[k], NEW j,
         ReadingLongs(k, d, j)
  PROVE  SwitchNext(k, d, j)
<1>1. WellFormed(d) /\ N \in Nat
  BY FormatIs
<1>2. Follows(d)
  BY <1>1, FollowsIs
<1> DEFINE x == PrecisionEnd(d)
           y == LongsEnd(d)
<1>3. /\ x \in Nat /\ y \in Nat /\ y <= Len(Written(d)) /\ Len(Written(d)) \in Nat
      /\ Stars(d) \in Nat
  BY <1>1, EndsAre, StarsAre
<1>4. At(k, j, Stars(d)) /\ j \in x .. y
  BY DEF ReadingLongs
<1>5. \A i \in x .. y - 1 : Written(d)[i + 1] = "l"
  BY <1>2 DEF Follows
<1>6. CASE j = y
  <2>1. ch = d.conv
    BY <1>4, <1>6, ReadsConv
  <2> QED BY <1>6, <2>1 DEF SwitchNext, ConversionNext
<1>7. CASE j # y
  <2>1. j < y /\ j < Len(Written(d)) /\ j \in x .. y - 1 /\ j \in Nat
    <3> HIDE DEF x, y
    <3> QED BY <1>3, <1>4, <1>7
  <2>2. ch = Written(items[k])[j + 1]
    BY <1>3, <1>4, <2>1, Reads
  <2>3. ch = "l"
    BY <1>5, <2>1, <2>2
  <2> QED BY <2>1, <2>3 DEF SwitchNext, LongNext
<1> QED BY <1>6, <1>7

\* The point, an l or the conversion.
LEMMA WidthPassed ==
  ASSUME items \in Formats, NEW k \in 1 .. N, NEW d, d = items[k], NEW j,
         pc = "switch", At(k, j, WidthStar(d)), j = WidthEnd(d),
         FlagsRead(d, Len(d.flags)),
         width = Width(d), precision = -1, lflag = 0
  PROVE  SwitchNext(k, d, j)
<1>1. WellFormed(d) /\ N \in Nat
  BY FormatIs
<1>2. Follows(d)
  BY <1>1, FollowsIs
<1>3. /\ WidthEnd(d) \in Nat /\ PointEnd(d) \in Nat /\ PrecisionEnd(d) \in Nat
      /\ LongsEnd(d) \in Nat /\ Len(Written(d)) \in Nat
      /\ PointEnd(d) <= PrecisionEnd(d) /\ PrecisionEnd(d) <= LongsEnd(d)
      /\ LongsEnd(d) <= Len(Written(d))
      /\ WidthStar(d) \in Nat
  BY <1>1, EndsAre, StarsAre
<1>4. CASE d.precision = None
  <2>1. PrecisionEnd(d) = WidthEnd(d)
    BY <1>3, <1>4 DEF PrecisionEnd, PointEnd
  <2>2. d.precision # Star /\ d.precision = -1
    BY <1>4 DEF None, Star
  <2>3. Stars(d) = WidthStar(d) /\ precision = Precision(d)
    BY <1>1, <2>2, StarsAre DEF Precision
  <2>4. j \in PrecisionEnd(d) .. LongsEnd(d) /\ lflag = j - PrecisionEnd(d)
    BY <1>3, <2>1
  <2>5. ReadingLongs(k, d, j)
    BY <2>3, <2>4 DEF ReadingLongs, WidthRead
  <2> QED BY <2>5, LongsNext
<1>5. CASE d.precision # None
  <2>1. PointEnd(d) = WidthEnd(d) + 1 /\ Written(d)[WidthEnd(d) + 1] = "."
    BY <1>2, <1>5 DEF Follows
  <2>2. WidthEnd(d) < Len(Written(d))
    BY <1>3, <2>1
  <2>3. ch = Written(items[k])[WidthEnd(d) + 1]
    BY <1>3, <2>2, Reads
  <2> QED BY <1>5, <2>1, <2>3 DEF SwitchNext, PointNext
<1> QED BY <1>4, <1>5

\* Every phase of the switch is at one of them.
LEMMA NextIs ==
  ASSUME items \in Formats, NEW k \in 1 .. N, NEW d, d = items[k], NEW j,
         Phase(k, d, j), pc = "switch"
  PROVE  SwitchNext(k, d, j)
<1>1. WellFormed(d) /\ N \in Nat
  BY FormatIs
<1>2. Follows(d)
  BY <1>1, FollowsIs
<1>3. /\ Len(d.before) \in Nat /\ FlagsEnd(d) \in Nat /\ WidthEnd(d) \in Nat
      /\ PointEnd(d) \in Nat /\ PrecisionEnd(d) \in Nat
      /\ LongsEnd(d) \in Nat /\ Len(Written(d)) \in Nat
      /\ FlagsEnd(d) <= WidthEnd(d) /\ WidthEnd(d) <= PointEnd(d)
      /\ PointEnd(d) <= PrecisionEnd(d) /\ PrecisionEnd(d) <= LongsEnd(d)
      /\ LongsEnd(d) <= Len(Written(d))
      /\ WidthStar(d) \in Nat
  BY <1>1, EndsAre, StarsAre
<1>4. /\ d.width \in (Nat \ {0}) \cup {None, Star}
      /\ d.precision \in (Nat \ {0}) \cup {None, Star}
  BY <1>1 DEF WellFormed
<1>5. ReadingFlags(k, d, j) \/ AfterWidth(k, d, j) \/ AfterPoint(k, d, j) \/ ReadingLongs(k, d, j)
  BY DEF Phase, ReadingWidth, ReadingPrecision
<1>6. CASE ReadingFlags(k, d, j) /\ j # FlagsEnd(d)
  <2>1. j \in Len(d.before) + 1 .. FlagsEnd(d) /\ At(k, j, 0) /\ 0 \in Nat
    BY <1>6 DEF ReadingFlags
  <2>2. j \in Nat /\ j < FlagsEnd(d) /\ j \in Len(d.before) + 1 .. FlagsEnd(d) - 1
        /\ j < Len(Written(d))
    BY <1>3, <1>6, <2>1
  <2>3. ch = Written(items[k])[j + 1]
    BY <2>1, <2>2, Reads
  <2>4. ch = d.flags[j - Len(d.before)] /\ ch \in {"-", "0", "#"}
    BY <1>2, <2>2, <2>3 DEF Follows
  <2> QED BY <1>6, <2>2, <2>4 DEF SwitchNext, FlagNext
<1>7. CASE ReadingFlags(k, d, j) /\ j = FlagsEnd(d)
  <2>1. /\ At(k, j, 0) /\ 0 \in Nat /\ FlagsRead(d, j - Len(d.before) - 1)
        /\ width = -1 /\ precision = -1 /\ lflag = 0
    BY <1>7 DEF ReadingFlags
  <2>2. FlagsRead(d, Len(d.flags))
    <3>1. Len(d.flags) = j - Len(d.before) - 1
      <4>1. d.flags \in Seq({"-", "0", "#"})
        BY <1>1 DEF WellFormed
      <4> DEFINE x == Len(d.before)
                 y == Len(d.flags)
      <4>2. x \in Nat /\ y \in Nat /\ j = x + 1 + y
        BY <1>3, <1>7, <4>1 DEF FlagsEnd
      <4> HIDE DEF x, y
      <4>3. y = j - x - 1
        BY <4>2
      <4> QED BY <4>3 DEF x, y
    <3> QED BY <2>1, <3>1
  <2>3. ASSUME d.width # None PROVE ch = Number(d.width)[1]
    <3>1. Number(d.width) \in Seq(Char) /\ Len(Number(d.width)) >= 1
      <4>1. d.width \in (Nat \ {0}) \cup {Star}
        BY <1>4, <2>3
      <4> QED BY <4>1, NumberStarts
    <3>2. Len(Number(d.width)) \in Nat /\ WidthEnd(d) = FlagsEnd(d) + Len(Number(d.width))
      BY <3>1 DEF WidthEnd
    <3> DEFINE x == FlagsEnd(d)
               y == WidthEnd(d)
               z == Len(Number(d.width))
    <3>3. x \in x .. y - 1 /\ x - x + 1 = 1 /\ x < Len(Written(d))
      <4>1. x \in Nat /\ y \in Nat /\ z \in Nat /\ z >= 1 /\ y = x + z /\ y <= Len(Written(d))
        BY <1>3, <3>1, <3>2
      <4> HIDE DEF x, y, z
      <4>2. Len(Written(d)) \in Nat
        BY <1>3
      <4> QED BY <4>1, <4>2
    <3>4. ch = Written(items[k])[x + 1]
      BY <1>3, <1>7, <2>1, <3>3, Reads
    <3>5. Written(d)[x + 1] = Number(d.width)[x - x + 1]
      BY <1>2, <3>3 DEF Follows
    <3> QED BY <3>3, <3>4, <3>5
  <2>4. CASE d.width = None
    <3>1. d.width = -1 /\ d.width # Star /\ Number(d.width) = <<>>
      BY <1>4, <2>4, NumbersAre DEF None, Star
    <3>2. WidthStar(d) = 0 /\ width = Width(d)
      BY <2>1, <3>1 DEF WidthStar, Width
    <3>3. WidthEnd(d) = FlagsEnd(d)
      BY <1>3, <3>1 DEF WidthEnd
    <3>4. pc = "switch" /\ At(k, j, WidthStar(d)) /\ j = WidthEnd(d)
      BY <1>7, <2>1, <3>2, <3>3
    <3> QED BY <2>1, <2>2, <3>2, <3>4, WidthPassed
  <2>5. CASE d.width = Star
    <3>1. Number(d.width)[1] = "*" /\ d.width # None
      BY <1>4, <2>5, NumbersAre DEF None, Star
    <3> QED BY <1>7, <2>3, <2>5, <3>1 DEF SwitchNext, WidthStarNext
  <2>6. CASE d.width \in Nat \ {0}
    <3>1. d.width # None
      BY <2>6 DEF None
    <3> QED BY <1>7, <2>3, <2>6, <3>1 DEF SwitchNext, WidthNext
  <2> QED BY <1>4, <2>4, <2>5, <2>6
<1>8. CASE AfterWidth(k, d, j)
  BY <1>8, WidthPassed DEF AfterWidth
<1>9. CASE AfterPoint(k, d, j)
  <2>1. d.precision # None /\ j = PointEnd(d) /\ At(k, j, WidthStar(d))
    BY <1>9 DEF AfterPoint
  <2>2. ch = Number(d.precision)[1]
    <3>1. Number(d.precision) \in Seq(Char) /\ Len(Number(d.precision)) >= 1
      <4>1. d.precision \in (Nat \ {0}) \cup {Star}
        BY <1>4, <2>1
      <4> QED BY <4>1, NumberStarts
    <3>2. /\ Len(Number(d.precision)) \in Nat
          /\ PrecisionEnd(d) = PointEnd(d) + Len(Number(d.precision))
      BY <2>1, <3>1 DEF PrecisionEnd
    <3> DEFINE x == PointEnd(d)
               y == PrecisionEnd(d)
               z == Len(Number(d.precision))
    <3>3. x \in x .. y - 1 /\ x - x + 1 = 1 /\ x < Len(Written(d))
      <4>1. /\ x \in Nat /\ y \in Nat /\ z \in Nat /\ z >= 1 /\ y = x + z
            /\ y <= LongsEnd(d) /\ LongsEnd(d) <= Len(Written(d))
        BY <1>3, <3>1, <3>2
      <4> HIDE DEF x, y, z
      <4>2. LongsEnd(d) \in Nat /\ Len(Written(d)) \in Nat
        BY <1>3
      <4> QED BY <4>1, <4>2
    <3>4. ch = Written(items[k])[x + 1]
      BY <1>3, <2>1, <3>3, Reads
    <3>5. Written(d)[x + 1] = Number(d.precision)[x - x + 1]
      BY <1>2, <2>1, <3>3 DEF Follows
    <3> QED BY <3>3, <3>4, <3>5
  <2>3. CASE d.precision = Star
    <3>1. Number(d.precision)[1] = "*"
      BY <1>4, <2>3, NumbersAre
    <3> QED BY <1>9, <2>2, <2>3, <3>1 DEF SwitchNext, PrecisionStarNext
  <2>4. CASE d.precision \in Nat \ {0}
    BY <1>9, <2>2, <2>4 DEF SwitchNext, PrecisionNext
  <2> QED BY <1>4, <2>1, <2>3, <2>4
<1>10. CASE ReadingLongs(k, d, j)
  BY <1>10, LongsNext
<1> QED BY <1>5, <1>6, <1>7, <1>8, <1>9, <1>10

\* The next character tells what comes next.
LEMMA NextBy ==
  ASSUME NEW k, NEW d, NEW j, WellFormed(d), SwitchNext(k, d, j)
  PROVE  /\ ch \in {"-", "0", "#"} => FlagNext(k, d, j)
         /\ ch = "." => PointNext(k, d, j)
         /\ ch = "l" => LongNext(k, d, j)
         /\ ch \in Digits \ {"0"} => WidthNext(k, d, j) \/ PrecisionNext(k, d, j)
         /\ ch = "*" => WidthStarNext(k, d, j) \/ PrecisionStarNext(k, d, j)
         /\ ch \in Conversions \/ ch \notin Known => ConversionNext(k, d, j)
<1>1. FlagNext(k, d, j) => ch \in {"-", "0", "#"}
  BY DEF FlagNext
<1>2. PointNext(k, d, j) => ch = "."
  BY DEF PointNext
<1>3. LongNext(k, d, j) => ch = "l"
  BY DEF LongNext
<1>4. WidthNext(k, d, j) \/ PrecisionNext(k, d, j) => ch \in Digits \ {"0"}
  <2>1. ASSUME NEW v \in Nat \ {0} PROVE Number(v)[1] \in Digits \ {"0"}
    <3>1. Number(v) \in Seq(Digits) /\ Len(Number(v)) >= 1 /\ Number(v)[1] # "0"
      BY NumberIs
    <3>2. Number(v)[1] \in Digits
      BY <3>1
    <3> QED BY <3>1, <3>2
  <2>2. WidthNext(k, d, j) => d.width \in Nat \ {0} /\ ch = Number(d.width)[1]
    BY DEF WidthNext
  <2>3. PrecisionNext(k, d, j) => d.precision \in Nat \ {0} /\ ch = Number(d.precision)[1]
    BY DEF PrecisionNext
  <2> QED BY <2>1, <2>2, <2>3
<1>5. WidthStarNext(k, d, j) \/ PrecisionStarNext(k, d, j) => ch = "*"
  BY DEF WidthStarNext, PrecisionStarNext
<1>6. ConversionNext(k, d, j) =>
        /\ ch \notin Digits \cup {"-", ".", "#", "l", "*"}
        /\ ch \in Conversions \/ ch \notin Known
  BY ConvIs DEF ConversionNext
<1>7. /\ {"-", ".", "#", "l", "*"} \cap Digits = {} /\ "0" \in Digits
      /\ Conversions \cap (Digits \cup {"-", ".", "#", "l", "*"}) = {}
      /\ Digits \cup {"-", ".", "#", "l", "*"} \subseteq Known
  BY DigitsAre DEF Conversions, Known
<1>8. \/ FlagNext(k, d, j) \/ PointNext(k, d, j) \/ LongNext(k, d, j)
      \/ WidthNext(k, d, j) \/ PrecisionNext(k, d, j)
      \/ WidthStarNext(k, d, j) \/ PrecisionStarNext(k, d, j)
      \/ ConversionNext(k, d, j)
  BY DEF SwitchNext
<1> QED BY <1>1, <1>2, <1>3, <1>4, <1>5, <1>6, <1>7, <1>8

-----------------------------------------------------------------------------
(* The steps of vprintfmt                                                  *)

\* The number of the flags.
LEMMA FlagsAre ==
  ASSUME NEW d, WellFormed(d)
  PROVE  /\ Len(d.flags) \in Nat /\ FlagsEnd(d) - Len(d.before) - 1 = Len(d.flags)
         /\ d.flags \in Seq({"-", "0", "#"})
<1> DEFINE x == Len(d.before)
           y == Len(d.flags)
<1>1. d.flags \in Seq({"-", "0", "#"})
  BY DEF WellFormed
<1>2. x \in Nat /\ y \in Nat /\ FlagsEnd(d) = x + 1 + y
  BY <1>1, EndsAre DEF FlagsEnd
<1> HIDE DEF x, y
<1>3. FlagsEnd(d) - x - 1 = y
  BY <1>2
<1> QED BY <1>1, <1>2, <1>3 DEF x, y

\* The directive goes on.
LEMMA StaysIn ==
  ASSUME items \in Formats, UNCHANGED items, NEW k \in 1 .. N, NEW d, d = items[k],
         NEW j \in 0 .. Len(Written(d)), Phase(k, d, j)', Promised(k, d.before)', out' = <<>>
  PROVE  InDirective'
<1>1. N' = N
  BY Same
<1>2. k \in 1 .. N' /\ items'[k] = d
  BY <1>1
<1> QED BY <1>2 DEF InDirective

\* The promise stays while nothing is put.
LEMMA PromiseStays ==
  ASSUME UNCHANGED <<items, put, out>>, NEW k, NEW s, Promised(k, s)
  PROVE  Promised(k, s)'
BY Same DEF Promised

\* The flags stay read.
LEMMA FlagsStay ==
  ASSUME NEW d, NEW m, FlagsRead(d, m), UNCHANGED <<padc, altflag>>
  PROVE  FlagsRead(d, m)'
BY DEF FlagsRead

\* One more flag.
LEMMA FlagStep ==
  ASSUME NEW d, WellFormed(d), NEW m \in 0 .. Len(d.flags) - 1, FlagsRead(d, m),
         d.flags[m + 1] \in {"-", "0"} => padc' = d.flags[m + 1] /\ altflag' = altflag,
         d.flags[m + 1] = "#" => altflag' = TRUE /\ padc' = padc
  PROVE  FlagsRead(d, m + 1)'
<1> DEFINE e == d.flags[m + 1]
           Seen(c, i) == \E h \in 1 .. i : d.flags[h] = c
<1>1. Len(d.flags) \in Nat /\ e \in {"-", "0", "#"}
  <2>1. d.flags \in Seq({"-", "0", "#"}) /\ Len(d.flags) \in Nat
    BY FlagsAre
  <2>2. m + 1 \in 1 .. Len(d.flags)
    BY <2>1
  <2> QED BY <2>1, <2>2
<1>2. \A c : Seen(c, m + 1) <=> Seen(c, m) \/ e = c
  <2>1. \A h : h \in 1 .. m + 1 <=> h \in 1 .. m \/ h = m + 1
    OBVIOUS
  <2> QED BY <2>1
<1>3. \A c : Seen(c, m + 1) => HasFlag(d, c)
  <2>1. \A h : h \in 1 .. m + 1 => h \in 1 .. Len(d.flags)
    BY <1>1
  <2> QED BY <2>1 DEF HasFlag
<1>4. Supported(d) => ~(HasFlag(d, "-") /\ HasFlag(d, "0"))
  BY DEF Supported
<1>5. /\ Supported(d) =>
           padc = IF Seen("-", m) THEN "-" ELSE IF Seen("0", m) THEN "0" ELSE " "
      /\ altflag = Seen("#", m)
  BY DEF FlagsRead
<1>6. /\ e \in {"-", "0"} => padc' = e /\ altflag' = altflag
      /\ e = "#" => altflag' = TRUE /\ padc' = padc
  OBVIOUS
<1>7. /\ (Supported(d) =>
            padc' = IF Seen("-", m + 1) THEN "-" ELSE IF Seen("0", m + 1) THEN "0" ELSE " ")
      /\ altflag' = Seen("#", m + 1)
      => FlagsRead(d, m + 1)'
  BY DEF FlagsRead
<1> HIDE DEF e, Seen
<1>8. altflag' = Seen("#", m + 1)
  <2>1. CASE e = "#"
    <3>1. Seen("#", m + 1) = TRUE
      <4>1. Seen("#", m + 1) <=> Seen("#", m) \/ e = "#"
        BY <1>2
      <4> QED BY <2>1, <4>1 DEF Seen
    <3> QED BY <1>6, <2>1, <3>1
  <2>2. CASE e \in {"-", "0"}
    <3>1. Seen("#", m + 1) <=> Seen("#", m)
      BY <1>2, <2>2
    <3>2. Seen("#", m + 1) = Seen("#", m)
      BY <3>1 DEF Seen
    <3> QED BY <1>5, <1>6, <2>2, <3>2
  <2> QED BY <1>1, <2>1, <2>2
<1>9. ASSUME Supported(d)
      PROVE  padc' = IF Seen("-", m + 1) THEN "-" ELSE IF Seen("0", m + 1) THEN "0" ELSE " "
  <2>1. ~(Seen("-", m + 1) /\ Seen("0", m + 1))
    BY <1>3, <1>4, <1>9
  <2>2. padc = IF Seen("-", m) THEN "-" ELSE IF Seen("0", m) THEN "0" ELSE " "
    BY <1>5, <1>9
  <2>3. CASE e = "-"
    BY <1>2, <1>6, <2>3
  <2>4. CASE e = "0"
    BY <1>2, <1>6, <2>1, <2>4
  <2>5. CASE e = "#"
    <3>1. (Seen("-", m + 1) <=> Seen("-", m)) /\ (Seen("0", m + 1) <=> Seen("0", m))
      BY <1>2, <2>5
    <3> QED BY <1>6, <2>2, <2>5, <3>1
  <2> QED BY <1>1, <2>3, <2>4, <2>5
<1> QED BY <1>7, <1>8, <1>9

\* vprintfmt is in the directive d, which is the k-th, behind its j-th character.
In(k, d, j) ==
  /\ items \in Formats /\ k \in 1 .. N /\ d = items[k] /\ j \in 0 .. Len(Written(d))
  /\ Phase(k, d, j) /\ Promised(k, d.before) /\ out = <<>>

\* A flag, the point or an l.
LEMMA FlagKeeps ==
  ASSUME NEW k, NEW d, NEW j, In(k, d, j), Flag
  PROVE  InDirective'
<1>1. /\ items \in Formats /\ k \in 1 .. N /\ d = items[k] /\ j \in 0 .. Len(Written(d))
      /\ Phase(k, d, j) /\ Promised(k, d.before) /\ out = <<>> /\ pc = "switch"
  BY DEF In, Flag, Ready
<1>2. /\ UNCHANGED <<items, ap, pc, precision, put, out>> /\ fmt' = fmt + 1
      /\ ch \in {"-", "0", ".", "#", "l"}
      /\ ch \in {"-", "0"} => padc' = ch /\ UNCHANGED <<width, altflag, lflag>>
      /\ ch = "." => width' = (IF width < 0 THEN 0 ELSE width) /\ UNCHANGED <<padc, altflag, lflag>>
      /\ ch = "#" => altflag' = TRUE /\ UNCHANGED <<padc, width, lflag>>
      /\ ch = "l" => lflag' = lflag + 1 /\ UNCHANGED <<padc, width, altflag>>
  BY DEF Flag
<1>3. WellFormed(d) /\ N \in Nat
  BY <1>1, FormatIs
<1>4. SwitchNext(k, d, j)
  BY <1>1, NextIs
<1>5. Promised(k, d.before)' /\ out' = <<>>
  BY <1>1, <1>2, PromiseStays
<1>6. /\ Len(d.before) \in Nat /\ FlagsEnd(d) \in Nat /\ WidthEnd(d) \in Nat
      /\ PointEnd(d) \in Nat /\ PrecisionEnd(d) \in Nat
      /\ LongsEnd(d) \in Nat /\ Len(Written(d)) \in Nat
      /\ FlagsEnd(d) <= WidthEnd(d) /\ WidthEnd(d) <= PointEnd(d)
      /\ PointEnd(d) <= PrecisionEnd(d) /\ PrecisionEnd(d) <= LongsEnd(d)
      /\ LongsEnd(d) <= Len(Written(d))
      /\ WidthStar(d) \in Nat /\ Stars(d) \in Nat
  BY <1>3, EndsAre, StarsAre
<1>7. j \in Int
  BY <1>1, <1>6
<1>8. CASE ch \in {"-", "0", "#"}
  <2>1. FlagNext(k, d, j)
    BY <1>3, <1>4, <1>8, NextBy
  <2> DEFINE m == j - Len(d.before) - 1
  <2>2. /\ j \in Len(d.before) + 1 .. FlagsEnd(d) /\ j < FlagsEnd(d)
        /\ ch = d.flags[j - Len(d.before)]
        /\ At(k, j, 0) /\ FlagsRead(d, m) /\ width = -1 /\ precision = -1 /\ lflag = 0
    BY <2>1 DEF FlagNext, ReadingFlags
  <2>3. Len(d.flags) \in Nat /\ FlagsEnd(d) - Len(d.before) - 1 = Len(d.flags)
    BY <1>3, FlagsAre
  <2>4. /\ m \in 0 .. Len(d.flags) - 1 /\ m + 1 = j - Len(d.before)
        /\ m + 1 = (j + 1) - Len(d.before) - 1
    <3> DEFINE x == Len(d.before)
               y == Len(d.flags)
               z == FlagsEnd(d)
    <3>1. x \in Nat /\ y \in Nat /\ z \in Nat /\ z - x - 1 = y /\ j \in x + 1 .. z /\ j < z
      BY <1>6, <2>2, <2>3
    <3> HIDE DEF x, y, z
    <3>2. j - x - 1 \in 0 .. y - 1 /\ (j - x - 1) + 1 = j - x /\ (j - x - 1) + 1 = (j + 1) - x - 1
      BY <3>1
    <3> QED BY <3>2 DEF x, y
  <2>5. At(k, j + 1, 0)'
    <3>1. 0 \in Int
      OBVIOUS
    <3> QED BY <1>1, <1>2, <1>7, <2>2, <3>1, AtNext
  <2>6. FlagsRead(d, m + 1)'
    <3>1. d.flags[m + 1] = ch
      BY <2>2, <2>4
    <3> HIDE DEF m
    <3>2. /\ d.flags[m + 1] \in {"-", "0"} => padc' = d.flags[m + 1] /\ altflag' = altflag
          /\ d.flags[m + 1] = "#" => altflag' = TRUE /\ padc' = padc
      BY <1>2, <3>1
    <3> QED BY <1>3, <2>2, <2>4, <3>2, FlagStep
  <2>7. FlagsRead(d, (j + 1) - Len(d.before) - 1)'
    BY <2>4, <2>6
  <2>8. j + 1 \in Len(d.before) + 1 .. FlagsEnd(d) /\ j + 1 \in 0 .. Len(Written(d))
    BY <1>6, <2>2
  <2>9. pc' = "switch" /\ width' = -1 /\ precision' = -1 /\ lflag' = 0
    BY <1>1, <1>2, <1>8, <2>2
  <2>10. ReadingFlags(k, d, j + 1)'
    BY <2>5, <2>7, <2>8, <2>9 DEF ReadingFlags
  <2>11. Phase(k, d, j + 1)'
    BY <2>10 DEF Phase
  <2> QED BY <1>1, <1>2, <1>5, <2>8, <2>11, StaysIn
<1>9. CASE ch = "."
  <2>1. PointNext(k, d, j)
    BY <1>3, <1>4, <1>9, NextBy
  <2>2. /\ At(k, j, WidthStar(d)) /\ j = WidthEnd(d)
        /\ FlagsRead(d, Len(d.flags))
        /\ width = Width(d) /\ precision = -1 /\ lflag = 0 /\ d.precision # None
    BY <2>1 DEF PointNext
  <2>3. At(k, j + 1, WidthStar(d))'
    <3>1. WidthStar(d) \in Int
      BY <1>6
    <3> QED BY <1>1, <1>2, <1>7, <2>2, <3>1, AtNext
  <2>4. j + 1 = PointEnd(d) /\ j + 1 \in 0 .. Len(Written(d))
    <3>1. j + 1 = PointEnd(d)
      BY <2>2 DEF PointEnd
    <3> QED BY <1>6, <3>1
  <2>5. FlagsRead(d, Len(d.flags))'
    BY <1>2, <1>9, <2>2, FlagsStay
  <2>6. Width(d) \in Int
    BY <1>3, WidthIs
  <2>7. WidthRead(d)' /\ width' >= 0
    BY <1>2, <1>9, <2>2, <2>6 DEF WidthRead
  <2>8. pc' = "switch" /\ precision' = -1 /\ lflag' = 0
    BY <1>1, <1>2, <1>9, <2>2
  <2>9. AfterPoint(k, d, j + 1)'
    BY <2>2, <2>3, <2>4, <2>5, <2>7, <2>8 DEF AfterPoint
  <2>10. Phase(k, d, j + 1)'
    BY <2>9 DEF Phase
  <2> QED BY <1>1, <1>2, <1>5, <2>4, <2>10, StaysIn
<1>10. CASE ch = "l"
  <2>1. LongNext(k, d, j)
    BY <1>3, <1>4, <1>10, NextBy
  <2>2. /\ j \in PrecisionEnd(d) .. LongsEnd(d) /\ j < LongsEnd(d)
        /\ At(k, j, Stars(d)) /\ FlagsRead(d, Len(d.flags))
        /\ WidthRead(d) /\ precision = Precision(d) /\ lflag = j - PrecisionEnd(d)
    BY <2>1 DEF LongNext, ReadingLongs
  <2>3. At(k, j + 1, Stars(d))'
    <3>1. Stars(d) \in Int
      BY <1>6
    <3> QED BY <1>1, <1>2, <1>7, <2>2, <3>1, AtNext
  <2>4. /\ j + 1 \in PrecisionEnd(d) .. LongsEnd(d) /\ j + 1 \in 0 .. Len(Written(d))
        /\ lflag + 1 = (j + 1) - PrecisionEnd(d)
    BY <1>6, <2>2
  <2>5. FlagsRead(d, Len(d.flags))'
    BY <1>2, <1>10, <2>2, FlagsStay
  <2>6. WidthRead(d)' /\ precision' = Precision(d)
    BY <1>2, <1>10, <2>2 DEF WidthRead
  <2>7. pc' = "switch" /\ lflag' = (j + 1) - PrecisionEnd(d)
    BY <1>1, <1>2, <1>10, <2>4
  <2>8. ReadingLongs(k, d, j + 1)'
    BY <2>3, <2>4, <2>5, <2>6, <2>7 DEF ReadingLongs
  <2>9. Phase(k, d, j + 1)'
    BY <2>8 DEF Phase
  <2> QED BY <1>1, <1>2, <1>5, <2>4, <2>9, StaysIn
<1> QED BY <1>2, <1>8, <1>9, <1>10

\* The first digit of a width or a precision.
LEMMA FirstDigitKeeps ==
  ASSUME NEW k, NEW d, NEW j, In(k, d, j), FirstDigit
  PROVE  InDirective'
<1>1. /\ items \in Formats /\ k \in 1 .. N /\ d = items[k] /\ j \in 0 .. Len(Written(d))
      /\ Phase(k, d, j) /\ Promised(k, d.before) /\ out = <<>> /\ pc = "switch"
  BY DEF In, FirstDigit, Ready
<1>2. /\ UNCHANGED <<items, ap, padc, width, lflag, altflag, put, out>> /\ fmt' = fmt + 1
      /\ ch \in Digits \ {"0"} /\ precision' = DigitValue(ch) /\ pc' = "digits"
  BY DEF FirstDigit
<1>3. WellFormed(d) /\ N \in Nat
  BY <1>1, FormatIs
<1>4. SwitchNext(k, d, j)
  BY <1>1, NextIs
<1>5. Promised(k, d.before)' /\ out' = <<>>
  BY <1>1, <1>2, PromiseStays
<1>6. /\ FlagsEnd(d) \in Nat /\ WidthEnd(d) \in Nat
      /\ PointEnd(d) \in Nat /\ PrecisionEnd(d) \in Nat
      /\ LongsEnd(d) \in Nat /\ Len(Written(d)) \in Nat
      /\ FlagsEnd(d) <= WidthEnd(d) /\ WidthEnd(d) <= PointEnd(d)
      /\ PointEnd(d) <= PrecisionEnd(d) /\ PrecisionEnd(d) <= LongsEnd(d)
      /\ LongsEnd(d) <= Len(Written(d))
      /\ WidthStar(d) \in Nat
  BY <1>3, EndsAre, StarsAre
<1>7. j \in Int
  BY <1>1, <1>6
<1>8. WidthNext(k, d, j) \/ PrecisionNext(k, d, j)
  BY <1>2, <1>3, <1>4, NextBy
<1>9. CASE WidthNext(k, d, j)
  <2>1. /\ j = FlagsEnd(d) /\ At(k, j, 0) /\ FlagsRead(d, j - Len(d.before) - 1)
        /\ width = -1 /\ lflag = 0 /\ d.width \in Nat \ {0} /\ ch = Number(d.width)[1]
    BY <1>9 DEF WidthNext, ReadingFlags
  <2>2. At(k, j + 1, 0)'
    <3>1. 0 \in Int
      OBVIOUS
    <3> QED BY <1>1, <1>2, <1>7, <2>1, <3>1, AtNext
  <2>3. FlagsRead(d, Len(d.flags))'
    <3>1. j - Len(d.before) - 1 = Len(d.flags)
      BY <1>3, <2>1, FlagsAre
    <3>2. FlagsRead(d, Len(d.flags))
      BY <2>1, <3>1
    <3> QED BY <1>2, <3>2, FlagsStay
  <2> DEFINE v == d.width
  <2>4. /\ Number(v) \in Seq(Char) /\ Len(Number(v)) >= 1
        /\ DigitValue(Number(v)[1]) = Front(v, 1)
    <3>1. v \in Nat \ {0}
      BY <2>1
    <3> HIDE DEF v
    <3> QED BY <3>1, NumberIs
  <2>5. /\ j + 1 \in FlagsEnd(d) + 1 .. WidthEnd(d) /\ j + 1 \in 0 .. Len(Written(d))
        /\ (j + 1) - FlagsEnd(d) = 1
    <3> DEFINE x == FlagsEnd(d)
               y == WidthEnd(d)
               z == Len(Number(v))
               w == Len(Written(d))
    <3>1. z \in Nat /\ z >= 1 /\ y = x + z
      BY <2>4 DEF WidthEnd
    <3>2. x \in Nat /\ y \in Nat /\ w \in Nat /\ y <= w /\ j = x
      BY <1>6, <2>1
    <3> HIDE DEF x, y, z, w
    <3>3. j + 1 \in x + 1 .. y /\ j + 1 \in 0 .. w /\ (j + 1) - x = 1
      BY <3>1, <3>2
    <3> QED BY <3>3 DEF x, y, w
  <2>6. precision' = Front(d.width, (j + 1) - FlagsEnd(d))
    BY <1>2, <2>1, <2>4, <2>5
  <2>7. pc' = "digits" /\ width' = -1 /\ lflag' = 0 /\ d.width \in Nat
    BY <1>2, <2>1
  <2>8. ReadingWidth(k, d, j + 1)'
    BY <2>2, <2>3, <2>5, <2>6, <2>7 DEF ReadingWidth
  <2>9. Phase(k, d, j + 1)'
    BY <2>8 DEF Phase
  <2> QED BY <1>1, <1>2, <1>5, <2>5, <2>9, StaysIn
<1>10. CASE PrecisionNext(k, d, j)
  <2>1. /\ j = PointEnd(d) /\ At(k, j, WidthStar(d)) /\ FlagsRead(d, Len(d.flags))
        /\ WidthRead(d) /\ width >= 0 /\ lflag = 0
        /\ d.precision \in Nat \ {0} /\ d.precision # None /\ ch = Number(d.precision)[1]
    BY <1>10 DEF PrecisionNext, AfterPoint
  <2>2. At(k, j + 1, WidthStar(d))'
    <3>1. WidthStar(d) \in Int
      BY <1>6
    <3> QED BY <1>1, <1>2, <1>7, <2>1, <3>1, AtNext
  <2>3. FlagsRead(d, Len(d.flags))'
    BY <1>2, <2>1, FlagsStay
  <2> DEFINE v == d.precision
  <2>4. /\ Number(v) \in Seq(Char) /\ Len(Number(v)) >= 1
        /\ DigitValue(Number(v)[1]) = Front(v, 1)
    <3>1. v \in Nat \ {0}
      BY <2>1
    <3> HIDE DEF v
    <3> QED BY <3>1, NumberIs
  <2>5. /\ j + 1 \in PointEnd(d) + 1 .. PrecisionEnd(d) /\ j + 1 \in 0 .. Len(Written(d))
        /\ (j + 1) - PointEnd(d) = 1
    <3> DEFINE z == Len(Number(v))
    <3>1. z \in Nat /\ z >= 1 /\ PrecisionEnd(d) = PointEnd(d) + z
      BY <2>1, <2>4 DEF PrecisionEnd
    <3> HIDE DEF z
    <3> QED BY <1>6, <2>1, <3>1
  <2>6. precision' = Front(d.precision, (j + 1) - PointEnd(d))
    BY <1>2, <2>1, <2>4, <2>5
  <2>7. pc' = "digits" /\ width' >= 0 /\ WidthRead(d)' /\ lflag' = 0 /\ d.precision \in Nat
    BY <1>2, <2>1 DEF WidthRead
  <2>8. ReadingPrecision(k, d, j + 1)'
    BY <2>2, <2>3, <2>5, <2>6, <2>7 DEF ReadingPrecision
  <2>9. Phase(k, d, j + 1)'
    BY <2>8 DEF Phase
  <2> QED BY <1>1, <1>2, <1>5, <2>5, <2>9, StaysIn
<1> QED BY <1>8, <1>9, <1>10

\* The next digit, or the end of the number.
LEMMA NextDigitKeeps ==
  ASSUME NEW k, NEW d, NEW j, In(k, d, j), NextDigit
  PROVE  InDirective'
<1>1. /\ items \in Formats /\ k \in 1 .. N /\ d = items[k] /\ j \in 0 .. Len(Written(d))
      /\ Phase(k, d, j) /\ Promised(k, d.before) /\ out = <<>> /\ pc = "digits"
  BY DEF In, NextDigit, Ready
<1>2. /\ UNCHANGED <<items, ap, padc, lflag, altflag, put, out>>
      /\ ch \in Digits =>
           /\ precision' = precision * 10 + DigitValue(ch) /\ fmt' = fmt + 1
           /\ width' = width /\ pc' = "digits"
      /\ ch \notin Digits =>
           /\ IF width < 0 THEN width' = precision /\ precision' = -1
              ELSE precision' = precision /\ width' = width
           /\ pc' = "switch" /\ fmt' = fmt
  BY <1>1 DEF NextDigit, ProcessPrecision
<1>3. WellFormed(d) /\ N \in Nat
  BY <1>1, FormatIs
<1>4. Follows(d)
  BY <1>3, FollowsIs
<1>5. Promised(k, d.before)' /\ out' = <<>>
  BY <1>1, <1>2, PromiseStays
<1>6. /\ FlagsEnd(d) \in Nat /\ WidthEnd(d) \in Nat
      /\ PointEnd(d) \in Nat /\ PrecisionEnd(d) \in Nat
      /\ LongsEnd(d) \in Nat /\ Len(Written(d)) \in Nat
      /\ FlagsEnd(d) <= WidthEnd(d) /\ WidthEnd(d) <= PointEnd(d)
      /\ PointEnd(d) <= PrecisionEnd(d) /\ PrecisionEnd(d) <= LongsEnd(d)
      /\ LongsEnd(d) <= Len(Written(d))
      /\ WidthStar(d) \in Nat
  BY <1>3, EndsAre, StarsAre
<1>7. j \in Nat /\ j \in Int
  BY <1>1, <1>6
<1>8. /\ d.width \in (Nat \ {0}) \cup {None, Star}
      /\ d.precision \in (Nat \ {0}) \cup {None, Star}
  BY <1>3 DEF WellFormed
<1>9. ReadingWidth(k, d, j) \/ ReadingPrecision(k, d, j)
  BY <1>1 DEF Phase, ReadingFlags, AfterWidth, AfterPoint, ReadingLongs
<1>10. CASE ReadingWidth(k, d, j)
  <2>1. /\ d.width \in Nat /\ j \in FlagsEnd(d) + 1 .. WidthEnd(d) /\ At(k, j, 0)
        /\ FlagsRead(d, Len(d.flags)) /\ width = -1
        /\ precision = Front(d.width, j - FlagsEnd(d)) /\ lflag = 0
    BY <1>10 DEF ReadingWidth
  <2> DEFINE v == d.width
             x == FlagsEnd(d)
             y == WidthEnd(d)
             z == Len(Number(v))
             w == Len(Written(d))
  <2>2. v \in Nat \ {0}
    BY <1>8, <2>1 DEF None, Star
  <2>3. Number(v) \in Seq(Char) /\ Number(v) \in Seq(Digits)
    <3> HIDE DEF v
    <3> QED BY <2>2, NumberIs
  <2>4. /\ z \in Nat /\ y = x + z /\ x \in Nat /\ y \in Nat /\ w \in Nat /\ y <= w
        /\ j \in x + 1 .. y
    BY <1>6, <2>1, <2>3 DEF WidthEnd
  <2>5. FlagsRead(d, Len(d.flags))'
    BY <1>2, <2>1, FlagsStay
  <2>6. CASE j < y
    <3> DEFINE m == j - x
    <3>1. /\ j \in x .. y - 1 /\ j < w /\ m \in 1 .. z - 1 /\ m + 1 \in 1 .. z
          /\ (j + 1) - x = m + 1 /\ j + 1 \in x + 1 .. y /\ j + 1 \in 0 .. w
      <4> HIDE DEF v, x, y, z, w
      <4> QED BY <2>4, <2>6
    <3>2. ch = Written(items[k])[j + 1]
      <4>1. 0 \in Nat
        OBVIOUS
      <4> QED BY <1>1, <1>7, <2>1, <3>1, <4>1, Reads
    <3>3. ch = Number(v)[m + 1]
      BY <1>1, <1>4, <3>1, <3>2 DEF Follows
    <3>4. ch \in Digits
      <4> HIDE DEF m, v, z
      <4>1. z = Len(Number(v))
        BY DEF z
      <4> QED BY <2>3, <3>1, <3>3, <4>1
    <3>5. Front(v, m) * 10 + DigitValue(Number(v)[m + 1]) = Front(v, m + 1)
      <4> HIDE DEF v, m
      <4>1. m \in 1 .. Len(Number(v)) - 1
        BY <3>1
      <4> QED BY <2>2, <4>1, NumberIs
    <3>6. precision' = Front(d.width, (j + 1) - FlagsEnd(d))
      BY <1>2, <2>1, <3>1, <3>3, <3>4, <3>5
    <3>7. pc' = "digits" /\ width' = -1 /\ lflag' = 0
      BY <1>2, <2>1, <3>4
    <3>8. At(k, j + 1, 0)'
      <4>1. 0 \in Int
        OBVIOUS
      <4> QED BY <1>1, <1>2, <1>7, <2>1, <3>4, <4>1, AtNext
    <3>9. ReadingWidth(k, d, j + 1)'
      BY <2>1, <2>5, <3>1, <3>6, <3>7, <3>8 DEF ReadingWidth
    <3>10. Phase(k, d, j + 1)'
      BY <3>9 DEF Phase
    <3> QED BY <1>1, <1>2, <1>5, <3>1, <3>10, StaysIn
  <2>7. CASE ~(j < y)
    <3>1. j = y /\ j - x = z
      <4> HIDE DEF v, x, y, z, w
      <4> QED BY <2>4, <2>7
    <3>2. ch \notin Digits
      BY <1>1, <2>1, <3>1, ReadsEnd
    <3>3. precision = v
      <4>1. precision = Front(v, Len(Number(v)))
        BY <2>1, <3>1
      <4> HIDE DEF v
      <4> QED BY <2>2, <4>1, NumberIs
    <3>4. /\ WidthStar(d) = 0 /\ Width(d) = v /\ d.width # None
      BY <2>1 DEF WidthStar, Width, Star, None
    <3>5. width' = Width(d) /\ precision' = -1 /\ pc' = "switch" /\ lflag' = 0
      BY <1>2, <2>1, <3>2, <3>3, <3>4
    <3>6. At(k, j, WidthStar(d))'
      <4>1. 0 \in Int
        OBVIOUS
      <4>2. At(k, j, 0)'
        BY <1>1, <1>2, <1>7, <2>1, <3>2, <4>1, AtNext
      <4> QED BY <3>4, <4>2
    <3>7. AfterWidth(k, d, j)'
      BY <2>5, <3>1, <3>4, <3>5, <3>6 DEF AfterWidth
    <3>8. Phase(k, d, j)'
      BY <3>7 DEF Phase
    <3> QED BY <1>1, <1>2, <1>5, <3>8, StaysIn
  <2> QED BY <2>6, <2>7
<1>11. CASE ReadingPrecision(k, d, j)
  <2>1. /\ d.precision \in Nat /\ j \in PointEnd(d) + 1 .. PrecisionEnd(d)
        /\ At(k, j, WidthStar(d))
        /\ FlagsRead(d, Len(d.flags)) /\ WidthRead(d) /\ width >= 0
        /\ precision = Front(d.precision, j - PointEnd(d)) /\ lflag = 0
    BY <1>11 DEF ReadingPrecision
  <2> DEFINE v == d.precision
             x == PointEnd(d)
             y == PrecisionEnd(d)
             z == Len(Number(v))
             w == Len(Written(d))
             t == WidthStar(d)
  <2>2. v \in Nat \ {0} /\ v # None /\ v # Star
    BY <1>8, <2>1 DEF None, Star
  <2>3. Number(v) \in Seq(Char) /\ Number(v) \in Seq(Digits)
    <3> HIDE DEF v
    <3> QED BY <2>2, NumberIs
  <2>4. /\ z \in Nat /\ y = x + z /\ x \in Nat /\ y \in Nat /\ w \in Nat /\ y <= w
        /\ j \in x + 1 .. y
    <3>1. y = x + z
      BY <2>2 DEF PrecisionEnd
    <3>2. z \in Nat
      BY <2>3
    <3>3. y <= w
      BY <1>6
    <3> QED BY <1>6, <2>1, <3>1, <3>2, <3>3
  <2>5. FlagsRead(d, Len(d.flags))'
    BY <1>2, <2>1, FlagsStay
  <2>6. CASE j < y
    <3> DEFINE m == j - x
    <3>1. /\ j \in x .. y - 1 /\ j < w /\ m \in 1 .. z - 1 /\ m + 1 \in 1 .. z
          /\ (j + 1) - x = m + 1 /\ j + 1 \in x + 1 .. y /\ j + 1 \in 0 .. w
      <4> HIDE DEF v, x, y, z, w
      <4> QED BY <2>4, <2>6
    <3>2. ch = Written(items[k])[j + 1]
      BY <1>1, <1>6, <1>7, <2>1, <3>1, Reads
    <3>3. ch = Number(v)[m + 1]
      BY <1>1, <1>4, <2>2, <3>1, <3>2 DEF Follows
    <3>4. ch \in Digits
      <4> HIDE DEF m, v, z
      <4>1. z = Len(Number(v))
        BY DEF z
      <4> QED BY <2>3, <3>1, <3>3, <4>1
    <3>5. Front(v, m) * 10 + DigitValue(Number(v)[m + 1]) = Front(v, m + 1)
      <4> HIDE DEF v, m
      <4>1. m \in 1 .. Len(Number(v)) - 1
        BY <3>1
      <4> QED BY <2>2, <4>1, NumberIs
    <3>6. precision' = Front(d.precision, (j + 1) - PointEnd(d))
      BY <1>2, <2>1, <3>1, <3>3, <3>4, <3>5
    <3>7. pc' = "digits" /\ width' >= 0 /\ WidthRead(d)' /\ lflag' = 0
      BY <1>2, <2>1, <3>4 DEF WidthRead
    <3>8. At(k, j + 1, WidthStar(d))'
      <4>1. WidthStar(d) \in Int
        BY <1>6
      <4> QED BY <1>1, <1>2, <1>7, <2>1, <3>4, <4>1, AtNext
    <3>9. ReadingPrecision(k, d, j + 1)'
      BY <2>1, <2>5, <3>1, <3>6, <3>7, <3>8 DEF ReadingPrecision
    <3>10. Phase(k, d, j + 1)'
      BY <3>9 DEF Phase
    <3> QED BY <1>1, <1>2, <1>5, <3>1, <3>10, StaysIn
  <2>7. CASE ~(j < y)
    <3>1. j = y /\ j - x = z
      <4> HIDE DEF v, x, y, z, w
      <4> QED BY <2>4, <2>7
    <3>2. ch \notin Digits
      BY <1>1, <2>1, <3>1, ReadsEnd
    <3>3. precision = v
      <4>1. precision = Front(v, Len(Number(v)))
        BY <2>1, <3>1
      <4> HIDE DEF v
      <4> QED BY <2>2, <4>1, NumberIs
    <3>4. Stars(d) = WidthStar(d) /\ Precision(d) = v
      BY <1>3, <2>2, StarsAre DEF Precision
    <3>5. ~(width < 0)
      <4>1. Width(d) \in Int
        BY <1>3, WidthIs
      <4>2. width \in Int
        BY <2>1, <4>1 DEF WidthRead
      <4> QED BY <2>1, <4>2
    <3>6. WidthRead(d)' /\ precision' = Precision(d) /\ pc' = "switch" /\ lflag' = 0
      BY <1>2, <2>1, <3>2, <3>3, <3>4, <3>5 DEF WidthRead
    <3>7. At(k, j, Stars(d))'
      <4>1. WidthStar(d) \in Int
        BY <1>6
      <4>2. At(k, j, WidthStar(d))'
        BY <1>1, <1>2, <1>7, <2>1, <3>2, <4>1, AtNext
      <4> QED BY <3>4, <4>2
    <3>8. j \in PrecisionEnd(d) .. LongsEnd(d) /\ 0 = j - PrecisionEnd(d)
      BY <1>6, <3>1
    <3>9. ReadingLongs(k, d, j)'
      BY <2>5, <3>6, <3>7, <3>8 DEF ReadingLongs
    <3>10. Phase(k, d, j)'
      BY <3>9 DEF Phase
    <3> QED BY <1>1, <1>2, <1>5, <3>10, StaysIn
  <2> QED BY <2>6, <2>7
<1> QED BY <1>9, <1>10, <1>11

\* A width or a precision from the arguments.
LEMMA AsteriskKeeps ==
  ASSUME NEW k, NEW d, NEW j, In(k, d, j), Asterisk
  PROVE  InDirective'
<1>1. /\ items \in Formats /\ k \in 1 .. N /\ d = items[k] /\ j \in 0 .. Len(Written(d))
      /\ Phase(k, d, j) /\ Promised(k, d.before) /\ out = <<>> /\ pc = "switch"
  BY DEF In, Asterisk, Ready
<1>2. /\ UNCHANGED <<items, pc, padc, lflag, altflag, put, out>>
      /\ ch = "*" /\ ap' = ap + 1 /\ fmt' = fmt + 1
      /\ IF width < 0 THEN width' = args[ap] /\ precision' = -1
         ELSE precision' = args[ap] /\ width' = width
  BY DEF Asterisk, ProcessPrecision
<1>3. WellFormed(d) /\ N \in Nat
  BY <1>1, FormatIs
<1>4. SwitchNext(k, d, j)
  BY <1>1, NextIs
<1>5. Promised(k, d.before)' /\ out' = <<>>
  BY <1>1, <1>2, PromiseStays
<1>6. /\ FlagsEnd(d) \in Nat /\ WidthEnd(d) \in Nat
      /\ PointEnd(d) \in Nat /\ PrecisionEnd(d) \in Nat
      /\ LongsEnd(d) \in Nat /\ Len(Written(d)) \in Nat
      /\ FlagsEnd(d) <= WidthEnd(d) /\ WidthEnd(d) <= PointEnd(d)
      /\ PointEnd(d) <= PrecisionEnd(d) /\ PrecisionEnd(d) <= LongsEnd(d)
      /\ LongsEnd(d) <= Len(Written(d))
  BY <1>3, EndsAre
<1>7. /\ WidthStar(d) \in Nat /\ Stars(d) \in Nat /\ Len(Arguments(d)) \in Nat
      /\ WidthStar(d) <= Stars(d) /\ Stars(d) <= Len(Arguments(d))
      /\ d.width = Star => WidthStar(d) = 1
      /\ d.precision = Star => Stars(d) = WidthStar(d) + 1
  BY <1>3, StarsAre
<1>8. j \in Nat /\ j \in Int
  BY <1>1, <1>6
<1>9. Listed(d)
  BY <1>3, ArgumentsAre
<1>10. WidthStarNext(k, d, j) \/ PrecisionStarNext(k, d, j)
  BY <1>2, <1>3, <1>4, NextBy
<1>11. CASE WidthStarNext(k, d, j)
  <2>1. /\ j = FlagsEnd(d) /\ At(k, j, 0) /\ FlagsRead(d, j - Len(d.before) - 1)
        /\ width = -1 /\ lflag = 0 /\ d.width = Star
    BY <1>11 DEF WidthStarNext, ReadingFlags
  <2>2. 0 < Len(Arguments(d)) /\ 0 \in Nat /\ 0 \in Int
    BY <1>7, <2>1
  <2>3. args[ap] = Arguments(items[k])[0 + 1]
    BY <1>1, <1>8, <2>1, <2>2, Reads
  <2>4. args[ap] = Width(d)
    BY <1>1, <1>9, <2>1, <2>3 DEF Listed, Width
  <2>5. At(k, j + 1, WidthStar(d))'
    <3>1. At(k, j + 1, 0 + 1)'
      BY <1>1, <1>2, <1>8, <2>1, <2>2, AtNext
    <3>2. 0 + 1 = WidthStar(d)
      BY <1>7, <2>1
    <3> QED BY <3>1, <3>2
  <2>6. FlagsRead(d, Len(d.flags))'
    <3>1. j - Len(d.before) - 1 = Len(d.flags)
      BY <1>3, <2>1, FlagsAre
    <3>2. FlagsRead(d, Len(d.flags))
      BY <2>1, <3>1
    <3> QED BY <1>2, <3>2, FlagsStay
  <2>7. j + 1 = WidthEnd(d) /\ j + 1 \in 0 .. Len(Written(d)) /\ d.width # None
    <3>1. d.width \in (Nat \ {0}) \cup {None, Star}
      BY <1>3 DEF WellFormed
    <3>2. Len(Number(d.width)) = 1
      BY <2>1, <3>1, NumbersAre
    <3>3. j + 1 = WidthEnd(d)
      BY <2>1, <3>2 DEF WidthEnd
    <3> QED BY <1>6, <2>1, <3>3 DEF None, Star
  <2>8. pc' = "switch" /\ width' = Width(d) /\ precision' = -1 /\ lflag' = 0
    BY <1>1, <1>2, <2>1, <2>4
  <2>9. AfterWidth(k, d, j + 1)'
    BY <2>5, <2>6, <2>7, <2>8 DEF AfterWidth
  <2>10. Phase(k, d, j + 1)'
    BY <2>9 DEF Phase
  <2> QED BY <1>1, <1>2, <1>5, <2>7, <2>10, StaysIn
<1>12. CASE PrecisionStarNext(k, d, j)
  <2>1. /\ j = PointEnd(d) /\ At(k, j, WidthStar(d)) /\ FlagsRead(d, Len(d.flags))
        /\ WidthRead(d) /\ width >= 0 /\ lflag = 0
        /\ d.precision = Star /\ d.precision # None
    BY <1>12 DEF PrecisionStarNext, AfterPoint
  <2>2. WidthStar(d) < Len(Arguments(d)) /\ WidthStar(d) \in Int
    BY <1>7, <2>1
  <2>3. args[ap] = Arguments(items[k])[WidthStar(d) + 1]
    BY <1>1, <1>7, <1>8, <2>1, <2>2, Reads
  <2>4. args[ap] = Precision(d)
    BY <1>1, <1>9, <2>1, <2>3 DEF Listed, Precision
  <2>5. At(k, j + 1, Stars(d))'
    <3>1. At(k, j + 1, WidthStar(d) + 1)'
      BY <1>1, <1>2, <1>8, <2>1, <2>2, AtNext
    <3> QED BY <1>7, <2>1, <3>1
  <2>6. FlagsRead(d, Len(d.flags))'
    BY <1>2, <2>1, FlagsStay
  <2>7. /\ j + 1 = PrecisionEnd(d) /\ j + 1 \in 0 .. Len(Written(d))
        /\ j + 1 \in PrecisionEnd(d) .. LongsEnd(d) /\ (j + 1) - PrecisionEnd(d) = 0
    <3>1. d.precision \in (Nat \ {0}) \cup {None, Star}
      BY <1>3 DEF WellFormed
    <3>2. Len(Number(d.precision)) = 1
      BY <2>1, <3>1, NumbersAre
    <3>3. j + 1 = PrecisionEnd(d)
      BY <2>1, <3>2 DEF PrecisionEnd
    <3> QED BY <1>6, <3>3
  <2>8. ~(width < 0)
    <3>1. Width(d) \in Int
      BY <1>3, WidthIs
    <3>2. width \in Int
      BY <2>1, <3>1 DEF WidthRead
    <3> QED BY <2>1, <3>2
  <2>9. /\ pc' = "switch" /\ WidthRead(d)' /\ precision' = Precision(d)
        /\ lflag' = (j + 1) - PrecisionEnd(d)
    BY <1>1, <1>2, <2>1, <2>4, <2>7, <2>8 DEF WidthRead
  <2>10. ReadingLongs(k, d, j + 1)'
    BY <2>5, <2>6, <2>7, <2>9 DEF ReadingLongs
  <2>11. Phase(k, d, j + 1)'
    BY <2>10 DEF Phase
  <2> QED BY <1>1, <1>2, <1>5, <2>7, <2>11, StaysIn
<1> QED BY <1>10, <1>11, <1>12

\* The k-th text and the k-th arguments are in the rows of all.
LEMMA BothFound ==
  ASSUME items \in Formats, NEW k \in 1 .. N
  PROVE  Found(Texts, k) /\ Found(Lists, k)
<1>1. N \in Nat
  BY FormatIs
<1>2. /\ Len(Texts) = N /\ Len(Lists) = N
      /\ \A i \in 1 .. N : Texts[i] \in Seq(Char)
      /\ \A i \in 1 .. N : Lists[i] \in Seq(Any)
  BY RowsAre
<1>3. /\ Len(Texts) \in Nat /\ k \in 1 .. Len(Texts)
      /\ \A i \in 1 .. Len(Texts) : Texts[i] \in Seq(Char)
  BY <1>1, <1>2
<1>4. /\ Len(Lists) \in Nat /\ k \in 1 .. Len(Lists)
      /\ \A i \in 1 .. Len(Lists) : Lists[i] \in Seq(Any)
  BY <1>1, <1>2
<1>5. Found(Texts, k)
  BY <1>3, InRow
<1>6. Found(Lists, k)
  BY <1>4, InRow
<1> QED BY <1>5, <1>6

\* The end of an item is the text before the next, or the end of the format.
LEMMA Finished ==
  ASSUME items \in Formats, UNCHANGED items, NEW k \in 1 .. N, NEW d, d = items[k],
         At(k, Len(Written(d)), Len(Arguments(d)))',
         AllSupported => put' \o out' = Prefixes(Senses)[k - 1] \o Meaning(d)
  PROVE  InText'
<1> DEFINE w == Len(Written(d))
           a == Len(Arguments(d))
           x == Len(Prefixes(Texts)[k - 1])
           y == Len(Prefixes(Lists)[k - 1])
<1>1. N \in Nat /\ \A i \in 1 .. N : WellFormed(items[i])
  BY FormatIs
<1>2. /\ N' = N /\ Texts' = Texts /\ Lists' = Lists /\ Senses' = Senses
      /\ AllSupported' = AllSupported
  BY Same
<1>3. Found(Texts, k) /\ Found(Lists, k)
  BY BothFound
<1>4. Texts[k] = Written(d) /\ Lists[k] = Arguments(d)
  BY RowsAre
<1>5. /\ x \in Nat /\ Len(Prefixes(Texts)[k]) = x + w
      /\ y \in Nat /\ Len(Prefixes(Lists)[k]) = y + a
  BY <1>3, <1>4 DEF Found
<1>6. w \in Nat /\ a \in Nat
  BY <1>1, EndsAre, StarsAre
<1>7. fmt' = x + w + 1 /\ ap' = y + a + 1
  BY <1>2 DEF At
<1>8. (k + 1) - 1 = k
  OBVIOUS
<1>9. At(k + 1, 0, 0)'
  <2>1. fmt' = Len(Prefixes(Texts)[k]) + 0 + 1 /\ ap' = Len(Prefixes(Lists)[k]) + 0 + 1
    <3> HIDE DEF w, a, x, y
    <3> QED BY <1>5, <1>6, <1>7
  <2> QED BY <1>2, <1>8, <2>1 DEF At
<1>10. AllSupported => put' \o out' = Prefixes(Senses)[(k + 1) - 1] \o <<>>
  <2>1. Prefixes(Senses)[k] = Prefixes(Senses)[k - 1] \o Meaning(d)
    BY Passes
  <2>2. Prefixes(Senses)[k - 1] \in Seq(Char) /\ Meaning(d) \in Seq(Char)
    BY <1>1, Passes, MeaningText
  <2> DEFINE p == Prefixes(Senses)[k - 1] \o Meaning(d)
  <2>3. p \in Seq(Char)
    BY <2>2, Cat
  <2> HIDE DEF p
  <2>4. p \o <<>> = p
    BY <2>3
  <2> QED BY <1>8, <2>1, <2>4 DEF p
<1>11. Promised(k + 1, <<>>)'
  BY <1>2, <1>10 DEF Promised
<1>12. CASE k = N
  BY <1>2, <1>9, <1>11, <1>12 DEF InText, Behind
<1>13. CASE k # N
  <2>1. k + 1 \in 1 .. N /\ items' = items
    BY <1>1, <1>13
  <2>2. PICK g : g = items[k + 1]
    OBVIOUS
  <2>3. WellFormed(g)
    BY <1>1, <2>1, <2>2
  <2>4. 0 \in 0 .. Len(g.before) /\ 0 \in 0 .. Len(Written(g))
    BY <2>3, EndsAre
  <2>5. SubSeq(g.before, 1, 0) = <<>>
    <3>1. g.before \in Seq(Char \ {"%", NUL})
      BY <2>3 DEF WellFormed
    <3> QED BY <3>1, AllOf
  <2>6. items'[k + 1] = g
    BY <2>1, <2>2
  <2>7. InBefore(k + 1, 0)'
    BY <1>9, <1>11, <2>4, <2>5, <2>6 DEF InBefore
  <2>8. k + 1 \in 1 .. N' /\ 0 \in 0 .. Len(Written(items'[k + 1]))
    BY <1>2, <2>1, <2>4, <2>6
  <2> QED BY <2>7, <2>8 DEF InText
<1> QED BY <1>12, <1>13

\* Appending to a row.
LEMMA Associates ==
  ASSUME NEW S, NEW s \in Seq(S), NEW t \in Seq(S), NEW r \in Seq(S)
  PROVE  (s \o t) \o r = s \o (t \o r) /\ s \o <<>> = s /\ <<>> \o s = s
OBVIOUS

\* Before the conversion everything is read.
LEMMA ReadsAll ==
  ASSUME NEW d, WellFormed(d), NEW k, NEW j, ConversionNext(k, d, j), padc \in Char
  PROVE  AllRead(d)
<1>1. /\ j = LongsEnd(d) /\ FlagsRead(d, Len(d.flags))
      /\ WidthRead(d) /\ precision = Precision(d) /\ lflag = j - PrecisionEnd(d)
  BY DEF ConversionNext, ReadingLongs
<1>2. lflag = d.longs
  <2> DEFINE x == PrecisionEnd(d)
             l == d.longs
  <2>1. x \in Nat /\ l \in Nat /\ j = x + l
    BY <1>1, EndsAre DEF LongsEnd, WellFormed
  <2> HIDE DEF x, l
  <2>2. j - x = l
    BY <2>1
  <2> QED BY <1>1, <2>2 DEF x, l
<1>3. /\ Supported(d) => padc = PadOf(d)
      /\ altflag = HasFlag(d, "#")
  BY <1>1 DEF FlagsRead, PadOf, HasFlag
<1> QED BY <1>1, <1>2, <1>3 DEF AllRead

\* A conversion puts what its directive means.
LEMMA ConvertKeeps ==
  ASSUME NEW k, NEW d, NEW j, In(k, d, j), ConvertArg \/ ConvertPlain,
         padc \in Char, put \in Seq(Char)
  PROVE  InText' /\ out' \in Seq(Char)
<1>1. /\ items \in Formats /\ k \in 1 .. N /\ d = items[k] /\ j \in 0 .. Len(Written(d))
      /\ Phase(k, d, j) /\ Promised(k, d.before) /\ out = <<>> /\ pc = "switch"
  BY DEF In, ConvertArg, ConvertPlain, Ready
<1>2. UNCHANGED <<items, put>> /\ fmt' = fmt + 1 /\ ch \in Conversions
  BY DEF ConvertArg, ConvertPlain, Convert, Conversions
<1>3. /\ ConvertArg => ch \in Taking /\ ap' = ap + 1
      /\ ConvertPlain => ch \in {"o", "%"} /\ ap' = ap
  BY DEF ConvertArg, ConvertPlain, Taking
<1>4. WellFormed(d) /\ N \in Nat
  BY <1>1, FormatIs
<1>5. ConversionNext(k, d, j)
  BY <1>1, <1>2, <1>4, NextIs, NextBy
<1>6. AllRead(d)
  BY <1>4, <1>5, ReadsAll
<1>7. ch = d.conv /\ j = LongsEnd(d) /\ At(k, j, Stars(d))
  BY <1>5 DEF ConversionNext, ReadingLongs
<1>8. Len(Written(d)) = j + 1
  <2>1. Follows(d) /\ d.conv # NUL
    BY <1>2, <1>4, <1>7, FollowsIs DEF Conversions, NUL
  <2> QED BY <1>7, <2>1 DEF Follows
<1>9. /\ Len(Arguments(d)) = Stars(d) + (IF d.conv \in Taking THEN 1 ELSE 0)
      /\ Stars(d) \in Nat /\ Stars(d) \in Int /\ j \in Nat /\ j \in Int
  BY <1>4, <1>7, EndsAre, StarsAre
<1>10. ASSUME d.conv \in Taking PROVE args[ap] = d.value
  <2>1. Stars(d) < Len(Arguments(d))
    BY <1>9, <1>10
  <2>2. args[ap] = Arguments(items[k])[Stars(d) + 1]
    BY <1>1, <1>7, <1>9, <2>1, Reads
  <2>3. Listed(d)
    BY <1>4, ArgumentsAre
  <2> QED BY <1>1, <1>10, <2>2, <2>3 DEF Listed
<1>11. Puts(d, out')
  <2>1. CASE ConvertArg
    <3>1. d.conv \in Taking /\ args[ap] = d.value
      BY <1>3, <1>7, <1>10, <2>1
    <3> QED BY <1>7, <2>1, <3>1 DEF ConvertArg, Convert, Puts
  <2>2. CASE ConvertPlain
    BY <1>7, <2>2 DEF ConvertPlain, Convert, Puts
  <2> QED BY <2>1, <2>2
<1>12. At(k, Len(Written(d)), Len(Arguments(d)))'
  <2>1. CASE ConvertArg
    <3>1. At(k, j + 1, Stars(d) + 1)'
      BY <1>1, <1>2, <1>3, <1>7, <1>9, <2>1, AtNext
    <3>2. Len(Arguments(d)) = Stars(d) + 1
      BY <1>3, <1>7, <1>9, <2>1
    <3> QED BY <1>8, <3>1, <3>2
  <2>2. CASE ConvertPlain
    <3>1. At(k, j + 1, Stars(d))'
      BY <1>1, <1>2, <1>3, <1>7, <1>9, <2>2, AtNext
    <3>2. d.conv \notin Taking
      BY <1>3, <1>7, <2>2 DEF Taking
    <3>3. Len(Arguments(d)) = Stars(d)
      BY <1>9, <3>2
    <3> QED BY <1>8, <3>1, <3>3
  <2> QED BY <2>1, <2>2
<1>13. PICK s : s = out'
  OBVIOUS
<1>14. s \in Seq(Char) /\ (Supported(d) => d.before \o s = Meaning(d))
  <2>1. Puts(d, s) /\ d.conv \in Conversions
    BY <1>2, <1>7, <1>11, <1>13
  <2> QED BY <1>6, <2>1, PutsMeaning
<1>15. ASSUME AllSupported PROVE put' \o out' = Prefixes(Senses)[k - 1] \o Meaning(d)
  <2>1. Supported(d)
    BY <1>1, <1>15, FormatIs DEF AllSupported
  <2> DEFINE p == Prefixes(Senses)[k - 1]
             q == d.before
  <2>2. put \o <<>> = p \o q
    BY <1>1, <1>15 DEF Promised
  <2>3. p \in Seq(Char) /\ q \in Seq(Char)
    <3>1. p \in Seq(Char)
      BY <1>1, Passes
    <3>2. q \in Seq(Char \ {"%", NUL}) /\ Char \ {"%", NUL} \subseteq Char
      BY <1>4 DEF WellFormed
    <3> QED BY <3>1, <3>2, Widen
  <2>4. q \o s = Meaning(d)
    BY <1>14, <2>1
  <2> HIDE DEF p, q
  <2>5. put = p \o q
    BY <2>2
  <2>6. (p \o q) \o s = p \o (q \o s)
    BY <1>14, <2>3, Associates
  <2>7. put \o s = p \o Meaning(d)
    BY <2>4, <2>5, <2>6
  <2> QED BY <1>2, <1>13, <2>7 DEF p
<1>16. InText'
  BY <1>1, <1>2, <1>12, <1>15, Finished
<1> QED BY <1>13, <1>14, <1>16

\* Behind its '%' a directive has none, nor a NUL.
LEMMA NoPercent ==
  ASSUME NEW d, WellFormed(d), NEW j \in Len(d.before) + 1 .. LongsEnd(d) - 1
  PROVE  Written(d)[j + 1] \notin {"%", NUL}
<1> DEFINE W == Written(d)
           x0 == Len(d.before)
           x1 == FlagsEnd(d)
           x2 == WidthEnd(d)
           x3 == PointEnd(d)
           x4 == PrecisionEnd(d)
           x5 == LongsEnd(d)
<1>1. Follows(d)
  BY FollowsIs
<1>2. /\ x0 \in Nat /\ x1 \in Nat /\ x2 \in Nat /\ x3 \in Nat /\ x4 \in Nat /\ x5 \in Nat
      /\ j \in x0 + 1 .. x5 - 1
  BY EndsAre
<1>3. /\ d.width \in (Nat \ {0}) \cup {None, Star}
      /\ d.precision \in (Nat \ {0}) \cup {None, Star}
  BY DEF WellFormed
<1>4. ASSUME NEW v \in (Nat \ {0}) \cup {None, Star}, NEW i \in 1 .. Len(Number(v))
      PROVE  Number(v)[i] \notin {"%", NUL}
  <2>1. CASE v = None
    <3>1. Len(Number(v)) = 0
      BY <2>1, NumbersAre
    <3> QED BY <3>1
  <2>2. CASE v = Star
    <3>1. Number(v) = <<"*">> /\ Len(Number(v)) = 1
      BY <2>2, NumbersAre
    <3>2. i = 1
      BY <3>1
    <3> QED BY <3>1, <3>2 DEF NUL
  <2>3. CASE v \in Nat \ {0}
    <3>1. Number(v) \in Seq(Digits)
      BY <2>3, NumberIs
    <3>2. Number(v)[i] \in Digits
      BY <3>1
    <3> QED BY <3>2, DigitsAre DEF NUL
  <2> QED BY <2>1, <2>2, <2>3
<1>5. CASE j \in x0 + 1 .. x1 - 1
  <2>1. W[j + 1] \in {"-", "0", "#"}
    BY <1>1, <1>5 DEF Follows
  <2> QED BY <2>1 DEF NUL
<1>6. CASE j \in x1 .. x2 - 1
  <2> DEFINE l == Len(Number(d.width))
  <2>1. W[j + 1] = Number(d.width)[j - x1 + 1]
    BY <1>1, <1>6 DEF Follows
  <2>2. l \in Nat /\ x2 = x1 + l
    <3>1. Number(d.width) \in Seq(Char)
      BY <1>3, NumbersAre
    <3> QED BY <3>1 DEF WidthEnd
  <2>3. j - x1 + 1 \in 1 .. l
    <3> HIDE DEF l, x1, x2
    <3> QED BY <1>2, <1>6, <2>2
  <2> QED BY <1>3, <1>4, <2>1, <2>3
<1>7. CASE j \in x2 .. x4 - 1
  <2>1. CASE d.precision = None
    <3>1. x4 = x2
      BY <1>2, <2>1 DEF PrecisionEnd, PointEnd
    <3> QED BY <1>2, <1>7, <3>1
  <2>2. CASE d.precision # None /\ j = x2
    <3>1. W[j + 1] = "."
      BY <1>1, <2>2 DEF Follows
    <3> QED BY <3>1 DEF NUL
  <2>3. CASE d.precision # None /\ j # x2
    <3> DEFINE l == Len(Number(d.precision))
    <3>1. l \in Nat /\ x3 = x2 + 1 /\ x4 = x3 + l
      <4>1. Number(d.precision) \in Seq(Char)
        BY <1>3, NumbersAre
      <4>2. l \in Nat
        BY <4>1
      <4> QED BY <2>3, <4>2 DEF PointEnd, PrecisionEnd
    <3>2. j \in x3 .. x4 - 1 /\ j - x3 + 1 \in 1 .. l
      <4> HIDE DEF l, x2, x3, x4
      <4> QED BY <1>2, <1>7, <2>3, <3>1
    <3>3. W[j + 1] = Number(d.precision)[j - x3 + 1]
      BY <1>1, <2>3, <3>2 DEF Follows
    <3> QED BY <1>3, <1>4, <3>2, <3>3
  <2> QED BY <2>1, <2>2, <2>3
<1>8. CASE j \in x4 .. x5 - 1
  <2>1. W[j + 1] = "l"
    BY <1>1, <1>8 DEF Follows
  <2> QED BY <2>1 DEF NUL
<1>9. \/ j \in x0 + 1 .. x1 - 1 \/ j \in x1 .. x2 - 1 \/ j \in x2 .. x4 - 1 \/ j \in x4 .. x5 - 1
  <2> HIDE DEF x0, x1, x2, x3, x4, x5
  <2> QED BY <1>2
<1> QED BY <1>5, <1>6, <1>7, <1>8, <1>9

\* The text of a directive that is not known goes on.
LEMMA LiteralGoes ==
  ASSUME items \in Formats, UNCHANGED items, NEW k \in 1 .. N, NEW d, d = items[k],
         d.conv \notin Conversions, NEW j \in Len(d.before) + 1 .. Len(Written(d)),
         At(k, j, Stars(d))', Promised(k, SubSeq(Written(d), 1, j))'
  PROVE  InText'
<1>1. WellFormed(d) /\ N \in Nat
  BY FormatIs
<1>2. N' = N /\ Senses' = Senses /\ AllSupported' = AllSupported
  BY Same
<1>3. Len(Written(d)) \in Nat /\ Len(d.before) \in Nat /\ Written(d) \in Seq(Char)
  BY <1>1, EndsAre, WrittenIs DEF Spelled
<1>4. CASE j = Len(Written(d))
  <2>1. Len(Arguments(d)) = Stars(d)
    <3>1. d.conv \notin Taking
      BY DEF Taking, Conversions
    <3>2. Len(Arguments(d)) = Stars(d) + 0 /\ Stars(d) \in Nat
      BY <1>1, <3>1, StarsAre
    <3> QED BY <3>2
  <2>2. SubSeq(Written(d), 1, j) = Meaning(d)
    BY <1>1, <1>3, <1>4, AllOf, LiteralIs
  <2>3. AllSupported => put' \o out' = Prefixes(Senses)[k - 1] \o Meaning(d)
    BY <1>2, <2>2 DEF Promised
  <2>4. At(k, Len(Written(d)), Len(Arguments(d)))'
    BY <1>4, <2>1
  <2> QED BY <2>3, <2>4, Finished
<1>5. CASE j # Len(Written(d))
  <2>1. j \in Len(d.before) + 1 .. Len(Written(d)) - 1 /\ j \in 0 .. Len(Written(d))
    BY <1>3, <1>5
  <2>2. items'[k] = d /\ k \in 1 .. N'
    BY <1>2
  <2>3. InLiteral(k, j)'
    BY <2>1, <2>2 DEF InLiteral
  <2> QED BY <2>1, <2>2, <2>3 DEF InText
<1> QED BY <1>4, <1>5

\* Where a directive has its text in the format.
LEMMA FormatAt ==
  ASSUME items \in Formats, NEW k \in 1 .. N, NEW i \in 1 .. Len(Written(items[k]))
  PROVE  /\ Len(Prefixes(Texts)[k - 1]) \in Nat
         /\ format[Len(Prefixes(Texts)[k - 1]) + i] = Written(items[k])[i]
<1>1. Found(Texts, k) /\ Texts[k] = Written(items[k])
  BY BothFound, RowsAre
<1>2. format = Flatten(Texts)
  BY DEF format, Texts
<1> QED BY <1>1, <1>2 DEF Found

\* A conversion that is not known puts its '%' and goes back behind it.
LEMMA UnrecognizedKeeps ==
  ASSUME NEW k, NEW d, NEW j, In(k, d, j), Unrecognized, put \in Seq(Char)
  PROVE  InText' /\ out' \in Seq(Char)
<1>1. /\ items \in Formats /\ k \in 1 .. N /\ d = items[k] /\ j \in 0 .. Len(Written(d))
      /\ Phase(k, d, j) /\ Promised(k, d.before) /\ out = <<>> /\ pc = "switch"
  BY DEF In, Unrecognized, Ready
<1>2. UNCHANGED <<items, put, ap>> /\ ch \notin Known /\ out' = <<"%">>
  BY DEF Unrecognized, Convert
<1>3. PICK h \in 1 .. fmt - 1 : /\ format[h] = "%" /\ \A i \in h + 1 .. fmt - 1 : format[i] # "%"
                                /\ fmt' = h + 1
  BY DEF Unrecognized
<1>4. WellFormed(d) /\ N \in Nat
  BY <1>1, FormatIs
<1>5. ConversionNext(k, d, j)
  BY <1>1, <1>2, <1>4, NextIs, NextBy
<1>6. ch = d.conv /\ j = LongsEnd(d) /\ At(k, j, Stars(d))
  BY <1>5 DEF ConversionNext, ReadingLongs
<1>7. d.conv \notin Conversions
  BY <1>2, <1>6 DEF Known
<1> DEFINE x == Len(Prefixes(Texts)[k - 1])
           y == Len(Prefixes(Lists)[k - 1])
           m == Len(d.before) + 1
           W == Written(d)
<1>8. /\ Len(d.before) \in Nat /\ LongsEnd(d) \in Nat /\ Len(W) \in Nat
      /\ Len(d.before) + 1 <= LongsEnd(d) /\ LongsEnd(d) <= Len(W)
      /\ FlagsEnd(d) \in Nat /\ Stars(d) \in Nat
  <2>1. /\ Len(d.before) + 1 <= FlagsEnd(d) /\ FlagsEnd(d) <= WidthEnd(d)
        /\ WidthEnd(d) <= PointEnd(d) /\ PointEnd(d) <= PrecisionEnd(d)
        /\ PrecisionEnd(d) <= LongsEnd(d)
        /\ Len(d.before) \in Nat /\ FlagsEnd(d) \in Nat /\ WidthEnd(d) \in Nat
        /\ PointEnd(d) \in Nat /\ PrecisionEnd(d) \in Nat /\ LongsEnd(d) \in Nat
    BY <1>4, EndsAre
  <2> QED BY <1>4, <2>1, EndsAre, StarsAre
<1>9. /\ fmt = x + j + 1 /\ ap = y + Stars(d) + 1
  BY <1>6 DEF At
<1>10. ASSUME NEW i \in 1 .. Len(W) PROVE x \in Nat /\ format[x + i] = W[i]
  BY <1>1, <1>10, FormatAt
<1>11. m \in 1 .. Len(W) /\ x \in Nat /\ format[x + m] = "%"
  <2>1. m \in 1 .. Len(W)
    <3> HIDE DEF W
    <3> QED BY <1>8
  <2>2. W[m] = "%"
    BY <1>4, FollowsIs DEF Follows
  <2> QED BY <1>10, <2>1, <2>2
<1>12. ASSUME NEW i \in x + m + 1 .. x + j PROVE format[i] # "%"
  <2> DEFINE c == i - x - 1
  <2>1. c \in Len(d.before) + 1 .. LongsEnd(d) - 1 /\ c + 1 \in 1 .. Len(W) /\ x + (c + 1) = i
    <3> HIDE DEF x, W
    <3> QED BY <1>6, <1>8, <1>11
  <2> HIDE DEF c
  <2>2. W[c + 1] # "%"
    BY <1>4, <2>1, NoPercent
  <2>3. format[x + (c + 1)] = W[c + 1]
    BY <1>10, <2>1
  <2> QED BY <2>1, <2>2, <2>3
<1>13. h = x + m
  <2>1. /\ fmt - 1 = x + j /\ j \in Nat /\ m <= j /\ m \in Nat
    <3> HIDE DEF x, W
    <3> QED BY <1>6, <1>8, <1>9, <1>11
  <2>2. h \in 1 .. x + j /\ x + m \in 1 .. x + j
    <3> HIDE DEF x, W
    <3> QED BY <1>3, <1>8, <1>11, <2>1
  <2>3. ~(h < x + m)
    <3>1. h < x + m => x + m \in h + 1 .. fmt - 1
      <4> HIDE DEF x, m
      <4> QED BY <1>11, <2>1, <2>2
    <3> QED BY <1>3, <1>11, <3>1
  <2>4. ~(h > x + m)
    <3>1. h > x + m => h \in x + m + 1 .. x + j
      <4> HIDE DEF x, m
      <4> QED BY <1>11, <2>1, <2>2
    <3> QED BY <1>3, <1>12, <3>1
  <2> HIDE DEF x, m
  <2> QED BY <1>11, <2>1, <2>2, <2>3, <2>4
<1>14. At(k, m, Stars(d))'
  <2>1. Texts' = Texts /\ Lists' = Lists
    BY <1>2, Same
  <2>2. fmt' = x + m + 1 /\ ap' = y + Stars(d) + 1
    BY <1>2, <1>3, <1>9, <1>13
  <2> QED BY <2>1, <2>2 DEF At
<1>15. Promised(k, SubSeq(Written(d), 1, m))'
  <2>1. Senses' = Senses /\ AllSupported' = AllSupported
    BY <1>2, Same
  <2> DEFINE p == Prefixes(Senses)[k - 1]
             q == d.before
             s == <<"%">>
  <2>2. SubSeq(Written(d), 1, m) = q \o s
    <3>1. Spelled(d) /\ Follows(d)
      BY <1>4, WrittenIs, FollowsIs
    <3>2. W \in Seq(Char) /\ W[m] = "%" /\ \A i \in 1 .. Len(q) : W[i] = q[i]
      BY <3>1 DEF Spelled
    <3>3. q \in Seq(Char \ {"%", NUL})
      BY <1>4 DEF WellFormed
    <3>4. q \in Seq(Char)
      <4>1. Char \ {"%", NUL} \subseteq Char
        OBVIOUS
      <4> QED BY <3>3, <4>1, Widen
    <3> HIDE DEF q, W
    <3>5. m = Len(q) + 1
      BY DEF q
    <3> HIDE DEF m
    <3>6. SubSeq(W, 1, Len(q)) = q
      <4>1. Len(q) \in 0 .. Len(W)
        BY <1>8, <3>4 DEF q
      <4> QED BY <3>2, <3>4, <4>1
    <3>7. Len(q) \in 0 .. Len(W) - 1
      BY <1>8, <1>11, <3>4, <3>5
    <3>8. SubSeq(W, 1, Len(q) + 1) = SubSeq(W, 1, Len(q)) \o <<W[Len(q) + 1]>>
      BY <3>2, <3>7, OneMore
    <3> QED BY <3>2, <3>5, <3>6, <3>8 DEF W, s
  <2>3. p \in Seq(Char) /\ q \in Seq(Char) /\ s \in Seq(Char)
    <3>1. p \in Seq(Char)
      BY <1>1, Passes
    <3>2. q \in Seq(Char \ {"%", NUL}) /\ Char \ {"%", NUL} \subseteq Char
      BY <1>4 DEF WellFormed
    <3>3. s \in Seq(Char)
      <4>1. "%" \in Char
        BY Chars
      <4> QED BY <4>1, One
    <3> QED BY <3>1, <3>2, <3>3, Widen
  <2>4. ASSUME AllSupported PROVE put \o s = p \o (q \o s)
    <3>1. put \o <<>> = p \o q
      BY <1>1, <2>4 DEF Promised
    <3> HIDE DEF p, q, s
    <3>2. put = p \o q
      BY <3>1
    <3>3. (p \o q) \o s = p \o (q \o s)
      BY <2>3, Associates
    <3> QED BY <3>2, <3>3
  <2> HIDE DEF m
  <2> QED BY <1>2, <2>1, <2>2, <2>4 DEF Promised
<1>16. m \in Len(d.before) + 1 .. Len(Written(d))
  <2> HIDE DEF W
  <2> QED BY <1>11 DEF W
<1>17. InText'
  <2> HIDE DEF m
  <2> QED BY <1>1, <1>2, <1>7, <1>14, <1>15, <1>16, LiteralGoes
<1>18. out' \in Seq(Char)
  <2>1. "%" \in Char
    BY Chars
  <2> QED BY <1>2, <2>1, One
<1> QED BY <1>17, <1>18

\* What vprintfmt reads in the text before a directive.
LEMMA BeforeReads ==
  ASSUME items \in Formats, NEW k \in 1 .. N, NEW d, d = items[k], NEW j, InBefore(k, j)
  PROVE  /\ j \in Nat /\ j <= Len(d.before) /\ j < Len(Written(d)) /\ Len(d.before) \in Nat
         /\ j < Len(d.before) => ch = d.before[j + 1] /\ ch \in Char \ {"%", NUL}
         /\ j = Len(d.before) => ch = "%"
<1>1. WellFormed(d)
  BY FormatIs
<1>2. Follows(d)
  BY <1>1, FollowsIs
<1>3. j \in 0 .. Len(d.before) /\ At(k, j, 0)
  BY DEF InBefore
<1> DEFINE x == Len(d.before)
           w == Len(Written(d))
<1>4. x \in Nat /\ w \in Nat /\ x < w
  <2>1. /\ Len(d.before) + 1 <= FlagsEnd(d) /\ FlagsEnd(d) <= WidthEnd(d)
        /\ WidthEnd(d) <= PointEnd(d) /\ PointEnd(d) <= PrecisionEnd(d)
        /\ PrecisionEnd(d) <= LongsEnd(d) /\ LongsEnd(d) <= Len(Written(d))
        /\ Len(d.before) \in Nat /\ FlagsEnd(d) \in Nat /\ WidthEnd(d) \in Nat
        /\ PointEnd(d) \in Nat /\ PrecisionEnd(d) \in Nat /\ LongsEnd(d) \in Nat
        /\ Len(Written(d)) \in Nat
    BY <1>1, EndsAre
  <2> QED BY <2>1
<1>5. j \in Nat /\ j <= x /\ j < w
  <2> HIDE DEF w
  <2> QED BY <1>3, <1>4
<1>6. ch = Written(items[k])[j + 1]
  <2>1. 0 \in Nat
    OBVIOUS
  <2> QED BY <1>3, <1>5, <2>1, Reads
<1>7. ASSUME j < x PROVE ch = d.before[j + 1] /\ ch \in Char \ {"%", NUL}
  <2>1. j \in 0 .. Len(d.before) - 1
    BY <1>4, <1>5, <1>7
  <2> QED BY <1>2, <1>6, <2>1 DEF Follows
<1>8. j = x => ch = "%"
  BY <1>2, <1>6 DEF Follows
<1> QED BY <1>4, <1>5, <1>7, <1>8

\* What it reads in the text of a directive that is not known.
LEMMA LiteralReads ==
  ASSUME items \in Formats, NEW k \in 1 .. N, NEW d, d = items[k], NEW j, InLiteral(k, j)
  PROVE  /\ j \in Nat /\ j < Len(Written(d))
         /\ ch = Written(d)[j + 1] /\ ch \in Char \ {"%", NUL}
<1>1. WellFormed(d)
  BY FormatIs
<1>2. Follows(d) /\ Spelled(d)
  BY <1>1, FollowsIs, WrittenIs
<1>3. /\ j \in Len(d.before) + 1 .. Len(Written(d)) - 1 /\ At(k, j, Stars(d))
      /\ d.conv \notin Conversions
  BY DEF InLiteral
<1> DEFINE x == Len(d.before)
           w == Len(Written(d))
           l == LongsEnd(d)
<1>4. x \in Nat /\ w \in Nat /\ l \in Nat /\ Stars(d) \in Nat
      /\ w = l + (IF d.conv = NUL THEN 0 ELSE 1)
  BY <1>1, <1>2, EndsAre, StarsAre DEF Follows
<1>5. j \in Nat /\ j < w /\ j + 1 \in 1 .. w
  <2> HIDE DEF l
  <2> QED BY <1>3, <1>4
<1>6. ch = Written(items[k])[j + 1]
  BY <1>3, <1>4, <1>5, Reads
<1>7. CASE j \in x + 1 .. l - 1
  <2>1. Written(d)[j + 1] \notin {"%", NUL}
    BY <1>1, <1>7, NoPercent
  <2>2. Written(d) \in Seq(Char)
    BY <1>2 DEF Spelled
  <2>3. Written(d)[j + 1] \in Char
    BY <1>5, <2>2
  <2> QED BY <1>5, <1>6, <2>1, <2>3
<1>8. CASE j \notin x + 1 .. l - 1
  <2>1. j = l /\ d.conv # NUL
    <3>1. j \in x + 1 .. w - 1
      BY <1>3
    <3> HIDE DEF x, w, l
    <3> QED BY <1>4, <1>8, <3>1
  <2>2. ch = d.conv
    BY <1>2, <1>6, <2>1 DEF Follows
  <2>3. d.conv \in Char /\ d.conv # "%"
    BY <1>1, <1>3, ConvIs DEF Conversions
  <2> QED BY <1>5, <1>6, <2>1, <2>2, <2>3
<1> QED BY <1>7, <1>8

\* Inside the text there are three places.
LEMMA TextIs ==
  ASSUME items \in Formats, InText
  PROVE  \/ \E k \in 1 .. N : \E d, j : d = items[k] /\ InBefore(k, j)
         \/ \E k \in 1 .. N : \E d, j : d = items[k] /\ InLiteral(k, j)
         \/ Behind
BY DEF InText

\* What is put behind both parts is put behind the second.
Extends(u, s, t, r) == u \o <<>> = s \o t => u \o r = s \o (t \o r)

\* So it is for all sequences.
LEMMA Extended ==
  ASSUME NEW S, NEW u \in Seq(S), NEW s \in Seq(S), NEW t \in Seq(S), NEW r \in Seq(S)
  PROVE  Extends(u, s, t, r)
<1>1. u \o <<>> = u
  BY Associates
<1>2. (s \o t) \o r = s \o (t \o r)
  BY Associates
<1> QED BY <1>1, <1>2 DEF Extends

\* What is put behind the first j characters is the next.
Continues(u, s, t, j) ==
  u \o <<>> = s \o SubSeq(t, 1, j) => u \o <<t[j + 1]>> = s \o SubSeq(t, 1, j + 1)

\* So it is for all texts.
LEMMA OnePut ==
  ASSUME NEW S, NEW u \in Seq(S), NEW s \in Seq(S), NEW t \in Seq(S), NEW j \in 0 .. Len(t) - 1
  PROVE  Continues(u, s, t, j)
<1> SUFFICES ASSUME u \o <<>> = s \o SubSeq(t, 1, j)
             PROVE  u \o <<t[j + 1]>> = s \o SubSeq(t, 1, j + 1)
  BY DEF Continues
<1> DEFINE q == SubSeq(t, 1, j)
           r == <<t[j + 1]>>
<1>1. q \in Seq(S) /\ SubSeq(t, 1, j + 1) = q \o r
  BY OneMore
<1>2. r \in Seq(S)
  <2>1. t[j + 1] \in S
    <3>1. j + 1 \in 1 .. Len(t)
      OBVIOUS
    <3> QED BY <3>1
  <2> QED BY <2>1, One
<1>3. u \o <<>> = s \o q
  OBVIOUS
<1> HIDE DEF q, r
<1>4. Extends(u, s, q, r)
  BY <1>1, <1>2, Extended
<1>5. u \o r = s \o (q \o r)
  BY <1>3, <1>4 DEF Extends
<1> QED BY <1>1, <1>5 DEF r

\* A character of the text is put.
LEMMA TextKeeps ==
  ASSUME items \in Formats, InText, Text, put \in Seq(Char)
  PROVE  InText' /\ out' \in Seq(Char)
<1>1. /\ out = <<>> /\ ch \notin {"%", NUL} /\ out' = <<ch>> /\ fmt' = fmt + 1
      /\ UNCHANGED <<items, ap, put>>
  BY DEF Text, Ready
<1>2. N \in Nat /\ \A k \in 1 .. N : WellFormed(items[k])
  BY FormatIs
<1>3. ~Behind
  BY <1>1, EndsThere DEF Behind
<1>4. N' = N /\ Senses' = Senses /\ AllSupported' = AllSupported
  BY <1>1, Same
<1>5. ASSUME NEW k \in 1 .. N, NEW W \in Seq(Char), NEW j \in 0 .. Len(W) - 1,
             Promised(k, SubSeq(W, 1, j)), ch = W[j + 1]
      PROVE  Promised(k, SubSeq(W, 1, j + 1))' /\ ch \in Char
  <2> DEFINE p == Prefixes(Senses)[k - 1]
  <2>1. ch \in Char
    <3>1. j + 1 \in 1 .. Len(W)
      BY <1>5
    <3> QED BY <1>5, <3>1
  <2>2. p \in Seq(Char)
    BY Passes
  <2>3. AllSupported => put \o <<>> = p \o SubSeq(W, 1, j)
    BY <1>1, <1>5 DEF Promised
  <2>4. AllSupported => put \o <<W[j + 1]>> = p \o SubSeq(W, 1, j + 1)
    <3> HIDE DEF p
    <3>1. Continues(put, p, W, j)
      BY <2>2, OnePut
    <3> QED BY <2>3, <3>1 DEF Continues
  <2>5. Promised(k, SubSeq(W, 1, j + 1))'
    BY <1>1, <1>4, <1>5, <2>4 DEF Promised
  <2> QED BY <2>1, <2>5
<1>6. ASSUME NEW k \in 1 .. N, NEW d, d = items[k], NEW j, InBefore(k, j)
      PROVE  InText' /\ ch \in Char
  <2>1. /\ j \in Nat /\ j <= Len(d.before) /\ j < Len(Written(d)) /\ Len(d.before) \in Nat
        /\ j < Len(d.before) => ch = d.before[j + 1]
        /\ j = Len(d.before) => ch = "%"
    BY <1>6, BeforeReads
  <2>2. j < Len(d.before) /\ ch = d.before[j + 1]
    BY <1>1, <2>1
  <2>3. At(k, j, 0) /\ Promised(k, SubSeq(d.before, 1, j))
    BY <1>6 DEF InBefore
  <2>4. At(k, j + 1, 0)'
    <3>1. j \in Int /\ 0 \in Int
      BY <2>1
    <3> QED BY <1>1, <2>3, <3>1, AtNext
  <2>5. Promised(k, SubSeq(d.before, 1, j + 1))' /\ ch \in Char
    <3>1. d.before \in Seq(Char \ {"%", NUL}) /\ Char \ {"%", NUL} \subseteq Char
      BY <1>2, <1>6 DEF WellFormed
    <3>2. d.before \in Seq(Char)
      BY <3>1, Widen
    <3>3. j \in 0 .. Len(d.before) - 1
      BY <2>1, <2>2
    <3> QED BY <1>5, <2>2, <2>3, <3>2, <3>3
  <2>6. j + 1 \in 0 .. Len(d.before) /\ j + 1 \in 0 .. Len(Written(d))
    <3>1. Len(Written(d)) \in Nat
      BY <1>2, <1>6, EndsAre
    <3> QED BY <2>1, <2>2, <3>1
  <2>7. items'[k] = d /\ k \in 1 .. N'
    BY <1>1, <1>4, <1>6
  <2>8. InBefore(k, j + 1)'
    BY <2>4, <2>5, <2>6, <2>7 DEF InBefore
  <2> QED BY <2>5, <2>6, <2>7, <2>8 DEF InText
<1>7. ASSUME NEW k \in 1 .. N, NEW d, d = items[k], NEW j, InLiteral(k, j)
      PROVE  InText' /\ ch \in Char
  <2>1. /\ j \in Nat /\ j < Len(Written(d)) /\ ch = Written(d)[j + 1]
    BY <1>7, LiteralReads
  <2>2. /\ At(k, j, Stars(d)) /\ Promised(k, SubSeq(Written(d), 1, j))
        /\ d.conv \notin Conversions /\ j \in Len(d.before) + 1 .. Len(Written(d)) - 1
    BY <1>7 DEF InLiteral
  <2>3. WellFormed(d)
    BY <1>2, <1>7
  <2>4. Stars(d) \in Nat /\ Len(Written(d)) \in Nat /\ Len(d.before) \in Nat
        /\ Written(d) \in Seq(Char)
    BY <2>3, EndsAre, StarsAre, WrittenIs DEF Spelled
  <2>5. At(k, j + 1, Stars(d))'
    <3>1. j \in Int /\ Stars(d) \in Int
      BY <2>1, <2>4
    <3> QED BY <1>1, <2>2, <3>1, AtNext
  <2>6. Promised(k, SubSeq(Written(d), 1, j + 1))' /\ ch \in Char
    <3>1. j \in 0 .. Len(Written(d)) - 1
      BY <2>1, <2>4
    <3> QED BY <1>5, <2>1, <2>2, <2>4, <3>1
  <2>7. j + 1 \in Len(d.before) + 1 .. Len(Written(d))
    BY <2>1, <2>2, <2>4
  <2>8. InText'
    BY <1>1, <1>7, <2>2, <2>5, <2>6, <2>7, LiteralGoes
  <2> QED BY <2>6, <2>8
<1>8. InText' /\ ch \in Char
  BY <1>3, <1>6, <1>7, TextIs
<1> QED BY <1>1, <1>8, One

\* The end of the format is behind the last item.
LEMMA EndBehind ==
  ASSUME items \in Formats, InText, ch = NUL
  PROVE  Behind
<1>1. NUL # "%"
  BY DEF NUL
<1>2. ASSUME NEW k \in 1 .. N, NEW d, d = items[k], NEW j, InBefore(k, j) PROVE FALSE
  <2>1. /\ j \in Nat /\ j <= Len(d.before) /\ Len(d.before) \in Nat
        /\ j < Len(d.before) => ch \in Char \ {"%", NUL}
        /\ j = Len(d.before) => ch = "%"
    BY <1>2, BeforeReads
  <2> QED BY <1>1, <2>1
<1>3. ASSUME NEW k \in 1 .. N, NEW d, d = items[k], NEW j, InLiteral(k, j) PROVE FALSE
  <2>1. ch \in Char \ {"%", NUL}
    BY <1>3, LiteralReads
  <2> QED BY <2>1
<1> QED BY <1>2, <1>3, TextIs

\* A '%' begins a directive.
LEMMA PercentKeeps ==
  ASSUME items \in Formats, InText, Percent
  PROVE  InDirective'
<1>1. /\ out = <<>> /\ ch = "%" /\ pc' = "switch" /\ fmt' = fmt + 1
      /\ padc' = " " /\ width' = -1 /\ precision' = -1 /\ lflag' = 0 /\ altflag' = FALSE
      /\ UNCHANGED <<items, ap, put, out>>
  BY DEF Percent, Ready
<1>2. N \in Nat /\ \A k \in 1 .. N : WellFormed(items[k])
  BY FormatIs
<1>3. ~Behind
  BY <1>1, EndsThere DEF Behind, NUL
<1>4. ASSUME NEW k \in 1 .. N, NEW d, d = items[k], NEW j, InBefore(k, j)
      PROVE  InDirective'
  <2>1. /\ j \in Nat /\ j <= Len(d.before) /\ j < Len(Written(d)) /\ Len(d.before) \in Nat
        /\ j < Len(d.before) => ch \in Char \ {"%", NUL}
    BY <1>4, BeforeReads
  <2>2. j = Len(d.before)
    <3>1. ~(j < Len(d.before))
      BY <1>1, <2>1
    <3>2. j \in Nat /\ j <= Len(d.before) /\ Len(d.before) \in Nat
      BY <2>1
    <3> QED BY <3>1, <3>2
  <2>3. At(k, j, 0) /\ Promised(k, SubSeq(d.before, 1, j))
    BY <1>4 DEF InBefore
  <2>4. WellFormed(d)
    BY <1>2, <1>4
  <2>5. Promised(k, d.before)'
    <3>1. d.before \in Seq(Char \ {"%", NUL})
      BY <2>4 DEF WellFormed
    <3>2. Promised(k, d.before)
      BY <2>2, <2>3, <3>1, AllOf
    <3> QED BY <1>1, <3>2, PromiseStays
  <2>6. At(k, j + 1, 0)'
    <3>1. j \in Int /\ 0 \in Int
      BY <2>1
    <3> QED BY <1>1, <2>3, <3>1, AtNext
  <2>7. /\ j + 1 \in Len(d.before) + 1 .. FlagsEnd(d) /\ j + 1 \in 0 .. Len(Written(d))
        /\ (j + 1) - Len(d.before) - 1 = 0
    <3>1. FlagsEnd(d) \in Nat /\ Len(d.before) + 1 <= FlagsEnd(d) /\ Len(Written(d)) \in Nat
      BY <2>4, EndsAre
    <3> QED BY <2>1, <2>2, <3>1
  <2>8. FlagsRead(d, 0)'
    <3>1. \A c : ~\E i \in 1 .. 0 : d.flags[i] = c
      OBVIOUS
    <3>2. altflag' = (\E i \in 1 .. 0 : d.flags[i] = "#")
      BY <1>1, <3>1
    <3> QED BY <1>1, <3>1, <3>2 DEF FlagsRead
  <2>9. FlagsRead(d, (j + 1) - Len(d.before) - 1)'
    BY <2>7, <2>8
  <2>10. ReadingFlags(k, d, j + 1)'
    BY <1>1, <2>6, <2>7, <2>9 DEF ReadingFlags
  <2>11. Phase(k, d, j + 1)'
    BY <2>10 DEF Phase
  <2> QED BY <1>1, <1>4, <2>5, <2>7, <2>11, StaysIn
<1>5. ASSUME NEW k \in 1 .. N, NEW d, d = items[k], NEW j, InLiteral(k, j) PROVE FALSE
  <2>1. ch \in Char \ {"%", NUL}
    BY <1>5, LiteralReads
  <2> QED BY <1>1, <2>1
<1> QED BY <1>3, <1>4, <1>5, TextIs

\* Putting a character leaves the place in the text.
LEMMA TextStays ==
  ASSUME UNCHANGED <<items, fmt, ap>>, put' \o out' = put \o out
  PROVE  (InText => InText') /\ (Behind => Behind')
<1>1. /\ N' = N /\ Texts' = Texts /\ Lists' = Lists /\ Senses' = Senses
      /\ AllSupported' = AllSupported
  BY Same
<1>2. ASSUME NEW k, NEW s, Promised(k, s) PROVE Promised(k, s)'
  BY <1>1, <1>2 DEF Promised
<1>3. ASSUME NEW k, NEW j, NEW t, At(k, j, t) PROVE At(k, j, t)'
  BY <1>1, <1>3 DEF At
<1>4. ASSUME NEW k, NEW j, InBefore(k, j) PROVE InBefore(k, j)'
  <2>1. PICK d : d = items[k]
    OBVIOUS
  <2>2. j \in 0 .. Len(d.before) /\ At(k, j, 0)' /\ Promised(k, SubSeq(d.before, 1, j))'
    BY <1>2, <1>3, <1>4, <2>1 DEF InBefore
  <2>3. items'[k] = d
    BY <2>1
  <2> QED BY <2>2, <2>3 DEF InBefore
<1>5. ASSUME NEW k, NEW j, InLiteral(k, j) PROVE InLiteral(k, j)'
  <2>1. PICK d : d = items[k]
    OBVIOUS
  <2>2. /\ d.conv \notin Conversions
        /\ j \in Len(d.before) + 1 .. Len(Written(d)) - 1
        /\ At(k, j, Stars(d))' /\ Promised(k, SubSeq(Written(d), 1, j))'
    BY <1>2, <1>3, <1>5, <2>1 DEF InLiteral
  <2>3. items'[k] = d
    BY <2>1
  <2> QED BY <2>2, <2>3 DEF InLiteral
<1>6. Behind => Behind'
  <2>1. PICK g : g = N + 1
    OBVIOUS
  <2>2. At(g, 0, 0) /\ Promised(g, <<>>) => At(g, 0, 0)' /\ Promised(g, <<>>)'
    BY <1>2, <1>3
  <2>3. N' + 1 = g
    BY <1>1, <2>1
  <2> QED BY <2>1, <2>2, <2>3 DEF Behind
<1>7. InText => InText'
  <2>1. CASE Behind
    BY <1>6, <2>1 DEF InText
  <2>2. ASSUME NEW k \in 1 .. N, NEW j \in 0 .. Len(Written(items[k])),
               InBefore(k, j) \/ InLiteral(k, j)
        PROVE  InText'
    <3>1. k \in 1 .. N' /\ j \in 0 .. Len(Written(items'[k]))
      BY <1>1
    <3>2. InBefore(k, j)' \/ InLiteral(k, j)'
      BY <1>4, <1>5, <2>2
    <3> QED BY <3>1, <3>2 DEF InText
  <2> QED BY <2>1, <2>2 DEF InText
<1> QED BY <1>6, <1>7

\* At the start vprintfmt is before the first item, or behind all of none.
LEMMA StartsThere ==
  ASSUME items \in Formats, fmt = 1, ap = 1, put = <<>>, out = <<>>
  PROVE  /\ InText
         /\ fmt \in 1 .. Len(format) + 1 /\ ap \in 1 .. Len(args) + 1
<1>1. N \in Nat /\ \A k \in 1 .. N : WellFormed(items[k])
  BY FormatIs
<1>2. /\ Len(Texts) = N /\ Len(Lists) = N /\ Len(Senses) = N
      /\ \A i \in 1 .. N : Texts[i] \in Seq(Char)
      /\ \A i \in 1 .. N : Lists[i] \in Seq(Any)
      /\ \A i \in 1 .. N : Senses[i] \in Seq(Char)
  BY RowsAre
<1>3. /\ Len(Texts) \in Nat /\ 0 \in 0 .. Len(Texts)
      /\ \A i \in 1 .. Len(Texts) : Texts[i] \in Seq(Char)
  BY <1>1, <1>2
<1>4. /\ Len(Lists) \in Nat /\ 0 \in 0 .. Len(Lists)
      /\ \A i \in 1 .. Len(Lists) : Lists[i] \in Seq(Any)
  BY <1>1, <1>2
<1>5. /\ Len(Senses) \in Nat
      /\ \A i \in 1 .. Len(Senses) : Senses[i] \in Seq(Char)
  BY <1>1, <1>2
<1>6. Prefixes(Texts)[0] = <<>>
  BY <1>3, PrefixesAre
<1>7. Prefixes(Lists)[0] = <<>>
  BY <1>4, PrefixesAre
<1>8. Prefixes(Senses)[0] = <<>>
  BY <1>5, PrefixesAre
<1>9. At(1, 0, 0)
  BY <1>6, <1>7 DEF At
<1>10. Promised(1, <<>>)
  BY <1>8 DEF Promised
<1>11. fmt \in 1 .. Len(format) + 1 /\ ap \in 1 .. Len(args) + 1
  <2>1. Flatten(Texts) \in Seq(Char)
    BY <1>3, RowsGrow
  <2>2. Flatten(Lists) \in Seq(Any)
    BY <1>4, RowsGrow
  <2>3. format = Flatten(Texts) /\ args = Flatten(Lists)
    BY DEF format, args, Texts, Lists
  <2>4. Len(format) \in Nat /\ Len(args) \in Nat
    BY <2>1, <2>2, <2>3
  <2> QED BY <2>4
<1>12. CASE N = 0
  <2>1. N + 1 = 1
    BY <1>12
  <2> QED BY <1>9, <1>10, <1>11, <2>1 DEF InText, Behind
<1>13. CASE N # 0
  <2>1. 1 \in 1 .. N
    BY <1>1, <1>13
  <2>2. PICK d : d = items[1]
    OBVIOUS
  <2>3. Len(d.before) \in Nat /\ Len(Written(d)) \in Nat
    BY <1>1, <2>1, <2>2, EndsAre
  <2>4. SubSeq(d.before, 1, 0) = <<>>
    <3>1. d.before \in Seq(Char \ {"%", NUL})
      BY <1>1, <2>1, <2>2 DEF WellFormed
    <3> QED BY <3>1, AllOf
  <2>5. 0 \in 0 .. Len(d.before) /\ 0 \in 0 .. Len(Written(d))
    BY <2>3
  <2>6. InBefore(1, 0)
    BY <1>9, <1>10, <2>2, <2>4, <2>5 DEF InBefore
  <2> QED BY <1>11, <2>1, <2>2, <2>5, <2>6 DEF InText
<1> QED BY <1>12, <1>13

\* The invariant holds initially.
LEMMA ParsingInit == Init => Parsing
<1> SUFFICES ASSUME Init PROVE Parsing
  OBVIOUS
<1>1. n \in Int
  BY PrintfAssumption DEF Init
<1>2. <<>> \in Seq(Char)
  OBVIOUS
<1> QED BY <1>1, <1>2 DEF Init, Parsing

\* vsnprintf calls vprintfmt or returns.
LEMMA VsnprintfKeeps == Parsing /\ Vsnprintf => Parsing'
<1> SUFFICES ASSUME Parsing, Vsnprintf PROVE Parsing'
  OBVIOUS
<1>1. /\ items \in Formats /\ n \in Int /\ put \in Seq(Char) /\ out \in Seq(Char)
      /\ padc \in {" ", "-", "0"} /\ lflag \in Nat
      /\ fmt = 1 /\ ap = 1 /\ put = <<>> /\ out = <<>> /\ cnt = 0
  BY DEF Parsing, Vsnprintf
<1>2. /\ UNCHANGED <<items, n, fmt, ap, padc, lflag, out, cnt, put>>
      /\ buf' = buf /\ IF Buffer THEN pc' = "text" ELSE pc' = "done"
  BY DEF Vsnprintf, flags, sprintbuf
<1>3. InText /\ fmt \in 1 .. Len(format) + 1 /\ ap \in 1 .. Len(args) + 1
  BY <1>1, StartsThere
<1>4. InText'
  BY <1>2, <1>3, TextStays
<1>5. format' = format /\ args' = args
  BY <1>2, Same
<1>6. /\ items' \in Formats /\ n' \in Int /\ put' \in Seq(Char) /\ out' \in Seq(Char)
      /\ padc' \in {" ", "-", "0"} /\ lflag' \in Nat /\ out' = <<>> /\ cnt' = 0
      /\ fmt' \in 1 .. Len(format') + 1 /\ ap' \in 1 .. Len(args') + 1
  BY <1>1, <1>2, <1>3, <1>5
<1>7. CASE ~Buffer
  <2>1. ~Buffer'
    BY <1>2, <1>7 DEF Buffer
  <2>2. pc' = "done"
    BY <1>2, <1>7
  <2> QED BY <1>6, <2>1, <2>2 DEF Parsing
<1>8. CASE Buffer
  <2>1. n' >= 1 /\ pc' = "text"
    BY <1>2, <1>8 DEF Buffer
  <2> QED BY <1>4, <1>6, <2>1 DEF Parsing
<1> QED BY <1>7, <1>8

\* Text, the end of the format and a '%'.
LEMMA TextualKeeps == Parsing /\ (Text \/ End \/ Percent) => Parsing'
<1> SUFFICES ASSUME Parsing, Text \/ End \/ Percent PROVE Parsing'
  OBVIOUS
<1>1. /\ items \in Formats /\ n \in Int /\ put \in Seq(Char) /\ out \in Seq(Char)
      /\ padc \in {" ", "-", "0"} /\ lflag \in Nat /\ pc = "text" /\ out = <<>> /\ n >= 1
      /\ InText
  BY DEF Parsing, Text, End, Percent, Ready
<1>2. CASE Text
  <2>1. InText' /\ out' \in Seq(Char)
    BY <1>1, <1>2, TextKeeps
  <2>2. UNCHANGED <<items, n, put, padc, lflag, pc>>
    BY <1>2 DEF Text, flags
  <2> QED BY <1>1, <2>1, <2>2 DEF Parsing
<1>3. CASE End
  <2>1. ch = NUL /\ pc' = "done" /\ UNCHANGED <<items, n, fmt, ap, put, out, padc, lflag>>
    BY <1>3 DEF End, flags
  <2>2. Behind
    BY <1>1, <2>1, EndBehind
  <2>3. fmt \in 1 .. Len(format) + 1 /\ ap \in 1 .. Len(args) + 1
    BY <1>1, <2>2, EndsThere DEF Behind
  <2>4. Behind'
    BY <2>1, <2>2, TextStays
  <2>5. format' = format /\ args' = args
    BY <2>1, Same
  <2> QED BY <1>1, <2>1, <2>3, <2>4, <2>5 DEF Parsing
<1>4. CASE Percent
  <2>1. InDirective'
    BY <1>1, <1>4, PercentKeeps
  <2>2. /\ UNCHANGED <<items, n, put, out>> /\ pc' = "switch" /\ padc' = " " /\ lflag' = 0
    BY <1>4 DEF Percent
  <2> QED BY <1>1, <2>1, <2>2 DEF Parsing
<1> QED BY <1>2, <1>3, <1>4

\* In a directive there is an item, and a place in it.
LEMMA InIs ==
  ASSUME items \in Formats, InDirective
  PROVE  \E k, d, j : In(k, d, j)
<1>1. PICK k \in 1 .. N : /\ Promised(k, items[k].before)
                          /\ \E j \in 0 .. Len(Written(items[k])) : Phase(k, items[k], j)
  BY DEF InDirective
<1>2. PICK d : d = items[k]
  OBVIOUS
<1>3. PICK j \in 0 .. Len(Written(d)) : Phase(k, d, j)
  BY <1>1, <1>2
<1>4. In(k, d, j)
  BY <1>1, <1>2, <1>3 DEF In, InDirective
<1> QED BY <1>4

\* The cases of the switch and the digits of a number.
LEMMA DirectiveKeeps ==
  Parsing /\ (Flag \/ FirstDigit \/ NextDigit \/ Asterisk) => Parsing'
<1> SUFFICES ASSUME Parsing, Flag \/ FirstDigit \/ NextDigit \/ Asterisk PROVE Parsing'
  OBVIOUS
<1>1. /\ items \in Formats /\ n \in Int /\ put \in Seq(Char) /\ out \in Seq(Char)
      /\ padc \in {" ", "-", "0"} /\ lflag \in Nat /\ n >= 1
      /\ InDirective
  BY DEF Parsing, Flag, FirstDigit, NextDigit, Asterisk, Ready
<1>2. /\ UNCHANGED <<items, n, put, out>>
      /\ pc' \in {"switch", "digits"} /\ padc' \in {" ", "-", "0"} /\ lflag' \in Nat
  <2>1. CASE Flag
    <3>1. UNCHANGED <<items, n, put, out>> /\ pc' = "switch"
      BY <2>1 DEF Flag, Ready, sprintbuf
    <3>2. padc' \in {" ", "-", "0"}
      <4>1. padc' = padc \/ padc' \in {"-", "0"}
        BY <2>1 DEF Flag
      <4> QED BY <1>1, <4>1
    <3>3. lflag' \in Nat
      <4>1. lflag' = lflag \/ lflag' = lflag + 1
        BY <2>1 DEF Flag
      <4>2. lflag \in Nat
        BY <1>1
      <4> QED BY <4>1, <4>2
    <3> QED BY <3>1, <3>2, <3>3
  <2>2. CASE FirstDigit
    BY <1>1, <2>2 DEF FirstDigit
  <2>3. CASE NextDigit
    BY <1>1, <2>3 DEF NextDigit, Ready
  <2>4. CASE Asterisk
    BY <1>1, <2>4 DEF Asterisk, Ready
  <2> QED BY <2>1, <2>2, <2>3, <2>4
<1>3. PICK k, d, j : In(k, d, j)
  BY <1>1, InIs
<1>4. InDirective'
  <2>1. CASE Flag
    BY <1>3, <2>1, FlagKeeps
  <2>2. CASE FirstDigit
    BY <1>3, <2>2, FirstDigitKeeps
  <2>3. CASE NextDigit
    BY <1>3, <2>3, NextDigitKeeps
  <2>4. CASE Asterisk
    BY <1>3, <2>4, AsteriskKeeps
  <2> QED BY <2>1, <2>2, <2>3, <2>4
<1> QED BY <1>1, <1>2, <1>4 DEF Parsing

\* The cases that end a directive.
LEMMA ConversionKeeps ==
  Parsing /\ (ConvertArg \/ ConvertPlain \/ Unrecognized) => Parsing'
<1> SUFFICES ASSUME Parsing, ConvertArg \/ ConvertPlain \/ Unrecognized PROVE Parsing'
  OBVIOUS
<1>1. /\ items \in Formats /\ n \in Int /\ put \in Seq(Char) /\ out \in Seq(Char)
      /\ padc \in {" ", "-", "0"} /\ lflag \in Nat /\ n >= 1
      /\ InDirective
  BY DEF Parsing, ConvertArg, ConvertPlain, Unrecognized, Ready
<1>2. UNCHANGED <<items, n, put, padc, lflag>> /\ pc' = "text"
  BY DEF ConvertArg, ConvertPlain, Unrecognized, Convert, flags
<1>3. PICK k, d, j : In(k, d, j)
  BY <1>1, InIs
<1>4. padc \in Char
  BY <1>1, Chars
<1>5. InText' /\ out' \in Seq(Char)
  <2>1. CASE ConvertArg \/ ConvertPlain
    BY <1>1, <1>3, <1>4, <2>1, ConvertKeeps
  <2>2. CASE Unrecognized
    BY <1>1, <1>3, <2>2, UnrecognizedKeeps
  <2> QED BY <2>1, <2>2
<1> QED BY <1>1, <1>2, <1>5 DEF Parsing

\* A character that is put was about to be.
Moves(S, s, t) ==
  t # <<>> =>
    /\ Append(s, Head(t)) \in Seq(S) /\ Tail(t) \in Seq(S)
    /\ Append(s, Head(t)) \o Tail(t) = s \o t

\* Putting a character leaves the whole as it is.
LEMMA OneMoves ==
  ASSUME NEW S, NEW s \in Seq(S), NEW t \in Seq(S)
  PROVE  Moves(S, s, t)
BY DEF Moves

\* sprintputch.
LEMMA SprintputchKeeps == Parsing /\ Sprintputch => Parsing'
<1> SUFFICES ASSUME Parsing, Sprintputch PROVE Parsing'
  OBVIOUS
<1>1. out # <<>> /\ out' = Tail(out) /\ put' = Append(put, Head(out))
      /\ UNCHANGED <<items, n, fmt, ap, pc, padc, lflag>>
  BY DEF Sprintputch, flags
<1>2. /\ items \in Formats /\ n \in Int /\ put \in Seq(Char) /\ out \in Seq(Char)
      /\ padc \in {" ", "-", "0"} /\ lflag \in Nat /\ n >= 1
      /\ pc = "text" /\ InText
  BY <1>1 DEF Parsing, InDirective
<1>3. put' \in Seq(Char) /\ out' \in Seq(Char) /\ put' \o out' = put \o out
  <2>1. Moves(Char, put, out)
    BY <1>2, OneMoves
  <2> QED BY <1>1, <2>1 DEF Moves
<1>4. InText'
  BY <1>1, <1>2, <1>3, TextStays
<1> QED BY <1>1, <1>2, <1>3, <1>4 DEF Parsing

\* Nothing happens.
LEMMA NothingKeeps == Parsing /\ UNCHANGED vars => Parsing'
<1> SUFFICES ASSUME Parsing, UNCHANGED vars PROVE Parsing'
  OBVIOUS
<1>1. UNCHANGED <<items, n, fmt, ap, pc, padc, width, precision, lflag, altflag, out, buf,
                  cnt, put>>
  BY DEF vars, flags, sprintbuf
<1>2. /\ Texts' = Texts /\ Lists' = Lists /\ Senses' = Senses /\ N' = N
      /\ AllSupported' = AllSupported /\ format' = format /\ args' = args
  BY <1>1, Same
<1>3. (InText => InText') /\ (Behind => Behind')
  BY <1>1, TextStays
<1>4. ASSUME NEW k, NEW s, Promised(k, s) PROVE Promised(k, s)'
  BY <1>1, <1>4, PromiseStays
<1>5. ASSUME NEW k, NEW d, NEW j, Phase(k, d, j) PROVE Phase(k, d, j)'
  <2>1. ASSUME NEW t, NEW i, At(k, i, t) PROVE At(k, i, t)'
    BY <1>1, <1>2, <2>1 DEF At
  <2>2. ASSUME NEW m, FlagsRead(d, m) PROVE FlagsRead(d, m)'
    BY <1>1, <2>2, FlagsStay
  <2>3. WidthRead(d) => WidthRead(d)'
    BY <1>1 DEF WidthRead
  <2>4. ReadingFlags(k, d, j) => ReadingFlags(k, d, j)'
    BY <1>1, <2>1, <2>2 DEF ReadingFlags
  <2>5. ReadingWidth(k, d, j) => ReadingWidth(k, d, j)'
    BY <1>1, <2>1, <2>2 DEF ReadingWidth
  <2>6. AfterWidth(k, d, j) => AfterWidth(k, d, j)'
    BY <1>1, <2>1, <2>2 DEF AfterWidth
  <2>7. AfterPoint(k, d, j) => AfterPoint(k, d, j)'
    BY <1>1, <2>1, <2>2, <2>3 DEF AfterPoint
  <2>8. ReadingPrecision(k, d, j) => ReadingPrecision(k, d, j)'
    BY <1>1, <2>1, <2>2, <2>3 DEF ReadingPrecision
  <2>9. ReadingLongs(k, d, j) => ReadingLongs(k, d, j)'
    BY <1>1, <2>1, <2>2, <2>3 DEF ReadingLongs
  <2> QED BY <1>5, <2>4, <2>5, <2>6, <2>7, <2>8, <2>9 DEF Phase
<1>6. InDirective => InDirective'
  <2> SUFFICES ASSUME InDirective PROVE InDirective'
    OBVIOUS
  <2>1. items \in Formats
    BY DEF Parsing
  <2>2. PICK k, d, j : In(k, d, j)
    BY <2>1, InIs
  <2>3. /\ k \in 1 .. N /\ d = items[k] /\ j \in 0 .. Len(Written(d))
        /\ Phase(k, d, j) /\ Promised(k, d.before) /\ out = <<>>
    BY <2>2 DEF In
  <2>4. Phase(k, d, j)' /\ Promised(k, d.before)' /\ out' = <<>>
    BY <1>1, <1>4, <1>5, <2>3
  <2> QED BY <1>1, <2>1, <2>3, <2>4, StaysIn
<1>7. Buffer' = Buffer
  BY <1>1 DEF Buffer
<1> QED BY <1>1, <1>2, <1>3, <1>6, <1>7 DEF Parsing

\* Every step keeps the invariant.
LEMMA ParsingNext == Parsing /\ [Next]_vars => Parsing'
<1> SUFFICES ASSUME Parsing, [Next]_vars PROVE Parsing'
  OBVIOUS
<1>1. CASE Vsnprintf
  BY <1>1, VsnprintfKeeps
<1>2. CASE Text \/ End \/ Percent
  BY <1>2, TextualKeeps
<1>3. CASE Flag \/ FirstDigit \/ NextDigit \/ Asterisk
  BY <1>3, DirectiveKeeps
<1>4. CASE ConvertArg \/ ConvertPlain \/ Unrecognized
  BY <1>4, ConversionKeeps
<1>5. CASE Sprintputch
  BY <1>5, SprintputchKeeps
<1>6. CASE Done \/ UNCHANGED vars
  BY <1>6, NothingKeeps DEF Done
<1> QED BY <1>1, <1>2, <1>3, <1>4, <1>5, <1>6 DEF Next

\* The places of the invariant are inside the format and the arguments.
LEMMA PlacesInside ==
  ASSUME items \in Formats, InText \/ InDirective
  PROVE  fmt \in 1 .. Len(format) + 1 /\ ap \in 1 .. Len(args) + 1
<1>1. ASSUME NEW k \in 1 .. N, NEW d, d = items[k], NEW j \in 0 .. Len(Written(d)),
             NEW t \in {0, WidthStar(d), Stars(d)}, At(k, j, t)
      PROVE  fmt \in 1 .. Len(format) + 1 /\ ap \in 1 .. Len(args) + 1
  <2>1. WellFormed(d)
    BY <1>1, FormatIs
  <2>2. /\ WidthStar(d) \in Nat /\ Stars(d) \in Nat /\ WidthStar(d) <= Stars(d)
        /\ Len(Arguments(d)) = Stars(d) + (IF d.conv \in Taking THEN 1 ELSE 0)
        /\ Len(Written(d)) \in Nat
    BY <2>1, EndsAre, StarsAre
  <2>3. j \in Nat /\ t \in Nat /\ j <= Len(Written(d)) /\ t <= Len(Arguments(d))
    BY <2>2
  <2> QED BY <1>1, <2>3, Reads
<1>2. ASSUME NEW k \in 1 .. N, NEW d, d = items[k], NEW j, InBefore(k, j)
      PROVE  fmt \in 1 .. Len(format) + 1 /\ ap \in 1 .. Len(args) + 1
  <2>1. /\ j \in Nat /\ j < Len(Written(d))
    BY <1>2, BeforeReads
  <2>2. j \in 0 .. Len(Written(d)) /\ At(k, j, 0)
    BY <1>2, <2>1, EndsAre, FormatIs DEF InBefore
  <2> QED BY <1>1, <1>2, <2>2
<1>3. ASSUME NEW k \in 1 .. N, NEW d, d = items[k], NEW j, InLiteral(k, j)
      PROVE  fmt \in 1 .. Len(format) + 1 /\ ap \in 1 .. Len(args) + 1
  <2>1. /\ j \in Nat /\ j < Len(Written(d))
    BY <1>3, LiteralReads
  <2>2. j \in 0 .. Len(Written(d)) /\ At(k, j, Stars(d))
    BY <1>3, <2>1, EndsAre, FormatIs DEF InLiteral
  <2> QED BY <1>1, <1>3, <2>2
<1>4. CASE InText
  <2>1. CASE Behind
    BY <2>1, EndsThere DEF Behind
  <2> QED BY <1>2, <1>3, <1>4, <2>1, TextIs
<1>5. CASE InDirective
  <2>1. PICK k, d, j : In(k, d, j)
    BY <1>5, InIs
  <2>2. /\ k \in 1 .. N /\ d = items[k] /\ j \in 0 .. Len(Written(d)) /\ Phase(k, d, j)
    BY <2>1 DEF In
  <2>3. PICK t \in {0, WidthStar(d), Stars(d)} : At(k, j, t)
    BY <2>2 DEF Phase, ReadingFlags, ReadingWidth, AfterWidth, AfterPoint, ReadingPrecision,
      ReadingLongs
  <2> QED BY <1>1, <2>2, <2>3
<1> QED BY <1>4, <1>5

\* The invariants give the types.
LEMMA ParsingTypes == IInv /\ Parsing => TypeOK
<1> SUFFICES ASSUME IInv, Parsing PROVE TypeOK
  OBVIOUS
<1>1. /\ items \in Formats /\ n \in Int /\ lflag \in Nat
      /\ pc \in {"start", "text", "switch", "digits", "done"}
      /\ pc \in {"text", "switch", "digits"} => n >= 1
  BY DEF Parsing
<1>2. Buffer => b = IF cnt < n THEN cnt ELSE n - 1
  BY DEF IInv, Stored
<1>3. pc \in {"text", "switch", "digits"} => b \in 0 .. n - 1
  <2>1. pc \in {"text", "switch", "digits"} => Buffer
    BY DEF IInv
  <2>2. cnt \in Nat
    BY DEF IInv
  <2> QED BY <1>1, <1>2, <2>1, <2>2
<1>4. cnt \in Nat
  BY DEF IInv
<1>5. fmt \in 1 .. Len(format) + 1 /\ ap \in 1 .. Len(args) + 1
  <2>1. CASE pc = "start"
    BY <1>1, <2>1, StartsThere DEF Parsing
  <2>2. CASE pc = "done"
    BY <2>2 DEF Parsing
  <2>3. CASE pc \in {"text", "switch", "digits"}
    <3>1. InText \/ InDirective
      BY <2>3 DEF Parsing
    <3> QED BY <1>1, <3>1, PlacesInside
  <2> QED BY <1>1, <2>1, <2>2, <2>3
<1> QED BY <1>1, <1>3, <1>4, <1>5 DEF TypeOK

\* The invariant says what is put.
LEMMA ParsingWritten == Parsing => PrintsAsWritten
<1> SUFFICES ASSUME Parsing, pc = "done", Buffer, \A k \in DOMAIN items : Supported(items[k])
             PROVE  put = Flatten([k \in DOMAIN items |-> Meaning(items[k])])
  BY DEF PrintsAsWritten
<1>1. items \in Formats /\ put \in Seq(Char) /\ out = <<>> /\ Behind
  BY DEF Parsing
<1>2. AllSupported
  BY DEF AllSupported
<1>3. put \o <<>> = Prefixes(Senses)[(N + 1) - 1] \o <<>>
  BY <1>1, <1>2 DEF Behind, Promised
<1>4. N \in Nat
  BY <1>1, FormatIs
<1>5. (N + 1) - 1 = N
  BY <1>4
<1>6. Len(Senses) = N /\ \A i \in 1 .. N : Senses[i] \in Seq(Char)
  BY <1>1, RowsAre
<1>7. Prefixes(Senses)[N] = Flatten(Senses)
  BY <1>6 DEF Flatten
<1>8. Flatten(Senses) \in Seq(Char)
  <2>1. /\ Len(Senses) \in Nat /\ 0 \in 0 .. Len(Senses)
        /\ \A i \in 1 .. Len(Senses) : Senses[i] \in Seq(Char)
    BY <1>4, <1>6
  <2> QED BY <2>1, RowsGrow
<1>9. put \o <<>> = put /\ Flatten(Senses) \o <<>> = Flatten(Senses)
  BY <1>1, <1>8, Associates
<1>10. put = Flatten(Senses)
  BY <1>3, <1>5, <1>7, <1>9
<1> QED BY <1>10 DEF Senses

\* The types hold in every state: no character of the format behind its end and
\* no argument that was not passed is read, and the stores stay in the buffer.
THEOREM TypeCorrect == Spec => []TypeOK
BY InitInv, NextInv, ParsingInit, ParsingNext, ParsingTypes, PTL DEF Spec

\* vprintfmt puts what the directives mean: of every format of well-formed items,
\* with every argument, for every size of the buffer.
THEOREM MeansWhatIsWritten == Spec => []PrintsAsWritten
BY ParsingInit, ParsingNext, ParsingWritten, PTL DEF Spec
=============================================================================
