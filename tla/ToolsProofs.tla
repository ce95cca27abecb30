----------------------------- MODULE ToolsProofs -----------------------------
(***************************************************************************)
(* Theorems about the programs around the kernel.                          *)
(*                                                                         *)
(* The grader, for any tests, any kernel and any number of graders one     *)
(* after another: the score is the worth of the tests that passed, what    *)
(* passes was shown by the kernel, what fails although it was shown was    *)
(* cut short, status 0 is a full score, and no emulator the grader was     *)
(* attached to is left behind.                                             *)
(*                                                                         *)
(* make and mergedep.pl, for any number of objects and headers: with a     *)
(* disk that holds what is written and a make that is not interrupted, no  *)
(* kill loses a dependency, and make never takes a stale object to be      *)
(* current.                                                                *)
(***************************************************************************)
EXTENDS Grader, MergeDep, FiniteSetTheorems, WellFoundedInduction, TLAPS

-----------------------------------------------------------------------------
(* The tests and their points                                              *)

\* The tests are registered once, children behind their parent.
LEMMA Registered ==
  /\ TESTS \in Seq(Tests) /\ Len(TESTS) \in Nat /\ DOMAIN TESTS = 1 .. Len(TESTS)
  /\ \A n \in 1 .. Len(TESTS) : TESTS[n] \in Tests
  /\ \A t \in Tests : \E n \in 1 .. Len(TESTS) : TESTS[n] = t
  /\ \A m, n \in 1 .. Len(TESTS) : TESTS[m] = TESTS[n] => m = n
  /\ RunsQemu \subseteq Tests /\ Make \notin Lines
  /\ Tests \ RunsQemu \subseteq Lines /\ StopLines \subseteq Lines
  /\ \A t \in Tests : Points[t] \in Nat
<1>1. TESTS \in Seq(Tests) /\ IsInjective(TESTS) /\ RunsQemu \subseteq Tests
      /\ Points \in [Tests -> Nat] /\ Make \notin Lines
  BY GraderAssumption
<1>2. Len(TESTS) \in Nat /\ DOMAIN TESTS = 1 .. Len(TESTS)
  BY <1>1
<1>3. \A t \in Tests : \E n \in 1 .. Len(TESTS) : TESTS[n] = t
  BY <1>2 DEF Tests, Range
<1>4. \A m, n \in 1 .. Len(TESTS) : TESTS[m] = TESTS[n] => m = n
  BY <1>1, <1>2 DEF IsInjective
<1> QED BY <1>1, <1>2, <1>3, <1>4 DEF Lines

\* The parent of a test runs QEMU, and no other test runs it in between.
LEMMA Parents ==
  ASSUME NEW k \in 1 .. Len(TESTS)
  PROVE  /\ TESTS[k] \in RunsQemu <=> Parent[TESTS[k]] = NoTest
         /\ TESTS[k] \notin RunsQemu =>
              /\ Parent[TESTS[k]] \in RunsQemu /\ Parent[TESTS[k]] \in Tests
              /\ \E j \in 1 .. k - 1 : /\ TESTS[j] = Parent[TESTS[k]]
                                       /\ \A n \in j + 1 .. k : TESTS[n] \notin RunsQemu
<1>1. DOMAIN TESTS = 1 .. Len(TESTS) /\ TESTS[k] \in Tests /\ RunsQemu \subseteq Tests
  BY Registered
<1>2. TESTS[k] \in RunsQemu <=> Parent[TESTS[k]] = NoTest
  BY <1>1, GraderAssumption
<1>3. Parent[TESTS[k]] \in RunsQemu \cup {NoTest}
  BY <1>1, GraderAssumption
<1>4. TESTS[k] \notin RunsQemu =>
        \E j \in 1 .. k - 1 : /\ TESTS[j] = Parent[TESTS[k]]
                              /\ \A n \in j + 1 .. k : TESTS[n] \notin RunsQemu
  BY <1>1, GraderAssumption
<1> QED BY <1>1, <1>2, <1>3, <1>4

\* Emulators are numbers, and the numbers for none are not among them.
LEMMA Numbered == Emulators \subseteq Nat /\ None \notin Emulators /\ Closed \notin Emulators
                  /\ 0 \notin Emulators /\ None # Closed
<1>1. IsFiniteSet(1 .. Len(TESTS))
  BY Registered, FS_Interval
<1>2. TESTS \in Surjection(1 .. Len(TESTS), Tests)
  BY Registered DEF Surjection
<1>3. IsFiniteSet(Tests)
  BY <1>1, <1>2, FS_Surjection
<1>4. Cardinality(RunsQemu) \in Nat
  BY <1>3, Registered, FS_Subset, FS_CardinalityType
<1>5. MaxGrades * Cardinality(RunsQemu) \in Nat
  BY <1>4, GraderAssumption
<1>6. Emulators = 1 .. MaxGrades * Cardinality(RunsQemu)
  BY GraderAssumption
<1> QED BY <1>5, <1>6 DEF None, Closed

\* A set of naturals that is not empty has a least member.
LEMMA LeastMember ==
  ASSUME NEW T, T \subseteq Nat, T # {}
  PROVE  \E k \in T : \A i \in T : ~(i < k)
<1> DEFINE Less == OpToRel(<, Nat)
<1>1. IsWellFoundedOn(Less, Nat)
  BY NatLessThanWellFounded
<1>2. \A i, k \in Nat : <<i, k>> \in Less <=> i < k
  BY DEF OpToRel
<1> HIDE DEF Less
<1>3. \E k \in T : \A i \in T : ~(<<i, k>> \in Less)
  BY <1>1, WFMin
<1> QED BY <1>2, <1>3

\* The sums of the first so many members of a sequence of numbers exist.
LEMMA SumsExist ==
  ASSUME NEW n \in Nat, NEW x \in [1 .. n -> Nat]
  PROVE  \E f : f = [k \in 0 .. n |-> IF k = 0 THEN 0 ELSE f[k - 1] + x[k]]
<1> DEFINE Run(f, k) == /\ f \in [0 .. k -> Nat] /\ f[0] = 0
                        /\ \A i \in 1 .. k : f[i] = f[i - 1] + x[i]
           T == {k \in 0 .. n : ~\E f : Run(f, k)}
<1>1. \E f : Run(f, n)
  <2>1. SUFFICES ASSUME T # {} PROVE FALSE
    <3>1. n \in 0 .. n
      OBVIOUS
    <3> HIDE DEF Run
    <3> QED BY <3>1
  <2>2. PICK k \in T : \A i \in T : ~(i < k)
    <3>1. T \subseteq Nat
      OBVIOUS
    <3> HIDE DEF T
    <3> QED BY <2>1, <3>1, LeastMember
  <2>3. k \in 0 .. n /\ ~\E f : Run(f, k)
    OBVIOUS
  <2>4. CASE k = 0
    <3>1. Run([i \in 0 .. 0 |-> 0], 0)
      OBVIOUS
    <3> QED BY <2>3, <2>4, <3>1
  <2>5. CASE k # 0
    <3>1. k - 1 \in 0 .. n /\ k - 1 < k /\ k \in 1 .. n
      BY <2>3, <2>5
    <3>2. k - 1 \notin T
      BY <2>2, <3>1
    <3>3. PICK f : Run(f, k - 1)
      BY <3>1, <3>2
    <3> DEFINE g == [i \in 0 .. k |-> IF i = k THEN f[k - 1] + x[k] ELSE f[i]]
    <3>4. f[k - 1] \in Nat /\ x[k] \in Nat
      BY <3>1, <3>3
    <3>5. \A i \in 0 .. k : i # k => i \in 0 .. k - 1
      BY <2>3
    <3>6. g \in [0 .. k -> Nat] /\ g[0] = 0
      BY <2>3, <2>5, <3>3, <3>4, <3>5
    <3>7. ASSUME NEW i \in 1 .. k
          PROVE  g[i] = g[i - 1] + x[i]
      <4>1. i \in 0 .. k /\ i - 1 \in 0 .. k /\ i - 1 # k /\ (i # k => i \in 1 .. k - 1)
        BY <2>3
      <4>2. g[i - 1] = f[i - 1]
        BY <4>1
      <4>3. CASE i = k
        BY <4>1, <4>2, <4>3
      <4>4. CASE i # k
        <5>1. f[i] = f[i - 1] + x[i]
          BY <3>3, <4>1, <4>4
        <5> QED BY <4>1, <4>2, <4>4, <5>1
      <4> QED BY <4>3, <4>4
    <3> HIDE DEF g
    <3> QED BY <2>3, <3>6, <3>7
  <2> QED BY <2>4, <2>5
<1>2. PICK f : Run(f, n)
  BY <1>1
<1>3. f = [k \in 0 .. n |-> IF k = 0 THEN 0 ELSE f[k - 1] + x[k]]
  <2>1. ASSUME NEW k \in 0 .. n
        PROVE  f[k] = IF k = 0 THEN 0 ELSE f[k - 1] + x[k]
    <3>1. k # 0 => k \in 1 .. n
      OBVIOUS
    <3> QED BY <1>2, <3>1
  <2>2. f = [k \in 0 .. n |-> f[k]]
    BY <1>2
  <2> QED BY <2>1, <2>2
<1> QED BY <1>3

\* A set of tests is worth the points of its tests, one after the other.
LEMMA EarnedAre ==
  ASSUME NEW S
  PROVE  /\ Earned(S)[0] = 0
         /\ \A k \in 1 .. Len(TESTS) :
              Earned(S)[k] =
                Earned(S)[k - 1] + (IF TESTS[k] \in S THEN Points[TESTS[k]] ELSE 0)
<1> DEFINE n == Len(TESTS)
           x == [k \in 1 .. n |-> IF TESTS[k] \in S THEN Points[TESTS[k]] ELSE 0]
<1>1. n \in Nat /\ x \in [1 .. n -> Nat]
  BY Registered
<1>2. \A k \in 1 .. n : x[k] = IF TESTS[k] \in S THEN Points[TESTS[k]] ELSE 0
  OBVIOUS
<1> HIDE DEF n, x
<1>3. PICK f : f = [k \in 0 .. n |-> IF k = 0 THEN 0 ELSE f[k - 1] + x[k]]
  BY <1>1, SumsExist
<1>4. f = [k \in 0 .. n |->
             IF k = 0 THEN 0
             ELSE f[k - 1] + (IF TESTS[k] \in S THEN Points[TESTS[k]] ELSE 0)]
  <2>1. \A k \in 0 .. n : k # 0 => k \in 1 .. n
    BY <1>1
  <2> QED BY <1>2, <1>3, <2>1
<1> DEFINE p == Earned(S)
<1>5. p = [k \in 0 .. n |->
             IF k = 0 THEN 0
             ELSE p[k - 1] + (IF TESTS[k] \in S THEN Points[TESTS[k]] ELSE 0)]
  BY <1>4 DEF Earned, n
<1> HIDE DEF p
<1>6. \A k \in 0 .. n :
        p[k] = IF k = 0 THEN 0
               ELSE p[k - 1] + (IF TESTS[k] \in S THEN Points[TESTS[k]] ELSE 0)
  BY <1>5
<1>7. \A k \in 1 .. n : k \in 0 .. n /\ k # 0
  BY <1>1
<1>8. 0 \in 0 .. n
  BY <1>1
<1> QED BY <1>6, <1>7, <1>8 DEF p, n

\* What holds of 0 and with a number of the next one holds of all.
LEMMA Climbs ==
  ASSUME NEW n \in Nat, NEW T, 0 \in T, \A k \in 1 .. n : k - 1 \in T => k \in T
  PROVE  \A k \in 0 .. n : k \in T
<1> DEFINE R == {k \in 0 .. n : k \notin T}
<1> SUFFICES ASSUME R # {} PROVE FALSE
  OBVIOUS
<1>1. R \subseteq Nat
  OBVIOUS
<1>2. PICK k \in R : \A i \in R : ~(i < k)
  <2> HIDE DEF R
  <2> QED BY <1>1, LeastMember
<1>3. k \in 0 .. n /\ k \notin T /\ k # 0
  OBVIOUS
<1>4. k \in 1 .. n /\ k - 1 \in 0 .. n /\ k - 1 < k
  BY <1>3
<1>5. k - 1 \in T
  BY <1>2, <1>4
<1> QED BY <1>3, <1>4, <1>5

\* A set of tests is worth a number of points.
LEMMA WorthType ==
  ASSUME NEW S
  PROVE  /\ \A k \in 0 .. Len(TESTS) : Earned(S)[k] \in Nat
         /\ Worth(S) \in Nat
<1> DEFINE n == Len(TESTS)
           p == Earned(S)
           T == {k \in 0 .. n : p[k] \in Nat}
<1>1. n \in Nat /\ \A k \in 1 .. n : TESTS[k] \in Tests /\ Points[TESTS[k]] \in Nat
  BY Registered
<1>2. p[0] = 0 /\ \A k \in 1 .. n :
                    p[k] = p[k - 1] + (IF TESTS[k] \in S THEN Points[TESTS[k]] ELSE 0)
  BY EarnedAre
<1> HIDE DEF p, n
<1>3. 0 \in T /\ \A k \in 1 .. n : k - 1 \in T => k \in T
  BY <1>1, <1>2
<1> HIDE DEF T
<1>4. \A k \in 0 .. n : k \in T
  BY <1>1, <1>3, Climbs
<1>5. \A k \in 0 .. n : p[k] \in Nat
  BY <1>4 DEF T
<1>6. n \in 0 .. n
  BY <1>1
<1> QED BY <1>5, <1>6 DEF p, n, Worth

\* No test is worth nothing.
LEMMA WorthNone == Worth({}) = 0
<1> DEFINE n == Len(TESTS)
           p == Earned({})
           T == {k \in 0 .. n : p[k] = 0}
<1>1. n \in Nat
  BY Registered
<1>2. p[0] = 0 /\ \A k \in 1 .. n :
                    p[k] = p[k - 1] + (IF TESTS[k] \in {} THEN Points[TESTS[k]] ELSE 0)
  BY EarnedAre
<1> HIDE DEF p, n
<1>3. 0 \in T /\ \A k \in 1 .. n : k - 1 \in T => k \in T
  BY <1>1, <1>2
<1> HIDE DEF T
<1>4. \A k \in 0 .. n : k \in T
  BY <1>1, <1>3, Climbs
<1>5. n \in 0 .. n
  BY <1>1
<1> QED BY <1>4, <1>5 DEF T, p, n, Worth

\* One more test adds its points, once.
LEMMA WorthMore ==
  ASSUME NEW S, NEW t \in Tests \ S
  PROVE  Worth(S \cup {t}) = Worth(S) + Points[t]
<1> DEFINE n == Len(TESTS)
           p == Earned(S)
           q == Earned(S \cup {t})
<1>1. /\ n \in Nat /\ \A k \in 1 .. n : TESTS[k] \in Tests
      /\ \A k \in 1 .. n : Points[TESTS[k]] \in Nat
      /\ \A i, k \in 1 .. n : TESTS[i] = TESTS[k] => i = k
  BY Registered
<1>2. PICK j \in 1 .. n : TESTS[j] = t
  BY Registered
<1>3. p[0] = 0 /\ \A k \in 1 .. n :
                    p[k] = p[k - 1] + (IF TESTS[k] \in S THEN Points[TESTS[k]] ELSE 0)
  BY EarnedAre
<1>4. q[0] = 0 /\ \A k \in 1 .. n :
        q[k] = q[k - 1] + (IF TESTS[k] \in S \cup {t} THEN Points[TESTS[k]] ELSE 0)
  BY EarnedAre
<1>5. \A k \in 0 .. n : p[k] \in Nat /\ q[k] \in Nat
  BY WorthType
<1> HIDE DEF p, q, n
<1> DEFINE T == {k \in 0 .. n : q[k] = p[k] + (IF j <= k THEN Points[t] ELSE 0)}
<1>6. Points[t] \in Nat
  BY <1>1, <1>2
<1>7. 0 \in T
  BY <1>1, <1>2, <1>3, <1>4
<1>8. ASSUME NEW k \in 1 .. n, k - 1 \in T
      PROVE  k \in T
  <2> DEFINE a == p[k - 1]
             b == q[k - 1]
             w == Points[TESTS[k]]
             v == Points[t]
  <2>1. a \in Nat /\ b \in Nat /\ w \in Nat /\ v \in Nat
    <3>1. k - 1 \in 0 .. n
      BY <1>1
    <3> QED BY <1>1, <1>5, <1>6, <3>1
  <2>2. b = a + (IF j <= k - 1 THEN v ELSE 0) /\ k \in 0 .. n /\ k \in Int /\ j \in Int
    BY <1>1, <1>2, <1>8
  <2>3. p[k] = a + (IF TESTS[k] \in S THEN w ELSE 0)
    BY <1>3
  <2>4. q[k] = b + (IF TESTS[k] \in S \cup {t} THEN w ELSE 0)
    BY <1>4
  <2>5. TESTS[k] = t <=> k = j
    BY <1>1, <1>2
  <2>6. CASE k = j
    <3>1. TESTS[k] = t /\ t \notin S /\ w = v
      BY <2>5, <2>6
    <3>2. p[k] = a + 0 /\ q[k] = b + v /\ b = a + 0
      <4> HIDE DEF a, b, w, v
      <4> QED BY <2>2, <2>3, <2>4, <2>6, <3>1
    <3>3. q[k] = p[k] + v
      <4> HIDE DEF a, b, w, v
      <4> QED BY <2>1, <3>2
    <3> QED BY <2>2, <2>6, <3>3
  <2>7. CASE k # j
    <3>1. TESTS[k] \in S \cup {t} <=> TESTS[k] \in S
      BY <2>5, <2>7
    <3>2. j <= k - 1 <=> j <= k
      BY <2>2, <2>7
    <3>3. q[k] = p[k] + (IF j <= k THEN v ELSE 0)
      <4> HIDE DEF a, b, w, v
      <4> QED BY <2>1, <2>2, <2>3, <2>4, <3>1, <3>2
    <3> QED BY <2>2, <3>3
  <2> QED BY <2>6, <2>7
<1>9. n \in T
  <2> HIDE DEF T
  <2>1. \A k \in 0 .. n : k \in T
    BY <1>1, <1>7, <1>8, Climbs
  <2> QED BY <1>1, <2>1
<1>10. q[n] = p[n] + Points[t]
  BY <1>1, <1>2, <1>9
<1> QED BY <1>10 DEF p, q, n, Worth

\* A part of a set of tests is worth no more, and less if a test that is worth
\* points is missing.
LEMMA WorthLess ==
  ASSUME NEW A, NEW B, A \subseteq B, NEW t \in Tests, t \in B \ A, Points[t] > 0
  PROVE  Worth(A) < Worth(B)
<1> DEFINE n == Len(TESTS)
           p == Earned(A)
           q == Earned(B)
<1>1. /\ n \in Nat
      /\ \A k \in 1 .. n : Points[TESTS[k]] \in Nat
  BY Registered
<1>2. PICK j \in 1 .. n : TESTS[j] = t
  BY Registered
<1>3. p[0] = 0 /\ \A k \in 1 .. n :
                    p[k] = p[k - 1] + (IF TESTS[k] \in A THEN Points[TESTS[k]] ELSE 0)
  BY EarnedAre
<1>4. q[0] = 0 /\ \A k \in 1 .. n :
        q[k] = q[k - 1] + (IF TESTS[k] \in B THEN Points[TESTS[k]] ELSE 0)
  BY EarnedAre
<1>5. \A k \in 0 .. n : p[k] \in Nat /\ q[k] \in Nat
  BY WorthType
<1> HIDE DEF p, q, n
<1> DEFINE T == {k \in 0 .. n : p[k] <= q[k] /\ (j <= k => p[k] < q[k])}
<1>6. 0 \in T
  BY <1>1, <1>2, <1>3, <1>4
<1>7. ASSUME NEW k \in 1 .. n, k - 1 \in T
      PROVE  k \in T
  <2> DEFINE a == p[k - 1]
             b == q[k - 1]
             w == Points[TESTS[k]]
  <2>1. a \in Nat /\ b \in Nat /\ w \in Nat
    <3>1. k - 1 \in 0 .. n
      BY <1>1
    <3> QED BY <1>1, <1>5, <3>1
  <2>2. a <= b /\ (j <= k - 1 => a < b) /\ k \in 0 .. n /\ k \in Int /\ j \in Int
    BY <1>1, <1>2, <1>7
  <2>3. p[k] = a + (IF TESTS[k] \in A THEN w ELSE 0)
    BY <1>3
  <2>4. q[k] = b + (IF TESTS[k] \in B THEN w ELSE 0)
    BY <1>4
  <2>5. TESTS[k] \in A => TESTS[k] \in B
    OBVIOUS
  <2>6. CASE k = j
    <3>1. TESTS[k] \notin A /\ TESTS[k] \in B /\ w > 0
      BY <1>2, <2>6
    <3>2. p[k] < q[k]
      <4> HIDE DEF a, b, w
      <4> QED BY <2>1, <2>2, <2>3, <2>4, <3>1
    <3> QED BY <1>5, <2>2, <3>2
  <2>7. CASE k # j
    <3>1. j <= k => j <= k - 1
      BY <2>2, <2>7
    <3>2. p[k] <= q[k] /\ (j <= k => p[k] < q[k])
      <4> HIDE DEF a, b, w
      <4> QED BY <2>1, <2>2, <2>3, <2>4, <2>5, <3>1
    <3> QED BY <2>2, <3>2
  <2> QED BY <2>6, <2>7
<1>8. n \in T
  <2> HIDE DEF T
  <2>1. \A k \in 0 .. n : k \in T
    BY <1>1, <1>6, <1>7, Climbs
  <2> QED BY <1>1, <2>1
<1>9. p[n] < q[n]
  BY <1>1, <1>2, <1>8
<1> QED BY <1>9 DEF p, q, n, Worth
-----------------------------------------------------------------------------
(* The inductive invariant                                                 *)

Line == Lines \cup {Make}
Busy == {"react", "handle", "connect", "up", "finally", "wait"}
Idle == {"shell", "exited"}
Ended == suite.passed \cup suite.failed
Current == TESTS[suite.next - 1]
Task == Head(suite.frames)

\* The records have their fields.
Suites ==
  [limit : SUBSET Tests, next : 1 .. Len(TESTS) + 1, frames : Seq(Tests),
   complete : SUBSET Tests, total : Nat, possible : Nat,
   passed : SUBSET Tests, failed : SUBSET Tests]
Runners ==
  [me : Emulators \cup {0}, phase : {"start", "run", "stop"}, proc : BOOLEAN,
   gdb : Emulators \cup {None, Closed}, expired : BOOLEAN,
   rset : SUBSET {"qemu", "gdb"}, buf : Seq(Line), output : SUBSET Line,
   raised : {"nothing", "assertion", "error", "interrupt"}]
Histories ==
  [shown : SUBSET (RunsQemu \X Lines), cut : SUBSET Tests,
   attached : SUBSET Emulators, early : SUBSET Emulators]

Shape ==
  /\ pc \in Busy \cup Idle \cup {"make", "tests", "enter", "body"}
  /\ suite \in Suites /\ r \in Runners /\ history \in Histories
  /\ exit \in {0, 1} /\ grades \in 0 .. MaxGrades /\ interrupted \in BOOLEAN
  /\ emu \in [Emulators -> {"none", "building", "listening", "running", "stopped", "gone"}]
  /\ told \subseteq Emulators /\ t05 \in BOOLEAN
  /\ pipe \in Seq(Line) /\ Len(pipe) <= PIPE

\* run_test is called for the current test, which may have called its parent.
Stack ==
  /\ pc \in {"shell", "make", "tests"} => suite.frames = <<>>
  /\ pc \notin Idle \cup {"make", "tests"} =>
       /\ suite.next > 1
       /\ \/ suite.frames = <<Current>>
          \/ Current \notin RunsQemu /\ suite.frames = <<Parent[Current], Current>>
  /\ pc \in Busy => Task \in RunsQemu

\* Tests are complete from their call on and end once.
Calls ==
  /\ Ended \subseteq suite.complete
  /\ \A t \in suite.complete : \E n \in 1 .. suite.next - 1 : TESTS[n] = t
  /\ \A t \in Ended \ RunsQemu : Parent[t] \in Ended
  /\ pc \in {"make", "tests"} => suite.complete \subseteq Ended
  /\ pc = "enter" =>
       suite.complete \ Ended = IF suite.frames = <<Current>> THEN {} ELSE {Current}
  /\ pc \in Busy \cup {"body"} => suite.complete \ Ended = Range(suite.frames)
  /\ pc = "body" /\ Task \notin RunsQemu => Parent[Task] \in Ended
  /\ pc \notin Idle => \A n \in 1 .. suite.next - 1 :
       TESTS[n] \in suite.limit =>
         TESTS[n] \in suite.complete \/ (pc = "enter" /\ suite.frames = <<TESTS[n]>>)

Score == /\ suite.total = Worth(suite.passed)
         /\ suite.possible = Worth(Ended)

\* The emulator of a run and the connections to it.
Connections ==
  /\ pc \in Busy => r.me # 0
  /\ pc = "make" => r.me = 0
  /\ r.me # 0 => emu[r.me] # "none"
  /\ pc \in {"tests", "enter", "body"} => r.me = 0 \/ ~Alive(r.me)
  /\ pc \in {"react", "handle", "connect"} /\ r.phase = "start" => r.gdb = None
  /\ pc \in {"connect", "up"} => r.phase = "start"
  /\ pc = "up" => r.gdb \in Emulators
  /\ pc = "wait" => r.phase = "stop"
  /\ pc \in Busy /\ r.phase = "start" => ~t05 /\ \A e \in Emulators : emu[e] # "running"
  /\ pc \in Busy /\ r.phase # "start" => r.gdb # None
  /\ pc \in Busy /\ t05 /\ r.gdb \in Emulators => emu[r.gdb] # "running"
  /\ pc = "handle" /\ "gdb" \in r.rset => r.gdb \in Emulators
  /\ pc = "handle" /\ "qemu" \in r.rset => pipe # <<>> \/ emu[r.me] = "gone"
  /\ pc \in Busy /\ ~r.proc => pipe = <<>> /\ emu[r.me] = "gone"
  /\ r.raised = "interrupt" => interrupted

\* Whom the grader was attached to.
Attached ==
  /\ \A e \in history.attached : emu[e] # "none"
  /\ r.me \in history.attached => r.gdb # None
  /\ pc = "shell" => history.attached = {}

\* Who may hold the port.
Others == r.me # 0 =>
  \A e \in Emulators : Alive(e) => e = r.me \/ e \in history.early

\* The test whose run is the last one before the current test.
Latest(p) ==
  /\ p \in RunsQemu
  /\ \E j \in 1 .. suite.next - 1 :
       TESTS[j] = p /\ \A n \in j + 1 .. suite.next - 1 : TESTS[n] \notin RunsQemu

\* The Runner holds the run of the latest test that was called.
Holds(p) ==
  /\ pc \notin Idle /\ Latest(p) /\ p \in suite.complete
  /\ ~(pc = "body" /\ Task \in RunsQemu)

Stopped(p) == p \in history.cut \/ \E l \in StopLines : <<p, l>> \in history.shown

Unread == IF pc \in Busy THEN Range(pipe) ELSE {}

\* What the Runner has, the kernel showed; what the kernel showed, the Runner
\* has or will read, if nothing cuts the run short.
Owned(p) == \A l \in r.output \cup Range(r.buf) \cup Range(pipe) :
              l # Make => <<p, l>> \in history.shown
Read(p) == \A l \in Lines :
             <<p, l>> \in history.shown => l \in r.output \cup Unread \/ Stopped(p)
Held == \A p \in RunsQemu : Holds(p) => Owned(p) /\ Read(p)

\* A line is shown in the run of a test that was called.
Shown == \A x \in history.shown :
           x[1] \in suite.complete /\ ~(pc = "body" /\ Task = x[1])

\* When a run ends, the kernel no longer prints; when QEMU is waited for,
\* everything is read.
Cut == Stopped(Task) \/ r.raised = "interrupt"

Ending ==
  /\ pc = "finally" \/ (pc \in Busy /\ r.phase = "stop") =>
       (r.gdb \in Emulators => ~t05 /\ emu[r.gdb] # "running") \/ Cut
  /\ pc = "wait" => (pipe = <<>> /\ ~r.proc) \/ Cut

IInv == /\ Shape /\ Stack /\ Calls /\ Score /\ Connections /\ Attached /\ Others
        /\ Held /\ Shown /\ Ending
        /\ LeftOnlyUnconnected /\ ForeignOnlyLate
        /\ PassedWasShown /\ FailedWasCut /\ ZeroMeansPassed
-----------------------------------------------------------------------------
(* What several steps need                                                 *)

\* Sequences and what is in them.
LEMMA Ranges ==
  ASSUME NEW S, NEW s \in Seq(S)
  PROVE  /\ Range(s) \subseteq S
         /\ s = <<>> <=> Len(s) = 0
         /\ s = <<>> => Range(s) = {}
         /\ \A l \in S : /\ Append(s, l) \in Seq(S) /\ Append(s, l) # <<>>
                         /\ Range(Append(s, l)) = Range(s) \cup {l}
         /\ \A u \in Seq(S) : s \o u \in Seq(S) /\ Range(s \o u) = Range(s) \cup Range(u)
<1>1. DOMAIN s = 1 .. Len(s) /\ Len(s) \in Nat
  OBVIOUS
<1>2. Range(s) \subseteq S
  BY <1>1 DEF Range
<1>3. (s = <<>> <=> Len(s) = 0) /\ (s = <<>> => Range(s) = {})
  BY DEF Range
<1>4. ASSUME NEW l \in S
      PROVE  /\ Append(s, l) \in Seq(S) /\ Append(s, l) # <<>>
             /\ Range(Append(s, l)) = Range(s) \cup {l}
  <2> DEFINE a == Append(s, l)
  <2>1. a \in Seq(S) /\ DOMAIN a = 1 .. Len(s) + 1 /\ Len(a) = Len(s) + 1
    OBVIOUS
  <2>2. a[Len(s) + 1] = l /\ \A k \in 1 .. Len(s) : a[k] = s[k]
    OBVIOUS
  <2>3. Len(a) # 0
    BY <1>1, <2>1
  <2> HIDE DEF a
  <2>4. \A k \in 1 .. Len(s) + 1 : k \in 1 .. Len(s) \/ k = Len(s) + 1
    BY <1>1
  <2>5. Range(a) \subseteq Range(s) \cup {l}
    BY <1>1, <2>1, <2>2, <2>4 DEF Range
  <2>6. Range(s) \cup {l} \subseteq Range(a)
    <3>1. Len(s) + 1 \in 1 .. Len(s) + 1 /\ 1 .. Len(s) \subseteq 1 .. Len(s) + 1
      BY <1>1
    <3> QED BY <1>1, <2>1, <2>2, <3>1 DEF Range
  <2>7. a # <<>>
    BY <2>3
  <2> QED BY <2>1, <2>5, <2>6, <2>7 DEF a
<1>5. ASSUME NEW u \in Seq(S)
      PROVE  s \o u \in Seq(S) /\ Range(s \o u) = Range(s) \cup Range(u)
  <2> DEFINE c == s \o u
             m == Len(s)
             n == Len(u)
  <2>1. c \in Seq(S) /\ DOMAIN c = 1 .. m + n /\ DOMAIN u = 1 .. n /\ m \in Nat /\ n \in Nat
    OBVIOUS
  <2>2. /\ \A k \in 1 .. m : c[k] = s[k]
        /\ \A k \in m + 1 .. m + n : c[k] = u[k - m]
    OBVIOUS
  <2>3. DOMAIN s = 1 .. m
    OBVIOUS
  <2> HIDE DEF c, m, n
  <2>4. \A k \in 1 .. m + n : k \in 1 .. m \/ (k \in m + 1 .. m + n /\ k - m \in 1 .. n)
    BY <2>1
  <2>5. Range(c) \subseteq Range(s) \cup Range(u)
    BY <2>1, <2>2, <2>3, <2>4 DEF Range
  <2>6. Range(s) \subseteq Range(c)
    <3>1. 1 .. m \subseteq 1 .. m + n
      BY <2>1
    <3> QED BY <2>1, <2>2, <2>3, <3>1 DEF Range
  <2>7. Range(u) \subseteq Range(c)
    <3>1. ASSUME NEW k \in 1 .. n PROVE u[k] \in Range(c)
      <4>1. k + m \in m + 1 .. m + n /\ k + m \in 1 .. m + n /\ (k + m) - m = k
        BY <2>1
      <4>2. c[k + m] = u[k]
        BY <2>2, <4>1
      <4> QED BY <2>1, <4>1, <4>2 DEF Range
    <3> QED BY <2>1, <3>1 DEF Range
  <2> QED BY <2>1, <2>5, <2>6, <2>7 DEF c
<1> QED BY <1>2, <1>3, <1>4, <1>5

\* A sequence cut in two.
LEMMA CutInTwo ==
  ASSUME NEW S, NEW s \in Seq(S), NEW k \in 0 .. Len(s)
  PROVE  /\ SubSeq(s, 1, k) \in Seq(S) /\ SubSeq(s, k + 1, Len(s)) \in Seq(S)
         /\ Len(SubSeq(s, k + 1, Len(s))) <= Len(s)
         /\ Range(s) = Range(SubSeq(s, 1, k)) \cup Range(SubSeq(s, k + 1, Len(s)))
<1> DEFINE a == SubSeq(s, 1, k)
           b == SubSeq(s, k + 1, Len(s))
           n == Len(s)
<1>1. /\ n \in Nat /\ DOMAIN s = 1 .. n /\ k \in Int /\ 0 <= k /\ k <= n
      /\ a \in Seq(S) /\ b \in Seq(S)
  OBVIOUS
<1>2. /\ DOMAIN a = 1 .. k /\ DOMAIN b = 1 .. n - k /\ Len(b) = n - k
  OBVIOUS
<1>3. \A i \in 1 .. k : a[i] = s[i]
  OBVIOUS
<1>4. \A i \in 1 .. n - k : b[i] = s[i + k]
  OBVIOUS
<1> HIDE DEF a, b, n
<1>5. Range(a) \cup Range(b) \subseteq Range(s)
  <2>1. 1 .. k \subseteq 1 .. n /\ \A i \in 1 .. n - k : i + k \in 1 .. n
    BY <1>1
  <2> QED BY <1>1, <1>2, <1>3, <1>4, <2>1 DEF Range
<1>6. ASSUME NEW i \in 1 .. n PROVE s[i] \in Range(a) \cup Range(b)
  <2>1. CASE i <= k
    <3>1. i \in 1 .. k
      BY <1>1, <2>1
    <3> QED BY <1>2, <1>3, <3>1 DEF Range
  <2>2. CASE ~(i <= k)
    <3>1. i - k \in 1 .. n - k /\ (i - k) + k = i
      BY <1>1, <2>2
    <3>2. b[i - k] = s[i]
      BY <1>4, <3>1
    <3> QED BY <1>2, <3>1, <3>2 DEF Range
  <2> QED BY <2>1, <2>2
<1>7. Range(s) \subseteq Range(a) \cup Range(b)
  BY <1>1, <1>6 DEF Range
<1>8. Len(b) <= n
  BY <1>1, <1>2
<1> QED BY <1>1, <1>5, <1>7, <1>8 DEF a, b, n

\* The stack of calls holds a test, or its parent on top of it.
LEMMA Stacks ==
  \A p, t : /\ Head(<<t>>) = t /\ Tail(<<t>>) = <<>> /\ Len(<<t>>) = 1 /\ Range(<<t>>) = {t}
            /\ Head(<<p, t>>) = p /\ Tail(<<p, t>>) = <<t>> /\ Len(<<p, t>>) = 2
            /\ Range(<<p, t>>) = {p, t} /\ <<p>> \o <<t>> = <<p, t>>
            /\ <<t>> # <<>> /\ <<p, t>> # <<>> /\ <<p, t>> # <<t>>
<1> TAKE p, t
<1>1. Range(<<t>>) = {t}
  BY DEF Range
<1>2. Range(<<p, t>>) = {p, t}
  <2>1. DOMAIN <<p, t>> = {1, 2}
    OBVIOUS
  <2> QED BY <2>1 DEF Range
<1>3. <<p, t>> # <<t>>
  <2>1. Len(<<p, t>>) = 2 /\ Len(<<t>>) = 1
    OBVIOUS
  <2> QED BY <2>1
<1>4. Head(<<t>>) = t /\ Len(<<t>>) = 1 /\ Head(<<p, t>>) = p /\ Len(<<p, t>>) = 2
  OBVIOUS
<1>5. Tail(<<t>>) = <<>>
  OBVIOUS
<1>6. Tail(<<p, t>>) = <<t>>
  OBVIOUS
<1>7. <<p>> \o <<t>> = <<p, t>>
  <2> DEFINE c == <<p>> \o <<t>>
  <2>1. <<p>> \in Seq({p, t}) /\ <<t>> \in Seq({p, t}) /\ <<p, t>> \in Seq({p, t})
    OBVIOUS
  <2>2. c \in Seq({p, t}) /\ Len(c) = 2 /\ c[1] = p /\ c[2] = t
    BY <2>1
  <2> DEFINE e == <<p, t>>
  <2>3. e \in Seq({p, t}) /\ Len(e) = 2 /\ e[1] = p /\ e[2] = t
    OBVIOUS
  <2> HIDE DEF c, e
  <2>4. DOMAIN c = 1 .. 2 /\ DOMAIN e = 1 .. 2
    BY <2>2, <2>3
  <2>5. \A k \in 1 .. 2 : c[k] = e[k]
    BY <2>2, <2>3
  <2>6. c = [k \in 1 .. 2 |-> c[k]] /\ e = [k \in 1 .. 2 |-> e[k]]
    BY <2>2, <2>3, <2>4
  <2>7. c = e
    BY <2>5, <2>6
  <2> QED BY <2>7 DEF c, e
<1>8. <<t>> # <<>> /\ <<p, t>> # <<>>
  <2>1. Len(<<>>) = 0
    OBVIOUS
  <2> QED BY <1>4, <2>1
<1> QED BY <1>1, <1>2, <1>3, <1>4, <1>5, <1>6, <1>7, <1>8

\* While a test is called, the grader stands at it or at its parent, and the
\* one of the two that runs QEMU is the latest that does.
LEMMA Calling ==
  ASSUME Shape, Stack, pc \notin Idle \cup {"make", "tests"}
  PROVE  /\ Current \in Tests /\ suite.next - 1 \in 1 .. Len(TESTS)
         /\ \/ suite.frames = <<Current>> /\ Task = Current
               /\ Range(suite.frames) = {Current}
            \/ /\ Current \notin RunsQemu /\ suite.frames = <<Parent[Current], Current>>
               /\ Task = Parent[Current] /\ Range(suite.frames) = {Task, Current}
         /\ Task \in Tests
         /\ Current \notin RunsQemu =>
              Parent[Current] \in RunsQemu /\ Latest(Parent[Current])
         /\ Current \in RunsQemu => Latest(Current)
         /\ Task \in RunsQemu => Latest(Task)
<1> DEFINE k == suite.next - 1
<1>1. k \in 1 .. Len(TESTS) /\ suite.next - 1 = k
  <2>1. suite.next \in 1 .. Len(TESTS) + 1 /\ suite.next > 1
    BY DEF Shape, Suites, Stack, Idle
  <2> QED BY <2>1, Registered
<1>2. Current = TESTS[k] /\ Current \in Tests
  BY <1>1, Registered DEF Current
<1>3. suite.frames = <<Current>>
      \/ (Current \notin RunsQemu /\ suite.frames = <<Parent[Current], Current>>)
  BY DEF Stack
<1>4. Current \notin RunsQemu =>
        /\ Parent[Current] \in RunsQemu /\ Parent[Current] \in Tests
        /\ \E j \in 1 .. k - 1 : /\ TESTS[j] = Parent[Current]
                                 /\ \A n \in j + 1 .. k : TESTS[n] \notin RunsQemu
  BY <1>1, <1>2, Parents
<1> HIDE DEF k
<1>5. Current \notin RunsQemu => Latest(Parent[Current])
  <2>1. 1 .. k - 1 \subseteq 1 .. k
    BY <1>1
  <2> QED BY <1>1, <1>4, <2>1 DEF Latest
<1>6. Current \in RunsQemu => Latest(Current)
  <2>1. k \in 1 .. k /\ \A n \in k + 1 .. k : FALSE
    BY <1>1
  <2> QED BY <1>1, <1>2, <2>1 DEF Latest
<1>7. \/ suite.frames = <<Current>> /\ Task = Current
               /\ Range(suite.frames) = {Current}
      \/ /\ Current \notin RunsQemu /\ suite.frames = <<Parent[Current], Current>>
         /\ Task = Parent[Current] /\ Range(suite.frames) = {Task, Current}
  BY <1>3, Stacks DEF Task
<1> QED BY <1>1, <1>2, <1>4, <1>5, <1>6, <1>7 DEF k

\* There is one latest test.
LEMMA LatestIsOne ==
  ASSUME Shape, NEW p, NEW q, Latest(p), Latest(q)
  PROVE  p = q
<1>1. PICK i \in 1 .. suite.next - 1 :
        TESTS[i] = p /\ \A n \in i + 1 .. suite.next - 1 : TESTS[n] \notin RunsQemu
  BY DEF Latest
<1>2. PICK j \in 1 .. suite.next - 1 :
        TESTS[j] = q /\ \A n \in j + 1 .. suite.next - 1 : TESTS[n] \notin RunsQemu
  BY DEF Latest
<1>3. p \in RunsQemu /\ q \in RunsQemu
  BY DEF Latest
<1>4. suite.next \in Int
  BY Registered DEF Shape, Suites
<1>5. i \notin j + 1 .. suite.next - 1 /\ j \notin i + 1 .. suite.next - 1
  BY <1>1, <1>2, <1>3
<1>6. i = j
  BY <1>4, <1>5
<1> QED BY <1>1, <1>2, <1>6

\* In a run the Runner holds the run of the test the grader stands at.
LEMMA InRun ==
  ASSUME Shape, Stack, Calls, pc \in Busy
  PROVE  /\ Task \in RunsQemu /\ Holds(Task) /\ Task \notin Ended /\ Task \in suite.complete
         /\ \A p \in RunsQemu : Holds(p) => p = Task
<1>1. pc \notin Idle \cup {"make", "tests"} /\ pc # "body"
  BY DEF Busy, Idle
<1>2. Task \in RunsQemu /\ Latest(Task) /\ Task \in Range(suite.frames)
  <2>1. Task \in RunsQemu
    BY DEF Stack
  <2> QED BY <1>1, <2>1, Calling
<1>3. Task \in suite.complete /\ Task \notin Ended
  BY <1>2 DEF Calls
<1>4. Holds(Task)
  BY <1>1, <1>2, <1>3 DEF Holds
<1>5. \A p \in RunsQemu : Holds(p) => p = Task
  BY <1>2, LatestIsOne DEF Holds
<1> QED BY <1>2, <1>3, <1>4, <1>5

\* A step within a run, of the environment or out of the grader leaves the
\* tests as they are.
LEMMA SuiteStays ==
  ASSUME Stack, Calls, Score, suite' = suite,
         \/ pc' = pc \/ pc' = "exited" \/ (pc \in Busy /\ pc' \in Busy)
         \/ pc = "body" /\ Task \in RunsQemu /\ pc' \in Busy
  PROVE  Stack' /\ Calls' /\ Score'
<1> USE DEF Ended, Current, Task
<1>1. Score'
  BY DEF Score, Worth, Earned
<1>2. CASE pc' = pc
  BY <1>1, <1>2 DEF Stack, Calls
<1>3. CASE pc' = "exited"
  BY <1>1, <1>3 DEF Stack, Calls, Idle, Busy
<1>4. CASE pc \in Busy /\ pc' \in Busy
  BY <1>1, <1>4 DEF Stack, Calls, Idle, Busy
<1>5. CASE pc = "body" /\ Task \in RunsQemu /\ pc' \in Busy
  BY <1>1, <1>5 DEF Stack, Calls, Idle, Busy
<1> QED BY <1>2, <1>3, <1>4, <1>5

\* So it leaves what was shown of the tests that ended.
LEMMA ResultsStay ==
  ASSUME PassedWasShown, FailedWasCut, suite' = suite,
         history'.shown = history.shown, history.cut \subseteq history'.cut
  PROVE  PassedWasShown' /\ FailedWasCut'
BY DEF PassedWasShown, FailedWasCut

\* Nor does a step within a run lose a line or invent one.
LEMMA LinesStay ==
  ASSUME Held, Shown, suite' = suite, pc \in Busy, pc' \in Busy,
         history'.shown = history.shown, history.cut \subseteq history'.cut,
         r'.output \cup Range(r'.buf) \cup Range(pipe')
           \subseteq r.output \cup Range(r.buf) \cup Range(pipe) \cup {Make},
         r.output \cup Range(pipe) \subseteq r'.output \cup Range(pipe')
  PROVE  Held' /\ Shown' /\ (Stopped(Task) => Stopped(Task)')
<1>1. pc \notin Idle /\ pc # "body" /\ pc' # "body" /\ pc' \notin Idle
  BY DEF Busy, Idle
<1>2. Shown' /\ \A p : Stopped(p) => Stopped(p)'
  BY <1>1 DEF Shown, Stopped
<1>3. ASSUME NEW p \in RunsQemu, Holds(p)'
      PROVE  Owned(p)' /\ Read(p)'
  <2>1. Holds(p)
    BY <1>1, <1>3 DEF Holds, Latest
  <2>2. Owned(p) /\ Read(p)
    BY <2>1 DEF Held
  <2>3. Owned(p)'
    BY <2>2 DEF Owned
  <2>4. Read(p)'
    BY <1>2, <2>2 DEF Read, Unread
  <2> QED BY <2>3, <2>4
<1>4. Held'
  BY <1>3 DEF Held
<1>5. Stopped(Task) => Stopped(Task)'
  BY <1>2 DEF Task
<1> QED BY <1>2, <1>4, <1>5
-----------------------------------------------------------------------------
(* The environment                                                         *)

\* An emulator that is alive goes on or ends, but does not start to run.
LEMMA EmulatorStep ==
  ASSUME IInv, NEW e \in Emulators, Alive(e),
         NEW x \in {"listening", "stopped", "gone"}, emu' = [emu EXCEPT ![e] = x],
         t05' \in BOOLEAN, t05' => t05 \/ (pc \notin Idle /\ r.gdb = e /\ emu[e] = "running"),
         UNCHANGED <<pc, suite, r, exit, told, pipe, user, history>>
  PROVE  IInv'
<1>1. /\ emu \in [Emulators -> {"none", "building", "listening", "running", "stopped", "gone"}]
      /\ r.me \in Emulators \cup {0}
  BY DEF IInv, Shape, Suites, Runners, Histories
<1>2. /\ emu'[e] = x /\ x # "running" /\ x # "none" /\ emu[e] # "none" /\ emu[e] # "gone"
      /\ \A f \in Emulators : f # e => emu'[f] = emu[f]
  BY <1>1 DEF Alive
<1>3. \A f \in Emulators : (Alive(f)' => Alive(f)) /\ (emu'[f] = "running" => emu[f] = "running")
                           /\ (emu[f] = "gone" => emu'[f] = "gone")
                           /\ (emu[f] # "none" => emu'[f] # "none")
  BY <1>2 DEF Alive
<1>4. Shape'
  BY DEF IInv, Shape, user
<1>5. Stack' /\ Calls' /\ Score'
  BY SuiteStays DEF IInv
<1>6. PassedWasShown' /\ FailedWasCut' /\ ZeroMeansPassed'
  BY DEF IInv, PassedWasShown, FailedWasCut, ZeroMeansPassed, user
<1>7. Held' /\ Shown'
  BY DEF IInv, Held, Shown, Holds, Latest, Owned, Read, Stopped, Unread, Task
<1>8. Connections'
  <2>1. r.me # 0 => emu'[r.me] # "none"
    BY <1>1, <1>3 DEF IInv, Connections
  <2>2. pc \in {"tests", "enter", "body"} => r.me = 0 \/ ~Alive(r.me)'
    BY <1>1, <1>3 DEF IInv, Connections
  <2>3. pc \in Busy /\ r.phase = "start" => ~t05' /\ \A f \in Emulators : emu'[f] # "running"
    BY <1>3 DEF IInv, Connections
  <2>4. pc \in Busy /\ t05' /\ r.gdb \in Emulators => emu'[r.gdb] # "running"
    BY <1>2, <1>3 DEF IInv, Connections
  <2>5. pc = "handle" /\ "qemu" \in r.rset => pipe # <<>> \/ emu'[r.me] = "gone"
    BY <1>1, <1>3 DEF IInv, Connections, Busy
  <2>6. pc \in Busy /\ ~r.proc => pipe = <<>> /\ emu'[r.me] = "gone"
    BY <1>1, <1>3 DEF IInv, Connections, Busy
  <2> QED BY <2>1, <2>2, <2>3, <2>4, <2>5, <2>6 DEF IInv, Connections, user, Alive
<1>9. Attached' /\ Others'
  <2>1. history.attached \subseteq Emulators
    BY DEF IInv, Shape, Suites, Runners, Histories
  <2> QED BY <1>3, <2>1 DEF IInv, Attached, Others, Alive
<1>10. Ending'
  <2>1. pc = "finally" \/ (pc \in Busy /\ r.phase = "stop") =>
          (r.gdb \in Emulators => ~t05' /\ emu'[r.gdb] # "running") \/ Cut
    BY <1>2, <1>3 DEF IInv, Ending
  <2> QED BY <2>1 DEF IInv, Ending, Cut, Stopped, Task
<1>11. LeftOnlyUnconnected' /\ ForeignOnlyLate'
  <2>1. history.attached \subseteq Emulators
    BY DEF IInv, Shape, Suites, Runners, Histories
  <2> QED BY <1>3, <2>1 DEF IInv, LeftOnlyUnconnected, ForeignOnlyLate, Alive
<1> QED BY <1>4, <1>5, <1>6, <1>7, <1>8, <1>9, <1>10, <1>11 DEF IInv

\* Make prints lines that no test looks for.
LEMMA MakePrintsStep == ASSUME IInv, MakePrints PROVE IInv'
<1>1. /\ emu[r.me] = "building" /\ pipe' = Append(pipe, Make) /\ Len(pipe) < PIPE
      /\ UNCHANGED <<pc, suite, r, exit, emu, told, t05, interrupted, grades, history>>
      /\ pipe \in Seq(Line) /\ Make \in Line /\ Len(pipe') = Len(pipe) + 1
  BY DEF MakePrints, IInv, Shape, Line, user
<1>2. pipe' \in Seq(Line) /\ pipe' # <<>> /\ Range(pipe') = Range(pipe) \cup {Make}
  BY <1>1, Ranges
<1>3. Len(pipe') <= PIPE
  <2>1. Len(pipe) \in Nat /\ PIPE \in Nat
    BY <1>1, GraderAssumption
  <2> QED BY <1>1, <2>1
<1>4. Shape'
  BY <1>1, <1>2, <1>3 DEF IInv, Shape
<1>5. Stack' /\ Calls' /\ Score'
  BY <1>1, SuiteStays DEF IInv
<1>6. /\ PassedWasShown' /\ FailedWasCut' /\ ZeroMeansPassed' /\ Attached' /\ Others'
      /\ LeftOnlyUnconnected' /\ ForeignOnlyLate'
  BY <1>1 DEF IInv, PassedWasShown, FailedWasCut, ZeroMeansPassed, Attached, Others,
              LeftOnlyUnconnected, ForeignOnlyLate, Alive
<1>7. Held'
  <2>1. ASSUME NEW p \in RunsQemu, Holds(p)' PROVE Owned(p)' /\ Read(p)'
    <3>1. Holds(p)
      BY <1>1, <2>1 DEF Holds, Latest, Task
    <3>2. Owned(p) /\ Read(p)
      BY <3>1 DEF IInv, Held
    <3>3. Owned(p)'
      BY <1>1, <1>2, <3>2 DEF Owned
    <3>4. Read(p)'
      BY <1>1, <1>2, <3>2 DEF Read, Unread, Stopped
    <3> QED BY <3>3, <3>4
  <2> QED BY <2>1 DEF Held
<1>8. Shown'
  BY <1>1 DEF IInv, Shown, Task
<1>9. Connections'
  BY <1>1, <1>2 DEF IInv, Connections, Alive
<1>10. Ending'
  <2>1. pc \in Busy => r.proc
    BY <1>1 DEF IInv, Connections
  <2>2. pc = "wait" => Cut
    BY <2>1 DEF IInv, Ending, Busy
  <2> QED BY <1>1, <2>2 DEF IInv, Ending, Cut, Stopped, Task
<1> QED BY <1>4, <1>5, <1>6, <1>7, <1>8, <1>9, <1>10 DEF IInv

\* The kernel prints lines in the run of the test the grader stands at.
LEMMA PrintLineStep == ASSUME IInv, PrintLine PROVE IInv'
<1>1. PICK l \in Lines :
        /\ pipe' = Append(pipe, l)
        /\ history' = [history EXCEPT !.shown = @ \cup {<<Task, l>>}]
  BY DEF PrintLine, Task
<1>2. /\ emu[r.me] = "running" /\ r.me # 0 /\ pc \notin Idle /\ Len(pipe) < PIPE
      /\ UNCHANGED <<pc, suite, r, exit, emu, told, t05, interrupted, grades>>
      /\ pipe \in Seq(Line) /\ l \in Line /\ Alive(r.me)
  BY DEF PrintLine, IInv, Shape, Line, user, Mine, Idle, Alive
<1>3. pipe' \in Seq(Line) /\ pipe' # <<>> /\ Range(pipe') = Range(pipe) \cup {l}
  BY <1>1, <1>2, Ranges
<1>4. Len(pipe') <= PIPE
  <2>1. Len(pipe) \in Nat /\ PIPE \in Nat /\ Len(pipe') = Len(pipe) + 1
    BY <1>1, <1>2, GraderAssumption
  <2> QED BY <1>2, <2>1
<1>5. pc \in Busy
  BY <1>2 DEF IInv, Connections, Shape, Busy, Idle
<1>6. /\ Task \in RunsQemu /\ Holds(Task) /\ Task \notin Ended /\ Task \in suite.complete
      /\ \A p \in RunsQemu : Holds(p) => p = Task
  BY <1>5, InRun DEF IInv
<1> DEFINE h == Task
<1>7. h \in RunsQemu /\ h' = h
  BY <1>2, <1>6 DEF Task
<1>8. /\ history'.shown = history.shown \cup {<<h, l>>} /\ history'.cut = history.cut
      /\ history'.attached = history.attached /\ history'.early = history.early
      /\ history' \in Histories
  <2>1. history \in Histories
    BY DEF IInv, Shape, Suites, Runners, Histories
  <2> HIDE DEF h
  <2> QED BY <1>1, <1>7, <2>1 DEF h, Histories
<1>9. Shape'
  BY <1>2, <1>3, <1>4, <1>8 DEF IInv, Shape
<1>10. Stack' /\ Calls' /\ Score'
  BY <1>2, SuiteStays DEF IInv
<1> HIDE DEF h
<1>11. PassedWasShown'
  BY <1>2, <1>8 DEF IInv, PassedWasShown
<1>12. FailedWasCut'
  <2>1. ASSUME NEW t \in suite.failed \ RunsQemu, <<Parent[t], t>> \in history'.shown
        PROVE  \/ Parent[t] \in history'.cut
               \/ \E m \in StopLines : <<Parent[t], m>> \in history'.shown
    <3>1. Parent[t] # h
      BY <1>6 DEF IInv, Calls, Ended, h
    <3>2. <<Parent[t], t>> \in history.shown
      BY <1>8, <2>1, <3>1
    <3> QED BY <1>8, <3>2 DEF IInv, FailedWasCut
  <2> QED BY <1>2, <2>1 DEF FailedWasCut
<1>13. /\ ZeroMeansPassed' /\ Attached' /\ Others' /\ LeftOnlyUnconnected'
       /\ ForeignOnlyLate'
  BY <1>2, <1>8 DEF IInv, ZeroMeansPassed, Attached, Others,
              LeftOnlyUnconnected, ForeignOnlyLate, Alive
<1>14. \A p : Stopped(p) => Stopped(p)'
  BY <1>8 DEF Stopped
<1>15. Held'
  <2>1. ASSUME NEW p \in RunsQemu, Holds(p)' PROVE Owned(p)' /\ Read(p)'
    <3>1. Holds(p)
      BY <1>2, <2>1 DEF Holds, Latest, Task
    <3>2. Owned(p) /\ Read(p) /\ p = h
      BY <1>6, <3>1 DEF IInv, Held, h
    <3>3. Owned(p)'
      BY <1>2, <1>3, <1>8, <3>2 DEF Owned
    <3>4. ASSUME NEW m \in Lines, <<p, m>> \in history'.shown
          PROVE  m \in r.output \cup Range(pipe') \/ Stopped(p)'
      <4>1. <<p, m>> \in history.shown \/ m = l
        BY <1>8, <3>4
      <4>2. <<p, m>> \in history.shown => m \in r.output \cup Range(pipe) \/ Stopped(p)
        BY <1>5, <3>2 DEF Read, Unread
      <4> QED BY <1>3, <1>14, <4>1, <4>2
    <3>5. Read(p)'
      BY <1>2, <1>5, <3>4 DEF Read, Unread
    <3> QED BY <3>3, <3>5
  <2> QED BY <2>1 DEF Held
<1>16. Shown'
  <2>1. pc # "body"
    BY <1>5 DEF Busy
  <2>2. \A x \in history'.shown : x[1] \in suite.complete
    BY <1>6, <1>8 DEF IInv, Shown, h
  <2> QED BY <1>2, <2>1, <2>2 DEF Shown
<1>17. Connections'
  BY <1>2, <1>3 DEF IInv, Connections, Alive
<1>18. Ending'
  <2>1. r.proc
    BY <1>2, <1>5 DEF IInv, Connections
  <2>2. pc = "wait" => Cut
    BY <2>1 DEF IInv, Ending
  <2>3. Cut => Cut'
    BY <1>2, <1>7, <1>14 DEF Cut, h
  <2> QED BY <1>2, <2>2, <2>3 DEF IInv, Ending
<1> QED BY <1>9, <1>10, <1>11, <1>12, <1>13, <1>15, <1>16, <1>17, <1>18 DEF IInv

\* The clock is read in the reactor loop only.
LEMMA DeadlineStep == ASSUME IInv, Deadline PROVE IInv'
<1>1. /\ r \in Runners
      /\ r' = [r EXCEPT !.expired = TRUE]
  BY DEF Deadline, IInv, Shape, Runners
<1>2. /\ r'.me = r.me /\ r'.phase = r.phase /\ r'.proc = r.proc /\ r'.gdb = r.gdb
      /\ r'.rset = r.rset /\ r'.buf = r.buf /\ r'.output = r.output /\ r'.raised = r.raised
      /\ r' \in Runners
  BY <1>1 DEF Runners
<1>3. UNCHANGED <<pc, suite, exit, emu, told, pipe, t05, interrupted, grades, history>>
  BY DEF Deadline, world, user
<1>4. Shape'
  BY <1>2, <1>3 DEF IInv, Shape
<1>5. Stack' /\ Calls' /\ Score'
  BY <1>3, SuiteStays DEF IInv
<1>6. /\ PassedWasShown' /\ FailedWasCut' /\ ZeroMeansPassed' /\ Attached' /\ Others'
      /\ LeftOnlyUnconnected' /\ ForeignOnlyLate'
  BY <1>2, <1>3 DEF IInv, PassedWasShown, FailedWasCut, ZeroMeansPassed, Attached, Others,
              LeftOnlyUnconnected, ForeignOnlyLate, Alive
<1>7. Held' /\ Shown'
  BY <1>2, <1>3 DEF IInv, Held, Shown, Holds, Latest, Owned, Read, Stopped, Unread, Task
<1>8. Connections'
  BY <1>2, <1>3 DEF IInv, Connections, Alive
<1>9. Ending'
  BY <1>2, <1>3 DEF IInv, Ending, Cut, Stopped, Task
<1> QED BY <1>4, <1>5, <1>6, <1>7, <1>8, <1>9 DEF IInv

\* Whatever happens beside the grader.
LEMMA EnvironmentStep == ASSUME IInv, Environment PROVE IInv'
<1>1. ASSUME NEW e \in Emulators, Listen(e) PROVE IInv'
  <2> DEFINE x == IF Serving = {} THEN "listening" ELSE "gone"
  <2>1. /\ x \in {"listening", "stopped", "gone"} /\ emu' = [emu EXCEPT ![e] = x]
        /\ Alive(e) /\ t05' = t05 /\ t05 \in BOOLEAN
        /\ UNCHANGED <<pc, suite, r, exit, told, pipe, user, history>>
    BY <1>1 DEF Listen, Alive, IInv, Shape
  <2> HIDE DEF x
  <2> QED BY <2>1, EmulatorStep
<1>2. ASSUME NEW e \in Emulators, Breakpoint(e) PROVE IInv'
  <2>1. /\ emu' = [emu EXCEPT ![e] = "stopped"] /\ Alive(e) /\ emu[e] = "running"
        /\ t05' = (t05 \/ (Mine /\ r.gdb = e)) /\ t05 \in BOOLEAN
        /\ UNCHANGED <<pc, suite, r, exit, told, pipe, user, history>>
    BY <1>2 DEF Breakpoint, Alive, IInv, Shape
  <2>2. t05' \in BOOLEAN /\ (t05' => t05 \/ (pc \notin Idle /\ r.gdb = e))
    BY <2>1 DEF Mine, Idle
  <2> QED BY <2>1, <2>2, EmulatorStep
<1>3. ASSUME NEW e \in Emulators, Die(e) PROVE IInv'
  <2>1. /\ emu' = [emu EXCEPT ![e] = "gone"] /\ Alive(e) /\ t05' = t05 /\ t05 \in BOOLEAN
        /\ UNCHANGED <<pc, suite, r, exit, told, pipe, user, history>>
    BY <1>3 DEF Die, IInv, Shape
  <2> QED BY <2>1, EmulatorStep
<1> QED BY <1>1, <1>2, <1>3, MakePrintsStep, PrintLineStep, DeadlineStep DEF Environment
-----------------------------------------------------------------------------
(* The reactor loop                                                        *)

\* Where the grader goes on behind the loop.
LEMMA Leaves ==
  ASSUME NEW run, run.phase \in {"start", "run", "stop"}, Leave(run)
  PROVE  \/ /\ run.phase = "start" /\ r' = run
            /\ pc' = IF run.gdb = None THEN "finally" ELSE "up"
         \/ run.phase = "run" /\ r' = run /\ pc' = "finally"
         \/ run.phase = "stop" /\ r' = [run EXCEPT !.gdb = Closed] /\ pc' = "wait"
<1>1. CASE run.phase = "start"
  BY <1>1 DEF Leave
<1>2. CASE run.phase = "run"
  BY <1>2 DEF Leave
<1>3. CASE run.phase = "stop"
  BY <1>3 DEF Leave
<1> QED BY <1>1, <1>2, <1>3

\* A step within a run that starts no emulator and keeps every line.
LEMMA RunGoesOn ==
  ASSUME IInv, pc \in Busy, pc' \in Busy, suite' = suite,
         Shape', Connections', Ending', ForeignOnlyLate', r'.me = r.me,
         history'.shown = history.shown, history.cut \subseteq history'.cut,
         history'.early = history.early,
         history'.attached \subseteq history.attached \cup {r.me},
         r'.me \in history'.attached => r'.gdb # None,
         \A e \in Emulators : (Alive(e)' => Alive(e)) /\ (emu[e] # "none" => emu'[e] # "none"),
         told \subseteq told',
         r'.output \cup Range(r'.buf) \cup Range(pipe')
           \subseteq r.output \cup Range(r.buf) \cup Range(pipe) \cup {Make},
         r.output \cup Range(pipe) \subseteq r'.output \cup Range(pipe')
  PROVE  IInv'
<1>1. Stack' /\ Calls' /\ Score' /\ PassedWasShown' /\ FailedWasCut'
  BY SuiteStays, ResultsStay DEF IInv
<1>2. Held' /\ Shown'
  BY LinesStay DEF IInv
<1>3. pc' \notin {"exited", "shell", "tests", "enter", "body"}
  BY DEF Busy
<1>4. ZeroMeansPassed'
  BY <1>3 DEF ZeroMeansPassed
<1>5. /\ history.attached \subseteq Emulators /\ history'.attached \subseteq Emulators
      /\ r.me \in Emulators /\ emu[r.me] # "none"
  BY DEF IInv, Shape, Histories, Runners, Connections
<1>6. Attached'
  <2>1. \A e \in history'.attached : emu'[e] # "none"
    BY <1>5 DEF IInv, Attached
  <2> QED BY <1>3, <2>1 DEF Attached
<1>7. Others'
  BY DEF IInv, Others
<1>8. LeftOnlyUnconnected'
  <2>1. ASSUME NEW e \in history'.attached, Alive(e)', e # r'.me PROVE e \in told'
    <3>1. e \in history.attached /\ Alive(e) /\ e # r.me
      BY <1>5, <2>1
    <3> QED BY <3>1 DEF IInv, LeftOnlyUnconnected
  <2> QED BY <1>3, <2>1 DEF LeftOnlyUnconnected
<1> QED BY <1>1, <1>2, <1>4, <1>6, <1>7, <1>8 DEF IInv

\* What is known of the Runner in a run.
LEMMA Running ==
  ASSUME IInv, pc \in Busy
  PROVE  /\ r \in Runners /\ r.me \in Emulators /\ emu[r.me] # "none"
         /\ r.phase \in {"start", "run", "stop"} /\ r.buf \in Seq(Line) /\ pipe \in Seq(Line)
         /\ r.gdb \in Emulators \cup {None, Closed}
         /\ pc \in {"react", "handle", "connect"} /\ r.phase = "start" => r.gdb = None
         /\ r.phase # "start" => r.gdb \in Emulators \cup {Closed}
         /\ r.phase = "start" => ~t05 /\ \A e \in Emulators : emu[e] # "running"
         /\ ~r.proc => pipe = <<>> /\ emu[r.me] = "gone"
         /\ history \in Histories /\ Task \in RunsQemu /\ Task \in Tests
         /\ r.output \subseteq Line
         /\ r.me \in history.attached => r.gdb # None
BY InRun, Registered DEF IInv, Shape, Runners, Connections, Attached

\* The deadline cuts the run of the test short.
LEMMA TimedOutStep == ASSUME IInv, TimedOut PROVE IInv'
<1>1. /\ pc = "react" /\ pc \in Busy /\ Leave(r)
      /\ history' = [history EXCEPT !.cut = @ \cup {Task}]
      /\ UNCHANGED <<suite, exit, emu, told, pipe, t05, interrupted, grades>>
  BY DEF TimedOut, Busy, world, user, Task
<1>2. /\ r \in Runners /\ history \in Histories /\ Task \in Tests
      /\ r.phase \in {"start", "run", "stop"}
      /\ r.phase = "start" => r.gdb = None
      /\ r.me \in history.attached => r.gdb # None
  BY <1>1, Running
<1>3. \/ r.phase = "start" /\ r' = r /\ pc' = "finally"
      \/ r.phase = "run" /\ r' = r /\ pc' = "finally"
      \/ r.phase = "stop" /\ r' = [r EXCEPT !.gdb = Closed] /\ pc' = "wait"
  BY <1>1, <1>2, Leaves
<1>4. /\ r' \in Runners /\ r'.me = r.me /\ r'.phase = r.phase /\ r'.proc = r.proc
      /\ r'.buf = r.buf /\ r'.output = r.output /\ r'.raised = r.raised
      /\ (r'.gdb = r.gdb /\ pc' = "finally" /\ r.phase # "stop")
         \/ (r'.gdb = Closed /\ pc' = "wait" /\ r.phase = "stop")
  BY <1>2, <1>3 DEF Runners
<1>5. /\ history' \in Histories /\ history'.shown = history.shown
      /\ history'.cut = history.cut \cup {Task} /\ history'.attached = history.attached
      /\ history'.early = history.early
  <2> DEFINE h == Task
  <2> HIDE DEF h
  <2>1. history' = [history EXCEPT !.cut = @ \cup {h}] /\ h \in Tests
    BY <1>1, <1>2 DEF h
  <2> QED BY <1>2, <2>1 DEF h, Histories
<1>6. pc' \in Busy
  BY <1>4 DEF Busy
<1>7. Shape'
  BY <1>1, <1>4, <1>5, <1>6 DEF IInv, Shape
<1>8. Connections'
  BY <1>1, <1>4, <1>6, Numbered DEF IInv, Connections, Alive
<1>9. Ending'
  <2>1. Cut'
    BY <1>1, <1>5 DEF Cut, Stopped, Task
  <2> QED BY <2>1 DEF Ending
<1>10. ForeignOnlyLate'
  BY <1>4, <1>5, Numbered DEF IInv, ForeignOnlyLate
<1>11. r'.me \in history'.attached => r'.gdb # None
  BY <1>2, <1>4, <1>5 DEF None, Closed
<1>12. \A e \in Emulators : (Alive(e)' => Alive(e)) /\ (emu[e] # "none" => emu'[e] # "none")
  BY <1>1 DEF Alive
<1> QED BY <1>1, <1>4, <1>5, <1>6, <1>7, <1>8, <1>9, <1>10, <1>11, <1>12, RunGoesOn

\* The loop ends when nothing is left to read, or hands out what is ready.
LEMMA SelectStep == ASSUME IInv, Select PROVE IInv'
<1> DEFINE open == {x \in {"qemu", "gdb"} : Fileno(x)}
           ready == {x \in open : Readable(x)}
<1>1. /\ pc = "react" /\ pc \in Busy
      /\ UNCHANGED <<suite, exit, emu, told, pipe, t05, interrupted, grades, history>>
      /\ \/ open = {} /\ Leave(r)
         \/ ready # {} /\ r' = [r EXCEPT !.rset = ready] /\ pc' = "handle"
  BY DEF Select, Busy, world, user
<1>2. /\ r \in Runners /\ r.phase \in {"start", "run", "stop"}
      /\ r.phase = "start" => r.gdb = None
      /\ r.gdb \in Emulators \cup {None, Closed}
      /\ r.phase # "start" => r.gdb \in Emulators \cup {Closed}
      /\ ~r.proc => pipe = <<>> /\ emu[r.me] = "gone"
      /\ r.me \in history.attached => r.gdb # None
  BY <1>1, Running
<1>3. \A e \in Emulators : (Alive(e)' => Alive(e)) /\ (emu[e] # "none" => emu'[e] # "none")
  BY <1>1 DEF Alive
<1>4. CASE open = {} /\ Leave(r)
  <2>1. ~r.proc /\ (r.phase # "start" => r.gdb = Closed)
    <3>1. ~Fileno("qemu") /\ ~Fileno("gdb")
      BY <1>4
    <3> QED BY <3>1 DEF Fileno
  <2>2. \/ r.phase = "start" /\ r' = r /\ pc' = "finally"
        \/ r.phase = "run" /\ r' = r /\ pc' = "finally"
        \/ r.phase = "stop" /\ r' = [r EXCEPT !.gdb = Closed] /\ pc' = "wait"
    BY <1>2, <1>4, Leaves
  <2>3. /\ r' \in Runners /\ r'.me = r.me /\ r'.phase = r.phase /\ r'.proc = r.proc
        /\ r'.buf = r.buf /\ r'.output = r.output /\ r'.raised = r.raised
        /\ r'.gdb = r.gdb /\ (pc' = "finally" \/ (pc' = "wait" /\ r.phase = "stop"))
    BY <1>2, <2>1, <2>2 DEF Runners
  <2>4. pc' \in Busy
    BY <2>3 DEF Busy
  <2>5. Shape'
    BY <1>1, <2>3, <2>4 DEF IInv, Shape
  <2>6. Connections'
    BY <1>1, <2>3, <2>4 DEF IInv, Connections, Alive
  <2>7. Ending'
    <3>1. r'.gdb \notin Emulators
      BY <1>2, <2>1, <2>3, Numbered
    <3>2. pipe' = <<>> /\ ~r'.proc
      BY <1>1, <1>2, <2>1, <2>3
    <3> QED BY <3>1, <3>2 DEF Ending
  <2>8. ForeignOnlyLate'
    BY <1>1, <2>3 DEF IInv, ForeignOnlyLate
  <2>9. r'.me \in history'.attached => r'.gdb # None
    BY <1>1, <1>2, <2>3
  <2> QED BY <1>1, <1>3, <2>3, <2>4, <2>5, <2>6, <2>7, <2>8, <2>9, RunGoesOn
<1>5. CASE ready # {} /\ r' = [r EXCEPT !.rset = ready] /\ pc' = "handle"
  <2>1. ready \subseteq {"qemu", "gdb"}
    OBVIOUS
  <2>2. "gdb" \in ready => r.gdb \in Emulators
    <3>1. "gdb" \in ready => r.phase # "start" /\ r.gdb # Closed
      BY DEF Fileno
    <3> QED BY <1>2, <3>1
  <2>3. "qemu" \in ready => pipe # <<>> \/ emu[r.me] = "gone"
    BY DEF Readable
  <2> HIDE DEF ready
  <2>4. /\ r' \in Runners /\ r'.me = r.me /\ r'.phase = r.phase /\ r'.proc = r.proc
        /\ r'.buf = r.buf /\ r'.output = r.output /\ r'.raised = r.raised
        /\ r'.gdb = r.gdb /\ r'.rset = ready
    BY <1>2, <1>5, <2>1 DEF Runners
  <2>5. pc' \in Busy
    BY <1>5 DEF Busy
  <2>6. Shape'
    BY <1>1, <2>4, <2>5 DEF IInv, Shape
  <2>7. Connections'
    BY <1>1, <1>5, <2>2, <2>3, <2>4, <2>5 DEF IInv, Connections, Alive
  <2>8. Ending'
    BY <1>1, <1>5, <2>4, <2>5 DEF IInv, Ending, Cut, Stopped, Task
  <2>9. ForeignOnlyLate'
    BY <1>1, <2>4 DEF IInv, ForeignOnlyLate
  <2>10. r'.me \in history'.attached => r'.gdb # None
    BY <1>1, <1>2, <2>4
  <2> QED BY <1>1, <1>3, <2>4, <2>5, <2>6, <2>7, <2>8, <2>9, <2>10, RunGoesOn
<1> QED BY <1>1, <1>4, <1>5

\* The lines behind the last stop line wait for their turn.
LEMMA StopsOnLine ==
  ASSUME NEW run, NEW b \in Seq(Line), StopOnLine(b, run)
  PROVE  \/ Handled("qemu", [run EXCEPT !.buf = <<>>])
         \/ \E l \in StopLines, u \in Seq(Line) :
              /\ l \in Range(b) /\ Range(u) \subseteq Range(b)
              /\ Leave([run EXCEPT !.buf = u])
<1> DEFINE hits == {k \in DOMAIN b : b[k] \in StopLines}
<1>1. CASE hits = {}
  BY <1>1 DEF StopOnLine
<1>2. CASE hits # {}
  <2> DEFINE k == Min(hits)
             u == SubSeq(b, k + 1, Len(b))
  <2>1. DOMAIN b = 1 .. Len(b) /\ Len(b) \in Nat
    OBVIOUS
  <2>2. k \in hits
    <3>1. hits \subseteq Nat
      BY <2>1
    <3>2. PICK j \in hits : \A i \in hits : ~(i < j)
      <4> HIDE DEF hits
      <4> QED BY <1>2, <3>1, LeastMember
    <3>3. \A i \in hits : j <= i
      BY <3>1, <3>2
    <3> HIDE DEF hits
    <3> QED BY <3>2, <3>3 DEF Min
  <2>3. b[k] \in StopLines /\ b[k] \in Range(b) /\ k \in 0 .. Len(b)
    <3> HIDE DEF k
    <3> QED BY <2>1, <2>2 DEF Range
  <2>4. u \in Seq(Line) /\ Range(u) \subseteq Range(b)
    <3> HIDE DEF k
    <3> QED BY <2>3, CutInTwo
  <2>5. Leave([run EXCEPT !.buf = u])
    BY <1>2 DEF StopOnLine
  <2> HIDE DEF u, k
  <2> QED BY <2>3, <2>4, <2>5
<1> QED BY <1>1, <1>2

\* What is read is given to stop_on_line, which may end the run.
LEMMA LineStep ==
  ASSUME IInv, pc = "handle", "qemu" \in r.rset, r.phase # "start",
         NEW run \in Runners, NEW b \in Seq(Line), StopOnLine(b, run),
         run.me = r.me, run.phase = r.phase, run.proc = r.proc, run.gdb = r.gdb,
         run.rset = r.rset, run.raised = r.raised,
         Range(b) \subseteq Range(r.buf) \cup Range(pipe),
         run.output \cup Range(pipe') = r.output \cup Range(pipe),
         pipe' \in Seq(Line), Len(pipe') <= PIPE, pipe = <<>> => pipe' = <<>>,
         UNCHANGED <<suite, exit, emu, told, t05, interrupted, grades, history>>
  PROVE  IInv'
<1>1. pc \in Busy
  BY DEF Busy
<1>2. /\ r.phase \in {"run", "stop"} /\ r.gdb \in Emulators \cup {Closed}
      /\ ~r.proc => pipe = <<>> /\ emu[r.me] = "gone"
      /\ r.me \in history.attached => r.gdb # None
  BY <1>1, Running
<1>3. \A e \in Emulators : (Alive(e)' => Alive(e)) /\ (emu[e] # "none" => emu'[e] # "none")
  BY DEF Alive
<1>4. Range(<<>>) = {} /\ <<>> \in Seq(Line)
  BY DEF Range
<1>5. CASE Handled("qemu", [run EXCEPT !.buf = <<>>])
  <2>1. /\ r' = [run EXCEPT !.buf = <<>>, !.rset = r.rset \ {"qemu"}]
        /\ pc' \in {"react", "handle"}
    BY <1>5 DEF Handled
  <2>2. /\ r' \in Runners /\ r'.me = r.me /\ r'.phase = r.phase /\ r'.proc = r.proc
        /\ r'.buf = <<>> /\ r'.output = run.output /\ r'.raised = r.raised
        /\ r'.gdb = r.gdb /\ r'.rset = r.rset \ {"qemu"}
    BY <1>4, <2>1 DEF Runners
  <2>3. pc' \in Busy
    BY <2>1 DEF Busy
  <2>4. Shape'
    BY <2>2, <2>3 DEF IInv, Shape
  <2>5. Connections'
    BY <1>1, <1>2, <2>1, <2>2, <2>3 DEF IInv, Connections, Alive
  <2>6. Ending'
    BY <1>1, <2>1, <2>2, <2>3 DEF IInv, Ending, Cut, Stopped, Task
  <2>7. ForeignOnlyLate'
    BY <2>2 DEF IInv, ForeignOnlyLate
  <2>8. r'.me \in history'.attached => r'.gdb # None
    BY <1>2, <2>2
  <2>9. /\ r'.output \cup Range(r'.buf) \cup Range(pipe')
             \subseteq r.output \cup Range(r.buf) \cup Range(pipe) \cup {Make}
        /\ r.output \cup Range(pipe) \subseteq r'.output \cup Range(pipe')
    BY <1>4, <2>2
  <2> QED BY <1>1, <1>3, <2>2, <2>3, <2>4, <2>5, <2>6, <2>7, <2>8, <2>9, RunGoesOn
<1>6. ASSUME NEW l \in StopLines, NEW u \in Seq(Line), l \in Range(b),
             Range(u) \subseteq Range(b), Leave([run EXCEPT !.buf = u])
      PROVE  IInv'
  <2> DEFINE last == [run EXCEPT !.buf = u]
  <2>1. /\ last \in Runners /\ last.me = r.me /\ last.phase = r.phase /\ last.proc = r.proc
        /\ last.buf = u /\ last.output = run.output /\ last.raised = r.raised
        /\ last.gdb = r.gdb
    BY <1>6 DEF Runners
  <2>2. Leave(last)
    BY <1>6
  <2> HIDE DEF last
  <2>3. \/ r.phase = "run" /\ r' = last /\ pc' = "finally"
        \/ r.phase = "stop" /\ r' = [last EXCEPT !.gdb = Closed] /\ pc' = "wait"
    BY <1>2, <2>1, <2>2, Leaves
  <2>4. /\ r' \in Runners /\ r'.me = r.me /\ r'.phase = r.phase /\ r'.proc = r.proc
        /\ r'.buf = u /\ r'.output = run.output /\ r'.raised = r.raised
        /\ (r'.gdb = r.gdb /\ pc' = "finally" /\ r.phase # "stop")
           \/ (r'.gdb = Closed /\ pc' = "wait" /\ r.phase = "stop")
    BY <2>1, <2>3 DEF Runners
  <2>5. pc' \in Busy
    BY <2>4 DEF Busy
  <2>6. Shape'
    BY <2>4, <2>5 DEF IInv, Shape
  <2>7. Connections'
    BY <1>1, <1>2, <2>4, <2>5, Numbered DEF IInv, Connections, Alive
  <2>8. Cut'
    <3>1. Owned(Task)
      BY <1>1, InRun DEF IInv, Held
    <3>2. l # Make /\ l \in Range(r.buf) \cup Range(pipe)
      BY <1>6, Registered
    <3>3. <<Task, l>> \in history.shown
      BY <3>1, <3>2 DEF Owned
    <3> QED BY <1>6, <3>3 DEF Cut, Stopped, Task
  <2>9. Ending'
    BY <2>8 DEF Ending
  <2>10. ForeignOnlyLate'
    BY <2>4, Numbered DEF IInv, ForeignOnlyLate
  <2>11. r'.me \in history'.attached => r'.gdb # None
    BY <1>2, <2>4, Numbered
  <2>12. /\ r'.output \cup Range(r'.buf) \cup Range(pipe')
              \subseteq r.output \cup Range(r.buf) \cup Range(pipe) \cup {Make}
         /\ r.output \cup Range(pipe) \subseteq r'.output \cup Range(pipe')
    BY <1>6, <2>4
  <2> QED
    BY <1>1, <1>3, <2>4, <2>5, <2>6, <2>7, <2>9, <2>10, <2>11, <2>12, RunGoesOn
<1> QED BY <1>5, <1>6, StopsOnLine

\* The grader reads what is in the pipe, or learns that nobody will print more.
LEMMA ReadQemuStep == ASSUME IInv, ReadQemu PROVE IInv'
<1>1. /\ pc = "handle" /\ pc \in Busy /\ "qemu" \in r.rset
      /\ UNCHANGED <<suite, exit, emu, told, t05, interrupted, grades, history>>
  BY DEF ReadQemu, Busy, user
<1>2. /\ r \in Runners /\ r.phase \in {"start", "run", "stop"} /\ r.buf \in Seq(Line)
      /\ pipe \in Seq(Line)
      /\ r.phase = "start" => r.gdb = None
      /\ r.phase # "start" => r.gdb \in Emulators \cup {Closed}
      /\ ~r.proc => pipe = <<>> /\ emu[r.me] = "gone"
      /\ r.output \subseteq Line
      /\ r.me \in history.attached => r.gdb # None
  BY <1>1, Running
<1>3. \A e \in Emulators : (Alive(e)' => Alive(e)) /\ (emu[e] # "none" => emu'[e] # "none")
  BY <1>1 DEF Alive
<1>4. Len(pipe) <= PIPE /\ PIPE \in Nat
  BY GraderAssumption DEF IInv, Shape
<1>5. ASSUME NEW k \in 1 .. Len(pipe),
             LET buf == SubSeq(pipe, 1, k)
                 run == [r EXCEPT !.output = @ \cup Range(buf)] IN
             /\ pipe' = SubSeq(pipe, k + 1, Len(pipe))
             /\ IF r.phase = "start" THEN pc' = "connect" /\ r' = run
                                     ELSE StopOnLine(r.buf \o buf, run)
      PROVE  IInv'
  <2> DEFINE buf == SubSeq(pipe, 1, k)
             run == [r EXCEPT !.output = @ \cup Range(buf)]
             b == r.buf \o buf
  <2>1. /\ pipe' = SubSeq(pipe, k + 1, Len(pipe))
        /\ r.phase = "start" => pc' = "connect" /\ r' = run
        /\ r.phase # "start" => StopOnLine(b, run)
    BY <1>5
  <2>2. k \in 0 .. Len(pipe) /\ Len(pipe) \in Nat
    BY <1>2
  <2>3. /\ buf \in Seq(Line) /\ pipe' \in Seq(Line) /\ Len(pipe') <= Len(pipe)
        /\ Range(pipe) = Range(buf) \cup Range(pipe')
    BY <1>2, <2>1, <2>2, CutInTwo
  <2>4. Len(pipe') <= PIPE
    <3>1. Len(pipe') \in Nat
      BY <2>3
    <3> QED BY <1>4, <2>2, <2>3, <3>1
  <2>5. pipe # <<>>
    BY <1>2, <1>5
  <2> HIDE DEF buf
  <2>6. Range(buf) \subseteq Line /\ b \in Seq(Line) /\ Range(b) = Range(r.buf) \cup Range(buf)
    BY <1>2, <2>3, Ranges
  <2>7. /\ run \in Runners /\ run.me = r.me /\ run.phase = r.phase /\ run.proc = r.proc
        /\ run.gdb = r.gdb /\ run.rset = r.rset /\ run.raised = r.raised
        /\ run.buf = r.buf /\ run.output = r.output \cup Range(buf)
    BY <1>2, <2>6 DEF Runners
  <2> HIDE DEF run, b
  <2>8. CASE r.phase = "start"
    <3>1. pc' = "connect" /\ r' = run /\ pc' \in Busy
      BY <2>1, <2>8 DEF Busy
    <3>2. Shape'
      BY <1>1, <2>3, <2>4, <2>7, <3>1 DEF IInv, Shape
    <3>3. r.proc
      BY <1>2, <2>5
    <3>4. Connections'
      BY <1>1, <2>7, <2>8, <3>1, <3>3 DEF IInv, Connections, Alive
    <3>5. Ending'
      BY <2>7, <2>8, <3>1 DEF Ending
    <3>6. ForeignOnlyLate'
      BY <1>1, <2>7, <3>1 DEF IInv, ForeignOnlyLate
    <3>7. r'.me \in history'.attached => r'.gdb # None
      BY <1>1, <1>2, <2>7, <3>1
    <3>8. /\ r'.output \cup Range(r'.buf) \cup Range(pipe')
               \subseteq r.output \cup Range(r.buf) \cup Range(pipe) \cup {Make}
          /\ r.output \cup Range(pipe) \subseteq r'.output \cup Range(pipe')
      BY <2>3, <2>7, <3>1
    <3>9. r'.me = r.me
      BY <2>7, <3>1
    <3> QED BY <1>1, <1>3, <3>1, <3>2, <3>4, <3>5, <3>6, <3>7, <3>8, <3>9, RunGoesOn
  <2>9. CASE r.phase # "start"
    <3>1. /\ Range(b) \subseteq Range(r.buf) \cup Range(pipe)
          /\ run.output \cup Range(pipe') = r.output \cup Range(pipe)
          /\ StopOnLine(b, run)
      BY <2>1, <2>3, <2>6, <2>7, <2>9
    <3> QED BY <1>1, <2>3, <2>4, <2>5, <2>6, <2>7, <2>9, <3>1, LineStep
  <2> QED BY <2>8, <2>9
<1>6. CASE /\ pipe = <<>> /\ UNCHANGED pipe
           /\ IF r.phase = "start" THEN Leave(r)
              ELSE IF \E k \in DOMAIN r.buf : r.buf[k] \in StopLines
                     THEN StopOnLine(r.buf, r)
                     ELSE Handled("qemu", [r EXCEPT !.proc = FALSE])
  <2>1. emu[r.me] = "gone"
    BY <1>1, <1>6 DEF IInv, Connections
  <2>2. CASE r.phase = "start"
    <3>1. r' = r /\ pc' = "finally" /\ pc' \in Busy
      BY <1>2, <1>6, <2>2, Leaves DEF Busy
    <3>2. Shape'
      BY <1>1, <1>6, <3>1 DEF IInv, Shape
    <3>3. Connections'
      BY <1>1, <1>6, <2>2, <3>1 DEF IInv, Connections, Alive
    <3>4. Ending'
      BY <1>2, <2>2, <3>1, Numbered DEF Ending
    <3>5. ForeignOnlyLate'
      BY <1>1, <3>1 DEF IInv, ForeignOnlyLate
    <3> QED BY <1>1, <1>2, <1>3, <1>6, <3>1, <3>2, <3>3, <3>4, <3>5, RunGoesOn
  <2>3. CASE r.phase # "start" /\ \E k \in DOMAIN r.buf : r.buf[k] \in StopLines
    <3>1. StopOnLine(r.buf, r) /\ pipe' = <<>>
      BY <1>6, <2>3
    <3> QED BY <1>1, <1>2, <1>4, <1>6, <2>3, <3>1, LineStep
  <2>4. CASE r.phase # "start" /\ ~\E k \in DOMAIN r.buf : r.buf[k] \in StopLines
    <3>1. /\ r' = [r EXCEPT !.proc = FALSE, !.rset = r.rset \ {"qemu"}]
          /\ pc' \in {"react", "handle"} /\ pipe' = <<>>
      BY <1>6, <2>4 DEF Handled
    <3>2. /\ r' \in Runners /\ r'.me = r.me /\ r'.phase = r.phase
          /\ r'.buf = r.buf /\ r'.output = r.output /\ r'.raised = r.raised
          /\ r'.gdb = r.gdb /\ r'.rset = r.rset \ {"qemu"}
      BY <1>2, <3>1 DEF Runners
    <3>3. pc' \in Busy
      BY <3>1 DEF Busy
    <3>4. Shape'
      BY <1>1, <1>6, <3>2, <3>3 DEF IInv, Shape
    <3>5. Connections'
      BY <1>1, <2>1, <2>4, <3>1, <3>2, <3>3 DEF IInv, Connections, Alive
    <3>6. Ending'
      BY <1>1, <3>1, <3>2, <3>3 DEF IInv, Ending, Cut, Stopped, Task
    <3>7. ForeignOnlyLate'
      BY <1>1, <3>2 DEF IInv, ForeignOnlyLate
    <3> QED BY <1>1, <1>2, <1>3, <1>6, <3>2, <3>3, <3>4, <3>5, <3>6, <3>7, RunGoesOn
  <2> QED BY <2>2, <2>3, <2>4
<1> QED BY <1>5, <1>6 DEF ReadQemu

\* The stub reports the breakpoint, or is gone.
LEMMA ReadGdbStep == ASSUME IInv, ReadGdb PROVE IInv'
<1>1. /\ pc = "handle" /\ pc \in Busy /\ "gdb" \in r.rset
      /\ UNCHANGED <<suite, exit, emu, told, pipe, interrupted, grades, history>>
      /\ \/ t05 /\ t05' = FALSE /\ Leave(r)
         \/ Handled("gdb", [r EXCEPT !.gdb = Closed]) /\ t05' = t05
  BY DEF ReadGdb, Busy, user
<1>2. /\ r \in Runners /\ r.phase \in {"start", "run", "stop"}
      /\ r.phase = "start" => r.gdb = None
      /\ r.me \in history.attached => r.gdb # None
  BY <1>1, Running
<1>3. r.gdb \in Emulators /\ r.phase # "start"
  BY <1>1, <1>2, Numbered DEF IInv, Connections
<1>4. \A e \in Emulators : (Alive(e)' => Alive(e)) /\ (emu[e] # "none" => emu'[e] # "none")
  BY <1>1 DEF Alive
<1>5. CASE t05 /\ t05' = FALSE /\ Leave(r)
  <2>1. \/ r.phase = "run" /\ r' = r /\ pc' = "finally"
        \/ r.phase = "stop" /\ r' = [r EXCEPT !.gdb = Closed] /\ pc' = "wait"
    BY <1>2, <1>3, <1>5, Leaves
  <2>2. /\ r' \in Runners /\ r'.me = r.me /\ r'.phase = r.phase /\ r'.proc = r.proc
        /\ r'.buf = r.buf /\ r'.output = r.output /\ r'.raised = r.raised
        /\ (r'.gdb = r.gdb /\ pc' = "finally" /\ r.phase = "run")
           \/ (r'.gdb = Closed /\ pc' = "wait" /\ r.phase = "stop")
    BY <1>2, <2>1 DEF Runners
  <2>3. pc' \in Busy
    BY <2>2 DEF Busy
  <2>4. Shape'
    BY <1>1, <1>5, <2>2, <2>3 DEF IInv, Shape
  <2>5. Connections'
    BY <1>1, <1>5, <2>2, <2>3, Numbered DEF IInv, Connections, Alive
  <2>6. Ending'
    <3>1. CASE pc' = "finally"
      <4>1. emu'[r'.gdb] # "running"
        BY <1>1, <1>3, <1>5, <2>2, <3>1 DEF IInv, Connections
      <4> QED BY <1>5, <3>1, <4>1 DEF Ending
    <3>2. CASE pc' = "wait"
      <4>1. Cut
        BY <1>1, <1>3, <1>5, <2>2, <3>2 DEF IInv, Ending
      <4>2. Cut'
        BY <1>1, <2>2, <4>1 DEF Cut, Stopped, Task
      <4> QED BY <4>2 DEF Ending
    <3> QED BY <2>2, <3>1, <3>2
  <2>7. ForeignOnlyLate'
    BY <1>1, <2>2, Numbered DEF IInv, ForeignOnlyLate
  <2>8. r'.me \in history'.attached => r'.gdb # None
    BY <1>1, <1>2, <2>2, Numbered
  <2> QED BY <1>1, <1>4, <2>2, <2>3, <2>4, <2>5, <2>6, <2>7, <2>8, RunGoesOn
<1>6. CASE Handled("gdb", [r EXCEPT !.gdb = Closed]) /\ t05' = t05
  <2>1. /\ r' = [r EXCEPT !.gdb = Closed, !.rset = r.rset \ {"gdb"}]
        /\ pc' \in {"react", "handle"}
    BY <1>6 DEF Handled
  <2>2. /\ r' \in Runners /\ r'.me = r.me /\ r'.phase = r.phase /\ r'.proc = r.proc
        /\ r'.buf = r.buf /\ r'.output = r.output /\ r'.raised = r.raised
        /\ r'.gdb = Closed /\ r'.rset = r.rset \ {"gdb"}
    BY <1>2, <2>1 DEF Runners
  <2>3. pc' \in Busy
    BY <2>1 DEF Busy
  <2>4. Shape'
    BY <1>1, <1>6, <2>2, <2>3 DEF IInv, Shape
  <2>5. Connections'
    BY <1>1, <1>3, <1>6, <2>1, <2>2, <2>3, Numbered DEF IInv, Connections, Alive
  <2>6. Ending'
    BY <2>1, <2>2, Numbered DEF Ending
  <2>7. ForeignOnlyLate'
    BY <2>2, Numbered DEF ForeignOnlyLate
  <2>8. r'.me \in history'.attached => r'.gdb # None
    BY <2>2, Numbered
  <2> QED BY <1>1, <1>4, <2>2, <2>3, <2>4, <2>5, <2>6, <2>7, <2>8, RunGoesOn
<1> QED BY <1>1, <1>5, <1>6

-----------------------------------------------------------------------------
(* Runner.run_qemu                                                         *)

\* The grader connects to whoever holds the port, or reaches its deadline.
LEMMA ConnectStep == ASSUME IInv, Connect PROVE IInv'
<1>1. /\ pc = "connect" /\ pc \in Busy
      /\ UNCHANGED <<suite, exit, emu, told, pipe, t05, interrupted, grades>>
  BY DEF Connect, Busy, world, user
<1>2. /\ r \in Runners /\ history \in Histories /\ r.phase = "start"
      /\ r.gdb = None /\ r.me \in Emulators
      /\ r.me \in history.attached => r.gdb # None
  BY <1>1, Running DEF IInv, Connections
<1>3. \A e \in Emulators : (Alive(e)' => Alive(e)) /\ (emu[e] # "none" => emu'[e] # "none")
  BY <1>1 DEF Alive
<1>4. ASSUME NEW e \in Serving, Leave([r EXCEPT !.gdb = e]),
             history' = [history EXCEPT !.attached = @ \cup ({e} \cap {r.me})]
      PROVE  IInv'
  <2> DEFINE run == [r EXCEPT !.gdb = e]
  <2>1. e \in Emulators /\ Alive(e) /\ e # None
    BY Numbered DEF Serving, Alive
  <2>2. /\ run \in Runners /\ run.me = r.me /\ run.phase = "start" /\ run.proc = r.proc
        /\ run.buf = r.buf /\ run.output = r.output /\ run.raised = r.raised /\ run.gdb = e
    BY <1>2, <2>1 DEF Runners
  <2>3. Leave(run)
    BY <1>4
  <2> HIDE DEF run
  <2>4. r' = run /\ pc' = "up" /\ pc' \in Busy
    BY <2>1, <2>2, <2>3, Leaves DEF Busy
  <2>5. /\ history' \in Histories /\ history'.shown = history.shown
        /\ history'.cut = history.cut /\ history'.early = history.early
        /\ history'.attached = history.attached \cup ({e} \cap {r.me})
    BY <1>2, <1>4 DEF Histories
  <2>6. Shape'
    BY <1>1, <2>2, <2>4, <2>5 DEF IInv, Shape
  <2>7. Connections'
    BY <1>1, <1>2, <2>1, <2>2, <2>4 DEF IInv, Connections, Alive
  <2>8. Ending'
    BY <2>2, <2>4 DEF Ending
  <2>9. ForeignOnlyLate'
    <3>1. e = r.me \/ e \in history.early
      BY <1>2, <2>1, Numbered DEF IInv, Others
    <3> QED BY <2>2, <2>4, <2>5, <3>1 DEF ForeignOnlyLate
  <2>10. r'.me \in history'.attached => r'.gdb # None
    BY <2>1, <2>2, <2>4
  <2> QED BY <1>1, <1>3, <2>2, <2>4, <2>5, <2>6, <2>7, <2>8, <2>9, <2>10, RunGoesOn
<1>5. CASE /\ r' = [r EXCEPT !.expired = TRUE, !.rset = {}] /\ pc' = "react"
           /\ UNCHANGED history
  <2>1. /\ r' \in Runners /\ r'.me = r.me /\ r'.phase = r.phase /\ r'.proc = r.proc
        /\ r'.buf = r.buf /\ r'.output = r.output /\ r'.raised = r.raised
        /\ r'.gdb = r.gdb
    BY <1>2, <1>5 DEF Runners
  <2>2. pc' \in Busy
    BY <1>5 DEF Busy
  <2>3. Shape'
    BY <1>1, <1>5, <2>1, <2>2 DEF IInv, Shape
  <2>4. Connections'
    BY <1>1, <1>2, <1>5, <2>1, <2>2 DEF IInv, Connections, Alive
  <2>5. Ending'
    BY <1>2, <1>5, <2>1 DEF Ending
  <2>6. ForeignOnlyLate'
    BY <1>5, <2>1 DEF IInv, ForeignOnlyLate
  <2> QED BY <1>1, <1>2, <1>3, <1>5, <2>1, <2>2, <2>3, <2>4, <2>5, <2>6, RunGoesOn
<1> QED BY <1>4, <1>5 DEF Connect

\* Nothing ran before the grader told a stub to continue.
LEMMA ContinueStep == ASSUME IInv, Continue PROVE IInv'
<1>1. /\ pc = "up" /\ pc \in Busy /\ pc' = "react" /\ pc' \in Busy
      /\ r' = [r EXCEPT !.phase = "run", !.expired = FALSE, !.rset = {}]
      /\ emu' = [emu EXCEPT ![r.gdb] = IF Alive(r.gdb) THEN "running" ELSE @]
      /\ UNCHANGED <<suite, exit, told, pipe, t05, interrupted, grades, history>>
  BY DEF Continue, Busy, user
<1>2. /\ r \in Runners /\ r.phase = "start" /\ r.gdb \in Emulators /\ r.gdb # None
      /\ r.me \in Emulators /\ ~t05 /\ emu[r.me] # "none"
      /\ ~r.proc => pipe = <<>> /\ emu[r.me] = "gone"
  BY <1>1, Running, Numbered DEF IInv, Connections
<1>3. /\ emu \in [Emulators -> {"none", "building", "listening", "running", "stopped", "gone"}]
  BY DEF IInv, Shape
<1>4. /\ r' \in Runners /\ r'.me = r.me /\ r'.phase = "run" /\ r'.proc = r.proc
      /\ r'.buf = r.buf /\ r'.output = r.output /\ r'.raised = r.raised
      /\ r'.gdb = r.gdb
  BY <1>1, <1>2 DEF Runners
<1>5. \A e \in Emulators : /\ Alive(e)' => Alive(e)
                           /\ emu[e] # "none" => emu'[e] # "none"
                           /\ emu[e] = "gone" => emu'[e] = "gone"
  BY <1>1, <1>2, <1>3 DEF Alive
<1>6. emu' \in [Emulators -> {"none", "building", "listening", "running", "stopped", "gone"}]
  BY <1>1, <1>2, <1>3
<1>7. Shape'
  BY <1>1, <1>4, <1>6 DEF IInv, Shape
<1>8. Connections'
  BY <1>1, <1>2, <1>4, <1>5, Numbered DEF IInv, Connections
<1>9. Ending'
  BY <1>1, <1>4 DEF Ending
<1>10. ForeignOnlyLate'
  BY <1>1, <1>4 DEF IInv, ForeignOnlyLate
<1> QED BY <1>1, <1>2, <1>4, <1>5, <1>7, <1>8, <1>9, <1>10, RunGoesOn

\* A monitor that fails does so before the kernel runs.
LEMMA MonitorRaisesStep == ASSUME IInv, MonitorRaises PROVE IInv'
<1>1. /\ pc = "up" /\ pc \in Busy /\ pc' = "finally" /\ pc' \in Busy
      /\ r' = [r EXCEPT !.raised = "assertion"] \/ r' = [r EXCEPT !.raised = "error"]
      /\ UNCHANGED <<suite, exit, emu, told, pipe, t05, interrupted, grades, history>>
  BY DEF MonitorRaises, Busy, world, user
<1>2. /\ r \in Runners /\ r.phase = "start" /\ r.gdb \in Emulators /\ r.gdb # None
      /\ ~t05 /\ \A e \in Emulators : emu[e] # "running"
  BY <1>1, Running, Numbered DEF IInv, Connections
<1>3. /\ r' \in Runners /\ r'.me = r.me /\ r'.phase = r.phase /\ r'.proc = r.proc
      /\ r'.buf = r.buf /\ r'.output = r.output /\ r'.raised # "interrupt"
      /\ r'.gdb = r.gdb
  BY <1>1, <1>2 DEF Runners
<1>4. \A e \in Emulators : (Alive(e)' => Alive(e)) /\ (emu[e] # "none" => emu'[e] # "none")
  BY <1>1 DEF Alive
<1>5. Shape'
  BY <1>1, <1>3 DEF IInv, Shape
<1>6. Connections'
  BY <1>1, <1>3 DEF IInv, Connections, Alive
<1>7. Ending'
  BY <1>1, <1>2 DEF Ending
<1>8. ForeignOnlyLate'
  BY <1>1, <1>3 DEF IInv, ForeignOnlyLate
<1> QED BY <1>1, <1>2, <1>3, <1>4, <1>5, <1>6, <1>7, <1>8, RunGoesOn

\* A grader that exits leaves everything as it is.
LEMMA ExitStep ==
  ASSUME IInv, pc' = "exited", suite' = suite, emu' = emu, pipe' = pipe, t05' = t05,
         history' = history, grades' = grades, r' \in Runners, r'.me = r.me,
         r'.gdb = r.gdb, r'.raised = r.raised, told \subseteq told', told' \subseteq Emulators,
         exit' \in {0, 1}, interrupted' \in BOOLEAN, interrupted => interrupted',
         \A e \in history.attached : Alive(e) => e \in told',
         ZeroMeansPassed'
  PROVE  IInv'
<1>1. Shape'
  BY DEF IInv, Shape, Idle
<1>2. Stack' /\ Calls' /\ Score' /\ PassedWasShown' /\ FailedWasCut'
  BY SuiteStays, ResultsStay DEF IInv
<1>3. pc' \notin Busy /\ pc' \in Idle
  BY DEF Busy, Idle
<1>4. Connections' /\ Attached' /\ Others'
  BY <1>3 DEF IInv, Connections, Attached, Others, Alive
<1>5. Held' /\ Shown' /\ Ending'
  BY <1>3 DEF IInv, Held, Shown, Ending, Holds
<1>6. LeftOnlyUnconnected' /\ ForeignOnlyLate'
  BY DEF IInv, LeftOnlyUnconnected, ForeignOnlyLate, Alive
<1> QED BY <1>1, <1>2, <1>4, <1>5, <1>6 DEF IInv

\* The shutdown tells QEMU to end, unless the grader never connected.
LEMMA ShutdownStep == ASSUME IInv, Shutdown PROVE IInv'
<1>1. /\ pc = "finally" /\ pc \in Busy
      /\ UNCHANGED <<suite, emu, pipe, t05, interrupted, grades, history>>
      /\ \/ r.gdb = None /\ Exit(1) /\ r' = r /\ told' = told
         \/ /\ r.gdb # None /\ pc' = "react"
            /\ r' = [r EXCEPT !.phase = "stop", !.expired = FALSE, !.rset = {}]
            /\ told' = IF r.proc THEN told \cup {r.me} ELSE told
            /\ exit' = exit
  BY DEF Shutdown, Busy, user
<1>2. /\ r \in Runners /\ r.me \in Emulators /\ told \subseteq Emulators
      /\ interrupted \in BOOLEAN
      /\ r.me \in history.attached => r.gdb # None
  BY <1>1, Running DEF IInv, Shape
<1>3. CASE r.gdb = None /\ Exit(1) /\ r' = r /\ told' = told
  <2>1. pc' = "exited" /\ exit' = 1
    BY <1>3 DEF Exit
  <2>2. ZeroMeansPassed'
    BY <2>1 DEF ZeroMeansPassed
  <2>3. \A e \in history.attached : Alive(e) => e \in told'
    BY <1>2, <1>3 DEF IInv, LeftOnlyUnconnected
  <2> QED BY <1>1, <1>2, <1>3, <2>1, <2>2, <2>3, ExitStep
<1>4. CASE /\ r.gdb # None /\ pc' = "react"
           /\ r' = [r EXCEPT !.phase = "stop", !.expired = FALSE, !.rset = {}]
           /\ told' = IF r.proc THEN told \cup {r.me} ELSE told
           /\ exit' = exit
  <2>1. /\ r' \in Runners /\ r'.me = r.me /\ r'.phase = "stop" /\ r'.proc = r.proc
        /\ r'.buf = r.buf /\ r'.output = r.output /\ r'.raised = r.raised
        /\ r'.gdb = r.gdb
    BY <1>2, <1>4 DEF Runners
  <2>2. pc' \in Busy
    BY <1>4 DEF Busy
  <2>3. told \subseteq told' /\ told' \subseteq Emulators
    BY <1>2, <1>4
  <2>4. Shape'
    BY <1>1, <1>4, <2>1, <2>2, <2>3 DEF IInv, Shape
  <2>5. Connections'
    BY <1>1, <1>4, <2>1, <2>2 DEF IInv, Connections, Alive
  <2>6. Ending'
    BY <1>1, <1>4, <2>1 DEF IInv, Ending, Cut, Stopped, Task
  <2>7. ForeignOnlyLate'
    BY <1>1, <2>1 DEF IInv, ForeignOnlyLate
  <2>8. \A e \in Emulators : (Alive(e)' => Alive(e)) /\ (emu[e] # "none" => emu'[e] # "none")
    BY <1>1 DEF Alive
  <2> QED BY <1>1, <1>2, <1>4, <2>1, <2>2, <2>3, <2>4, <2>5, <2>6, <2>7, <2>8, RunGoesOn
<1> QED BY <1>1, <1>3, <1>4

\* Ctrl-C ends the run or the grader, and reaches the emulator by itself.
LEMMA InterruptStep == ASSUME IInv, Interrupt PROVE IInv'
<1>1. /\ pc \notin Idle /\ interrupted' = TRUE
      /\ told' = IF r.me # 0 /\ Alive(r.me) THEN told \cup {r.me} ELSE told
      /\ UNCHANGED <<suite, emu, pipe, t05, grades, history>>
      /\ \/ /\ pc \in {"react", "handle", "connect", "up"} /\ r.phase # "stop"
            /\ r' = [r EXCEPT !.raised = "interrupt"] /\ pc' = "finally" /\ exit' = exit
         \/ (ExitByScore \/ Exit(1)) /\ r' = r
  BY DEF Interrupt, Idle
<1>2. /\ r \in Runners /\ r.me \in Emulators \cup {0} /\ told \subseteq Emulators
  BY DEF IInv, Shape, Runners
<1>3. told \subseteq told' /\ told' \subseteq Emulators
  BY <1>1, <1>2
<1>4. CASE /\ pc \in {"react", "handle", "connect", "up"} /\ r.phase # "stop"
           /\ r' = [r EXCEPT !.raised = "interrupt"] /\ pc' = "finally" /\ exit' = exit
  <2>1. pc \in Busy /\ pc' \in Busy
    BY <1>4 DEF Busy
  <2>2. /\ r' \in Runners /\ r'.me = r.me /\ r'.phase = r.phase /\ r'.proc = r.proc
        /\ r'.buf = r.buf /\ r'.output = r.output /\ r'.raised = "interrupt"
        /\ r'.gdb = r.gdb
    BY <1>2, <1>4 DEF Runners
  <2>3. Shape'
    BY <1>1, <1>3, <1>4, <2>1, <2>2 DEF IInv, Shape
  <2>4. Connections'
    BY <1>1, <1>4, <2>1, <2>2 DEF IInv, Connections, Alive
  <2>5. Ending'
    BY <1>4, <2>2 DEF Ending, Cut
  <2>6. ForeignOnlyLate'
    BY <1>1, <2>2 DEF IInv, ForeignOnlyLate
  <2>7. \A e \in Emulators : (Alive(e)' => Alive(e)) /\ (emu[e] # "none" => emu'[e] # "none")
    BY <1>1 DEF Alive
  <2>8. r'.me \in history'.attached => r'.gdb # None
    BY <1>1, <2>2 DEF IInv, Attached
  <2> QED BY <1>1, <1>3, <2>1, <2>2, <2>3, <2>4, <2>5, <2>6, <2>7, <2>8, RunGoesOn
<1>5. CASE (ExitByScore \/ Exit(1)) /\ r' = r
  <2>1. pc' = "exited" /\ exit' \in {0, 1}
    BY <1>5 DEF ExitByScore, Exit
  <2>2. ZeroMeansPassed'
    BY <1>1 DEF ZeroMeansPassed
  <2>3. \A e \in history.attached : Alive(e) => e \in told'
    <3>1. \A e \in history.attached : e # 0
      BY Numbered DEF IInv, Shape, Histories
    <3> QED BY <1>1, <1>3, <3>1 DEF IInv, LeftOnlyUnconnected
  <2> QED BY <1>1, <1>2, <1>3, <1>5, <2>1, <2>2, <2>3, ExitStep
<1> QED BY <1>1, <1>4, <1>5

\* An emulator that holds the port stops the grader.
LEMMA ProbeStep == ASSUME IInv, Probe PROVE IInv'
<1>1. /\ pc = "body" /\ pc' = "exited" /\ exit' = 1
      /\ UNCHANGED <<suite, r, emu, told, pipe, t05, interrupted, grades, history>>
  BY DEF Probe, Exit, world, user
<1>2. ZeroMeansPassed'
  BY <1>1 DEF ZeroMeansPassed
<1>3. \A e \in history.attached : Alive(e) => e \in told'
  BY <1>1 DEF IInv, LeftOnlyUnconnected
<1>4. r \in Runners /\ told \subseteq Emulators /\ interrupted \in BOOLEAN
  BY DEF IInv, Shape
<1> QED BY <1>1, <1>2, <1>3, <1>4, ExitStep

\* A run starts with an emulator and a Runner of its own.
LEMMA SpawnStep == ASSUME IInv, Spawn PROVE IInv'
<1>1. PICK e \in Emulators : /\ emu[e] = "none" /\ emu' = [emu EXCEPT ![e] = "building"]
                             /\ r' = Runner(e)
  BY DEF Spawn
<1>2. /\ pc = "body" /\ Task \in RunsQemu /\ Serving = {}
      /\ history' = [history EXCEPT !.early = {f \in Emulators : emu[f] = "building"}]
      /\ pc' = "react" /\ pc' \in Busy /\ pipe' = <<>> /\ t05' = FALSE
      /\ UNCHANGED <<suite, exit, told, interrupted, grades>>
  BY DEF Spawn, Task, Busy, user
<1>3. /\ emu \in [Emulators -> {"none", "building", "listening", "running", "stopped", "gone"}]
      /\ history \in Histories
  BY DEF IInv, Shape
<1>4. e # 0 /\ <<>> \in Seq(Line) /\ Range(<<>>) = {}
  BY Numbered DEF Range
<1>5. /\ r'.me = e /\ r'.phase = "start" /\ r'.proc /\ r'.gdb = None /\ r'.buf = <<>>
      /\ r'.output = {} /\ r'.raised = "nothing" /\ r' \in Runners
  BY <1>1, <1>4 DEF Runner, Runners
<1>6. /\ emu'[e] = "building" /\ \A f \in Emulators : f # e => emu'[f] = emu[f]
      /\ emu' \in [Emulators -> {"none", "building", "listening", "running", "stopped", "gone"}]
  BY <1>1, <1>3
<1>7. \A f \in Emulators : emu[f] \in {"none", "building", "gone"}
  BY <1>2, <1>3 DEF Serving
<1>8. /\ history' \in Histories /\ history'.shown = history.shown
      /\ history'.cut = history.cut /\ history'.attached = history.attached
      /\ history'.early = {f \in Emulators : emu[f] = "building"}
  BY <1>2, <1>3 DEF Histories
<1>9. Shape'
  <2>1. Len(pipe') <= PIPE
    BY <1>2, GraderAssumption
  <2> QED BY <1>2, <1>4, <1>5, <1>6, <1>8, <2>1 DEF IInv, Shape
<1>10. Stack' /\ Calls' /\ Score' /\ PassedWasShown' /\ FailedWasCut'
  BY <1>2, <1>8, SuiteStays, ResultsStay DEF IInv
<1>11. Connections'
  BY <1>2, <1>4, <1>5, <1>6, <1>7, Numbered DEF Connections
<1>12. history.attached \subseteq Emulators /\ e \notin history.attached
  BY <1>1, <1>3 DEF IInv, Attached, Histories
<1>13. Attached'
  BY <1>2, <1>5, <1>6, <1>8, <1>12 DEF IInv, Attached
<1>14. Others'
  BY <1>5, <1>6, <1>7, <1>8 DEF Others, Alive
<1>15. LeftOnlyUnconnected'
  BY <1>2, <1>5, <1>6, <1>8, <1>12 DEF IInv, LeftOnlyUnconnected, Alive
<1>16. ForeignOnlyLate' /\ ZeroMeansPassed' /\ Ending'
  BY <1>2, <1>5, Numbered DEF ForeignOnlyLate, ZeroMeansPassed, Ending
<1>17. Shown'
  BY <1>2, <1>8 DEF IInv, Shown
<1>18. Held'
  <2>1. pc \notin Idle \cup {"make", "tests"}
    BY <1>2 DEF Idle
  <2>2. Latest(Task)
    BY <1>2, <2>1, Calling DEF IInv
  <2>3. ASSUME NEW p \in RunsQemu, Holds(p)' PROVE Owned(p)' /\ Read(p)'
    <3>1. Latest(p)
      BY <1>2, <2>3 DEF Holds, Latest
    <3>2. p = Task
      BY <2>2, <3>1, LatestIsOne DEF IInv
    <3>3. \A l : <<p, l>> \notin history.shown
      <4>1. ASSUME NEW l, <<p, l>> \in history.shown PROVE FALSE
        <5>1. <<p, l>>[1] = p
          OBVIOUS
        <5> QED BY <1>2, <3>2, <4>1, <5>1 DEF IInv, Shown
      <4> QED BY <4>1
    <3>4. Owned(p)'
      BY <1>2, <1>4, <1>5 DEF Owned
    <3>5. Read(p)'
      BY <1>8, <3>3 DEF Read
    <3> QED BY <3>4, <3>5
  <2> QED BY <2>3 DEF Held
<1> QED BY <1>9, <1>10, <1>11, <1>13, <1>14, <1>15, <1>16, <1>17, <1>18 DEF IInv

-----------------------------------------------------------------------------
(* run_tests and run_test                                                  *)

\* What is known of the suite.
LEMMA SuiteIs ==
  ASSUME IInv
  PROVE  /\ suite \in Suites /\ suite.limit \subseteq Tests
         /\ suite.next \in 1 .. Len(TESTS) + 1 /\ suite.frames \in Seq(Tests)
         /\ suite.complete \subseteq Tests /\ suite.total \in Nat /\ suite.possible \in Nat
         /\ suite.passed \subseteq Tests /\ suite.failed \subseteq Tests
         /\ suite.total = Worth(suite.passed) /\ suite.possible = Worth(Ended)
         /\ Ended \subseteq suite.complete
BY DEF IInv, Shape, Suites, Score, Calls

\* The result of the test on top of the stack.
LEMMA Results ==
  ASSUME IInv, NEW ok \in BOOLEAN, Result(ok),
         (pc = "body" /\ Task \notin RunsQemu) \/ pc = "wait"
  PROVE  /\ Stack' /\ Calls' /\ Score' /\ suite' \in Suites
         /\ suite'.limit = suite.limit /\ suite'.next = suite.next
         /\ suite'.complete = suite.complete
         /\ suite'.passed = IF ok THEN suite.passed \cup {Task} ELSE suite.passed
         /\ suite'.failed = IF ok THEN suite.failed ELSE suite.failed \cup {Task}
         /\ pc' = "tests" \/ (pc' = "body" /\ Task' \notin RunsQemu)
<1> DEFINE t == Task
<1>1. /\ pc \notin Idle \cup {"make", "tests"} /\ pc \in Busy \cup {"body"}
      /\ pc = "wait" => Task \in RunsQemu
  BY DEF Idle, Busy, IInv, Stack
<1>2. /\ t \in Tests /\ Current \in Tests
      /\ \/ suite.frames = <<Current>> /\ t = Current /\ Range(suite.frames) = {Current}
         \/ /\ Current \notin RunsQemu /\ suite.frames = <<Parent[Current], Current>>
            /\ t = Parent[Current] /\ Range(suite.frames) = {t, Current} /\ t \in RunsQemu
  BY <1>1, Calling DEF IInv
<1>3. t \in suite.complete /\ t \notin Ended /\ suite.complete \ Ended = Range(suite.frames)
  BY <1>1, <1>2 DEF IInv, Calls
<1>4. t \notin RunsQemu => Parent[t] \in Ended
  BY <1>1 DEF IInv, Calls
<1>5. Points[t] \in Nat
  BY <1>2, Registered
<1> DEFINE s == [suite EXCEPT !.possible = @ + Points[t],
                       !.total = @ + (IF ok THEN Points[t] ELSE 0),
                       !.passed = IF ok THEN @ \cup {t} ELSE @,
                       !.failed = IF ok THEN @ ELSE @ \cup {t}]
<1>6. suite' = [s EXCEPT !.frames = Tail(@)]
      /\ pc' = IF Len(s.frames) = 1 THEN "tests" ELSE "body"
  BY DEF Result, Return, Task
<1> HIDE DEF t
<1>7. /\ s \in Suites /\ s.limit = suite.limit /\ s.next = suite.next
      /\ s.frames = suite.frames /\ s.complete = suite.complete
      /\ s.possible = suite.possible + Points[t]
      /\ s.total = suite.total + (IF ok THEN Points[t] ELSE 0)
      /\ s.passed = IF ok THEN suite.passed \cup {t} ELSE suite.passed
      /\ s.failed = IF ok THEN suite.failed ELSE suite.failed \cup {t}
  <2> DEFINE a == suite.possible + Points[t]
             b == suite.total + (IF ok THEN Points[t] ELSE 0)
             p == IF ok THEN suite.passed \cup {t} ELSE suite.passed
             f == IF ok THEN suite.failed ELSE suite.failed \cup {t}
  <2>1. suite \in Suites
    BY SuiteIs
  <2>2. a \in Nat /\ b \in Nat
    BY <1>5, SuiteIs
  <2>3. p \subseteq Tests /\ f \subseteq Tests
    BY <1>2, SuiteIs
  <2>4. s = [suite EXCEPT !.possible = a, !.total = b, !.passed = p, !.failed = f]
    BY DEF s
  <2> HIDE DEF a, b, p, f, s
  <2>5. /\ s \in Suites /\ s.limit = suite.limit /\ s.next = suite.next
        /\ s.frames = suite.frames /\ s.complete = suite.complete
        /\ s.possible = a /\ s.total = b /\ s.passed = p /\ s.failed = f
    BY <2>1, <2>2, <2>3, <2>4 DEF Suites
  <2> QED BY <2>5 DEF a, b, p, f
<1> HIDE DEF s
<1>8. suite.frames # <<>> /\ Tail(suite.frames) \in Seq(Tests)
  <2>1. suite.frames # <<>>
    BY <1>2, Stacks
  <2> QED BY <2>1, SuiteIs
<1>9. /\ suite' \in Suites /\ suite'.limit = suite.limit /\ suite'.next = suite.next
      /\ suite'.frames = Tail(suite.frames) /\ suite'.complete = suite.complete
      /\ suite'.possible = suite.possible + Points[t]
      /\ suite'.total = suite.total + (IF ok THEN Points[t] ELSE 0)
      /\ suite'.passed = IF ok THEN suite.passed \cup {t} ELSE suite.passed
      /\ suite'.failed = IF ok THEN suite.failed ELSE suite.failed \cup {t}
  BY <1>6, <1>7, <1>8 DEF Suites
<1>10. Ended' = Ended \cup {t} /\ Current' = Current
  BY <1>9 DEF Ended, Current
<1>11. Score'
  <2>1. suite'.possible = Worth(Ended')
    BY <1>2, <1>3, <1>9, <1>10, WorthMore, SuiteIs
  <2>2. suite'.total = Worth(suite'.passed)
    <3>1. CASE ok
      <4>1. t \in Tests \ suite.passed
        BY <1>2, <1>3 DEF Ended
      <4>2. Worth(suite.passed \cup {t}) = Worth(suite.passed) + Points[t]
        BY <4>1, WorthMore
      <4> QED BY <1>9, <3>1, <4>2, SuiteIs
    <3>2. CASE ~ok
      BY <1>9, <3>2, SuiteIs
    <3> QED BY <3>1, <3>2
  <2>3. \A S : Worth(S)' = Worth(S)
    BY DEF Worth, Earned
  <2> QED BY <2>1, <2>2 DEF Score, Worth, Earned
<1>12. CASE suite.frames = <<Current>> /\ t = Current /\ Range(suite.frames) = {Current}
  <2>1. suite'.frames = <<>> /\ pc' = "tests"
    BY <1>6, <1>7, <1>9, <1>12, Stacks
  <2>2. Stack'
    BY <2>1 DEF Stack, Busy
  <2>3. Calls'
    <3>1. Ended' \subseteq suite'.complete
      BY <1>3, <1>9, <1>10, SuiteIs
    <3>2. \A u \in suite'.complete : \E n \in 1 .. suite'.next - 1 : TESTS[n] = u
      BY <1>9 DEF IInv, Calls
    <3>3. \A u \in Ended' \ RunsQemu : Parent[u] \in Ended'
      BY <1>4, <1>10 DEF IInv, Calls
    <3>4. suite'.complete \subseteq Ended'
      BY <1>3, <1>9, <1>10, <1>12
    <3>5. \A n \in 1 .. suite'.next - 1 :
            TESTS[n] \in suite'.limit => TESTS[n] \in suite'.complete
      BY <1>1, <1>9 DEF IInv, Calls, Busy
    <3> QED BY <2>1, <3>1, <3>2, <3>3, <3>4, <3>5 DEF Calls, Busy
  <2> QED BY <1>9, <1>11, <2>1, <2>2, <2>3 DEF t
<1>13. CASE /\ Current \notin RunsQemu /\ suite.frames = <<Parent[Current], Current>>
            /\ t = Parent[Current] /\ Range(suite.frames) = {t, Current} /\ t \in RunsQemu
  <2>1. suite'.frames = <<Current>> /\ pc' = "body" /\ Range(suite'.frames) = {Current}
        /\ Task' = Current
    BY <1>6, <1>7, <1>9, <1>13, Stacks DEF Task
  <2>2. Stack'
    <3>1. suite.next > 1
      BY <1>1 DEF IInv, Stack
    <3> QED BY <1>9, <1>10, <2>1, <3>1 DEF Stack, Busy
  <2>3. Calls'
    <3>1. Ended' \subseteq suite'.complete
      BY <1>3, <1>9, <1>10, SuiteIs
    <3>2. \A u \in suite'.complete : \E n \in 1 .. suite'.next - 1 : TESTS[n] = u
      BY <1>9 DEF IInv, Calls
    <3>3. \A u \in Ended' \ RunsQemu : Parent[u] \in Ended'
      BY <1>4, <1>10 DEF IInv, Calls
    <3>4. suite'.complete \ Ended' = Range(suite'.frames)
      BY <1>3, <1>9, <1>10, <1>13, <2>1
    <3>5. \A n \in 1 .. suite'.next - 1 :
            TESTS[n] \in suite'.limit => TESTS[n] \in suite'.complete
      BY <1>1, <1>9 DEF IInv, Calls, Busy
    <3>6. Parent[Task'] \in Ended'
      BY <1>10, <1>13, <2>1
    <3> QED BY <2>1, <3>1, <3>2, <3>3, <3>4, <3>5, <3>6 DEF Calls
  <2> QED BY <1>9, <1>11, <1>13, <2>1, <2>2, <2>3 DEF t
<1> QED BY <1>2, <1>12, <1>13

\* A test finds its line if its parent's run showed it and nothing cut it short.
LEMMA MatchStep == ASSUME IInv, Match PROVE IInv'
<1> DEFINE t == Task
           ok == Task \in r.output
<1>1. /\ pc = "body" /\ t \notin RunsQemu /\ ok \in BOOLEAN /\ Result(ok)
      /\ UNCHANGED <<r, exit, emu, told, pipe, t05, interrupted, grades, history>>
  BY DEF Match, Task, world, user
<1>2. pc \notin Idle \cup {"make", "tests"} /\ pc \notin Busy
  BY <1>1 DEF Idle, Busy
<1>3. /\ t \in Tests /\ t = Current /\ Parent[t] \in RunsQemu /\ Latest(Parent[t])
  BY <1>1, <1>2, Calling DEF IInv
<1>4. t \in Lines /\ t # Make
  BY <1>1, <1>3, Registered
<1>5. Owned(Parent[t]) /\ Read(Parent[t])
  <2>1. Parent[t] \in suite.complete
    BY <1>1 DEF IInv, Calls
  <2>2. Holds(Parent[t])
    BY <1>1, <1>2, <1>3, <2>1 DEF Holds
  <2> QED BY <1>3, <2>2 DEF IInv, Held
<1>6. /\ ok => <<Parent[t], t>> \in history.shown
      /\ ~ok => (<<Parent[t], t>> \in history.shown => Stopped(Parent[t]))
  BY <1>2, <1>4, <1>5 DEF Owned, Read, Unread
<1> HIDE DEF ok
<1>7. /\ Stack' /\ Calls' /\ Score' /\ suite' \in Suites
      /\ suite'.limit = suite.limit /\ suite'.next = suite.next
      /\ suite'.complete = suite.complete
      /\ suite'.passed = IF ok THEN suite.passed \cup {Task} ELSE suite.passed
      /\ suite'.failed = IF ok THEN suite.failed ELSE suite.failed \cup {Task}
      /\ pc' = "tests" \/ (pc' = "body" /\ Task' \notin RunsQemu)
  BY <1>1, Results
<1> HIDE DEF t
<1>8. Shape'
  BY <1>1, <1>7 DEF IInv, Shape
<1>9. PassedWasShown'
  BY <1>1, <1>6, <1>7 DEF IInv, PassedWasShown, t
<1>10. FailedWasCut'
  BY <1>1, <1>6, <1>7 DEF IInv, FailedWasCut, Stopped, t
<1>11. pc' \notin Busy /\ pc' \notin Idle
  BY <1>7 DEF Busy, Idle
<1>12. Held'
  <2>1. ASSUME NEW p \in RunsQemu, Holds(p)' PROVE Owned(p)' /\ Read(p)'
    <3>1. Holds(p)
      BY <1>1, <1>2, <1>7, <2>1 DEF Holds, Latest, t
    <3>2. Owned(p) /\ Read(p)
      BY <3>1 DEF IInv, Held
    <3> QED BY <1>1, <1>2, <1>11, <3>2 DEF Owned, Read, Unread, Stopped
  <2> QED BY <2>1 DEF Held
<1>13. Shown'
  <2>1. history.shown \subseteq RunsQemu \X Lines
    BY DEF IInv, Shape, Histories
  <2> QED BY <1>1, <1>7, <2>1 DEF IInv, Shown
<1>14. Connections'
  BY <1>1, <1>7, <1>11 DEF IInv, Connections, Alive
<1>15. Attached' /\ Others' /\ ForeignOnlyLate'
  BY <1>1, <1>7 DEF IInv, Attached, Others, ForeignOnlyLate, Alive
<1>16. LeftOnlyUnconnected' /\ ZeroMeansPassed' /\ Ending'
  BY <1>1, <1>7, <1>11 DEF IInv, LeftOnlyUnconnected, ZeroMeansPassed, Ending, Alive
<1> QED BY <1>7, <1>8, <1>9, <1>10, <1>12, <1>13, <1>14, <1>15, <1>16 DEF IInv

\* QEMU is gone when the run ends, and every line is read.
LEMMA WaitStep == ASSUME IInv, Wait PROVE IInv'
<1>1. /\ pc = "wait" /\ pc \in Busy /\ (r.proc => ~Alive(r.me))
      /\ r' = [r EXCEPT !.proc = FALSE]
      /\ UNCHANGED <<emu, told, pipe, t05, interrupted, grades, history>>
  BY DEF Wait, Busy, world, user
<1>2. /\ r \in Runners /\ r.me \in Emulators /\ told \subseteq Emulators
      /\ interrupted \in BOOLEAN /\ ~Alive(r.me)
  BY <1>1, Running DEF IInv, Shape, Alive
<1>3. /\ r' \in Runners /\ r'.me = r.me /\ r'.phase = r.phase
      /\ r'.buf = r.buf /\ r'.output = r.output /\ r'.raised = r.raised
      /\ r'.gdb = r.gdb
  BY <1>1, <1>2 DEF Runners
<1>4. \A e \in history.attached : Alive(e) => e \in told'
  BY <1>1, <1>2 DEF IInv, LeftOnlyUnconnected
<1>5. CASE r.raised \in {"nothing", "assertion"}
  <2> DEFINE ok == r.raised = "nothing"
  <2>1. Result(ok) /\ exit' = exit /\ ok \in BOOLEAN
    BY <1>5 DEF Wait
  <2> HIDE DEF ok
  <2>2. /\ Stack' /\ Calls' /\ Score' /\ suite' \in Suites
        /\ suite'.limit = suite.limit /\ suite'.next = suite.next
        /\ suite'.complete = suite.complete
        /\ suite'.passed = IF ok THEN suite.passed \cup {Task} ELSE suite.passed
        /\ suite'.failed = IF ok THEN suite.failed ELSE suite.failed \cup {Task}
        /\ pc' = "tests" \/ (pc' = "body" /\ Task' \notin RunsQemu)
    BY <1>1, <2>1, Results
  <2>3. Shape'
    BY <1>1, <1>3, <2>1, <2>2 DEF IInv, Shape
  <2>4. /\ Task \in RunsQemu /\ \A p \in RunsQemu : Holds(p) => p = Task
    BY <1>1, InRun DEF IInv
  <2>5. PassedWasShown' /\ FailedWasCut'
    BY <1>1, <2>2, <2>4 DEF IInv, PassedWasShown, FailedWasCut
  <2>6. pc' \notin Busy /\ pc' \notin Idle
    BY <2>2 DEF Busy, Idle
  <2>7. Held'
    <3>1. ASSUME NEW p \in RunsQemu, Holds(p)' PROVE Owned(p)' /\ Read(p)'
      <4>1. Holds(p)
        BY <1>1, <2>2, <2>6, <3>1 DEF Holds, Latest, Idle, Busy
      <4>2. Owned(p) /\ Read(p) /\ p = Task
        BY <2>4, <4>1 DEF IInv, Held
      <4>3. Owned(p)'
        BY <1>1, <1>3, <4>2 DEF Owned
      <4>4. Range(pipe) = {} \/ Stopped(p)
        <5>1. Range(<<>>) = {}
          BY DEF Range
        <5> QED BY <1>1, <1>5, <4>2, <5>1 DEF IInv, Ending, Cut
      <4>5. Read(p)'
        BY <1>1, <1>3, <4>2, <4>4 DEF Read, Unread, Stopped
      <4> QED BY <4>3, <4>5
    <3> QED BY <3>1 DEF Held
  <2>8. Shown'
    <3>1. history.shown \subseteq RunsQemu \X Lines
      BY DEF IInv, Shape, Histories
    <3> QED BY <1>1, <2>2, <3>1 DEF IInv, Shown
  <2>9. Connections'
    BY <1>1, <1>2, <1>3, <2>2, <2>6 DEF IInv, Connections, Alive
  <2>10. Attached' /\ Others' /\ ForeignOnlyLate'
    BY <1>1, <1>3, <2>2 DEF IInv, Attached, Others, ForeignOnlyLate, Alive
  <2>11. LeftOnlyUnconnected' /\ ZeroMeansPassed' /\ Ending'
    BY <1>1, <1>4, <2>2, <2>6 DEF LeftOnlyUnconnected, ZeroMeansPassed, Ending, Alive
  <2> QED BY <2>2, <2>3, <2>5, <2>7, <2>8, <2>9, <2>10, <2>11 DEF IInv
<1>6. CASE r.raised = "error"
  <2>1. Exit(1) /\ suite' = suite
    BY <1>6 DEF Wait
  <2>2. pc' = "exited" /\ exit' = 1
    BY <2>1 DEF Exit
  <2>3. ZeroMeansPassed'
    BY <2>2 DEF ZeroMeansPassed
  <2> QED BY <1>1, <1>2, <1>3, <1>4, <2>1, <2>2, <2>3, ExitStep
<1>7. CASE r.raised = "interrupt"
  <2>1. ExitByScore /\ suite' = suite
    BY <1>7 DEF Wait
  <2>2. pc' = "exited" /\ exit' \in {0, 1} /\ interrupted
    BY <1>7, <2>1 DEF ExitByScore, Exit, IInv, Connections
  <2>3. ZeroMeansPassed'
    BY <1>1, <2>2 DEF ZeroMeansPassed
  <2> QED BY <1>1, <1>2, <1>3, <1>4, <2>1, <2>2, <2>3, ExitStep
<1> QED BY <1>2, <1>5, <1>6, <1>7 DEF Runners

\* The next test is called, or the score decides on the exit status.
LEMMA NextTestStep == ASSUME IInv, NextTest PROVE IInv'
<1>1. /\ pc = "tests" /\ pc \notin Idle /\ pc \notin Busy /\ pc # "body"
      /\ UNCHANGED <<r, emu, told, pipe, t05, interrupted, grades, history>>
  BY DEF NextTest, Idle, Busy, world, user
<1>2. /\ suite.complete = Ended /\ suite.next \in Nat /\ Len(TESTS) \in Nat
      /\ \A n \in 1 .. suite.next - 1 :
           TESTS[n] \in suite.limit => TESTS[n] \in Ended
      /\ suite.frames = <<>>
  <2>1. suite.complete = Ended
    <3>1. Ended \subseteq suite.complete /\ suite.complete \subseteq Ended
      BY <1>1 DEF IInv, Calls
    <3> QED BY <3>1
  <2>2. suite.next \in Nat /\ Len(TESTS) \in Nat
    BY SuiteIs, Registered
  <2>3. \A n \in 1 .. suite.next - 1 :
          TESTS[n] \in suite.limit => TESTS[n] \in suite.complete
    <3>1. pc # "enter"
      BY <1>1
    <3> QED BY <1>1, <3>1 DEF IInv, Calls
  <2>4. suite.frames = <<>>
    BY <1>1 DEF IInv, Stack
  <2> QED BY <2>1, <2>2, <2>3, <2>4
<1>3. CASE suite.next > Len(TESTS)
  <2>1. ExitByScore /\ suite' = suite
    BY <1>3 DEF NextTest
  <2>2. pc' = "exited" /\ exit' = IF suite.total < suite.possible THEN 1 ELSE 0
    BY <2>1 DEF ExitByScore, Exit
  <2>3. ASSUME NEW t \in suite.limit, Points[t] > 0, t \notin suite.passed
        PROVE  suite.total < suite.possible
    <3>1. t \in Tests
      BY <2>3, SuiteIs
    <3>2. PICK n \in 1 .. Len(TESTS) : TESTS[n] = t
      BY <3>1, Registered
    <3>3. n \in 1 .. suite.next - 1
      BY <1>2, <1>3
    <3>4. t \in Ended \ suite.passed /\ suite.passed \subseteq Ended
      BY <1>2, <2>3, <3>2, <3>3 DEF Ended
    <3>5. Worth(suite.passed) < Worth(Ended)
      BY <2>3, <3>1, <3>4, WorthLess
    <3> QED BY <3>5, SuiteIs
  <2>4. ZeroMeansPassed'
    BY <2>1, <2>2, <2>3 DEF ZeroMeansPassed
  <2>5. /\ \A e \in history.attached : Alive(e) => e \in told'
        /\ r \in Runners /\ told \subseteq Emulators /\ interrupted \in BOOLEAN
    BY <1>1 DEF IInv, LeftOnlyUnconnected, Shape
  <2> QED BY <1>1, <2>1, <2>2, <2>4, <2>5, ExitStep
<1>4. CASE ~(suite.next > Len(TESTS))
  <2> DEFINE t == TESTS[suite.next]
             fs == IF t \in suite.limit THEN <<t>> ELSE <<>>
  <2>1. /\ pc' = IF t \in suite.limit THEN "enter" ELSE "tests"
        /\ suite' = [suite EXCEPT !.next = @ + 1, !.frames = fs]
        /\ exit' = exit
    BY <1>4 DEF NextTest
  <2>2. suite.next \in 1 .. Len(TESTS) /\ t \in Tests /\ fs \in Seq(Tests)
    <3>1. suite.next \in 1 .. Len(TESTS)
      BY <1>2, <1>4, SuiteIs
    <3>2. t \in Tests
      BY <3>1, Registered
    <3> HIDE DEF t
    <3> QED BY <3>1, <3>2
  <2> HIDE DEF fs
  <2>3. /\ suite' \in Suites /\ suite'.limit = suite.limit /\ suite'.next = suite.next + 1
        /\ suite'.frames = fs /\ suite'.complete = suite.complete
        /\ suite'.total = suite.total /\ suite'.possible = suite.possible
        /\ suite'.passed = suite.passed /\ suite'.failed = suite.failed
    <3>1. suite.next + 1 \in 1 .. Len(TESTS) + 1
      BY <1>2, <2>2
    <3> QED BY <2>1, <2>2, <3>1, SuiteIs DEF Suites
  <2>4. Ended' = Ended /\ suite'.next - 1 = suite.next /\ Current' = t
    BY <1>2, <2>3 DEF Ended, Current
  <2>5. pc' \notin Idle /\ pc' \notin Busy /\ pc' \in {"enter", "tests"}
    BY <2>1 DEF Idle, Busy
  <2>6. fs = IF pc' = "enter" THEN <<t>> ELSE <<>>
    BY <2>1 DEF fs
  <2>7. pc' = "tests" => t \notin suite.limit
    BY <2>1
  <2> HIDE DEF t
  <2>8. Shape'
    BY <1>1, <2>1, <2>3, <2>5 DEF IInv, Shape
  <2>9. Stack'
    BY <1>2, <2>2, <2>3, <2>4, <2>5, <2>6 DEF Stack
  <2>10. Score'
    BY <2>3, <2>4 DEF IInv, Score, Worth, Earned
  <2>11. Calls'
    <3>1. Ended' \subseteq suite'.complete /\ suite'.complete \subseteq Ended'
      BY <1>2, <2>3, <2>4
    <3>2. \A u \in suite'.complete : \E n \in 1 .. suite'.next - 1 : TESTS[n] = u
      <4>1. 1 .. suite.next - 1 \subseteq 1 .. suite'.next - 1
        BY <1>2, <2>4
      <4> QED BY <2>3, <4>1 DEF IInv, Calls
    <3>3. \A u \in Ended' \ RunsQemu : Parent[u] \in Ended'
      BY <2>4 DEF IInv, Calls
    <3>4. pc' = "enter" => suite'.frames = <<Current>>'
      BY <2>3, <2>4, <2>6
    <3>5. ASSUME NEW n \in 1 .. suite'.next - 1, TESTS[n] \in suite'.limit
          PROVE  TESTS[n] \in suite'.complete \/ (pc' = "enter" /\ suite'.frames = <<TESTS[n]>>)
      <4>1. CASE n \in 1 .. suite.next - 1
        BY <1>2, <2>3, <3>5, <4>1
      <4>2. CASE n = suite.next
        BY <2>3, <2>5, <2>6, <2>7, <3>5, <4>2 DEF t
      <4> QED BY <1>2, <2>4, <4>1, <4>2
    <3> QED BY <2>5, <3>1, <3>2, <3>3, <3>4, <3>5 DEF Calls
  <2>12. /\ PassedWasShown' /\ FailedWasCut' /\ ZeroMeansPassed' /\ Ending' /\ Attached'
         /\ Others' /\ ForeignOnlyLate' /\ LeftOnlyUnconnected'
    BY <1>1, <2>3, <2>5 DEF IInv, PassedWasShown, FailedWasCut, ZeroMeansPassed, Ending,
         Attached, Others, ForeignOnlyLate, LeftOnlyUnconnected, Alive, Idle
  <2>13. Connections'
    BY <1>1, <2>5 DEF IInv, Connections, Alive
  <2>14. Shown'
    BY <1>1, <2>3, <2>5 DEF IInv, Shown
  <2>15. Held'
    <3>1. ASSUME NEW p \in RunsQemu, Holds(p)' PROVE Owned(p)' /\ Read(p)'
      <4>1. p \in suite.complete
        BY <2>3, <3>1 DEF Holds
      <4>2. PICK j \in 1 .. suite.next :
              TESTS[j] = p /\ \A n \in j + 1 .. suite.next : TESTS[n] \notin RunsQemu
        BY <2>4, <3>1 DEF Holds, Latest
      <4>3. PICK i \in 1 .. suite.next - 1 : TESTS[i] = p
        BY <4>1 DEF IInv, Calls
      <4>4. i = j
        <5>1. i \in 1 .. Len(TESTS) /\ j \in 1 .. Len(TESTS)
          BY <1>2, <2>2
        <5> QED BY <4>2, <4>3, <5>1, Registered
      <4>5. j + 1 .. suite.next - 1 \subseteq j + 1 .. suite.next
        BY <1>2
      <4>6. Latest(p)
        BY <4>2, <4>3, <4>4, <4>5 DEF Latest
      <4>7. Owned(p) /\ Read(p)
        BY <1>1, <4>1, <4>6 DEF IInv, Held, Holds
      <4> QED BY <1>1, <2>5, <4>7 DEF Owned, Read, Unread, Stopped
    <3> QED BY <3>1 DEF Held
  <2> QED BY <2>8, <2>9, <2>10, <2>11, <2>12, <2>13, <2>14, <2>15 DEF IInv
<1> QED BY <1>3, <1>4

\* The call of a test leaves the runs alone.
LEMMA EnterKeeps ==
  ASSUME IInv, pc = "enter", pc' \in {"tests", "enter", "body"},
         Stack', Calls', suite' \in Suites,
         suite'.limit = suite.limit, suite'.next = suite.next,
         suite'.total = suite.total, suite'.possible = suite.possible,
         suite'.passed = suite.passed, suite'.failed = suite.failed,
         \A p \in suite'.complete : p \in suite.complete \/ p \notin RunsQemu
                                    \/ (pc' = "body" /\ Task' \in RunsQemu),
         suite.complete \subseteq suite'.complete,
         pc' = "body" => Task' \notin RunsQemu \/ Task' \notin suite.complete,
         UNCHANGED <<r, exit, emu, told, pipe, t05, interrupted, grades, history>>
  PROVE  IInv'
<1>1. pc \notin Idle /\ pc \notin Busy /\ pc' \notin Idle /\ pc' \notin Busy
  BY DEF Idle, Busy
<1>2. Shape'
  BY DEF IInv, Shape
<1>3. Score'
  BY DEF IInv, Score, Ended, Worth, Earned
<1>4. /\ PassedWasShown' /\ FailedWasCut' /\ ZeroMeansPassed' /\ Ending' /\ Attached'
      /\ Others' /\ ForeignOnlyLate' /\ LeftOnlyUnconnected'
  BY <1>1 DEF IInv, PassedWasShown, FailedWasCut, ZeroMeansPassed, Ending,
       Attached, Others, ForeignOnlyLate, LeftOnlyUnconnected, Alive, Idle
<1>5. Connections'
  BY <1>1 DEF IInv, Connections, Alive
<1>6. Shown'
  <2>1. history.shown \subseteq RunsQemu \X Lines
    BY DEF IInv, Shape, Histories
  <2> QED BY <2>1 DEF IInv, Shown
<1>7. Held'
  <2>1. ASSUME NEW p \in RunsQemu, Holds(p)' PROVE Owned(p)' /\ Read(p)'
    <3>1. Latest(p) /\ p \in suite.complete
      BY <2>1 DEF Holds, Latest
    <3>2. Owned(p) /\ Read(p)
      BY <1>1, <3>1 DEF IInv, Held, Holds
    <3> QED BY <1>1, <3>2 DEF Owned, Read, Unread, Stopped
  <2> QED BY <2>1 DEF Held
<1> QED BY <1>2, <1>3, <1>4, <1>5, <1>6, <1>7 DEF IInv

\* A test that is complete is not called again; a child calls its parent.
LEMMA EnterStep == ASSUME IInv, Enter PROVE IInv'
<1> DEFINE t == Task
           s == [suite EXCEPT !.complete = @ \cup {t}]
<1>1. /\ pc = "enter" /\ pc \notin Idle \cup {"make", "tests"}
      /\ UNCHANGED <<r, exit, emu, told, pipe, t05, interrupted, grades, history>>
      /\ \/ t \in suite.complete /\ Return(suite)
         \/ /\ t \notin suite.complete /\ Parent[t] # NoTest
            /\ suite' = [s EXCEPT !.frames = <<Parent[t]>> \o @]
            /\ pc' = pc
         \/ t \notin suite.complete /\ Parent[t] = NoTest /\ suite' = s /\ pc' = "body"
  BY DEF Enter, Task, Idle, world, user
<1>2. /\ Current \in Tests /\ suite.next - 1 \in 1 .. Len(TESTS) /\ t \in Tests
      /\ \/ suite.frames = <<Current>> /\ t = Current
         \/ /\ Current \notin RunsQemu /\ suite.frames = <<Parent[Current], Current>>
            /\ t = Parent[Current]
      /\ Current \notin RunsQemu => Parent[Current] \in RunsQemu /\ Latest(Parent[Current])
      /\ Current = TESTS[suite.next - 1]
  BY <1>1, Calling DEF IInv, Current
<1>3. t \in RunsQemu <=> Parent[t] = NoTest
  <2>1. PICK n \in 1 .. Len(TESTS) : TESTS[n] = t
    BY <1>2, Registered
  <2> QED BY <2>1, Parents
<1>4. /\ suite.complete \ Ended = IF suite.frames = <<Current>> THEN {} ELSE {Current}
      /\ \A u \in suite.complete : \E n \in 1 .. suite.next - 1 : TESTS[n] = u
      /\ \A u \in Ended \ RunsQemu : Parent[u] \in Ended
      /\ \A n \in 1 .. suite.next - 1 :
           TESTS[n] \in suite.limit => TESTS[n] \in suite.complete \/ suite.frames = <<TESTS[n]>>
      /\ Ended \subseteq suite.complete /\ suite.next > 1
  BY <1>1 DEF IInv, Calls, Stack, Idle
<1> HIDE DEF t
<1>5. CASE t \in suite.complete /\ Return(suite)
  <2>1. /\ suite' = [suite EXCEPT !.frames = Tail(@)]
        /\ pc' = IF Len(suite.frames) = 1 THEN "tests" ELSE "body"
    BY <1>5 DEF Return
  <2>2. suite.frames # <<>> /\ Tail(suite.frames) \in Seq(Tests)
    <3>1. suite.frames # <<>>
      BY <1>2, Stacks
    <3> QED BY <3>1, SuiteIs
  <2>3. /\ suite' \in Suites /\ suite'.limit = suite.limit /\ suite'.next = suite.next
        /\ suite'.frames = Tail(suite.frames) /\ suite'.complete = suite.complete
        /\ suite'.total = suite.total /\ suite'.possible = suite.possible
        /\ suite'.passed = suite.passed /\ suite'.failed = suite.failed
    BY <2>1, <2>2, SuiteIs DEF Suites
  <2>4. Ended' = Ended /\ Current' = Current
    BY <2>3 DEF Ended, Current
  <2>5. CASE suite.frames = <<Current>> /\ t = Current
    <3>1. suite'.frames = <<>> /\ pc' = "tests"
      BY <2>1, <2>3, <2>5, Stacks
    <3>2. Stack'
      BY <3>1 DEF Stack, Busy
    <3>3. \A n \in 1 .. suite.next - 1 : <<TESTS[n]>> = <<Current>> => TESTS[n] = Current
      OBVIOUS
    <3>4. Calls'
      BY <1>4, <1>5, <2>3, <2>4, <2>5, <3>1, <3>3 DEF Calls, Busy
    <3> QED BY <1>1, <2>3, <3>1, <3>2, <3>4, EnterKeeps
  <2>6. CASE /\ Current \notin RunsQemu /\ suite.frames = <<Parent[Current], Current>>
             /\ t = Parent[Current]
    <3>1. /\ suite'.frames = <<Current>> /\ pc' = "body" /\ Task' = Current
          /\ Range(suite'.frames) = {Current} /\ suite.frames # <<Current>>
      BY <2>1, <2>3, <2>6, Stacks DEF Task
    <3>2. Stack'
      BY <1>4, <2>3, <2>4, <3>1 DEF Stack, Busy, Idle
    <3>3. Parent[Current] \in Ended
      BY <1>2, <1>4, <1>5, <2>6, <3>1
    <3>4. \A n \in 1 .. suite.next - 1 : suite.frames # <<TESTS[n]>>
      BY <2>6, Stacks
    <3>5. Calls'
      BY <1>4, <2>3, <2>4, <2>6, <3>1, <3>3, <3>4 DEF Calls
    <3> QED BY <1>1, <2>3, <2>6, <3>1, <3>2, <3>5, EnterKeeps
  <2> QED BY <1>2, <2>5, <2>6
<1>6. CASE /\ t \notin suite.complete /\ Parent[t] # NoTest
           /\ suite' = [s EXCEPT !.frames = <<Parent[t]>> \o @]
           /\ pc' = pc
  <2>1. t \notin RunsQemu /\ suite.frames = <<Current>> /\ t = Current
    BY <1>2, <1>3, <1>6
  <2> DEFINE fs == <<Parent[t], Current>>
  <2>2. <<Parent[t]>> \o suite.frames = fs /\ fs \in Seq(Tests) /\ fs # <<Current>>
    <3>1. Parent[t] \in Tests
      BY <1>2, <2>1, Registered
    <3>2. <<Parent[t]>> \o <<Current>> = fs /\ fs # <<Current>>
      BY Stacks
    <3>3. fs \in Seq(Tests)
      BY <1>2, <3>1
    <3> HIDE DEF fs
    <3> QED BY <2>1, <3>2, <3>3
  <2>3. s.frames = suite.frames
    BY SuiteIs DEF Suites
  <2>4. suite' = [s EXCEPT !.frames = fs]
    BY <1>6, <2>2, <2>3
  <2> HIDE DEF fs
  <2>5. /\ suite' \in Suites /\ suite'.limit = suite.limit /\ suite'.next = suite.next
        /\ suite'.frames = fs /\ suite'.complete = suite.complete \cup {Current}
        /\ suite'.total = suite.total /\ suite'.possible = suite.possible
        /\ suite'.passed = suite.passed /\ suite'.failed = suite.failed
    BY <1>2, <2>1, <2>2, <2>4, SuiteIs DEF Suites
  <2>6. Ended' = Ended /\ Current' = Current
    BY <2>5 DEF Ended, Current
  <2>7. Stack'
    BY <1>1, <1>4, <1>6, <2>1, <2>5, <2>6 DEF Stack, Busy, fs
  <2>8. Calls'
    <3>1. Ended' \subseteq suite'.complete /\ suite'.complete \ Ended' = {Current}
      BY <1>4, <1>6, <2>1, <2>5, <2>6
    <3>2. \A u \in suite'.complete : \E n \in 1 .. suite'.next - 1 : TESTS[n] = u
      <4>1. suite.next - 1 \in 1 .. suite.next - 1
        BY <1>2
      <4> QED BY <1>2, <1>4, <2>5, <4>1
    <3>3. \A n \in 1 .. suite'.next - 1 :
            TESTS[n] \in suite'.limit => TESTS[n] \in suite'.complete
      <4>1. \A n \in 1 .. suite.next - 1 : <<TESTS[n]>> = <<Current>> => TESTS[n] = Current
        OBVIOUS
      <4> QED BY <1>4, <2>1, <2>5, <4>1
    <3>4. pc' = "enter" /\ suite'.frames # <<Current'>>
      BY <1>1, <1>6, <2>2, <2>5, <2>6
    <3> QED BY <1>4, <2>6, <3>1, <3>2, <3>3, <3>4 DEF Calls, Busy
  <2> QED BY <1>1, <1>6, <2>1, <2>5, <2>7, <2>8, EnterKeeps
<1>7. CASE t \notin suite.complete /\ Parent[t] = NoTest /\ suite' = s /\ pc' = "body"
  <2>1. t \in RunsQemu
    BY <1>3, <1>7
  <2>2. /\ suite' \in Suites /\ suite'.limit = suite.limit /\ suite'.next = suite.next
        /\ suite'.frames = suite.frames /\ suite'.complete = suite.complete \cup {t}
        /\ suite'.total = suite.total /\ suite'.possible = suite.possible
        /\ suite'.passed = suite.passed /\ suite'.failed = suite.failed
    BY <1>2, <1>7, SuiteIs DEF Suites
  <2>3. Ended' = Ended /\ Current' = Current /\ Task' = t
    BY <2>2 DEF Ended, Current, Task, t
  <2>4. Stack'
    BY <1>1, <1>7, <2>2, <2>3 DEF IInv, Stack, Busy
  <2>5. Calls'
    <3>1. Ended' \subseteq suite'.complete /\ suite'.complete \ Ended' = Range(suite'.frames)
      <4>1. CASE suite.frames = <<Current>> /\ t = Current
        <5>1. Range(suite.frames) = {t}
          BY <4>1, Stacks
        <5>2. suite.complete \ Ended = {} /\ Ended \subseteq suite.complete
          BY <1>4, <4>1
        <5>3. t \notin Ended
          BY <1>7, <5>2
        <5> QED BY <2>2, <2>3, <5>1, <5>2, <5>3
      <4>2. CASE /\ Current \notin RunsQemu /\ suite.frames = <<Parent[Current], Current>>
                 /\ t = Parent[Current]
        <5>1. suite.frames # <<Current>> /\ Range(suite.frames) = {t, Current}
          BY <4>2, Stacks
        <5> QED BY <1>4, <1>7, <2>2, <2>3, <5>1
      <4> QED BY <1>2, <4>1, <4>2
    <3>2. \A u \in suite'.complete : \E n \in 1 .. suite'.next - 1 : TESTS[n] = u
      <4>1. \E n \in 1 .. suite.next - 1 : TESTS[n] = t
        <5>1. Latest(t)
          BY <1>1, <2>1, Calling DEF IInv, t
        <5> QED BY <5>1 DEF Latest
      <4> QED BY <1>4, <2>2, <4>1
    <3>3. \A n \in 1 .. suite'.next - 1 :
            TESTS[n] \in suite'.limit => TESTS[n] \in suite'.complete
      <4>1. ASSUME NEW n \in 1 .. suite.next - 1, suite.frames = <<TESTS[n]>>
            PROVE  TESTS[n] = t
        <5>1. Head(suite.frames) = TESTS[n]
          BY <4>1, Stacks
        <5> QED BY <5>1 DEF t, Task
      <4> QED BY <1>4, <2>2, <4>1
    <3> QED BY <1>4, <1>7, <2>1, <2>3, <3>1, <3>2, <3>3 DEF Calls, Busy
  <2>6. \A p \in suite'.complete : p \in suite.complete \/ p \notin RunsQemu
                                   \/ (pc' = "body" /\ Task' \in RunsQemu)
    BY <1>7, <2>1, <2>3
  <2> QED BY <1>1, <1>7, <2>2, <2>3, <2>4, <2>5, <2>6, EnterKeeps
<1> QED BY <1>1, <1>5, <1>6, <1>7

\* A grader starts with nothing of the one before but its emulators.
LEMMA GradeStep == ASSUME IInv, Grade PROVE IInv'
<1>1. PICK limit \in Filters : suite' = Suite(limit)
  BY DEF Grade
<1>2. /\ pc \in {"shell", "exited"} /\ grades < MaxGrades /\ grades' = grades + 1
      /\ interrupted' = FALSE /\ r' = Runner(0)
      /\ history' = [history EXCEPT !.shown = {}, !.cut = {}]
      /\ pc' = "make" /\ UNCHANGED <<exit, emu, told, pipe, t05>>
  BY DEF Grade, world
<1>3. limit \subseteq Tests /\ Len(TESTS) \in Nat /\ <<>> \in Seq(Line) /\ <<>> \in Seq(Tests)
  BY GraderAssumption, Registered
<1>4. /\ suite' \in Suites /\ suite'.limit = limit /\ suite'.next = 1
      /\ suite'.frames = <<>> /\ suite'.complete = {} /\ suite'.total = 0
      /\ suite'.possible = 0 /\ suite'.passed = {} /\ suite'.failed = {}
  BY <1>1, <1>3 DEF Suite, Suites
<1>5. /\ r' \in Runners /\ r'.me = 0 /\ r'.phase = "start" /\ r'.gdb = None
      /\ r'.raised = "nothing"
  BY <1>2, <1>3 DEF Runner, Runners
<1>6. /\ history' \in Histories /\ history'.shown = {} /\ history'.cut = {}
      /\ history'.attached = history.attached /\ history'.early = history.early
  BY <1>2 DEF IInv, Shape, Histories
<1>7. grades' \in 0 .. MaxGrades
  <2>1. MaxGrades \in Nat /\ grades \in 0 .. MaxGrades
    BY GraderAssumption DEF IInv, Shape
  <2> QED BY <1>2, <2>1
<1>8. pc' \notin Busy /\ pc' = "make"
  BY <1>2 DEF Busy
<1>9. Shape'
  BY <1>2, <1>4, <1>5, <1>6, <1>7, <1>8 DEF IInv, Shape, Idle
<1>10. Stack'
  BY <1>4, <1>8 DEF Stack, Idle
<1>11. Ended' = {}
  BY <1>4 DEF Ended
<1>12. Calls'
  BY <1>4, <1>8, <1>11 DEF Calls
<1>13. Score'
  BY <1>4, <1>11, WorthNone DEF Score, Worth, Earned
<1>14. Connections'
  BY <1>5, <1>8 DEF Connections
<1>15. Attached' /\ Others' /\ ForeignOnlyLate'
  <2>1. history.attached \subseteq Emulators
    BY DEF IInv, Shape, Histories
  <2> QED BY <1>2, <1>5, <1>6, <1>8, <2>1, Numbered DEF IInv, Attached, Others, ForeignOnlyLate
<1>16. LeftOnlyUnconnected'
  <2>1. \A e \in history.attached : Alive(e) => e \in told
    BY <1>2 DEF IInv, LeftOnlyUnconnected, Attached
  <2> QED BY <1>2, <1>6, <2>1 DEF LeftOnlyUnconnected, Alive
<1>17. Held' /\ Shown' /\ Ending' /\ PassedWasShown' /\ FailedWasCut'
  BY <1>4, <1>6, <1>8 DEF Held, Holds, Shown, Ending, PassedWasShown, FailedWasCut
<1>18. ZeroMeansPassed'
  BY <1>2 DEF ZeroMeansPassed
<1> QED BY <1>9, <1>10, <1>12, <1>13, <1>14, <1>15, <1>16, <1>17, <1>18 DEF IInv

\* The build ends, if it does, without having touched anything of the grader's.
LEMMA MakeEndsStep == ASSUME IInv, MakeEnds PROVE IInv'
<1>1. /\ pc = "make" /\ UNCHANGED <<suite, r, emu, told, pipe, t05, interrupted, grades, history>>
      /\ (pc' = "tests" /\ exit' = exit) \/ (pc' = "exited" /\ exit' = 1)
  BY DEF MakeEnds, Exit, world, user
<1>2. r \in Runners /\ told \subseteq Emulators /\ interrupted \in BOOLEAN /\ r.me = 0
  BY <1>1 DEF IInv, Shape, Connections
<1>3. \A e \in history.attached : e # 0
  BY Numbered DEF IInv, Shape, Histories
<1>4. CASE pc' = "exited" /\ exit' = 1
  <2>1. ZeroMeansPassed'
    BY <1>4 DEF ZeroMeansPassed
  <2>2. \A e \in history.attached : Alive(e) => e \in told'
    BY <1>1, <1>2, <1>3 DEF IInv, LeftOnlyUnconnected
  <2> QED BY <1>1, <1>2, <1>4, <2>1, <2>2, ExitStep
<1>5. CASE pc' = "tests" /\ exit' = exit
  <2>1. Shape'
    BY <1>1, <1>5 DEF IInv, Shape
  <2>2. Stack'
    BY <1>1, <1>5 DEF IInv, Stack, Busy, Idle, Task, Current
  <2>3. Ended' = Ended
    BY <1>1 DEF Ended
  <2>4. Calls'
    BY <1>1, <1>5, <2>3 DEF IInv, Calls, Busy, Idle, Task, Current
  <2>5. Score' /\ PassedWasShown' /\ FailedWasCut'
    BY <1>1, <2>3 DEF IInv, Score, PassedWasShown, FailedWasCut, Worth, Earned
  <2>6. Connections' /\ Attached' /\ Others'
    BY <1>1, <1>2, <1>5 DEF IInv, Connections, Attached, Others, Alive, Busy
  <2>7. Held' /\ Shown' /\ Ending'
    BY <1>1, <1>5 DEF IInv, Held, Shown, Ending, Holds, Latest, Owned, Read, Stopped,
       Unread, Cut, Task, Busy, Idle
  <2>8. LeftOnlyUnconnected' /\ ForeignOnlyLate' /\ ZeroMeansPassed'
    BY <1>1, <1>2, <1>3, <1>5
    DEF IInv, LeftOnlyUnconnected, ForeignOnlyLate, ZeroMeansPassed, Alive
  <2> QED BY <2>1, <2>2, <2>4, <2>5, <2>6, <2>7, <2>8 DEF IInv
<1> QED BY <1>1, <1>4, <1>5

-----------------------------------------------------------------------------
(* The theorems on the grader                                              *)

\* Before the first grader nothing has run.
LEMMA GraderBegins == Init => IInv
<1> SUFFICES ASSUME Init PROVE IInv
  OBVIOUS
<1>1. /\ pc = "shell" /\ exit = 0 /\ grades = 0 /\ interrupted = FALSE
      /\ emu = [e \in Emulators |-> "none"] /\ told = {} /\ pipe = <<>> /\ t05 = FALSE
      /\ suite = Suite({}) /\ r = Runner(0)
      /\ history = [shown |-> {}, cut |-> {}, attached |-> {}, early |-> {}]
  BY DEF Init
<1>2. Len(TESTS) \in Nat /\ <<>> \in Seq(Line) /\ <<>> \in Seq(Tests) /\ Len(<<>>) <= PIPE
      /\ MaxGrades \in Nat
  BY Registered, GraderAssumption
<1>3. /\ suite \in Suites /\ suite.next = 1
      /\ suite.frames = <<>> /\ suite.complete = {} /\ suite.total = 0
      /\ suite.possible = 0 /\ suite.passed = {} /\ suite.failed = {}
  BY <1>1, <1>2 DEF Suite, Suites
<1>4. /\ r \in Runners /\ r.me = 0 /\ r.phase = "start" /\ r.gdb = None
      /\ r.raised = "nothing"
  BY <1>1, <1>2 DEF Runner, Runners
<1>5. /\ history \in Histories /\ history.shown = {} /\ history.cut = {}
      /\ history.attached = {} /\ history.early = {}
  BY <1>1 DEF Histories
<1>6. pc \notin Busy /\ pc \in Idle
  BY <1>1 DEF Busy, Idle
<1>7. Shape
  <2>1. grades \in 0 .. MaxGrades
    <3>1. 0 \in 0 .. MaxGrades
      BY <1>2
    <3> QED BY <1>1, <3>1
  <2>2. emu \in [Emulators ->
                   {"none", "building", "listening", "running", "stopped", "gone"}]
    BY <1>1
  <2>3. told \subseteq Emulators /\ t05 \in BOOLEAN /\ pipe \in Seq(Line) /\ Len(pipe) <= PIPE
    BY <1>1, <1>2
  <2>4. pc \in Busy \cup Idle \cup {"make", "tests", "enter", "body"}
    BY <1>6
  <2> QED BY <1>1, <1>3, <1>4, <1>5, <2>1, <2>2, <2>3, <2>4 DEF Shape
<1>8. Ended = {}
  BY <1>3 DEF Ended
<1>9. Stack /\ Calls
  BY <1>1, <1>3, <1>6, <1>8 DEF Stack, Calls
<1>10. Score
  BY <1>3, <1>8, WorthNone DEF Score
<1>11. Connections /\ Attached /\ Others /\ ForeignOnlyLate
  BY <1>1, <1>4, <1>5, <1>6, Numbered DEF Connections, Attached, Others, ForeignOnlyLate
<1>12. Held /\ Shown /\ Ending /\ LeftOnlyUnconnected
  BY <1>1, <1>5, <1>6 DEF Held, Holds, Shown, Ending, LeftOnlyUnconnected
<1>13. PassedWasShown /\ FailedWasCut /\ ZeroMeansPassed
  BY <1>1, <1>3 DEF PassedWasShown, FailedWasCut, ZeroMeansPassed
<1> QED BY <1>7, <1>9, <1>10, <1>11, <1>12, <1>13 DEF IInv

\* What holds between any two steps of the grader and its environment.
LEMMA GraderInvariance == Spec => []IInv
<1>1. IInv /\ [Next]_vars => IInv'
  <2> SUFFICES ASSUME IInv, [Next]_vars PROVE IInv'
    OBVIOUS
  <2>1. CASE Grade
    BY <2>1, GradeStep
  <2>6. CASE MakeEnds
    BY <2>6, MakeEndsStep
  <2>2. CASE Grader
    BY <2>2, NextTestStep, EnterStep, MatchStep, ProbeStep, SpawnStep, TimedOutStep,
       SelectStep, ReadQemuStep, ReadGdbStep, ConnectStep, ContinueStep,
       MonitorRaisesStep, ShutdownStep, WaitStep DEF Grader
  <2>3. CASE Environment
    BY <2>3, EnvironmentStep
  <2>4. CASE Interrupt
    BY <2>4, InterruptStep
  <2>5. CASE UNCHANGED vars
    <3> USE <2>5 DEF vars, world, user
    <3>1. Shape'
      BY DEF IInv, Shape
    <3>2. Stack' /\ Calls' /\ Score' /\ PassedWasShown' /\ FailedWasCut'
      BY SuiteStays, ResultsStay DEF IInv
    <3>3. Connections' /\ Attached' /\ Others'
      BY DEF IInv, Connections, Attached, Others, Alive
    <3>4. Held' /\ Shown' /\ Ending'
      BY DEF IInv, Held, Shown, Ending, Holds, Latest, Owned, Read, Stopped, Unread, Cut, Task
    <3>5. LeftOnlyUnconnected' /\ ForeignOnlyLate' /\ ZeroMeansPassed'
      BY DEF IInv, LeftOnlyUnconnected, ForeignOnlyLate, ZeroMeansPassed, Alive
    <3> QED BY <3>1, <3>2, <3>3, <3>4, <3>5 DEF IInv
  <2> QED BY <2>1, <2>2, <2>3, <2>4, <2>5, <2>6 DEF Next
<1> QED BY GraderBegins, <1>1, PTL DEF Spec

\* Each variable has its type, and the score counts every test that ended once.
THEOREM GraderTypes == Spec => []TypeOK
<1>1. IInv => TypeOK
  <2> SUFFICES ASSUME IInv PROVE TypeOK
    OBVIOUS
  <2>1. Range(pipe) \subseteq Line
    BY Ranges DEF IInv, Shape
  <2>2. /\ r.me \in Emulators \cup {0} /\ r.phase \in {"start", "run", "stop"}
        /\ r.gdb \in Emulators \cup {None, Closed} /\ r.rset \subseteq {"qemu", "gdb"}
        /\ r.output \subseteq Line /\ r.proc \in BOOLEAN /\ r.expired \in BOOLEAN
        /\ r.raised \in {"nothing", "assertion", "error", "interrupt"}
    BY DEF IInv, Shape, Runners
  <2> QED BY <2>1, <2>2, SuiteIs DEF IInv, Shape, TypeOK, Line, Ended, Busy, Idle
<1> QED BY GraderInvariance, <1>1, PTL

\* No way in which a run ends leaves an emulator behind that the grader was
\* attached to and did not tell to end.
THEOREM NoneLeft == Spec => []LeftOnlyUnconnected
<1>1. IInv => LeftOnlyUnconnected
  BY DEF IInv
<1> QED BY GraderInvariance, <1>1, PTL

\* The grader talks to a foreign stub only if its emulator was still being built
\* when the port was probed.
THEOREM ForeignWasLate == Spec => []ForeignOnlyLate
<1>1. IInv => ForeignOnlyLate
  BY DEF IInv
<1> QED BY GraderInvariance, <1>1, PTL

\* Points are given only for what the kernel showed in the parent's run.
THEOREM PassedHonestly == Spec => []PassedWasShown
<1>1. IInv => PassedWasShown
  BY DEF IInv
<1> QED BY GraderInvariance, <1>1, PTL

\* Points for a line that the kernel showed are lost only to a deadline or a
\* stop line.
THEOREM FailedFairly == Spec => []FailedWasCut
<1>1. IInv => FailedWasCut
  BY DEF IInv
<1> QED BY GraderInvariance, <1>1, PTL

\* Exit status 0 of a grader that nobody interrupted is a full score.
THEOREM ZeroIsFullScore == Spec => []ZeroMeansPassed
<1>1. IInv => ZeroMeansPassed
  BY DEF IInv
<1> QED BY GraderInvariance, <1>1, PTL

-----------------------------------------------------------------------------
(* The dependency merger                                                   *)

\* If nothing the compiler saw has changed, its source includes what
\* it included then.
Traced ==
  \A o \in built :
    changed[o] \cap ({Source} \cup seen[o]) = {} => includes[o] = seen[o]

Unchanged == \A o \in current : includes[o] = seen[o]

\* A .d file that is not newer than .deps says what .deps says.
Older == \A o \in dfiles \ newer : deps[o] = d[o]

\* Where mergedep.pl stands with the files on its command line.
Merging ==
  /\ step \in {"read", "write", "rename"} => argv = dfiles
  /\ step = "write" => dephash = Override
  /\ step = "rename" => tmp = Override
  /\ step = "unlink" => newer = {} /\ argv = dfiles
  /\ step = "build" => newer \cap left = {}

\* The two events that the code does not survive do not happen in a step: a
\* full disk that cuts off what mergedep.pl prints to .deps.tmp (print and
\* close are not checked, mergedep.pl:77-79), and a Ctrl-C after the rename that
\* makes make delete the .deps it has just changed (GNUmakefile:115-121).
Undisturbed ==
  /\ WriteTmp => tmp' = dephash
  /\ Kill => UNCHANGED <<mainfile, newer>>

MDInv == /\ MDTypeOK /\ DependenciesKept /\ CurrentIsFresh
        /\ Traced /\ Unchanged /\ Older /\ Merging

-----------------------------------------------------------------------------

\* A tree that was never built.
LEMMA MDBegins == MDInit => MDInv
  BY DEF MDInit, MDInv, MDTypeOK, DependenciesKept, CurrentIsFresh, Traced, Unchanged,
         Older, Merging, Table, Nothing, Recorded

\* The user's edits leave what is recorded alone and mark what they change.
LEMMA Edits ==
  ASSUME MDInv, \/ \E o \in Objects : EditSource(o)
               \/ \E h, g \in Headers : EditHeader(h, g)
  PROVE  MDInv'
<1> USE MergeDepAssumption
<1>1. CASE \E o \in Objects : EditSource(o)
  <2> PICK o \in Objects : EditSource(o)  BY <1>1
  <2>1. MDTypeOK'
    BY DEF MDInv, MDTypeOK, Table, EditSource, objects, mainfile, newfiles, merger
  <2>2. DependenciesKept' /\ CurrentIsFresh' /\ Unchanged' /\ Older' /\ Merging'
    BY DEF MDInv, DependenciesKept, Recorded, CurrentIsFresh, Unchanged, Older, Merging,
           Override, EditSource, objects, mainfile, newfiles, merger
  <2>3. Traced'
    <3> SUFFICES ASSUME NEW q \in built',
                        (changed[q] \cap ({Source} \cup seen[q]) = {})'
                 PROVE  (includes[q] = seen[q])'
      BY DEF Traced
    <3>1. q # o
      BY DEF MDInv, MDTypeOK, EditSource, objects
    <3> QED  BY <3>1 DEF MDInv, MDTypeOK, Table, Traced, EditSource, objects
  <2> QED  BY <2>1, <2>2, <2>3 DEF MDInv
<1>2. CASE \E h, g \in Headers : EditHeader(h, g)
  <2> PICK h \in Headers, g \in Headers : EditHeader(h, g)  BY <1>2
  <2>1. MDTypeOK'
    <3>1. includes' \in Table
      BY DEF MDInv, MDTypeOK, Table, EditHeader
    <3>2. changed' \in [Objects -> SUBSET (Headers \cup {Source})]
      BY DEF MDInv, MDTypeOK, EditHeader
    <3> QED  BY <3>1, <3>2 DEF MDInv, MDTypeOK, EditHeader, objects, mainfile, newfiles, merger
  <2>2. DependenciesKept' /\ CurrentIsFresh' /\ Unchanged' /\ Older' /\ Merging'
    BY DEF MDInv, DependenciesKept, Recorded, CurrentIsFresh, Unchanged, Older, Merging,
           Override, EditHeader, objects, mainfile, newfiles, merger
  <2>3. Traced'
    <3> SUFFICES ASSUME NEW q \in built',
                        (changed[q] \cap ({Source} \cup seen[q]) = {})'
                 PROVE  (includes[q] = seen[q])'
      BY DEF Traced
    <3>1. q \in built /\ q \in Objects /\ seen' = seen
      BY DEF MDInv, MDTypeOK, EditHeader, objects
    <3>2. changed'[q] = changed[q] \cup {h}
      BY <3>1 DEF EditHeader
    <3>3. h \notin seen[q] /\ changed[q] \cap ({Source} \cup seen[q]) = {}
      BY <3>1, <3>2
    <3>4. includes[q] = seen[q]
      BY <3>1, <3>3 DEF MDInv, Traced
    <3> QED  BY <3>1, <3>3, <3>4 DEF EditHeader
  <2> QED  BY <2>1, <2>2, <2>3 DEF MDInv
<1> QED  BY <1>1, <1>2

-----------------------------------------------------------------------------

\* mergedep.pl: what is recorded moves from one file to the other.
LEMMA Merges ==
  ASSUME MDInv, Undisturbed,
         \/ MakeDeps \/ ReadDeps \/ WriteTmp \/ Rename \/ Merged \/ Kill
         \/ \E o \in Objects : Unlink(o)
  PROVE  MDInv'
<1> USE DEF MDInv, tree, objects, mainfile, newfiles, merger, make
<1> DEFINE Stays == UNCHANGED <<includes, changed, built, seen, current>>
<1>1. Stays => CurrentIsFresh' /\ Traced' /\ Unchanged'
  BY DEF CurrentIsFresh, Traced, Unchanged
<1>2. UNCHANGED <<built, seen, deps, dfiles, d>> => DependenciesKept'
  BY DEF DependenciesKept, Recorded
<1>3. UNCHANGED <<deps, dfiles, d, newer>> => Older'
  BY DEF Older
<1>4. CASE MakeDeps
  <2>1. MDTypeOK' /\ Merging'
    BY <1>4 DEF MakeDeps, MDTypeOK, Table, Merging
  <2> QED  BY <1>1, <1>2, <1>3, <1>4, <2>1 DEF MakeDeps
<1>5. CASE ReadDeps
  <2>1. Override \in Table
    BY DEF Override, Table, MDTypeOK
  <2>2. MDTypeOK' /\ Merging'
    BY <1>5, <2>1 DEF ReadDeps, MDTypeOK, Merging, Override
  <2> QED  BY <1>1, <1>2, <1>3, <1>5, <2>2 DEF ReadDeps
<1>6. CASE WriteTmp
  <2>1. tmp' = dephash
    BY <1>6 DEF Undisturbed
  <2>2. MDTypeOK' /\ Merging'
    BY <1>6, <2>1 DEF WriteTmp, MDTypeOK, Merging, Override
  <2> QED  BY <1>1, <1>2, <1>3, <1>6, <2>2 DEF WriteTmp
<1>7. CASE Rename
  <2>1. /\ deps' = Override /\ argv = dfiles
    BY <1>7 DEF Rename, Merging
  <2>2. MDTypeOK' /\ Merging'
    BY <1>7 DEF Rename, MDTypeOK, Merging
  <2>3. DependenciesKept' /\ Older'
    BY <1>7, <2>1 DEF Rename, MDTypeOK, DependenciesKept, Recorded, Older, Override
  <2> QED  BY <1>1, <1>7, <2>2, <2>3 DEF Rename
<1>8. CASE Merged
  <2>1. MDTypeOK' /\ Merging'
    BY <1>8 DEF Merged, MDTypeOK, Merging
  <2> QED  BY <1>1, <1>2, <1>3, <1>8, <2>1 DEF Merged
<1>9. CASE Kill
  <2>1. UNCHANGED <<exists, deps, newer>>
    BY <1>9 DEF Undisturbed
  <2>2. MDTypeOK' /\ Merging'
    BY <1>9, <2>1 DEF Kill, MDTypeOK, Merging
  <2> QED  BY <1>1, <1>2, <1>3, <1>9, <2>1, <2>2 DEF Kill
<1>10. CASE \E o \in Objects : Unlink(o)
  <2> PICK o \in Objects : Unlink(o)  BY <1>10
  <2>1. MDTypeOK' /\ Merging'
    BY DEF Unlink, MDTypeOK, Merging
  <2>2. deps[o] = d[o]
    BY DEF Unlink, Merging, Older
  <2>3. DependenciesKept' /\ Older'
    BY <2>2 DEF Unlink, DependenciesKept, Recorded, Older
  <2> QED  BY <1>1, <2>1, <2>3 DEF Unlink
<1> QED  BY <1>4, <1>5, <1>6, <1>7, <1>8, <1>9, <1>10

-----------------------------------------------------------------------------

\* make's rules for objects.
LEMMA Builds ==
  ASSUME MDInv,
         \/ \E o \in Objects : Compile(o) \/ CompileError(o) \/ UpToDate(o)
         \/ Finish
  PROVE  MDInv'
<1> USE DEF MDInv, tree, objects, mainfile, newfiles, merger, make
<1>1. CASE \E o \in Objects : Compile(o)
  <2> PICK o \in Objects : Compile(o)  BY <1>1
  <2>1. MDTypeOK' /\ Merging'
    BY DEF Compile, Depend, MDTypeOK, Table, Merging
  <2>2. DependenciesKept' /\ Older'
    BY DEF Compile, Depend, MDTypeOK, Table, DependenciesKept, Recorded, Older
  <2>3. CurrentIsFresh' /\ Traced' /\ Unchanged'
    BY DEF Compile, Depend, MDTypeOK, Table, CurrentIsFresh, Traced, Unchanged
  <2> QED  BY <2>1, <2>2, <2>3
<1>2. ASSUME NEW o \in Objects, step = "build", o \in left, o \in built
      PROVE  deps[o] = seen[o]
  <2>1. o \notin newer
    BY <1>2 DEF Merging
  <2> QED  BY <1>2, <2>1 DEF Older, DependenciesKept, Recorded
<1>3. CASE \E o \in Objects : CompileError(o)
  <2> PICK o \in Objects : CompileError(o)  BY <1>3
  <2>1. o \notin current
    <3> SUFFICES ASSUME o \in current PROVE FALSE
      OBVIOUS
    <3>1. o \in built /\ changed[o] \cap ({Source} \cup seen[o]) = {}
      BY DEF MDTypeOK, CurrentIsFresh, Unchanged
    <3> QED  BY <1>2, <3>1 DEF CompileError, Depend, OutOfDate
  <2>2. MDTypeOK' /\ Merging'
    BY <2>1 DEF CompileError, Depend, MDTypeOK, Table, Merging
  <2>3. DependenciesKept' /\ Older'
    BY DEF CompileError, Depend, MDTypeOK, Table, DependenciesKept, Recorded, Older
  <2>4. CurrentIsFresh' /\ Traced' /\ Unchanged'
    BY <2>1 DEF CompileError, Depend, MDTypeOK, Table, CurrentIsFresh, Traced, Unchanged
  <2> QED  BY <2>2, <2>3, <2>4
<1>4. CASE \E o \in Objects : UpToDate(o)
  <2> PICK o \in Objects : UpToDate(o)  BY <1>4
  <2>1. o \in built /\ changed[o] \cap ({Source} \cup seen[o]) = {}
    BY <1>2 DEF UpToDate, OutOfDate
  <2>2. includes[o] = seen[o]
    BY <2>1 DEF Traced
  <2>3. MDTypeOK' /\ Merging'
    BY <2>1 DEF UpToDate, MDTypeOK, Table, Merging
  <2>4. CurrentIsFresh' /\ Unchanged'
    BY <2>1, <2>2 DEF UpToDate, CurrentIsFresh, Unchanged
  <2>5. DependenciesKept' /\ Older' /\ Traced'
    BY DEF UpToDate, DependenciesKept, Recorded, Older, Traced
  <2> QED  BY <2>3, <2>4, <2>5
<1>5. CASE Finish
  BY <1>5 DEF Finish, MDTypeOK, Merging, DependenciesKept, Recorded, Older, CurrentIsFresh,
              Traced, Unchanged
<1> QED  BY <1>1, <1>3, <1>4, <1>5

-----------------------------------------------------------------------------
(* Types, whatever goes wrong                                              *)

\* Between the rename and the last unlink no .d file is newer than .deps.
Renamed == step = "unlink" => newer = {}

\* The table of a merge, and a file that a full disk cuts off, are tables.
LEMMA Tables ==
  ASSUME MDTypeOK
  PROVE  /\ Nothing \in Table /\ Override \in Table
         /\ Printed(dephash) \subseteq Table
BY DEF MDTypeOK, Table, Nothing, Override, Printed

\* What a killed make may leave behind.
LEMMA RemainsType ==
  ASSUME MDTypeOK, NEW f \in Remains
  PROVE  f[1] \in BOOLEAN /\ f[2] \in Table /\ f[3] \subseteq dfiles
<1>1. f = <<exists, deps, newer>> \/ f = <<FALSE, Nothing, dfiles>>
  BY DEF Remains
<1>2. CASE f = <<exists, deps, newer>>
  BY <1>2 DEF MDTypeOK
<1>3. CASE f = <<FALSE, Nothing, dfiles>>
  BY <1>3, Tables
<1> QED  BY <1>1, <1>2, <1>3

\* Every step keeps the types, with a full disk or an interrupt as well.
LEMMA MDTypeStep == MDTypeOK /\ Renamed /\ [MDNext]_MDvars => MDTypeOK' /\ Renamed'
<1> SUFFICES ASSUME MDTypeOK, Renamed, [MDNext]_MDvars PROVE MDTypeOK' /\ Renamed'
  OBVIOUS
<1> USE DEF tree, objects, mainfile, newfiles, merger, make
<1>1. ASSUME NEW o \in Objects, EditSource(o) PROVE MDTypeOK' /\ Renamed'
  <2>1. includes' \in Table
    BY <1>1 DEF EditSource, MDTypeOK, Table
  <2>2. changed' \in [Objects -> SUBSET (Headers \cup {Source})]
    BY <1>1 DEF EditSource, MDTypeOK
  <2> QED  BY <1>1, <2>1, <2>2 DEF EditSource, MDTypeOK, Renamed
<1>2. ASSUME NEW h \in Headers, NEW g \in Headers, EditHeader(h, g)
      PROVE  MDTypeOK' /\ Renamed'
  <2>1. includes' \in Table
    BY <1>2 DEF EditHeader, MDTypeOK, Table
  <2>2. changed' \in [Objects -> SUBSET (Headers \cup {Source})]
    BY <1>2 DEF EditHeader, MDTypeOK
  <2> QED  BY <1>2, <2>1, <2>2 DEF EditHeader, MDTypeOK, Renamed
<1>3. CASE MakeDeps \/ ReadDeps \/ WriteTmp \/ Rename \/ Merged \/ Finish
  BY <1>3, Tables
  DEF MakeDeps, ReadDeps, WriteTmp, Rename, Merged, Finish, MDTypeOK, Renamed
<1>4. ASSUME NEW o \in Objects, Unlink(o) PROVE MDTypeOK' /\ Renamed'
  BY <1>4 DEF Unlink, MDTypeOK, Renamed
<1>5. CASE Kill
  <2>1. PICK f \in Remains : exists' = f[1] /\ deps' = f[2] /\ newer' = f[3]
    BY <1>5 DEF Kill
  <2> QED  BY <1>5, <2>1, RemainsType DEF Kill, MDTypeOK, Renamed
<1>6. ASSUME NEW o \in Objects, Compile(o) PROVE MDTypeOK' /\ Renamed'
  <2>1. seen' \in Table /\ d' \in Table
    BY <1>6 DEF Compile, Depend, MDTypeOK, Table
  <2>2. changed' \in [Objects -> SUBSET (Headers \cup {Source})]
    BY <1>6 DEF Compile, MDTypeOK
  <2> QED  BY <1>6, <2>1, <2>2 DEF Compile, Depend, MDTypeOK, Renamed
<1>7. ASSUME NEW o \in Objects, CompileError(o) PROVE MDTypeOK' /\ Renamed'
  <2>1. seen' \in Table /\ d' \in Table
    BY <1>7 DEF CompileError, Depend, MDTypeOK, Table
  <2> QED  BY <1>7, <2>1 DEF CompileError, Depend, MDTypeOK, Renamed
<1>8. ASSUME NEW o \in Objects, UpToDate(o) PROVE MDTypeOK' /\ Renamed'
  BY <1>8 DEF UpToDate, OutOfDate, MDTypeOK, Renamed
<1>9. CASE UNCHANGED MDvars
  BY <1>9 DEF MDvars, MDTypeOK, Renamed
<1> QED  BY <1>1, <1>2, <1>3, <1>4, <1>5, <1>6, <1>7, <1>8, <1>9 DEF MDNext

\* Type correctness, whatever the disk and the interrupts do: a .d file newer
\* than .deps is there to be merged, and so is every object that make takes to
\* be current.
THEOREM MergeTypes == MDSpec => []MDTypeOK
<1>1. MDInit => MDTypeOK /\ Renamed
  BY DEF MDInit, MDTypeOK, Renamed, Table, Nothing
<1> QED  BY <1>1, MDTypeStep, PTL DEF MDSpec

-----------------------------------------------------------------------------

\* No step of the user, of make or of mergedep.pl breaks the invariant, unless
\* it is one of the two events that Undisturbed names.
LEMMA MDInvariance == MDSpec /\ [][Undisturbed]_MDvars => []MDInv
<1>1. MDInv /\ [MDNext]_MDvars /\ [Undisturbed]_MDvars => MDInv'
  <2> SUFFICES ASSUME MDInv, [MDNext]_MDvars, [Undisturbed]_MDvars PROVE MDInv'
    OBVIOUS
  <2>1. CASE UNCHANGED MDvars
    BY <2>1 DEF MDvars, tree, objects, mainfile, newfiles, merger, make, MDInv, MDTypeOK,
         DependenciesKept, Recorded, CurrentIsFresh, Traced, Unchanged, Older, Merging,
         Override
  <2>2. CASE MDNext /\ Undisturbed
    BY <2>2, Edits, Merges, Builds DEF MDNext
  <2> QED  BY <2>1, <2>2
<1> QED  BY MDBegins, <1>1, PTL DEF MDSpec

\* Wherever a merge is killed, .deps and the .d files together hold the headers
\* of every object (mergedep.pl: delete only after the rename), in every
\* behaviour in which no full disk cuts off .deps.tmp and no Ctrl-C makes make
\* delete .deps.
THEOREM Kept == MDSpec /\ [][Undisturbed]_MDvars => []DependenciesKept
<1>1. MDInv => DependenciesKept
  BY DEF MDInv
<1> QED  BY MDInvariance, <1>1, PTL

\* In such behaviours make never takes an object to be current that is older
\* than its source or a header it includes.
THEOREM Fresh == MDSpec /\ [][Undisturbed]_MDvars => []CurrentIsFresh
<1>1. MDInv => CurrentIsFresh
  BY DEF MDInv
<1> QED  BY MDInvariance, <1>1, PTL

=============================================================================
