------------------------------- MODULE Grader -------------------------------
(***************************************************************************)
(* gradelib.py with the tests of grade-lab1: run_tests calls the tests,    *)
(* some of which run the kernel under QEMU (Runner.run_qemu) and others    *)
(* look for a line in the output of their parent's run.  Beside the grader *)
(* run make, the emulator, its GDB stub, the clock and a user who presses  *)
(* Ctrl-C.                                                                 *)
(*                                                                         *)
(* The line a test looks for is named after the test.  An emulator is      *)
(* known by its number; one grader after another may be started.           *)
(***************************************************************************)
EXTENDS Integers, Sequences, SequencesExt, FiniteSetsExt

CONSTANTS
  TESTS,        \* tests in the order of their registration
  Parent,       \* the parent of each test, or NoTest
  Points,
  RunsQemu,     \* tests whose function is r.run_qemu()
  StopLines,    \* lines stop_on_line waits for
  Filters,      \* sets of tests that the command line may ask for
  Emulators,    \* 1 .. their number, one for each run of QEMU
  PIPE,         \* lines the pipe from QEMU holds                  (bound)
  MaxGrades     \* graders started one after another               (bound)

NoTest == "no test"
Make == "make"                      \* a line that make prints
Tests == Range(TESTS)
Lines == (Tests \ RunsQemu) \cup StopLines
None == 0                           \* r.gdb is None
Closed == -1                        \* r.gdb.sock is None

\* Tests are registered behind their parent, before another test runs QEMU.
ASSUME GraderAssumption ==
  /\ TESTS \in Seq(Tests) /\ IsInjective(TESTS) /\ RunsQemu \subseteq Tests
  /\ Parent \in [Tests -> RunsQemu \cup {NoTest}] /\ Points \in [Tests -> Nat]
  /\ \A k \in DOMAIN TESTS : TESTS[k] \in RunsQemu <=> Parent[TESTS[k]] = NoTest
  /\ \A k \in DOMAIN TESTS : TESTS[k] \notin RunsQemu =>
       \E j \in 1 .. k - 1 : /\ TESTS[j] = Parent[TESTS[k]]
                             /\ \A n \in j + 1 .. k : TESTS[n] \notin RunsQemu
  /\ Make \notin Lines /\ Filters \subseteq SUBSET Tests
  /\ PIPE \in Nat \ {0} /\ MaxGrades \in Nat
  /\ Emulators = 1 .. MaxGrades * Cardinality(RunsQemu)

VARIABLES
  pc,           \* where the grader is
  suite,        \* run_tests: its filter, position, calls and score
  r,            \* the Runner: its emulator, connections and deadline
  exit,         \* exit status of the last grader
  emu,          \* state of each emulator, make's included
  told,         \* emulators that a signal told to end
  pipe,         \* what QEMU printed and nobody read
  t05,          \* the stub reported a breakpoint
  interrupted,  \* the user has pressed Ctrl-C in this grader
  grades,       \* graders started
  history       \* of the runs: lines shown, runs cut short by a deadline,
                \* emulators attached to, emulators still built at a start

world == <<emu, told, pipe, t05>>
user == <<interrupted, grades>>
vars == <<pc, suite, r, exit, world, user, history>>

Alive(e) == emu[e] \notin {"none", "gone"}
Mine == r.me # 0 /\ pc \notin {"shell", "exited"}

\* A Runner before its first run, and at the start of one.
Runner(e) == [me |-> e, phase |-> "start", proc |-> e # 0, gdb |-> None,
              expired |-> FALSE, rset |-> {}, buf |-> <<>>, output |-> {},
              raised |-> "nothing"]

\* The emulator whose stub holds the GDB port.
Serving == {e \in Emulators : emu[e] \in {"listening", "running", "stopped"}}

-----------------------------------------------------------------------------
(* Tests. *)

Exit(status) == pc' = "exited" /\ exit' = status

\* KeyboardInterrupt and the end of the tests lead to the end of run_tests.
ExitByScore == Exit(IF suite.total < suite.possible THEN 1 ELSE 0)

\* A filter on the titles limits the tests.  The full build comes first.
Suite(limit) == [limit |-> limit, next |-> 1, frames |-> <<>>, complete |-> {},
                 total |-> 0, possible |-> 0, passed |-> {}, failed |-> {}]

Grade ==
  /\ pc \in {"shell", "exited"} /\ grades < MaxGrades
  /\ grades' = grades + 1 /\ interrupted' = FALSE
  /\ \E limit \in Filters : suite' = Suite(limit)
  /\ r' = Runner(0)
  /\ history' = [history EXCEPT !.shown = {}, !.cut = {}]
  /\ pc' = "make"
  /\ UNCHANGED <<exit, world>>

\* Nothing bounds the time the build takes.
MakeEnds ==
  /\ pc = "make"
  /\ \/ pc' = "tests" /\ UNCHANGED exit
     \/ Exit(1)
  /\ UNCHANGED <<suite, r, world, user, history>>

NextTest ==
  /\ pc = "tests"
  /\ IF suite.next > Len(TESTS)
       THEN ExitByScore /\ UNCHANGED suite
       ELSE LET t == TESTS[suite.next] IN
            /\ pc' = IF t \in suite.limit THEN "enter" ELSE "tests"
            /\ suite' = [suite EXCEPT !.next = @ + 1,
                           !.frames = IF t \in suite.limit THEN <<t>> ELSE <<>>]
            /\ UNCHANGED exit
  /\ UNCHANGED <<r, world, user, history>>

\* The caller goes on: a child with its own function, or run_tests.
Return(s) == /\ suite' = [s EXCEPT !.frames = Tail(@)]
             /\ pc' = IF Len(s.frames) = 1 THEN "tests" ELSE "body"

Enter_Again ==
  /\ pc = "enter"
  /\ LET t == Head(suite.frames) IN
     \/ Parent[t] # NoTest /\ suite' = [suite EXCEPT !.frames = <<Parent[t]>> \o @]
                           /\ UNCHANGED pc
     \/ Parent[t] = NoTest /\ pc' = "body" /\ UNCHANGED suite
  /\ UNCHANGED <<r, exit, world, user, history>>

Enter ==
  /\ pc = "enter"
  /\ LET t == Head(suite.frames)
         s == [suite EXCEPT !.complete = @ \cup {t}] IN
     \/ t \in suite.complete /\ Return(suite)
     \/ /\ t \notin suite.complete /\ Parent[t] # NoTest
        /\ suite' = [s EXCEPT !.frames = <<Parent[t]>> \o @]
        /\ UNCHANGED pc
     \/ t \notin suite.complete /\ Parent[t] = NoTest /\ suite' = s /\ pc' = "body"
  /\ UNCHANGED <<r, exit, world, user, history>>

Result_PossibleIfOk(ok) ==
  LET t == Head(suite.frames) IN
  Return([suite EXCEPT !.possible = @ + (IF ok THEN Points[t] ELSE 0),
                       !.total = @ + (IF ok THEN Points[t] ELSE 0),
                       !.passed = IF ok THEN @ \cup {t} ELSE @,
                       !.failed = IF ok THEN @ ELSE @ \cup {t}])

Result(ok) ==
  LET t == Head(suite.frames) IN
  Return([suite EXCEPT !.possible = @ + Points[t],
                       !.total = @ + (IF ok THEN Points[t] ELSE 0),
                       !.passed = IF ok THEN @ \cup {t} ELSE @,
                       !.failed = IF ok THEN @ ELSE @ \cup {t}])

Match_AnyOutput ==
  /\ pc = "body" /\ Head(suite.frames) \notin RunsQemu
  /\ Result(r.output # {})
  /\ UNCHANGED <<r, exit, world, user, history>>

Match ==
  /\ pc = "body" /\ Head(suite.frames) \notin RunsQemu
  /\ Result(Head(suite.frames) \in r.output)
  /\ UNCHANGED <<r, exit, world, user, history>>

-----------------------------------------------------------------------------
(* Runner.run_qemu and the reactor loop. *)

Probe ==
  /\ pc = "body" /\ Head(suite.frames) \in RunsQemu /\ Serving # {}
  /\ Exit(1)
  /\ UNCHANGED <<suite, r, world, user, history>>

Spawn_Unprobed ==
  /\ pc = "body" /\ Head(suite.frames) \in RunsQemu
  /\ \E e \in Emulators :
       /\ emu[e] = "none" /\ \A f \in 1 .. e - 1 : emu[f] # "none"
       /\ emu' = [emu EXCEPT ![e] = "building"]
       /\ r' = Runner(e)
  /\ history' = [history EXCEPT !.early = {e \in Emulators : emu[e] = "building"}]
  /\ pc' = "react" /\ pipe' = <<>> /\ t05' = FALSE
  /\ UNCHANGED <<suite, exit, told, user>>

Spawn ==
  /\ pc = "body" /\ Head(suite.frames) \in RunsQemu /\ Serving = {}
  /\ \E e \in Emulators :
       /\ emu[e] = "none" /\ \A f \in 1 .. e - 1 : emu[f] # "none"
       /\ emu' = [emu EXCEPT ![e] = "building"]
       /\ r' = Runner(e)
  /\ history' = [history EXCEPT !.early = {e \in Emulators : emu[e] = "building"}]
  /\ pc' = "react" /\ pipe' = <<>> /\ t05' = FALSE
  /\ UNCHANGED <<suite, exit, told, user>>

\* What follows the reactor loop of each phase.
Leave(run) ==
  CASE run.phase = "start" -> /\ pc' = IF run.gdb = None THEN "finally" ELSE "up"
                              /\ r' = run
    [] run.phase = "run"   -> pc' = "finally" /\ r' = run
    [] run.phase = "stop"  -> pc' = "wait" /\ r' = [run EXCEPT !.gdb = Closed]

Fileno(reactor) == IF reactor = "qemu" THEN r.proc
                                       ELSE r.phase # "start" /\ r.gdb # Closed
Readable(reactor) ==
  IF reactor = "qemu" THEN pipe # <<>> \/ emu[r.me] = "gone"
                      ELSE t05 \/ emu[r.gdb] = "gone"

Deadline ==
  /\ pc \in {"react", "handle"} /\ ~r.expired
  /\ r' = [r EXCEPT !.expired = TRUE]
  /\ UNCHANGED <<pc, suite, exit, world, user, history>>

TimedOut ==
  /\ pc = "react" /\ r.expired
  /\ history' = [history EXCEPT !.cut = @ \cup {Head(suite.frames)}]
  /\ Leave(r)
  /\ UNCHANGED <<suite, exit, world, user>>

Select ==
  /\ pc = "react" /\ ~r.expired
  /\ LET open == {x \in {"qemu", "gdb"} : Fileno(x)}
         ready == {x \in open : Readable(x)} IN
     \/ open = {} /\ Leave(r)
     \/ ready # {} /\ r' = [r EXCEPT !.rset = ready] /\ pc' = "handle"
  /\ UNCHANGED <<suite, exit, world, user, history>>

Handled(x, run) == LET rest == r.rset \ {x} IN
                   /\ r' = [run EXCEPT !.rset = rest]
                   /\ pc' = IF rest = {} THEN "react" ELSE "handle"

\* The callback of stop_on_line keeps the lines behind the one that stopped it.
StopOnLine(buf, run) ==
  LET hits == {k \in DOMAIN buf : buf[k] \in StopLines} IN
  IF hits = {} THEN Handled("qemu", [run EXCEPT !.buf = <<>>])
  ELSE Leave([run EXCEPT !.buf = SubSeq(buf, Min(hits) + 1, Len(buf))])

ReadQemu ==
  /\ pc = "handle" /\ "qemu" \in r.rset
  /\ \/ \E k \in 1 .. Len(pipe) :
          LET buf == SubSeq(pipe, 1, k)
              run == [r EXCEPT !.output = @ \cup Range(buf)] IN
          /\ pipe' = SubSeq(pipe, k + 1, Len(pipe))
          /\ IF r.phase = "start" THEN pc' = "connect" /\ r' = run
                                  ELSE StopOnLine(r.buf \o buf, run)
     \/ /\ pipe = <<>> /\ UNCHANGED pipe
        /\ IF r.phase = "start" THEN Leave(r)
           ELSE IF \E k \in DOMAIN r.buf : r.buf[k] \in StopLines
                  THEN StopOnLine(r.buf, r)
                  ELSE Handled("qemu", [r EXCEPT !.proc = FALSE])
  /\ UNCHANGED <<suite, exit, emu, told, t05, user, history>>

ReadGdb ==
  /\ pc = "handle" /\ r.rset = {"gdb"}
  /\ IF t05 THEN t05' = FALSE /\ Leave(r)
            ELSE Handled("gdb", [r EXCEPT !.gdb = Closed]) /\ UNCHANGED t05
  /\ UNCHANGED <<suite, exit, emu, told, pipe, user, history>>

Connect_Forever ==
  /\ pc = "connect"
  /\ \E e \in Serving :
       /\ Leave([r EXCEPT !.gdb = e])
       /\ history' = [history EXCEPT !.attached = @ \cup ({e} \cap {r.me})]
  /\ UNCHANGED <<suite, exit, world, user>>

\* __monitor_start tries for 30 seconds, which outlast the reactor's deadline.
Connect ==
  /\ pc = "connect"
  /\ \/ \E e \in Serving :
          /\ Leave([r EXCEPT !.gdb = e])
          /\ history' = [history EXCEPT !.attached = @ \cup ({e} \cap {r.me})]
     \/ /\ r' = [r EXCEPT !.expired = TRUE, !.rset = {}] /\ pc' = "react"
        /\ UNCHANGED history
  /\ UNCHANGED <<suite, exit, world, user>>

\* The monitors are set up and the stub is told to continue.
Continue ==
  /\ pc = "up"
  /\ pc' = "react" /\ r' = [r EXCEPT !.phase = "run", !.expired = FALSE, !.rset = {}]
  /\ emu' = [emu EXCEPT ![r.gdb] = IF Alive(r.gdb) THEN "running" ELSE @]
  /\ UNCHANGED <<suite, exit, told, pipe, t05, user, history>>

MonitorRaises_OutsideTry ==
  /\ pc = "up" /\ Result(FALSE)
  /\ UNCHANGED <<r, exit, world, user, history>>

\* stop_breakpoint finds no symbol, or the stub is gone when written to.
MonitorRaises ==
  /\ pc = "up" /\ pc' = "finally"
  /\ \/ r' = [r EXCEPT !.raised = "assertion"]
     \/ ~Alive(r.gdb) /\ r' = [r EXCEPT !.raised = "error"]
  /\ UNCHANGED <<suite, exit, world, user, history>>

Shutdown_Undrained ==
  /\ pc = "finally"
  /\ \/ r.gdb = None /\ Exit(1) /\ UNCHANGED <<r, told>>
     \/ /\ r.gdb # None /\ pc' = "wait"
        /\ r' = [r EXCEPT !.phase = "stop", !.expired = FALSE, !.gdb = Closed]
        /\ told' = IF r.proc THEN told \cup {r.me} ELSE told
        /\ UNCHANGED exit
  /\ UNCHANGED <<suite, emu, pipe, t05, user, history>>

Shutdown ==
  /\ pc = "finally"
  /\ \/ r.gdb = None /\ Exit(1) /\ UNCHANGED <<r, told>>
     \/ /\ r.gdb # None /\ pc' = "react"
        /\ r' = [r EXCEPT !.phase = "stop", !.expired = FALSE, !.rset = {}]
        /\ told' = IF r.proc THEN told \cup {r.me} ELSE told
        /\ UNCHANGED exit
  /\ UNCHANGED <<suite, emu, pipe, t05, user, history>>

Wait ==
  /\ pc = "wait" /\ (r.proc => ~Alive(r.me))
  /\ r' = [r EXCEPT !.proc = FALSE]
  /\ CASE r.raised \in {"nothing", "assertion"} ->
            Result(r.raised = "nothing") /\ UNCHANGED exit
       [] r.raised = "error"     -> Exit(1) /\ UNCHANGED suite
       [] r.raised = "interrupt" -> ExitByScore /\ UNCHANGED suite
  /\ UNCHANGED <<world, user, history>>

\* Ctrl-C reaches the grader, make and QEMU.  The shutdown after the first one
\* needs self.reactors, which the Runner has from its first run on.
Interrupt ==
  /\ pc \notin {"shell", "exited"}
  /\ interrupted' = TRUE
  /\ told' = IF r.me # 0 /\ Alive(r.me) THEN told \cup {r.me} ELSE told
  /\ LET running == pc \in {"react", "handle", "connect", "up"} /\ r.phase # "stop"
         firstRun == (suite.passed \cup suite.failed) \cap RunsQemu = {} IN
     \/ running /\ r' = [r EXCEPT !.raised = "interrupt"] /\ pc' = "finally"
        /\ UNCHANGED exit
     \/ ~running /\ pc # "make" /\ ExitByScore /\ UNCHANGED r
     \/ /\ pc = "make" \/ (pc = "up" /\ firstRun)
        /\ Exit(1) /\ UNCHANGED r
  /\ UNCHANGED <<suite, emu, pipe, t05, grades, history>>

-----------------------------------------------------------------------------
(* Make, the emulator and its stub. *)

MakePrints ==
  /\ Mine /\ emu[r.me] = "building" /\ Len(pipe) < PIPE
  /\ pipe' = Append(pipe, Make)
  /\ UNCHANGED <<pc, suite, r, exit, emu, told, t05, user, history>>

\* One process can hold the port; another gives up.
Listen(e) ==
  /\ emu[e] = "building"
  /\ emu' = [emu EXCEPT ![e] = IF Serving = {} THEN "listening" ELSE "gone"]
  /\ UNCHANGED <<pc, suite, r, exit, told, pipe, t05, user, history>>

PrintLine ==
  /\ Mine /\ emu[r.me] = "running" /\ Len(pipe) < PIPE
  /\ \E l \in Lines :
       /\ pipe' = Append(pipe, l)
       /\ history' = [history EXCEPT !.shown = @ \cup {<<Head(suite.frames), l>>}]
  /\ UNCHANGED <<pc, suite, r, exit, emu, told, t05, user>>

Breakpoint(e) ==
  /\ emu[e] = "running"
  /\ emu' = [emu EXCEPT ![e] = "stopped"]
  /\ t05' = (t05 \/ (Mine /\ r.gdb = e))
  /\ UNCHANGED <<pc, suite, r, exit, told, pipe, user, history>>

\* It fails, crashes, ends by itself or because it was told to.
Die(e) ==
  /\ Alive(e)
  /\ emu' = [emu EXCEPT ![e] = "gone"]
  /\ UNCHANGED <<pc, suite, r, exit, told, pipe, t05, user, history>>

-----------------------------------------------------------------------------

Init ==
  /\ pc = "shell" /\ exit = 0 /\ grades = 0 /\ interrupted = FALSE
  /\ suite = Suite({}) /\ r = Runner(0)
  /\ emu = [e \in Emulators |-> "none"] /\ told = {} /\ pipe = <<>> /\ t05 = FALSE
  /\ history = [shown |-> {}, cut |-> {}, attached |-> {}, early |-> {}]

Grader ==
  \/ NextTest \/ Enter \/ Match \/ Probe \/ Spawn \/ TimedOut \/ Select
  \/ ReadQemu \/ ReadGdb \/ Connect \/ Continue \/ MonitorRaises \/ Shutdown \/ Wait

Environment ==
  \/ Deadline \/ MakePrints \/ PrintLine
  \/ \E e \in Emulators : Listen(e) \/ Breakpoint(e) \/ Die(e)

Next == Grade \/ MakeEnds \/ Grader \/ Environment \/ Interrupt

\* Once built, the grader runs; time passes; an emulator that is told to end does.
Fairness ==
  /\ WF_vars(Grader) /\ WF_vars(Deadline)
  /\ \A e \in Emulators : WF_vars(e \in told /\ Die(e))

Spec == Init /\ [][Next]_vars /\ Fairness

-----------------------------------------------------------------------------
(* Properties. *)

\* Points of those of the first k registered tests that are in a set.
Earned(tests) ==
  LET sum[k \in 0 .. Len(TESTS)] ==
        IF k = 0 THEN 0
        ELSE sum[k - 1] + (IF TESTS[k] \in tests THEN Points[TESTS[k]] ELSE 0)
  IN  sum

Worth(tests) == Earned(tests)[Len(TESTS)]

\* Everything has its type, and the score counts each test that ended once, as
\* run_test.complete is there to ensure (gradelib.py:37).
TypeOK ==
  /\ pc \in {"shell", "make", "tests", "enter", "body", "react", "handle", "connect",
             "up", "finally", "wait", "exited"}
  /\ exit \in {0, 1} /\ grades \in 0 .. MaxGrades /\ interrupted \in BOOLEAN
  /\ suite.complete \subseteq Tests /\ suite.frames \in Seq(Tests)
  /\ suite.total = Worth(suite.passed)
  /\ suite.possible = Worth(suite.passed \cup suite.failed)
  /\ emu \in [Emulators -> {"none", "building", "listening", "running", "stopped", "gone"}]
  /\ told \subseteq Emulators /\ t05 \in BOOLEAN
  /\ Len(pipe) <= PIPE /\ Range(pipe) \subseteq Lines \cup {Make}
  /\ r.me \in Emulators \cup {0} /\ r.phase \in {"start", "run", "stop"}
  /\ r.gdb \in Emulators \cup {None, Closed} /\ r.rset \subseteq {"qemu", "gdb"}
  /\ r.output \subseteq Lines \cup {Make} /\ {r.proc, r.expired} \subseteq BOOLEAN
  /\ r.raised \in {"nothing", "assertion", "error", "interrupt"}

\* However a run ends -- breakpoint, deadline, crash, failing monitor, Ctrl-C --
\* an emulator the grader was attached to is gone, or was told to end, when the
\* next test starts and when the grader exits (run_qemu's finally).
LeftOnlyUnconnected ==
  \A e \in history.attached :
    Alive(e) /\ (e # r.me \/ pc \in {"tests", "enter", "body", "exited"}) => e \in told

\* The stub a grader talks to belongs to its own emulator, or to one that was
\* still being built when QEMU's constructor looked for a running one.
ForeignOnlyLate == r.gdb \in Emulators => r.gdb = r.me \/ r.gdb \in history.early

\* A test passes only if the kernel showed its line in the run of its parent:
\* no output of another run or of a broken start earns points.
PassedWasShown ==
  \A t \in suite.passed \ RunsQemu : <<Parent[t], t>> \in history.shown

\* A test whose line the kernel showed fails only if a deadline cut the run
\* short or a line stopped it: what is still in the pipe at a breakpoint or when
\* the emulator dies is read before the tests look at it.
FailedWasCut ==
  \A t \in suite.failed \ RunsQemu :
    <<Parent[t], t>> \in history.shown
      => \/ Parent[t] \in history.cut
         \/ \E l \in StopLines : <<Parent[t], l>> \in history.shown

\* Unless the user interrupts, status 0 means that every test asked for that is
\* worth points was run and passed.
ZeroMeansPassed ==
  pc = "exited" /\ exit = 0 /\ ~interrupted
    => {t \in suite.limit : Points[t] > 0} \subseteq suite.passed

\* Every grader whose first build has ended exits, whatever the kernel and the
\* emulator do.
Ends == pc = "tests" ~> pc = "exited"

=============================================================================
