------------------------------ MODULE MCGrader ------------------------------
(* Two tests that look for a line of one run of the kernel, the second for   *)
(* the line that ends it, and two graders: the second may find what the      *)
(* first left behind.  The run is worth a point, so that a second run counts.*)
EXTENDS Grader

MCTESTS == <<"jos", "printf", "backtrace">>
MCRunsQemu == {"jos"}
MCParent == [t \in Range(MCTESTS) |-> IF t = "jos" THEN "no test" ELSE "jos"]
MCPoints == [t \in Range(MCTESTS) |-> 1]
MCStopLines == {"backtrace"}
MCFilters == {Range(MCTESTS), {"printf"}}
MCEmulators == 1 .. 2
=============================================================================
