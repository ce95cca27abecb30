-------------------------- MODULE StabSearchProofs --------------------------
(***************************************************************************)
(* Theorems about StabSearch, for every table and every address: the       *)
(* lookup reads only the table (TypeCorrect), each search finds what it    *)
(* is asked for (Finds) and the function it names is the nearest (Names).  *)
(***************************************************************************)
EXTENDS StabSearch, TLAPS

-----------------------------------------------------------------------------
(* The shape of a search                                                   *)

Searching == pc \in {"loop", "scan"}

\* The region of a call: it starts with an entry of another type, the header
\* of the table or the N_SO of the file.
Region ==
  /\ stabs \in Tables /\ eip \in Addresses
  /\ pc \in {"start", "loop", "scan", "fix", "return", "file", "args", "done"}
  /\ type \in {"SO", "FUN"}
  /\ lo \in 0 .. N - 1 /\ hi \in lo .. N - 1
  /\ stabs[lo].type # type
  /\ type = "SO" => lo = 0

\* The bracket stays inside the region, the window [l, r] inside the bracket,
\* and the left end is the start of the region or a match below addr.
Bracket ==
  /\ addr \in 0 .. W - 1
  /\ left \in lo .. hi
  /\ right \in lo - 1 .. hi
  /\ l \in 0 .. N /\ r \in 0 .. N - 1
  /\ true_m \in 0 .. N - 1
  /\ Searching => /\ l \in left .. r + 1
                  /\ r \in left .. hi /\ right = r
                  /\ left = lo \/ stabs[left].value < addr
  /\ left = lo \/ (stabs[left].type = type /\ left <= right)
  /\ pc = "scan" => true_m \in l .. r /\ m \in l - 1 .. true_m
  /\ pc = "fix" => l \in left .. right

\* debuginfo_eip's own walks over the table.
Caller ==
  /\ pc = "start" => type = "SO" /\ lo = 0 /\ hi = 0
  /\ (Searching \/ pc \in {"fix", "return"}) /\ type = "FUN" =>
       lo = lfile /\ hi = rfile
  /\ lfile \in 0 .. N - 1 /\ rfile \in -1 .. N - 1
  /\ pc = "file" => /\ lline \in lfile - 1 .. rfile
                    /\ lfun \in lfile .. rfile /\ rfun \in lfile - 1 .. rfile
  /\ pc = "args" => /\ lline \in lfun + 1 .. rfun
                    /\ lfun \in lfile .. rfile /\ rfun \in lfile .. rfile
                    /\ info.narg = lline - lfun - 1
  /\ info.narg \in 0 .. N
  /\ pc \notin {"args", "done"} => info.narg = 0
  /\ DOMAIN info = {"ret", "fn", "fn_addr", "file", "narg"}

\* The bracket is still open on the left until an entry of the type is seen.
NoneYet ==
  /\ any_matches \in BOOLEAN
  /\ Searching /\ ~any_matches => left = lo

IInv == Region /\ NoneYet /\ Bracket /\ Caller

\* The invariant contains the types that the runs check.
LEMMA InvTypes == IInv => TypeOK
<1> SUFFICES ASSUME IInv PROVE TypeOK
  OBVIOUS
<1>1. N \in Nat
  BY StabAssumption
<1>2. /\ lo \in 0 .. N - 1 /\ hi \in lo .. N - 1
      /\ left \in 0 .. N - 1 /\ right \in -1 .. N - 1
  BY <1>1 DEF IInv, Region, Bracket
<1>3. /\ pc = "scan" => m \in l - 1 .. r
      /\ pc = "fix" => l <= right
      /\ l \in 0 .. N /\ r \in -1 .. N - 1
  BY <1>1, <1>2 DEF IInv, Bracket
<1>4. pc = "args" => lline \in lfile .. rfile
  BY <1>1 DEF IInv, Caller
<1> QED BY <1>2, <1>3, <1>4 DEF IInv, Region, NoneYet, Bracket, Caller, TypeOK

\* The entries of a table.
LEMMA Entry ==
  ASSUME NEW t \in Tables, NEW k \in 0 .. N - 1
  PROVE  /\ t[k].type \in Types
         /\ t[k].value \in Addresses
         /\ t[k].value \in Int /\ t[k].value >= 0 /\ t[k].value + 1 < W
<1>1. t[k] \in [type : Types, value : Addresses]
  BY StabAssumption DEF Stab
<1>2. t[k].type \in Types /\ t[k].value \in Addresses
  BY <1>1
<1>3. t[k].value \in 0 .. W - 2 /\ W \in Nat
  BY <1>2, StabAssumption
<1> QED BY <1>2, <1>3

\* A lookup starts with the invariant.
LEMMA InitInv == Init => IInv
<1> SUFFICES ASSUME Init PROVE IInv
  OBVIOUS
<1>1. stabs[0].type = "UNDF" /\ 0 \in 0 .. N - 1 /\ N \in Nat
  BY StabAssumption DEF Init
<1>2. eip \in Int /\ W \in Nat /\ W >= 2
  BY StabAssumption DEF Init
<1>3. Region
  BY <1>1 DEF Init, Region
<1>4. Bracket
  BY <1>1, <1>2 DEF Init, Bracket, Searching
<1>5. Caller
  <2>1. DOMAIN info = {"ret", "fn", "fn_addr", "file", "narg"} /\ info.narg = 0
    BY DEF Init
  <2> QED BY <1>1, <1>2, <2>1 DEF Init, Caller, Searching
<1>6. NoneYet
  BY DEF Init, NoneYet
<1> QED BY <1>3, <1>4, <1>5, <1>6 DEF IInv

\* What a step of the search needs to know.
LEMMA SearchFacts ==
  ASSUME IInv
  PROVE  /\ N \in Nat /\ W \in Nat
         /\ lo \in Nat /\ hi \in Nat /\ lo <= hi /\ hi < N
         /\ left \in Nat /\ right \in Int /\ l \in Nat /\ r \in Nat
         /\ lo <= left /\ left <= hi /\ lo - 1 <= right /\ right <= hi
         /\ true_m \in Nat /\ addr \in Nat /\ addr < W
         /\ Searching => /\ left <= l /\ l <= r + 1 /\ left <= r /\ r <= hi
                         /\ right = r
BY StabAssumption DEF IInv, Region, Bracket

\* Where the scan stands.
LEMMA ScanFacts ==
  ASSUME IInv, pc = "scan"
  PROVE  /\ Searching
         /\ l <= true_m /\ true_m <= r
         /\ m \in Int /\ l - 1 <= m /\ m <= true_m
         /\ m >= l => m \in 0 .. N - 1
BY SearchFacts DEF IInv, Bracket, Searching

\* A match is not the start of the region, and an entry's address fits.
LEMMA FoundFacts ==
  ASSUME IInv, Found
  PROVE  /\ pc = "scan" /\ m >= l
         /\ m # lo /\ stabs[m].type = type
         /\ m \in 0 .. N - 1 /\ m \in Nat
         /\ stabs[m].value \in Nat /\ stabs[m].value + 1 < W
<1>1. m \in 0 .. N - 1 /\ m \in Nat
  BY ScanFacts, SearchFacts DEF Found
<1> QED BY <1>1, Entry DEF Found, IInv, Region

\* A step of stab_binsearch that keeps its region.
LEMMA SearchStep ==
  ASSUME IInv, pc \in {"loop", "scan", "fix"}, pc' \in {"loop", "scan", "fix", "return"},
         UNCHANGED <<input, type, lo, hi, caller>>,
         NoneYet', Bracket'
  PROVE  IInv'
<1>1. Region'
  BY DEF IInv, Region, input
<1>2. Caller'
  BY DEF IInv, Caller, Searching, caller
<1> QED BY <1>1, <1>2 DEF IInv

\* Every step of stab_binsearch keeps the invariant.
LEMMA BinsearchInv ==
  ASSUME IInv, Binsearch
  PROVE  IInv'
<1> USE DEF Searching
<1>1. CASE Halve
  <2>1. l <= true_m' /\ true_m' <= r /\ true_m' \in Nat /\ m' = true_m'
    BY <1>1, SearchFacts DEF Halve
  <2>2. Bracket'
    BY <1>1, <2>1, SearchFacts DEF IInv, Bracket, Halve, input
  <2>3. NoneYet'
    BY <1>1 DEF IInv, NoneYet, Halve
  <2> QED BY <1>1, <2>2, <2>3, SearchStep DEF Halve
<1>2. CASE ScanDown
  <2>1. Bracket'
    BY <1>2, SearchFacts, ScanFacts DEF IInv, Bracket, ScanDown, input
  <2>2. NoneYet'
    BY <1>2 DEF IInv, NoneYet, ScanDown
  <2> QED BY <1>2, <2>1, <2>2, SearchStep DEF ScanDown
<1>3. CASE NoMatch
  <2>1. Bracket'
    BY <1>3, SearchFacts, ScanFacts DEF IInv, Bracket, NoMatch, input
  <2>2. NoneYet'
    BY <1>3 DEF IInv, NoneYet, NoMatch
  <2> QED BY <1>3, <2>1, <2>2, SearchStep DEF NoMatch
<1>4. CASE Below
  <2>1. Bracket'
    BY <1>4, SearchFacts, ScanFacts, FoundFacts DEF IInv, Bracket, Below, Found, input
  <2>2. NoneYet'
    BY <1>4 DEF IInv, NoneYet, Below, Found
  <2> QED BY <1>4, <2>1, <2>2, SearchStep DEF Below, Found
<1>5. CASE Above
  <2>1. m > left
    <3>1. m # left
      BY <1>5, SearchFacts, FoundFacts DEF IInv, Bracket, Above
    <3> QED BY <1>5, <3>1, SearchFacts, ScanFacts, FoundFacts DEF Above
  <2>2. Bracket'
    BY <1>5, <2>1, SearchFacts, ScanFacts, FoundFacts DEF IInv, Bracket, Above, Found, input
  <2>3. NoneYet'
    BY <1>5 DEF IInv, NoneYet, Above, Found
  <2> QED BY <1>5, <2>2, <2>3, SearchStep DEF Above, Found
<1>6. CASE Exact
  <2>1. addr' = addr + 1 /\ addr' < W /\ addr' \in Nat
    BY <1>6, FoundFacts, SearchFacts DEF Exact
  <2>2. Bracket'
    BY <1>6, <2>1, SearchFacts, ScanFacts, FoundFacts DEF IInv, Bracket, Exact, Found, input
  <2>3. NoneYet'
    BY <1>6 DEF IInv, NoneYet, Exact, Found
  <2> QED BY <1>6, <2>2, <2>3, SearchStep DEF Exact, Found
<1>7. CASE LoopEnd
  <2>1. NoneYet'
    BY <1>7 DEF IInv, NoneYet, LoopEnd
  <2>2. CASE any_matches
    <3>1. Bracket'
      BY <1>7, <2>2, SearchFacts DEF IInv, Bracket, LoopEnd, input
    <3> QED BY <1>7, <2>1, <2>2, <3>1, SearchStep DEF LoopEnd
  <2>3. CASE ~any_matches
    <3>1. left = lo /\ right' = left - 1 /\ pc' = "return"
      BY <1>7, <2>3 DEF IInv, NoneYet, LoopEnd
    <3>2. UNCHANGED <<stabs, type, addr, left, l, r, true_m, lo, hi>>
      BY <1>7, <2>3 DEF LoopEnd, input
    <3>3. Bracket'
      BY <1>7, <3>1, <3>2, SearchFacts DEF IInv, Bracket, LoopEnd
    <3> QED BY <1>7, <2>1, <2>3, <3>3, SearchStep DEF LoopEnd
  <2> QED BY <2>2, <2>3
<1>8. CASE FixDown
  <2>1. l \in left .. right
    BY <1>8 DEF IInv, Bracket, FixDown
  <2>2. Bracket'
    BY <1>8, <2>1, SearchFacts DEF IInv, Bracket, FixDown, input
  <2>3. NoneYet'
    BY <1>8 DEF IInv, NoneYet, FixDown
  <2> QED BY <1>8, <2>2, <2>3, SearchStep DEF FixDown
<1> QED BY <1>1, <1>2, <1>3, <1>4, <1>5, <1>6, <1>7, <1>8 DEF Binsearch

-----------------------------------------------------------------------------
(* debuginfo_eip keeps the invariant                                       *)

\* A call of stab_binsearch on a region that starts with another type.
LEMMA CallInv ==
  ASSUME IInv, NEW ty \in {"SO", "FUN"},
         NEW a \in 0 .. N - 1, NEW b \in a .. N - 1,
         stabs[a].type # ty, ty = "SO" => a = 0,
         Call(ty, a, b), pc' = "loop", UNCHANGED input,
         ty = "FUN" => a = lfile' /\ b = rfile',
         lfile' \in 0 .. N - 1, rfile' \in -1 .. N - 1,
         info' = info, pc \notin {"args", "done"}
  PROVE  IInv'
<1>1. N \in Nat /\ W \in Nat /\ true_m \in 0 .. N - 1 /\ eip \in 0 .. W - 1
  BY StabAssumption DEF IInv, Region, Bracket
<1>2. Region'
  BY DEF IInv, Region, Call, input
<1>3. NoneYet'
  BY DEF Call, NoneYet
<1>4. Bracket'
  BY <1>1 DEF Call, Bracket, Searching
<1>5. Caller'
  BY <1>1 DEF IInv, Caller, Call, Searching
<1> QED BY <1>2, <1>3, <1>4, <1>5 DEF IInv

\* A step of debuginfo_eip that leaves the search alone.
LEMMA CallerStep ==
  ASSUME IInv, UNCHANGED <<input, search>>,
         pc' \in {"file", "args", "done"}, Caller'
  PROVE  IInv'
<1>1. Region' /\ NoneYet'
  BY DEF IInv, Region, NoneYet, Searching, input, search
<1>2. Bracket'
  BY DEF IInv, Bracket, Searching, input, search
<1> QED BY <1>1, <1>2 DEF IInv

\* The step that starts the lookup, and the one that gives it up.
LEMMA FileInv ==
  ASSUME IInv, FindFile \/ NoFile \/ FindFun
  PROVE  IInv'
<1>1. N \in Nat /\ N >= 1 /\ stabs[0].type = "UNDF"
  BY StabAssumption DEF IInv, Region
<1>2. CASE FindFile
  <2>1. Call("SO", 0, N - 1) /\ pc = "start" /\ pc' = "loop" /\ UNCHANGED <<input, caller>>
    BY <1>2 DEF FindFile
  <2>2. lfile' \in 0 .. N - 1 /\ rfile' \in -1 .. N - 1 /\ info' = info
    BY <2>1 DEF IInv, Caller, caller
  <2>3. 0 \in 0 .. N - 1 /\ N - 1 \in 0 .. N - 1
    BY <1>1
  <2> QED BY <1>1, <2>1, <2>2, <2>3, CallInv
<1>3. CASE NoFile
  <2>1. UNCHANGED <<input, search>> /\ pc' = "done"
    BY <1>3 DEF NoFile
  <2>2. lfile' = left /\ rfile' = right /\ info' = [info EXCEPT !.ret = -1]
    BY <1>3 DEF NoFile
  <2>3. left \in 0 .. N - 1 /\ right \in -1 .. N - 1
    BY <1>1, SearchFacts
  <2>4. DOMAIN info' = DOMAIN info /\ info'.narg = info.narg
    BY <2>2 DEF IInv, Caller
  <2>5. Caller'
    BY <2>1, <2>2, <2>3, <2>4 DEF IInv, Caller, Searching
  <2> QED BY <2>1, <2>5, CallerStep
<1>4. CASE FindFun
  <2>1. /\ Call("FUN", left, right) /\ pc = "return" /\ pc' = "loop"
        /\ type = "SO" /\ left # 0 /\ lfile' = left /\ rfile' = right
        /\ info' = info /\ UNCHANGED input
    BY <1>4 DEF FindFun
  <2>2. stabs[left].type = "SO" /\ left <= right
    BY <2>1 DEF IInv, Region, Bracket
  <2>3. left \in 0 .. N - 1 /\ right \in left .. N - 1
    BY <1>1, <2>2, SearchFacts
  <2>4. lfile' \in 0 .. N - 1 /\ rfile' \in -1 .. N - 1
    BY <1>1, <2>1, <2>3
  <2> QED BY <2>1, <2>2, <2>3, <2>4, CallInv
<1> QED BY <1>2, <1>3, <1>4

\* Naming the function, the file and counting the arguments.
LEMMA ReportInv ==
  ASSUME IInv, NameFun \/ FileBack \/ NameFile \/ CountArg
  PROVE  IInv'
<1>1. N \in Nat /\ N >= 1
  BY StabAssumption
<1>2. /\ lfile \in Nat /\ lfile < N /\ rfile \in Int /\ rfile < N
      /\ info.narg \in 0 .. N
  BY <1>1 DEF IInv, Caller
<1>3. CASE NameFun
  <2>1. /\ UNCHANGED <<input, search, lfile, rfile>> /\ pc' = "file"
        /\ lfun' = left /\ rfun' = right
        /\ lline' = left \/ lline' = lfile
        /\ left <= right => lline' = left
        /\ ~(left <= right) => lline' = lfile
    BY <1>3 DEF NameFun
  <2>2. lo = lfile /\ hi = rfile
    BY <1>3 DEF IInv, Caller, NameFun
  <2>3. info'.narg = info.narg /\ DOMAIN info' = DOMAIN info /\ info.narg = 0
    BY <1>3 DEF IInv, Caller, NameFun
  <2>4. /\ lline' \in lfile - 1 .. rfile
        /\ lfun' \in lfile .. rfile /\ rfun' \in lfile - 1 .. rfile
    BY <1>2, <2>1, <2>2, SearchFacts
  <2>5. Caller'
    BY <2>1, <2>3, <2>4 DEF IInv, Caller, Searching
  <2> QED BY <2>1, <2>5, CallerStep
<1>4. CASE FileBack
  <2>1. /\ UNCHANGED <<input, search, lfile, rfile, lfun, rfun, info>>
        /\ pc = "file" /\ pc' = pc /\ lline >= lfile /\ lline' = lline - 1
    BY <1>4 DEF FileBack
  <2>2. lline' \in lfile - 1 .. rfile
    BY <1>2, <2>1 DEF IInv, Caller
  <2>3. Caller'
    BY <2>1, <2>2 DEF IInv, Caller, Searching
  <2> QED BY <2>1, <2>3, CallerStep
<1>5. CASE NameFile
  <2>1. /\ UNCHANGED <<input, search, lfile, rfile, lfun, rfun>> /\ pc = "file"
        /\ lfun < rfun => pc' = "args" /\ lline' = lfun + 1
        /\ ~(lfun < rfun) => pc' = "done"
    BY <1>5 DEF NameFile
  <2>2. info'.narg = info.narg /\ DOMAIN info' = DOMAIN info /\ info.narg = 0
    BY <1>5 DEF IInv, Caller, NameFile
  <2>3. lfun \in lfile .. rfile /\ rfun \in lfile - 1 .. rfile
    BY <2>1 DEF IInv, Caller
  <2>4. lfun < rfun => /\ lline' \in lfun' + 1 .. rfun'
                       /\ lfun' \in lfile' .. rfile' /\ rfun' \in lfile' .. rfile'
                       /\ info'.narg = lline' - lfun' - 1
    BY <1>2, <2>1, <2>2, <2>3
  <2>5. Caller'
    BY <1>1, <2>1, <2>2, <2>4 DEF IInv, Caller, Searching
  <2> QED BY <2>1, <2>5, CallerStep
<1>6. CASE CountArg
  <2>1. UNCHANGED <<input, search, lfile, rfile, lfun, rfun>> /\ pc = "args"
    BY <1>6 DEF CountArg
  <2>2. /\ lline \in lfun + 1 .. rfun
        /\ lfun \in lfile .. rfile /\ rfun \in lfile .. rfile
        /\ info.narg = lline - lfun - 1
    BY <2>1 DEF IInv, Caller
  <2>3. CASE lline < rfun /\ stabs[lline].type = "PSYM"
    <3>1. info' = [info EXCEPT !.narg = info.narg + 1] /\ lline' = lline + 1 /\ pc' = pc
      BY <1>6, <2>3 DEF CountArg
    <3>2. info'.narg = info.narg + 1 /\ DOMAIN info' = DOMAIN info
      BY <3>1 DEF IInv, Caller
    <3>3. lline' \in lfun + 1 .. rfun /\ info'.narg = lline' - lfun - 1 /\ info'.narg \in 0 .. N
      BY <1>1, <1>2, <2>2, <2>3, <3>1, <3>2
    <3>4. Caller'
      BY <2>1, <2>2, <3>1, <3>2, <3>3 DEF IInv, Caller, Searching
    <3> QED BY <2>1, <3>1, <3>4, CallerStep
  <2>4. CASE ~(lline < rfun /\ stabs[lline].type = "PSYM")
    <3>1. info' = info /\ lline' = lline /\ pc' = "done"
      BY <1>6, <2>4 DEF CountArg
    <3>2. Caller'
      BY <2>1, <3>1 DEF IInv, Caller, Searching
    <3> QED BY <2>1, <3>1, <3>2, CallerStep
  <2> QED BY <2>3, <2>4
<1> QED BY <1>3, <1>4, <1>5, <1>6

\* A step that changes nothing.
LEMMA StutterInv == IInv /\ UNCHANGED vars => IInv'
BY DEF IInv, Region, NoneYet, Bracket, Caller, Searching,
       vars, input, search, caller

\* Every step of a lookup keeps the invariant.
LEMMA NextInv == IInv /\ [Next]_vars => IInv'
BY BinsearchInv, FileInv, ReportInv, StutterInv DEF Next, Done

\* The invariant holds throughout.
THEOREM InvHolds == Spec => []IInv
BY InitInv, NextInv, PTL DEF Spec

\* Type correctness of every lookup in every table: debuginfo_eip and
\* stab_binsearch read no entry outside the table, the scan never leaves the
\* window that is left to search (kdebug.c:46), and the two walks that follow
\* stay inside the file's and the function's entries.
THEOREM TypeCorrect == Spec => []TypeOK
BY InvHolds, InvTypes, PTL
-----------------------------------------------------------------------------
(* The bracket                                                             *)

\* The search looks for eip, and for eip + 1 once it has met an exact match.
Target ==
  \/ addr = eip
  \/ addr = eip + 1 /\ \E j \in Candidates : stabs[j].value = eip

\* Entries left of the window are at or below eip, entries right of the
\* bracket above it, and the bracket ends at the region's end or just before
\* an entry of the type.
Beside ==
  /\ \A k \in Candidates : k < l => stabs[k].value <= eip
  /\ \A k \in Candidates : k > right => stabs[k].value > eip
  /\ right = hi \/ right + 1 \in Candidates

\* What any_matches stands for.
Matches ==
  IF any_matches THEN Candidates # {}
  ELSE right = hi /\ \A k \in Candidates : k >= l

Split ==
  /\ Target
  /\ Beside
  /\ pc = "scan" => \A k \in m + 1 .. true_m : stabs[k].type # type

\* The walk down to the last entry of the type within the bracket.
Fix ==
  /\ Candidates # {}
  /\ \A k \in Candidates : k <= right => stabs[k].value <= eip
  /\ \A k \in Candidates : k > right => stabs[k].value > eip
  /\ right = hi \/ right + 1 \in Candidates
  /\ \A k \in l + 1 .. right : stabs[k].type # type

\* What a search leaves in any case.
Bracketed ==
  pc = "return" /\ Spaced =>
    LET under == {k \in Candidates : stabs[k].value <= eip}
        over == Candidates \ under
    IN  IF Candidates = {} THEN left = lo /\ right = lo - 1
        ELSE /\ IF over = {} THEN right = hi
                ELSE right + 1 \in over /\ \A k \in over : right < k
             /\ IF under # {} THEN left \in under /\ \A k \in under : k <= left
                ELSE left = lo

FInv ==
  Spaced => /\ Searching => Split /\ Matches
            /\ pc = "fix" => Fix
            /\ Bracketed

\* Facts on the values of the candidates.
LEMMA Values ==
  ASSUME IInv
  PROVE  /\ eip \in Nat
         /\ Candidates \subseteq 0 .. N - 1
         /\ \A k \in Candidates : /\ k \in Nat /\ lo < k /\ k <= hi
                                  /\ stabs[k].value \in Nat
         /\ \A j, k \in Candidates : j < k => stabs[j].value <= stabs[k].value
<1>1. N \in Nat /\ stabs \in Tables /\ Ordered(stabs) /\ type \in {"SO", "FUN"}
  BY StabAssumption DEF IInv, Region
<1>2. eip \in Nat
  BY StabAssumption DEF IInv, Region
<1>3. Candidates \subseteq 0 .. N - 1
  BY SearchFacts DEF Candidates
<1>4. \A k \in Candidates : stabs[k].value \in Nat
  BY <1>1, <1>3, Entry
<1>5. \A k \in Candidates : k \in Nat /\ lo < k /\ k <= hi
  BY SearchFacts DEF Candidates, IInv, Region
<1>6. \A j, k \in Candidates : j < k => stabs[j].value <= stabs[k].value
  BY <1>1, <1>3 DEF Candidates, Ordered
<1> QED BY <1>2, <1>3, <1>4, <1>5, <1>6

\* What the comparison with addr says about eip.
LEMMA Side ==
  ASSUME IInv, Spaced, Target, Found
  PROVE  /\ m \in Candidates
         /\ stabs[m].value < addr => stabs[m].value <= eip
         /\ stabs[m].value > addr => stabs[m].value > eip
         /\ stabs[m].value = addr => addr = eip
<1>1. m \in 0 .. N - 1 /\ stabs[m].type = type /\ stabs[m].value \in Nat
  BY FoundFacts
<1>2. m \in Candidates
  BY <1>1, FoundFacts, ScanFacts, SearchFacts DEF Candidates
<1>3. eip \in Nat /\ addr \in Nat
  BY Values, SearchFacts
<1>4. ASSUME stabs[m].value = addr, addr # eip
      PROVE  FALSE
  <2>1. PICK j \in Candidates : stabs[j].value = eip
    BY <1>4 DEF Target
  <2>2. /\ j \in 0 .. N - 1 /\ stabs[j].type = stabs[m].type
        /\ stabs[j].type \in {"SO", "FUN"}
    BY <1>1, <2>1, Values DEF Candidates, IInv, Region
  <2>3. stabs[m].value # stabs[j].value + 1
    BY <1>1, <2>2 DEF Spaced
  <2> QED BY <1>4, <2>1, <2>3 DEF Target
<1> QED BY <1>1, <1>2, <1>3, <1>4 DEF Target

-----------------------------------------------------------------------------
(* The steps of stab_binsearch                                             *)

\* The candidates and the address looked for belong to the call.
LEMMA SameRegion ==
  ASSUME UNCHANGED <<input, type, lo, hi>>
  PROVE  Candidates' = Candidates /\ eip' = eip /\ stabs' = stabs /\ Spaced' = Spaced
BY DEF Candidates, input, Spaced

\* A step of the loop: the scan and the three outcomes of a comparison.
LEMMA LoopStep ==
  ASSUME IInv, FInv, Spaced,
         Halve \/ ScanDown \/ NoMatch \/ Below \/ Above \/ Exact
  PROVE  FInv'
<1>1. /\ Searching /\ Searching' /\ pc' # "return" /\ pc' # "fix"
      /\ UNCHANGED <<input, type, lo, hi>>
  BY DEF Searching, Halve, ScanDown, NoMatch, Below, Above, Exact, Found
<1>2. Split /\ Matches
  BY <1>1 DEF FInv
<1>3. Candidates' = Candidates /\ eip' = eip /\ stabs' = stabs /\ type' = type /\ hi' = hi
  BY <1>1, SameRegion
<1>4. SUFFICES Split' /\ Matches'
  BY <1>1 DEF FInv, Bracketed
<1>5. CASE Halve
  <2>1. UNCHANGED <<addr, l, right, any_matches>> /\ m' = true_m' /\ true_m' \in Int
    BY <1>5, SearchFacts DEF Halve
  <2>2. Target' /\ Beside' /\ Matches'
    BY <1>2, <1>3, <2>1 DEF Split, Target, Beside, Matches
  <2>3. m' + 1 .. true_m' = {}
    <3>1. \A x \in Int : x + 1 .. x = {}
      OBVIOUS
    <3> QED BY <2>1, <3>1
  <2> QED BY <1>3, <2>2, <2>3 DEF Split
<1>6. CASE ScanDown
  <2>1. /\ UNCHANGED <<addr, l, right, any_matches, true_m>>
        /\ m' = m - 1 /\ stabs[m].type # type /\ pc = "scan"
    BY <1>6 DEF ScanDown
  <2>2. Target' /\ Beside' /\ Matches'
    BY <1>2, <1>3, <2>1 DEF Split, Target, Beside, Matches
  <2>3. \A k \in m' + 1 .. true_m : stabs[k].type # type
    BY <1>2, <2>1, ScanFacts, SearchFacts DEF Split
  <2> QED BY <1>3, <2>1, <2>2, <2>3 DEF Split
<1>7. CASE NoMatch
  <2>1. /\ UNCHANGED <<addr, right, any_matches>>
        /\ l' = true_m + 1 /\ m < l /\ pc = "scan" /\ pc' = "loop"
    BY <1>7 DEF NoMatch
  <2>2. \A k \in Candidates : k < l' => k < l
    BY <1>2, <2>1, ScanFacts, SearchFacts, Values DEF Split, Candidates
  <2>3. \A k \in Candidates : k >= l => k >= l'
    BY <2>1, <2>2, ScanFacts, SearchFacts, Values
  <2>4. Target' /\ Beside'
    BY <1>2, <1>3, <2>1, <2>2 DEF Split, Target, Beside
  <2>5. Matches'
    BY <1>2, <1>3, <2>1, <2>3 DEF Matches
  <2> QED BY <2>1, <2>4, <2>5 DEF Split
<1>8. CASE Below
  <2>1. /\ UNCHANGED <<addr, right>> /\ pc' = "loop" /\ pc = "scan"
        /\ l' = true_m + 1 /\ any_matches' = TRUE /\ Found
        /\ stabs[m].value < addr
    BY <1>8, FoundFacts DEF Below, Found
  <2>2. m \in Candidates /\ stabs[m].value <= eip
    BY <1>2, <2>1, Side DEF Split
  <2>3. \A k \in Candidates : k < l' => k <= m
    BY <1>2, <2>1, ScanFacts, SearchFacts, Values DEF Split, Candidates
  <2>4. \A k \in Candidates : k < l' => stabs[k].value <= eip
    <3>1. \A k \in Candidates : k < m => stabs[k].value <= stabs[m].value
      BY <2>2, Values
    <3> QED BY <2>1, <2>2, <2>3, <3>1, FoundFacts, Values
  <2>5. Target' /\ Beside'
    BY <1>2, <1>3, <2>1, <2>4 DEF Split, Target, Beside
  <2>6. Matches'
    BY <1>3, <2>1, <2>2 DEF Matches
  <2> QED BY <2>1, <2>5, <2>6 DEF Split
<1>9. CASE Above
  <2>1. /\ UNCHANGED <<addr, l>> /\ pc' = "loop" /\ pc = "scan"
        /\ right' = m - 1 /\ any_matches' = TRUE /\ Found
        /\ stabs[m].value > addr
    BY <1>9, FoundFacts DEF Above, Found
  <2>2. m \in Candidates /\ stabs[m].value > eip
    BY <1>2, <2>1, Side DEF Split
  <2>3. \A k \in Candidates : k > right' => stabs[k].value > eip
    <3>1. \A k \in Candidates : m < k => stabs[m].value <= stabs[k].value
      BY <2>2, Values
    <3> QED BY <2>1, <2>2, <3>1, FoundFacts, Values
  <2>4. right' + 1 \in Candidates
    BY <2>1, <2>2, FoundFacts
  <2>5. Target' /\ Beside'
    BY <1>2, <1>3, <2>1, <2>3, <2>4 DEF Split, Target, Beside
  <2>6. Matches'
    BY <1>3, <2>1, <2>2 DEF Matches
  <2> QED BY <2>1, <2>5, <2>6 DEF Split
<1>10. CASE Exact
  <2>1. /\ UNCHANGED right /\ pc' = "loop" /\ pc = "scan"
        /\ l' = m /\ any_matches' = TRUE /\ Found
        /\ stabs[m].value = addr /\ addr' = (addr + 1) % W
    BY <1>10, FoundFacts DEF Exact, Found
  <2>2. m \in Candidates /\ stabs[m].value = eip /\ addr = eip
    BY <1>2, <2>1, Side DEF Split
  <2>3. addr' = eip + 1
    BY <2>1, <2>2, FoundFacts, SearchFacts
  <2>4. \A k \in Candidates : k < l' => stabs[k].value <= eip
    BY <2>1, <2>2, Values
  <2>5. Target'
    BY <1>3, <2>2, <2>3 DEF Target
  <2>6. Beside'
    BY <1>2, <1>3, <2>1, <2>4 DEF Split, Beside
  <2>7. Matches'
    BY <1>3, <2>1, <2>2 DEF Matches
  <2> QED BY <2>1, <2>5, <2>6, <2>7 DEF Split
<1> QED BY <1>5, <1>6, <1>7, <1>8, <1>9, <1>10

\* The end of the loop: the window is empty, so every entry of the type is on
\* one side of the bracket.
LEMMA LoopEndStep ==
  ASSUME IInv, FInv, Spaced, LoopEnd
  PROVE  FInv'
<1>1. /\ Searching /\ pc = "loop" /\ l > r /\ right = r /\ l = right + 1
      /\ UNCHANGED <<input, type, lo, hi, left>>
      /\ pc' \in {"fix", "return"}
  BY SearchFacts DEF LoopEnd, Searching
<1>2. Split /\ Matches
  BY <1>1 DEF FInv
<1>3. Candidates' = Candidates /\ eip' = eip /\ stabs' = stabs /\ type' = type /\ hi' = hi
  BY <1>1, SameRegion
<1>4. CASE any_matches
  <2>1. pc' = "fix" /\ l' = right /\ right' = right
    BY <1>4 DEF LoopEnd
  <2>2. Candidates # {}
    BY <1>2, <1>4 DEF Matches
  <2>3. \A k \in Candidates : k <= right => k < l
    BY <1>1, SearchFacts, Values
  <2>4. l' + 1 .. right' = {}
    BY <2>1, SearchFacts
  <2>5. Fix'
    BY <1>2, <1>3, <2>1, <2>2, <2>3, <2>4 DEF Split, Beside, Fix
  <2> QED BY <2>1, <2>5 DEF FInv, Searching, Bracketed
<1>5. CASE ~any_matches
  <2>1. pc' = "return" /\ right' = left - 1 /\ left = lo
    BY <1>1, <1>5 DEF LoopEnd, IInv, NoneYet
  <2>2. right = hi /\ \A k \in Candidates : k >= l
    BY <1>2, <1>5 DEF Matches
  <2>3. Candidates = {}
    BY <1>1, <2>2, SearchFacts, Values
  <2>4. Bracketed'
    BY <1>1, <1>3, <2>1, <2>3 DEF Bracketed
  <2> QED BY <2>1, <2>4 DEF FInv, Searching
<1> QED BY <1>4, <1>5

\* The walk down to the last entry of the type, and what it leaves behind.
LEMMA FixStep ==
  ASSUME IInv, FInv, Spaced, FixDown
  PROVE  FInv'
<1>1. /\ pc = "fix" /\ UNCHANGED <<input, type, lo, hi, right>> /\ Fix
      /\ l \in Int /\ right \in Int /\ left <= l /\ l <= right /\ right <= hi
  BY SearchFacts DEF FixDown, FInv, IInv, Bracket
<1>2. Candidates' = Candidates /\ eip' = eip /\ stabs' = stabs /\ type' = type /\ hi' = hi
  BY <1>1, SameRegion
<1>3. CASE l > left /\ stabs[l].type # type
  <2>1. l' = l - 1 /\ left' = left /\ pc' = "fix"
    BY <1>3 DEF FixDown
  <2>2. \A k \in l' + 1 .. right : stabs[k].type # type
    BY <1>1, <1>3, <2>1 DEF Fix
  <2>3. Fix'
    BY <1>1, <1>2, <2>2 DEF Fix
  <2> QED BY <2>1, <2>3 DEF FInv, Searching, Bracketed
<1>4. CASE ~(l > left /\ stabs[l].type # type)
  <2> DEFINE under == {k \in Candidates : stabs[k].value <= eip}
             over == Candidates \ under
  <2>1. left' = l /\ l' = l /\ pc' = "return"
    BY <1>4 DEF FixDown
  <2>2. /\ under \subseteq Candidates
        /\ \A k \in Candidates : k \in under <=> k <= right
        /\ \A k \in Candidates : k \in over <=> k > right
    BY <1>1, SearchFacts, Values DEF Fix
  <2>3. IF over = {} THEN right = hi
        ELSE right + 1 \in over /\ \A k \in over : right < k
    <3>1. CASE right = hi
      BY <1>1, <2>2, <3>1, Values
    <3>2. CASE right + 1 \in Candidates
      BY <1>1, <2>2, <3>2
    <3> QED BY <1>1, <3>1, <3>2 DEF Fix
  <2>4. \A k \in under : k <= l
    <3>1. \A k \in under : k \in Int /\ k <= right /\ stabs[k].type = type
      BY <2>2, Values DEF Candidates
    <3> QED BY <1>1, <3>1 DEF Fix
  <2>5. CASE stabs[l].type = type
    <3>1. l \in Candidates
      BY <1>1, <2>5, SearchFacts DEF Candidates
    <3>2. l \in under
      BY <1>1, <2>2, <3>1
    <3>3. Bracketed'
      BY <1>1, <1>2, <2>1, <2>3, <2>4, <3>1, <3>2 DEF Bracketed
    <3> QED BY <2>1, <3>3 DEF FInv, Searching
  <2>6. CASE stabs[l].type # type
    <3>1. l = lo
      BY <1>1, <1>4, <2>6, SearchFacts DEF IInv, Bracket
    <3>2. under = {}
      BY <2>4, <3>1, <2>2, SearchFacts, Values
    <3>3. Candidates # {} /\ lo' = lo
      BY <1>1 DEF Fix
    <3>4. Bracketed'
      BY <1>1, <1>2, <2>1, <2>3, <3>1, <3>2, <3>3 DEF Bracketed
    <3> QED BY <2>1, <3>4 DEF FInv, Searching
  <2> QED BY <2>5, <2>6
<1> QED BY <1>3, <1>4

-----------------------------------------------------------------------------
(* The theorem                                                             *)

\* A call starts with nothing beside its window.
LEMMA CallStep ==
  ASSUME IInv, IInv', FindFile \/ FindFun
  PROVE  FInv'
<1>1. /\ pc' = "loop" /\ addr' = eip /\ eip' = eip
      /\ l' = lo' /\ right' = hi' /\ any_matches' = FALSE
  BY DEF FindFile, FindFun, Call, input
<1>2. /\ \A k \in Candidates' : k \in Nat /\ lo' < k /\ k <= hi'
      /\ lo' \in Nat /\ hi' \in Nat
  BY StabAssumption DEF IInv, Region, Candidates
<1>3. Target' /\ Beside'
  BY <1>1, <1>2 DEF Target, Beside
<1>4. Matches'
  BY <1>1, <1>2 DEF Matches
<1> QED BY <1>1, <1>3, <1>4 DEF FInv, Split, Bracketed

\* Every step keeps the bracket.
LEMMA FindsNext == IInv /\ IInv' /\ FInv /\ [Next]_vars => FInv'
<1> SUFFICES ASSUME IInv, IInv', FInv, [Next]_vars PROVE FInv'
  OBVIOUS
<1>1. CASE Binsearch
  <2>1. UNCHANGED <<input, type, lo, hi>>
    BY <1>1 DEF Binsearch, Halve, ScanDown, NoMatch, Below, Above, Exact, Found,
                LoopEnd, FixDown
  <2>2. CASE Spaced
    BY <1>1, <2>2, LoopStep, LoopEndStep, FixStep DEF Binsearch
  <2>3. CASE ~Spaced
    BY <2>1, <2>3, SameRegion DEF FInv
  <2> QED BY <2>2, <2>3
<1>2. CASE FindFile \/ FindFun
  BY <1>2, CallStep
<1>3. CASE NoFile \/ NameFun \/ FileBack \/ NameFile \/ CountArg
  <2>1. pc' \in {"file", "args", "done"}
    BY <1>3 DEF NoFile, NameFun, FileBack, NameFile, CountArg
  <2> QED BY <2>1 DEF FInv, Searching, Bracketed
<1>4. CASE UNCHANGED vars
  BY <1>4 DEF FInv, Searching, Split, Matches, Target, Beside, Fix, Bracketed,
              Candidates, Spaced, vars, input, search
<1> QED BY <1>1, <1>2, <1>3, <1>4 DEF Next, Done

LEMMA AlwaysBracketed == Spec => []Bracketed
<1>1. Init => FInv
  BY DEF Init, FInv, Searching, Bracketed
<1>2. FInv => (Spaced => Bracketed)
  BY DEF FInv
<1>3. ~Spaced => Bracketed
  BY DEF Bracketed
<1>4. FInv => Bracketed
  BY <1>2, <1>3
<1> QED BY <1>1, <1>4, InvHolds, FindsNext, PTL DEF Spec

\* For every table in which no two entries of one type are a single address
\* apart, both searches of every lookup return the last entry of the type at
\* or below the address and the place before the next one above it, whatever
\* other entries lie between, and an empty bracket if there is no entry of the
\* type (stab_binsearch, kdebug.c:14-48); nothing is said of a region whose
\* entries of the type all lie above the address (AllAbove).
THEOREM Finds == Spec => []SearchFinds
<1>1. IInv /\ Bracketed => SearchFinds
  <2> SUFFICES ASSUME IInv, Bracketed, pc = "return", Spaced, ~AllAbove
               PROVE  SearchFinds
    BY DEF SearchFinds
  <2> DEFINE under == {k \in Candidates : stabs[k].value <= eip}
  <2>1. CASE Candidates = {}
    <3>1. left = lo /\ right = lo - 1 /\ lo \in Int
      BY <2>1 DEF Bracketed, IInv, Region
    <3>2. left > right /\ under = {}
      BY <2>1, <3>1
    <3> QED BY <3>2 DEF SearchFinds
  <2>2. CASE Candidates # {}
    <3>1. under # {}
      BY <2>2, Values DEF AllAbove
    <3> QED BY <2>2, <3>1 DEF Bracketed, SearchFinds
  <2> QED BY <2>1, <2>2
<1> QED BY <1>1, InvHolds, AlwaysBracketed, PTL

-----------------------------------------------------------------------------
(* The function that is named                                              *)

\* No name is set before the second search has ended.
Unnamed == pc \in {"start", "loop", "scan", "fix", "return"} => info.fn = -1

\* What debuginfo_eip says of the function, from the end of the second search
\* to the end of the lookup.
Named ==
  pc \in {"file", "args", "done"} /\ info.ret = 0 /\ Spaced =>
    LET funs == {k \in lfile .. rfile : stabs[k].type = "FUN"}
        under == {k \in funs : stabs[k].value <= eip}
    IN  /\ funs = {} => info.fn = -1
        /\ under # {} => /\ info.fn \in under
                         /\ \A k \in under : k <= info.fn
                         /\ info.fn_addr = stabs[info.fn].value

\* The entries of the file are the region of the second search, so its left
\* end is the function, if the file has one at or below the address.
LEMMA NamedByNameFun ==
  ASSUME IInv, Bracketed, Unnamed, NameFun
  PROVE  Named'
<1> DEFINE funs == {k \in lfile .. rfile : stabs[k].type = "FUN"}
           below == {k \in funs : stabs[k].value <= eip}
           under == {k \in Candidates : stabs[k].value <= eip}
<1>1. /\ pc = "return" /\ type = "FUN" /\ UNCHANGED <<input, lfile, rfile>>
      /\ left <= right => info' = [info EXCEPT !.fn = left, !.fn_addr = stabs[left].value]
      /\ ~(left <= right) => info' = info
  BY DEF NameFun
<1>2. stabs' = stabs /\ eip' = eip /\ lfile' = lfile /\ rfile' = rfile /\ Spaced' = Spaced
  BY <1>1 DEF input, Spaced
<1>3. lo = lfile /\ hi = rfile
  BY <1>1 DEF IInv, Caller
<1>4. funs = Candidates /\ below = under
  BY <1>1, <1>3 DEF Candidates
<1>5. ASSUME Spaced, below # {}
      PROVE  /\ info'.fn \in below
             /\ \A k \in below : k <= info'.fn
             /\ info'.fn_addr = stabs[info'.fn].value
  <2>1. left \in under /\ \A k \in under : k <= left
    BY <1>1, <1>4, <1>5 DEF Bracketed
  <2>2. left <= right
    BY <2>1 DEF IInv, Region, Bracket, Candidates
  <2>3. info'.fn = left /\ info'.fn_addr = stabs[left].value
    BY <1>1, <2>2 DEF IInv, Caller
  <2> HIDE DEF funs, below, under
  <2> QED BY <1>4, <2>1, <2>3
<1>6. ASSUME Spaced, funs = {}
      PROVE  info'.fn = -1
  <2>1. left = lo /\ right = lo - 1 /\ lo \in Int
    BY <1>1, <1>4, <1>6 DEF Bracketed, IInv, Region
  <2>2. ~(left <= right)
    BY <2>1
  <2> QED BY <1>1, <2>2 DEF Unnamed
<1> QED BY <1>2, <1>5, <1>6 DEF Named

\* The searches set no name.
LEMMA UnnamedStep == IInv /\ Unnamed /\ [Next]_vars => Unnamed'
<1> SUFFICES ASSUME IInv, Unnamed, [Next]_vars PROVE Unnamed'
  OBVIOUS
<1>1. CASE Binsearch \/ FindFile \/ FindFun
  <2>1. pc \in {"start", "loop", "scan", "fix", "return"} /\ info' = info
    BY <1>1 DEF Binsearch, Halve, ScanDown, NoMatch, Below, Above, Exact, Found,
                LoopEnd, FixDown, FindFile, FindFun, caller
  <2> QED BY <2>1 DEF Unnamed
<1>2. CASE NoFile \/ NameFun \/ FileBack \/ NameFile \/ CountArg
  <2>1. pc' \in {"file", "args", "done"}
    BY <1>2 DEF NoFile, NameFun, FileBack, NameFile, CountArg
  <2> QED BY <2>1 DEF Unnamed
<1>3. CASE UNCHANGED vars
  BY <1>3 DEF Unnamed, vars, caller
<1> QED BY <1>1, <1>2, <1>3 DEF Next, Done

\* The walks that follow leave the name alone.
LEMMA NamedStep == IInv /\ Bracketed /\ Unnamed /\ Named /\ [Next]_vars => Named'
<1> SUFFICES ASSUME IInv, Bracketed, Unnamed, Named, [Next]_vars PROVE Named'
  OBVIOUS
<1>1. CASE Binsearch \/ FindFile \/ FindFun
  <2>1. pc' \in {"loop", "scan", "fix", "return"}
    BY <1>1 DEF Binsearch, Halve, ScanDown, NoMatch, Below, Above, Exact, Found,
                LoopEnd, FixDown, FindFile, FindFun
  <2> QED BY <2>1 DEF Named
<1>2. CASE NoFile
  <2>1. info'.ret = -1
    BY <1>2 DEF NoFile, IInv, Caller
  <2> QED BY <2>1 DEF Named
<1>3. CASE NameFun
  BY <1>3, NamedByNameFun
<1>4. CASE FileBack \/ NameFile \/ CountArg
  <2>1. pc \in {"file", "args"} /\ UNCHANGED <<input, lfile, rfile>>
    BY <1>4 DEF FileBack, NameFile, CountArg
  <2>2. /\ info'.ret = info.ret /\ info'.fn = info.fn
        /\ info'.fn_addr = info.fn_addr
    BY <1>4 DEF FileBack, NameFile, CountArg, IInv, Caller
  <2>3. Spaced' = Spaced /\ stabs' = stabs /\ eip' = eip
    BY <2>1 DEF input, Spaced
  <2> QED BY <2>1, <2>2, <2>3 DEF Named
<1>5. CASE UNCHANGED vars
  BY <1>5 DEF Named, Spaced, vars, input, caller
<1> QED BY <1>1, <1>2, <1>3, <1>4, <1>5 DEF Next, Done

\* For every such table, the function that debuginfo_eip names is the last one
\* of the file that starts at or before eip, whenever the file has one, and a
\* file without functions gets no name: the
\* region that the first search leaves is the one the second search needs
\* (kdebug.c:142-160).
THEOREM Names == Spec => []NamesNearestFunction
<1>1. Init => Named /\ Unnamed
  BY DEF Init, Named, Unnamed
<1>2. Named => NamesNearestFunction
  BY DEF Named, NamesNearestFunction
<1> QED BY <1>1, <1>2, InvHolds, AlwaysBracketed, UnnamedStep, NamedStep,
          PTL DEF Spec
=============================================================================
