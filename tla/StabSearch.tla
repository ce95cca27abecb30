----------------------------- MODULE StabSearch -----------------------------
(***************************************************************************)
(* Debugging information for an instruction address (kern/kdebug.c):       *)
(* debuginfo_eip looks the address up in the table of stabs with two calls *)
(* of stab_binsearch, first for the source file (N_SO), then for the       *)
(* function (N_FUN) within that file's entries.                            *)
(***************************************************************************)
EXTENDS Integers

CONSTANTS
  N,            \* entries of the table, __STAB_BEGIN__ to __STAB_END__
  Tables,       \* the tables to search
  Addresses,    \* the values of an address
  W             \* addresses are computed modulo W (2^32)

Types == {"UNDF", "SO", "SOL", "FUN", "PSYM", "SLINE"}
Stab == [type : Types, value : Addresses]

\* Entries of one type are arranged in increasing order by address, with
\* repetitions (an end-of-file N_SO has the address of the next file's N_SO).
Ordered(t) ==
  \A j, k \in 0 .. N - 1 :
    j < k /\ t[j].type = t[k].type /\ t[j].type \in {"SO", "FUN"}
      => t[j].value <= t[k].value

\* A table starts with the header entry that the assembler puts first, and no
\* code lies at the last address of the machine, where addr++ would wrap.
ASSUME StabAssumption ==
  /\ W \in Nat
  /\ Addresses \subseteq 0 .. W - 2
  /\ N \in Nat \ {0}
  /\ \A t \in Tables :
       t \in [0 .. N - 1 -> Stab] /\ Ordered(t) /\ t[0].type = "UNDF"

VARIABLES
  stabs,        \* the table
  eip,          \* debuginfo_eip's argument
  pc,           \* step of stab_binsearch, or of debuginfo_eip between calls
  type, addr,   \* stab_binsearch's last two parameters; addr is modified
  left, right,  \* *region_left, *region_right
  l, r, m, true_m, any_matches,     \* its locals
  lo, hi,       \* history: the region the call started with
  lfile, rfile, lfun, rfun, lline,  \* debuginfo_eip's locals
  info          \* what debuginfo_eip reports: stabs by index, -1 "<unknown>"

search == <<type, addr, left, right, l, r, m, true_m, any_matches, lo, hi>>
caller == <<lfile, rfile, lfun, rfun, lline, info>>
input == <<stabs, eip>>
vars == <<input, pc, search, caller>>

-----------------------------------------------------------------------------
(* stab_binsearch                                                          *)

Call(ty, a, b) ==
  /\ type' = ty
  /\ addr' = eip
  /\ left' = a /\ right' = b
  /\ lo' = a /\ hi' = b
  /\ l' = a /\ r' = b
  /\ any_matches' = FALSE
  /\ UNCHANGED <<m, true_m>>

Halve_Up ==
  /\ pc = "loop" /\ l <= r
  /\ true_m' = (l + r) \div 2 + 1
  /\ m' = true_m'
  /\ pc' = "scan"
  /\ UNCHANGED <<input, type, addr, left, right, l, r, any_matches, lo, hi, caller>>

Halve ==
  /\ pc = "loop" /\ l <= r
  /\ true_m' = (l + r) \div 2
  /\ m' = true_m'
  /\ pc' = "scan"
  /\ UNCHANGED <<input, type, addr, left, right, l, r, any_matches, lo, hi, caller>>

\* search for earliest stab with right type
ScanDown ==
  /\ pc = "scan"
  /\ m >= l
  /\ stabs[m].type # type
  /\ m' = m - 1
  /\ UNCHANGED <<input, pc, type, addr, left, right, l, r, true_m, any_matches,
                 lo, hi, caller>>

\* no match in [l, m]
NoMatch ==
  /\ pc = "scan"
  /\ m < l
  /\ l' = true_m + 1
  /\ pc' = "loop"
  /\ UNCHANGED <<input, type, addr, left, right, r, m, true_m, any_matches,
                 lo, hi, caller>>

Found ==
  /\ pc = "scan"
  /\ m >= l
  /\ stabs[m].type = type
  /\ any_matches' = TRUE
  /\ pc' = "loop"
  /\ UNCHANGED <<input, type, m, true_m, lo, hi, caller>>

Below ==
  /\ Found
  /\ stabs[m].value < addr
  /\ left' = m
  /\ l' = true_m + 1
  /\ UNCHANGED <<addr, right, r>>

Above_KeepsRight ==
  /\ Found
  /\ stabs[m].value > addr
  /\ r' = m - 1
  /\ UNCHANGED <<addr, left, right, l>>

Above ==
  /\ Found
  /\ stabs[m].value > addr
  /\ right' = m - 1
  /\ r' = m - 1
  /\ UNCHANGED <<addr, left, l>>

Exact_SameAddr ==
  /\ Found
  /\ stabs[m].value = addr
  /\ left' = m
  /\ l' = m
  /\ UNCHANGED <<addr, right, r>>

\* exact match for 'addr', but continue loop to find *region_right
Exact ==
  /\ Found
  /\ stabs[m].value = addr
  /\ left' = m
  /\ l' = m
  /\ addr' = (addr + 1) % W
  /\ UNCHANGED <<right, r>>

LoopEnd ==
  /\ pc = "loop" /\ l > r
  /\ IF any_matches
     THEN l' = right /\ pc' = "fix" /\ UNCHANGED right
     ELSE right' = left - 1 /\ pc' = "return" /\ UNCHANGED l
  /\ UNCHANGED <<input, type, addr, left, r, m, true_m, any_matches, lo, hi, caller>>

\* find rightmost region containing 'addr'
FixDown ==
  /\ pc = "fix"
  /\ IF l > left /\ stabs[l].type # type
     THEN l' = l - 1 /\ UNCHANGED <<left, pc>>
     ELSE left' = l /\ pc' = "return" /\ UNCHANGED l
  /\ UNCHANGED <<input, type, addr, right, r, m, true_m, any_matches, lo, hi, caller>>

Binsearch ==
  Halve \/ ScanDown \/ NoMatch \/ Below \/ Above \/ Exact \/ LoopEnd \/ FixDown

-----------------------------------------------------------------------------
(* debuginfo_eip                                                           *)

FindFile ==
  /\ pc = "start"
  /\ Call("SO", 0, N - 1)
  /\ pc' = "loop"
  /\ UNCHANGED <<input, caller>>

\* `if (lfile == 0) return -1;`
NoFile ==
  /\ pc = "return" /\ type = "SO"
  /\ left = 0
  /\ lfile' = left /\ rfile' = right
  /\ info' = [info EXCEPT !.ret = -1]
  /\ pc' = "done"
  /\ UNCHANGED <<input, search, lfun, rfun, lline>>

FindFun_WholeTable ==
  /\ pc = "return" /\ type = "SO"
  /\ left # 0
  /\ lfile' = left /\ rfile' = right
  /\ Call("FUN", 0, N - 1)
  /\ pc' = "loop"
  /\ UNCHANGED <<input, lfun, rfun, lline, info>>

FindFun ==
  /\ pc = "return" /\ type = "SO"
  /\ left # 0
  /\ lfile' = left /\ rfile' = right
  /\ Call("FUN", left, right)
  /\ pc' = "loop"
  /\ UNCHANGED <<input, lfun, rfun, lline, info>>

\* stabs[lfun] points to the function name, or we are in an assembly file.
\* The search for the line number that should follow is not written yet.
NameFun ==
  /\ pc = "return" /\ type = "FUN"
  /\ lfun' = left /\ rfun' = right
  /\ IF left <= right
     THEN /\ info' = [info EXCEPT !.fn = left, !.fn_addr = stabs[left].value]
          /\ lline' = left
     ELSE lline' = lfile /\ UNCHANGED info
  /\ pc' = "file"
  /\ UNCHANGED <<input, search, lfile, rfile>>

\* Search backwards from the line number for the relevant filename stab.
NamesFile(k) == \/ stabs[k].type = "SOL"
                \/ stabs[k].type = "SO" /\ stabs[k].value # 0

FileBack ==
  /\ pc = "file"
  /\ lline >= lfile /\ ~NamesFile(lline)
  /\ lline' = lline - 1
  /\ UNCHANGED <<input, pc, search, lfile, rfile, lfun, rfun, info>>

NameFile ==
  /\ pc = "file"
  /\ lline < lfile \/ NamesFile(lline)
  /\ info' = [info EXCEPT !.file = IF lline >= lfile THEN lline ELSE -1]
  /\ lline' = IF lfun < rfun THEN lfun + 1 ELSE lline
  /\ pc' = IF lfun < rfun THEN "args" ELSE "done"
  /\ UNCHANGED <<input, search, lfile, rfile, lfun, rfun>>

\* The parameters of a function directly follow its N_FUN.
CountArg ==
  /\ pc = "args"
  /\ IF lline < rfun /\ stabs[lline].type = "PSYM"
     THEN /\ info' = [info EXCEPT !.narg = info.narg + 1]
          /\ lline' = lline + 1
          /\ UNCHANGED pc
     ELSE pc' = "done" /\ UNCHANGED <<info, lline>>
  /\ UNCHANGED <<input, search, lfile, rfile, lfun, rfun>>

Done == pc = "done" /\ UNCHANGED vars

Init ==
  /\ stabs \in Tables
  /\ eip \in Addresses
  /\ pc = "start"
  /\ type = "SO" /\ addr = 0
  /\ left = 0 /\ right = 0
  /\ lo = 0 /\ hi = 0
  /\ l = 0 /\ r = 0 /\ m = 0 /\ true_m = 0
  /\ any_matches = FALSE
  /\ lfile = 0 /\ rfile = 0 /\ lfun = 0 /\ rfun = 0 /\ lline = 0
  /\ info = [ret |-> 0, fn |-> -1, fn_addr |-> eip, file |-> -1, narg |-> 0]

Next ==
  \/ Binsearch
  \/ FindFile \/ NoFile \/ FindFun \/ NameFun
  \/ FileBack \/ NameFile \/ CountArg
  \/ Done

Spec == Init /\ [][Next]_vars /\ WF_vars(Next)

-----------------------------------------------------------------------------
(* Properties                                                              *)

\* The entries a search may return.
Candidates == {k \in lo .. hi : stabs[k].type = type}

\* Types; in particular the code only reads entries of the table.
TypeOK ==
  /\ pc \in {"start", "loop", "scan", "fix", "return", "file", "args", "done"}
  /\ addr \in 0 .. W - 1
  /\ l \in 0 .. N /\ r \in -1 .. N - 1
  /\ left \in 0 .. N - 1 /\ right \in -1 .. N - 1
  /\ any_matches \in BOOLEAN
  /\ true_m \in 0 .. N - 1
  /\ pc = "scan" => m \in l - 1 .. r
  /\ pc = "fix" => l <= right
  /\ pc = "file" => lline \in lfile - 1 .. rfile
  /\ pc = "args" => lline \in lfile .. rfile
  /\ info.narg \in 0 .. N

\* No two entries of one type are a single address apart.  The search looks for
\* eip + 1 after an exact match, so it needs this.
Spaced == \A j, k \in 0 .. N - 1 :
            stabs[j].type = stabs[k].type /\ stabs[j].type \in {"SO", "FUN"}
              => stabs[k].value # stabs[j].value + 1

\* Every entry of the type lies above the address.  kdebug.c:32 promises an
\* empty bracket for this case, but *region_left is left untouched and
\* *region_right put in front of the first entry, so the bracket is empty only
\* if that entry is the first of the region.
AllAbove == /\ Candidates # {}
            /\ \A k \in Candidates : stabs[k].value > eip

\* What kdebug.c:29-34 promises of *region_left and *region_right: "the
\* matching stab that contains 'addr'", the last of the type at or below the
\* address, and the place "just before the next stab"; left > right if no stab
\* contains it.  This holds whatever lies between and however often a value
\* repeats, but for AllAbove.
SearchFinds ==
  pc = "return" /\ Spaced /\ ~AllAbove =>
    LET under == {k \in Candidates : stabs[k].value <= eip}
        over == Candidates \ under
    IN  IF under = {} THEN left > right
        ELSE /\ left \in under /\ \A k \in under : k <= left
             /\ IF over = {} THEN right = hi
                ELSE right + 1 \in over /\ \A k \in over : right < k

\* The function that debuginfo_eip names is the last one of the file that
\* starts at or before eip, whenever the file has one; it names none for a
\* file without functions ("Maybe we're in an assembly file").
NamesNearestFunction ==
  pc = "done" /\ info.ret = 0 /\ Spaced =>
    LET funs == {k \in lfile .. rfile : stabs[k].type = "FUN"}
        under == {k \in funs : stabs[k].value <= eip}
    IN  /\ funs = {} => info.fn = -1
        /\ under # {} => /\ info.fn \in under
                         /\ \A k \in under : k <= info.fn
                         /\ info.fn_addr = stabs[info.fn].value

\* Every lookup ends, repeated addresses and missing types included.
Terminates == <>(pc = "done")
=============================================================================
