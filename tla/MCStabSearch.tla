---------------------------- MODULE MCStabSearch ----------------------------
(***************************************************************************)
(* Every ordered table of five entries that starts with the header entry   *)
(* the linker puts first, with four addresses, and every address.         *)
(***************************************************************************)
EXTENDS StabSearch

Entries == {[type |-> t, value |-> a] : t \in {"SO", "FUN"}, a \in Addresses}
             \union {[type |-> t, value |-> 0] : t \in {"PSYM", "SOL"}}
Header == [type |-> "UNDF", value |-> 0]

AllTables ==
  {t \in [0 .. N - 1 -> Entries \union {Header}] :
     /\ \A k \in 0 .. N - 1 : k = 0 <=> t[k] = Header
     /\ Ordered(t)}
=============================================================================
