--------------------------- MODULE MCConsoleInput ---------------------------
(***************************************************************************)
(* A small instance of ConsoleInput: a ring of three slots and a keyboard  *)
(* with one key of every kind the translation tells apart.  The entries of *)
(* the tables are those of console.c:226-302 for these keys; the entries   *)
(* of keys that are not on this keyboard are left 0.                       *)
(***************************************************************************)
EXTENDS ConsoleInput

Table(entries) ==
  [b \in Byte |-> IF \E e \in entries : e[1] = b
                  THEN (CHOOSE e \in entries : e[1] = b)[2] ELSE 0]

FlagTable(entries) ==
  [b \in Byte |-> {e[2] : e \in {f \in entries : f[1] = b}}]

ShiftCode == FlagTable({<<29, "CTL">>, <<42, "SHIFT">>, <<54, "SHIFT">>,
                        <<56, "ALT">>, <<157, "CTL">>, <<184, "ALT">>})
ToggleCode == FlagTable({<<58, "CAPSLOCK">>, <<69, "NUMLOCK">>,
                         <<70, "SCROLLLOCK">>})

\* 'a', keypad '.', and the Delete key of the extended block (0xD3)
NormalMap == Table({<<30, 97>>, <<83, 46>>, <<211, 233>>})
ShiftMap == Table({<<30, 65>>, <<83, 46>>, <<211, 233>>})
CtlMap == Table({<<30, 1>>, <<211, 233>>})

KeyA == [make |-> 30, ext |-> FALSE]
LeftShift == [make |-> 42, ext |-> FALSE]
RightShift == [make |-> 54, ext |-> FALSE]
LeftAlt == [make |-> 56, ext |-> FALSE]
RightCtl == [make |-> 29, ext |-> TRUE]
CapsLock == [make |-> 58, ext |-> FALSE]
Delete == [make |-> 83, ext |-> TRUE]

AllKeys == {KeyA, LeftShift, RightShift, LeftAlt, RightCtl, CapsLock, Delete}
FewKeys == {KeyA, LeftShift, RightCtl}
Serial == {0, 104}
=============================================================================
