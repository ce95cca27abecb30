------------------------------- MODULE MCBoot -------------------------------
(***************************************************************************)
(* Memory of 32 bytes with A20 in the middle and sectors of two bytes.     *)
(* Without A20 a kernel at 16 lands on the loader (4, 5) or the headers    *)
(* (8 .. 11).  Segments start and end inside a sector, share one, overlap, *)
(* are empty, or come in decreasing order.                                 *)
(***************************************************************************)
EXTENDS Boot

Seg(p, n, o) == [pa |-> p, memsz |-> n, offset |-> o]
NoSeg == Seg(0, 0, 0)

\* The entry point is where the segment `text` starts.  The segment `data` ends
\* with a stack of one byte, a byte of data and n variables, of which the last c
\* are common symbols; panicstr is the last one, as in obj/kern/kernel.sym:101.
Kernel(ok, ss, text, data, n, c) ==
  LET top == data.pa + data.memsz IN
  [magic |-> ok, entry |-> text.pa, segs |-> ss,
   bootstack |-> top - n - 2, bootstacktop |-> top - n - 1,
   edata |-> top - n, end |-> top - c, globals |-> top, panicstr |-> top - 1]

Special ==
  LET text == Seg(17, 3, 5)
      low == Seg(16, 5, 4)
      data == Seg(22, 6, 12)
      high == Seg(23, 5, 7)
  IN {Kernel(TRUE, <<low, data, NoSeg>>, low, data, 3, 1),
      Kernel(TRUE, <<text, Seg(20, 7, 8)>>, text, Seg(20, 7, 8), 3, 0),
      Kernel(TRUE, <<high, Seg(17, 6, 1), Seg(30, 0, 2)>>, Seg(17, 6, 1), high, 2, 2),
      Kernel(FALSE, <<low, data>>, low, data, 3, 1)}

\* Every kernel of two small segments close to each other, of which one holds
\* the code and one the variables.
Small == {Seg(p, k, o) : p \in 16 .. 21, k \in {0, 3, 4, 7}, o \in 0 .. 4}
Close ==
  {img \in {Kernel(TRUE, <<a, b>>, IF one THEN a ELSE b, IF other THEN a ELSE b, 2, 1) :
              a, b \in Small, one, other \in BOOLEAN} : Image(img)}
Kernels == Special \cup Close
=============================================================================
