----------------------------- MODULE InputQueue -----------------------------
(***************************************************************************)
(* What the console's input buffer promises its reader (kern/console.c,    *)
(* "General device-independent console code"), with the ring abstracted    *)
(* away: a bounded first-in first-out queue.  Characters come out in the   *)
(* order they went in, each once, none invented, and cons_getc returns 0   *)
(* only if none is waiting.  A ring of Capacity slots holds at most        *)
(* Capacity - 1 characters, because equal indices mean an empty one.       *)
(***************************************************************************)
EXTENDS Naturals, Sequences

CONSTANTS
  Capacity,   \* CONSBUFSIZE
  Chars       \* the non-zero characters a device can deliver

VARIABLES
  q,          \* the characters that are waiting, oldest first
  ret         \* what the last cons_getc returned, 0 when it found none

qvars == <<q, ret>>

Init ==
  /\ q = <<>>
  /\ ret = 0

Put(c) ==
  /\ Len(q) < Capacity - 1
  /\ q' = Append(q, c)
  /\ UNCHANGED ret

Get ==
  /\ q # <<>>
  /\ ret' = Head(q)
  /\ q' = Tail(q)

GetNone ==
  /\ q = <<>>
  /\ ret' = 0
  /\ UNCHANGED q

\* The machine restarts: what was waiting is gone.
Reset ==
  /\ q' = <<>>
  /\ ret' = 0

Next ==
  \/ \E c \in Chars : Put(c)
  \/ Get
  \/ GetNone
  \/ Reset

Spec == Init /\ [][Next]_qvars
=============================================================================
