-------------------------- MODULE MCConsoleOverrun --------------------------
(***************************************************************************)
(* The instance of ConsoleInput with a history variable: how many of the   *)
(* characters that were stored in the ring no cons_getc has returned yet.  *)
(***************************************************************************)
EXTENDS MCConsoleInput

VARIABLE unread

hvars == <<vars, unread>>

\* A store moves wpos, a take moves rpos, a reboot forgets everything.
CountUnread ==
  unread' = CASE Reset -> 0
              [] TakeChar -> unread - 1
              [] OTHER -> IF wpos' # wpos THEN unread + 1 ELSE unread

HSpec ==
  /\ Init /\ unread = 0
  /\ [][Next /\ CountUnread]_hvars
  /\ WF_vars(Kernel)

\* "return the next input character from the console, or 0 if none waiting"
\* (console.c:409): cons_getc returns 0 only if every character that was
\* stored has been returned.
ZeroIfNoneWaiting == [][TakeNone => unread = 0]_hvars
=============================================================================
