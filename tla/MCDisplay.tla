----------------------------- MODULE MCDisplay -----------------------------
(* A small screen and one character of every kind cga_putc tells apart.    *)
EXTENDS Display

Letter == Plain(97)
Green == [attr |-> 2, ch |-> 98]

Text == {Letter, Green, Plain(BS), Plain(TAB), Plain(LF), Plain(CR)}

\* The BIOS leaves text and the cursor anywhere.
Bios == {[buf |-> [k \in 0 .. CRT_SIZE - 1 |-> [attr |-> 7, ch |-> 97]], pos |-> p] :
           p \in 0 .. CRT_SIZE - 1}
=============================================================================
