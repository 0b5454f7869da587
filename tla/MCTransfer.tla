----------------------------- MODULE MCTransfer -----------------------------
(* The instance of Transfer that is checked.                               *)
EXTENDS Transfer

\* Nothing behind the digits, or one digit: 24 is read as 240, which is as many
\* packets, and 241 as 2410, which is more.
TailsOfADigit == {[scale |-> 1, rest |-> 0], [scale |-> 10, rest |-> 0]}
=============================================================================
