------------------------------ MODULE MCSearch ------------------------------
(***************************************************************************)
(* Search for TLC.                                                         *)
(***************************************************************************)
EXTENDS Search

\* Nothing behind the digits of a number, or a digit that is a 4.
TailsOfADigit == {[scale |-> 1, rest |-> 0], [scale |-> 10, rest |-> 4]}
=============================================================================
