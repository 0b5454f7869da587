----------------------------- MODULE MCAtreides -----------------------------
(* Small instances of Atreides for TLC.                                    *)
EXTENDS Atreides, TLC

CONSTANTS s1, s2, s3, alice, bob, blur

\* Sessions and the users people type are interchangeable; the user that a
\* replayed login is parsed into is not one of them.
Symmetry == Permutations(Sessions) \cup Permutations(Typed)

\* All logins that are typed begin with the same digit.
LeadingOne == [usr \in Users |-> IF usr \in Typed THEN 1 ELSE 0]

Answer(pages, reads) == [pages |-> pages, reads |-> reads]
\* One page or two; and as many where the client waits for one more.
AnswersReadUp == {Answer(1, 1), Answer(1, 2), Answer(2, 2), Answer(2, 3)}
\* One page; and two, of which the client leaves one or waits for a third.
AnswersOfAnyKind == {Answer(1, 1), Answer(2, 1), Answer(2, 3)}
=============================================================================
