------------------------------ MODULE Harkonen ------------------------------
(***************************************************************************)
(* Harkonen on the host of some Fremens: it lists them with ps and grep,   *)
(* picks one and kills it, every so often.                                 *)
(***************************************************************************)
EXTENDS Fremen

VARIABLES
    pidToAtack,         \* what getPidToAtack returned, NoPid before
    listed              \* the Fremens that ps found

hvars == <<pidToAtack, listed>>
allVars == <<vars, hvars>>

\* The process of grep; the numbers grow, so that its line is the last.
GrepPid == Processes + 1
None == -1

HarkonenTypeOK ==
    /\ TypeOK
    /\ pidToAtack \in Pids \cup {GrepPid, None, NoPid}
    /\ listed \subseteq Pids

HarkonenInit == Init /\ pidToAtack = NoPid /\ listed = {}

\* ps lists the processes by their numbers.
ByNumber(S) ==
    CHOOSE pids \in [1..Cardinality(S) -> S] :
        \A i, j \in 1..Cardinality(S) : i < j => pids[i] < pids[j]

\* The lines of ps that grep passes; grep finds its own, unless ps ran first.
Lines(found, grep) == ByNumber(found \cup (IF grep THEN {GrepPid} ELSE {}))

MutCandidates(pids) == {pids[i] : i \in DOMAIN pids}

\* The last line counts as the one of grep, whatever it is; pids[0] is -1 when
\* there is no line.
Candidates(pids) ==
    IF Len(pids) < 2 THEN {None} ELSE {pids[i] : i \in 1..(Len(pids) - 1)}

getPidToAtack ==
    /\ pidToAtack = NoPid
    /\ LET found == {p \in Pids : Alive(p)}
       IN  /\ \E grep \in BOOLEAN :
                  pidToAtack' \in Candidates(Lines(found, grep))
           /\ listed' = found
    /\ UNCHANGED vars

\* The process may have ended since.
killPID ==
    /\ pidToAtack \in Pids
    /\ \/ Dies(pidToAtack)
       \/ ~Alive(pidToAtack) /\ UNCHANGED vars
    /\ pidToAtack' = NoPid
    /\ listed' = {}

\* Nothing found: sleep, and scan again.
Sleeps ==
    /\ pidToAtack = None
    /\ pidToAtack' = NoPid
    /\ listed' = {}
    /\ UNCHANGED vars

Next ==
    \/ FremenNext /\ UNCHANGED hvars
    \/ getPidToAtack \/ killPID \/ Sleeps

Spec == HarkonenInit /\ [][Next]_allVars /\ FremenFairness

----------------------------------------------------------------------------
(* Properties.                                                             *)

\* Harkonen aims at a Fremen that it has seen and never at the grep that it
\* started to see it, with or without the line of grep in the list
\* (harkonen.c:117, :123, :130).
AimsAtFremen == pidToAtack \in Pids \cup {GrepPid} => pidToAtack \in listed
=============================================================================
