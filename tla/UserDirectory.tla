--------------------------- MODULE UserDirectory ---------------------------
(***************************************************************************)
(* What the server promises about identifiers, whatever the threads, the   *)
(* lock, the file and the restarts do: a user gets one identifier, for     *)
(* ever, that no other user has, and a session is told the identifier of   *)
(* its own user only once it has been assigned.                            *)
(***************************************************************************)
EXTENDS Integers

CONSTANTS Users, Sessions, NoUser

VARIABLES
    ids,    \* the identifier of every user that has one
    who,    \* the user each session logs in as
    told    \* the identifier each session was told, -1 for none

dirVars == <<ids, who, told>>

Init ==
    /\ ids = [x \in {} |-> 0]
    /\ who = [s \in Sessions |-> NoUser]
    /\ told = [s \in Sessions |-> -1]

Begin(s, usr) ==
    /\ who[s] = NoUser
    /\ who' = [who EXCEPT ![s] = usr]
    /\ UNCHANGED <<ids, told>>

\* The new identifier is any that nobody has.
Assign(usr) ==
    /\ usr \notin DOMAIN ids
    /\ DOMAIN ids' = DOMAIN ids \cup {usr}
    /\ ids'[usr] \in Nat \ {0}
    /\ \A x \in DOMAIN ids : ids'[x] = ids[x] /\ ids'[x] # ids'[usr]
    /\ UNCHANGED <<who, told>>

Tell(s) ==
    /\ told[s] = -1
    /\ who[s] \in DOMAIN ids
    /\ told' = [told EXCEPT ![s] = ids[who[s]]]
    /\ UNCHANGED <<ids, who>>

Next ==
    \/ \E s \in Sessions : Tell(s) \/ \E usr \in Users : Begin(s, usr)
    \/ \E usr \in Users : Assign(usr)

Spec == Init /\ [][Next]_dirVars
=============================================================================
