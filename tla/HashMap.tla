------------------------------ MODULE HashMap ------------------------------
(***************************************************************************)
(* The registry of Storage as the code builds it: a table of MAX_ZIPCODE   *)
(* buckets, in each a chain of nodes with one key, in each node a list of  *)
(* users (hashmap.c, bidirectionallist.c), filled line by line from the    *)
(* register file when the server starts (STORAGE_loadDatabase).  The       *)
(* machine may lose power in the middle of writing a line.                 *)
(*                                                                         *)
(* The list of a node is the sequence of its users from the head phantom   *)
(* to the tail phantom.  The cursor of a list in the table stays on the    *)
(* head phantom, where BIDIRECTIONALLIST_create left it, because a lookup  *)
(* returns a copy of the list and moves the cursor of the copy.            *)
(***************************************************************************)
EXTENDS Integers, Sequences, SequencesExt, FiniteSetsExt

CONSTANTS
    Logins,
    Postcodes,          \* the numbers people type, with or without a minus
    MAX_ZIPCODE,        \* the buckets of the table
    MaxUsers,           \* bound: users in memory
    RegisterMayFail     \* TRUE if open() of the register file may fail

ASSUME BucketsAssumption == MAX_ZIPCODE \in Nat \ {0}
ASSUME PostcodesAssumption == Postcodes \subseteq Nat

VARIABLES
    phase,              \* "down", "loading" or "serving"
    table,
    last_id_assigned,
    line,               \* while loading: the next line to read
    pending,            \* the user between STORAGE_addUser and registerUser
    usr_reg,            \* the whole lines of the register file
    torn                \* the file ends in a part of a line

vars == <<phase, table, last_id_assigned, line, pending, usr_reg, torn>>

Zipcodes == Postcodes \cup {-z : z \in Postcodes}
User == [login : Logins, zipcode : Zipcodes, id : Nat]
NoUser == [login |-> "", zipcode |-> 0, id |-> -1]
\* A node is made for its first user.
Node == [key : Zipcodes, val : Seq(User) \ {<<>>}]
Buckets == 0..(MAX_ZIPCODE - 1)

TypeOK ==
    /\ phase \in {"down", "loading", "serving"}
    /\ table \in [Buckets -> Seq(Node)]
    /\ last_id_assigned \in Nat
    /\ line \in Nat
    /\ pending \in User \cup {NoUser}
    /\ usr_reg \in Seq(User)
    /\ torn \in BOOLEAN

----------------------------------------------------------------------------
(* hashmap.c                                                               *)

HASMAP_createTable == [b \in Buckets |-> <<>>]

\* The remainder of C takes the sign of the key.
HASMAP_hashCode(key) ==
    IF key < 0 THEN (-key) % MAX_ZIPCODE ELSE key % MAX_ZIPCODE

\* The cursor is on the head phantom: the newest user comes first.
BIDIRECTIONALLIST_addAfter(list, usr) == <<usr>> \o list

HasKey(chain, key) == \E i \in DOMAIN chain : chain[i].key = key
\* The first node of the chain with the key, where the walk along it stops.
NodeOf(chain, key) == SelectInSeq(chain, LAMBDA n : n.key = key)

MutInsert(t, key, usr) ==
    LET pos == HASMAP_hashCode(key)
    IN  [t EXCEPT ![pos] =
            IF @ # <<>>
            THEN [@ EXCEPT ![1].val = BIDIRECTIONALLIST_addAfter(@, usr)]
            ELSE <<[key |-> key,
                    val |-> BIDIRECTIONALLIST_addAfter(<<>>, usr)]>>]

MutInsertNode(t, key, usr) ==
    LET pos == HASMAP_hashCode(key)
    IN  [t EXCEPT ![pos] =
            IF HasKey(@, key)
            THEN [@ EXCEPT ![NodeOf(@, key)].val =
                                BIDIRECTIONALLIST_addAfter(@, usr)]
            ELSE <<[key |-> key, val |-> <<>>]>> \o @]

\* The chain of a bucket with a user added: to the node with the key, or in a
\* new node before the others.
Added(chain, key, usr) ==
    IF HasKey(chain, key)
    THEN [chain EXCEPT ![NodeOf(chain, key)].val =
                            BIDIRECTIONALLIST_addAfter(@, usr)]
    ELSE <<[key |-> key,
            val |-> BIDIRECTIONALLIST_addAfter(<<>>, usr)]>> \o chain

HASMAP_insert(t, key, usr) ==
    [t EXCEPT ![HASMAP_hashCode(key)] = Added(@, key, usr)]

HASMAP_lookup(t, key) ==
    LET chain == t[HASMAP_hashCode(key)]
    IN  IF HasKey(chain, key) THEN chain[NodeOf(chain, key)].val ELSE <<>>

MutGetID(login, zipcode) ==
    LET list == HASMAP_lookup(table, zipcode)
        i == SelectInSeq(list, LAMBDA usr : usr.login = login)
    IN  IF i = 0 \/ (i > 1 /\ i = Len(list)) THEN -1 ELSE list[i].id

\* The first user of the list with the login.  The walk compares the login once
\* more on the tail phantom, where BIDIRECTIONALLIST_get returns what its
\* uninitialised element held, the user compared before: no new match.
STORAGE_getID(login, zipcode) ==
    LET list == HASMAP_lookup(table, zipcode)
        i == SelectInSeq(list, LAMBDA usr : usr.login = login)
    IN  IF i = 0 THEN -1 ELSE list[i].id

----------------------------------------------------------------------------
Init ==
    /\ phase = "down"
    /\ table = HASMAP_createTable
    /\ last_id_assigned = 0
    /\ line = 1
    /\ pending = NoUser
    /\ usr_reg = <<>>
    /\ torn = FALSE

\* main() up to STORAGE_loadDatabase.
Start ==
    /\ phase = "down"
    /\ phase' = "loading"
    /\ UNCHANGED <<table, last_id_assigned, line, pending, usr_reg, torn>>

LoadLine ==
    /\ phase = "loading" /\ line <= Len(usr_reg)
    /\ table' = HASMAP_insert(table, usr_reg[line].zipcode, usr_reg[line])
    /\ last_id_assigned' = last_id_assigned + 1
    /\ line' = line + 1
    /\ UNCHANGED <<phase, pending, usr_reg, torn>>

MutLoadEnd ==
    /\ phase = "loading" /\ line > Len(usr_reg)
    /\ phase' = "serving"
    /\ UNCHANGED <<table, last_id_assigned, line, pending, usr_reg, torn>>

\* read() returns 0 where a line would begin.
LoadEnd ==
    /\ phase = "loading" /\ line > Len(usr_reg) /\ ~torn
    /\ phase' = "serving"
    /\ UNCHANGED <<table, last_id_assigned, line, pending, usr_reg, torn>>

\* The process ends, by whatever cause, and its memory with it.
Die ==
    /\ phase' = "down"
    /\ table' = HASMAP_createTable
    /\ last_id_assigned' = 0
    /\ line' = 1
    /\ pending' = NoUser
    /\ UNCHANGED usr_reg

\* Inside a line read() at the end of the file leaves c as it was: the loop on
\* c stores it over and over, beyond its buffer, until the process dies of it.
LoadTorn ==
    /\ phase = "loading" /\ line > Len(usr_reg) /\ torn
    /\ Die
    /\ UNCHANGED torn

\* LOGIN_loginOK for a user that is not registered yet; the semaphore keeps
\* every other login away until it is.
STORAGE_addUser(login, zipcode) ==
    /\ phase = "serving" /\ pending = NoUser
    /\ STORAGE_getID(login, zipcode) < 0
    /\ LET usr == [login |-> login, zipcode |-> zipcode,
                   id |-> last_id_assigned + 1]
       IN  /\ table' = HASMAP_insert(table, zipcode, usr)
           /\ pending' = usr
    /\ last_id_assigned' = last_id_assigned + 1
    /\ UNCHANGED <<phase, line, usr_reg, torn>>

STORAGE_registerUser ==
    /\ phase = "serving" /\ pending # NoUser
    /\ \/ usr_reg' = Append(usr_reg, pending)
       \/ RegisterMayFail /\ UNCHANGED usr_reg
    /\ pending' = NoUser
    /\ UNCHANGED <<phase, table, last_id_assigned, line, torn>>

\* SIGINT, or a crash.
Crash ==
    /\ phase # "down"
    /\ Die
    /\ UNCHANGED torn

\* The machine stops while the line is written, and part of it is on disk.
PowerFailure ==
    /\ phase = "serving" /\ pending # NoUser
    /\ Die
    /\ torn' = TRUE

Loading == LoadLine \/ LoadEnd \/ LoadTorn

Next ==
    \/ Start \/ Loading \/ STORAGE_registerUser \/ Crash \/ PowerFailure
    \/ \E login \in Logins, zipcode \in Zipcodes :
          /\ last_id_assigned < MaxUsers
          /\ STORAGE_addUser(login, zipcode)

Spec == Init /\ [][Next]_vars

----------------------------------------------------------------------------
(* Properties.                                                             *)

\* The list that a search or a login gets for a zipcode holds users of that
\* zipcode only, each of them once, and every one of the register file, however
\* the keys collide in a bucket (storage.c:102, network.c:128).
LookupExact ==
    phase = "serving" =>
        \A z \in Zipcodes :
            LET list == HASMAP_lookup(table, z)
            IN  /\ \A i \in DOMAIN list : list[i].zipcode = z
                /\ \A i, j \in DOMAIN list :
                      list[i].login = list[j].login => i = j
                /\ {r \in ToSet(usr_reg) : r.zipcode = z} \subseteq ToSet(list)

\* A server that answers has a whole file: after a line was cut short no server
\* comes up, so nothing is ever appended to the part of a line, where it would
\* be read as one user with the part (storage.c:43, storage.c:88).
NeverServesTorn == torn => phase # "serving" /\ pending = NoUser

\* The registry of Storage: its map is what the loaded table answers.
Stored == {usr \in Logins \X Zipcodes : STORAGE_getID(usr[1], usr[2]) >= 0}
Registry == INSTANCE Storage WITH
    Users <- Logins \X Zipcodes,
    map <- IF phase = "serving"
           THEN [usr \in Stored |-> STORAGE_getID(usr[1], usr[2])]
           ELSE [usr \in {} |-> 0],
    last_id_assigned <- IF phase = "serving" THEN last_id_assigned ELSE 0,
    usr_reg <- [i \in DOMAIN usr_reg |->
                    [user |-> <<usr_reg[i].login, usr_reg[i].zipcode>>,
                     id |-> usr_reg[i].id]]

\* The table, the chains and the lists implement the function from users to
\* identifiers, and loading line by line the one step of Storage; a user is
\* only added when the walk of STORAGE_getID did not find it.
ImplementsStorage == Registry!StorageSpec
=============================================================================
