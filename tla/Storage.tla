------------------------------ MODULE Storage ------------------------------
(***************************************************************************)
(* The registry of users of the Atreides server: the hash map in memory,   *)
(* the counter of identifiers and the register file on disk                *)
(* (Atreides/src/storage.c).  A user is the pair of a login and a zipcode, *)
(* which is what STORAGE_getID compares: the zipcode selects the list, the *)
(* login the node.  The chained lists of hashmap.c are abstracted to a     *)
(* function from the users stored to their identifiers.                    *)
(***************************************************************************)
EXTENDS Integers, Sequences

CONSTANTS
    Users,              \* the (login, zipcode) pairs that can be stored
    RegisterMayFail     \* TRUE if open() of the register file may fail

ASSUME RegisterMayFailIsBool == RegisterMayFail \in BOOLEAN

VARIABLES
    map,                \* in memory: the identifier of each user stored
    last_id_assigned,   \* in memory: the identifier given last
    usr_reg             \* on disk: the lines of the register file

storageVars == <<map, last_id_assigned, usr_reg>>

\* A line of the register file: "<id>*<login>*<zipcode>".
Row(usr, id) == [user |-> usr, id |-> id]

StorageTypeOK ==
    /\ DOMAIN map \subseteq Users
    /\ map \in [DOMAIN map -> Nat]
    /\ last_id_assigned \in Nat
    /\ usr_reg \in Seq([user : Users, id : Nat])

----------------------------------------------------------------------------
\* HASMAP_insert puts the newest node first, where a search meets it first.
HASMAP_insert(m, usr, id) ==
    [x \in DOMAIN m \cup {usr} |-> IF x = usr THEN id ELSE m[x]]

STORAGE_getID(usr) == IF usr \in DOMAIN map THEN map[usr] ELSE -1

\* The map and the counter that reading the register file f builds: when a
\* user has several lines, the last one was inserted last and hides the rest.
LoadedMap(f) ==
    [x \in {f[i].user : i \in DOMAIN f} |->
        f[CHOOSE i \in DOMAIN f :
            /\ f[i].user = x
            /\ \A j \in DOMAIN f : f[j].user = x => j <= i].id]

MutLoadDatabase ==
    /\ map' = LoadedMap(usr_reg)
    /\ last_id_assigned' = IF usr_reg = <<>> THEN 0 ELSE Len(usr_reg) - 1
    /\ UNCHANGED usr_reg

\* last_id_assigned starts at 0 in a new process and counts the lines read.
STORAGE_loadDatabase ==
    /\ map' = LoadedMap(usr_reg)
    /\ last_id_assigned' = Len(usr_reg)
    /\ UNCHANGED usr_reg

STORAGE_addUser(usr) ==
    /\ last_id_assigned' = last_id_assigned + 1
    /\ map' = HASMAP_insert(map, usr, last_id_assigned + 1)
    /\ UNCHANGED usr_reg

MutRegisterUser(usr, id) == UNCHANGED storageVars

\* One write() of one line to a file opened with O_APPEND; when open() fails
\* nothing is written and the caller goes on all the same.
STORAGE_registerUser(usr, id) ==
    /\ \/ usr_reg' = Append(usr_reg, Row(usr, id))
       \/ RegisterMayFail /\ UNCHANGED usr_reg
    /\ UNCHANGED <<map, last_id_assigned>>

\* deleteDatabase and the end of the process: only the file survives.
STORAGE_deleteDatabase ==
    /\ map' = [x \in {} |-> 0]
    /\ last_id_assigned' = 0
    /\ UNCHANGED usr_reg

StorageInit ==
    /\ map = [x \in {} |-> 0]
    /\ last_id_assigned = 0
    /\ usr_reg = <<>>

\* The operations in the only orders in which the server calls them: a user is
\* added once it is known to be new, and registered with the identifier that
\* it has just been given.
StorageNext ==
    \/ \E usr \in Users :
          \/ STORAGE_getID(usr) < 0 /\ STORAGE_addUser(usr)
          \/ usr \in DOMAIN map /\ STORAGE_registerUser(usr, map[usr])
    \/ STORAGE_loadDatabase
    \/ STORAGE_deleteDatabase

StorageSpec == StorageInit /\ [][StorageNext]_storageVars
=============================================================================
