--------------------------- MODULE HashMapProofs ---------------------------
(***************************************************************************)
(* Proofs about HashMap, for any users, any keys and any number of         *)
(* buckets, over crashes and power failures at any step.                   *)
(***************************************************************************)
EXTENDS HashMap, WellFoundedInduction, SequenceTheorems, TLAPS

\* The list of a zipcode.
List(z) == HASMAP_lookup(table, z)

\* A process that is not running, or that reads the register file, has nothing
\* between memory and disk; a line is counted as it is read.
Phases ==
    /\ phase = "down" =>
          /\ pending = NoUser /\ last_id_assigned = 0 /\ line = 1
          /\ table = HASMAP_createTable
    /\ phase = "loading" =>
          /\ pending = NoUser /\ last_id_assigned = line - 1
          /\ line \in 1..(Len(usr_reg) + 1)

\* The file has one line at most for a user, and none for the one that is about
\* to be registered.
FileUnique ==
    /\ \A i, j \in DOMAIN usr_reg :
          /\ usr_reg[i].login = usr_reg[j].login
          /\ usr_reg[i].zipcode = usr_reg[j].zipcode
          => i = j
    /\ pending # NoUser =>
          /\ pending \in ToSet(List(pending.zipcode))
          /\ \A i \in DOMAIN usr_reg :
                ~ (/\ usr_reg[i].login = pending.login
                   /\ usr_reg[i].zipcode = pending.zipcode)

\* While the file is read, too, a list has users of its zipcode, each once.
ListsExact ==
    \A z \in Zipcodes :
        /\ \A i \in DOMAIN List(z) : List(z)[i].zipcode = z
        /\ \A i, j \in DOMAIN List(z) :
              List(z)[i].login = List(z)[j].login => i = j

\* Memory has every line read so far, and, while loading, nothing else.
MemoryHasFile ==
    /\ \A i \in DOMAIN usr_reg :
          phase = "serving" \/ (phase = "loading" /\ i < line)
              => usr_reg[i] \in ToSet(List(usr_reg[i].zipcode))
    /\ phase = "loading" =>
          \A z \in Zipcodes : \A i \in DOMAIN List(z) :
              \E j \in 1..(line - 1) : List(z)[i] = usr_reg[j]

HashMapIInv ==
    /\ TypeOK /\ Phases /\ FileUnique /\ ListsExact /\ MemoryHasFile
    /\ NeverServesTorn

----------------------------------------------------------------------------
(* The first element that a walk finds.                                    *)

\* The least of some numbers is one of them.
LEMMA MinIsLeast ==
    ASSUME NEW S, S \subseteq Nat, S # {}
    PROVE  Min(S) \in S /\ \A n \in S : Min(S) <= n
<1>1. PICK m \in S : \A n \in S : <<n, m>> \notin OpToRel(<, Nat)
  BY NatLessThanWellFounded, WFMin
<1>2. \A n \in S : m <= n
  <2> TAKE n \in S
  <2>1. m \in Nat /\ n \in Nat
    OBVIOUS
  <2>2. ~(n < m)
    BY <1>1, <2>1 DEF OpToRel
  <2> QED BY <2>1, <2>2
<1> QED BY <1>2 DEF Min

\* The walk along a chain stops at its first node with the key.
LEMMA WalkStops ==
    ASSUME NEW chain \in Seq(Node), NEW key, HasKey(chain, key)
    PROVE  /\ NodeOf(chain, key) \in 1..Len(chain)
           /\ chain[NodeOf(chain, key)].key = key
           /\ \A i \in 1..Len(chain) :
                 chain[i].key = key => NodeOf(chain, key) <= i
<1> DEFINE I == {i \in 1..Len(chain) : chain[i].key = key}
<1>1. I \subseteq Nat /\ I # {}
  BY DEF HasKey
<1>2. NodeOf(chain, key) = Min(I)
  BY <1>1 DEF NodeOf, SelectInSeq
<1>3. Min(I) \in I /\ \A n \in I : Min(I) <= n
  BY <1>1, MinIsLeast
<1> QED BY <1>2, <1>3

\* Nothing else is the first node with the key.
LEMMA WalkIsUnique ==
    ASSUME NEW chain \in Seq(Node), NEW key, NEW n \in 1..Len(chain),
           chain[n].key = key,
           \A i \in 1..Len(chain) : chain[i].key = key => n <= i
    PROVE  HasKey(chain, key) /\ NodeOf(chain, key) = n
<1>1. HasKey(chain, key)
  BY DEF HasKey
<1>2. /\ NodeOf(chain, key) \in 1..Len(chain)
      /\ chain[NodeOf(chain, key)].key = key
      /\ NodeOf(chain, key) <= n
  BY <1>1, WalkStops
<1>3. n <= NodeOf(chain, key)
  BY <1>2
<1> QED BY <1>1, <1>2, <1>3

----------------------------------------------------------------------------
(* The table of chains is a function from keys to lists.                   *)

Tables == [Buckets -> Seq(Node)]

LEMMA HashIsBucket ==
    ASSUME NEW key \in Zipcodes
    PROVE  HASMAP_hashCode(key) \in Buckets
<1>1. key \in Int
  BY PostcodesAssumption DEF Zipcodes
<1>2. \A n \in Nat : n % MAX_ZIPCODE \in 0..(MAX_ZIPCODE - 1)
  BY BucketsAssumption
<1> QED BY <1>1, <1>2 DEF HASMAP_hashCode, Buckets

\* What is in a chain for a key.
ListIn(chain, key) ==
    IF HasKey(chain, key) THEN chain[NodeOf(chain, key)].val ELSE <<>>

LEMMA ListIsSeq ==
    ASSUME NEW chain \in Seq(Node), NEW key
    PROVE  ListIn(chain, key) \in Seq(User)
<1>1. CASE HasKey(chain, key)
  <2>1. chain[NodeOf(chain, key)] \in Node
    BY <1>1, WalkStops
  <2> QED BY <1>1, <2>1 DEF ListIn, Node
<1>2. CASE ~HasKey(chain, key)
  BY <1>2 DEF ListIn
<1> QED BY <1>1, <1>2

LEMMA LookupIsSeq ==
    ASSUME NEW t \in Tables, NEW key \in Zipcodes
    PROVE  /\ HASMAP_lookup(t, key) \in Seq(User)
           /\ HASMAP_lookup(t, key) = ListIn(t[HASMAP_hashCode(key)], key)
<1>1. t[HASMAP_hashCode(key)] \in Seq(Node)
  BY HashIsBucket DEF Tables
<1>2. HASMAP_lookup(t, key) = ListIn(t[HASMAP_hashCode(key)], key)
  BY DEF HASMAP_lookup, ListIn
<1> QED BY <1>1, <1>2, ListIsSeq

\* A user added to the node of its key is first in the list of that key, and in
\* no other.
LEMMA AddedToNode ==
    ASSUME NEW chain \in Seq(Node), NEW key \in Zipcodes, NEW usr \in User,
           HasKey(chain, key)
    PROVE  /\ Added(chain, key, usr) \in Seq(Node)
           /\ \A z \in Zipcodes :
                 ListIn(Added(chain, key, usr), z) =
                     IF z = key THEN <<usr>> \o ListIn(chain, z)
                     ELSE ListIn(chain, z)
<1> DEFINE c == Added(chain, key, usr)
           n == NodeOf(chain, key)
           node == [chain[n] EXCEPT !.val = <<usr>> \o @]
<1>1. /\ n \in 1..Len(chain) /\ chain[n].key = key
      /\ \A i \in 1..Len(chain) : chain[i].key = key => n <= i
  BY WalkStops
<1>2. chain[n] \in Node
  BY <1>1
<1>3. /\ node \in Node /\ node.key = key /\ node.val = <<usr>> \o chain[n].val
  <2>1. chain[n].val \in Seq(User) /\ chain[n].val # <<>>
    BY <1>2 DEF Node
  <2>2. <<usr>> \o chain[n].val \in Seq(User) \ {<<>>}
    BY <2>1
  <2> HIDE DEF n
  <2> QED BY <1>1, <1>2, <2>2 DEF Node
<1>4. c = [chain EXCEPT ![n] = node]
  BY DEF Added, BIDIRECTIONALLIST_addAfter
<1> HIDE DEF c, n, node
<1>5. /\ c \in Seq(Node) /\ Len(c) = Len(chain)
      /\ \A i \in 1..Len(chain) : c[i].key = chain[i].key
      /\ \A i \in 1..Len(chain) : i # n => c[i] = chain[i]
      /\ c[n] = node
  <2>1. /\ c \in Seq(Node) /\ Len(c) = Len(chain)
        /\ \A i \in 1..Len(chain) : c[i] = IF i = n THEN node ELSE chain[i]
    <3>1. chain \in Seq(Node) /\ node \in Node /\ n \in 1..Len(chain)
      BY <1>1, <1>3
    <3>2. /\ [chain EXCEPT ![n] = node] \in Seq(Node)
          /\ Len([chain EXCEPT ![n] = node]) = Len(chain)
          /\ \A j \in 1..Len(chain) :
                [chain EXCEPT ![n] = node][j] = IF j = n THEN node ELSE chain[j]
      BY <3>1, ExceptSeq
    <3> QED BY <1>4, <3>2, Zenon
  <2> QED BY <1>1, <1>3, <2>1
<1>6. ASSUME NEW z \in Zipcodes, HasKey(chain, z)
      PROVE  HasKey(c, z) /\ NodeOf(c, z) = NodeOf(chain, z)
  <2>1. /\ NodeOf(chain, z) \in 1..Len(c)
        /\ c[NodeOf(chain, z)].key = z
        /\ \A i \in 1..Len(c) : c[i].key = z => NodeOf(chain, z) <= i
    BY <1>5, <1>6, WalkStops
  <2> QED BY <1>5, <2>1, WalkIsUnique
<1>7. ASSUME NEW z \in Zipcodes, ~HasKey(chain, z) PROVE ~HasKey(c, z)
  BY <1>5, <1>7 DEF HasKey
<1>8. ListIn(c, key) = <<usr>> \o ListIn(chain, key)
  BY <1>3, <1>5, <1>6 DEF ListIn, n
<1>9. ASSUME NEW z \in Zipcodes, z # key PROVE ListIn(c, z) = ListIn(chain, z)
  <2>1. CASE HasKey(chain, z)
    <3>1. NodeOf(chain, z) \in 1..Len(chain) /\ chain[NodeOf(chain, z)].key = z
      BY <2>1, WalkStops
    <3>2. NodeOf(chain, z) # n
      BY <1>1, <1>9, <3>1
    <3>3. c[NodeOf(chain, z)] = chain[NodeOf(chain, z)]
      BY <1>5, <3>1, <3>2
    <3>4. HasKey(c, z) /\ NodeOf(c, z) = NodeOf(chain, z)
      BY <1>6, <2>1
    <3>5. ListIn(c, z) = c[NodeOf(chain, z)].val
      BY <3>4, Zenon DEF ListIn
    <3>6. ListIn(chain, z) = chain[NodeOf(chain, z)].val
      BY <2>1, Zenon DEF ListIn
    <3> QED BY <3>3, <3>5, <3>6, Zenon
  <2>2. CASE ~HasKey(chain, z)
    BY <1>7, <2>2 DEF ListIn
  <2> QED BY <2>1, <2>2
<1> QED BY <1>5, <1>8, <1>9 DEF c

\* The same for a new node, before all others.
LEMMA NodeAdded ==
    ASSUME NEW chain \in Seq(Node), NEW key \in Zipcodes, NEW usr \in User,
           ~HasKey(chain, key)
    PROVE  /\ Added(chain, key, usr) \in Seq(Node)
           /\ \A z \in Zipcodes :
                 ListIn(Added(chain, key, usr), z) =
                     IF z = key THEN <<usr>> \o ListIn(chain, z)
                     ELSE ListIn(chain, z)
<1> DEFINE c == Added(chain, key, usr)
           node == [key |-> key, val |-> <<usr>>]
<1>0. c = <<node>> \o chain
  BY DEF Added, BIDIRECTIONALLIST_addAfter
<1>1. node \in Node /\ node.key = key /\ node.val = <<usr>>
  BY DEF Node
<1> HIDE DEF c, node
<1>2. /\ c \in Seq(Node) /\ Len(c) = Len(chain) + 1 /\ c[1] = node
      /\ \A i \in 1..Len(chain) : c[i + 1] = chain[i]
      /\ \A i \in 2..Len(c) : i - 1 \in 1..Len(chain) /\ c[i] = chain[i - 1]
  <2>1. <<node>> \in Seq(Node) /\ Len(<<node>>) = 1 /\ <<node>>[1] = node
    BY <1>1
  <2>2. /\ c \in Seq(Node) /\ Len(c) = 1 + Len(chain)
        /\ \A i \in 1..(1 + Len(chain)) :
              c[i] = IF i <= 1 THEN <<node>>[i] ELSE chain[i - 1]
    BY <1>0, <2>1, ConcatProperties
  <2>3. Len(chain) \in Nat
    OBVIOUS
  <2>4. ASSUME NEW i \in 1..Len(chain) PROVE c[i + 1] = chain[i]
    <3>1. i + 1 \in 1..(1 + Len(chain)) /\ ~(i + 1 <= 1) /\ (i + 1) - 1 = i
      BY <2>3
    <3> QED BY <2>2, <3>1
  <2>5. ASSUME NEW i \in 2..Len(c)
        PROVE  i - 1 \in 1..Len(chain) /\ c[i] = chain[i - 1]
    <3>1. i \in 1..(1 + Len(chain)) /\ ~(i <= 1)
      BY <2>2, <2>3
    <3> QED BY <2>2, <2>3, <3>1
  <2> QED BY <2>1, <2>2, <2>3, <2>4, <2>5
<1>3. ListIn(c, key) = <<usr>> \o ListIn(chain, key)
  <2>1. HasKey(c, key) /\ NodeOf(c, key) = 1
    <3>1. 1 \in 1..Len(c) /\ c[1].key = key /\ \A i \in 1..Len(c) : 1 <= i
      BY <1>1, <1>2
    <3>2. c \in Seq(Node)
      BY <1>2
    <3> QED BY <3>1, <3>2, WalkIsUnique
  <2>2. ListIn(c, key) = <<usr>> /\ ListIn(chain, key) = <<>>
    BY <1>1, <1>2, <2>1 DEF ListIn
  <2> QED BY <2>2
<1>4. ASSUME NEW z \in Zipcodes, z # key PROVE ListIn(c, z) = ListIn(chain, z)
  <2>1. CASE HasKey(chain, z)
    <3> DEFINE n == NodeOf(chain, z)
    <3>1. /\ n \in 1..Len(chain) /\ chain[n].key = z
          /\ \A i \in 1..Len(chain) : chain[i].key = z => n <= i
      BY <2>1, WalkStops
    <3> HIDE DEF n
    <3>2. /\ n + 1 \in 1..Len(c) /\ c[n + 1].key = z
          /\ \A i \in 1..Len(c) : c[i].key = z => n + 1 <= i
      <4>1. Len(chain) \in Nat
        OBVIOUS
      <4>2. n + 1 \in 1..Len(c) /\ c[n + 1] = chain[n]
        BY <1>2, <3>1, <4>1
      <4>3. ASSUME NEW i \in 1..Len(c), c[i].key = z PROVE n + 1 <= i
        <5>1. i # 1
          BY <1>1, <1>2, <1>4, <4>3
        <5>2. i \in 2..Len(c)
          BY <1>2, <4>1, <5>1
        <5>3. i - 1 \in 1..Len(chain) /\ chain[i - 1].key = z
          BY <1>2, <4>3, <5>2
        <5> QED BY <3>1, <5>3
      <4> QED BY <3>1, <4>2, <4>3
    <3>3. HasKey(c, z) /\ NodeOf(c, z) = n + 1
      BY <1>2, <3>2, WalkIsUnique
    <3> QED BY <1>2, <2>1, <3>1, <3>3 DEF ListIn, n
  <2>2. CASE ~HasKey(chain, z)
    <3>1. ~HasKey(c, z)
      <4> SUFFICES ASSUME NEW i \in 1..Len(c), c[i].key = z PROVE FALSE
        BY <1>2 DEF HasKey
      <4>1. i # 1
        BY <1>1, <1>2, <1>4
      <4>2. i \in 2..Len(c)
        BY <1>2, <4>1
      <4>3. i - 1 \in 1..Len(chain) /\ chain[i - 1].key = z
        BY <1>2, <4>2
      <4> QED BY <2>2, <4>3 DEF HasKey
    <3> QED BY <2>2, <3>1 DEF ListIn
  <2> QED BY <2>1, <2>2
<1> QED BY <1>2, <1>3, <1>4 DEF c

\* HASMAP_insert puts a user in front of the list of its zipcode and leaves
\* every other list as it was, whatever keys share a bucket.
THEOREM InsertLookup ==
    ASSUME NEW t \in Tables, NEW key \in Zipcodes, NEW usr \in User
    PROVE  /\ HASMAP_insert(t, key, usr) \in Tables
           /\ \A z \in Zipcodes :
                 HASMAP_lookup(HASMAP_insert(t, key, usr), z) =
                     IF z = key THEN <<usr>> \o HASMAP_lookup(t, z)
                     ELSE HASMAP_lookup(t, z)
<1> DEFINE pos == HASMAP_hashCode(key)
           chain == t[pos]
           u == HASMAP_insert(t, key, usr)
<1>1. pos \in Buckets /\ chain \in Seq(Node)
  BY HashIsBucket DEF Tables
<1>2. /\ u[pos] \in Seq(Node)
      /\ \A z \in Zipcodes :
            ListIn(u[pos], z) = IF z = key THEN <<usr>> \o ListIn(chain, z)
                                ELSE ListIn(chain, z)
  <2>1. u[pos] = Added(chain, key, usr)
    <3>1. u = [t EXCEPT ![pos] = Added(t[pos], key, usr)]
      BY DEF HASMAP_insert
    <3>2. DOMAIN t = Buckets
      BY DEF Tables
    <3> HIDE DEF u, pos
    <3> QED BY <1>1, <3>1, <3>2
  <2> HIDE DEF chain, u, pos
  <2> QED BY <1>1, <2>1, AddedToNode, NodeAdded
<1>3. /\ DOMAIN u = Buckets
      /\ \A b \in Buckets : b # pos => u[b] = t[b]
      /\ u = [b \in Buckets |-> u[b]]
  BY DEF HASMAP_insert, Tables
<1> HIDE DEF u
<1>4. u \in Tables
  BY <1>1, <1>2, <1>3 DEF Tables
<1>5. ASSUME NEW z \in Zipcodes
      PROVE  HASMAP_lookup(u, z) = IF z = key THEN <<usr>> \o HASMAP_lookup(t, z)
                                   ELSE HASMAP_lookup(t, z)
  <2>1. /\ HASMAP_lookup(u, z) = ListIn(u[HASMAP_hashCode(z)], z)
        /\ HASMAP_lookup(t, z) = ListIn(t[HASMAP_hashCode(z)], z)
    BY <1>4, LookupIsSeq
  <2>2. CASE HASMAP_hashCode(z) = pos
    BY <1>2, <2>1, <2>2
  <2>3. CASE HASMAP_hashCode(z) # pos
    BY <1>3, <2>1, <2>3, HashIsBucket
  <2> QED BY <2>2, <2>3
<1> QED BY <1>4, <1>5 DEF u

----------------------------------------------------------------------------
(* What a login finds.                                                     *)

FindID(t, login, zipcode) ==
    LET list == HASMAP_lookup(t, zipcode)
        i == SelectInSeq(list, LAMBDA usr : usr.login = login)
    IN  IF i = 0 THEN -1 ELSE list[i].id

\* Without a user of the login in the list nothing is found.
LEMMA NotFound ==
    ASSUME NEW t \in Tables, NEW login, NEW z \in Zipcodes,
           \A i \in 1..Len(HASMAP_lookup(t, z)) :
               HASMAP_lookup(t, z)[i].login # login
    PROVE  FindID(t, login, z) = -1
<1> DEFINE list == HASMAP_lookup(t, z)
<1>1. {i \in 1..Len(list) : list[i].login = login} = {}
  OBVIOUS
<1> QED BY <1>1 DEF FindID, SelectInSeq

\* With one, its identifier is.
LEMMA Found ==
    ASSUME NEW t \in Tables, NEW login, NEW z \in Zipcodes,
           NEW n \in 1..Len(HASMAP_lookup(t, z)),
           HASMAP_lookup(t, z)[n].login = login,
           \A i, j \in DOMAIN HASMAP_lookup(t, z) :
               HASMAP_lookup(t, z)[i].login = HASMAP_lookup(t, z)[j].login
                   => i = j
    PROVE  FindID(t, login, z) = HASMAP_lookup(t, z)[n].id
<1> DEFINE list == HASMAP_lookup(t, z)
           I == {i \in 1..Len(list) : list[i].login = login}
<1>1. list \in Seq(User) /\ DOMAIN list = 1..Len(list)
  BY LookupIsSeq
<1>2. I = {n}
  BY <1>1
<1>3. Min(I) = n
  <2>1. I \subseteq Nat /\ I # {}
    BY <1>2
  <2> QED BY <1>2, <2>1, MinIsLeast
<1>4. SelectInSeq(list, LAMBDA usr : usr.login = login) = n
  BY <1>2, <1>3 DEF SelectInSeq
<1> QED BY <1>4 DEF FindID

----------------------------------------------------------------------------
(* Every step keeps the invariant.                                         *)

LEMMA TypesKept ==
    ASSUME HashMapIInv, Next
    PROVE  TypeOK'
<1> USE DEF HashMapIInv, TypeOK
<1>t. table \in Tables /\ HASMAP_createTable \in Tables
  BY DEF Tables, HASMAP_createTable
<1>d. ASSUME Die, torn' \in BOOLEAN PROVE TypeOK'
  BY <1>t, <1>d DEF Die, Tables
<1>1. CASE Start
  BY <1>1 DEF Start
<1>2. CASE LoadLine
  <2>1. line \in DOMAIN usr_reg /\ usr_reg[line] \in User
    BY <1>2 DEF LoadLine, Phases
  <2>2. usr_reg[line].zipcode \in Zipcodes
    BY <2>1 DEF User
  <2>3. table' \in Tables
    BY <1>2, <1>t, <2>1, <2>2, InsertLookup DEF LoadLine
  <2> QED BY <1>2, <2>3 DEF LoadLine, Tables
<1>3. CASE LoadEnd
  BY <1>3 DEF LoadEnd
<1>4. CASE LoadTorn
  BY <1>4, <1>d DEF LoadTorn
<1>5. ASSUME NEW login \in Logins, NEW zipcode \in Zipcodes,
             STORAGE_addUser(login, zipcode)
      PROVE  TypeOK'
  <2> DEFINE usr == [login |-> login, zipcode |-> zipcode,
                     id |-> last_id_assigned + 1]
  <2>1. usr \in User
    BY DEF User
  <2>2. table' \in Tables
    BY <1>5, <1>t, <2>1, InsertLookup DEF STORAGE_addUser
  <2> QED BY <1>5, <2>1, <2>2 DEF STORAGE_addUser, Tables
<1>6. CASE STORAGE_registerUser
  BY <1>6 DEF STORAGE_registerUser
<1>7. CASE Crash
  BY <1>7, <1>d DEF Crash
<1>8. CASE PowerFailure
  BY <1>8, <1>d DEF PowerFailure
<1> QED BY <1>1, <1>2, <1>3, <1>4, <1>5, <1>6, <1>7, <1>8 DEF Next, Loading

\* What is in a list of the table.
LEMMA ListTypes ==
    ASSUME TypeOK, NEW z \in Zipcodes
    PROVE  /\ List(z) \in Seq(User) /\ Len(List(z)) \in Nat
           /\ DOMAIN List(z) = 1..Len(List(z))
<1>1. table \in Tables
  BY DEF TypeOK, Tables
<1> QED BY <1>1, LookupIsSeq DEF List

\* One user in front of a list.
LEMMA Prepended ==
    ASSUME NEW S, NEW s \in Seq(S), NEW e \in S
    PROVE  /\ <<e>> \o s \in Seq(S)
           /\ DOMAIN (<<e>> \o s) = 1..(Len(s) + 1)
           /\ (<<e>> \o s)[1] = e
           /\ \A i \in 1..Len(s) : (<<e>> \o s)[i + 1] = s[i]
           /\ \A i \in 2..(Len(s) + 1) :
                 i - 1 \in 1..Len(s) /\ (<<e>> \o s)[i] = s[i - 1]
           /\ ToSet(<<e>> \o s) = {e} \cup ToSet(s)
<1> DEFINE c == <<e>> \o s
<1>1. /\ <<e>> \in Seq(S) /\ Len(<<e>>) = 1 /\ <<e>>[1] = e /\ Len(s) \in Nat
      /\ DOMAIN s = 1..Len(s)
  OBVIOUS
<1>2. /\ c \in Seq(S) /\ Len(c) = 1 + Len(s)
      /\ \A i \in 1..(1 + Len(s)) : c[i] = IF i <= 1 THEN <<e>>[i] ELSE s[i - 1]
  BY <1>1, ConcatProperties
<1>3. DOMAIN c = 1..(Len(s) + 1)
  BY <1>1, <1>2
<1> HIDE DEF c
<1>4. ASSUME NEW i \in 1..Len(s) PROVE c[i + 1] = s[i]
  <2>1. i + 1 \in 1..(1 + Len(s)) /\ ~(i + 1 <= 1) /\ (i + 1) - 1 = i
    BY <1>1
  <2> QED BY <1>2, <2>1
<1>5. ASSUME NEW i \in 2..(Len(s) + 1)
      PROVE  i - 1 \in 1..Len(s) /\ c[i] = s[i - 1]
  <2>1. i \in 1..(1 + Len(s)) /\ ~(i <= 1)
    BY <1>1
  <2> QED BY <1>1, <1>2, <2>1
<1>6. c[1] = e
  BY <1>1, <1>2
<1>7. ToSet(c) = {e} \cup ToSet(s)
  <2>1. ASSUME NEW x \in ToSet(c) PROVE x \in {e} \cup ToSet(s)
    <3>1. PICK i \in 1..(Len(s) + 1) : x = c[i]
      BY <1>3, <2>1 DEF ToSet
    <3>2. CASE i = 1
      BY <1>6, <3>1, <3>2
    <3>3. CASE i # 1
      <4>1. i - 1 \in DOMAIN s /\ x = s[i - 1]
        BY <1>1, <1>5, <3>1, <3>3
      <4> QED BY <4>1 DEF ToSet
    <3> QED BY <3>2, <3>3
  <2>2. ASSUME NEW x \in {e} \cup ToSet(s) PROVE x \in ToSet(c)
    <3>1. CASE x = e
      BY <1>1, <1>3, <1>6, <3>1 DEF ToSet
    <3>2. CASE x \in ToSet(s)
      <4>1. PICK i \in 1..Len(s) : x = s[i]
        BY <1>1, <3>2 DEF ToSet
      <4>2. i + 1 \in DOMAIN c /\ c[i + 1] = x
        BY <1>1, <1>3, <1>4, <4>1
      <4> QED BY <4>2 DEF ToSet
    <3> QED BY <2>2, <3>1, <3>2
  <2> QED BY <2>1, <2>2
<1> QED BY <1>2, <1>3, <1>4, <1>5, <1>6, <1>7 DEF c

\* A new user put into the table is in its list, and the lists stay exact.
LEMMA InsertKeepsExact ==
    ASSUME TypeOK, ListsExact, NEW usr \in User,
           table' = HASMAP_insert(table, usr.zipcode, usr),
           \A i \in DOMAIN List(usr.zipcode) :
               List(usr.zipcode)[i].login # usr.login
    PROVE  /\ ListsExact'
           /\ \A z \in Zipcodes :
                 ToSet(List(z)') = IF z = usr.zipcode
                                   THEN {usr} \cup ToSet(List(z))
                                   ELSE ToSet(List(z))
<1> DEFINE key == usr.zipcode
           old == List(key)
           new == <<usr>> \o old
<1>1. key \in Zipcodes /\ table \in Tables
  BY DEF TypeOK, Tables, User
<1>2. \A z \in Zipcodes :
          List(z)' = IF z = key THEN <<usr>> \o List(z) ELSE List(z)
  BY <1>1, InsertLookup DEF List
<1>3. old \in Seq(User) /\ Len(old) \in Nat /\ DOMAIN old = 1..Len(old)
  BY <1>1, ListTypes
<1>4. /\ \A i \in DOMAIN old : old[i].zipcode = key /\ old[i].login # usr.login
      /\ \A i, j \in DOMAIN old : old[i].login = old[j].login => i = j
  BY <1>1 DEF ListsExact
<1> HIDE DEF old
<1>5. /\ DOMAIN new = 1..(Len(old) + 1) /\ new[1] = usr
      /\ \A i \in 2..(Len(old) + 1) :
            i - 1 \in 1..Len(old) /\ new[i] = old[i - 1]
      /\ ToSet(new) = {usr} \cup ToSet(old)
  BY <1>3, Prepended
<1> HIDE DEF new
<1>6. \A i \in DOMAIN new : new[i].zipcode = key
  <2> TAKE i \in DOMAIN new
  <2>1. CASE i = 1
    BY <1>5, <2>1
  <2>2. CASE i # 1
    <3>1. i - 1 \in DOMAIN old /\ new[i] = old[i - 1]
      BY <1>3, <1>5, <2>2
    <3> QED BY <1>4, <3>1
  <2> QED BY <2>1, <2>2
<1>7. ASSUME NEW i \in DOMAIN new, NEW j \in DOMAIN new,
             new[i].login = new[j].login
      PROVE  i = j
  <2>1. \A k \in DOMAIN new : k # 1 => k - 1 \in DOMAIN old
                                        /\ new[k] = old[k - 1]
    BY <1>3, <1>5
  <2>2. CASE i = 1 /\ j = 1
    BY <2>2
  <2>3. CASE i = 1 /\ j # 1
    BY <1>4, <1>5, <1>7, <2>1, <2>3
  <2>4. CASE i # 1 /\ j = 1
    BY <1>4, <1>5, <1>7, <2>1, <2>4
  <2>5. CASE i # 1 /\ j # 1
    <3>1. i - 1 = j - 1
      BY <1>4, <1>7, <2>1, <2>5
    <3> QED BY <1>3, <1>5, <3>1
  <2> QED BY <2>2, <2>3, <2>4, <2>5
<1>8. List(key)' = new /\ \A z \in Zipcodes : z # key => List(z)' = List(z)
  BY <1>1, <1>2 DEF new, old
<1>9. ListsExact'
  <2> SUFFICES ASSUME NEW z \in Zipcodes
               PROVE  /\ \A i \in DOMAIN List(z)' : List(z)'[i].zipcode = z
                      /\ \A i, j \in DOMAIN List(z)' :
                            List(z)'[i].login = List(z)'[j].login => i = j
    BY DEF ListsExact
  <2>1. CASE z = key
    BY <1>6, <1>7, <1>8, <2>1
  <2>2. CASE z # key
    BY <1>8, <2>2 DEF ListsExact
  <2> QED BY <2>1, <2>2
<1> QED BY <1>5, <1>8, <1>9 DEF old

\* The end of a process leaves empty lists.
LEMMA EmptyLists ==
    ASSUME NEW z \in Zipcodes
    PROVE  HASMAP_lookup(HASMAP_createTable, z) = <<>>
<1>1. HASMAP_createTable[HASMAP_hashCode(z)] = <<>>
  BY HashIsBucket DEF HASMAP_createTable
<1> QED BY <1>1 DEF HASMAP_lookup, HasKey

LEMMA RestKept ==
    ASSUME HashMapIInv, Next
    PROVE  Phases' /\ FileUnique' /\ ListsExact' /\ MemoryHasFile'
           /\ NeverServesTorn'
<1> DEFINE Kept == Phases' /\ FileUnique' /\ ListsExact' /\ MemoryHasFile'
                   /\ NeverServesTorn'
<1> USE DEF HashMapIInv
<1>t. /\ usr_reg \in Seq(User) /\ DOMAIN usr_reg = 1..Len(usr_reg)
      /\ Len(usr_reg) \in Nat
      /\ \A i \in DOMAIN usr_reg : usr_reg[i] \in User
                                   /\ usr_reg[i].zipcode \in Zipcodes
  <2>1. usr_reg \in Seq(User)
    BY DEF TypeOK
  <2>2. \A r \in User : r.zipcode \in Zipcodes
    BY DEF User
  <2> QED BY <2>1, <2>2
<1>d. ASSUME Die PROVE Kept
  <2>1. \A z \in Zipcodes : List(z)' = <<>>
    BY <1>d, EmptyLists DEF Die, List
  <2>2. ListsExact'
    BY <2>1 DEF ListsExact
  <2> QED BY <1>d, <2>2
          DEF Die, Phases, FileUnique, MemoryHasFile, NeverServesTorn
<1>s. ASSUME UNCHANGED <<table, usr_reg>>
      PROVE  ListsExact' /\ \A z : List(z)' = List(z)
  BY <1>s DEF ListsExact, List
<1>1. CASE Start
  <2>1. /\ UNCHANGED <<table, last_id_assigned, line, pending, usr_reg, torn>>
        /\ phase = "down" /\ phase' = "loading" /\ pending = NoUser
        /\ last_id_assigned = 0 /\ line = 1
    BY <1>1 DEF Start, Phases
  <2>2. ListsExact' /\ \A z \in Zipcodes : List(z)' = <<>>
    BY <1>s, <2>1, EmptyLists DEF Phases, List
  <2> QED BY <1>t, <2>1, <2>2
          DEF Phases, FileUnique, MemoryHasFile, NeverServesTorn
<1>2. CASE LoadLine
  <2> DEFINE usr == usr_reg[line]
  <2>1. /\ line \in DOMAIN usr_reg /\ usr \in User /\ usr.zipcode \in Zipcodes
        /\ table' = HASMAP_insert(table, usr.zipcode, usr)
        /\ UNCHANGED <<phase, pending, usr_reg, torn>>
        /\ phase = "loading" /\ line' = line + 1 /\ line \in Nat
    BY <1>2, <1>t DEF LoadLine, Phases
  <2>2. \A i \in DOMAIN List(usr.zipcode) :
            List(usr.zipcode)[i].login # usr.login
    <3> SUFFICES ASSUME NEW i \in DOMAIN List(usr.zipcode),
                        List(usr.zipcode)[i].login = usr.login
                 PROVE  FALSE
      OBVIOUS
    <3>1. PICK j \in 1..(line - 1) : List(usr.zipcode)[i] = usr_reg[j]
      BY <2>1 DEF MemoryHasFile
    <3>2. usr_reg[j].zipcode = usr.zipcode /\ usr_reg[j].login = usr.login
      BY <2>1, <3>1 DEF ListsExact
    <3>3. j \in DOMAIN usr_reg /\ j # line
      BY <1>t, <2>1
    <3> QED BY <2>1, <3>2, <3>3 DEF FileUnique
  <2>3. /\ ListsExact'
        /\ \A z \in Zipcodes :
              ToSet(List(z)') = IF z = usr.zipcode
                                THEN {usr} \cup ToSet(List(z))
                                ELSE ToSet(List(z))
    BY <2>1, <2>2, InsertKeepsExact
  <2>4. Phases'
    BY <1>2, <1>t, <2>1 DEF Phases, LoadLine
  <2>5. FileUnique'
    BY <2>1 DEF FileUnique, Phases
  <2>6. MemoryHasFile'
    <3>1. ASSUME NEW i \in DOMAIN usr_reg, i < line + 1
          PROVE  usr_reg[i] \in ToSet(List(usr_reg[i].zipcode)')
      <4>1. CASE i = line
        BY <2>1, <2>3, <4>1
      <4>2. CASE i # line
        <5>1. usr_reg[i] \in ToSet(List(usr_reg[i].zipcode))
          BY <1>t, <2>1, <3>1, <4>2 DEF MemoryHasFile
        <5> QED BY <1>t, <2>1, <2>3, <5>1 DEF List
      <4> QED BY <4>1, <4>2
    <3>2. ASSUME NEW z \in Zipcodes, NEW i \in DOMAIN List(z)'
          PROVE  \E j \in 1..line : List(z)'[i] = usr_reg[j]
      <4>1. List(z)'[i] \in ToSet(List(z)')
        BY DEF ToSet
      <4>2. CASE List(z)'[i] = usr
        BY <2>1, <4>2, <1>t
      <4>3. CASE List(z)'[i] # usr
        <5>1. List(z)'[i] \in ToSet(List(z))
          BY <2>3, <4>1, <4>3
        <5>2. PICK k \in DOMAIN List(z) : List(z)'[i] = List(z)[k]
          BY <5>1 DEF ToSet
        <5>3. PICK j \in 1..(line - 1) : List(z)[k] = usr_reg[j]
          BY <2>1 DEF MemoryHasFile
        <5> QED BY <2>1, <5>2, <5>3
      <4> QED BY <4>2, <4>3
    <3> QED BY <2>1, <3>1, <3>2 DEF MemoryHasFile
  <2> QED BY <2>1, <2>3, <2>4, <2>5, <2>6 DEF NeverServesTorn
<1>3. CASE LoadEnd
  <2>1. \A i \in DOMAIN usr_reg : i < line
    BY <1>3, <1>t DEF LoadEnd, TypeOK
  <2> QED BY <1>3, <1>s, <1>t, <2>1 DEF LoadEnd, Phases, FileUnique,
          MemoryHasFile, NeverServesTorn
<1>4. CASE LoadTorn
  BY <1>4, <1>d DEF LoadTorn
<1>5. ASSUME NEW login \in Logins, NEW zipcode \in Zipcodes,
             STORAGE_addUser(login, zipcode)
      PROVE  Kept
  <2> DEFINE usr == [login |-> login, zipcode |-> zipcode,
                     id |-> last_id_assigned + 1]
  <2>1. /\ usr \in User /\ usr.zipcode = zipcode /\ usr.login = login
        /\ table' = HASMAP_insert(table, zipcode, usr)
        /\ phase = "serving" /\ pending = NoUser /\ pending' = usr
        /\ UNCHANGED <<phase, line, usr_reg, torn>>
    BY <1>5 DEF STORAGE_addUser, User, TypeOK
  <2> HIDE DEF usr
  <2>2. \A i \in DOMAIN List(zipcode) : List(zipcode)[i].login # login
    <3> SUFFICES ASSUME NEW i \in DOMAIN List(zipcode),
                        List(zipcode)[i].login = login
                 PROVE  FALSE
      OBVIOUS
    <3>1. /\ List(zipcode) \in Seq(User)
          /\ DOMAIN List(zipcode) = 1..Len(List(zipcode))
      BY ListTypes
    <3>2. table \in Tables
      BY DEF TypeOK, Tables
    <3>3. FindID(table, login, zipcode) = List(zipcode)[i].id
      BY <3>1, <3>2, Found DEF ListsExact, List
    <3>4. List(zipcode)[i].id \in Nat
      <4>1. \A r \in User : r.id \in Nat
        BY DEF User
      <4> QED BY <3>1, <4>1
    <3>5. FindID(table, login, zipcode) < 0
      BY <1>5 DEF STORAGE_addUser, STORAGE_getID, FindID
    <3> QED BY <3>3, <3>4, <3>5
  <2>3. /\ ListsExact'
        /\ \A z \in Zipcodes :
              ToSet(List(z)') = IF z = zipcode
                                THEN {usr} \cup ToSet(List(z))
                                ELSE ToSet(List(z))
    BY <2>1, <2>2, InsertKeepsExact
  <2>4. ASSUME NEW i \in DOMAIN usr_reg
        PROVE  /\ usr_reg[i] \in ToSet(List(usr_reg[i].zipcode)')
               /\ ~ (usr_reg[i].login = login /\ usr_reg[i].zipcode = zipcode)
    <3>1. usr_reg[i] \in ToSet(List(usr_reg[i].zipcode))
      BY <2>1 DEF MemoryHasFile
    <3>2. usr_reg[i] \in ToSet(List(usr_reg[i].zipcode)')
      BY <1>t, <2>1, <2>3, <3>1 DEF List
    <3> QED BY <2>2, <3>1, <3>2 DEF ToSet
  <2>5. usr \in ToSet(List(zipcode)')
    BY <2>3
  <2>6. FileUnique'
    <3>1. usr \in ToSet(HASMAP_lookup(table', usr.zipcode))
      BY <2>1, <2>5 DEF List
    <3> QED BY <2>1, <2>4, <3>1 DEF FileUnique, List
  <2> QED BY <2>1, <2>3, <2>4, <2>6 DEF Phases, MemoryHasFile, NeverServesTorn
<1>6. CASE STORAGE_registerUser
  <2>1. CASE UNCHANGED usr_reg
    BY <1>6, <1>s, <2>1 DEF STORAGE_registerUser, Phases, FileUnique,
       MemoryHasFile, NeverServesTorn
  <2>2. CASE usr_reg' = Append(usr_reg, pending)
    <3>1. /\ pending # NoUser /\ pending' = NoUser /\ phase = "serving"
          /\ UNCHANGED <<phase, table, last_id_assigned, line, torn>>
          /\ pending \in User
      BY <1>6 DEF STORAGE_registerUser, TypeOK
    <3>2. /\ DOMAIN usr_reg' = 1..(Len(usr_reg) + 1)
          /\ \A i \in 1..Len(usr_reg) : usr_reg'[i] = usr_reg[i]
          /\ usr_reg'[Len(usr_reg) + 1] = pending
      BY <1>t, <2>2, <3>1
    <3>3. ListsExact' /\ \A z : List(z)' = List(z)
      BY <3>1 DEF ListsExact, List
    <3>4. FileUnique'
      <4> SUFFICES ASSUME NEW i \in 1..(Len(usr_reg) + 1),
                          NEW j \in 1..(Len(usr_reg) + 1),
                          usr_reg'[i].login = usr_reg'[j].login,
                          usr_reg'[i].zipcode = usr_reg'[j].zipcode
                   PROVE  i = j
        BY <3>1, <3>2 DEF FileUnique
      <4>1. \A k \in 1..(Len(usr_reg) + 1) :
                k \in DOMAIN usr_reg \/ k = Len(usr_reg) + 1
        BY <1>t
      <4>2. CASE i \in DOMAIN usr_reg /\ j \in DOMAIN usr_reg
        BY <1>t, <3>2, <4>2 DEF FileUnique
      <4>3. CASE i \in DOMAIN usr_reg /\ j = Len(usr_reg) + 1
        BY <1>t, <3>1, <3>2, <4>3 DEF FileUnique
      <4>4. CASE i = Len(usr_reg) + 1 /\ j \in DOMAIN usr_reg
        BY <1>t, <3>1, <3>2, <4>4 DEF FileUnique
      <4> QED BY <4>1, <4>2, <4>3, <4>4
    <3>5. MemoryHasFile'
      <4> SUFFICES ASSUME NEW i \in 1..(Len(usr_reg) + 1)
                   PROVE  usr_reg'[i] \in ToSet(List(usr_reg'[i].zipcode))
        BY <3>1, <3>2, <3>3 DEF MemoryHasFile
      <4>1. CASE i \in DOMAIN usr_reg
        BY <1>t, <3>1, <3>2, <4>1 DEF MemoryHasFile
      <4>2. CASE i = Len(usr_reg) + 1
        BY <3>1, <3>2, <4>2 DEF FileUnique
      <4> QED BY <1>t, <4>1, <4>2
    <3> QED BY <3>1, <3>3, <3>4, <3>5 DEF Phases, NeverServesTorn
  <2> QED BY <1>6, <2>1, <2>2 DEF STORAGE_registerUser
<1>7. CASE Crash
  BY <1>7, <1>d DEF Crash
<1>8. CASE PowerFailure
  BY <1>8, <1>d DEF PowerFailure
<1> QED BY <1>1, <1>2, <1>3, <1>4, <1>5, <1>6, <1>7, <1>8 DEF Next, Loading

----------------------------------------------------------------------------
(* The theorems.                                                           *)

\* The inductive invariant behind the others.
THEOREM HashMapInvariant == Spec => []HashMapIInv
<1>1. Init => HashMapIInv
  <2> SUFFICES ASSUME Init PROVE HashMapIInv
    OBVIOUS
  <2>1. \A z \in Zipcodes : List(z) = <<>>
    BY EmptyLists DEF Init, List
  <2>2. table \in [Buckets -> Seq(Node)]
    BY DEF Init, HASMAP_createTable
  <2>3. TypeOK
    <3>1. usr_reg \in Seq(User) /\ pending \in User \cup {NoUser}
      BY DEF Init
    <3> QED BY <2>2, <3>1 DEF Init, TypeOK
  <2>4. ListsExact
    BY <2>1 DEF ListsExact
  <2> QED BY <2>3, <2>4 DEF Init, HashMapIInv, Phases, FileUnique,
          MemoryHasFile, NeverServesTorn
<1>2. HashMapIInv /\ [Next]_vars => HashMapIInv'
  <2> SUFFICES ASSUME HashMapIInv, [Next]_vars PROVE HashMapIInv'
    OBVIOUS
  <2>1. CASE UNCHANGED vars
    BY <2>1 DEF vars, HashMapIInv, TypeOK, Phases, FileUnique, ListsExact,
       MemoryHasFile, NeverServesTorn, List
  <2>2. CASE Next
    BY <2>2, TypesKept, RestKept DEF HashMapIInv
  <2> QED BY <2>1, <2>2
<1> QED BY <1>1, <1>2, PTL DEF Spec

\* The table, its chains and its lists keep their types.
THEOREM HashMapTypes == Spec => []TypeOK
<1>1. HashMapIInv => TypeOK
  BY DEF HashMapIInv
<1> QED BY <1>1, HashMapInvariant, PTL

\* For any number of buckets and any keys, a search or a login gets the users
\* of its zipcode and no others, each once, with all of the register file
\* (storage.c:102, network.c:128).
THEOREM LookupsExact == Spec => []LookupExact
<1>1. HashMapIInv => LookupExact
  <2> SUFFICES ASSUME HashMapIInv, phase = "serving", NEW z \in Zipcodes,
                      NEW r \in ToSet(usr_reg), r.zipcode = z
               PROVE  r \in ToSet(List(z))
    BY DEF LookupExact, HashMapIInv, ListsExact, List
  <2> QED BY DEF HashMapIInv, MemoryHasFile, ToSet
<1> QED BY <1>1, HashMapInvariant, PTL

\* However often the machine stops in the middle of a line, no server comes up
\* on the file that it leaves (storage.c:43).
THEOREM NoServerOnTornFile == Spec => []NeverServesTorn
<1>1. HashMapIInv => NeverServesTorn
  BY DEF HashMapIInv
<1> QED BY <1>1, HashMapInvariant, PTL

----------------------------------------------------------------------------
(* The registry of Storage.                                                *)

Users == Logins \X Zipcodes

\* The function from users to identifiers that a table answers.
Mem(t) == [usr \in {u \in Users : FindID(t, u[1], u[2]) >= 0} |->
               FindID(t, usr[1], usr[2])]
BarMap == IF phase = "serving" THEN Mem(table) ELSE [usr \in {} |-> 0]
BarId == IF phase = "serving" THEN last_id_assigned ELSE 0
BarFile == [i \in DOMAIN usr_reg |->
                [user |-> <<usr_reg[i].login, usr_reg[i].zipcode>>,
                 id |-> usr_reg[i].id]]

\* No list of the table has two users of one login.
Single(t) ==
    \A z \in Zipcodes : \A i, j \in DOMAIN HASMAP_lookup(t, z) :
        HASMAP_lookup(t, z)[i].login = HASMAP_lookup(t, z)[j].login => i = j

\* A user is found when it is in its list.
LEMMA FoundInList ==
    ASSUME NEW t \in Tables, NEW login, NEW z \in Zipcodes,
           Single(t)
    PROVE  /\ \A r \in ToSet(HASMAP_lookup(t, z)) :
                 r.login = login => FindID(t, login, z) = r.id /\ r.id >= 0
           /\ FindID(t, login, z) \in Int
           /\ FindID(t, login, z) >= 0 =>
                 \E r \in ToSet(HASMAP_lookup(t, z)) : r.login = login
<1> DEFINE list == HASMAP_lookup(t, z)
<1>1. /\ list \in Seq(User) /\ DOMAIN list = 1..Len(list)
      /\ \A i \in DOMAIN list : list[i].id \in Nat
  <2>1. \A r \in User : r.id \in Nat
    BY DEF User
  <2> QED BY <2>1, LookupIsSeq
<1>2. ASSUME NEW i \in 1..Len(list), list[i].login = login
      PROVE  FindID(t, login, z) = list[i].id
  BY <1>2, Found DEF Single
<1>3. (\A i \in 1..Len(list) : list[i].login # login)
          => FindID(t, login, z) = -1
  BY NotFound
<1> HIDE DEF list
<1>4. ASSUME NEW r \in ToSet(list), r.login = login
      PROVE  FindID(t, login, z) = r.id /\ r.id >= 0
  <2>1. PICK i \in 1..Len(list) : r = list[i]
    BY <1>1 DEF ToSet
  <2> QED BY <1>1, <1>2, <1>4, <2>1
<1>5. CASE \E i \in 1..Len(list) : list[i].login = login
  <2>1. PICK i \in 1..Len(list) : list[i].login = login
    BY <1>5
  <2>2. list[i] \in ToSet(list)
    BY <1>1 DEF ToSet
  <2>3. FindID(t, login, z) \in Int
    BY <1>1, <1>2, <2>1
  <2> QED BY <1>4, <2>1, <2>2, <2>3 DEF list
<1>6. CASE \A i \in 1..Len(list) : list[i].login # login
  BY <1>3, <1>4, <1>6 DEF list
<1> QED BY <1>5, <1>6

\* A new user put into the table is one more entry of the function.
LEMMA InsertIsInsert ==
    ASSUME NEW t \in Tables, NEW r \in User, FindID(t, r.login, r.zipcode) < 0,
           Single(t),
           NEW v \in Tables, v = HASMAP_insert(t, r.zipcode, r), Single(v)
    PROVE  Mem(v) = Registry!HASMAP_insert(Mem(t), <<r.login, r.zipcode>>, r.id)
<1> DEFINE new == <<r.login, r.zipcode>>
<1>1. /\ r.login \in Logins /\ r.zipcode \in Zipcodes /\ r.id \in Nat
      /\ new \in Users
  BY DEF User, Users
<1>2. \A z \in Zipcodes :
          ToSet(HASMAP_lookup(v, z)) =
              IF z = r.zipcode THEN {r} \cup ToSet(HASMAP_lookup(t, z))
              ELSE ToSet(HASMAP_lookup(t, z))
  <2> TAKE z \in Zipcodes
  <2>1. HASMAP_lookup(v, z) = IF z = r.zipcode
                              THEN <<r>> \o HASMAP_lookup(t, z)
                              ELSE HASMAP_lookup(t, z)
    BY <1>1, InsertLookup
  <2>2. HASMAP_lookup(t, z) \in Seq(User)
    BY LookupIsSeq
  <2>3. ToSet(<<r>> \o HASMAP_lookup(t, z)) = {r} \cup ToSet(HASMAP_lookup(t, z))
    BY <2>2, Prepended
  <2> QED BY <2>1, <2>3
<1>3. ASSUME NEW u \in Users, u # new
      PROVE  (FindID(v, u[1], u[2]) >= 0 <=> FindID(t, u[1], u[2]) >= 0)
             /\ (FindID(t, u[1], u[2]) >= 0
                    => FindID(v, u[1], u[2]) = FindID(t, u[1], u[2]))
  <2>1. u[1] \in Logins /\ u[2] \in Zipcodes /\ ~(u[1] = r.login /\ u[2] = r.zipcode)
    BY <1>3 DEF Users
  <2> DEFINE In(w, x) == x \in ToSet(HASMAP_lookup(w, u[2])) /\ x.login = u[1]
  <2>2. \A x : In(v, x) <=> In(t, x)
    <3> TAKE x
    <3>1. CASE u[2] = r.zipcode
      <4>1. ToSet(HASMAP_lookup(v, u[2])) = {r} \cup ToSet(HASMAP_lookup(t, u[2]))
        BY <1>2, <2>1, <3>1
      <4>2. r.login # u[1]
        BY <2>1, <3>1
      <4> QED BY <4>1, <4>2
    <3>2. CASE u[2] # r.zipcode
      BY <1>2, <2>1, <3>2
    <3> QED BY <3>1, <3>2
  <2>3. ASSUME NEW w \in {t, v}
        PROVE  /\ \A x : In(w, x) => FindID(w, u[1], u[2]) = x.id /\ x.id >= 0
               /\ FindID(w, u[1], u[2]) >= 0 => \E x : In(w, x)
    BY <2>1, FoundInList
  <2> HIDE DEF In
  <2>4. CASE \E x : In(t, x)
    <3>1. PICK x : In(t, x)
      BY <2>4
    <3>2. FindID(t, u[1], u[2]) = x.id /\ FindID(v, u[1], u[2]) = x.id
      BY <2>2, <2>3, <3>1
    <3> QED BY <3>2
  <2>5. CASE ~ \E x : In(t, x)
    <3>1. ~(FindID(t, u[1], u[2]) >= 0) /\ ~(FindID(v, u[1], u[2]) >= 0)
      BY <2>2, <2>3, <2>5
    <3> QED BY <3>1
  <2> QED BY <2>4, <2>5
<1>4. FindID(v, new[1], new[2]) = r.id /\ r.id >= 0
  <2>1. r \in ToSet(HASMAP_lookup(v, r.zipcode))
    BY <1>1, <1>2
  <2> QED BY <1>1, <2>1, FoundInList
<1>5. {u \in Users : FindID(v, u[1], u[2]) >= 0}
        = {u \in Users : FindID(t, u[1], u[2]) >= 0} \cup {new}
  BY <1>1, <1>3, <1>4
<1> DEFINE D == {u \in Users : FindID(t, u[1], u[2]) >= 0}
<1>6. \A u \in D \cup {new} :
          FindID(v, u[1], u[2]) = IF u = new THEN r.id ELSE FindID(t, u[1], u[2])
  BY <1>1, <1>3, <1>4
<1>7. DOMAIN Mem(t) = D /\ \A u \in D : Mem(t)[u] = FindID(t, u[1], u[2])
  BY DEF Mem
<1>8. new \notin D
  <2>1. new[1] = r.login /\ new[2] = r.zipcode /\ FindID(t, r.login, r.zipcode) \in Int
    BY <1>1, FoundInList
  <2> QED BY <2>1
<1> HIDE DEF new, D
<1>9. Mem(v) = [u \in D \cup {new} |-> FindID(v, u[1], u[2])]
  BY <1>5 DEF Mem, D
<1>10. Mem(v) = [u \in D \cup {new} |-> IF u = new THEN r.id ELSE Mem(t)[u]]
  BY <1>6, <1>7, <1>8, <1>9
<1> QED BY <1>7, <1>10 DEF new, Registry!HASMAP_insert

\* A table that holds the lines of the file, and nothing else, is what Storage
\* loads from them.
LEMMA LoadedIsMem ==
    ASSUME HashMapIInv, phase = "loading", line = Len(usr_reg) + 1
    PROVE  Registry!LoadedMap(BarFile) = Mem(table)
<1> DEFINE user(i) == <<usr_reg[i].login, usr_reg[i].zipcode>>
<1>1. /\ table \in Tables /\ usr_reg \in Seq(User)
      /\ DOMAIN usr_reg = 1..Len(usr_reg)
      /\ \A i \in DOMAIN usr_reg : usr_reg[i] \in User
  BY DEF HashMapIInv, TypeOK, Tables
<1>2. \A i \in DOMAIN usr_reg :
          /\ usr_reg[i].login \in Logins /\ usr_reg[i].zipcode \in Zipcodes
          /\ user(i) \in Users
  <2>1. \A r \in User : r.login \in Logins /\ r.zipcode \in Zipcodes
    BY DEF User
  <2> QED BY <1>1, <2>1 DEF Users
<1>3. ASSUME NEW i \in DOMAIN usr_reg
      PROVE  FindID(table, usr_reg[i].login, usr_reg[i].zipcode) = usr_reg[i].id
             /\ usr_reg[i].id >= 0
  <2>1. usr_reg[i] \in ToSet(HASMAP_lookup(table, usr_reg[i].zipcode))
    BY <1>1 DEF HashMapIInv, MemoryHasFile, List
  <2>2. Single(table)
    BY DEF HashMapIInv, ListsExact, List, Single
  <2> QED BY <1>1, <1>2, <2>1, <2>2, FoundInList
<1>4. ASSUME NEW u \in Users, FindID(table, u[1], u[2]) >= 0
      PROVE  \E i \in DOMAIN usr_reg : u = user(i)
  <2>1. u[1] \in Logins /\ u[2] \in Zipcodes /\ u = <<u[1], u[2]>>
    BY DEF Users
  <2>2. Single(table)
    BY DEF HashMapIInv, ListsExact, List, Single
  <2>3. PICK r \in ToSet(HASMAP_lookup(table, u[2])) : r.login = u[1]
    BY <1>1, <1>4, <2>1, <2>2, FoundInList
  <2>4. PICK k \in DOMAIN List(u[2]) : r = List(u[2])[k]
    BY <2>3 DEF ToSet, List
  <2>5. PICK i \in 1..(line - 1) : List(u[2])[k] = usr_reg[i]
    BY <2>1 DEF HashMapIInv, MemoryHasFile
  <2>6. usr_reg[i].login = u[1] /\ usr_reg[i].zipcode = u[2]
    BY <2>1, <2>3, <2>4, <2>5 DEF HashMapIInv, ListsExact
  <2>7. i \in DOMAIN usr_reg
    BY <1>1, <2>5 DEF HashMapIInv, TypeOK
  <2> QED BY <2>1, <2>6, <2>7
<1>5. /\ DOMAIN BarFile = DOMAIN usr_reg
      /\ \A i \in DOMAIN usr_reg :
            BarFile[i].user = user(i) /\ BarFile[i].id = usr_reg[i].id
  BY DEF BarFile
<1>6. \A i, j \in DOMAIN usr_reg : user(i) = user(j) => i = j
  BY DEF HashMapIInv, FileUnique
<1> DEFINE D == {u \in Users : FindID(table, u[1], u[2]) >= 0}
           E == {BarFile[i].user : i \in DOMAIN BarFile}
           pick(x) == CHOOSE i \in DOMAIN BarFile :
                         /\ BarFile[i].user = x
                         /\ \A j \in DOMAIN BarFile : BarFile[j].user = x => j <= i
<1>7. E = D
  <2>1. ASSUME NEW i \in DOMAIN usr_reg PROVE user(i) \in D
    BY <1>2, <1>3
  <2>2. ASSUME NEW u \in D PROVE \E i \in DOMAIN usr_reg : u = user(i)
    BY <1>4
  <2> HIDE DEF D, user
  <2>3. E = {user(i) : i \in DOMAIN usr_reg}
    BY <1>5
  <2> QED BY <2>1, <2>2, <2>3
<1>8. ASSUME NEW x \in D PROVE BarFile[pick(x)].id = FindID(table, x[1], x[2])
  <2>1. PICK i \in DOMAIN usr_reg : x = user(i)
    BY <1>4
  <2>2. \A j \in DOMAIN usr_reg : BarFile[j].user = x => j = i
    BY <1>5, <1>6, <2>1
  <2>3. i \in DOMAIN BarFile /\ BarFile[i].user = x /\ i <= i
    BY <1>1, <1>5, <2>1
  <2>4. pick(x) = i
    BY <1>5, <2>2, <2>3
  <2> HIDE DEF pick
  <2> QED BY <1>3, <1>5, <2>1, <2>4
<1> HIDE DEF D, pick, E
<1>9. Registry!LoadedMap(BarFile) = [x \in E |-> BarFile[pick(x)].id]
  BY DEF Registry!LoadedMap, E, pick
<1>10. Mem(table) = [x \in D |-> FindID(table, x[1], x[2])]
  BY DEF Mem, D
<1> QED BY <1>7, <1>8, <1>9, <1>10

\* Every step of the table is one of Storage, or none.
LEMMA StorageStep ==
    ASSUME HashMapIInv, HashMapIInv', [Next]_vars
    PROVE  [Registry!StorageNext]_(Registry!storageVars)
<1> DEFINE Same == BarMap' = BarMap /\ BarId' = BarId /\ BarFile' = BarFile
<1>b. /\ BarMap = (IF phase = "serving"
                   THEN [usr \in Stored |-> STORAGE_getID(usr[1], usr[2])]
                   ELSE [usr \in {} |-> 0])
      /\ BarMap' = (IF phase = "serving"
                    THEN [usr \in Stored |-> STORAGE_getID(usr[1], usr[2])]
                    ELSE [usr \in {} |-> 0])'
  BY DEF BarMap, Mem, Users, Stored, STORAGE_getID, FindID
<1>s. ASSUME Same PROVE UNCHANGED Registry!storageVars
  BY <1>s, <1>b DEF Registry!storageVars, BarId, BarFile
<1>t. /\ table \in Tables /\ usr_reg \in Seq(User)
      /\ DOMAIN usr_reg = 1..Len(usr_reg) /\ Len(usr_reg) \in Nat
      /\ DOMAIN BarFile = 1..Len(usr_reg)
      /\ line \in Nat
  BY DEF HashMapIInv, TypeOK, Tables, BarFile
<1>q. ASSUME UNCHANGED <<table, last_id_assigned, usr_reg, phase>>
      PROVE  Same
  BY <1>q DEF BarMap, BarId, BarFile, Mem
<1>d. ASSUME Die PROVE [Registry!StorageNext]_(Registry!storageVars)
  <2>1. /\ BarMap' = [usr \in {} |-> 0] /\ BarId' = 0 /\ BarFile' = BarFile
    BY <1>d DEF Die, BarMap, BarId, BarFile
  <2> QED BY <1>b, <2>1
          DEF Registry!StorageNext, Registry!STORAGE_deleteDatabase, BarId,
             BarFile
<1>1. CASE Start \/ LoadLine
  <2>1. Same
    BY <1>1 DEF Start, LoadLine, BarMap, BarId, BarFile
  <2> QED BY <1>s, <2>1
<1>2. CASE LoadEnd
  <2>1. /\ phase = "loading" /\ phase' = "serving" /\ line = Len(usr_reg) + 1
        /\ last_id_assigned = line - 1
        /\ UNCHANGED <<table, last_id_assigned, usr_reg>>
    BY <1>2, <1>t DEF LoadEnd, HashMapIInv, Phases
  <2>2. BarMap' = Mem(table) /\ BarFile' = BarFile
    BY <2>1 DEF BarMap, BarFile
  <2>3. BarMap' = Registry!LoadedMap(BarFile)
    BY <2>1, <2>2, LoadedIsMem
  <2>4. BarId' = Len(BarFile)
    <3>1. Len(BarFile) = Len(usr_reg)
      BY <1>t DEF BarFile
    <3> QED BY <1>t, <2>1, <3>1 DEF BarId
  <2>5. Registry!STORAGE_loadDatabase
    BY <1>b, <2>2, <2>3, <2>4 DEF Registry!STORAGE_loadDatabase, BarId, BarFile
  <2> QED BY <2>5 DEF Registry!StorageNext
<1>3. CASE LoadTorn
  BY <1>3, <1>d DEF LoadTorn
<1>4. CASE Crash
  BY <1>4, <1>d DEF Crash
<1>5. CASE PowerFailure
  BY <1>5, <1>d DEF PowerFailure
<1>6. ASSUME NEW login \in Logins, NEW zipcode \in Zipcodes,
             STORAGE_addUser(login, zipcode)
      PROVE  Registry!StorageNext
  <2> DEFINE r == [login |-> login, zipcode |-> zipcode,
                   id |-> last_id_assigned + 1]
             usr == <<login, zipcode>>
  <2>1. /\ r \in User /\ r.login = login /\ r.zipcode = zipcode
        /\ r.id = last_id_assigned + 1 /\ usr \in Users
        /\ table' = HASMAP_insert(table, zipcode, r)
        /\ phase = "serving" /\ phase' = "serving"
        /\ last_id_assigned' = last_id_assigned + 1 /\ usr_reg' = usr_reg
        /\ FindID(table, login, zipcode) < 0
    BY <1>6 DEF STORAGE_addUser, STORAGE_getID, FindID, User, Users,
       HashMapIInv,
       TypeOK
  <2> HIDE DEF r
  <2>2. table' \in Tables
    BY DEF HashMapIInv, TypeOK, Tables
  <2>3. Single(table)
    BY DEF HashMapIInv, ListsExact, List, Single
  <2>4. Single(table')
    BY DEF HashMapIInv, ListsExact, List, Single
  <2>5. Mem(table') =
            Registry!HASMAP_insert(Mem(table), <<r.login, r.zipcode>>, r.id)
    <3>1. /\ FindID(table, r.login, r.zipcode) < 0
          /\ table' = HASMAP_insert(table, r.zipcode, r)
      BY <2>1
    <3> QED BY <1>t, <2>1, <2>2, <2>3, <2>4, <3>1, InsertIsInsert
  <2>6. /\ BarMap = Mem(table) /\ BarMap' = Mem(table')
        /\ BarId = last_id_assigned /\ BarId' = last_id_assigned + 1
        /\ BarFile' = BarFile
    BY <2>1 DEF BarMap, BarId, BarFile
  <2>7. BarMap' = Registry!HASMAP_insert(BarMap, usr, BarId + 1)
    BY <2>1, <2>5, <2>6
  <2>8. Registry!STORAGE_addUser(usr)
    BY <1>b, <2>6, <2>7 DEF Registry!STORAGE_addUser, BarId, BarFile
  <2>9. usr \notin DOMAIN BarMap
    <3>1. usr[1] = login /\ usr[2] = zipcode
      OBVIOUS
    <3>2. FindID(table, login, zipcode) \in Int
      BY <1>t, <2>3, FoundInList
    <3>3. DOMAIN Mem(table) = {u \in Users : FindID(table, u[1], u[2]) >= 0}
      BY DEF Mem
    <3> HIDE DEF usr
    <3> QED BY <2>1, <2>6, <3>1, <3>2, <3>3
  <2>10. Registry!STORAGE_getID(usr) < 0
    BY <1>b, <2>9 DEF Registry!STORAGE_getID
  <2> QED BY <2>1, <2>8, <2>10 DEF Registry!StorageNext, Users
<1>7. CASE STORAGE_registerUser
  <2>1. CASE UNCHANGED usr_reg
    <3>1. Same
      BY <1>7, <1>q, <2>1 DEF STORAGE_registerUser
    <3> QED BY <1>s, <3>1
  <2>2. CASE usr_reg' = Append(usr_reg, pending)
    <3> DEFINE usr == <<pending.login, pending.zipcode>>
    <3>1. /\ pending # NoUser /\ phase = "serving" /\ phase' = "serving"
          /\ UNCHANGED <<table, last_id_assigned>>
          /\ pending \in User
      BY <1>7 DEF STORAGE_registerUser, HashMapIInv, TypeOK
    <3>2. /\ pending.login \in Logins /\ pending.zipcode \in Zipcodes
          /\ usr \in Users
      BY <3>1 DEF User, Users
    <3>3. Single(table)
      BY DEF HashMapIInv, ListsExact, List, Single
    <3>4. FindID(table, pending.login, pending.zipcode) = pending.id
          /\ pending.id >= 0
      BY <1>t, <3>1, <3>2, <3>3, FoundInList DEF HashMapIInv, FileUnique, List
    <3>5. /\ BarMap = Mem(table) /\ BarMap' = Mem(table) /\ BarId' = BarId
      BY <3>1 DEF BarMap, BarId
    <3>6. usr \in DOMAIN BarMap /\ BarMap[usr] = pending.id
      <4>1. usr[1] = pending.login /\ usr[2] = pending.zipcode
        OBVIOUS
      <4> HIDE DEF usr
      <4> QED BY <3>2, <3>4, <3>5, <4>1 DEF Mem
    <3>7. BarFile' = Append(BarFile, Registry!Row(usr, pending.id))
      <4> DEFINE Line(r) == [user |-> <<r.login, r.zipcode>>, id |-> r.id]
      <4>1. BarFile = [i \in 1..Len(usr_reg) |-> Line(usr_reg[i])]
        BY <1>t DEF BarFile
      <4>2. BarFile' = [i \in 1..(Len(usr_reg) + 1) |->
                            Line(Append(usr_reg, pending)[i])]
        <5>1. DOMAIN Append(usr_reg, pending) = 1..(Len(usr_reg) + 1)
          BY <1>t, <3>1
        <5> QED BY <2>2, <5>1, Zenon DEF BarFile
      <4>3. Registry!Row(usr, pending.id) = Line(pending)
        BY DEF Registry!Row
      <4> HIDE DEF Line
      <4> QED BY <1>t, <3>1, <4>1, <4>2, <4>3
    <3>8. \E x \in Logins \X Zipcodes :
              /\ x \in DOMAIN BarMap
              /\ BarFile' = Append(BarFile, Registry!Row(x, BarMap[x]))
              /\ UNCHANGED <<BarMap, BarId>>
      <4>1. usr \in Logins \X Zipcodes
        BY <3>2 DEF Users
      <4> HIDE DEF usr
      <4> QED BY <3>5, <3>6, <3>7, <4>1
    <3> QED BY <1>b, <3>8
            DEF Registry!StorageNext, Registry!STORAGE_registerUser, BarId,
               BarFile
  <2> QED BY <1>7, <2>1, <2>2 DEF STORAGE_registerUser
<1>8. CASE UNCHANGED vars
  <2>1. Same
    BY <1>8, <1>q DEF vars
  <2> QED BY <1>s, <2>1
<1> QED BY <1>1, <1>2, <1>3, <1>4, <1>5, <1>6, <1>7, <1>8 DEF Next, Loading

\* A table of buckets with chains of lists, filled line by line, answers what a
\* function from users to identifiers would: whatever is proved of the server
\* with Storage holds of it with this table.
THEOREM StorageImplemented == Spec => ImplementsStorage
<1>1. Init => Registry!StorageInit
  BY DEF Init, Registry!StorageInit
<1>2. HashMapIInv /\ HashMapIInv' /\ [Next]_vars
          => [Registry!StorageNext]_(Registry!storageVars)
  BY StorageStep
<1> QED BY <1>1, <1>2, HashMapInvariant, PTL
        DEF Spec, ImplementsStorage, Registry!StorageSpec
=============================================================================
