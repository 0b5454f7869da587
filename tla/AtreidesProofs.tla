--------------------------- MODULE AtreidesProofs ---------------------------
(***************************************************************************)
(* Proofs about Atreides, for every set of sessions and users, any number  *)
(* of data packets, whatever people type and whichever faults happen.      *)
(***************************************************************************)
EXTENDS Atreides, TLAPS

\* The lock, step by step: the threads between SEM_wait and SEM_signal are at
\* most one, and the semaphore says whether there is one.
LEMMA LockStep ==
    ASSUME TypeOK, Phases, MutualExclusion, Next
    PROVE  MutualExclusion' /\ Phases'
<1> USE DEF MutualExclusion, Phases, Holders, Holding, Alive, Labels, Steps
<1>ty. /\ pc \in [Sessions -> Labels] /\ cli \in [Sessions -> Steps]
       /\ sem_message \in {0, 1} /\ up \in BOOLEAN
  BY DEF TypeOK, ServerTypeOK, ThreadTypeOK, ClientTypeOK
<1>1. ASSUME NEW s \in Sessions, ThreadReads(s)
      PROVE  MutualExclusion' /\ Phases'
  BY <1>ty, <1>1 DEF ThreadReads, serverVars, clientVars
<1>2. ASSUME NEW s \in Sessions, SEM_wait(s) PROVE MutualExclusion' /\ Phases'
  BY <1>ty, <1>2 DEF SEM_wait, clientVars
<1>3. ASSUME NEW s \in Sessions, LOGIN_loginOK(s)
      PROVE  MutualExclusion' /\ Phases'
  BY <1>ty, <1>3 DEF LOGIN_loginOK, Decide, serverVars, clientVars
<1>4. ASSUME NEW s \in Sessions, RegisterUser(s)
      PROVE  MutualExclusion' /\ Phases'
  BY <1>ty, <1>4 DEF RegisterUser, Decide, serverVars, clientVars
<1>5. ASSUME NEW s \in Sessions, CheckSearch(s)
      PROVE  MutualExclusion' /\ Phases'
  BY <1>ty, <1>5 DEF CheckSearch, Decide, serverVars, clientVars
<1>5a. ASSUME NEW s \in Sessions, SendPage(s) PROVE MutualExclusion' /\ Phases'
  BY <1>ty, <1>5a DEF SendPage, serverVars, clientVars
<1>6. ASSUME NEW s \in Sessions, CheckSend(s) PROVE MutualExclusion' /\ Phases'
  BY <1>ty, <1>6 DEF CheckSend, Decide, clientVars
<1>7. ASSUME NEW s \in Sessions, ReceiveChunk(s)
      PROVE  MutualExclusion' /\ Phases'
  BY <1>ty, <1>7 DEF ReceiveChunk, Decide, clientVars
<1>8. ASSUME NEW s \in Sessions, CheckPhoto(s) PROVE MutualExclusion' /\ Phases'
  BY <1>ty, <1>8 DEF CheckPhoto, Decide, serverVars, clientVars
<1>9. ASSUME NEW s \in Sessions, SendChunk(s) PROVE MutualExclusion' /\ Phases'
  BY <1>ty, <1>9 DEF SendChunk, serverVars, clientVars
<1>10. ASSUME NEW s \in Sessions, ReadAck(s) PROVE MutualExclusion' /\ Phases'
  BY <1>ty, <1>10 DEF ReadAck, Return, serverVars, clientVars
<1>11. ASSUME NEW s \in Sessions, CheckQuit(s) PROVE MutualExclusion' /\ Phases'
  BY <1>ty, <1>11 DEF CheckQuit, Return, serverVars, clientVars
<1>12. ASSUME NEW s \in Sessions, CheckOther(s)
       PROVE  MutualExclusion' /\ Phases'
  BY <1>ty, <1>12 DEF CheckOther, Return, serverVars, clientVars
<1>13. ASSUME NEW s \in Sessions, Reply(s) PROVE MutualExclusion' /\ Phases'
  BY <1>ty, <1>13 DEF Reply, After, serverVars, clientVars
<1>14. ASSUME NEW s \in Sessions, Finish(s) PROVE MutualExclusion' /\ Phases'
  BY <1>ty, <1>14 DEF Finish, clientVars
<1>15. ASSUME NEW s \in Sessions, FremenStep(s)
       PROVE  MutualExclusion' /\ Phases'
  <2>1. /\ UNCHANGED <<serverVars, threadVars>>
        /\ cli[s] # "off"
        /\ \E l \in Steps \ {"off"} : ClientStep(s, l)
    BY <1>15 DEF FremenStep, SendLogin, LoginReply, LoginFails, SearchReply,
         SearchMore, WriteChunk, SendVerdict, PhotoReply, ReadChunk, Leaves, ClientStep
  <2> QED BY <1>ty, <2>1 DEF ClientStep, serverVars, threadVars
<1>16. ASSUME NEW s \in Sessions, PersonStep(s)
       PROVE  MutualExclusion' /\ Phases'
  <2>1. ASSUME NEW usr \in Typed, Connect(s, usr)
        PROVE  MutualExclusion' /\ Phases'
    BY <1>ty, <2>1 DEF Connect, ClientStep, serverVars
  <2>2. CASE \A usr \in Typed : ~Connect(s, usr)
    <3>1. /\ UNCHANGED <<serverVars, threadVars>>
          /\ cli[s] # "off"
          /\ \E l \in Steps \ {"off"} : ClientStep(s, l)
      BY <1>16, <2>2 DEF PersonStep, TypeSearch, TypeSend, TypePhoto,
           AtPrompt, Interrupt, Kill, Leaves
    <3> QED BY <1>ty, <3>1 DEF ClientStep, serverVars, threadVars
  <2> QED BY <2>1, <2>2
<1>17. ASSUME Die PROVE MutualExclusion' /\ Phases'
  BY <1>ty, <1>17 DEF Die, clientVars
<1>18. ASSUME Restart PROVE MutualExclusion' /\ Phases'
  BY <1>ty, <1>18 DEF Restart, clientVars, threadVars
<1> HIDE DEF MutualExclusion, Phases
<1> QED
  BY <1>1, <1>2, <1>3, <1>4, <1>5, <1>5a, <1>6, <1>7, <1>8, <1>9, <1>10,
     <1>11, <1>12, <1>13, <1>14, <1>15, <1>16, <1>17, <1>18
  DEF Next, SessionStep, ThreadStep, Sigpipe, Crash, exitAtreides

----------------------------------------------------------------------------
(* Types.                                                                  *)

\* The packets the two sides build are packets, and their arguments users or
\* numbers by their letter.
LEMMA PacketTypes ==
    /\ NoPkt \in Packets
    /\ \A usr \in Users : Pkt("C", usr) \in Packets
    /\ \A n \in Nat, t \in {"0", "O", "S", "L", "F", "D", "I", "R", "P", "Q"} :
          Pkt(t, n) \in Packets
    /\ \A p \in Packets : /\ p.type = "C" => p.arg \in Users
                          /\ p.type # "C" => p.arg \in Nat
  BY DEF NoPkt, Pkt, Packets

\* Writing to a connection, and reading from it, in either direction, leaves
\* sequences of packets.
LEMMA ClientWritesType ==
    ASSUME NetTypeOK, NEW s \in Sessions, NEW p \in Packets, ClientWrites(s, p)
    PROVE  toServer' \in [Sessions -> Seq(Packets)]
<1>1. Append(toServer[s], p) \in Seq(Packets)
  BY DEF NetTypeOK
<1> QED BY <1>1 DEF NetTypeOK, ClientWrites

\* The same for the server's writes.
LEMMA ServerWritesType ==
    ASSUME NetTypeOK, NEW s \in Sessions, NEW p \in Packets, ServerWrites(s, p)
    PROVE  toClient' \in [Sessions -> Seq(Packets)]
<1>1. Append(toClient[s], p) \in Seq(Packets)
  BY DEF NetTypeOK
<1> QED BY <1>1 DEF NetTypeOK, ServerWrites

\* The packet a thread reads is one, and packets remain.
LEMMA ServerTakesType ==
    ASSUME NetTypeOK, NEW s \in Sessions, toServer[s] # <<>>
    PROVE  /\ Head(toServer[s]) \in Packets
           /\ ServerTakes(s) => toServer' \in [Sessions -> Seq(Packets)]
<1>1. Head(toServer[s]) \in Packets /\ Tail(toServer[s]) \in Seq(Packets)
  BY DEF NetTypeOK
<1> QED BY <1>1 DEF NetTypeOK, ServerTakes

\* The packet a client reads is one, and packets remain.
LEMMA TakesType ==
    ASSUME NetTypeOK, NEW s \in Sessions, toClient[s] # <<>>
    PROVE  /\ Head(toClient[s]) \in Packets
           /\ Takes(s) => toClient' \in [Sessions -> Seq(Packets)]
<1>1. Head(toClient[s]) \in Packets /\ Tail(toClient[s]) \in Seq(Packets)
  BY DEF NetTypeOK
<1> QED BY <1>1 DEF NetTypeOK, Takes

\* A handler that decides to write a packet and return a number keeps the
\* types of what it assigns.
LEMMA DecideType ==
    ASSUME ThreadTypeOK, NEW s \in Sessions, NEW p \in Packets, NEW r \in Int,
           Decide(s, p, r)
    PROVE  /\ pc' \in [Sessions -> Labels]
           /\ out' \in [Sessions -> Packets]
           /\ ret' \in [Sessions -> Int]
  BY DEF ThreadTypeOK, Decide, Labels

\* The same for a handler that only returns.
LEMMA ReturnType ==
    ASSUME ThreadTypeOK, NEW s \in Sessions, NEW r \in Int, Return(s, r)
    PROVE  /\ pc' \in [Sessions -> Labels]
           /\ out' \in [Sessions -> Packets]
           /\ ret' \in [Sessions -> Int]
  BY DEF ThreadTypeOK, Return, Labels

\* The indices of a sequence and its elements.
LEMMA SeqElements ==
    ASSUME NEW S, NEW f \in Seq(S)
    PROVE  /\ DOMAIN f = 1 .. Len(f) /\ Len(f) \in Nat
           /\ \A i \in DOMAIN f : i \in Nat /\ f[i] \in S
  OBVIOUS

\* Appending a line to the register file.
LEMMA AppendLine ==
    ASSUME NEW f \in Seq([user : Users, id : Nat]), NEW usr, NEW id,
           NEW g, g = Append(f, Row(usr, id))
    PROVE  /\ DOMAIN f = 1 .. Len(f) /\ Len(f) \in Nat
           /\ DOMAIN g = 1 .. Len(f) + 1 /\ Len(g) = Len(f) + 1
           /\ \A i \in DOMAIN f : g[i] = f[i]
           /\ g[Len(f) + 1] = Row(usr, id)
  OBVIOUS

\* What loading builds, when no user has two lines: the identifier of the one
\* line of each user.
LEMMA LoadedMapLines ==
    ASSUME NEW f \in Seq([user : Users, id : Nat]),
           \A i, j \in DOMAIN f : f[i].user = f[j].user => i = j
    PROVE  /\ DOMAIN LoadedMap(f) = {f[i].user : i \in DOMAIN f}
           /\ \A i \in DOMAIN f : LoadedMap(f)[f[i].user] = f[i].id
           /\ LoadedMap(f) \in [DOMAIN LoadedMap(f) -> Nat]
           /\ DOMAIN LoadedMap(f) \subseteq Users
<1> DEFINE U == {f[i].user : i \in DOMAIN f}
           Last(x, i) == /\ f[i].user = x
                         /\ \A j \in DOMAIN f : f[j].user = x => j <= i
<1>1. DOMAIN f \subseteq Nat /\ \A i \in DOMAIN f : f[i].user \in Users /\ f[i].id \in Nat
  <2>1. \A i \in DOMAIN f : i \in Nat /\ f[i] \in [user : Users, id : Nat]
    BY SeqElements
  <2> QED BY <2>1
<1>2. \A i \in DOMAIN f : Last(f[i].user, i)
  BY <1>1
<1>3. \A i \in DOMAIN f : \A k \in DOMAIN f : Last(f[i].user, k) => k = i
  OBVIOUS
<1>4. LoadedMap(f) = [x \in U |-> f[CHOOSE i \in DOMAIN f : Last(x, i)].id]
  BY DEF LoadedMap
<1>5. \A i \in DOMAIN f : (CHOOSE k \in DOMAIN f : Last(f[i].user, k)) = i
  BY <1>2, <1>3
<1> HIDE DEF Last
<1>6. \A i \in DOMAIN f : LoadedMap(f)[f[i].user] = f[i].id
  BY <1>4, <1>5
<1>7. \A x \in U : LoadedMap(f)[x] \in Nat
  BY <1>6, <1>1
<1> QED BY <1>1, <1>4, <1>6, <1>7

CoreTypesOK ==
    StorageTypeOK /\ ServerTypeOK /\ ThreadTypeOK /\ ClientTypeOK /\ NetTypeOK

\* Every step keeps the types of all but the histories.
LEMMA CoreTypeStep ==
    ASSUME TypeOK, LocalsReady, MutualExclusion, MemoryCoversFile, Next
    PROVE  CoreTypesOK'
<1> USE DEF TypeOK, CoreTypesOK
<1>1. ASSUME NEW s \in Sessions, ThreadReads(s) PROVE CoreTypesOK'
  <2>1. ThreadTypeOK'
    <3>1. CASE toServer[s] # <<>> /\ ServerTakes(s)
      <4>1. Head(toServer[s]) \in Packets
        BY <3>1, ServerTakesType
      <4> QED BY <1>1, <4>1 DEF ThreadReads, ThreadTypeOK, Labels, ServerEof
    <3>2. CASE ServerEof(s)
      BY <1>1, <3>2 DEF ThreadReads, ThreadTypeOK, Labels, ServerEof
    <3> QED BY <1>1, <3>1, <3>2 DEF ThreadReads
  <2>2. NetTypeOK'
    BY <1>1, ServerTakesType DEF ThreadReads, NetTypeOK
  <2>3. StorageTypeOK'
    BY <1>1 DEF ThreadReads, StorageTypeOK, storageVars
  <2>4. ServerTypeOK' /\ ClientTypeOK'
    BY <1>1 DEF ThreadReads, ServerTypeOK, ClientTypeOK, serverVars, clientVars
  <2> QED BY <2>1, <2>2, <2>3, <2>4 DEF CoreTypesOK
<1>2. ASSUME NEW s \in Sessions, SEM_wait(s) PROVE CoreTypesOK'
  <2>1. ThreadTypeOK'
    BY <1>2 DEF SEM_wait, ThreadTypeOK, Labels
  <2>2. NetTypeOK'
    BY <1>2 DEF SEM_wait, NetTypeOK, net
  <2>3. StorageTypeOK'
    BY <1>2 DEF SEM_wait, StorageTypeOK, storageVars
  <2>4. ServerTypeOK' /\ ClientTypeOK'
    BY <1>2 DEF SEM_wait, ServerTypeOK, ClientTypeOK, serverVars, clientVars
  <2> QED BY <2>1, <2>2, <2>3, <2>4 DEF CoreTypesOK
<1>3. ASSUME NEW s \in Sessions, LOGIN_loginOK(s) PROVE CoreTypesOK'
  <2>1. ThreadTypeOK'
    <3> PICK usr \in Parses(s) :
          \/ /\ STORAGE_getID(usr) >= 0
             /\ Decide(s, Pkt("O", STORAGE_getID(usr)), STORAGE_getID(usr))
             /\ UNCHANGED <<storageVars, login>>
          \/ /\ STORAGE_getID(usr) < 0
             /\ STORAGE_addUser(usr)
             /\ login' = [login EXCEPT ![s] = usr]
             /\ ret' = [ret EXCEPT ![s] = last_id_assigned']
             /\ pc' = [pc EXCEPT ![s] = "register"]
             /\ UNCHANGED out
      BY <1>3 DEF LOGIN_loginOK
    <3>1. usr \in Users
      BY <1>3, PacketTypes, UsersAssumption
      DEF LOGIN_loginOK, Parses, ThreadTypeOK
    <3>2. UNCHANGED <<pkt, u, left>>
      BY <1>3 DEF LOGIN_loginOK
    <3>3. CASE /\ Decide(s, Pkt("O", STORAGE_getID(usr)), STORAGE_getID(usr))
               /\ STORAGE_getID(usr) >= 0
               /\ UNCHANGED login
      <4>1. STORAGE_getID(usr) \in Nat
        BY <3>3 DEF STORAGE_getID, StorageTypeOK
      <4>2. Pkt("O", STORAGE_getID(usr)) \in Packets
        BY <4>1, PacketTypes
      <4> QED BY <3>2, <3>3, <4>1, <4>2, DecideType DEF ThreadTypeOK
    <3>4. CASE /\ STORAGE_addUser(usr)
               /\ login' = [login EXCEPT ![s] = usr]
               /\ ret' = [ret EXCEPT ![s] = last_id_assigned']
               /\ pc' = [pc EXCEPT ![s] = "register"]
               /\ UNCHANGED out
      <4>1. last_id_assigned' \in Int
        BY <3>4 DEF STORAGE_addUser, StorageTypeOK
      <4> QED BY <3>1, <3>2, <3>4, <4>1 DEF ThreadTypeOK, Labels
    <3> QED BY <3>3, <3>4
  <2>2. NetTypeOK'
    BY <1>3 DEF LOGIN_loginOK, NetTypeOK, net
  <2>3. StorageTypeOK'
    BY <1>3, UsersAssumption, PacketTypes DEF LOGIN_loginOK, StorageTypeOK,
       storageVars, Parses, ThreadTypeOK, STORAGE_addUser, HASMAP_insert
  <2>4. ServerTypeOK' /\ ClientTypeOK'
    BY <1>3 DEF LOGIN_loginOK, ServerTypeOK, ClientTypeOK, serverVars,
       clientVars
  <2> QED BY <2>1, <2>2, <2>3, <2>4 DEF CoreTypesOK
<1>4. ASSUME NEW s \in Sessions, RegisterUser(s) PROVE CoreTypesOK'
  <2>1. ThreadTypeOK'
    <3>1. ret[s] \in Nat /\ Pkt("O", ret[s]) \in Packets
      BY <1>4, PacketTypes DEF RegisterUser, LocalsReady, StorageTypeOK
    <3> QED BY <1>4, <3>1, DecideType DEF RegisterUser, ThreadTypeOK
  <2>2. NetTypeOK'
    BY <1>4 DEF RegisterUser, NetTypeOK, net
  <2>3. StorageTypeOK'
    <3>1. Row(login[s], ret[s]) \in [user : Users, id : Nat]
      BY <1>4 DEF RegisterUser, LocalsReady, StorageTypeOK, Row
    <3>2. Append(usr_reg, Row(login[s], ret[s])) \in Seq([user : Users, id : Nat])
      BY <3>1 DEF StorageTypeOK
    <3> QED BY <1>4, <3>2 DEF RegisterUser, STORAGE_registerUser, StorageTypeOK
  <2>4. ServerTypeOK' /\ ClientTypeOK'
    BY <1>4 DEF RegisterUser, ServerTypeOK, ClientTypeOK, serverVars, clientVars
  <2> QED BY <2>1, <2>2, <2>3, <2>4 DEF CoreTypesOK
<1>5. ASSUME NEW s \in Sessions, CheckSearch(s) PROVE CoreTypesOK'
  <2>1. ThreadTypeOK'
    <3>1. PICK a \in Answers : /\ Decide(s, Pkt("L", a.reads), 1)
                               /\ left' = [left EXCEPT ![s] = a.pages - 1]
      BY <1>5 DEF CheckSearch
    <3>2. a.reads \in Nat /\ a.pages - 1 \in Nat
      BY AnswersAssumption
    <3>3. Pkt("L", a.reads) \in Packets
      BY <3>2, PacketTypes
    <3>4. UNCHANGED <<pkt, u, login>>
      BY <1>5 DEF CheckSearch
    <3> QED BY <3>1, <3>2, <3>3, <3>4, DecideType DEF ThreadTypeOK
  <2>2. NetTypeOK'
    BY <1>5 DEF CheckSearch, NetTypeOK, net
  <2>3. StorageTypeOK'
    BY <1>5 DEF CheckSearch, StorageTypeOK, storageVars
  <2>4. ServerTypeOK' /\ ClientTypeOK'
    BY <1>5 DEF CheckSearch, ServerTypeOK, ClientTypeOK, serverVars, clientVars
  <2> QED BY <2>1, <2>2, <2>3, <2>4 DEF CoreTypesOK
<1>5a. ASSUME NEW s \in Sessions, SendPage(s) PROVE CoreTypesOK'
  <2>1. ThreadTypeOK'
    BY <1>5a DEF SendPage, ThreadTypeOK, Labels, LocalsReady
  <2>2. NetTypeOK'
    BY <1>5a, ServerWritesType, PacketTypes DEF SendPage, NetTypeOK, net
  <2>3. StorageTypeOK'
    BY <1>5a DEF SendPage, StorageTypeOK, storageVars
  <2>4. ServerTypeOK' /\ ClientTypeOK'
    BY <1>5a DEF SendPage, ServerTypeOK, ClientTypeOK, serverVars, clientVars
  <2> QED BY <2>1, <2>2, <2>3, <2>4 DEF CoreTypesOK
<1>6. ASSUME NEW s \in Sessions, CheckSend(s) PROVE CoreTypesOK'
  <2>1. ThreadTypeOK'
    <3>1. Pkt("R", 0) \in Packets
      BY PacketTypes
    <3>2. CASE Decide(s, Pkt("R", 0), -1) /\ UNCHANGED left
      BY <1>6, <3>1, <3>2, DecideType DEF CheckSend, ThreadTypeOK
    <3>3. CASE /\ left' = [left EXCEPT ![s] = Chunks]
               /\ pc' = [pc EXCEPT ![s] = "recv"]
               /\ UNCHANGED <<out, ret>>
      BY <1>6, <3>3, ChunksAssumption DEF CheckSend, ThreadTypeOK, Labels
    <3> QED BY <1>6, <3>2, <3>3 DEF CheckSend
  <2>2. NetTypeOK'
    BY <1>6 DEF CheckSend, NetTypeOK, net
  <2>3. StorageTypeOK'
    BY <1>6 DEF CheckSend, StorageTypeOK, storageVars
  <2>4. ServerTypeOK' /\ ClientTypeOK'
    <3>1. u[s] \in Nat
      BY DEF ThreadTypeOK
    <3> QED BY <1>6, <3>1
            DEF CheckSend, ServerTypeOK, ClientTypeOK, clientVars
  <2> QED BY <2>1, <2>2, <2>3, <2>4 DEF CoreTypesOK
<1>7. ASSUME NEW s \in Sessions, ReceiveChunk(s) PROVE CoreTypesOK'
  <2>1. ThreadTypeOK'
    <3>1. left' \in [Sessions -> Nat] /\ UNCHANGED <<pkt, u, login>>
      BY <1>7 DEF ReceiveChunk, ThreadTypeOK, LocalsReady
    <3>2. CASE Decide(s, Pkt("I", 0), 1) \/ Decide(s, Pkt("R", 0), -1)
      BY <3>1, <3>2, PacketTypes, DecideType DEF ThreadTypeOK
    <3>3. CASE /\ UNCHANGED <<out, ret>>
               /\ \E l \in {"recv", "spoilt"} : pc' = [pc EXCEPT ![s] = l]
      BY <3>1, <3>3 DEF ThreadTypeOK, Labels
    <3> QED BY <1>7, <3>2, <3>3 DEF ReceiveChunk
  <2>2. NetTypeOK'
    BY <1>7, ServerTakesType DEF ReceiveChunk, NetTypeOK
  <2>3. StorageTypeOK'
    BY <1>7 DEF ReceiveChunk, StorageTypeOK, storageVars
  <2>4. ServerTypeOK' /\ ClientTypeOK'
    BY <1>7 DEF ReceiveChunk, ServerTypeOK, ClientTypeOK, serverVars, clientVars
  <2> QED BY <2>1, <2>2, <2>3, <2>4 DEF CoreTypesOK
<1>8. ASSUME NEW s \in Sessions, CheckPhoto(s) PROVE CoreTypesOK'
  <2>1. ThreadTypeOK'
    <3>1. left' \in [Sessions -> Nat] /\ UNCHANGED <<pkt, u, login>>
      BY <1>8, ChunksAssumption DEF CheckPhoto, ThreadTypeOK
    <3>2. Decide(s, Pkt("F", 1), 0) \/ Decide(s, Pkt("F", 0), -1)
      BY <1>8 DEF CheckPhoto
    <3> QED BY <3>1, <3>2, PacketTypes, DecideType DEF ThreadTypeOK
  <2>2. NetTypeOK'
    BY <1>8 DEF CheckPhoto, NetTypeOK, net
  <2>3. StorageTypeOK'
    BY <1>8 DEF CheckPhoto, StorageTypeOK, storageVars
  <2>4. ServerTypeOK' /\ ClientTypeOK'
    BY <1>8 DEF CheckPhoto, ServerTypeOK, ClientTypeOK, serverVars, clientVars
  <2> QED BY <2>1, <2>2, <2>3, <2>4 DEF CoreTypesOK
<1>9. ASSUME NEW s \in Sessions, SendChunk(s) PROVE CoreTypesOK'
  <2>1. ThreadTypeOK'
    BY <1>9 DEF SendChunk, ThreadTypeOK, Labels, LocalsReady
  <2>2. NetTypeOK'
    BY <1>9, ServerWritesType, PacketTypes DEF SendChunk, NetTypeOK, net
  <2>3. StorageTypeOK'
    BY <1>9 DEF SendChunk, StorageTypeOK, storageVars
  <2>4. ServerTypeOK' /\ ClientTypeOK'
    BY <1>9 DEF SendChunk, ServerTypeOK, ClientTypeOK, serverVars, clientVars
  <2> QED BY <2>1, <2>2, <2>3, <2>4 DEF CoreTypesOK
<1>10. ASSUME NEW s \in Sessions, ReadAck(s) PROVE CoreTypesOK'
  <2>1. ThreadTypeOK'
    <3>1. \E r \in {1, -1} : Return(s, r)
      BY <1>10 DEF ReadAck
    <3> QED BY <1>10, <3>1, ReturnType DEF ReadAck, ThreadTypeOK
  <2>2. NetTypeOK'
    BY <1>10, ServerTakesType DEF ReadAck, NetTypeOK
  <2>3. StorageTypeOK'
    BY <1>10 DEF ReadAck, StorageTypeOK, storageVars
  <2>4. ServerTypeOK' /\ ClientTypeOK'
    BY <1>10 DEF ReadAck, ServerTypeOK, ClientTypeOK, serverVars, clientVars
  <2> QED BY <2>1, <2>2, <2>3, <2>4 DEF CoreTypesOK
<1>11. ASSUME NEW s \in Sessions, CheckQuit(s) PROVE CoreTypesOK'
  <2>1. ThreadTypeOK'
    BY <1>11 DEF CheckQuit, ThreadTypeOK, Labels, Return
  <2>2. NetTypeOK'
    BY <1>11 DEF CheckQuit, NetTypeOK, net
  <2>3. StorageTypeOK'
    BY <1>11 DEF CheckQuit, StorageTypeOK, storageVars
  <2>4. ServerTypeOK' /\ ClientTypeOK'
    BY <1>11 DEF CheckQuit, ServerTypeOK, ClientTypeOK, serverVars, clientVars
  <2> QED BY <2>1, <2>2, <2>3, <2>4 DEF CoreTypesOK
<1>12. ASSUME NEW s \in Sessions, CheckOther(s) PROVE CoreTypesOK'
  <2>1. ThreadTypeOK'
    BY <1>12 DEF CheckOther, ThreadTypeOK, Labels, Return
  <2>2. NetTypeOK'
    BY <1>12 DEF CheckOther, NetTypeOK, net
  <2>3. StorageTypeOK'
    BY <1>12 DEF CheckOther, StorageTypeOK, storageVars
  <2>4. ServerTypeOK' /\ ClientTypeOK'
    BY <1>12 DEF CheckOther, ServerTypeOK, ClientTypeOK, serverVars, clientVars
  <2> QED BY <2>1, <2>2, <2>3, <2>4 DEF CoreTypesOK
<1>13. ASSUME NEW s \in Sessions, Reply(s) PROVE CoreTypesOK'
  <2>1. ThreadTypeOK'
    BY <1>13, PacketTypes DEF Reply, After, ThreadTypeOK, Labels
  <2>2. NetTypeOK'
    BY <1>13, ServerWritesType DEF Reply, NetTypeOK, net, ThreadTypeOK
  <2>3. StorageTypeOK'
    BY <1>13 DEF Reply, StorageTypeOK, storageVars
  <2>4. ServerTypeOK' /\ ClientTypeOK'
    BY <1>13 DEF Reply, ServerTypeOK, ClientTypeOK, serverVars, clientVars
  <2> QED BY <2>1, <2>2, <2>3, <2>4 DEF CoreTypesOK
<1>14. ASSUME NEW s \in Sessions, Finish(s) PROVE CoreTypesOK'
  <2>1. ThreadTypeOK'
    BY <1>14 DEF Finish, ThreadTypeOK, Labels
  <2>2. NetTypeOK'
    BY <1>14 DEF Finish, NetTypeOK, net
  <2>3. StorageTypeOK'
    BY <1>14 DEF Finish, StorageTypeOK, storageVars
  <2>4. ServerTypeOK' /\ ClientTypeOK'
    BY <1>14 DEF Finish, ServerTypeOK, ClientTypeOK, serverVars, clientVars,
       ThreadTypeOK, Holders, Holding, MutualExclusion
  <2> QED BY <2>1, <2>2, <2>3, <2>4 DEF CoreTypesOK
<1>15. ASSUME NEW s \in Sessions, SendLogin(s) PROVE CoreTypesOK'
  <2>1. ClientTypeOK'
    BY <1>15 DEF SendLogin, ClientTypeOK, ClientStep, Steps
  <2>2. NetTypeOK'
    <3>1. Pkt("C", user[s]) \in Packets
      BY <1>15, PacketTypes DEF SendLogin, LocalsReady
    <3> QED BY <1>15, <3>1, ClientWritesType DEF SendLogin, NetTypeOK
  <2>3. StorageTypeOK' /\ ServerTypeOK' /\ ThreadTypeOK'
    BY <1>15 DEF SendLogin, StorageTypeOK, ServerTypeOK, ThreadTypeOK,
       storageVars, serverVars, threadVars
  <2> QED BY <2>1, <2>2, <2>3 DEF CoreTypesOK
<1>16. ASSUME NEW s \in Sessions, LoginReply(s) PROVE CoreTypesOK'
  <2>1. ClientTypeOK'
    <3>1. CASE toClient[s] # <<>> /\ Takes(s)
      <4> DEFINE p == Head(toClient[s])
      <4>1. p.type = "O" => p.arg \in Nat
        BY <3>1, TakesType, PacketTypes
      <4>2. usr_id' = [usr_id EXCEPT ![s] =
                         IF p.type = "O" /\ p.arg > 0 THEN p.arg ELSE @]
        BY <1>16, <3>1 DEF LoginReply, ClientEof
      <4> HIDE DEF p
      <4> QED BY <1>16, <4>1, <4>2 DEF LoginReply, ClientTypeOK, ClientStep,
                 Steps
    <3>2. CASE ClientEof(s)
      <4>1. user[s] \in Users /\ Leading[user[s]] \in Int
        BY <1>16, LeadingAssumption DEF LoginReply, LocalsReady
      <4>2. usr_id' = [usr_id EXCEPT ![s] =
                         IF Leading[user[s]] > 0 THEN Leading[user[s]] ELSE @]
        BY <1>16, <3>2 DEF LoginReply, ClientEof
      <4> QED BY <1>16, <4>1, <4>2 DEF LoginReply, ClientTypeOK, ClientStep,
                Steps
    <3> QED BY <1>16, <3>1, <3>2 DEF LoginReply
  <2>2. NetTypeOK'
    BY <1>16, TakesType DEF LoginReply, NetTypeOK, net
  <2>3. StorageTypeOK' /\ ServerTypeOK' /\ ThreadTypeOK'
    BY <1>16 DEF LoginReply, StorageTypeOK, ServerTypeOK, ThreadTypeOK,
       storageVars, serverVars, threadVars
  <2> QED BY <2>1, <2>2, <2>3 DEF CoreTypesOK
<1>17. ASSUME NEW s \in Sessions, SearchReply(s) PROVE CoreTypesOK'
  <2>1. ClientTypeOK'
    <3>1. \E l \in {"idle", "more", "lost"} : ClientStep(s, l)
      BY <1>17 DEF SearchReply
    <3>2. UNCHANGED todo \/ \E n \in Nat : todo' = [todo EXCEPT ![s] = n]
      <4>1. CASE toClient[s] # <<>> /\ ~UNCHANGED todo
        <5>1. /\ Next1(s) = Head(toClient[s]) /\ Next1(s).arg > 1
              /\ Next1(s).type = "L"
              /\ todo' = [todo EXCEPT ![s] = Next1(s).arg - 1]
          BY <1>17, <4>1 DEF SearchReply, ClientEof, Next1
        <5>2. Next1(s).arg - 1 \in Nat
          BY <4>1, <5>1, TakesType, PacketTypes
        <5> QED BY <5>1, <5>2
      <4> QED BY <1>17, <4>1 DEF SearchReply, ClientEof
    <3>3. UNCHANGED <<user, usr_id>>
      BY <1>17 DEF SearchReply
    <3> QED BY <3>1, <3>2, <3>3 DEF ClientTypeOK, ClientStep, Steps
  <2>2. NetTypeOK'
    BY <1>17, TakesType DEF SearchReply, NetTypeOK, net
  <2>3. StorageTypeOK' /\ ServerTypeOK' /\ ThreadTypeOK'
    BY <1>17 DEF SearchReply, StorageTypeOK, ServerTypeOK, ThreadTypeOK,
       storageVars, serverVars, threadVars
  <2> QED BY <2>1, <2>2, <2>3 DEF CoreTypesOK
<1>17a. ASSUME NEW s \in Sessions, SearchMore(s) PROVE CoreTypesOK'
  <2>1. ClientTypeOK'
    <3>1. todo[s] \in Nat /\ todo[s] >= 1
      BY <1>17a DEF SearchMore, ClientTypeOK, LocalsReady
    <3>2. \E l \in {"idle", "more", "lost"} : ClientStep(s, l)
      BY <1>17a DEF SearchMore
    <3>3. UNCHANGED todo \/ todo' = [todo EXCEPT ![s] = @ - 1]
      BY <1>17a DEF SearchMore
    <3>4. UNCHANGED <<user, usr_id>>
      BY <1>17a DEF SearchMore
    <3> QED BY <3>1, <3>2, <3>3, <3>4 DEF ClientTypeOK, ClientStep, Steps
  <2>2. NetTypeOK'
    BY <1>17a, TakesType DEF SearchMore, NetTypeOK, net
  <2>3. StorageTypeOK' /\ ServerTypeOK' /\ ThreadTypeOK'
    BY <1>17a DEF SearchMore, StorageTypeOK, ServerTypeOK, ThreadTypeOK,
       storageVars, serverVars, threadVars
  <2> QED BY <2>1, <2>2, <2>3 DEF CoreTypesOK
<1>18. ASSUME NEW s \in Sessions, WriteChunk(s) PROVE CoreTypesOK'
  <2>1. ClientTypeOK'
    BY <1>18 DEF WriteChunk, ClientTypeOK, ClientStep, Steps, LocalsReady
  <2>2. NetTypeOK'
    BY <1>18, ClientWritesType, PacketTypes DEF WriteChunk, NetTypeOK, net
  <2>3. StorageTypeOK' /\ ServerTypeOK' /\ ThreadTypeOK'
    BY <1>18 DEF WriteChunk, StorageTypeOK, ServerTypeOK, ThreadTypeOK,
       storageVars, serverVars, threadVars
  <2> QED BY <2>1, <2>2, <2>3 DEF CoreTypesOK
<1>19. ASSUME NEW s \in Sessions, SendVerdict(s) PROVE CoreTypesOK'
  <2>1. ClientTypeOK'
    BY <1>19 DEF SendVerdict, ClientTypeOK, ClientStep, Steps
  <2>2. NetTypeOK'
    BY <1>19, TakesType DEF SendVerdict, NetTypeOK, net
  <2>3. StorageTypeOK' /\ ServerTypeOK' /\ ThreadTypeOK'
    BY <1>19 DEF SendVerdict, StorageTypeOK, ServerTypeOK, ThreadTypeOK,
       storageVars, serverVars, threadVars
  <2> QED BY <2>1, <2>2, <2>3 DEF CoreTypesOK
<1>20. ASSUME NEW s \in Sessions, PhotoReply(s) PROVE CoreTypesOK'
  <2>1. ClientTypeOK'
    BY <1>20, ChunksAssumption DEF PhotoReply, ClientTypeOK, ClientStep, Steps
  <2>2. NetTypeOK'
    BY <1>20, TakesType, ClientWritesType, PacketTypes DEF PhotoReply,
       NetTypeOK, net
  <2>3. StorageTypeOK' /\ ServerTypeOK' /\ ThreadTypeOK'
    BY <1>20 DEF PhotoReply, StorageTypeOK, ServerTypeOK, ThreadTypeOK,
       storageVars, serverVars, threadVars
  <2> QED BY <2>1, <2>2, <2>3 DEF CoreTypesOK
<1>21. ASSUME NEW s \in Sessions, ReadChunk(s) PROVE CoreTypesOK'
  <2>1. ClientTypeOK'
    <3>1. todo[s] \in Nat /\ todo[s] >= 1
      BY <1>21 DEF ReadChunk, ClientTypeOK, LocalsReady
    <3>2. \E l \in {"idle", "download", "spoilt"} : ClientStep(s, l)
      BY <1>21 DEF ReadChunk
    <3>3. todo' = [todo EXCEPT ![s] = @ - 1] /\ UNCHANGED <<user, usr_id>>
      BY <1>21 DEF ReadChunk
    <3> QED BY <3>1, <3>2, <3>3 DEF ClientTypeOK, ClientStep, Steps
  <2>2. NetTypeOK'
    BY <1>21, TakesType, ClientWritesType, PacketTypes DEF ReadChunk,
       NetTypeOK, net
  <2>3. StorageTypeOK' /\ ServerTypeOK' /\ ThreadTypeOK'
    BY <1>21 DEF ReadChunk, StorageTypeOK, ServerTypeOK, ThreadTypeOK,
       storageVars, serverVars, threadVars
  <2> QED BY <2>1, <2>2, <2>3 DEF CoreTypesOK
<1>22. ASSUME NEW s \in Sessions, Leaves(s),
              ClientWrites(s, Pkt("Q", 0)) \/ UNCHANGED toServer
       PROVE  CoreTypesOK'
  <2>1. ClientTypeOK'
    BY <1>22 DEF Leaves, ClientTypeOK, ClientStep, Steps
  <2>2. toServer' \in [Sessions -> Seq(Packets)]
    BY <1>22, PacketTypes, ClientWritesType DEF NetTypeOK
  <2>3. toClient' \in [Sessions -> Seq(Packets)]
    BY <1>22 DEF Leaves, NetTypeOK
  <2> QED BY <1>22, <2>1, <2>2, <2>3 DEF Leaves, NetTypeOK, StorageTypeOK,
            storageVars, ServerTypeOK, serverVars, ThreadTypeOK, threadVars
<1>23. ASSUME NEW s \in Sessions, LoginFails(s) PROVE CoreTypesOK'
  BY <1>23, <1>22 DEF LoginFails
<1>24. ASSUME NEW s \in Sessions, PersonStep(s) PROVE CoreTypesOK'
  <2>1. ASSUME NEW usr \in Typed, Connect(s, usr) PROVE CoreTypesOK'
    <3>1. ThreadTypeOK' /\ ClientTypeOK'
      BY <2>1, UsersAssumption
      DEF Connect, ThreadTypeOK, ClientTypeOK, ClientStep, Labels, Steps
    <3> QED BY <2>1, <3>1 DEF Connect, StorageTypeOK, storageVars,
              ServerTypeOK, serverVars, NetTypeOK, net
  <2>2. CASE TypeSearch(s) \/ TypeSend(s) \/ \E id \in PhotoIds : TypePhoto(s, id)
    <3>1. ClientTypeOK'
      BY <2>2, ChunksAssumption
      DEF TypeSearch, TypeSend, TypePhoto, ClientTypeOK, ClientStep, Steps
    <3>2. NetTypeOK'
      <4>1. \E p \in Packets : ClientWrites(s, p)
        BY <2>2, PacketTypes, PhotoIdsAssumption
        DEF TypeSearch, TypeSend, TypePhoto
      <4> QED BY <2>2, <4>1, ClientWritesType
              DEF TypeSearch, TypeSend, TypePhoto, NetTypeOK
    <3> QED BY <2>2, <3>1, <3>2 DEF TypeSearch, TypeSend, TypePhoto,
              StorageTypeOK, storageVars, ServerTypeOK, serverVars,
              ThreadTypeOK, threadVars
  <2>3. CASE Interrupt(s) \/ Kill(s)
    BY <2>3, <1>22 DEF Interrupt, Kill
  <2> QED BY <1>24, <2>1, <2>2, <2>3 DEF PersonStep
<1>25. ASSUME Die
       PROVE  StorageTypeOK' /\ ServerTypeOK' /\ ThreadTypeOK' /\ ClientTypeOK'
  <2>1. StorageTypeOK'
    BY <1>25 DEF Die, STORAGE_deleteDatabase, StorageTypeOK
  <2>2. ThreadTypeOK'
    BY <1>25, PacketTypes DEF Die, ThreadTypeOK, Labels
  <2>3. ServerTypeOK' /\ ClientTypeOK'
    BY <1>25 DEF Die, ServerTypeOK, ClientTypeOK, clientVars
  <2> QED BY <2>1, <2>2, <2>3
<1>26. ASSUME Die, toClient' \in [Sessions -> Seq(Packets)] PROVE CoreTypesOK'
  <2>1. NetTypeOK'
    BY <1>26 DEF Die, NetTypeOK
  <2> QED BY <1>25, <1>26, <2>1
<1>27. ASSUME exitAtreides PROVE CoreTypesOK'
  <2>1. \A s \in Sessions : Append(toClient[s], Pkt("Q", 0)) \in Seq(Packets)
    <3>1. Pkt("Q", 0) \in Packets
      BY PacketTypes
    <3> QED BY <3>1 DEF NetTypeOK
  <2>2. toClient' \in [Sessions -> Seq(Packets)]
    BY <1>27, <2>1 DEF exitAtreides, NetTypeOK
  <2> QED BY <1>26, <1>27, <2>2 DEF exitAtreides
<1>28. ASSUME Restart PROVE CoreTypesOK'
  <2>1. StorageTypeOK'
    <3>1. /\ map' = LoadedMap(usr_reg)
          /\ last_id_assigned' = Len(usr_reg)
          /\ usr_reg' = usr_reg
      BY <1>28 DEF Restart, STORAGE_loadDatabase
    <3>2. usr_reg \in Seq([user : Users, id : Nat])
      BY DEF StorageTypeOK
    <3>3. /\ LoadedMap(usr_reg) \in [DOMAIN LoadedMap(usr_reg) -> Nat]
          /\ DOMAIN LoadedMap(usr_reg) \subseteq Users
      BY <3>2, LoadedMapLines DEF MemoryCoversFile
    <3>4. Len(usr_reg) \in Nat
      BY <3>2
    <3> QED BY <3>1, <3>2, <3>3, <3>4 DEF StorageTypeOK
  <2> QED BY <1>28, <2>1 DEF Restart, ServerTypeOK, ThreadTypeOK, threadVars,
            ClientTypeOK, clientVars, NetTypeOK, net
<1>29. ASSUME NEW s \in Sessions, ThreadStep(s) \/ SEM_wait(s)
       PROVE  CoreTypesOK'
  BY <1>29, <1>1, <1>2, <1>3, <1>4, <1>5, <1>5a, <1>6, <1>7, <1>8, <1>9, <1>10,
     <1>11, <1>12, <1>13, <1>14 DEF ThreadStep
<1>30. ASSUME NEW s \in Sessions, FremenStep(s) PROVE CoreTypesOK'
  BY <1>30, <1>15, <1>16, <1>17, <1>17a, <1>18, <1>19, <1>20, <1>21, <1>23
  DEF FremenStep
<1>31. ASSUME (\E s \in Sessions : Sigpipe(s)) \/ Crash PROVE CoreTypesOK'
  <2>1. Die /\ UNCHANGED toClient
    BY <1>31 DEF Sigpipe, Crash
  <2> QED BY <2>1, <1>26 DEF NetTypeOK
<1> QED
  BY <1>24, <1>27, <1>28, <1>29, <1>30, <1>31 DEF Next, SessionStep

\* The histories are sets of sessions.
LEMMA HistoryTypeStep ==
    ASSUME HistoryTypeOK, Next
    PROVE  HistoryTypeOK'
<1> USE DEF HistoryTypeOK, history
<1>1. ASSUME NEW s \in Sessions, ThreadStep(s) \/ SEM_wait(s)
      PROVE  HistoryTypeOK'
  <2>1. CASE CheckSearch(s)
    BY <2>1 DEF CheckSearch
  <2>2. CASE ~CheckSearch(s)
    BY <1>1, <2>2 DEF ThreadStep, ThreadReads, SEM_wait, LOGIN_loginOK,
         RegisterUser, SendPage, CheckSend, ReceiveChunk, CheckPhoto,
         SendChunk, ReadAck, CheckQuit, CheckOther, Reply, Finish
  <2> QED BY <2>1, <2>2
<1>2. ASSUME NEW s \in Sessions, FremenStep(s) PROVE HistoryTypeOK'
  BY <1>2 DEF FremenStep, SendLogin, LoginReply, LoginFails, Leaves,
       SearchReply, SearchMore, WriteChunk, SendVerdict, PhotoReply, ReadChunk
<1>3. ASSUME NEW s \in Sessions, PersonStep(s) PROVE HistoryTypeOK'
  BY <1>3 DEF PersonStep, Connect, TypeSearch, TypeSend, TypePhoto,
       Interrupt, Kill, Leaves
<1>4. CASE Die \/ Restart
  BY <1>4 DEF Die, Restart
<1> QED
  BY <1>1, <1>2, <1>3, <1>4 DEF Next, SessionStep, Sigpipe, Crash,
       exitAtreides

\* Every step keeps the types.
LEMMA TypeStep ==
    ASSUME TypeOK, LocalsReady, MutualExclusion, MemoryCoversFile, Next
    PROVE  TypeOK'
  BY CoreTypeStep, HistoryTypeStep DEF TypeOK, CoreTypesOK

----------------------------------------------------------------------------
(* The locals of the handlers and of the clients.                          *)

\* Every step keeps the counted locals and the parsed users in order.
LEMMA ReadyStep ==
    ASSUME TypeOK, LocalsReady, Phases, MutualExclusion, Next
    PROVE  LocalsReady'
<1> USE DEF LocalsReady, Pkt
<1>ty. /\ pc \in [Sessions -> Labels] /\ left \in [Sessions -> Nat]
       /\ cli \in [Sessions -> Steps] /\ todo \in [Sessions -> Nat]
       /\ login \in [Sessions -> Users \cup {NoUser}]
       /\ user \in [Sessions -> Users \cup {NoUser}]
       /\ out \in [Sessions -> Packets]
       /\ ret \in [Sessions -> Int] /\ last_id_assigned \in Nat
  BY DEF TypeOK, ThreadTypeOK, ClientTypeOK, StorageTypeOK
<1>1. ASSUME NEW s \in Sessions, ThreadReads(s) PROVE LocalsReady'
  BY <1>ty, <1>1
  DEF ThreadReads, storageVars, clientVars
<1>2. ASSUME NEW s \in Sessions, SEM_wait(s) PROVE LocalsReady'
  BY <1>ty, <1>2
  DEF SEM_wait, storageVars, clientVars
<1>3. ASSUME NEW s \in Sessions, LOGIN_loginOK(s) PROVE LocalsReady'
  <2>1. \A t \in Sessions \ {s} : pc[t] # "register"
    BY <1>3 DEF LOGIN_loginOK, MutualExclusion, Holders, Holding
  <2>2. PICK usr \in Parses(s) :
          \/ /\ pc' = [pc EXCEPT ![s] = "reply"]
             /\ out' = [out EXCEPT ![s] = Pkt("O", STORAGE_getID(usr))]
             /\ UNCHANGED <<storageVars, login>>
          \/ /\ login' = [login EXCEPT ![s] = usr]
             /\ ret' = [ret EXCEPT ![s] = last_id_assigned']
             /\ pc' = [pc EXCEPT ![s] = "register"]
             /\ UNCHANGED out
    BY <1>3 DEF LOGIN_loginOK, Decide
  <2>3. usr \in Users
    BY <1>3, PacketTypes, UsersAssumption
    DEF LOGIN_loginOK, Parses, TypeOK, ThreadTypeOK
  <2> QED BY <1>ty, <1>3, <2>1, <2>2, <2>3 DEF LOGIN_loginOK, clientVars
<1>4. ASSUME NEW s \in Sessions, RegisterUser(s) PROVE LocalsReady'
  BY <1>ty, <1>4
  DEF RegisterUser, Decide, STORAGE_registerUser, clientVars
<1>5. ASSUME NEW s \in Sessions, CheckSearch(s) PROVE LocalsReady'
  BY <1>ty, <1>5
  DEF CheckSearch, Decide, storageVars, clientVars
<1>5a. ASSUME NEW s \in Sessions, SendPage(s) PROVE LocalsReady'
  BY <1>ty, <1>5a
  DEF SendPage, storageVars, clientVars
<1>6. ASSUME NEW s \in Sessions, CheckSend(s) PROVE LocalsReady'
  BY <1>ty, <1>6, ChunksAssumption
  DEF CheckSend, Decide, storageVars, clientVars
<1>7. ASSUME NEW s \in Sessions, ReceiveChunk(s) PROVE LocalsReady'
  BY <1>ty, <1>7
  DEF ReceiveChunk, Decide, storageVars, clientVars
<1>8. ASSUME NEW s \in Sessions, CheckPhoto(s) PROVE LocalsReady'
  BY <1>ty, <1>8, ChunksAssumption
  DEF CheckPhoto, Decide, storageVars, clientVars
<1>9. ASSUME NEW s \in Sessions, SendChunk(s) PROVE LocalsReady'
  BY <1>ty, <1>9
  DEF SendChunk, storageVars, clientVars
<1>10. ASSUME NEW s \in Sessions, ReadAck(s) PROVE LocalsReady'
  BY <1>ty, <1>10
  DEF ReadAck, Return, storageVars, clientVars
<1>11. ASSUME NEW s \in Sessions, CheckQuit(s) PROVE LocalsReady'
  BY <1>ty, <1>11
  DEF CheckQuit, Return, storageVars, clientVars
<1>12. ASSUME NEW s \in Sessions, CheckOther(s) PROVE LocalsReady'
  BY <1>ty, <1>12
  DEF CheckOther, Return, storageVars, clientVars
<1>13. ASSUME NEW s \in Sessions, Reply(s) PROVE LocalsReady'
  <2>1. /\ pc[s] = "reply" /\ pc' = [pc EXCEPT ![s] = After(s)]
        /\ out' = [out EXCEPT ![s] = NoPkt]
        /\ UNCHANGED <<storageVars, left, login, ret, clientVars>>
    BY <1>13 DEF Reply
  <2>2. /\ After(s) \in {"send", "pages", "finish"}
        /\ After(s) = "send" => out[s] = Pkt("F", 1)
        /\ After(s) = "pages" => left[s] > 0
    BY DEF After
  <2>3. After(s) \in {"send", "pages"} => left[s] >= 1
    BY <1>ty, <2>1, <2>2
  <2> HIDE DEF After
  <2> QED BY <1>ty, <2>1, <2>2, <2>3 DEF NoPkt, storageVars, clientVars
<1>14. ASSUME NEW s \in Sessions, Finish(s) PROVE LocalsReady'
  BY <1>ty, <1>14
  DEF Finish, storageVars, clientVars
<1>15. ASSUME NEW s \in Sessions, SendLogin(s) PROVE LocalsReady'
  BY <1>ty, <1>15 DEF SendLogin, ClientStep, threadVars, storageVars
<1>16. ASSUME NEW s \in Sessions, LoginReply(s) PROVE LocalsReady'
  BY <1>ty, <1>16 DEF LoginReply, ClientStep, threadVars, storageVars
<1>17. ASSUME NEW s \in Sessions, SearchReply(s) PROVE LocalsReady'
  <2>1. Next1(s).type = "L" => Next1(s).arg \in Nat
    <3>1. CASE toClient[s] = <<>>
      BY <3>1 DEF Next1, NoPkt
    <3>2. CASE toClient[s] # <<>>
      BY <3>2, TakesType, PacketTypes DEF Next1, TypeOK
    <3> QED BY <3>1, <3>2
  <2>2. \/ \E l \in {"idle", "lost"} : ClientStep(s, l) /\ UNCHANGED todo
        \/ /\ ClientStep(s, "more") /\ Next1(s).type = "L"
           /\ Next1(s).arg > 1
           /\ todo' = [todo EXCEPT ![s] = Next1(s).arg - 1]
    BY <1>17 DEF SearchReply
  <2>3. UNCHANGED <<storageVars, threadVars, user>> /\ cli[s] = "search"
    BY <1>17 DEF SearchReply
  <2> QED BY <1>ty, <2>1, <2>2, <2>3 DEF ClientStep, threadVars, storageVars
<1>17a. ASSUME NEW s \in Sessions, SearchMore(s) PROVE LocalsReady'
  <2>1. \/ \E l \in {"idle", "lost"} : ClientStep(s, l) /\ UNCHANGED todo
        \/ /\ ClientStep(s, IF todo[s] > 1 THEN "more" ELSE "idle")
           /\ todo' = [todo EXCEPT ![s] = @ - 1]
    BY <1>17a DEF SearchMore
  <2>2. UNCHANGED <<storageVars, threadVars, user>> /\ cli[s] = "more"
    BY <1>17a DEF SearchMore
  <2> QED BY <1>ty, <2>1, <2>2 DEF ClientStep, threadVars, storageVars
<1>18. ASSUME NEW s \in Sessions, WriteChunk(s) PROVE LocalsReady'
  BY <1>ty, <1>18 DEF WriteChunk, ClientStep, threadVars, storageVars
<1>19. ASSUME NEW s \in Sessions, SendVerdict(s) PROVE LocalsReady'
  BY <1>ty, <1>19 DEF SendVerdict, ClientStep, threadVars, storageVars
<1>20. ASSUME NEW s \in Sessions, PhotoReply(s) PROVE LocalsReady'
  BY <1>ty, <1>20, ChunksAssumption DEF PhotoReply, ClientStep, threadVars,
     storageVars
<1>21. ASSUME NEW s \in Sessions, ReadChunk(s) PROVE LocalsReady'
  BY <1>ty, <1>21 DEF ReadChunk, ClientStep, threadVars, storageVars
<1>22. ASSUME NEW s \in Sessions, PersonStep(s) PROVE LocalsReady'
  <2>1. ASSUME NEW usr \in Typed, Connect(s, usr) PROVE LocalsReady'
    BY <1>ty, <2>1, UsersAssumption DEF Connect, ClientStep, storageVars
  <2>2. CASE TypeSearch(s) \/ \E id \in PhotoIds : TypePhoto(s, id)
    BY <1>ty, <2>2
    DEF TypeSearch, TypePhoto, AtPrompt, ClientStep, threadVars, storageVars
  <2>4. CASE TypeSend(s)
    BY <1>ty, <2>4, ChunksAssumption
    DEF TypeSend, AtPrompt, ClientStep, threadVars, storageVars
  <2>3. CASE Interrupt(s) \/ Kill(s)
    BY <1>ty, <2>3
    DEF Interrupt, Kill, Leaves, ClientStep, threadVars, storageVars
  <2> QED BY <1>22, <2>1, <2>2, <2>3, <2>4 DEF PersonStep
<1>23. ASSUME NEW s \in Sessions, LoginFails(s) PROVE LocalsReady'
  BY <1>ty, <1>23 DEF LoginFails, Leaves, ClientStep, threadVars, storageVars
<1>24. ASSUME Die PROVE LocalsReady'
  BY <1>ty, <1>24 DEF Die, clientVars
<1>25. ASSUME Restart PROVE LocalsReady'
  BY <1>ty, <1>25 DEF Restart, threadVars, clientVars, Phases
<1> HIDE DEF LocalsReady
<1> QED
  BY <1>1, <1>2, <1>3, <1>4, <1>5, <1>5a, <1>6, <1>7, <1>8, <1>9, <1>10,
     <1>11, <1>12, <1>13, <1>14, <1>15, <1>16, <1>17, <1>17a, <1>18, <1>19,
     <1>20, <1>21, <1>22, <1>24, <1>25, <1>23
  DEF Next, SessionStep, ThreadStep, FremenStep, Sigpipe, Crash, exitAtreides

----------------------------------------------------------------------------
(* The registry.                                                           *)

\* A step that neither registers nor loads nor ends the process.
Quiet ==
    /\ UNCHANGED <<storageVars, up>>
    /\ Registering' = Registering
    /\ \A t \in Registering : login'[t] = login[t]

Adds(s, usr) ==
    /\ pc[s] = "check" /\ up' = up
    /\ usr \in Users \ DOMAIN map
    /\ STORAGE_addUser(usr)
    /\ login' = [login EXCEPT ![s] = usr]
    /\ pc' = [pc EXCEPT ![s] = "register"]

WritesLine(s) ==
    /\ pc[s] = "register" /\ up' = up
    /\ login[s] \in Users /\ ret[s] = last_id_assigned
    /\ STORAGE_registerUser(login[s], ret[s])
    /\ pc' = [pc EXCEPT ![s] = "reply"]
    /\ \A t \in Sessions \ {s} : login'[t] = login[t]

\* What a step does to memory and disk: nothing; a login adds a user to the
\* map; the thread that added it writes its line; the process ends; or it
\* starts again and loads the file.
LEMMA RegistrySteps ==
    ASSUME TypeOK, LocalsReady, Phases, Next
    PROVE  \/ Quiet
           \/ \E s \in Sessions, usr \in Users : Adds(s, usr)
           \/ \E s \in Sessions : WritesLine(s)
           \/ /\ ~up' /\ Registering' = {} /\ UNCHANGED usr_reg
              /\ STORAGE_deleteDatabase
           \/ ~up /\ up' /\ Registering' = {} /\ STORAGE_loadDatabase
<1>ty. /\ pc \in [Sessions -> Labels]
       /\ login \in [Sessions -> Users \cup {NoUser}]
  BY DEF TypeOK, ThreadTypeOK
<1>1. ASSUME NEW s \in Sessions, LOGIN_loginOK(s)
      PROVE  Quiet \/ \E usr \in Users : Adds(s, usr)
  <2> PICK usr \in Parses(s) :
        \/ /\ Decide(s, Pkt("O", STORAGE_getID(usr)), STORAGE_getID(usr))
           /\ UNCHANGED <<storageVars, login>>
        \/ /\ STORAGE_getID(usr) < 0
           /\ STORAGE_addUser(usr)
           /\ login' = [login EXCEPT ![s] = usr]
           /\ pc' = [pc EXCEPT ![s] = "register"]
    BY <1>1 DEF LOGIN_loginOK
  <2>1. usr \in Users
    BY <1>1, PacketTypes, UsersAssumption
    DEF LOGIN_loginOK, Parses, TypeOK, ThreadTypeOK
  <2>2. CASE /\ Decide(s, Pkt("O", STORAGE_getID(usr)), STORAGE_getID(usr))
             /\ UNCHANGED <<storageVars, login>>
    BY <1>ty, <1>1, <2>2
    DEF LOGIN_loginOK, Decide, Quiet, Registering, serverVars
  <2>3. CASE /\ STORAGE_getID(usr) < 0
             /\ STORAGE_addUser(usr)
             /\ login' = [login EXCEPT ![s] = usr]
             /\ pc' = [pc EXCEPT ![s] = "register"]
    <3>1. usr \notin DOMAIN map
      BY <2>3 DEF STORAGE_getID, TypeOK, StorageTypeOK
    <3> QED BY <1>1, <2>1, <2>3, <3>1 DEF LOGIN_loginOK, Adds, serverVars
  <2> QED BY <2>2, <2>3
<1>2. ASSUME NEW s \in Sessions, RegisterUser(s) PROVE WritesLine(s)
  BY <1>ty, <1>2
  DEF RegisterUser, Decide, WritesLine, serverVars, LocalsReady
<1>3. ASSUME NEW s \in Sessions, ThreadStep(s) \/ SEM_wait(s),
             ~LOGIN_loginOK(s), ~RegisterUser(s)
      PROVE  Quiet
  <2>1. UNCHANGED <<storageVars, up, login>>
    BY <1>3 DEF ThreadStep, ThreadReads, SEM_wait, CheckSearch, SendPage,
       CheckSend,
         ReceiveChunk, CheckPhoto, SendChunk, ReadAck, CheckQuit, CheckOther,
         Reply, Finish, serverVars
  <2>2. /\ pc[s] # "register"
        /\ \E l \in Labels \ {"register"} : pc' = [pc EXCEPT ![s] = l]
    BY <1>3 DEF ThreadStep, ThreadReads, SEM_wait, CheckSearch, SendPage,
       CheckSend,
         ReceiveChunk, CheckPhoto, SendChunk, ReadAck, CheckQuit, CheckOther,
         Reply, After, Finish, Decide, Return, Labels
  <2> QED BY <1>ty, <2>1, <2>2 DEF Quiet, Registering
<1>4. ASSUME NEW s \in Sessions, FremenStep(s) PROVE Quiet
  BY <1>4 DEF FremenStep, SendLogin, LoginReply, LoginFails, SearchReply,
       SearchMore, WriteChunk, SendVerdict, PhotoReply, ReadChunk, Leaves, Quiet,
       Registering, serverVars, threadVars
<1>5. ASSUME NEW s \in Sessions, PersonStep(s) PROVE Quiet
  <2>1. ASSUME NEW usr \in Typed, Connect(s, usr) PROVE Quiet
    BY <1>ty, <2>1 DEF Connect, Quiet, Registering, serverVars, Phases
  <2>2. CASE \A usr \in Typed : ~Connect(s, usr)
    BY <1>5, <2>2 DEF PersonStep, TypeSearch, TypeSend, TypePhoto, Interrupt,
         Kill, Leaves, Quiet, Registering, serverVars, threadVars
  <2> QED BY <2>1, <2>2
<1>6. ASSUME Die
      PROVE  /\ ~up' /\ Registering' = {} /\ UNCHANGED usr_reg
             /\ STORAGE_deleteDatabase
  BY <1>6 DEF Die, Registering, STORAGE_deleteDatabase
<1>7. ASSUME Restart
      PROVE  ~up /\ up' /\ Registering' = {} /\ STORAGE_loadDatabase
  BY <1>ty, <1>7 DEF Restart, Registering, threadVars, Phases
<1> QED
  BY <1>1, <1>2, <1>3, <1>4, <1>5, <1>6, <1>7
  DEF Next, SessionStep, Sigpipe, Crash, exitAtreides

\* Every step keeps the map over the users of the file: only the thread that
\* holds the lock is between adding a user and writing its line.
LEMMA MemoryStep ==
    ASSUME TypeOK, TypeOK', LocalsReady, Phases, MutualExclusion,
           MemoryCoversFile, Next
    PROVE  MemoryCoversFile'
<1> USE DEF MemoryCoversFile
<1>ty. /\ usr_reg \in Seq([user : Users, id : Nat])
       /\ pc \in [Sessions -> Labels]
       /\ login \in [Sessions -> Users \cup {NoUser}]
  BY DEF TypeOK, StorageTypeOK, ThreadTypeOK
<1>1. CASE Quiet
  BY <1>1 DEF Quiet, storageVars
<1>2. ASSUME NEW s \in Sessions, NEW usr \in Users, Adds(s, usr)
      PROVE  MemoryCoversFile'
  <2>1. up /\ Registering' = {s}
    BY <1>ty, <1>2 DEF Adds, Registering, Phases, MutualExclusion, Holders,
         Holding
  <2>2. /\ usr_reg' = usr_reg /\ login'[s] = usr
        /\ DOMAIN map' = DOMAIN map \cup {usr}
        /\ usr \notin DOMAIN map
    BY <1>ty, <1>2 DEF Adds, STORAGE_addUser, HASMAP_insert
  <2> QED BY <2>1, <2>2
<1>3. ASSUME NEW s \in Sessions, WritesLine(s) PROVE MemoryCoversFile'
  <2>1. s \in Registering /\ Registering' = {}
    BY <1>ty, <1>3 DEF WritesLine, Registering, MutualExclusion, Holders,
         Holding
  <2>2. map' = map /\ up' = up
    BY <1>3 DEF WritesLine, STORAGE_registerUser
  <2>3. CASE usr_reg' = usr_reg
    BY <2>1, <2>2, <2>3
  <2>4. CASE usr_reg' = Append(usr_reg, Row(login[s], ret[s]))
    <3>1. /\ DOMAIN usr_reg = 1 .. Len(usr_reg) /\ Len(usr_reg) \in Nat
          /\ DOMAIN usr_reg' = 1 .. Len(usr_reg) + 1
          /\ \A i \in DOMAIN usr_reg : usr_reg'[i] = usr_reg[i]
          /\ usr_reg'[Len(usr_reg) + 1] = Row(login[s], ret[s])
      BY <1>ty, <2>4, AppendLine
    <3>2. usr_reg'[Len(usr_reg) + 1].user = login[s]
      BY <3>1 DEF Row
    <3> QED BY <2>1, <2>2, <3>1, <3>2
  <2> QED BY <1>3, <2>3, <2>4 DEF WritesLine, STORAGE_registerUser
<1>4. CASE ~up' /\ Registering' = {} /\ UNCHANGED usr_reg
  BY <1>4
<1>5. CASE ~up /\ up' /\ Registering' = {} /\ STORAGE_loadDatabase
  <2>1. DOMAIN map' = {usr_reg[i].user : i \in DOMAIN usr_reg}
    BY <1>ty, <1>5, LoadedMapLines DEF STORAGE_loadDatabase
  <2> QED BY <1>5, <2>1 DEF STORAGE_loadDatabase
<1> QED BY <1>1, <1>2, <1>3, <1>4, <1>5, RegistrySteps

\* Every step keeps the counter level with the lines of the file.
LEMMA CounterStep ==
    ASSUME TypeOK, LocalsReady, Phases, MutualExclusion, CounterMatchesFile,
           Next
    PROVE  CounterMatchesFile'
<1> SUFFICES ASSUME ~RegisterMayFail
             PROVE  /\ \A i \in DOMAIN usr_reg' : usr_reg'[i].id = i
                    /\ up' => last_id_assigned' =
                         Len(usr_reg') + (IF Registering' = {} THEN 0 ELSE 1)
  BY DEF CounterMatchesFile
<1> USE DEF CounterMatchesFile
<1>ty. /\ usr_reg \in Seq([user : Users, id : Nat])
       /\ pc \in [Sessions -> Labels]
       /\ Len(usr_reg) \in Nat
  BY DEF TypeOK, StorageTypeOK, ThreadTypeOK
<1>1. CASE Quiet
  BY <1>1 DEF Quiet, storageVars
<1>2. ASSUME NEW s \in Sessions, NEW usr \in Users, Adds(s, usr)
      PROVE  /\ usr_reg' = usr_reg
             /\ last_id_assigned' = Len(usr_reg') + 1
             /\ Registering' # {}
  <2>1. up /\ Registering = {} /\ Registering' = {s}
    BY <1>ty, <1>2 DEF Adds, Registering, Phases, MutualExclusion, Holders,
         Holding
  <2> QED BY <1>ty, <1>2, <2>1 DEF Adds, STORAGE_addUser
<1>3. ASSUME NEW s \in Sessions, WritesLine(s)
      PROVE  /\ \A i \in DOMAIN usr_reg' : usr_reg'[i].id = i
             /\ last_id_assigned' = Len(usr_reg')
             /\ Registering' = {}
  <2>1. up /\ s \in Registering /\ Registering' = {}
    BY <1>ty, <1>3 DEF WritesLine, Registering, Phases, MutualExclusion,
         Holders, Holding
  <2>2. /\ ret[s] = Len(usr_reg) + 1
        /\ last_id_assigned' = Len(usr_reg) + 1
        /\ usr_reg' = Append(usr_reg, Row(login[s], ret[s]))
    BY <1>3, <2>1 DEF WritesLine, STORAGE_registerUser
  <2>3. /\ DOMAIN usr_reg = 1 .. Len(usr_reg)
        /\ DOMAIN usr_reg' = 1 .. Len(usr_reg) + 1
        /\ Len(usr_reg') = Len(usr_reg) + 1
        /\ \A i \in DOMAIN usr_reg : usr_reg'[i] = usr_reg[i]
        /\ usr_reg'[Len(usr_reg) + 1] = Row(login[s], ret[s])
    BY <1>ty, <2>2, AppendLine
  <2>4. usr_reg'[Len(usr_reg) + 1].id = ret[s]
    BY <2>3 DEF Row
  <2> QED BY <1>ty, <2>1, <2>2, <2>3, <2>4
<1>4. CASE ~up' /\ Registering' = {} /\ UNCHANGED usr_reg
  BY <1>4
<1>5. CASE ~up /\ up' /\ Registering' = {} /\ STORAGE_loadDatabase
  BY <1>ty, <1>5 DEF STORAGE_loadDatabase
<1> QED BY <1>1, <1>2, <1>3, <1>4, <1>5, RegistrySteps

----------------------------------------------------------------------------
(* The theorems.                                                           *)

\* The system starts in the inductive invariant.
LEMMA InitIInv == Init => IInv
<1> SUFFICES ASSUME Init PROVE IInv
  OBVIOUS
<1>1. TypeOK
  <2>1. StorageTypeOK
    BY DEF Init, StorageInit, StorageTypeOK
  <2>2. /\ ServerTypeOK /\ ThreadTypeOK /\ ClientTypeOK /\ NetTypeOK
        /\ HistoryTypeOK
    BY PacketTypes DEF Init, ServerTypeOK, ThreadTypeOK, ClientTypeOK,
         NetTypeOK, HistoryTypeOK, Labels, Steps
  <2> QED BY <2>1, <2>2 DEF TypeOK
<1>2. LocalsReady /\ Phases /\ MutualExclusion
  BY DEF Init, LocalsReady, Phases, MutualExclusion, Holders, Holding
<1>3. MemoryCoversFile /\ CounterMatchesFile
  BY DEF Init, StorageInit, MemoryCoversFile, CounterMatchesFile, Registering
<1> QED BY <1>1, <1>2, <1>3 DEF IInv

\* Every step, and stuttering, keeps the inductive invariant.
LEMMA NextIInv == IInv /\ [Next]_vars => IInv'
<1> SUFFICES ASSUME IInv, [Next]_vars PROVE IInv'
  OBVIOUS
<1>1. CASE Next
  BY <1>1, TypeStep, LockStep, ReadyStep, MemoryStep, CounterStep DEF IInv
<1>2. CASE UNCHANGED vars
  <2>1. UNCHANGED <<storageVars, serverVars, threadVars, clientVars, net, history>>
    BY <1>2 DEF vars
  <2>2. TypeOK'
    BY <2>1 DEF IInv, TypeOK, StorageTypeOK, ServerTypeOK, ThreadTypeOK,
         ClientTypeOK, NetTypeOK, HistoryTypeOK, storageVars, serverVars,
         threadVars, clientVars, net, history
  <2>3. LocalsReady' /\ Phases' /\ MutualExclusion'
    BY <2>1 DEF IInv, LocalsReady, Phases, MutualExclusion, Holders,
         storageVars, serverVars, threadVars, clientVars
  <2>4. MemoryCoversFile' /\ CounterMatchesFile'
    BY <2>1 DEF IInv, MemoryCoversFile, CounterMatchesFile, Registering,
         storageVars, serverVars, threadVars
  <2> QED BY <2>2, <2>3, <2>4 DEF IInv
<1> QED BY <1>1, <1>2

\* The inductive invariant holds in every state the system reaches.
THEOREM Invariant == Spec => []IInv
  BY InitIInv, NextIInv, PTL DEF Spec

\* Every variable of the server, its threads, the clients and the network
\* keeps its type, over replayed packets, crashes and restarts.
THEOREM TypeCorrect == Spec => []TypeOK
<1>1. IInv => TypeOK
  BY DEF IInv
<1> QED BY <1>1, Invariant, PTL

\* For every number of clients: at most one thread is between SEM_wait and
\* SEM_signal, and the semaphore is 0 exactly when one is, or left from there.
THEOREM LockSafe == Spec => []MutualExclusion
<1>1. IInv => MutualExclusion
  BY DEF IInv
<1> QED BY <1>1, Invariant, PTL

\* While writing the register file succeeds, a user has one line of the file
\* and an identifier one user, whatever crashes and restarts happen.
THEOREM RegistrySafe ==
    ASSUME ~RegisterMayFail
    PROVE  Spec => []RegistryConsistent
<1>1. IInv => RegistryConsistent
  BY DEF IInv, MemoryCoversFile, CounterMatchesFile, RegistryConsistent
<1> QED BY <1>1, Invariant, PTL

----------------------------------------------------------------------------
(* What the threads do to the registry is what Storage allows.             *)

\* The user who is being registered has the newest identifier in memory.
NewestRegisters == \A s \in Registering : map[login[s]] = last_id_assigned

LEMMA NewestStep ==
    ASSUME IInv, NewestRegisters, Next
    PROVE  NewestRegisters'
<1> USE DEF IInv, NewestRegisters
<1>ty. /\ pc \in [Sessions -> Labels]
       /\ login \in [Sessions -> Users \cup {NoUser}]
  BY DEF TypeOK, ThreadTypeOK
<1>1. CASE Quiet
  BY <1>1 DEF Quiet, storageVars
<1>2. ASSUME NEW s \in Sessions, NEW usr \in Users, Adds(s, usr)
      PROVE  NewestRegisters'
  <2>1. Registering' = {s} /\ login'[s] = usr
    BY <1>ty, <1>2
    DEF Adds, Registering, MutualExclusion, Holders, Holding
  <2>2. map'[usr] = last_id_assigned'
    BY <1>2 DEF Adds, STORAGE_addUser, HASMAP_insert
  <2> QED BY <2>1, <2>2
<1>3. ASSUME NEW s \in Sessions, WritesLine(s) PROVE NewestRegisters'
  <2>1. Registering' = {}
    BY <1>ty, <1>3
    DEF WritesLine, Registering, MutualExclusion, Holders, Holding
  <2> QED BY <2>1
<1>4. CASE Registering' = {}
  BY <1>4
<1> QED BY <1>1, <1>2, <1>3, <1>4, RegistrySteps

\* Each step is an operation of the registry, or none.
LEMMA RegistryUsed ==
    ASSUME IInv, NewestRegisters, [Next]_vars
    PROVE  [StorageNext]_storageVars
<1> USE DEF IInv
<1>1. CASE UNCHANGED vars
  BY <1>1 DEF vars
<1>2. CASE Next
  <2>1. CASE Quiet
    BY <2>1 DEF Quiet
  <2>2. ASSUME NEW s \in Sessions, NEW usr \in Users, Adds(s, usr)
        PROVE  StorageNext
    BY <2>2 DEF Adds, STORAGE_getID, StorageNext
  <2>3. ASSUME NEW s \in Sessions, WritesLine(s) PROVE StorageNext
    <3>1. /\ login[s] \in DOMAIN map /\ map[login[s]] = ret[s]
          /\ login[s] \in Users /\ STORAGE_registerUser(login[s], ret[s])
      BY <2>3
      DEF WritesLine, Registering, MemoryCoversFile, NewestRegisters
    <3> QED BY <3>1 DEF StorageNext
  <2>4. CASE STORAGE_deleteDatabase \/ STORAGE_loadDatabase
    BY <2>4 DEF StorageNext
  <2> QED BY <1>2, <2>1, <2>2, <2>3, <2>4, RegistrySteps
<1> QED BY <1>1, <1>2

\* The server implements Storage: its threads, over crashes, restarts and a
\* register file that may not open, add a user once it is known to be new and
\* register it with the identifier that it was just given, and change memory or
\* disk in no other way (login.c:15-27).
THEOREM StorageObeyed == Spec => ObeysStorage
<1>1. Init => StorageInit /\ NewestRegisters
  BY DEF Init, NewestRegisters, Registering
<1>2. IInv /\ NewestRegisters /\ [Next]_vars => NewestRegisters'
  <2>1. UNCHANGED vars /\ NewestRegisters => NewestRegisters'
    BY DEF vars, storageVars, threadVars, NewestRegisters, Registering
  <2> QED BY <2>1, NewestStep
<1>3. IInv /\ NewestRegisters /\ [Next]_vars => [StorageNext]_storageVars
  BY RegistryUsed
<1> QED BY <1>1, <1>2, <1>3, Invariant, PTL
        DEF Spec, ObeysStorage, StorageSpec
=============================================================================
