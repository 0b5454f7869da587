----------------------------- MODULE SessionProofs -----------------------------
(***************************************************************************)
(* What a client and its thread agree about, proved of Atreides for every  *)
(* set of sessions and users and whichever faults happen, a register file  *)
(* that cannot be written included: that an image is filed under the       *)
(* identifier its sender was told, and that both are in the same command.  *)
(***************************************************************************)
EXTENDS DirectoryProofs

IsLogin(p) == p.type = "C"

\* A photo to store is on its way to the thread, or in its hands.
Storing(s) ==
    pkt[s].type = "F" \/ \E i \in DOMAIN toServer[s] : toServer[s][i].type = "F"

\* The thread knows who its client is and will not be told again: the last it
\* has to do with a login is to note the identifier that the client was told.
Settled(s) ==
    /\ \A i \in DOMAIN toServer[s] : ~IsLogin(toServer[s][i])
    /\ pc[s] \notin {"read", "finish", "exit"} => ~IsLogin(pkt[s])
    /\ IF pc[s] = "finish" /\ IsLogin(pkt[s])
       THEN ret[s] = usr_id[s] /\ ret[s] >= 0 ELSE u[s] = usr_id[s]

\* The answer to a login, from the packet to the identifier.
AnswerUnderWay(s) ==
    \/ pc[s] = "dead"
    \/ /\ pc[s] = "read" /\ toClient[s] = <<>>
       /\ toServer[s] = <<Pkt("C", user[s])>>
    \/ /\ pc[s] \in {"wait", "check", "register", "reply"}
       /\ toServer[s] = <<>> /\ toClient[s] = <<>>
       /\ IsLogin(pkt[s])
       /\ pc[s] = "reply" => out[s] = Pkt("O", ret[s]) /\ ret[s] > 0
    \/ /\ pc[s] = "finish" /\ toServer[s] = <<>>
       /\ IsLogin(pkt[s])
       /\ toClient[s] = <<Pkt("O", ret[s])>> /\ ret[s] > 0
    \/ /\ pc[s] = "read" /\ toServer[s] = <<>>
       /\ toClient[s] = <<Pkt("O", u[s])>> /\ u[s] > 0

OwnerInv(s) ==
    /\ cli[s] # "off" => pc[s] # "none"
    /\ pc[s] = "dead" => toServer[s] = <<>> /\ pkt[s] = NoPkt
    /\ cli[s] \in {"off", "conn"} =>
          /\ toServer[s] = <<>> /\ pkt[s] = NoPkt
          /\ pc[s] \in {"none", "read", "dead"}
          /\ pc[s] # "dead" => toClient[s] = <<>>
    /\ cli[s] = "login" => AnswerUnderWay(s) /\ pkt[s].type # "F"
    /\ cli[s] \in Connected /\ pc[s] # "dead" => Settled(s)
    /\ cli[s] \notin NotConnected /\ Storing(s) => Settled(s)

\* Identifiers are positive.
Positive ==
    /\ up => \A x \in DOMAIN map : map[x] > 0
    /\ \A i \in DOMAIN usr_reg : usr_reg[i].id > 0
    /\ \A s \in Registering : ret[s] > 0

OwnerIInv == Positive /\ \A s \in Sessions : OwnerInv(s)

----------------------------------------------------------------------------
(* Identifiers are positive.                                               *)

\* The counter is raised before it is given, and lines hold what was given.
LEMMA PositiveStep ==
    ASSUME IInv, Positive, Next
    PROVE  Positive'
<1> USE DEF IInv, Positive
<1>ty. /\ usr_reg \in Seq([user : Users, id : Nat])
       /\ pc \in [Sessions -> Labels]
       /\ ret \in [Sessions -> Int]
       /\ last_id_assigned \in Nat
  BY DEF TypeOK, StorageTypeOK, ThreadTypeOK
<1>r. \A s \in Registering : ret[s] = last_id_assigned
  BY DEF LocalsReady, Registering
<1>t. \A s \in Registering' : ret'[s] = last_id_assigned'
  BY ReadyStep DEF LocalsReady, Registering
<1>1. CASE Quiet
  BY <1>1, <1>r, <1>t DEF Quiet, storageVars
<1>2. ASSUME NEW s \in Sessions, NEW usr \in Users, Adds(s, usr)
      PROVE  Positive'
  <2>1. /\ last_id_assigned' > 0 /\ usr_reg' = usr_reg /\ up' = up
        /\ DOMAIN map' = DOMAIN map \cup {usr}
        /\ map'[usr] = last_id_assigned'
        /\ \A x \in DOMAIN map : x # usr => map'[x] = map[x]
    BY <1>ty, <1>2 DEF Adds, STORAGE_addUser, HASMAP_insert
  <2> QED BY <1>t, <2>1
<1>3. ASSUME NEW s \in Sessions, WritesLine(s) PROVE Positive'
  <2>1. /\ map' = map /\ up' = up
        /\ last_id_assigned' = last_id_assigned
        /\ ret[s] = last_id_assigned /\ ret[s] > 0
    BY <1>3 DEF WritesLine, STORAGE_registerUser, Registering
  <2>2. \A i \in DOMAIN usr_reg' : usr_reg'[i].id > 0
    <3>1. CASE usr_reg' = usr_reg
      BY <3>1
    <3>2. CASE usr_reg' = Append(usr_reg, Row(login[s], ret[s]))
      <4>1. /\ DOMAIN usr_reg = 1 .. Len(usr_reg) /\ Len(usr_reg) \in Nat
            /\ DOMAIN usr_reg' = 1 .. Len(usr_reg) + 1
            /\ \A i \in DOMAIN usr_reg : usr_reg'[i] = usr_reg[i]
            /\ usr_reg'[Len(usr_reg) + 1] = Row(login[s], ret[s])
        BY <1>ty, <3>2, AppendLine
      <4>2. usr_reg'[Len(usr_reg) + 1].id = ret[s]
        BY <4>1 DEF Row
      <4> QED BY <2>1, <4>1, <4>2
    <3> QED BY <1>3, <3>1, <3>2 DEF WritesLine, STORAGE_registerUser
  <2> QED BY <1>t, <2>1, <2>2
<1>4. CASE ~up' /\ Registering' = {} /\ UNCHANGED usr_reg
  BY <1>4
<1>5. CASE Registering' = {} /\ STORAGE_loadDatabase
  <2>1. /\ DOMAIN map' = {usr_reg[i].user : i \in DOMAIN usr_reg}
        /\ \A i \in DOMAIN usr_reg : map'[usr_reg[i].user] = usr_reg[i].id
    BY <1>ty, <1>5, LoadedMapLines DEF STORAGE_loadDatabase, MemoryCoversFile
  <2> QED BY <1>5, <2>1 DEF STORAGE_loadDatabase
<1> QED BY <1>1, <1>2, <1>3, <1>4, <1>5, RegistrySteps

----------------------------------------------------------------------------
(* A thread's step.                                                        *)

\* What is left of the packets of a connection when the first is taken.
LEMMA TailElements ==
    ASSUME NEW q \in Seq(Packets), q # <<>>
    PROVE  /\ 1 \in DOMAIN q /\ Head(q) = q[1]
           /\ \A i \in DOMAIN Tail(q) :
                 i + 1 \in DOMAIN q /\ Tail(q)[i] = q[i + 1]
  OBVIOUS

\* What most actions of a thread do to the packets and to u.
Handles(s) ==
    /\ pc[s] \notin {"read", "finish", "exit"}
    /\ pkt' = pkt /\ u' = u
    /\ \/ toServer' = toServer
       \/ toServer[s] # <<>> /\ toServer'[s] = Tail(toServer[s])

\* An action of a thread reads, handles or finishes.
LEMMA ThreadShapes ==
    ASSUME TypeOK, NEW s \in Sessions, ThreadStep(s) \/ SEM_wait(s)
    PROVE  /\ ThreadReads(s) \/ Finish(s) \/ Handles(s)
           /\ UNCHANGED clientVars
           /\ pc[s] \notin {"none", "dead"} /\ pc'[s] \notin {"none", "dead"}
<1> USE DEF Handles, Labels
<1>ty. /\ pc \in [Sessions -> Labels]
       /\ toServer \in [Sessions -> Seq(Packets)]
  BY DEF TypeOK, ThreadTypeOK, NetTypeOK
<1>1. CASE ThreadReads(s)
  BY <1>ty, <1>1 DEF ThreadReads
<1>2. CASE SEM_wait(s)
  BY <1>ty, <1>2 DEF SEM_wait, net
<1>3. CASE LOGIN_loginOK(s)
  BY <1>ty, <1>3 DEF LOGIN_loginOK, Decide, net
<1>4. CASE RegisterUser(s)
  BY <1>ty, <1>4 DEF RegisterUser, Decide, net
<1>5. CASE CheckSearch(s) \/ CheckPhoto(s)
  BY <1>ty, <1>5 DEF CheckSearch, CheckPhoto, Decide, net
<1>6. CASE CheckSend(s)
  BY <1>ty, <1>6 DEF CheckSend, Decide, net
<1>7. CASE ReceiveChunk(s)
  BY <1>ty, <1>7 DEF ReceiveChunk, Decide, ServerTakes
<1>8. CASE SendChunk(s) \/ SendPage(s)
  BY <1>ty, <1>8 DEF SendChunk, SendPage
<1>9. CASE ReadAck(s)
  BY <1>ty, <1>9 DEF ReadAck, Return, ServerTakes
<1>10. CASE CheckQuit(s) \/ CheckOther(s)
  BY <1>ty, <1>10 DEF CheckQuit, CheckOther, Return, net
<1>11. CASE Reply(s)
  BY <1>ty, <1>11 DEF Reply, After
<1>12. CASE Finish(s)
  BY <1>ty, <1>12 DEF Finish
<1> QED
  BY <1>1, <1>2, <1>3, <1>4, <1>5, <1>6, <1>7, <1>8, <1>9, <1>10, <1>11, <1>12
  DEF ThreadStep

\* A thread that knows its client keeps knowing it.
LEMMA SettledStep ==
    ASSUME TypeOK, NEW s \in Sessions, ThreadStep(s) \/ SEM_wait(s),
           Settled(s), cli[s] # "gone" \/ Storing(s)
    PROVE  Settled(s)'
<1>ty. /\ pc \in [Sessions -> Labels] /\ pkt \in [Sessions -> Packets]
       /\ u \in [Sessions -> Nat] /\ ret \in [Sessions -> Int]
       /\ toServer \in [Sessions -> Seq(Packets)]
  BY DEF TypeOK, ThreadTypeOK, NetTypeOK
<1>0. usr_id' = usr_id
  BY ThreadShapes DEF clientVars
<1>1. CASE Handles(s)
  <2>1. ~IsLogin(pkt[s]) /\ u[s] = usr_id[s]
    BY <1>1 DEF Settled, Handles
  <2>2. \A i \in DOMAIN toServer'[s] : ~IsLogin(toServer'[s][i])
    <3>1. toServer[s] \in Seq(Packets)
      BY <1>ty
    <3> QED BY <1>1, <3>1, TailElements DEF Handles, Settled
  <2> QED BY <1>0, <1>1, <2>1, <2>2 DEF Handles, Settled, IsLogin
<1>2. CASE ThreadReads(s)
  <2>1. pc[s] = "read" /\ pc'[s] = "wait" /\ u' = u /\ u[s] = usr_id[s]
    BY <1>ty, <1>2 DEF ThreadReads, Settled
  <2>2. CASE /\ toServer[s] # <<>>
             /\ pkt'[s] = Head(toServer[s]) /\ toServer'[s] = Tail(toServer[s])
    <3>1. toServer[s] \in Seq(Packets)
      BY <1>ty
    <3>2. ~IsLogin(Head(toServer[s]))
      BY <2>2, <3>1, TailElements DEF Settled
    <3>3. \A i \in DOMAIN toServer'[s] : ~IsLogin(toServer'[s][i])
      BY <2>2, <3>1, TailElements DEF Settled
    <3>4. ~IsLogin(pkt[s])'
      BY <2>2, <3>2 DEF IsLogin
    <3> QED BY <1>0, <2>1, <3>3, <3>4 DEF Settled, IsLogin
  <2>3. CASE ServerEof(s) /\ UNCHANGED <<pkt, toServer>>
    <3>1. pkt[s].type = "F"
      BY <2>3 DEF ServerEof, Storing
    <3> QED BY <1>0, <2>1, <2>3, <3>1 DEF Settled, IsLogin
  <2> QED BY <1>ty, <1>2, <2>2, <2>3 DEF ThreadReads, ServerTakes
<1>3. CASE Finish(s)
  <2>1. /\ UNCHANGED <<toServer, pkt>> /\ pc[s] = "finish"
        /\ pc'[s] \in {"read", "exit"}
        /\ \/ ret[s] < 0 /\ u' = u
           \/ ret[s] >= 0
              /\ u'[s] = IF IsLogin(pkt[s]) THEN ret[s] ELSE u[s]
    BY <1>ty, <1>3 DEF Finish, net, IsLogin
  <2>2. u'[s] = usr_id[s]
    BY <1>ty, <2>1 DEF Settled
  <2> QED BY <1>0, <2>1, <2>2 DEF Settled, IsLogin
<1> QED BY <1>1, <1>2, <1>3, ThreadShapes

\* A packet that announces an image is not made by reading.
LEMMA StoringStep ==
    ASSUME TypeOK, NEW s \in Sessions, ThreadStep(s) \/ SEM_wait(s),
           Storing(s)'
    PROVE  Storing(s)
<1>ty. /\ pc \in [Sessions -> Labels] /\ pkt \in [Sessions -> Packets]
       /\ toServer \in [Sessions -> Seq(Packets)]
  BY DEF TypeOK, ThreadTypeOK, NetTypeOK
<1>1. \/ UNCHANGED <<pkt, toServer>>
      \/ /\ toServer[s] # <<>> /\ toServer'[s] = Tail(toServer[s])
         /\ pkt'[s] \in {pkt[s], Head(toServer[s])}
  BY <1>ty, ThreadShapes DEF ThreadReads, ServerTakes, Finish, Handles, net
<1>2. toServer[s] \in Seq(Packets)
  BY <1>ty
<1>3. CASE UNCHANGED <<pkt, toServer>>
  BY <1>3 DEF Storing
<1>4. CASE /\ toServer[s] # <<>> /\ toServer'[s] = Tail(toServer[s])
           /\ pkt'[s] \in {pkt[s], Head(toServer[s])}
  <2>1. /\ 1 \in DOMAIN toServer[s]
        /\ pkt'[s] = pkt[s] \/ pkt'[s] = toServer[s][1]
        /\ \A i \in DOMAIN toServer'[s] :
              /\ i + 1 \in DOMAIN toServer[s]
              /\ toServer'[s][i] = toServer[s][i + 1]
    BY <1>2, <1>4, TailElements
  <2> QED BY <2>1 DEF Storing
<1> QED BY <1>1, <1>3, <1>4

\* The login of a client that waits for its answer, through its thread.
LEMMA AnswerStep ==
    ASSUME IInv, Positive, NEW s \in Sessions, cli[s] = "login",
           AnswerUnderWay(s), ThreadStep(s) \/ SEM_wait(s)
    PROVE  AnswerUnderWay(s)'
<1>ty. /\ pc \in [Sessions -> Labels] /\ pkt \in [Sessions -> Packets]
       /\ u \in [Sessions -> Nat] /\ out \in [Sessions -> Packets]
       /\ ret \in [Sessions -> Int]
       /\ toServer \in [Sessions -> Seq(Packets)]
       /\ toClient \in [Sessions -> Seq(Packets)]
  BY DEF IInv, TypeOK, ThreadTypeOK, NetTypeOK
<1>0. pc[s] # "dead"
  BY ThreadShapes DEF IInv
<1>p. \A usr : IsLogin(Pkt("C", usr))
  BY DEF Pkt, IsLogin
<1>1. CASE ThreadReads(s)
  <2>1. /\ pc[s] = "read" /\ pc'[s] = "wait" /\ toServer[s] # <<>>
        /\ toClient' = toClient
        /\ pkt'[s] = Head(toServer[s]) /\ toServer'[s] = Tail(toServer[s])
    BY <1>ty, <1>1 DEF ThreadReads, ServerTakes, ServerEof
  <2>2. toServer[s] = <<Pkt("C", user[s])>> /\ toClient[s] = <<>>
    BY <2>1 DEF AnswerUnderWay
  <2>3. pkt'[s] = Pkt("C", user[s]) /\ toServer'[s] = <<>>
    BY <2>1, <2>2
  <2>4. IsLogin(pkt[s])'
    BY <2>3 DEF IsLogin, Pkt
  <2> QED BY <2>1, <2>2, <2>3, <2>4 DEF AnswerUnderWay
<1>2. CASE SEM_wait(s)
  <2>1. /\ UNCHANGED <<toClient, toServer, pkt>>
        /\ pc[s] = "wait" /\ pc'[s] = "check"
    BY <1>ty, <1>2 DEF SEM_wait, net
  <2> QED BY <2>1 DEF AnswerUnderWay, IsLogin
<1>3. CASE LOGIN_loginOK(s)
  <2>1. UNCHANGED <<toClient, toServer, pkt>> /\ pc[s] = "check"
    BY <1>3 DEF LOGIN_loginOK, net
  <2> PICK usr \in Parses(s) :
        \/ /\ STORAGE_getID(usr) >= 0
           /\ Decide(s, Pkt("O", STORAGE_getID(usr)), STORAGE_getID(usr))
        \/ pc' = [pc EXCEPT ![s] = "register"]
    BY <1>3 DEF LOGIN_loginOK
  <2>2. CASE pc' = [pc EXCEPT ![s] = "register"]
    <3>1. pc'[s] = "register"
      BY <1>ty, <2>2
    <3> QED BY <2>1, <3>1 DEF AnswerUnderWay, IsLogin
  <2>3. CASE /\ STORAGE_getID(usr) >= 0
             /\ Decide(s, Pkt("O", STORAGE_getID(usr)), STORAGE_getID(usr))
    <3>1. usr \in DOMAIN map /\ STORAGE_getID(usr) = map[usr]
      BY <2>3 DEF STORAGE_getID
    <3>2. map[usr] > 0
      BY <2>1, <3>1 DEF Positive, IInv, Phases
    <3>3. /\ pc'[s] = "reply" /\ ret'[s] = map[usr]
          /\ out'[s] = Pkt("O", map[usr])
      BY <1>ty, <2>3, <3>1 DEF Decide
    <3>4. out'[s] = Pkt("O", ret'[s]) /\ ret'[s] > 0
      BY <3>2, <3>3
    <3> QED BY <2>1, <3>3, <3>4 DEF AnswerUnderWay, IsLogin, Pkt
  <2> QED BY <2>2, <2>3
<1>4. CASE RegisterUser(s)
  <2>1. /\ UNCHANGED <<toClient, toServer, pkt>>
        /\ pc[s] = "register" /\ pc'[s] = "reply"
        /\ out'[s] = Pkt("O", ret[s]) /\ ret'[s] = ret[s]
    BY <1>ty, <1>4 DEF RegisterUser, Decide, net
  <2>2. ret[s] > 0
    BY <2>1 DEF Positive, Registering
  <2> QED BY <2>1, <2>2 DEF AnswerUnderWay, IsLogin, Pkt
<1>5. CASE Reply(s)
  <2>1. /\ UNCHANGED <<toServer, pkt, ret>> /\ pc[s] = "reply"
        /\ ServerWrites(s, out[s])
        /\ pc'[s] = After(s)
    BY <1>ty, <1>5 DEF Reply
  <2>2. /\ out[s] = Pkt("O", ret[s]) /\ ret[s] > 0
        /\ toServer[s] = <<>> /\ toClient[s] = <<>> /\ IsLogin(pkt[s])
    BY <2>1 DEF AnswerUnderWay
  <2>3. pc'[s] = "finish"
    BY <2>1, <2>2 DEF Pkt, After
  <2>4. toClient'[s] = <<Pkt("O", ret[s])>>
    <3>1. toClient'[s] = Append(toClient[s], out[s])
      BY <1>ty, <2>1 DEF ServerWrites
    <3> QED BY <2>2, <3>1
  <2> QED BY <2>1, <2>2, <2>3, <2>4 DEF AnswerUnderWay, IsLogin, Pkt
<1>6. CASE Finish(s)
  <2>1. /\ UNCHANGED <<toServer, toClient>> /\ pc[s] = "finish"
        /\ \/ ret[s] < 0
           \/ /\ pc'[s] = "read"
              /\ u'[s] = IF IsLogin(pkt[s]) THEN ret[s] ELSE u[s]
    BY <1>ty, <1>6 DEF Finish, net, IsLogin
  <2>2. /\ toServer[s] = <<>> /\ IsLogin(pkt[s])
        /\ toClient[s] = <<Pkt("O", ret[s])>> /\ ret[s] > 0
    BY <2>1 DEF AnswerUnderWay
  <2>3. pc'[s] = "read" /\ u'[s] = ret[s]
    BY <1>ty, <2>1, <2>2
  <2> QED BY <2>1, <2>2, <2>3 DEF AnswerUnderWay, Pkt
<1>7. ~CheckSearch(s) /\ ~CheckSend(s) /\ ~CheckPhoto(s)
  BY <1>0 DEF AnswerUnderWay, IsLogin, CheckSearch, CheckSend, CheckPhoto
<1>8. ~CheckQuit(s) /\ ~CheckOther(s)
  BY <1>0 DEF AnswerUnderWay, IsLogin, CheckQuit, CheckOther
<1>9. ~ReceiveChunk(s) /\ ~SendPage(s) /\ ~SendChunk(s) /\ ~ReadAck(s)
  BY <1>0 DEF AnswerUnderWay, ReceiveChunk, SendPage, SendChunk, ReadAck
<1> QED
  BY <1>1, <1>2, <1>3, <1>4, <1>5, <1>6, <1>7, <1>8, <1>9 DEF ThreadStep

\* Before its login is answered a client has announced no image.
LEMMA NotStoring ==
    ASSUME NEW s \in Sessions, OwnerInv(s), cli[s] \in NotConnected
    PROVE  ~Storing(s)
<1>1. CASE cli[s] \in {"off", "conn"}
  BY <1>1 DEF OwnerInv, Storing, NoPkt, Pkt
<1>2. CASE cli[s] = "login"
  <2>1. pkt[s].type # "F"
    BY <1>2 DEF OwnerInv
  <2>2. CASE pc[s] = "dead"
    BY <2>1, <2>2 DEF OwnerInv, Storing
  <2>3. CASE toServer[s] = <<>>
    BY <2>1, <2>3 DEF Storing
  <2>4. CASE toServer[s] = <<Pkt("C", user[s])>>
    BY <2>1, <2>4 DEF Storing, Pkt
  <2> QED BY <1>2, <2>2, <2>3, <2>4 DEF OwnerInv, AnswerUnderWay
<1> QED BY <1>1, <1>2 DEF NotConnected

\* A thread's step keeps what holds of its session.
LEMMA ThreadOwns ==
    ASSUME IInv, Positive, NEW s \in Sessions, OwnerInv(s),
           ThreadStep(s) \/ SEM_wait(s)
    PROVE  OwnerInv(s)'
<1>0. /\ UNCHANGED <<cli, user, usr_id>>
      /\ pc[s] \notin {"none", "dead"} /\ pc'[s] \notin {"none", "dead"}
      /\ TypeOK
  BY ThreadShapes DEF IInv, clientVars
<1>1. CASE cli[s] \in {"off", "conn"}
  <2>1. pc[s] = "read" /\ toServer[s] = <<>> /\ cli[s] # "gone"
    BY <1>0, <1>1 DEF OwnerInv
  <2>2. ~ThreadReads(s) /\ ~Finish(s) /\ ~Handles(s)
    BY <2>1 DEF ThreadReads, ServerEof, Finish, Handles
  <2> QED BY <2>2, <1>0, ThreadShapes
<1>2. CASE cli[s] = "login"
  <2>1. AnswerUnderWay(s)'
    BY <1>2, AnswerStep DEF OwnerInv
  <2>2. ~Storing(s)
    BY <1>2, NotStoring DEF NotConnected
  <2>3. ~Storing(s)'
    BY <1>0, <2>2, StoringStep
  <2>4. (pkt[s].type # "F")'
    BY <2>3 DEF Storing
  <2> QED BY <1>0, <1>2, <2>1, <2>3, <2>4
          DEF OwnerInv, Connected, NotConnected
<1>3. CASE cli[s] \notin NotConnected
  <2>1. CASE cli[s] \in Connected
    <3>1. Settled(s) /\ cli[s] # "gone"
      BY <1>0, <2>1 DEF OwnerInv, Connected
    <3>2. Settled(s)'
      BY <1>0, <3>1, SettledStep
    <3> QED BY <1>0, <1>3, <3>2 DEF OwnerInv, NotConnected
  <2>2. CASE cli[s] \notin Connected
    <3>1. Storing(s)' => Settled(s)'
      BY <1>0, <1>3, StoringStep, SettledStep DEF OwnerInv
    <3> QED BY <1>0, <1>3, <2>2, <3>1 DEF OwnerInv, NotConnected
  <2> QED BY <2>1, <2>2
<1> QED BY <1>1, <1>2, <1>3 DEF NotConnected

----------------------------------------------------------------------------
(* A client's step.                                                        *)

\* What a step of a client leaves alone in its thread.
ThreadKept(s) ==
    /\ pc'[s] = pc[s] /\ pkt'[s] = pkt[s] /\ u'[s] = u[s] /\ ret'[s] = ret[s]

\* A connected client goes on, or leaves, and may write anything but a login.
Speaks(s) ==
    /\ cli[s] \in Connected /\ cli'[s] \in Connected \cup {"gone"}
    /\ ThreadKept(s) /\ usr_id'[s] = usr_id[s]
    /\ \/ toServer'[s] = toServer[s]
       \/ /\ pc[s] # "dead"
          /\ \E p \in Packets :
                ~IsLogin(p) /\ toServer'[s] = Append(toServer[s], p)

\* A client leaves before it is connected.
HangsUp(s) ==
    /\ cli[s] \in {"conn", "login"} /\ cli'[s] = "gone"
    /\ ThreadKept(s) /\ toServer'[s] = toServer[s]

\* What a client writes, in one of the two ways of Speaks.
LEMMA Written ==
    ASSUME TypeOK, NEW s \in Sessions, NEW p \in Packets, ~IsLogin(p),
           ClientWrites(s, p)
    PROVE  \/ toServer'[s] = toServer[s]
           \/ /\ pc[s] # "dead"
              /\ \E q \in Packets :
                    ~IsLogin(q) /\ toServer'[s] = Append(toServer[s], q)
  BY DEF TypeOK, NetTypeOK, ClientWrites

\* Apart from connecting and logging in, a client speaks or leaves.
LEMMA ClientShapes ==
    ASSUME TypeOK, NEW s \in Sessions, FremenStep(s) \/ PersonStep(s)
    PROVE  \/ \E usr \in Typed : Connect(s, usr)
           \/ SendLogin(s) \/ LoginReply(s) \/ Speaks(s) \/ HangsUp(s)
<1>ty. cli \in [Sessions -> Steps]
  BY DEF TypeOK, ClientTypeOK
<1>p. \A t \in {"S", "F", "D", "P", "R", "I", "Q"} : \A n \in Nat :
          Pkt(t, n) \in Packets /\ ~IsLogin(Pkt(t, n))
  BY DEF Pkt, Packets, IsLogin
<1> DEFINE Quietly ==
        \/ toServer'[s] = toServer[s]
        \/ /\ pc[s] # "dead"
           /\ \E q \in Packets :
                 ~IsLogin(q) /\ toServer'[s] = Append(toServer[s], q)
<1>w. \A t \in {"S", "F", "D", "P", "R", "I", "Q"} : \A n \in Nat :
          ClientWrites(s, Pkt(t, n)) => Quietly
  BY <1>p, Written
<1>s. Quietly /\ cli[s] \in Connected /\ cli'[s] \in Connected \cup {"gone"}
      /\ ThreadKept(s) /\ usr_id'[s] = usr_id[s] => Speaks(s)
  BY DEF Speaks
<1>u. toServer' = toServer => Quietly
  OBVIOUS
<1> HIDE DEF Quietly
<1>k. UNCHANGED threadVars => ThreadKept(s)
  BY DEF threadVars, ThreadKept
<1>1. CASE SearchReply(s) \/ SearchMore(s) \/ SendVerdict(s)
  <2>1. UNCHANGED <<threadVars, usr_id, toServer>>
    BY <1>1 DEF SearchReply, SearchMore, SendVerdict
  <2>2. cli[s] \in Connected /\ cli'[s] \in Connected
    BY <1>ty, <1>1
    DEF SearchReply, SearchMore, SendVerdict, ClientStep, Connected, Steps
  <2> QED BY <1>u, <1>k, <1>s, <2>1, <2>2
<1>2. CASE TypeSearch(s) \/ TypeSend(s) \/ WriteChunk(s)
  <2>1. /\ UNCHANGED <<threadVars, usr_id>>
        /\ \/ ClientWrites(s, Pkt("S", 0)) \/ ClientWrites(s, Pkt("F", 0))
           \/ ClientWrites(s, Pkt("D", 0))
    BY <1>2 DEF TypeSearch, TypeSend, WriteChunk
  <2>2. cli[s] \in Connected /\ cli'[s] \in Connected
    BY <1>ty, <1>2
    DEF AtPrompt, TypeSearch, TypeSend, WriteChunk, ClientStep, Connected,
        Steps
  <2> QED BY <1>w, <1>k, <1>s, <2>1, <2>2
<1>3. ASSUME NEW id \in PhotoIds, TypePhoto(s, id) PROVE Speaks(s)
  <2>1. /\ UNCHANGED <<threadVars, usr_id>>
        /\ ClientWrites(s, Pkt("P", id)) /\ id \in Nat
    BY <1>3, PhotoIdsAssumption DEF TypePhoto
  <2>2. cli[s] \in Connected /\ cli'[s] \in Connected
    BY <1>ty, <1>3 DEF AtPrompt, TypePhoto, ClientStep, Connected, Steps
  <2> QED BY <1>w, <1>k, <1>s, <2>1, <2>2
<1>4. CASE PhotoReply(s)
  <2>1. /\ UNCHANGED <<threadVars, usr_id>>
        /\ toServer' = toServer \/ ClientWrites(s, Pkt("R", 0))
    BY <1>4 DEF PhotoReply
  <2>2. cli[s] \in Connected /\ cli'[s] \in Connected
    BY <1>ty, <1>4 DEF PhotoReply, ClientStep, Connected, Steps
  <2> QED BY <1>u, <1>w, <1>k, <1>s, <2>1, <2>2
<1>5. CASE ReadChunk(s)
  <2>1. /\ UNCHANGED <<threadVars, usr_id>>
        /\ \/ toServer' = toServer
           \/ ClientWrites(s, Pkt("I", 0)) \/ ClientWrites(s, Pkt("R", 0))
    BY <1>5 DEF ReadChunk
  <2>2. cli[s] \in Connected /\ cli'[s] \in Connected
    BY <1>ty, <1>5 DEF ReadChunk, ClientStep, Connected, Steps
  <2> QED BY <1>u, <1>w, <1>k, <1>s, <2>1, <2>2
<1>6. CASE LoginFails(s) \/ Interrupt(s) \/ Kill(s)
  <2>1. /\ UNCHANGED <<threadVars, usr_id>> /\ cli'[s] = "gone"
        /\ cli[s] \in Steps \ {"off", "gone"}
    BY <1>ty, <1>6
    DEF LoginFails, Interrupt, Kill, Leaves, ClientStep, Steps
  <2>2. CASE cli[s] \in Connected
    <3>1. toServer' = toServer \/ ClientWrites(s, Pkt("Q", 0))
      BY <1>6, <2>2 DEF LoginFails, Interrupt, Kill, Leaves
    <3> QED BY <1>u, <1>w, <1>k, <1>s, <2>1, <2>2, <3>1
  <2>3. CASE cli[s] \notin Connected
    <3>1. toServer' = toServer /\ cli[s] \in {"conn", "login"}
      BY <1>6, <2>1, <2>3 DEF LoginFails, Interrupt, Kill, Connected
    <3> QED BY <1>k, <2>1, <3>1 DEF HangsUp
  <2> QED BY <2>2, <2>3
<1> QED
  BY <1>1, <1>2, <1>3, <1>4, <1>5, <1>6 DEF FremenStep, PersonStep

\* The packets after one more is written.
LEMMA AppendElements ==
    ASSUME NEW q \in Seq(Packets), NEW p \in Packets
    PROVE  \A i \in DOMAIN Append(q, p) :
               \/ Append(q, p)[i] = p
               \/ i \in DOMAIN q /\ Append(q, p)[i] = q[i]
  OBVIOUS

\* What a connected client writes does not change who its thread takes it for.
LEMMA SpeaksOwns ==
    ASSUME TypeOK, NEW s \in Sessions, OwnerInv(s), Speaks(s)
    PROVE  OwnerInv(s)'
<1>0. /\ cli[s] \in Connected /\ cli'[s] \in Connected \cup {"gone"}
      /\ cli[s] # "off" /\ cli'[s] \notin NotConnected
      /\ pc'[s] = pc[s] /\ pkt'[s] = pkt[s] /\ u'[s] = u[s] /\ ret'[s] = ret[s]
      /\ usr_id'[s] = usr_id[s] /\ pc[s] # "none"
  BY DEF Speaks, ThreadKept, Connected, NotConnected, OwnerInv
<1>1. CASE pc[s] = "dead"
  <2>1. toServer'[s] = <<>> /\ pkt'[s] = NoPkt
    BY <1>0, <1>1 DEF Speaks, OwnerInv
  <2>2. ~Storing(s)'
    BY <2>1 DEF Storing, NoPkt, Pkt
  <2> QED BY <1>0, <1>1, <2>1, <2>2 DEF OwnerInv, NotConnected
<1>2. CASE pc[s] # "dead"
  <2>1. Settled(s)
    BY <1>0, <1>2 DEF OwnerInv
  <2>2. \A i \in DOMAIN toServer'[s] : ~IsLogin(toServer'[s][i])
    <3>1. CASE toServer'[s] = toServer[s]
      BY <2>1, <3>1 DEF Settled
    <3>2. ASSUME NEW p \in Packets, ~IsLogin(p),
                 toServer'[s] = Append(toServer[s], p)
          PROVE  \A i \in DOMAIN toServer'[s] : ~IsLogin(toServer'[s][i])
      <4>1. toServer[s] \in Seq(Packets)
        BY DEF TypeOK, NetTypeOK
      <4>2. \A i \in DOMAIN toServer'[s] :
                \/ toServer'[s][i] = p
                \/ i \in DOMAIN toServer[s] /\ toServer'[s][i] = toServer[s][i]
        BY <3>2, <4>1, AppendElements
      <4> QED BY <2>1, <3>2, <4>2 DEF Settled
    <3> QED BY <3>1, <3>2 DEF Speaks
  <2>3. Settled(s)'
    BY <1>0, <2>1, <2>2 DEF Settled, IsLogin
  <2> QED BY <1>0, <1>2, <2>3 DEF OwnerInv, NotConnected
<1> QED BY <1>1, <1>2

\* A client's step keeps what holds of its session.
LEMMA ClientOwns ==
    ASSUME IInv, NEW s \in Sessions, OwnerInv(s), FremenStep(s) \/ PersonStep(s)
    PROVE  OwnerInv(s)'
<1>ty. /\ TypeOK
       /\ pc \in [Sessions -> Labels] /\ cli \in [Sessions -> Steps]
       /\ usr_id \in [Sessions -> Int]
       /\ toServer \in [Sessions -> Seq(Packets)]
       /\ toClient \in [Sessions -> Seq(Packets)]
  BY DEF IInv, TypeOK, ThreadTypeOK, ClientTypeOK, NetTypeOK
<1>1. ASSUME NEW usr \in Typed, Connect(s, usr) PROVE OwnerInv(s)'
  <2>1. /\ cli[s] = "off" /\ cli'[s] = "conn"
        /\ pc'[s] = "read" /\ UNCHANGED <<pkt, toServer, toClient>>
    BY <1>ty, <1>1 DEF Connect, ClientStep, net
  <2>2. pc[s] = "none"
    BY <2>1 DEF IInv, Phases
  <2>3. toServer[s] = <<>> /\ toClient[s] = <<>> /\ pkt[s] = NoPkt
    BY <2>1, <2>2 DEF OwnerInv
  <2>4. ~Storing(s)'
    BY <2>1, <2>3 DEF Storing, NoPkt, Pkt
  <2> QED BY <2>1, <2>3, <2>4 DEF OwnerInv, Connected
<1>2. CASE SendLogin(s)
  <2>1. /\ cli[s] = "conn" /\ cli'[s] = "login"
        /\ UNCHANGED <<pc, pkt, toClient, user>>
        /\ toServer'[s] = IF pc[s] = "dead" THEN toServer[s]
                          ELSE Append(toServer[s], Pkt("C", user[s]))
    BY <1>ty, <1>2 DEF SendLogin, ClientStep, ClientWrites, threadVars
  <2>2. /\ toServer[s] = <<>> /\ pkt[s] = NoPkt /\ pc[s] \in {"read", "dead"}
        /\ pc[s] # "dead" => toClient[s] = <<>>
    BY <2>1 DEF OwnerInv
  <2>3. pkt'[s].type # "F"
    BY <2>1, <2>2 DEF NoPkt, Pkt
  <2>4. CASE pc[s] = "dead"
    BY <2>1, <2>2, <2>3, <2>4
    DEF OwnerInv, AnswerUnderWay, Connected, NotConnected
  <2>5. CASE pc[s] = "read"
    <3>1. toServer'[s] = <<Pkt("C", user[s])>>
      BY <2>1, <2>2, <2>5
    <3>2. AnswerUnderWay(s)'
      BY <2>1, <2>2, <2>5, <3>1 DEF AnswerUnderWay
    <3> QED BY <2>1, <2>3, <2>5, <3>2 DEF OwnerInv, Connected, NotConnected
  <2> QED BY <2>2, <2>4, <2>5
<1>3. CASE LoginReply(s)
  <2>1. /\ cli[s] = "login" /\ cli'[s] = "idle"
        /\ UNCHANGED <<pc, pkt, u, ret, toServer>>
    BY <1>ty, <1>3 DEF LoginReply, ClientStep, threadVars
  <2>2. ~Storing(s) /\ AnswerUnderWay(s) /\ pc[s] # "none"
    BY <2>1, NotStoring DEF OwnerInv, NotConnected
  <2>3. ~Storing(s)'
    BY <2>1, <2>2 DEF Storing
  <2>4. CASE pc[s] = "dead"
    BY <2>1, <2>2, <2>3, <2>4 DEF OwnerInv, NotConnected
  <2>5. CASE pc[s] # "dead"
    <3>1. /\ toClient[s] # <<>>
          /\ usr_id'[s] = IF /\ Head(toClient[s]).type = "O"
                             /\ Head(toClient[s]).arg > 0
                          THEN Head(toClient[s]).arg ELSE usr_id[s]
      BY <1>ty, <1>3, <2>5 DEF LoginReply, ClientEof
    <3>2. ASSUME NEW n, n > 0, toClient[s] = <<Pkt("O", n)>>
          PROVE  usr_id'[s] = n
      <4>1. Head(toClient[s]) = Pkt("O", n)
        BY <3>2
      <4> QED BY <3>1, <3>2, <4>1 DEF Pkt
    <3>3. /\ toServer[s] = <<>>
          /\ \/ pc[s] = "finish" /\ IsLogin(pkt[s]) /\ ret[s] > 0
                /\ toClient[s] = <<Pkt("O", ret[s])>>
             \/ pc[s] = "read" /\ u[s] > 0 /\ toClient[s] = <<Pkt("O", u[s])>>
      BY <2>2, <2>5, <3>1 DEF AnswerUnderWay
    <3>4. /\ pc[s] \in {"read", "finish"}
          /\ IF pc[s] = "finish" THEN ret[s] = usr_id'[s] /\ ret[s] > 0
             ELSE u[s] = usr_id'[s]
      BY <3>2, <3>3
    <3>5. IsLogin(pkt[s]) \/ pc[s] = "read"
      BY <3>3
    <3>6. ret[s] > 0 => ret[s] >= 0
      BY DEF IInv, TypeOK, ThreadTypeOK
    <3>7. Settled(s)'
      BY <2>1, <3>3, <3>4, <3>5, <3>6 DEF Settled, IsLogin
    <3> QED BY <2>1, <2>2, <2>3, <2>5, <3>7 DEF OwnerInv, NotConnected
  <2> QED BY <2>4, <2>5
<1>4. CASE HangsUp(s)
  <2>1. /\ cli[s] \in {"conn", "login"} /\ cli'[s] = "gone"
        /\ pc'[s] = pc[s] /\ pkt'[s] = pkt[s] /\ toServer'[s] = toServer[s]
    BY <1>4 DEF HangsUp, ThreadKept
  <2>2. ~Storing(s)
    BY <2>1, NotStoring DEF NotConnected
  <2>3. ~Storing(s)'
    BY <2>1, <2>2 DEF Storing
  <2>4. pc[s] # "none"
    BY <2>1 DEF OwnerInv
  <2> QED BY <2>1, <2>3, <2>4 DEF OwnerInv, Connected
<1>5. CASE Speaks(s)
  BY <1>ty, <1>5, SpeaksOwns
<1> QED BY <1>ty, <1>1, <1>2, <1>3, <1>4, <1>5, ClientShapes

----------------------------------------------------------------------------
(* The end of the server, and every step.                                  *)

\* What holds of a session holds after a step that leaves it alone.
LEMMA SameOwns ==
    ASSUME NEW t \in Sessions, OwnerInv(t), Same(t)
    PROVE  OwnerInv(t)'
<1> USE DEF Same
<1>1. AnswerUnderWay(t) => AnswerUnderWay(t)'
  BY DEF AnswerUnderWay, IsLogin
<1>2. Settled(t) => Settled(t)'
  BY DEF Settled, IsLogin
<1>3. Storing(t)' => Storing(t)
  BY DEF Storing
<1> QED BY <1>1, <1>2, <1>3 DEF OwnerInv

\* With the process end the threads and what was sent to them.
LEMMA DieOwns ==
    ASSUME IInv, NEW s \in Sessions, OwnerInv(s), Die,
           pc[s] = "none" => toClient'[s] = toClient[s]
    PROVE  OwnerInv(s)'
<1>1. /\ cli' = cli /\ pkt'[s] = NoPkt /\ toServer'[s] = <<>>
      /\ pc'[s] = IF pc[s] = "none" THEN "none" ELSE "dead"
  BY DEF Die, clientVars
<1>2. ~Storing(s)' /\ pkt'[s].type # "F"
  BY <1>1 DEF Storing, NoPkt, Pkt
<1>3. pc'[s] # "dead" => cli[s] = "off" /\ toClient'[s] = <<>>
  <2> SUFFICES ASSUME pc[s] = "none"
               PROVE  cli[s] = "off" /\ toClient'[s] = <<>>
    BY <1>1
  <2> QED BY DEF OwnerInv
<1>4. pc'[s] \in {"none", "dead"} /\ (cli[s] # "off" => pc'[s] = "dead")
  BY <1>1, <1>3
<1> QED BY <1>1, <1>2, <1>3, <1>4
        DEF OwnerInv, AnswerUnderWay, Connected, NotConnected

\* Every step keeps it for every session.
LEMMA OwnerNext ==
    ASSUME IInv, OwnerIInv, [Next]_vars
    PROVE  OwnerIInv'
<1>ty. TypeOK /\ Positive /\ \A t \in Sessions : OwnerInv(t)
  BY DEF IInv, OwnerIInv
<1>1. CASE UNCHANGED vars
  <2>1. Positive'
    BY <1>ty, <1>1
    DEF Positive, Registering, vars, storageVars, serverVars, threadVars
  <2>2. \A t \in Sessions : Same(t)
    BY <1>1 DEF Same, vars, threadVars, clientVars, net, history
  <2>3. \A t \in Sessions : OwnerInv(t)'
    BY <1>ty, <2>2, SameOwns
  <2> QED BY <2>1, <2>3 DEF OwnerIInv
<1>2. CASE Next
  <2>1. Positive'
    BY <1>ty, <1>2, PositiveStep
  <2>2. ASSUME NEW t \in Sessions PROVE OwnerInv(t)'
    <3>1. ASSUME NEW s \in Sessions, ThreadStep(s) \/ SEM_wait(s)
          PROVE  OwnerInv(t)'
      <4>1. CASE s = t
        BY <1>ty, <3>1, <4>1, ThreadOwns
      <4>2. CASE s # t
        BY <1>ty, <3>1, <4>2, ThreadTouchesOne, SameOwns
      <4> QED BY <4>1, <4>2
    <3>2. ASSUME NEW s \in Sessions, FremenStep(s) \/ PersonStep(s)
          PROVE  OwnerInv(t)'
      <4>1. CASE s = t
        BY <1>ty, <3>2, <4>1, ClientOwns
      <4>2. CASE s # t
        BY <1>ty, <3>2, <4>2, ClientTouchesOne, SameOwns
      <4> QED BY <4>1, <4>2
    <3>3. ASSUME Die, UNCHANGED toClient PROVE OwnerInv(t)'
      BY <1>ty, <3>3, DieOwns
    <3>4. CASE exitAtreides
      <4>1. Die
        BY <3>4 DEF exitAtreides
      <4>2. pc[t] = "none" => toClient'[t] = toClient[t]
        BY <3>4 DEF exitAtreides, Alive
      <4> QED BY <1>ty, <4>1, <4>2, DieOwns
    <3>5. CASE Restart
      <4>1. Same(t)
        BY <3>5 DEF Restart, Same, threadVars, clientVars, net, history
      <4> QED BY <1>ty, <4>1, SameOwns
    <3> QED
      BY <1>2, <3>1, <3>2, <3>3, <3>4, <3>5
      DEF Next, SessionStep, Sigpipe, Crash
  <2> QED BY <2>1, <2>2 DEF OwnerIInv
<1> QED BY <1>1, <1>2

----------------------------------------------------------------------------
(* The theorem.                                                            *)

\* It holds at the start.
LEMMA OwnerInit ==
    ASSUME Init
    PROVE  OwnerIInv
<1>1. Positive
  BY DEF Init, StorageInit, Positive, Registering
<1>2. ASSUME NEW s \in Sessions PROVE OwnerInv(s)
  BY DEF Init, OwnerInv, Connected, NotConnected
<1> QED BY <1>1, <1>2 DEF OwnerIInv

\* Only a thread that takes an image adds one, under its u.
LEMMA ImagesFromSend ==
    ASSUME IInv, Next, NEW id \in imgs' \ imgs
    PROVE  \E s \in Sessions :
              /\ pc[s] = "check" /\ pc'[s] = "recv"
              /\ pkt[s].type = "F" /\ u[s] = id
<1>ty. TypeOK /\ pc \in [Sessions -> Labels]
  BY DEF IInv, TypeOK, ThreadTypeOK
<1>1. ASSUME NEW s \in Sessions, CheckSend(s)
      PROVE  /\ pc[s] = "check" /\ pc'[s] = "recv"
             /\ pkt[s].type = "F" /\ u[s] = id
  BY <1>ty, <1>1 DEF CheckSend
<1>2. ASSUME NEW s \in Sessions, ThreadStep(s) \/ SEM_wait(s), ~CheckSend(s)
      PROVE  FALSE
  <2>1. CASE ThreadReads(s) \/ SEM_wait(s) \/ Finish(s)
    BY <2>1 DEF ThreadReads, SEM_wait, Finish, serverVars
  <2>2. CASE LOGIN_loginOK(s) \/ RegisterUser(s) \/ CheckSearch(s)
    BY <2>2 DEF LOGIN_loginOK, RegisterUser, CheckSearch, serverVars
  <2>3. CASE ReceiveChunk(s)
    BY <2>3 DEF ReceiveChunk
  <2>4. CASE SendPage(s) \/ CheckPhoto(s) \/ SendChunk(s) \/ ReadAck(s)
    BY <2>4 DEF SendPage, CheckPhoto, SendChunk, ReadAck, serverVars
  <2>5. CASE CheckQuit(s) \/ CheckOther(s) \/ Reply(s)
    BY <2>5 DEF CheckQuit, CheckOther, Reply, serverVars
  <2> QED BY <1>2, <2>1, <2>2, <2>3, <2>4, <2>5 DEF ThreadStep
<1>3. ASSUME NEW s \in Sessions, FremenStep(s) \/ PersonStep(s)
      PROVE  FALSE
  <2>1. ASSUME NEW usr \in Typed, Connect(s, usr) PROVE FALSE
    BY <2>1 DEF Connect, serverVars
  <2>2. CASE SendLogin(s) \/ LoginReply(s) \/ SearchReply(s) \/ WriteChunk(s)
    BY <2>2 DEF SendLogin, LoginReply, SearchReply, WriteChunk, serverVars
  <2>3. CASE SearchMore(s) \/ SendVerdict(s) \/ PhotoReply(s) \/ ReadChunk(s)
    BY <2>3 DEF SearchMore, SendVerdict, PhotoReply, ReadChunk, serverVars
  <2>4. CASE TypeSearch(s) \/ TypeSend(s) \/ \E n \in PhotoIds : TypePhoto(s, n)
    BY <2>4 DEF TypeSearch, TypeSend, TypePhoto, serverVars
  <2>5. CASE LoginFails(s) \/ Interrupt(s) \/ Kill(s)
    BY <2>5 DEF LoginFails, Interrupt, Kill, Leaves, serverVars
  <2> QED
    BY <1>3, <2>1, <2>2, <2>3, <2>4, <2>5 DEF FremenStep, PersonStep
<1>4. ~Die /\ ~Restart
  BY DEF Die, Restart
<1> QED
  BY <1>1, <1>2, <1>3, <1>4
  DEF Next, SessionStep, Sigpipe, Crash, exitAtreides

\* A session's identifier, its thread's and the one in transit agree in every
\* behaviour.
THEOREM OwnerInvariant == Spec => [](IInv /\ OwnerIInv)
<1>1. Init => IInv /\ OwnerIInv
  BY InitIInv, OwnerInit
<1>2. IInv /\ OwnerIInv /\ [Next]_vars => (IInv /\ OwnerIInv)'
  BY NextIInv, OwnerNext
<1> QED BY <1>1, <1>2, PTL DEF Spec

\* An image is created only under the identifier that the client who sent it
\* was told, over lost replies, replays and restarts.
THEOREM ImagesAttributed == Spec => Attributed
<1>1. IInv /\ OwnerIInv /\ [Next]_vars
      => [\A id \in imgs' \ imgs :
             \E s \in Sessions : /\ pc[s] = "check" /\ pc'[s] = "recv"
                                 /\ usr_id[s] = id]_vars
  <2> SUFFICES ASSUME IInv, OwnerIInv, Next, NEW id \in imgs' \ imgs
               PROVE  \E s \in Sessions :
                         /\ pc[s] = "check" /\ pc'[s] = "recv"
                         /\ usr_id[s] = id
    OBVIOUS
  <2> PICK s \in Sessions : /\ pc[s] = "check" /\ pc'[s] = "recv"
                            /\ pkt[s].type = "F" /\ u[s] = id
    BY ImagesFromSend
  <2>1. OwnerInv(s) /\ Storing(s)
    BY DEF OwnerIInv, Storing
  <2>2. Settled(s)
    BY <2>1, NotStoring DEF OwnerInv
  <2>3. u[s] = usr_id[s]
    BY <2>2 DEF Settled
  <2> QED BY <2>3
<1> QED BY <1>1, OwnerInvariant, PTL DEF Spec, Attributed

----------------------------------------------------------------------------
(* The content of both directions of a connection, and whose turn it is.   *)

\* Packets of an image, and nothing else.
Data(q) == \A i \in DOMAIN q : q[i].type = "D"

\* All that a client at this step has written of its command, of which n packets
\* are to come: p is the first, q are those behind it.
Request(step, n, p, q) ==
    \/ step = "search" /\ p.type = "S" /\ q = <<>>
    \/ step = "photo" /\ p.type = "P" /\ q = <<>>
    \/ /\ step \in {"upload", "verdict"} /\ p.type = "F"
       /\ Data(q) /\ Len(q) + n = Chunks

Requested(step, n, q) ==
    IF step = "idle" THEN q = <<>>
    ELSE q # <<>> /\ Request(step, n, Head(q), Tail(q))

\* The connection holds what the client asked for, and the thread will read it,
\* after the acknowledgement of an image if it still waits for that.
Asking(s) ==
    /\ toClient[s] = <<>>
    /\ \/ /\ pc[s] \in {"read", "finish"}
          /\ Requested(cli[s], todo[s], toServer[s])
       \/ /\ pc[s] = "ack"
          /\ toServer[s] # <<>> /\ Head(toServer[s]).type = "I"
          /\ Requested(cli[s], todo[s], Tail(toServer[s]))

\* The thread has read the first packet.
Handling(s) ==
    /\ pc[s] \in {"wait", "check"} /\ toClient[s] = <<>>
    /\ Request(cli[s], todo[s], pkt[s], toServer[s])

\* It receives as many more as the client has written or will.
Receiving(s) ==
    /\ pc[s] = "recv" /\ cli[s] \in {"upload", "verdict"}
    /\ toClient[s] = <<>>
    /\ Data(toServer[s]) /\ Len(toServer[s]) + todo[s] = left[s]

\* Of the pages of an answer the client will read n and the thread will have
\* written m: as many, or one less when the client waits for one too many.
Due(s, n, m) == n = m \/ (s \in late /\ n = m + 1)

\* The answer is decided.  An image is refused before its packets are read, and
\* the thread ends.
Deciding(s) ==
    /\ pc[s] = "reply" /\ toClient[s] = <<>>
    /\ \/ /\ cli[s] = "search" /\ toServer[s] = <<>> /\ out[s].type = "L"
          /\ out[s].arg \in Nat \ {0} /\ Due(s, out[s].arg - 1, left[s])
       \/ cli[s] = "verdict" /\ toServer[s] = <<>> /\ out[s].type = "I"
       \/ /\ cli[s] \in {"upload", "verdict"} /\ pkt[s].type = "F"
          /\ out[s].type = "R" /\ ret[s] < 0
       \/ /\ cli[s] = "photo" /\ pkt[s].type = "P" /\ toServer[s] = <<>>
          /\ \/ out[s] = Pkt("F", 1) /\ left[s] = Chunks
             \/ out[s] = Pkt("F", 0) /\ ret[s] < 0

\* The image is acknowledged.
Told(s) ==
    /\ pc[s] \in {"finish", "read"} /\ toServer[s] = <<>>
    /\ cli[s] = "verdict"
    /\ Len(toClient[s]) = 1 /\ Head(toClient[s]).type = "I"

\* Pages but for the first, and nothing else.
Pages(q) == \A i \in DOMAIN q : q[i] = Pkt("L", 0)

\* The pages that the thread has still to write.
ToWrite(s) == IF pc[s] = "pages" THEN left[s] ELSE 0

\* The answer to a search is in the connection, what the client has not read of
\* it and the thread has written.
Paging(s) ==
    /\ pc[s] \in {"pages", "finish", "read"} /\ toServer[s] = <<>>
    /\ \/ /\ cli[s] = "search" /\ toClient[s] # <<>>
          /\ Head(toClient[s]).type = "L"
          /\ Head(toClient[s]).arg \in Nat \ {0}
          /\ Pages(Tail(toClient[s]))
          /\ Due(s, Head(toClient[s]).arg - 1,
                 Len(Tail(toClient[s])) + ToWrite(s))
       \/ /\ cli[s] = "more" /\ Pages(toClient[s])
          /\ Due(s, todo[s], Len(toClient[s]) + ToWrite(s))

\* The thread that refused the image writes no more, and the client reads at
\* most the refusal.
Dismissed(s) ==
    /\ pc[s] = "finish" /\ ret[s] < 0
    /\ \/ /\ toClient[s] = <<>>
          /\ cli[s] \in {"idle", "search", "upload", "verdict", "photo"}
       \/ Len(toClient[s]) = 1 /\ cli[s] \in {"upload", "verdict"}

\* A photo is in the connection, its header too, and the thread has the rest.
Announced(s) ==
    /\ cli[s] = "photo" /\ pc[s] \in {"send", "ack"} /\ pkt[s].type = "P"
    /\ toServer[s] = <<>>
    /\ toClient[s] # <<>> /\ Head(toClient[s]) = Pkt("F", 1)
    /\ Data(Tail(toClient[s])) /\ Len(Tail(toClient[s])) + left[s] = Chunks

\* Of a photo the client waits for what is in the connection or with the thread.
Downloading(s) ==
    /\ cli[s] = "download" /\ pc[s] \in {"send", "ack"} /\ pkt[s].type = "P"
    /\ toServer[s] = <<>>
    /\ Data(toClient[s]) /\ Len(toClient[s]) + left[s] = todo[s]

\* The photo was refused, or not found, and the thread will end.  In between the
\* client may take anything for anything.
Refused(s) ==
    /\ pkt[s].type = "P"
    /\ \/ /\ pc[s] \in {"send", "ack"}
          /\ toServer[s] # <<>> /\ Head(toServer[s]).type # "I"
       \/ pc[s] = "finish" /\ ret[s] < 0

Together(s) ==
    \/ Asking(s) \/ Handling(s) \/ Receiving(s) \/ Deciding(s) \/ Told(s)
    \/ Paging(s) \/ Dismissed(s) \/ Announced(s) \/ Downloading(s) \/ Refused(s)

InTurn(s) ==
    /\ cli[s] = "verdict" => todo[s] = 0
    /\ cli[s] \in Connected /\ pc[s] \notin {"exit", "dead"}
       /\ s \notin early => Together(s)

TurnsIInv == \A s \in Sessions : InTurn(s)

----------------------------------------------------------------------------
(* Packets taken and written.                                              *)

LEMMA DataTaken ==
    ASSUME NEW q \in Seq(Packets), q # <<>>
    PROVE  /\ Tail(q) \in Seq(Packets)
           /\ Len(q) \in Nat /\ Len(q) > 0 /\ Len(Tail(q)) = Len(q) - 1
           /\ Data(q) => Head(q).type = "D" /\ Data(Tail(q))
<1>1. /\ 1 \in DOMAIN q /\ Head(q) = q[1] /\ Tail(q) \in Seq(Packets)
      /\ Len(q) \in Nat /\ Len(q) > 0 /\ Len(Tail(q)) = Len(q) - 1
  OBVIOUS
<1>2. \A i \in DOMAIN Tail(q) : i + 1 \in DOMAIN q /\ Tail(q)[i] = q[i + 1]
  BY TailElements
<1> QED BY <1>1, <1>2 DEF Data

LEMMA DataWritten ==
    ASSUME NEW q \in Seq(Packets), NEW p \in Packets
    PROVE  /\ Append(q, p) # <<>> /\ Append(q, p) \in Seq(Packets)
           /\ Len(Append(q, p)) = Len(q) + 1 /\ Len(q) \in Nat
           /\ q = <<>> => Head(Append(q, p)) = p /\ Tail(Append(q, p)) = <<>>
           /\ q # <<>> => /\ Head(Append(q, p)) = Head(q)
                          /\ Tail(Append(q, p)) = Append(Tail(q), p)
           /\ Data(q) /\ p.type = "D" => Data(Append(q, p))
<1>1. /\ Append(q, p) # <<>> /\ Append(q, p) \in Seq(Packets)
      /\ Len(Append(q, p)) = Len(q) + 1 /\ Len(q) \in Nat
  OBVIOUS
<1>2. q = <<>> => Head(Append(q, p)) = p /\ Tail(Append(q, p)) = <<>>
  OBVIOUS
<1>3. q # <<>> => /\ Head(Append(q, p)) = Head(q)
                  /\ Tail(Append(q, p)) = Append(Tail(q), p)
  OBVIOUS
<1>4. Data(q) /\ p.type = "D" => Data(Append(q, p))
  BY AppendElements DEF Data
<1> QED BY <1>1, <1>2, <1>3, <1>4

LEMMA PagesTaken ==
    ASSUME NEW q \in Seq(Packets), q # <<>>, Pages(q)
    PROVE  Head(q) = Pkt("L", 0) /\ Pages(Tail(q))
<1>1. 1 \in DOMAIN q /\ Head(q) = q[1]
  OBVIOUS
<1>2. \A i \in DOMAIN Tail(q) : i + 1 \in DOMAIN q /\ Tail(q)[i] = q[i + 1]
  BY TailElements
<1> QED BY <1>1, <1>2 DEF Pages

LEMMA PagesWritten ==
    ASSUME NEW q \in Seq(Packets), Pages(q), Pkt("L", 0) \in Packets
    PROVE  /\ Pages(Append(q, Pkt("L", 0)))
           /\ Len(Append(q, Pkt("L", 0))) = Len(q) + 1 /\ Len(q) \in Nat
<1>1. Len(Append(q, Pkt("L", 0))) = Len(q) + 1 /\ Len(q) \in Nat
  OBVIOUS
<1> QED BY <1>1, AppendElements DEF Pages

----------------------------------------------------------------------------
(* A thread's step keeps the connection in turn.                           *)

\* The types of what a session's turn is about.
TurnTypes(s) ==
    /\ pc[s] \in Labels /\ cli[s] \in Steps
    /\ pkt[s] \in Packets /\ out[s] \in Packets
    /\ toServer[s] \in Seq(Packets) /\ toClient[s] \in Seq(Packets)
    /\ left[s] \in Nat /\ todo[s] \in Nat /\ ret[s] \in Int

LEMMA TypesOfTurn ==
    ASSUME TypeOK, NEW s \in Sessions
    PROVE  TurnTypes(s)
  BY DEF TypeOK, ThreadTypeOK, ClientTypeOK, NetTypeOK, TurnTypes

\* A step of a thread leaves its client as it is.
ClientKept(s) == cli'[s] = cli[s] /\ todo'[s] = todo[s]

\* It reads the first packet of a command.
LEMMA ReadTurn ==
    ASSUME TypeOK, NEW s \in Sessions, Together(s), cli[s] \in Connected,
           ThreadReads(s)
    PROVE  Together(s)'
<1>ty. TurnTypes(s)
  BY TypesOfTurn
<1>1. /\ pc[s] = "read" /\ pc'[s] = "wait" /\ ClientKept(s)
      /\ toClient'[s] = toClient[s] /\ toServer[s] # <<>>
      /\ pkt'[s] = Head(toServer[s]) /\ toServer'[s] = Tail(toServer[s])
  BY DEF TypeOK, ThreadTypeOK, NetTypeOK, ThreadReads, ServerTakes, ServerEof,
         clientVars, ClientKept, Connected
<1>2. Asking(s) \/ Told(s)
  BY <1>1
  DEF Together, Paging, Handling, Receiving, Deciding, Dismissed, Announced,
      Downloading, Refused
<1>3. toClient[s] = <<>> /\ Requested(cli[s], todo[s], toServer[s])
  BY <1>1, <1>2 DEF Asking, Told
<1>4. Request(cli[s], todo[s], Head(toServer[s]), Tail(toServer[s]))
  BY <1>1, <1>3 DEF Requested
<1>5. Handling(s)'
  BY <1>1, <1>3, <1>4 DEF Handling, ClientKept
<1> QED BY <1>5 DEF Together

LEMMA WaitTurn ==
    ASSUME TypeOK, NEW s \in Sessions, Together(s), SEM_wait(s)
    PROVE  Together(s)'
<1>1. /\ pc[s] = "wait" /\ pc'[s] = "check"
      /\ UNCHANGED <<pkt, toServer, toClient, cli, todo>>
  BY DEF TypeOK, ThreadTypeOK, SEM_wait, clientVars, net
<1>2. Handling(s)
  BY <1>1
  DEF Together, Paging, Asking, Receiving, Deciding, Told, Dismissed,
      Announced, Downloading, Refused
<1>3. Handling(s)'
  BY <1>1, <1>2 DEF Handling
<1> QED BY <1>3 DEF Together

\* A thread that checks a packet has the first of its client's command.
LEMMA CheckedTurn ==
    ASSUME NEW s \in Sessions, Together(s), pc[s] = "check"
    PROVE  /\ toClient[s] = <<>> /\ pkt[s].type \in {"S", "P", "F"}
           /\ Request(cli[s], todo[s], pkt[s], toServer[s])
<1>1. Handling(s)
  BY DEF Together, Paging, Asking, Receiving, Deciding, Told, Dismissed,
         Announced, Downloading, Refused
<1> QED BY <1>1 DEF Handling, Request

LEMMA SearchTurn ==
    ASSUME TypeOK, NEW s \in Sessions, Together(s), CheckSearch(s),
           s \notin early'
    PROVE  Together(s)'
<1> PICK a \in Answers :
      /\ Decide(s, Pkt("L", a.reads), 1)
      /\ left' = [left EXCEPT ![s] = a.pages - 1]
      /\ early' = early \cup {t \in {s} : a.reads < a.pages}
      /\ late' = late \cup {t \in {s} : a.reads > a.pages}
  BY DEF CheckSearch
<1>a. a.pages \in Nat \ {0} /\ a.reads \in Nat \ {0} /\ a.reads <= a.pages + 1
  <2>1. a \in [pages : Nat \ {0}, reads : Nat \ {0}]
    BY AnswersAssumption
  <2>2. a.reads <= a.pages + 1
    BY AnswersAssumption
  <2> QED BY <2>1, <2>2
<1>b. /\ pc'[s] = "reply" /\ out'[s] = Pkt("L", a.reads)
      /\ left'[s] = a.pages - 1
  BY DEF TypeOK, ThreadTypeOK, Decide
<1>c. /\ pc[s] = "check" /\ pkt[s].type = "S"
      /\ UNCHANGED <<toServer, toClient, cli, todo>>
  BY DEF CheckSearch, clientVars, net
<1>1. /\ pc[s] = "check" /\ pkt[s].type = "S"
      /\ pc'[s] = "reply" /\ out'[s] = Pkt("L", a.reads)
      /\ left'[s] = a.pages - 1
      /\ UNCHANGED <<toServer, toClient, cli, todo>>
  BY <1>b, <1>c
<1>2. cli[s] = "search" /\ toServer[s] = <<>> /\ toClient[s] = <<>>
  BY <1>1, CheckedTurn DEF Request
<1>3. out'[s].type = "L" /\ out'[s].arg = a.reads
  BY <1>1 DEF Pkt
<1>4. ~(a.reads < a.pages) /\ (a.reads > a.pages => s \in late')
  OBVIOUS
<1>5. Due(s, out[s].arg - 1, left[s])'
  BY <1>a, <1>1, <1>3, <1>4 DEF Due
<1>6. Deciding(s)'
  BY <1>a, <1>1, <1>2, <1>3, <1>5 DEF Deciding
<1> QED BY <1>6 DEF Together

LEMMA SendTurn ==
    ASSUME TypeOK, NEW s \in Sessions, Together(s), CheckSend(s)
    PROVE  Together(s)'
<1>1. /\ pc[s] = "check" /\ pkt[s].type = "F" /\ pkt'[s] = pkt[s]
      /\ UNCHANGED <<toServer, toClient, cli, todo>>
      /\ \/ pc'[s] = "reply" /\ out'[s] = Pkt("R", 0) /\ ret'[s] = -1
         \/ pc'[s] = "recv" /\ left'[s] = Chunks
  BY DEF TypeOK, ThreadTypeOK, CheckSend, Decide, clientVars, net
<1>2. /\ cli[s] \in {"upload", "verdict"} /\ toClient[s] = <<>>
      /\ Data(toServer[s]) /\ Len(toServer[s]) + todo[s] = Chunks
  BY <1>1, CheckedTurn DEF Request
<1>3. CASE pc'[s] = "reply" /\ out'[s] = Pkt("R", 0) /\ ret'[s] = -1
  <2>1. out'[s].type = "R" /\ ret'[s] < 0
    BY <1>3 DEF Pkt
  <2>2. Deciding(s)'
    BY <1>1, <1>2, <1>3, <2>1 DEF Deciding
  <2> QED BY <2>2 DEF Together
<1>4. CASE pc'[s] = "recv" /\ left'[s] = Chunks
  <2>1. Receiving(s)'
    BY <1>1, <1>2, <1>4 DEF Receiving, Data
  <2> QED BY <2>1 DEF Together
<1> QED BY <1>1, <1>3, <1>4

LEMMA PhotoTurn ==
    ASSUME TypeOK, NEW s \in Sessions, Together(s), CheckPhoto(s)
    PROVE  Together(s)'
<1>1. /\ pc[s] = "check" /\ pkt[s].type = "P" /\ pkt'[s] = pkt[s]
      /\ pc'[s] = "reply"
      /\ UNCHANGED <<toServer, toClient, cli, todo>>
      /\ \/ out'[s] = Pkt("F", 1) /\ left'[s] = Chunks
         \/ out'[s] = Pkt("F", 0) /\ ret'[s] = -1
  BY DEF TypeOK, ThreadTypeOK, CheckPhoto, Decide, clientVars, net
<1>2. cli[s] = "photo" /\ toServer[s] = <<>> /\ toClient[s] = <<>>
  BY <1>1, CheckedTurn DEF Request
<1>3. Deciding(s)'
  BY <1>1, <1>2 DEF Deciding
<1> QED BY <1>3 DEF Together

\* Every packet is one of the image, and with the last one the client has
\* written them all.
LEMMA ReceiveTurn ==
    ASSUME TypeOK, NEW s \in Sessions, Together(s), ReceiveChunk(s),
           LocalsReady, cli[s] = "verdict" => todo[s] = 0
    PROVE  Together(s)'
<1>ty. TurnTypes(s)
  BY TypesOfTurn
<1>0. pc[s] \in {"recv", "spoilt"}
  BY DEF ReceiveChunk
<1>1. Receiving(s)
  BY <1>0
  DEF Together, Paging, Asking, Handling, Deciding, Told, Dismissed, Announced,
      Downloading, Refused
<1>2. toServer[s] # <<>> /\ toServer'[s] = Tail(toServer[s])
  BY <1>1 DEF TypeOK, NetTypeOK, ReceiveChunk, ServerEof, ServerTakes, Receiving
<1>3. pc[s] = "recv" /\ Head(toServer[s]).type = "D"
  BY <1>ty, <1>1, <1>2, DataTaken DEF Receiving, TurnTypes
<1>4. /\ UNCHANGED <<toClient, cli, todo, pkt>> /\ left'[s] = left[s] - 1
      /\ \/ left[s] > 1 /\ pc'[s] = "recv"
         \/ /\ left[s] = 1 /\ pc'[s] = "reply" /\ out'[s] = Pkt("I", 0)
  BY <1>2, <1>3
  DEF TypeOK, ThreadTypeOK, ReceiveChunk, Decide, clientVars
<1>5. /\ Data(toServer'[s])
      /\ Len(toServer'[s]) + todo[s] = left[s] - 1
      /\ Len(toServer'[s]) \in Nat /\ toServer'[s] \in Seq(Packets)
      /\ cli[s] \in {"upload", "verdict"} /\ toClient[s] = <<>>
  <2>1. /\ Data(toServer'[s]) /\ toServer'[s] \in Seq(Packets)
        /\ Len(toServer'[s]) = Len(toServer[s]) - 1
        /\ Len(toServer[s]) \in Nat /\ Len(toServer[s]) > 0
    <3>1. toServer[s] \in Seq(Packets) /\ Data(toServer[s])
      BY <1>ty, <1>1 DEF Receiving, TurnTypes
    <3>2. Data(Tail(toServer[s]))
      BY <1>2, <3>1, DataTaken
    <3>3. Data(toServer'[s])
      BY <1>2, <3>2
    <3> QED BY <1>2, <3>1, <3>3, DataTaken
  <2>2. Len(toServer'[s]) \in Nat
    BY <2>1
  <2>3. Len(toServer[s]) + todo[s] = left[s]
    BY <1>1 DEF Receiving
  <2>4. Len(toServer'[s]) + todo[s] = left[s] - 1
    <3>1. left[s] \in Nat /\ todo[s] \in Nat
      BY <1>ty DEF TurnTypes
    <3>2. \A a, b, c, d \in Nat : a = b - 1 /\ b + c = d => a + c = d - 1
      OBVIOUS
    <3> QED BY <2>1, <2>2, <2>3, <3>1, <3>2
  <2> QED BY <1>1, <2>1, <2>2, <2>4 DEF Receiving
<1>6. CASE left[s] > 1 /\ pc'[s] = "recv"
  <2>1. Receiving(s)'
    BY <1>4, <1>5, <1>6 DEF Receiving, Data
  <2> QED BY <2>1 DEF Together
<1>7. CASE left[s] = 1 /\ pc'[s] = "reply" /\ out'[s] = Pkt("I", 0)
  <2>1. todo[s] = 0 /\ Len(toServer'[s]) = 0
    BY <1>ty, <1>5, <1>7 DEF TurnTypes
  <2>2. cli[s] = "verdict"
    BY <2>1, <1>5 DEF LocalsReady
  <2>3. toServer'[s] = <<>>
    BY <1>5, <2>1
  <2>4. out'[s].type = "I"
    BY <1>7 DEF Pkt
  <2>5. Deciding(s)'
    BY <1>4, <1>5, <1>7, <2>2, <2>3, <2>4 DEF Deciding
  <2> QED BY <2>5 DEF Together
<1> QED BY <1>4, <1>6, <1>7

\* A thread that writes a photo is in one of three turns.
LEMMA PhotoTurns ==
    ASSUME NEW s \in Sessions, Together(s), pc[s] = "send"
    PROVE  /\ Announced(s) \/ Downloading(s) \/ Refused(s)
           /\ pkt[s].type = "P"
  BY DEF Together, Paging, Asking, Handling, Receiving, Deciding, Told,
         Dismissed, Announced, Downloading, Refused

LEMMA ChunkTurn ==
    ASSUME TypeOK, NEW s \in Sessions, Together(s), SendChunk(s), LocalsReady,
           cli[s] \in Connected
    PROVE  Together(s)'
<1>ty. TurnTypes(s)
  BY TypesOfTurn
<1>1. /\ pc[s] = "send" /\ left'[s] = left[s] - 1 /\ pc'[s] \in {"send", "ack"}
      /\ UNCHANGED <<pkt, toServer, cli, todo>>
      /\ toClient'[s] = Append(toClient[s], Pkt("D", 0))
  BY DEF TypeOK, ThreadTypeOK, NetTypeOK, SendChunk, ServerWrites, clientVars,
         Connected
<1>2. Pkt("D", 0) \in Packets /\ Pkt("D", 0).type = "D"
  BY DEF Pkt, Packets
<1>3. pkt[s].type = "P"
  BY <1>1, PhotoTurns
<1>4. CASE Announced(s)
  <2>1. /\ Data(Tail(toClient[s])) /\ toClient[s] # <<>>
        /\ Tail(toClient[s]) \in Seq(Packets)
        /\ Len(Tail(toClient[s])) + left[s] = Chunks
        /\ cli[s] = "photo" /\ toServer[s] = <<>>
        /\ Head(toClient[s]) = Pkt("F", 1)
    BY <1>ty, <1>4, DataTaken DEF Announced, TurnTypes
  <2>2. /\ toClient'[s] # <<>> /\ Head(toClient'[s]) = Pkt("F", 1)
        /\ Tail(toClient'[s]) = Append(Tail(toClient[s]), Pkt("D", 0))
    BY <1>ty, <1>1, <1>2, <2>1, DataWritten DEF TurnTypes
  <2>3. /\ Data(Tail(toClient'[s]))
        /\ Len(Tail(toClient'[s])) = Len(Tail(toClient[s])) + 1
        /\ Len(Tail(toClient[s])) \in Nat
    BY <1>2, <2>1, <2>2, DataWritten
  <2>4. Len(Tail(toClient'[s])) + left'[s] = Chunks
    BY <1>ty, <1>1, <2>1, <2>3 DEF TurnTypes
  <2>5. Announced(s)'
    BY <1>1, <1>3, <2>1, <2>2, <2>3, <2>4 DEF Announced, Data
  <2> QED BY <2>5 DEF Together
<1>5. CASE Downloading(s)
  <2>1. /\ Data(toClient'[s])
        /\ Len(toClient'[s]) = Len(toClient[s]) + 1
        /\ Len(toClient[s]) \in Nat
    BY <1>ty, <1>1, <1>2, <1>5, DataWritten DEF Downloading, TurnTypes
  <2>2. Len(toClient'[s]) + left'[s] = todo[s]
    BY <1>ty, <1>1, <1>5, <2>1 DEF Downloading, TurnTypes
  <2>3. Downloading(s)'
    BY <1>1, <1>3, <1>5, <2>1, <2>2 DEF Downloading, Data
  <2> QED BY <2>3 DEF Together
<1>6. CASE Refused(s)
  <2>1. Refused(s)'
    BY <1>1, <1>6 DEF Refused
  <2> QED BY <2>1 DEF Together
<1> QED BY <1>1, <1>4, <1>5, <1>6, PhotoTurns

LEMMA AckTurn ==
    ASSUME TypeOK, NEW s \in Sessions, Together(s), ReadAck(s),
           cli[s] \in Connected
    PROVE  Together(s)'
<1>1. /\ pc[s] = "ack" /\ pc'[s] = "finish" /\ toServer[s] # <<>>
      /\ UNCHANGED <<pkt, toClient, cli, todo>>
      /\ toServer'[s] = Tail(toServer[s])
      /\ ret'[s] = IF Head(toServer[s]).type = "I" THEN 1 ELSE -1
  BY DEF TypeOK, ThreadTypeOK, NetTypeOK, ReadAck, Return, ServerTakes,
         ServerEof, clientVars, Connected
<1>2. Asking(s) \/ Refused(s)
  BY <1>1 DEF Together, Paging, Handling, Receiving, Deciding, Told, Dismissed,
              Announced, Downloading
<1>3. CASE Asking(s)
  <2>1. /\ toClient[s] = <<>>
        /\ Requested(cli[s], todo[s], Tail(toServer[s]))
    BY <1>1, <1>3 DEF Asking
  <2>2. Asking(s)'
    BY <1>1, <2>1 DEF Asking
  <2> QED BY <2>2 DEF Together
<1>4. CASE Refused(s)
  <2>1. pkt[s].type = "P" /\ ret'[s] < 0
    BY <1>1, <1>4 DEF Refused
  <2>2. Refused(s)'
    BY <1>1, <2>1 DEF Refused
  <2> QED BY <2>2 DEF Together
<1> QED BY <1>2, <1>3, <1>4

LEMMA ReplyTurn ==
    ASSUME TypeOK, NEW s \in Sessions, Together(s), Reply(s),
           cli[s] \in Connected
    PROVE  Together(s)'
<1>ty. TurnTypes(s)
  BY TypesOfTurn
<1>1. /\ pc[s] = "reply"
      /\ UNCHANGED <<pkt, toServer, cli, todo, left, ret, late>>
      /\ pc'[s] = After(s)
      /\ toClient'[s] = Append(toClient[s], out[s])
  BY DEF TypeOK, ThreadTypeOK, NetTypeOK, Reply, ServerWrites, clientVars,
         history, Connected
<1>2. Deciding(s)
  BY <1>1
  DEF Together, Paging, Asking, Handling, Receiving, Told, Dismissed,
      Announced, Downloading, Refused
<1>3. toClient[s] = <<>>
  BY <1>2 DEF Deciding
<1>4. /\ toClient'[s] # <<>> /\ Len(toClient'[s]) = 1
      /\ Head(toClient'[s]) = out[s] /\ Tail(toClient'[s]) = <<>>
  BY <1>ty, <1>1, <1>3, DataWritten DEF TurnTypes
<1>5. CASE /\ cli[s] = "verdict" /\ toServer[s] = <<>> /\ out[s].type = "I"
  <2>1. pc'[s] = "finish"
    BY <1>1, <1>5 DEF Pkt, After
  <2>2. Told(s)'
    BY <1>1, <1>4, <1>5, <2>1 DEF Told
  <2> QED BY <2>2 DEF Together
<1>6. CASE /\ cli[s] \in {"upload", "verdict"} /\ out[s].type = "R"
           /\ ret[s] < 0
  <2>1. pc'[s] = "finish"
    BY <1>1, <1>6 DEF Pkt, After
  <2>2. Dismissed(s)'
    BY <1>1, <1>4, <1>6, <2>1 DEF Dismissed
  <2> QED BY <2>2 DEF Together
<1>7. CASE /\ cli[s] = "photo" /\ pkt[s].type = "P" /\ toServer[s] = <<>>
           /\ out[s] = Pkt("F", 1) /\ left[s] = Chunks
  <2>1. pc'[s] = "send"
    BY <1>1, <1>7 DEF After
  <2>2. Data(Tail(toClient'[s])) /\ Len(Tail(toClient'[s])) = 0
    BY <1>4 DEF Data
  <2>3. Len(Tail(toClient'[s])) + left'[s] = Chunks
    BY <1>1, <1>7, <2>2, ChunksAssumption
  <2>4. Announced(s)'
    BY <1>1, <1>4, <1>7, <2>1, <2>2, <2>3 DEF Announced, Data
  <2> QED BY <2>4 DEF Together
<1>8. CASE /\ cli[s] = "photo" /\ pkt[s].type = "P"
           /\ out[s] = Pkt("F", 0) /\ ret[s] < 0
  <2>1. pc'[s] = "finish"
    BY <1>1, <1>8 DEF Pkt, After
  <2>2. Refused(s)'
    BY <1>1, <1>8, <2>1 DEF Refused
  <2> QED BY <2>2 DEF Together
<1>9. CASE /\ cli[s] = "search" /\ toServer[s] = <<>> /\ out[s].type = "L"
           /\ out[s].arg \in Nat \ {0} /\ Due(s, out[s].arg - 1, left[s])
  <2>1. /\ pc'[s] = IF left[s] > 0 THEN "pages" ELSE "finish"
        /\ left'[s] = left[s]
    BY <1>1, <1>9 DEF Pkt, After
  <2>2. ToWrite(s)' = left[s]
    BY <1>ty, <2>1 DEF ToWrite, TurnTypes
  <2>3. Pages(Tail(toClient'[s])) /\ Len(Tail(toClient'[s])) = 0
    BY <1>4 DEF Pages
  <2>4. Due(s, Head(toClient[s]).arg - 1,
            Len(Tail(toClient[s])) + ToWrite(s))'
    <3>1. 0 + left[s] = left[s]
      BY <1>ty DEF TurnTypes
    <3> QED BY <1>1, <1>4, <1>9, <2>2, <2>3, <3>1 DEF Due
  <2>5. Paging(s)'
    BY <1>1, <1>4, <1>9, <2>1, <2>3, <2>4 DEF Paging, Pages
  <2> QED BY <2>5 DEF Together
<1> QED BY <1>2, <1>5, <1>6, <1>7, <1>8, <1>9 DEF Deciding

\* Another page of the answer: what the client has not read is what it was.
LEMMA PageTurn ==
    ASSUME TypeOK, NEW s \in Sessions, Together(s), SendPage(s), LocalsReady,
           cli[s] \in Connected
    PROVE  Together(s)'
<1>ty. TurnTypes(s)
  BY TypesOfTurn
<1>1. /\ pc[s] = "pages" /\ left'[s] = left[s] - 1
      /\ pc'[s] = IF left[s] > 1 THEN "pages" ELSE "finish"
      /\ UNCHANGED <<toServer, cli, todo, late>>
      /\ toClient'[s] = Append(toClient[s], Pkt("L", 0))
  BY DEF TypeOK, ThreadTypeOK, NetTypeOK, SendPage, ServerWrites, clientVars,
         history, Connected
<1>2. Pkt("L", 0) \in Packets
  BY DEF Pkt, Packets
<1>3. Paging(s)
  BY <1>1 DEF Together, Asking, Handling, Receiving, Deciding, Told, Dismissed,
              Announced, Downloading, Refused
<1>4. /\ left[s] >= 1 /\ left[s] \in Nat
      /\ ToWrite(s) = left[s] /\ ToWrite(s)' = left[s] - 1
  BY <1>ty, <1>1 DEF LocalsReady, ToWrite, TurnTypes
<1>5. pc'[s] \in {"pages", "finish"} /\ toServer'[s] = <<>>
  BY <1>1, <1>3 DEF Paging
<1>d. \A m, k \in Nat : k >= 1 => (m + 1) + (k - 1) = m + k
  OBVIOUS
<1>6. CASE cli[s] = "search"
  <2>1. /\ toClient[s] # <<>> /\ Head(toClient[s]).type = "L"
        /\ Head(toClient[s]).arg \in Nat \ {0} /\ Pages(Tail(toClient[s]))
        /\ Due(s, Head(toClient[s]).arg - 1, Len(Tail(toClient[s])) + left[s])
    BY <1>3, <1>4, <1>6 DEF Paging
  <2>2. /\ toClient'[s] # <<>> /\ Head(toClient'[s]) = Head(toClient[s])
        /\ Tail(toClient'[s]) = Append(Tail(toClient[s]), Pkt("L", 0))
        /\ Tail(toClient[s]) \in Seq(Packets)
    <3>1. toClient[s] \in Seq(Packets)
      BY <1>ty DEF TurnTypes
    <3>2. Tail(toClient[s]) \in Seq(Packets)
      BY <2>1, <3>1, DataTaken
    <3> QED BY <1>1, <1>2, <2>1, <3>1, <3>2, DataWritten
  <2>3. /\ Pages(Tail(toClient'[s]))
        /\ Len(Tail(toClient'[s])) = Len(Tail(toClient[s])) + 1
        /\ Len(Tail(toClient[s])) \in Nat
    BY <1>2, <2>1, <2>2, PagesWritten
  <2>4. Len(Tail(toClient'[s])) + (left[s] - 1)
           = Len(Tail(toClient[s])) + left[s]
    BY <1>4, <1>d, <2>3
  <2>5. Due(s, Head(toClient[s]).arg - 1,
            Len(Tail(toClient[s])) + ToWrite(s))'
    BY <1>1, <1>4, <2>1, <2>2, <2>4 DEF Due
  <2>6. Paging(s)'
    BY <1>1, <1>5, <1>6, <2>1, <2>2, <2>3, <2>5 DEF Paging, Pages
  <2> QED BY <2>6 DEF Together
<1>7. CASE cli[s] = "more"
  <2>1. Pages(toClient[s]) /\ Due(s, todo[s], Len(toClient[s]) + left[s])
    BY <1>3, <1>4, <1>7 DEF Paging
  <2>2. /\ Pages(toClient'[s]) /\ Len(toClient'[s]) = Len(toClient[s]) + 1
        /\ Len(toClient[s]) \in Nat
    BY <1>ty, <1>1, <1>2, <2>1, PagesWritten DEF TurnTypes
  <2>3. Len(toClient'[s]) + (left[s] - 1) = Len(toClient[s]) + left[s]
    BY <1>4, <1>d, <2>2
  <2>4. Due(s, todo[s], Len(toClient[s]) + ToWrite(s))'
    BY <1>1, <1>4, <2>1, <2>3 DEF Due
  <2>5. Paging(s)'
    BY <1>1, <1>5, <1>7, <2>2, <2>4 DEF Paging, Pages
  <2> QED BY <2>5 DEF Together
<1> QED BY <1>3, <1>6, <1>7 DEF Paging

\* Back in its loop a thread listens, or leaves it.
LEMMA FinishTurn ==
    ASSUME TypeOK, NEW s \in Sessions, Together(s), Finish(s)
    PROVE  pc'[s] = "exit" \/ Together(s)'
<1>1. /\ pc[s] = "finish" /\ UNCHANGED <<toServer, toClient, cli, todo, late>>
      /\ \/ ret[s] < 0 /\ pc'[s] = "exit"
         \/ ret[s] >= 0 /\ pc'[s] = "read"
  BY DEF TypeOK, ThreadTypeOK, Finish, clientVars, net, history
<1>ty. ret[s] \in Int
  BY DEF TypeOK, ThreadTypeOK
<1>2. ASSUME ret[s] >= 0, pc'[s] = "read" PROVE Together(s)'
  <2>1. Asking(s) \/ Told(s) \/ Paging(s)
    BY <1>1, <1>2, <1>ty DEF Together, Handling, Receiving, Deciding, Dismissed,
                             Announced, Downloading, Refused
  <2>2. CASE Asking(s)
    <3>1. Asking(s)'
      BY <1>1, <1>2, <2>2 DEF Asking
    <3> QED BY <3>1 DEF Together
  <2>3. CASE Told(s)
    <3>1. Told(s)'
      BY <1>1, <1>2, <2>3 DEF Told
    <3> QED BY <3>1 DEF Together
  <2>4. CASE Paging(s)
    <3>1. ToWrite(s)' = ToWrite(s)
      BY <1>1, <1>2 DEF ToWrite
    <3>2. Paging(s)'
      BY <1>1, <1>2, <2>4, <3>1 DEF Paging, Pages, Due
    <3> QED BY <3>2 DEF Together
  <2> QED BY <2>1, <2>2, <2>3, <2>4
<1> QED BY <1>1, <1>2

LEMMA ThreadTurns ==
    ASSUME IInv, NEW s \in Sessions, InTurn(s), ThreadStep(s) \/ SEM_wait(s)
    PROVE  InTurn(s)'
<1>0. /\ TypeOK /\ LocalsReady
      /\ UNCHANGED <<cli, todo>> /\ pc'[s] # "dead" /\ pc[s] # "dead"
  BY ThreadShapes DEF IInv, clientVars
<1>v. cli[s] = "verdict" => todo[s] = 0
  BY DEF InTurn
<1>1. SUFFICES ASSUME cli[s] \in Connected, pc'[s] # "exit",
                      s \notin early'
               PROVE  Together(s)'
  BY <1>0, <1>v DEF InTurn
<1>2. pc[s] # "exit"
  BY <1>0 DEF ThreadStep, ThreadReads, SEM_wait, LOGIN_loginOK, RegisterUser,
     CheckSearch, SendPage, CheckSend, ReceiveChunk, CheckPhoto, SendChunk,
     ReadAck, CheckQuit, CheckOther, Reply, Finish
<1>e. early \subseteq early'
  BY DEF ThreadStep, ThreadReads, SEM_wait, LOGIN_loginOK, RegisterUser,
     CheckSearch, SendPage, CheckSend, ReceiveChunk, CheckPhoto, SendChunk,
     ReadAck, CheckQuit, CheckOther, Reply, Finish, history
<1>3. Together(s)
  BY <1>0, <1>1, <1>2, <1>e DEF InTurn
<1>4. ~LOGIN_loginOK(s) /\ ~CheckQuit(s) /\ ~CheckOther(s)
  BY <1>3, CheckedTurn DEF LOGIN_loginOK, CheckQuit, CheckOther
<1>5. ~RegisterUser(s)
  BY <1>3
  DEF RegisterUser, Together, Paging, Asking, Handling, Receiving, Deciding,
      Told, Dismissed, Announced, Downloading, Refused
<1> QED
  BY <1>0, <1>v, <1>1, <1>3, <1>4, <1>5, ReadTurn, WaitTurn, SearchTurn,
     PageTurn, SendTurn, ReceiveTurn, PhotoTurn, ChunkTurn, AckTurn, ReplyTurn,
     FinishTurn
  DEF ThreadStep

----------------------------------------------------------------------------
(* A client's step keeps the connection in turn.                           *)

\* The thread keeps all that a turn is about.
ServerKept(s) ==
    /\ pc'[s] = pc[s] /\ pkt'[s] = pkt[s] /\ out'[s] = out[s]
    /\ left'[s] = left[s] /\ ret'[s] = ret[s]

\* Whatever a client does after it refused a photo, the refusal is there.
LEMMA RefusedStays ==
    ASSUME NEW s \in Sessions, TurnTypes(s), Refused(s), ServerKept(s),
           \/ toServer'[s] = toServer[s]
           \/ \E p \in Packets : toServer'[s] = Append(toServer[s], p)
    PROVE  Together(s)'
<1>1. CASE toServer'[s] = toServer[s]
  <2>1. Refused(s)'
    BY <1>1 DEF Refused, ServerKept
  <2> QED BY <2>1 DEF Together
<1>2. ASSUME NEW p \in Packets, toServer'[s] = Append(toServer[s], p)
      PROVE  Together(s)'
  <2>1. toServer[s] # <<>> =>
            toServer'[s] # <<>> /\ Head(toServer'[s]) = Head(toServer[s])
    BY <1>2, DataWritten DEF TurnTypes
  <2>2. Refused(s)'
    BY <2>1 DEF Refused, ServerKept
  <2> QED BY <2>2 DEF Together
<1> QED BY <1>1, <1>2

\* A client that has nothing left to do begins a command: it is in turn, or the
\* photo or the image before was refused.
LEMMA IdleTurns ==
    ASSUME NEW s \in Sessions, Together(s), cli[s] = "idle"
    PROVE  Asking(s) \/ Refused(s) \/ (Dismissed(s) /\ toClient[s] = <<>>)
  BY DEF Together, Paging, Handling, Request, Receiving, Deciding, Told,
         Dismissed, Announced, Downloading

LEMMA TypesTurn ==
    ASSUME NEW s \in Sessions, TurnTypes(s), Together(s), cli[s] = "idle",
           NEW p \in Packets, ServerKept(s), toClient'[s] = toClient[s],
           toServer'[s] = Append(toServer[s], p),
           cli'[s] \in {"search", "upload", "photo"},
           Request(cli'[s], todo'[s], p, <<>>)
    PROVE  Together(s)'
<1>1. CASE Asking(s)
  <2>1. CASE pc[s] = "ack"
    <3>1. /\ toServer[s] # <<>> /\ Head(toServer[s]).type = "I"
          /\ Tail(toServer[s]) = <<>> /\ toClient[s] = <<>>
      BY <1>1, <2>1 DEF Asking, Requested
    <3>2. /\ toServer'[s] # <<>> /\ Head(toServer'[s]) = Head(toServer[s])
          /\ Tail(toServer'[s]) = Append(<<>>, p)
      <4>1. toServer[s] \in Seq(Packets)
        BY DEF TurnTypes
      <4>2. /\ toServer'[s] # <<>> /\ Head(toServer'[s]) = Head(toServer[s])
            /\ Tail(toServer'[s]) = Append(Tail(toServer[s]), p)
        BY <3>1, <4>1, DataWritten
      <4> QED BY <3>1, <4>2
    <3>3. /\ Tail(toServer'[s]) # <<>>
          /\ Head(Tail(toServer'[s])) = p /\ Tail(Tail(toServer'[s])) = <<>>
      BY <3>2
    <3>4. Requested(cli'[s], todo'[s], Tail(toServer'[s]))
      BY <3>3 DEF Requested
    <3>5. Asking(s)'
      BY <2>1, <3>1, <3>2, <3>4 DEF Asking, ServerKept
    <3> QED BY <3>5 DEF Together
  <2>2. CASE pc[s] \in {"read", "finish"}
    <3>1. toServer[s] = <<>> /\ toClient[s] = <<>>
      BY <1>1, <2>2 DEF Asking, Requested
    <3>2. /\ toServer'[s] # <<>>
          /\ Head(toServer'[s]) = p /\ Tail(toServer'[s]) = <<>>
      <4>1. toServer'[s] = <<p>>
        BY <3>1
      <4> QED BY <4>1
    <3>3. Requested(cli'[s], todo'[s], toServer'[s])
      BY <3>2 DEF Requested
    <3>4. Asking(s)'
      BY <2>2, <3>1, <3>3 DEF Asking, ServerKept
    <3> QED BY <3>4 DEF Together
  <2> QED BY <1>1, <2>1, <2>2 DEF Asking
<1>2. CASE Refused(s)
  BY <1>2, RefusedStays
<1>3. CASE Dismissed(s) /\ toClient[s] = <<>>
  <2>1. Dismissed(s)'
    BY <1>3 DEF Dismissed, ServerKept
  <2> QED BY <2>1 DEF Together
<1> QED BY <1>1, <1>2, <1>3, IdleTurns

\* One more packet of the image, behind the header, in the connection or already
\* with the thread.
LEMMA OneMore ==
    ASSUME NEW n \in Nat, n >= 1, NEW q \in Seq(Packets), NEW f,
           NEW p \in Packets,
           p.type = "D", Request("upload", n, f, q),
           NEW step \in {"upload", "verdict"}
    PROVE  Request(step, n - 1, f, Append(q, p))
<1>1. /\ f.type = "F" /\ Data(q) /\ Len(q) + n = Chunks
  BY DEF Request
<1>2. /\ Data(Append(q, p)) /\ Len(Append(q, p)) = Len(q) + 1
      /\ Len(q) \in Nat
  BY <1>1, DataWritten
<1>3. Len(Append(q, p)) + (n - 1) = Chunks
  BY <1>1, <1>2
<1> QED BY <1>1, <1>2, <1>3 DEF Request

LEMMA WriteTurn ==
    ASSUME NEW s \in Sessions, TurnTypes(s), Together(s), cli[s] = "upload",
           todo[s] >= 1, todo'[s] = todo[s] - 1,
           NEW p \in Packets, p.type = "D", ServerKept(s),
           toClient'[s] = toClient[s],
           toServer'[s] = Append(toServer[s], p),
           cli'[s] \in {"upload", "verdict"}
    PROVE  Together(s)'
<1>ty. toServer[s] \in Seq(Packets) /\ todo[s] \in Nat /\ left[s] \in Nat
  BY DEF TurnTypes
<1>0. \/ Asking(s) \/ Handling(s) \/ Receiving(s) \/ Refused(s)
      \/ Dismissed(s)
      \/ /\ Deciding(s) /\ pkt[s].type = "F" /\ out[s].type = "R"
         /\ ret[s] < 0
  BY DEF Together, Paging, Deciding, Told, Announced, Downloading
<1>1. CASE Asking(s)
  <2>1. CASE pc[s] = "ack"
    <3>1. /\ toServer[s] # <<>> /\ Head(toServer[s]).type = "I"
          /\ toClient[s] = <<>> /\ Tail(toServer[s]) # <<>>
          /\ Request("upload", todo[s], Head(Tail(toServer[s])),
                     Tail(Tail(toServer[s])))
      BY <1>1, <2>1 DEF Asking, Requested
    <3>2. /\ Tail(toServer[s]) \in Seq(Packets)
          /\ Tail(Tail(toServer[s])) \in Seq(Packets)
      BY <1>ty, <3>1, DataTaken
    <3>3. /\ toServer'[s] # <<>> /\ Head(toServer'[s]) = Head(toServer[s])
          /\ Tail(toServer'[s]) = Append(Tail(toServer[s]), p)
      BY <1>ty, <3>1, DataWritten
    <3>4. /\ Tail(toServer'[s]) # <<>>
          /\ Head(Tail(toServer'[s])) = Head(Tail(toServer[s]))
          /\ Tail(Tail(toServer'[s])) = Append(Tail(Tail(toServer[s])), p)
      BY <3>1, <3>2, <3>3, DataWritten
    <3>5. Request(cli'[s], todo'[s], Head(Tail(toServer'[s])),
                  Tail(Tail(toServer'[s])))
      BY <1>ty, <3>1, <3>2, <3>4, OneMore
    <3>6. Requested(cli'[s], todo'[s], Tail(toServer'[s]))
      BY <3>4, <3>5 DEF Requested
    <3>7. Asking(s)'
      BY <2>1, <3>1, <3>3, <3>6 DEF Asking, ServerKept
    <3> QED BY <3>7 DEF Together
  <2>2. CASE pc[s] \in {"read", "finish"}
    <3>1. /\ toServer[s] # <<>> /\ toClient[s] = <<>>
          /\ Request("upload", todo[s], Head(toServer[s]), Tail(toServer[s]))
      BY <1>1, <2>2 DEF Asking, Requested
    <3>2. Tail(toServer[s]) \in Seq(Packets)
      BY <1>ty, <3>1, DataTaken
    <3>3. /\ toServer'[s] # <<>> /\ Head(toServer'[s]) = Head(toServer[s])
          /\ Tail(toServer'[s]) = Append(Tail(toServer[s]), p)
      BY <1>ty, <3>1, DataWritten
    <3>4. Request(cli'[s], todo'[s], Head(toServer'[s]), Tail(toServer'[s]))
      BY <1>ty, <3>1, <3>2, <3>3, OneMore
    <3>5. Requested(cli'[s], todo'[s], toServer'[s])
      BY <3>3, <3>4 DEF Requested
    <3>6. Asking(s)'
      BY <2>2, <3>1, <3>5 DEF Asking, ServerKept
    <3> QED BY <3>6 DEF Together
  <2> QED BY <1>1, <2>1, <2>2 DEF Asking
<1>2. CASE Handling(s)
  <2>1. Request(cli'[s], todo'[s], pkt[s], toServer'[s])
    BY <1>ty, <1>2, OneMore DEF Handling
  <2>2. Handling(s)'
    BY <1>2, <2>1 DEF Handling, ServerKept
  <2> QED BY <2>2 DEF Together
<1>3. CASE Receiving(s)
  <2>1. /\ Data(toServer'[s]) /\ Len(toServer'[s]) = Len(toServer[s]) + 1
        /\ Len(toServer[s]) \in Nat
        /\ Len(toServer[s]) + todo[s] = left[s]
    <3>1. Data(toServer[s])
      BY <1>3 DEF Receiving
    <3>2. Data(Append(toServer[s], p))
      BY <1>ty, <3>1, DataWritten
    <3>3. Data(toServer'[s])
      BY <3>2
    <3> QED BY <1>ty, <1>3, <3>3, DataWritten DEF Receiving
  <2>2. Len(toServer'[s]) + todo'[s] = left[s]
    BY <1>ty, <2>1
  <2>3. Receiving(s)'
    BY <1>3, <2>1, <2>2 DEF Receiving, ServerKept, Data
  <2> QED BY <2>3 DEF Together
<1>4. CASE Refused(s)
  BY <1>4, RefusedStays
<1>5. CASE Dismissed(s)
  <2>1. Dismissed(s)'
    BY <1>5 DEF Dismissed, ServerKept
  <2> QED BY <2>1 DEF Together
<1>6. CASE /\ Deciding(s) /\ pkt[s].type = "F" /\ out[s].type = "R"
           /\ ret[s] < 0
  <2>1. Deciding(s)'
    BY <1>6 DEF Deciding, ServerKept
  <2> QED BY <2>1 DEF Together
<1> QED BY <1>0, <1>1, <1>2, <1>3, <1>4, <1>5, <1>6

\* The client reads an answer: to its command, or whatever is there.
LEMMA OneTaken ==
    ASSUME NEW q \in Seq(Packets), Len(q) = 1
    PROVE  q # <<>> /\ Tail(q) = <<>>
<1>1. q # <<>>
  <2> SUFFICES ASSUME q = <<>> PROVE FALSE
    OBVIOUS
  <2>1. Len(q) = 0
    OBVIOUS
  <2> QED BY <2>1
<1>2. Tail(q) \in Seq(Packets) /\ Len(Tail(q)) = Len(q) - 1
  BY <1>1, DataTaken
<1>3. \A t \in Seq(Packets) : Len(t) = 0 => t = <<>>
  OBVIOUS
<1>4. Len(Tail(q)) = 0
  BY <1>2
<1> QED BY <1>1, <1>2, <1>3, <1>4

\* With the last page that it reads the client has read all that are written.
LEMMA LastPage ==
    ASSUME NEW s \in Sessions, LocalsReady, TurnTypes(s),
           pc[s] \in {"pages", "finish", "read"}, toServer[s] = <<>>,
           NEW q \in Seq(Packets), Due(s, 0, Len(q) + ToWrite(s))
    PROVE  q = <<>> /\ pc[s] \in {"finish", "read"}
<1>1. Len(q) \in Nat /\ ToWrite(s) \in Nat
  BY DEF TurnTypes, ToWrite
<1>2. Len(q) = 0 /\ ToWrite(s) = 0
  BY <1>1 DEF Due
<1>3. q = <<>>
  BY <1>2
<1> QED BY <1>2, <1>3 DEF ToWrite, LocalsReady

LEMMA SearchReplyTurn ==
    ASSUME TypeOK, LocalsReady, NEW s \in Sessions, Together(s), pc[s] # "dead",
           SearchReply(s)
    PROVE  Together(s)'
<1>ty. TurnTypes(s)
  BY TypesOfTurn
<1>1. /\ cli[s] = "search" /\ toClient[s] # <<>> /\ ServerKept(s)
      /\ toClient'[s] = Tail(toClient[s]) /\ toServer'[s] = toServer[s]
      /\ late' = late
      /\ LET p == Head(toClient[s])
         IN  \/ /\ p.type = "L" /\ p.arg > 1
                /\ cli'[s] = "more" /\ todo'[s] = p.arg - 1
             \/ p.type = "L" /\ p.arg <= 1 /\ cli'[s] = "idle"
             \/ p.type # "L" \/ p.arg = 0
  BY DEF TypeOK, ClientTypeOK, NetTypeOK, SearchReply, ClientEof, Takes, Next1,
         ClientStep, threadVars, ServerKept, history
<1>2. Paging(s) \/ Refused(s)
  BY <1>1 DEF Together, Asking, Handling, Receiving, Deciding, Told, Dismissed,
              Announced, Downloading
<1>3. CASE Paging(s)
  <2> DEFINE k == Head(toClient[s]).arg
  <2>1. /\ pc[s] \in {"pages", "finish", "read"} /\ toServer[s] = <<>>
        /\ Head(toClient[s]).type = "L" /\ k \in Nat \ {0}
        /\ Pages(Tail(toClient[s]))
        /\ Due(s, k - 1, Len(Tail(toClient[s])) + ToWrite(s))
    BY <1>1, <1>3 DEF Paging
  <2>2. Tail(toClient[s]) \in Seq(Packets)
    BY <1>ty, <1>1 DEF TurnTypes
  <2>3. CASE k > 1 /\ cli'[s] = "more" /\ todo'[s] = k - 1
    <3>1. ToWrite(s)' = ToWrite(s)
      BY <1>1 DEF ToWrite, ServerKept
    <3>2. Due(s, todo[s], Len(toClient[s]) + ToWrite(s))'
      BY <1>1, <2>1, <2>3, <3>1 DEF Due
    <3>3. Paging(s)'
      BY <1>1, <2>1, <2>3, <3>2 DEF Paging, Pages, ServerKept
    <3> QED BY <3>3 DEF Together
  <2>4. CASE k <= 1 /\ cli'[s] = "idle"
    <3>1. Due(s, 0, Len(Tail(toClient[s])) + ToWrite(s))
      BY <2>1, <2>4
    <3>2. Tail(toClient[s]) = <<>> /\ pc[s] \in {"finish", "read"}
      BY <1>ty, <2>1, <2>2, <3>1, LastPage
    <3>3. Asking(s)'
      BY <1>1, <2>1, <2>4, <3>2 DEF Asking, Requested, ServerKept
    <3> QED BY <3>3 DEF Together
  <2> QED BY <1>1, <2>1, <2>3, <2>4
<1>4. CASE Refused(s)
  BY <1>ty, <1>1, <1>4, RefusedStays
<1> QED BY <1>2, <1>3, <1>4

LEMMA SearchMoreTurn ==
    ASSUME TypeOK, LocalsReady, NEW s \in Sessions, Together(s), pc[s] # "dead",
           SearchMore(s)
    PROVE  Together(s)'
<1>ty. TurnTypes(s)
  BY TypesOfTurn
<1>1. /\ cli[s] = "more" /\ toClient[s] # <<>> /\ ServerKept(s)
      /\ toClient'[s] = Tail(toClient[s]) /\ toServer'[s] = toServer[s]
      /\ late' = late
      /\ \/ /\ todo'[s] = todo[s] - 1
            /\ cli'[s] = IF todo[s] > 1 THEN "more" ELSE "idle"
         \/ Head(toClient[s]) # Pkt("L", 0)
  BY DEF TypeOK, ClientTypeOK, NetTypeOK, SearchMore, ClientEof, Takes, Next1,
         ClientStep, threadVars, ServerKept, history
<1>2. Paging(s) \/ Refused(s)
  BY <1>1 DEF Together, Asking, Requested, Request, Handling, Receiving,
              Deciding, Told, Dismissed, Announced, Downloading
<1>3. CASE Paging(s)
  <2>1. /\ pc[s] \in {"pages", "finish", "read"} /\ toServer[s] = <<>>
        /\ Pages(toClient[s]) /\ todo[s] >= 1 /\ todo[s] \in Nat
        /\ Due(s, todo[s], Len(toClient[s]) + ToWrite(s))
    BY <1>ty, <1>1, <1>3 DEF Paging, LocalsReady, TurnTypes
  <2>2. /\ Tail(toClient[s]) \in Seq(Packets) /\ Len(toClient[s]) \in Nat
        /\ Len(toClient[s]) > 0
        /\ Len(Tail(toClient[s])) = Len(toClient[s]) - 1
    BY <1>ty, <1>1, DataTaken DEF TurnTypes
  <2>3. Head(toClient[s]) = Pkt("L", 0) /\ Pages(Tail(toClient[s]))
    BY <1>ty, <1>1, <2>1, PagesTaken DEF TurnTypes
  <2>4. /\ todo'[s] = todo[s] - 1
        /\ cli'[s] = IF todo[s] > 1 THEN "more" ELSE "idle"
    BY <1>1, <2>3
  <2>5. ToWrite(s) \in Nat /\ ToWrite(s)' = ToWrite(s)
    BY <1>ty, <1>1 DEF ToWrite, ServerKept, TurnTypes
  <2>6. Due(s, todo[s] - 1, Len(Tail(toClient[s])) + ToWrite(s))
    BY <2>1, <2>2, <2>5 DEF Due
  <2>7. CASE cli'[s] = "more"
    <3>1. Due(s, todo[s], Len(toClient[s]) + ToWrite(s))'
      BY <1>1, <2>4, <2>5, <2>6 DEF Due
    <3>2. Paging(s)'
      BY <1>1, <2>1, <2>3, <2>7, <3>1 DEF Paging, Pages, ServerKept
    <3> QED BY <3>2 DEF Together
  <2>8. CASE cli'[s] = "idle"
    <3>1. todo[s] - 1 = 0
      BY <2>1, <2>4, <2>8
    <3>2. Tail(toClient[s]) = <<>> /\ pc[s] \in {"finish", "read"}
      BY <1>ty, <2>1, <2>2, <2>6, <3>1, LastPage
    <3>3. Asking(s)'
      BY <1>1, <2>1, <2>8, <3>2 DEF Asking, Requested, ServerKept
    <3> QED BY <3>3 DEF Together
  <2> QED BY <2>4, <2>7, <2>8
<1>4. CASE Refused(s)
  BY <1>ty, <1>1, <1>4, RefusedStays
<1> QED BY <1>2, <1>3, <1>4

LEMMA VerdictTurn ==
    ASSUME TypeOK, NEW s \in Sessions, Together(s), pc[s] # "dead",
           SendVerdict(s)
    PROVE  Together(s)'
<1>ty. TurnTypes(s)
  BY TypesOfTurn
<1>1. /\ cli[s] = "verdict" /\ toClient[s] # <<>> /\ ServerKept(s)
      /\ toClient'[s] = Tail(toClient[s]) /\ toServer'[s] = toServer[s]
      /\ cli'[s] = "idle"
  BY DEF TypeOK, ClientTypeOK, NetTypeOK, SendVerdict, ClientEof, Takes,
         ClientStep, threadVars, ServerKept
<1>2. Told(s) \/ Refused(s) \/ Dismissed(s)
  BY <1>1
  DEF Together, Paging, Asking, Handling, Receiving, Deciding, Announced,
      Downloading
<1>3. CASE Told(s)
  <2>1. toServer'[s] = <<>> /\ pc'[s] \in {"finish", "read"}
    BY <1>1, <1>3 DEF Told, ServerKept
  <2>2. toClient'[s] = <<>>
    BY <1>ty, <1>1, <1>3, OneTaken DEF Told, TurnTypes
  <2>3. Asking(s)'
    BY <1>1, <2>1, <2>2 DEF Asking, Requested
  <2> QED BY <2>3 DEF Together
<1>4. CASE Dismissed(s)
  <2>1. toClient'[s] = <<>>
    BY <1>ty, <1>1, <1>4, OneTaken DEF Dismissed, TurnTypes
  <2>2. Dismissed(s)'
    BY <1>1, <1>4, <2>1 DEF Dismissed, ServerKept
  <2> QED BY <2>2 DEF Together
<1>5. CASE Refused(s)
  BY <1>ty, <1>1, <1>5, RefusedStays
<1> QED BY <1>2, <1>3, <1>4, <1>5

\* The client begins to receive the photo, or refuses it.
LEMMA PhotoReplyTurn ==
    ASSUME TypeOK, NEW s \in Sessions, Together(s), pc[s] # "dead",
           PhotoReply(s)
    PROVE  Together(s)'
<1>ty. TurnTypes(s)
  BY TypesOfTurn
<1>p. /\ Pkt("R", 0) \in Packets /\ Pkt("R", 0).type # "I"
      /\ Pkt("F", 1).type = "F" /\ Pkt("F", 1) # Pkt("F", 0)
  BY DEF Pkt, Packets
<1>1. /\ cli[s] = "photo" /\ toClient[s] # <<>> /\ ServerKept(s)
      /\ toClient'[s] = Tail(toClient[s])
  BY DEF TypeOK, NetTypeOK, PhotoReply, ClientEof, Takes, threadVars, ServerKept
<1>2. \/ toServer'[s] = toServer[s]
      \/ toServer'[s] = Append(toServer[s], Pkt("R", 0))
  BY DEF TypeOK, NetTypeOK, PhotoReply, ClientWrites
<1>3. Announced(s) \/ Refused(s)
  BY <1>1 DEF Together, Paging, Asking, Handling, Receiving, Deciding, Told,
              Dismissed, Downloading
<1>4. CASE Announced(s)
  <2>1. Next1(s) = Pkt("F", 1)
    BY <1>1, <1>4 DEF Announced, Next1
  <2>2. \/ /\ cli'[s] = "download" /\ todo'[s] = Chunks
           /\ toServer'[s] = toServer[s]
        \/ toServer'[s] = Append(toServer[s], Pkt("R", 0))
    BY <1>p, <2>1
    DEF TypeOK, ClientTypeOK, NetTypeOK, PhotoReply, ClientStep, ClientWrites
  <2>3. CASE /\ cli'[s] = "download" /\ todo'[s] = Chunks
             /\ toServer'[s] = toServer[s]
    <3>1. Downloading(s)'
      BY <1>1, <1>4, <2>3 DEF Announced, Downloading, ServerKept, Data
    <3> QED BY <3>1 DEF Together
  <2>4. CASE toServer'[s] = Append(toServer[s], Pkt("R", 0))
    <3>1. toServer[s] = <<>>
      BY <1>4 DEF Announced
    <3>2. toServer'[s] # <<>> /\ Head(toServer'[s]) = Pkt("R", 0)
      BY <1>p, <2>4, <3>1, DataWritten
    <3>3. Refused(s)'
      BY <1>p, <1>1, <1>4, <3>2 DEF Announced, Refused, ServerKept
    <3> QED BY <3>3 DEF Together
  <2> QED BY <2>2, <2>3, <2>4
<1>5. CASE Refused(s)
  BY <1>ty, <1>p, <1>1, <1>2, <1>5, RefusedStays
<1> QED BY <1>3, <1>4, <1>5

\* With the last packet of a photo read the thread waits for the answer.
LEMMA ReadChunkTurn ==
    ASSUME TypeOK, LocalsReady, NEW s \in Sessions, Together(s), pc[s] # "dead",
           ReadChunk(s)
    PROVE  Together(s)'
<1>ty. TurnTypes(s)
  BY TypesOfTurn
<1>p. /\ Pkt("I", 0) \in Packets /\ Pkt("R", 0) \in Packets
      /\ Pkt("I", 0).type = "I"
  BY DEF Pkt, Packets
<1>1. /\ cli[s] \in {"download", "spoilt"} /\ toClient[s] # <<>>
      /\ ServerKept(s) /\ toClient'[s] = Tail(toClient[s])
      /\ todo'[s] = todo[s] - 1
  BY DEF TypeOK, ClientTypeOK, NetTypeOK, ReadChunk, ClientEof, Takes,
         threadVars, ServerKept
<1>2. \/ toServer'[s] = toServer[s]
      \/ \E p \in Packets : toServer'[s] = Append(toServer[s], p)
  BY <1>p DEF TypeOK, NetTypeOK, ReadChunk, ClientWrites
<1>3. Downloading(s) \/ Refused(s)
  BY <1>1 DEF Together, Paging, Asking, Requested, Request, Handling, Receiving,
              Deciding, Told, Dismissed, Announced
<1>4. CASE Downloading(s)
  <2>1. /\ cli[s] = "download" /\ pc[s] \in {"send", "ack"}
        /\ pkt[s].type = "P" /\ toServer[s] = <<>> /\ Data(toClient[s])
        /\ Len(toClient[s]) + left[s] = todo[s]
    BY <1>4 DEF Downloading
  <2>2. /\ Head(toClient[s]).type = "D" /\ Data(toClient'[s])
        /\ toClient'[s] \in Seq(Packets)
        /\ Len(toClient'[s]) = Len(toClient[s]) - 1
        /\ Len(toClient[s]) \in Nat /\ Len(toClient[s]) > 0
    <3>1. toClient[s] \in Seq(Packets)
      BY <1>ty DEF TurnTypes
    <3>2. Head(toClient[s]).type = "D" /\ Data(Tail(toClient[s]))
      BY <1>1, <2>1, <3>1, DataTaken
    <3>3. Data(toClient'[s])
      BY <1>1, <3>2
    <3> QED BY <1>1, <3>1, <3>2, <3>3, DataTaken
  <2>3. \/ /\ todo[s] > 1 /\ cli'[s] = "download"
           /\ toServer'[s] = toServer[s]
        \/ /\ todo[s] = 1 /\ cli'[s] = "idle"
           /\ toServer'[s] = Append(toServer[s], Pkt("I", 0))
    BY <1>1, <2>1, <2>2
    DEF TypeOK, ClientTypeOK, NetTypeOK, ReadChunk, ClientStep, ClientWrites,
        Next1
  <2>n. left[s] \in Nat /\ todo[s] \in Nat
    BY <1>ty DEF TurnTypes
  <2>4. CASE todo[s] > 1 /\ cli'[s] = "download" /\ toServer'[s] = toServer[s]
    <3>1. Len(toClient'[s]) + left[s] = todo'[s]
      BY <1>1, <2>1, <2>2, <2>n
    <3>2. Downloading(s)'
      BY <1>1, <2>1, <2>2, <2>4, <3>1 DEF Downloading, ServerKept, Data
    <3> QED BY <3>2 DEF Together
  <2>5. CASE /\ todo[s] = 1 /\ cli'[s] = "idle"
             /\ toServer'[s] = Append(toServer[s], Pkt("I", 0))
    <3>1. left[s] = 0 /\ Len(toClient'[s]) = 0
      <4>1. \A a, b \in Nat : a + b = 1 /\ a > 0 => b = 0 /\ a - 1 = 0
        OBVIOUS
      <4>2. /\ Len(toClient[s]) + left[s] = 1
            /\ Len(toClient[s]) \in Nat /\ Len(toClient[s]) > 0
            /\ Len(toClient'[s]) = Len(toClient[s]) - 1
        BY <2>1, <2>2, <2>5
      <4> QED BY <2>n, <4>1, <4>2
    <3>2. pc[s] = "ack" /\ toClient'[s] = <<>>
      BY <2>1, <2>2, <3>1 DEF LocalsReady
    <3>3. /\ toServer'[s] # <<>> /\ Head(toServer'[s]) = Pkt("I", 0)
          /\ Tail(toServer'[s]) = <<>>
      BY <1>p, <2>1, <2>5, DataWritten
    <3>4. Asking(s)'
      BY <1>p, <1>1, <2>5, <3>2, <3>3 DEF Asking, Requested, ServerKept
    <3> QED BY <3>4 DEF Together
  <2> QED BY <2>3, <2>4, <2>5
<1>5. CASE Refused(s)
  BY <1>ty, <1>1, <1>2, <1>5, RefusedStays
<1> QED BY <1>3, <1>4, <1>5

\* The answer to a login is all that the connection holds.
LEMMA LoginReplyTurn ==
    ASSUME TypeOK, NEW s \in Sessions, AnswerUnderWay(s), pc[s] # "dead",
           LoginReply(s)
    PROVE  Together(s)'
<1>1. /\ cli'[s] = "idle" /\ toClient[s] # <<>> /\ pc'[s] = pc[s]
      /\ toClient'[s] = Tail(toClient[s]) /\ toServer'[s] = toServer[s]
  BY DEF TypeOK, ClientTypeOK, NetTypeOK, LoginReply, ClientEof, Takes,
         ClientStep, threadVars
<1>2. /\ pc[s] \in {"finish", "read"} /\ toServer[s] = <<>>
      /\ \E p \in {Pkt("O", ret[s]), Pkt("O", u[s])} : toClient[s] = <<p>>
  BY <1>1 DEF AnswerUnderWay
<1>3. toClient'[s] = <<>>
  BY <1>1, <1>2
<1>4. Asking(s)'
  BY <1>1, <1>2, <1>3 DEF Asking, Requested
<1> QED BY <1>4 DEF Together

LEMMA TypeTurn ==
    ASSUME TypeOK, NEW s \in Sessions, Together(s), pc[s] # "dead",
           \/ TypeSearch(s) \/ TypeSend(s)
           \/ \E id \in PhotoIds : TypePhoto(s, id)
    PROVE  Together(s)'
<1>ty. TurnTypes(s)
  BY TypesOfTurn
<1>1. /\ cli[s] = "idle" /\ ServerKept(s) /\ toClient'[s] = toClient[s]
  BY DEF AtPrompt, TypeSearch, TypeSend, TypePhoto, threadVars, ServerKept
<1>2. CASE TypeSearch(s)
  <2>1. /\ cli'[s] = "search" /\ Pkt("S", 0) \in Packets
        /\ toServer'[s] = Append(toServer[s], Pkt("S", 0))
    BY <1>2 DEF TypeOK, ClientTypeOK, NetTypeOK, TypeSearch, ClientStep,
                ClientWrites, Pkt, Packets
  <2>2. Request(cli'[s], todo'[s], Pkt("S", 0), <<>>)
    BY <2>1 DEF Request, Pkt
  <2> QED BY <1>ty, <1>1, <2>1, <2>2, TypesTurn
<1>3. CASE TypeSend(s)
  <2>1. /\ cli'[s] = "upload" /\ Pkt("F", 0) \in Packets
        /\ todo'[s] = Chunks
        /\ toServer'[s] = Append(toServer[s], Pkt("F", 0))
    BY <1>3 DEF TypeOK, ClientTypeOK, NetTypeOK, TypeSend, ClientStep,
                ClientWrites, Pkt, Packets
  <2>2. Len(<<>>) + Chunks = Chunks /\ Data(<<>>)
    BY ChunksAssumption DEF Data
  <2>3. Request(cli'[s], todo'[s], Pkt("F", 0), <<>>)
    BY <2>1, <2>2 DEF Request, Pkt
  <2> QED BY <1>ty, <1>1, <2>1, <2>3, TypesTurn
<1>4. ASSUME NEW id \in PhotoIds, TypePhoto(s, id) PROVE Together(s)'
  <2>1. /\ cli'[s] = "photo" /\ Pkt("P", id) \in Packets
        /\ toServer'[s] = Append(toServer[s], Pkt("P", id))
    BY <1>4, PhotoIdsAssumption
    DEF TypeOK, ClientTypeOK, NetTypeOK, TypePhoto, ClientStep, ClientWrites,
        Pkt, Packets
  <2>2. Request(cli'[s], todo'[s], Pkt("P", id), <<>>)
    BY <2>1 DEF Request, Pkt
  <2> QED BY <1>ty, <1>1, <2>1, <2>2, TypesTurn
<1> QED BY <1>2, <1>3, <1>4

\* A client that writes the last packet of its image has none left.
LEMMA WriteChunkTurn ==
    ASSUME TypeOK, LocalsReady, NEW s \in Sessions, Together(s), pc[s] # "dead",
           WriteChunk(s)
    PROVE  Together(s)'
<1>ty. TurnTypes(s)
  BY TypesOfTurn
<1>1. /\ cli[s] = "upload" /\ cli'[s] \in {"upload", "verdict"}
      /\ todo'[s] = todo[s] - 1 /\ todo[s] >= 1
      /\ ServerKept(s) /\ toClient'[s] = toClient[s]
      /\ toServer'[s] = Append(toServer[s], Pkt("D", 0))
  BY DEF TypeOK, ClientTypeOK, NetTypeOK, LocalsReady, WriteChunk, ClientStep,
         ClientWrites, threadVars, ServerKept
<1>2. Pkt("D", 0) \in Packets /\ Pkt("D", 0).type = "D"
  BY DEF Pkt, Packets
<1> QED BY <1>ty, <1>1, <1>2, WriteTurn

LEMMA ClientTurns ==
    ASSUME IInv, NEW s \in Sessions, InTurn(s), OwnerInv(s),
           FremenStep(s) \/ PersonStep(s)
    PROVE  InTurn(s)'
<1>ty. TypeOK /\ LocalsReady /\ cli \in [Sessions -> Steps]
  BY DEF IInv, TypeOK, ClientTypeOK
<1>e. early' = early
  BY DEF FremenStep, PersonStep, Connect, SendLogin, LoginReply, LoginFails,
     SearchReply, SearchMore, WriteChunk, SendVerdict, PhotoReply, ReadChunk,
     TypeSearch, TypeSend, TypePhoto, Interrupt, Kill, Leaves, history
<1>1. ASSUME NEW usr \in Typed, Connect(s, usr) PROVE InTurn(s)'
  BY <1>ty, <1>1 DEF Connect, ClientStep, InTurn, Connected
<1>2. CASE SendLogin(s)
  BY <1>ty, <1>2 DEF SendLogin, ClientStep, InTurn, Connected
<1>3. CASE LoginFails(s) \/ Interrupt(s) \/ Kill(s)
  BY <1>ty, <1>3
  DEF LoginFails, Interrupt, Kill, Leaves, ClientStep, InTurn, Connected
<1>4. CASE LoginReply(s)
  <2>1. /\ cli[s] = "login" /\ cli'[s] = "idle" /\ pc'[s] = pc[s]
    BY <1>ty, <1>4 DEF LoginReply, ClientStep, threadVars
  <2>2. AnswerUnderWay(s)
    BY <2>1 DEF OwnerInv
  <2>3. pc[s] # "dead" => Together(s)'
    BY <1>ty, <1>4, <2>2, LoginReplyTurn
  <2> QED BY <1>e, <2>1, <2>3 DEF InTurn
<1>5. CASE \/ SearchReply(s) \/ SearchMore(s) \/ SendVerdict(s)
           \/ PhotoReply(s) \/ ReadChunk(s)
           \/ TypeSearch(s) \/ TypeSend(s) \/ WriteChunk(s)
           \/ \E id \in PhotoIds : TypePhoto(s, id)
  <2>1. cli[s] \in Connected /\ pc' = pc
    BY <1>5 DEF SearchReply, SearchMore, SendVerdict, PhotoReply, ReadChunk,
                AtPrompt, TypeSearch, TypeSend, WriteChunk, TypePhoto,
                Connected, Steps, threadVars
  <2>2. pc[s] \notin {"exit", "dead"} /\ s \notin early => Together(s)
    BY <2>1 DEF InTurn
  <2>3. pc[s] \notin {"exit", "dead"} /\ s \notin early => Together(s)'
    BY <1>ty, <1>5, <2>2, SearchReplyTurn, SearchMoreTurn, VerdictTurn,
       PhotoReplyTurn, ReadChunkTurn, TypeTurn, WriteChunkTurn
  <2>4. (cli[s] = "verdict" => todo[s] = 0)'
    <3>1. CASE WriteChunk(s)
      <4>1. /\ todo'[s] = todo[s] - 1 /\ todo[s] \in Nat /\ cli[s] = "upload"
            /\ cli'[s] = IF todo[s] > 1 THEN "upload" ELSE "verdict"
        BY <1>ty, <3>1 DEF TypeOK, ClientTypeOK, WriteChunk, ClientStep
      <4>2. todo[s] >= 1
        BY <1>ty, <4>1 DEF LocalsReady
      <4> QED BY <4>1, <4>2
    <3>2. CASE ~WriteChunk(s)
      <4>1. cli'[s] # "verdict"
        BY <1>ty, <1>5, <3>2
        DEF SearchReply, SearchMore, SendVerdict, PhotoReply, ReadChunk,
            TypeSearch, TypeSend, TypePhoto, ClientStep
      <4> QED BY <4>1
    <3> QED BY <3>1, <3>2
  <2> QED BY <1>e, <2>1, <2>3, <2>4 DEF InTurn
<1> QED BY <1>1, <1>2, <1>3, <1>4, <1>5 DEF FremenStep, PersonStep

----------------------------------------------------------------------------
(* Every step keeps every connection in turn.                              *)

\* So does a step that leaves the session alone.
LEMMA SameTurns ==
    ASSUME NEW t \in Sessions, InTurn(t), Same(t)
    PROVE  InTurn(t)'
<1> USE DEF Same
<1>1. Asking(t) => Asking(t)'
  BY DEF Asking
<1>2. Handling(t) => Handling(t)'
  BY DEF Handling
<1>3. Receiving(t) => Receiving(t)'
  BY DEF Receiving, Data
<1>4. Deciding(t) => Deciding(t)'
  BY DEF Deciding, Due
<1>5. Told(t) => Told(t)'
  BY DEF Told
<1>6. Dismissed(t) => Dismissed(t)'
  BY DEF Dismissed
<1>7. Announced(t) => Announced(t)'
  BY DEF Announced, Data
<1>8. Downloading(t) => Downloading(t)'
  BY DEF Downloading, Data
<1>9. Refused(t) => Refused(t)'
  BY DEF Refused
<1>10. Paging(t) => Paging(t)'
  BY DEF Paging, Pages, ToWrite, Due
<1> QED
  BY <1>1, <1>2, <1>3, <1>4, <1>5, <1>6, <1>7, <1>8, <1>9, <1>10
  DEF InTurn, Together

\* With the process every thread ends; a session that has none has no client.
LEMMA DieTurns ==
    ASSUME NEW t \in Sessions, InTurn(t), OwnerInv(t), Die
    PROVE  InTurn(t)'
<1>1. /\ UNCHANGED <<cli, todo>>
      /\ pc'[t] = IF pc[t] = "none" THEN "none" ELSE "dead"
  BY DEF Die, clientVars
<1>2. cli[t] \in Connected => pc'[t] = "dead"
  BY <1>1 DEF OwnerInv, Connected
<1> QED BY <1>1, <1>2 DEF InTurn

LEMMA TurnsNext ==
    ASSUME IInv, OwnerIInv, TurnsIInv, [Next]_vars
    PROVE  TurnsIInv'
<1>ty. TypeOK /\ \A t \in Sessions : OwnerInv(t) /\ InTurn(t)
  BY DEF IInv, OwnerIInv, TurnsIInv
<1> SUFFICES ASSUME NEW t \in Sessions PROVE InTurn(t)'
  BY DEF TurnsIInv
<1>1. CASE UNCHANGED vars
  <2>1. Same(t)
    BY <1>1 DEF Same, vars, threadVars, clientVars, net, history
  <2> QED BY <1>ty, <2>1, SameTurns
<1>2. ASSUME NEW s \in Sessions, ThreadStep(s) \/ SEM_wait(s)
      PROVE  InTurn(t)'
  <2>1. CASE s = t
    BY <1>ty, <1>2, <2>1, ThreadTurns
  <2>2. CASE s # t
    BY <1>ty, <1>2, <2>2, ThreadTouchesOne, SameTurns
  <2> QED BY <2>1, <2>2
<1>3. ASSUME NEW s \in Sessions, FremenStep(s) \/ PersonStep(s)
      PROVE  InTurn(t)'
  <2>1. CASE s = t
    BY <1>ty, <1>3, <2>1, ClientTurns
  <2>2. CASE s # t
    BY <1>ty, <1>3, <2>2, ClientTouchesOne, SameTurns
  <2> QED BY <2>1, <2>2
<1>4. CASE Die
  BY <1>ty, <1>4, DieTurns
<1>5. CASE Restart
  <2>1. Same(t)
    BY <1>5 DEF Restart, Same, threadVars, clientVars, net, history
  <2> QED BY <1>ty, <2>1, SameTurns
<1> QED
  BY <1>1, <1>2, <1>3, <1>4, <1>5
  DEF Next, SessionStep, Sigpipe, Crash, exitAtreides

\* At each point of a command, the packets in both directions of a connection
\* and those the client and its thread have still to write are those of the
\* command (network.c of both programs), over answers of any number of pages,
\* until a photo is refused or the client has returned early from an answer; and
\* it waits for a page that does not come only after an answer of which it reads
\* more pages than are sent.
THEOREM TurnsInvariant == Spec => [](IInv /\ OwnerIInv /\ TurnsIInv)
<1>1. Init => TurnsIInv
  BY DEF Init, TurnsIInv, InTurn, Connected
<1>2. IInv /\ OwnerIInv /\ TurnsIInv /\ [Next]_vars => TurnsIInv'
  BY TurnsNext
<1> QED BY <1>1, <1>2, OwnerInvariant, PTL DEF Spec

\* Whatever the searches are answered, a client that never returned early from
\* an answer has, between two commands, a thread that listens to an empty
\* connection, and takes one packet for another only behind a photo that it
\* refused, or at the end of its thread.
THEOREM StaysInStep == Spec => []InStep
<1>1. IInv /\ TurnsIInv => InStep
  <2> SUFFICES ASSUME IInv, TurnsIInv, NEW s \in Sessions \ early
               PROVE  /\ cli[s] = "idle" /\ pc[s] = "read"
                         => toServer[s] = <<>> /\ toClient[s] = <<>>
                      /\ cli[s] = "lost"
                         => \/ pc[s] \in {"exit", "dead"}
                            \/ pc[s] \in {"send", "ack", "finish"}
                               /\ pkt[s].type = "P"
    BY DEF InStep
  <2>1. ASSUME cli[s] = "idle", pc[s] = "read"
        PROVE  toServer[s] = <<>> /\ toClient[s] = <<>>
    <3>1. Together(s)
      BY <2>1 DEF TurnsIInv, InTurn, Connected, Steps
    <3>2. Asking(s)
      BY <2>1, <3>1, IdleTurns DEF Refused, Dismissed
    <3> QED BY <2>1, <3>2 DEF Asking, Requested
  <2>2. ASSUME cli[s] = "lost", pc[s] \notin {"exit", "dead"}
        PROVE  pc[s] \in {"send", "ack", "finish"} /\ pkt[s].type = "P"
    <3>1. Together(s)
      BY <2>2 DEF TurnsIInv, InTurn, Connected, Steps
    <3>2. Refused(s)
      BY <2>2, <3>1 DEF Together, Paging, Asking, Requested, Handling, Request,
         Receiving, Deciding, Told, Dismissed, Announced, Downloading
    <3> QED BY <3>2 DEF Refused
  <2> QED BY <2>1, <2>2
<1> QED BY <1>1, TurnsInvariant, PTL
====
