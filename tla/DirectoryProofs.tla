--------------------------- MODULE DirectoryProofs ---------------------------
(***************************************************************************)
(* What clients are told about their identifiers, proved of Atreides for   *)
(* every set of sessions and users, over kills, crashes and restarts of    *)
(* the server and replayed logins, as long as the register file can be     *)
(* written: that identifiers are stable, and that the server with its      *)
(* clients implements UserDirectory.                                       *)
(***************************************************************************)
EXTENDS AtreidesProofs

HasLine(usr, n) == Row(usr, n) \in Lines

\* An identifier that is on its way to a client is on disk, as that client's.
Honest(s, p) == p.type = "O" /\ p.arg > 0 => HasLine(user[s], p.arg)

SentHonest(s) == \A i \in DOMAIN toClient[s] : Honest(s, toClient[s][i])

\* What a login is that the client waits for: unread, in the thread's hands, or
\* answered.  It is parsed once, with u still 0.
LoginUnderWay(s) ==
    \/ pc[s] = "dead"
    \/ /\ pc[s] = "read" /\ u[s] = 0
       /\ toServer[s] = <<Pkt("C", user[s])>>
    \/ /\ pc[s] \in {"wait", "check", "register", "reply", "finish"}
       /\ toServer[s] = <<>> /\ pkt[s] = Pkt("C", user[s])
       /\ pc[s] \in {"wait", "check"} => u[s] = 0
       /\ pc[s] = "register" => login[s] = user[s]
       /\ pc[s] = "reply" => out[s].type = "O" /\ Honest(s, out[s])
    \/ pc[s] \in {"read", "exit"} /\ toServer[s] = <<>>

NotConnected == {"off", "conn", "login"}

SessionInv(s) ==
    /\ cli[s] = "off" =>
          /\ user[s] = NoUser /\ u[s] = 0
          /\ toServer[s] = <<>> /\ toClient[s] = <<>>
    /\ cli[s] = "conn" =>
          u[s] = 0 /\ toServer[s] = <<>> /\ pc[s] \in {"read", "dead"}
    /\ cli[s] = "login" => LoginUnderWay(s)
    /\ cli[s] \in NotConnected => usr_id[s] = -1 /\ s \notin answered
    /\ cli[s] \in {"conn", "login"} => SentHonest(s)
    /\ s \in answered /\ usr_id[s] > 0 => HasLine(user[s], usr_id[s])

\* What the map knows is on disk, but for the user who is being registered.
MapOnDisk ==
    up => /\ \A x \in DOMAIN map :
                HasLine(x, map[x]) \/ \E s \in Registering : login[s] = x
          /\ \A s \in Registering : map[login[s]] = last_id_assigned

DirIInv == MapOnDisk /\ \A s \in Sessions : SessionInv(s)

----------------------------------------------------------------------------
(* The file and the map.                                                   *)

\* Lines are never taken back.
LEMMA FileGrows ==
    ASSUME TypeOK, LocalsReady, Phases, Next
    PROVE  Lines \subseteq Lines'
<1>ty. usr_reg \in Seq([user : Users, id : Nat])
  BY DEF TypeOK, StorageTypeOK
<1>1. CASE UNCHANGED usr_reg
  BY <1>1 DEF Lines
<1>2. ASSUME NEW s \in Sessions, WritesLine(s) PROVE Lines \subseteq Lines'
  <2>1. CASE usr_reg' = Append(usr_reg, Row(login[s], ret[s]))
    <3>1. /\ DOMAIN usr_reg = 1 .. Len(usr_reg) /\ Len(usr_reg) \in Nat
          /\ DOMAIN usr_reg' = 1 .. Len(usr_reg) + 1
          /\ \A i \in DOMAIN usr_reg : usr_reg'[i] = usr_reg[i]
      BY <1>ty, <2>1, AppendLine
    <3> QED BY <3>1 DEF Lines
  <2> QED BY <1>1, <1>2, <2>1 DEF WritesLine, STORAGE_registerUser
<1> QED
  BY <1>1, <1>2, RegistrySteps
  DEF Quiet, Adds, storageVars, STORAGE_addUser, STORAGE_loadDatabase

\* The line that registering writes.
LEMMA NewLine ==
    ASSUME TypeOK, ~RegisterMayFail, NEW s \in Sessions, WritesLine(s)
    PROVE  Row(login[s], ret[s]) \in Lines'
<1>1. usr_reg' = Append(usr_reg, Row(login[s], ret[s]))
  BY DEF WritesLine, STORAGE_registerUser
<1>ty. usr_reg \in Seq([user : Users, id : Nat])
  BY DEF TypeOK, StorageTypeOK
<1>2. /\ Len(usr_reg) + 1 \in DOMAIN usr_reg'
      /\ usr_reg'[Len(usr_reg) + 1] = Row(login[s], ret[s])
  BY <1>ty, <1>1, AppendLine
<1> QED BY <1>2 DEF Lines

\* Loading reads every user with the identifier of a line.
LEMMA LoadedLines ==
    ASSUME TypeOK, MemoryCoversFile
    PROVE  \A x \in DOMAIN LoadedMap(usr_reg) :
               Row(x, LoadedMap(usr_reg)[x]) \in Lines
<1>ty. usr_reg \in Seq([user : Users, id : Nat])
  BY DEF TypeOK, StorageTypeOK
<1> DEFINE m == LoadedMap(usr_reg)
<1>1. /\ DOMAIN m = {usr_reg[i].user : i \in DOMAIN usr_reg}
      /\ \A i \in DOMAIN usr_reg : m[usr_reg[i].user] = usr_reg[i].id
  BY <1>ty, LoadedMapLines DEF MemoryCoversFile
<1>2. \A i \in DOMAIN usr_reg : usr_reg[i] \in [user : Users, id : Nat]
  BY <1>ty, SeqElements
<1>3. \A r \in [user : Users, id : Nat] : Row(r.user, r.id) = r
  BY DEF Row
<1> HIDE DEF m
<1>4. \A i \in DOMAIN usr_reg :
          Row(usr_reg[i].user, m[usr_reg[i].user]) = usr_reg[i]
  BY <1>1, <1>2, <1>3
<1>5. \A x \in DOMAIN m : Row(x, m[x]) \in Lines
  BY <1>1, <1>4 DEF Lines
<1> QED BY <1>5 DEF m

\* Only the thread that holds the lock is between adding a user and writing its
\* line.
LEMMA OneRegisters ==
    ASSUME TypeOK, MutualExclusion, NEW s \in Sessions
    PROVE  /\ pc[s] = "check" => Registering = {}
           /\ pc[s] = "register" => Registering = {s}
  BY DEF MutualExclusion, Holders, Holding, Registering

\* Every step keeps the map on disk.
LEMMA MapStep ==
    ASSUME IInv, ~RegisterMayFail, MapOnDisk, Next
    PROVE  MapOnDisk'
<1> USE DEF IInv, MapOnDisk, HasLine
<1>ty. /\ usr_reg \in Seq([user : Users, id : Nat])
       /\ pc \in [Sessions -> Labels]
       /\ login \in [Sessions -> Users \cup {NoUser}]
       /\ last_id_assigned \in Nat
  BY DEF TypeOK, StorageTypeOK, ThreadTypeOK
<1>g. Lines \subseteq Lines'
  BY FileGrows
<1>1. CASE Quiet
  BY <1>1, <1>g DEF Quiet, storageVars
<1>2. ASSUME NEW s \in Sessions, NEW usr \in Users, Adds(s, usr)
      PROVE  MapOnDisk'
  <2>1. /\ up /\ Registering = {} /\ Registering' = {s}
        /\ login'[s] = usr
    BY <1>ty, <1>2, OneRegisters DEF Adds, Registering, Phases
  <2>2. /\ DOMAIN map' = DOMAIN map \cup {usr}
        /\ map'[usr] = last_id_assigned'
        /\ \A x \in DOMAIN map : map'[x] = map[x]
    BY <1>2 DEF Adds, STORAGE_addUser, HASMAP_insert
  <2>3. \A x \in DOMAIN map : Row(x, map'[x]) \in Lines'
    BY <2>1, <2>2, <1>g
  <2> QED BY <2>1, <2>2, <2>3
<1>3. ASSUME NEW s \in Sessions, WritesLine(s) PROVE MapOnDisk'
  <2>1. Registering = {s} /\ Registering' = {} /\ up
    BY <1>ty, <1>3, OneRegisters DEF WritesLine, Registering, Phases
  <2>2. map' = map /\ ret[s] = map[login[s]]
    BY <1>3, <2>1 DEF WritesLine, STORAGE_registerUser
  <2>3. Row(login[s], map[login[s]]) \in Lines'
    BY <1>3, <2>2, NewLine
  <2>4. \A x \in DOMAIN map : Row(x, map[x]) \in Lines \/ x = login[s]
    BY <2>1
  <2>5. \A x \in DOMAIN map' : Row(x, map'[x]) \in Lines'
    BY <2>2, <2>3, <2>4, <1>g
  <2> QED BY <2>1, <2>5
<1>4. CASE ~up'
  BY <1>4
<1>5. CASE Registering' = {} /\ STORAGE_loadDatabase
  <2>1. map' = LoadedMap(usr_reg)
    BY <1>5 DEF STORAGE_loadDatabase
  <2>2. \A x \in DOMAIN map' : Row(x, map'[x]) \in Lines'
    BY <2>1, <1>g, LoadedLines
  <2> QED BY <1>5, <2>2
<1> QED BY <1>1, <1>2, <1>3, <1>4, <1>5, RegistrySteps

----------------------------------------------------------------------------
(* A session that no step is about.                                        *)

\* What SessionInv says of a session, after a step that leaves it alone.
Same(t) ==
    /\ cli'[t] = cli[t] /\ user'[t] = user[t] /\ usr_id'[t] = usr_id[t]
    /\ pc'[t] = pc[t] /\ pkt'[t] = pkt[t] /\ u'[t] = u[t]
    /\ login'[t] = login[t] /\ out'[t] = out[t] /\ ret'[t] = ret[t]
    /\ left'[t] = left[t] /\ todo'[t] = todo[t]
    /\ t \in answered' <=> t \in answered
    /\ t \in early' <=> t \in early
    /\ t \in late' <=> t \in late
    /\ toServer'[t] = toServer[t] /\ toClient'[t] = toClient[t]

\* A session that a step leaves alone stays honest: the file only grows.
LEMMA SameKeeps ==
    ASSUME NEW t \in Sessions, SessionInv(t), Same(t),
           Lines \subseteq Lines'
    PROVE  SessionInv(t)'
<1> USE DEF SessionInv, Same, SentHonest
<1>g. \A usr, n : HasLine(usr, n) => HasLine(usr, n)'
  BY DEF HasLine
<1>1. \A p : Honest(t, p) => Honest(t, p)'
  BY <1>g DEF Honest
<1>2. LoginUnderWay(t) => LoginUnderWay(t)'
  BY <1>1 DEF LoginUnderWay
<1> QED BY <1>g, <1>1, <1>2

\* A client that has its answer is told nothing any more.
LEMMA ConnectedKeeps ==
    ASSUME NEW t \in Sessions, SessionInv(t),
           cli[t] \notin NotConnected, cli'[t] \notin NotConnected,
           user'[t] = user[t], usr_id'[t] = usr_id[t],
           t \in answered' => t \in answered,
           Lines \subseteq Lines'
    PROVE  SessionInv(t)'
  BY DEF SessionInv, NotConnected, HasLine

\* A thread's step leaves the other sessions alone.
LEMMA ThreadTouchesOne ==
    ASSUME TypeOK, NEW s \in Sessions, NEW t \in Sessions, s # t,
           ThreadStep(s) \/ SEM_wait(s)
    PROVE  Same(t)
<1> USE DEF Same
<1>ty. /\ pc \in [Sessions -> Labels] /\ pkt \in [Sessions -> Packets]
       /\ u \in [Sessions -> Nat] /\ out \in [Sessions -> Packets]
       /\ ret \in [Sessions -> Int] /\ left \in [Sessions -> Nat]
       /\ login \in [Sessions -> Users \cup {NoUser}]
       /\ toServer \in [Sessions -> Seq(Packets)]
       /\ toClient \in [Sessions -> Seq(Packets)]
  BY DEF TypeOK, ThreadTypeOK, NetTypeOK
<1>1. CASE ThreadReads(s)
  BY <1>ty, <1>1 DEF ThreadReads, ServerTakes, clientVars, history
<1>2. CASE SEM_wait(s)
  BY <1>ty, <1>2 DEF SEM_wait, clientVars, net, history
<1>3. CASE LOGIN_loginOK(s)
  BY <1>ty, <1>3 DEF LOGIN_loginOK, Decide, clientVars, net, history
<1>4. CASE RegisterUser(s)
  BY <1>ty, <1>4 DEF RegisterUser, Decide, clientVars, net, history
<1>5. CASE CheckSearch(s) \/ CheckPhoto(s)
  BY <1>ty, <1>5
  DEF CheckSearch, CheckPhoto, Decide, clientVars, net, history
<1>6. CASE CheckSend(s)
  BY <1>ty, <1>6 DEF CheckSend, Decide, clientVars, net, history
<1>7. CASE ReceiveChunk(s)
  BY <1>ty, <1>7 DEF ReceiveChunk, Decide, ServerTakes, clientVars, history
<1>8. CASE SendChunk(s) \/ SendPage(s)
  BY <1>ty, <1>8
  DEF SendChunk, SendPage, ServerWrites, clientVars, history
<1>9. CASE ReadAck(s)
  BY <1>ty, <1>9 DEF ReadAck, Return, ServerTakes, clientVars, history
<1>10. CASE CheckQuit(s) \/ CheckOther(s)
  BY <1>ty, <1>10 DEF CheckQuit, CheckOther, Return, clientVars, net, history
<1>11. CASE Reply(s)
  BY <1>ty, <1>11 DEF Reply, After, ServerWrites, clientVars, history
<1>12. CASE Finish(s)
  BY <1>ty, <1>12 DEF Finish, clientVars, net, history
<1> QED
  BY <1>1, <1>2, <1>3, <1>4, <1>5, <1>6, <1>7, <1>8, <1>9, <1>10, <1>11, <1>12
  DEF ThreadStep

\* So does a client's.
LEMMA ClientTouchesOne ==
    ASSUME TypeOK, NEW s \in Sessions, NEW t \in Sessions, s # t,
           FremenStep(s) \/ PersonStep(s)
    PROVE  Same(t)
<1> USE DEF Same
<1>ty. /\ pc \in [Sessions -> Labels]
       /\ cli \in [Sessions -> Steps]
       /\ user \in [Sessions -> Users \cup {NoUser}]
       /\ usr_id \in [Sessions -> Int] /\ todo \in [Sessions -> Nat]
       /\ toServer \in [Sessions -> Seq(Packets)]
       /\ toClient \in [Sessions -> Seq(Packets)]
  BY DEF TypeOK, ThreadTypeOK, ClientTypeOK, NetTypeOK
<1>1. ASSUME NEW usr \in Typed, Connect(s, usr) PROVE Same(t)
  BY <1>ty, <1>1 DEF Connect, ClientStep, net, history
<1>2. CASE SendLogin(s) \/ LoginReply(s) \/ SearchReply(s)
           \/ SearchMore(s) \/ SendVerdict(s)
  BY <1>ty, <1>2
  DEF SendLogin, LoginReply, SearchReply, SearchMore, SendVerdict, ClientStep,
      ClientWrites, Takes, threadVars, history
<1>3. CASE TypeSearch(s) \/ TypeSend(s) \/ \E id \in PhotoIds : TypePhoto(s, id)
  BY <1>ty, <1>3
  DEF AtPrompt, TypeSearch, TypeSend, TypePhoto, ClientStep, ClientWrites,
      threadVars, history
<1>4. CASE WriteChunk(s)
  BY <1>ty, <1>4 DEF WriteChunk, ClientStep, ClientWrites, threadVars, history
<1>5. CASE PhotoReply(s)
  BY <1>ty, <1>5
  DEF PhotoReply, ClientStep, ClientWrites, Takes, threadVars, history
<1>6. CASE ReadChunk(s)
  BY <1>ty, <1>6
  DEF ReadChunk, ClientStep, ClientWrites, Takes, threadVars, history
<1>7. CASE LoginFails(s) \/ Interrupt(s) \/ Kill(s)
  BY <1>ty, <1>7
  DEF LoginFails, Interrupt, Kill, Leaves, ClientStep, ClientWrites, threadVars,
      history
<1> QED
  BY <1>1, <1>2, <1>3, <1>4, <1>5, <1>6, <1>7 DEF FremenStep, PersonStep

----------------------------------------------------------------------------
(* The session that a step is about.                                       *)

\* The login of a client that waits for its answer, through its thread.
LEMMA LoginStep ==
    ASSUME IInv, ~RegisterMayFail, MapOnDisk, NEW s \in Sessions,
           SessionInv(s), cli[s] = "login",
           ThreadStep(s) \/ SEM_wait(s),
           WritesLine(s) => Row(login[s], ret[s]) \in Lines',
           Lines \subseteq Lines'
    PROVE  (LoginUnderWay(s) /\ SentHonest(s))'
<1>ty. /\ pc \in [Sessions -> Labels] /\ pkt \in [Sessions -> Packets]
       /\ u \in [Sessions -> Nat] /\ out \in [Sessions -> Packets]
       /\ login \in [Sessions -> Users \cup {NoUser}]
       /\ toServer \in [Sessions -> Seq(Packets)]
       /\ toClient \in [Sessions -> Seq(Packets)]
  BY DEF IInv, TypeOK, ThreadTypeOK, NetTypeOK
<1>0. LoginUnderWay(s) /\ SentHonest(s) /\ pc[s] # "dead"
  BY DEF SessionInv, ThreadStep, ThreadReads, SEM_wait, LOGIN_loginOK,
     RegisterUser, CheckSearch, SendPage, CheckSend, ReceiveChunk, CheckPhoto,
     SendChunk, ReadAck, CheckQuit, CheckOther, Reply, Finish
<1>p. /\ Pkt("C", user[s]).type = "C" /\ Pkt("C", user[s]).arg = user[s]
      /\ \A n : Pkt("O", n).type = "O" /\ Pkt("O", n).arg = n
  BY DEF Pkt
<1>h. ASSUME UNCHANGED <<user, toClient>> PROVE SentHonest(s)'
  BY <1>0, <1>h DEF SentHonest, Honest, HasLine
<1>1. CASE ThreadReads(s)
  <2>1. UNCHANGED <<user, u, toClient>>
    BY <1>1 DEF ThreadReads, clientVars
  <2>2. /\ pc[s] = "read" /\ toServer[s] = <<Pkt("C", user[s])>> /\ u[s] = 0
        /\ pkt'[s] = Head(toServer[s]) /\ toServer'[s] = Tail(toServer[s])
        /\ pc'[s] = "wait"
    BY <1>ty, <1>0, <1>1
    DEF ThreadReads, ServerTakes, ServerEof, LoginUnderWay
  <2>3. pkt'[s] = Pkt("C", user[s]) /\ toServer'[s] = <<>>
    BY <2>2
  <2> QED BY <1>h, <2>1, <2>2, <2>3 DEF LoginUnderWay
<1>2. CASE SEM_wait(s)
  <2>1. /\ UNCHANGED <<user, u, toClient, toServer, pkt>>
        /\ pc[s] = "wait" /\ pc'[s] = "check"
    BY <1>ty, <1>2 DEF SEM_wait, clientVars, net
  <2> QED BY <1>0, <1>h, <2>1 DEF LoginUnderWay
<1>3. CASE LOGIN_loginOK(s)
  <2>1. /\ UNCHANGED <<user, u, toClient, toServer, pkt>> /\ pc[s] = "check"
    BY <1>3 DEF LOGIN_loginOK, clientVars, net
  <2>2. u[s] = 0 /\ pkt[s] = Pkt("C", user[s]) /\ toServer[s] = <<>>
    BY <1>0, <2>1 DEF LoginUnderWay
  <2>3. Parses(s) = {user[s]}
    BY <2>2, <1>p DEF Parses
  <2>4. CASE /\ STORAGE_getID(user[s]) >= 0
             /\ Decide(s, Pkt("O", STORAGE_getID(user[s])),
                       STORAGE_getID(user[s]))
    <3>1. user[s] \in DOMAIN map /\ STORAGE_getID(user[s]) = map[user[s]]
      BY <2>4 DEF STORAGE_getID
    <3>2. up /\ Registering = {}
      BY <1>ty, <2>1, OneRegisters DEF IInv, Phases
    <3>3. Row(user[s], map[user[s]]) \in Lines'
      BY <3>1, <3>2 DEF MapOnDisk, HasLine
    <3>4. pc'[s] = "reply" /\ out'[s] = Pkt("O", map[user[s]])
      BY <1>ty, <2>4, <3>1 DEF Decide
    <3> QED BY <1>p, <1>h, <2>1, <2>2, <3>3, <3>4
            DEF LoginUnderWay, Honest, HasLine
  <2>5. CASE /\ login' = [login EXCEPT ![s] = user[s]]
             /\ pc' = [pc EXCEPT ![s] = "register"]
    <3>1. login'[s] = user[s] /\ pc'[s] = "register"
      BY <1>ty, <2>5
    <3> QED BY <1>h, <2>1, <2>2, <3>1 DEF LoginUnderWay
  <2> QED BY <1>3, <2>3, <2>4, <2>5 DEF LOGIN_loginOK
<1>4. CASE RegisterUser(s)
  <2>1. /\ UNCHANGED <<user, u, toClient, toServer, pkt>>
        /\ pc[s] = "register" /\ pc'[s] = "reply"
        /\ out'[s] = Pkt("O", ret[s])
    BY <1>ty, <1>4 DEF RegisterUser, Decide, clientVars, net
  <2>2. /\ pkt[s] = Pkt("C", user[s]) /\ toServer[s] = <<>>
        /\ login[s] = user[s]
    BY <1>0, <2>1 DEF LoginUnderWay
  <2>3. WritesLine(s)
    BY <1>ty, <1>4
    DEF RegisterUser, Decide, WritesLine, serverVars, IInv, LocalsReady
  <2>4. Row(user[s], ret[s]) \in Lines'
    BY <2>2, <2>3
  <2> QED BY <1>p, <1>h, <2>1, <2>2, <2>4 DEF LoginUnderWay, Honest, HasLine
<1>5. CASE Reply(s)
  <2>1. /\ UNCHANGED <<user, u, toServer, pkt>> /\ pc[s] = "reply"
        /\ ServerWrites(s, out[s])
        /\ pc'[s] = After(s)
    BY <1>ty, <1>5 DEF Reply, clientVars
  <2>2. /\ pkt[s] = Pkt("C", user[s]) /\ toServer[s] = <<>>
        /\ out[s].type = "O" /\ Honest(s, out[s])
    BY <1>0, <2>1 DEF LoginUnderWay
  <2>3. pc'[s] = "finish"
    BY <2>1, <2>2 DEF Pkt, After
  <2>4. toClient'[s] = Append(toClient[s], out[s])
    BY <1>ty, <2>1 DEF ServerWrites
  <2>5. \A i \in DOMAIN toClient'[s] :
           \/ i \in DOMAIN toClient[s] /\ toClient'[s][i] = toClient[s][i]
           \/ toClient'[s][i] = out[s]
    <3>1. toClient[s] \in Seq(Packets) /\ out[s] \in Packets
      BY <1>ty
    <3> QED BY <2>4, <3>1
  <2>6. \A p : Honest(s, p) => Honest(s, p)'
    BY <2>1 DEF Honest, HasLine
  <2>7. \A i \in DOMAIN toClient'[s] : Honest(s, toClient'[s][i])
    BY <1>0, <2>2, <2>5 DEF SentHonest
  <2>8. SentHonest(s)'
    BY <2>1, <2>7 DEF SentHonest, Honest, HasLine
  <2> QED BY <2>1, <2>2, <2>3, <2>8 DEF LoginUnderWay
<1>6. CASE Finish(s)
  <2>1. /\ UNCHANGED <<user, toClient, toServer>> /\ pc[s] = "finish"
        /\ pc'[s] \in {"read", "exit"}
    BY <1>ty, <1>6 DEF Finish, clientVars, net
  <2>2. toServer[s] = <<>>
    BY <1>0, <2>1 DEF LoginUnderWay
  <2> QED BY <1>h, <2>1, <2>2 DEF LoginUnderWay
<1>7. ~CheckSearch(s) /\ ~CheckSend(s) /\ ~CheckPhoto(s)
  BY <1>0, <1>p
  DEF LoginUnderWay, CheckSearch, CheckSend, CheckPhoto
<1>8. ~CheckQuit(s) /\ ~CheckOther(s)
  BY <1>0, <1>p DEF LoginUnderWay, CheckQuit, CheckOther
<1>9. ~ReceiveChunk(s) /\ ~SendPage(s) /\ ~SendChunk(s) /\ ~ReadAck(s)
  BY <1>0 DEF LoginUnderWay, ReceiveChunk, SendPage, SendChunk, ReadAck
<1> QED
  BY <1>1, <1>2, <1>3, <1>4, <1>5, <1>6, <1>7, <1>8, <1>9 DEF ThreadStep

\* A thread's step keeps its own session honest.
LEMMA ThreadKeeps ==
    ASSUME IInv, ~RegisterMayFail, MapOnDisk, NEW s \in Sessions,
           SessionInv(s), ThreadStep(s) \/ SEM_wait(s),
           Lines \subseteq Lines'
    PROVE  SessionInv(s)'
<1>1. UNCHANGED <<clientVars, answered>>
  BY DEF history, ThreadStep, ThreadReads, SEM_wait, LOGIN_loginOK,
     RegisterUser, CheckSearch, SendPage, CheckSend, ReceiveChunk, CheckPhoto, SendChunk,
     ReadAck, CheckQuit, CheckOther, Reply, Finish
<1>2. CASE cli[s] \notin NotConnected
  BY <1>1, <1>2, ConnectedKeeps DEF clientVars
<1>3. CASE cli[s] = "login"
  <2>1. (LoginUnderWay(s) /\ SentHonest(s))'
    BY <1>3, LoginStep, NewLine DEF IInv
  <2> QED BY <1>1, <1>3, <2>1 DEF SessionInv, clientVars, NotConnected, HasLine
<1>4. CASE cli[s] \in {"off", "conn"}
  <2>1. /\ pc[s] \in {"none", "read", "dead"}
        /\ pc[s] = "read" => toServer[s] = <<>> /\ cli[s] # "gone"
    BY <1>4 DEF SessionInv, IInv, Phases
  <2> QED BY <2>1
          DEF ThreadStep, ThreadReads, ServerEof, SEM_wait, LOGIN_loginOK,
              RegisterUser, CheckSearch, SendPage, CheckSend, ReceiveChunk,
              CheckPhoto, SendChunk, ReadAck, CheckQuit, CheckOther, Reply,
              Finish
<1> QED BY <1>2, <1>3, <1>4 DEF NotConnected

\* So does a client's: what it is told was honest when it was written.
LEMMA ClientKeeps ==
    ASSUME IInv, NEW s \in Sessions, SessionInv(s),
           FremenStep(s) \/ PersonStep(s), Lines \subseteq Lines'
    PROVE  SessionInv(s)'
<1>ty. /\ pc \in [Sessions -> Labels]
       /\ cli \in [Sessions -> Steps]
       /\ user \in [Sessions -> Users \cup {NoUser}]
       /\ usr_id \in [Sessions -> Int]
       /\ toServer \in [Sessions -> Seq(Packets)]
       /\ toClient \in [Sessions -> Seq(Packets)]
  BY DEF IInv, TypeOK, ThreadTypeOK, ClientTypeOK, NetTypeOK
<1>1. ASSUME NEW usr \in Typed, Connect(s, usr) PROVE SessionInv(s)'
  <2>1. /\ cli[s] = "off" /\ cli'[s] = "conn" /\ pc'[s] = "read"
        /\ UNCHANGED <<u, toServer, toClient, usr_id, answered>>
    BY <1>ty, <1>1 DEF Connect, ClientStep, net, history
  <2>2. /\ u[s] = 0 /\ toServer[s] = <<>> /\ toClient[s] = <<>>
        /\ usr_id[s] = -1 /\ s \notin answered
    BY <2>1 DEF SessionInv, NotConnected
  <2> QED BY <2>1, <2>2 DEF SessionInv, SentHonest, NotConnected
<1>2. CASE SendLogin(s)
  <2>1. /\ cli[s] = "conn" /\ cli'[s] = "login"
        /\ UNCHANGED <<pc, u, user, usr_id, toClient, answered>>
        /\ toServer'[s] = IF pc[s] = "dead" THEN toServer[s]
                          ELSE Append(toServer[s], Pkt("C", user[s]))
    BY <1>ty, <1>2 DEF SendLogin, ClientStep, ClientWrites, threadVars, history
  <2>2. /\ u[s] = 0 /\ toServer[s] = <<>> /\ pc[s] \in {"read", "dead"}
        /\ SentHonest(s) /\ usr_id[s] = -1 /\ s \notin answered
    BY <2>1 DEF SessionInv, NotConnected
  <2>3. Append(<<>>, Pkt("C", user[s])) = <<Pkt("C", user[s])>>
    OBVIOUS
  <2>4. LoginUnderWay(s)'
    BY <2>1, <2>2, <2>3 DEF LoginUnderWay
  <2>5. SentHonest(s)'
    BY <2>1, <2>2 DEF SentHonest, Honest, HasLine
  <2> QED BY <2>1, <2>2, <2>4, <2>5 DEF SessionInv, NotConnected
<1>3. CASE LoginReply(s)
  <2>1. /\ cli[s] = "login" /\ cli'[s] = "idle" /\ user' = user
        /\ SentHonest(s) /\ usr_id[s] = -1 /\ s \notin answered
    BY <1>ty, <1>3
    DEF LoginReply, ClientStep, SessionInv, NotConnected
  <2>2. CASE usr_id' = usr_id \/ answered' = answered
    BY <2>1, <2>2 DEF SessionInv, NotConnected
  <2>3. CASE /\ toClient[s] # <<>>
             /\ Head(toClient[s]).type = "O" /\ Head(toClient[s]).arg > 0
             /\ usr_id' = [usr_id EXCEPT ![s] = Head(toClient[s]).arg]
    <3>1. 1 \in DOMAIN toClient[s] /\ toClient[s][1] = Head(toClient[s])
      BY <1>ty, <2>3
    <3>2. Row(user[s], Head(toClient[s]).arg) \in Lines'
      BY <2>1, <2>3, <3>1 DEF SentHonest, Honest, HasLine
    <3>3. usr_id'[s] = Head(toClient[s]).arg
      BY <1>ty, <2>3
    <3> QED BY <2>1, <3>2, <3>3 DEF SessionInv, NotConnected, HasLine
  <2>4. \/ usr_id' = usr_id \/ answered' = answered
        \/ /\ toClient[s] # <<>>
              /\ Head(toClient[s]).type = "O" /\ Head(toClient[s]).arg > 0
              /\ usr_id' = [usr_id EXCEPT ![s] = Head(toClient[s]).arg]
    BY <1>ty, <1>3 DEF LoginReply
  <2> QED BY <2>2, <2>3, <2>4
<1>4. CASE LoginFails(s) \/ Interrupt(s) \/ Kill(s)
  <2>1. cli'[s] = "gone" /\ UNCHANGED <<user, usr_id, answered>>
    BY <1>ty, <1>4
    DEF LoginFails, Interrupt, Kill, Leaves, ClientStep, history
  <2> QED BY <2>1 DEF SessionInv, NotConnected, HasLine
<1>5. ASSUME SearchReply(s) \/ SearchMore(s) \/ WriteChunk(s)
               \/ SendVerdict(s) \/ PhotoReply(s) \/ ReadChunk(s)
               \/ TypeSearch(s) \/ TypeSend(s)
               \/ \E id \in PhotoIds : TypePhoto(s, id)
      PROVE  SessionInv(s)'
  <2>1. UNCHANGED <<user, usr_id, answered>> /\ cli[s] \notin NotConnected
    BY <1>5
    DEF SearchReply, SearchMore, WriteChunk, SendVerdict, PhotoReply, ReadChunk,
        AtPrompt, TypeSearch, TypeSend, TypePhoto, history, NotConnected
  <2>2. \E l \in Steps \ NotConnected : ClientStep(s, l)
    BY <1>5
    DEF SearchReply, SearchMore, WriteChunk, SendVerdict, PhotoReply, ReadChunk,
        AtPrompt, TypeSearch, TypeSend, TypePhoto, history, NotConnected, Steps
  <2>3. cli'[s] \notin NotConnected
    BY <1>ty, <2>2 DEF ClientStep
  <2> QED BY <2>1, <2>3, ConnectedKeeps
<1> QED BY <1>1, <1>2, <1>3, <1>4, <1>5 DEF FremenStep, PersonStep

\* The end of the process, which may say 'Q' to the clients.
LEMMA DieKeeps ==
    ASSUME IInv, NEW s \in Sessions, SessionInv(s), Die,
           Lines \subseteq Lines',
           \/ toClient'[s] = toClient[s]
           \/ /\ pc[s] \in Alive
              /\ toClient'[s] = Append(toClient[s], Pkt("Q", 0))
    PROVE  SessionInv(s)'
<1>1. /\ UNCHANGED <<cli, user, usr_id, answered>>
      /\ pc'[s] = IF pc[s] = "none" THEN "none" ELSE "dead"
      /\ u'[s] = 0 /\ toServer'[s] = <<>>
  BY DEF Die, clientVars, history
<1>2. CASE cli[s] \notin NotConnected
  BY <1>1, <1>2, ConnectedKeeps
<1>3. CASE cli[s] = "off"
  <2>1. pc[s] = "none" /\ toClient'[s] = toClient[s]
    BY <1>3 DEF IInv, Phases, Alive, Labels
  <2> QED BY <1>1, <1>3, <2>1 DEF SessionInv, NotConnected
<1>4. CASE cli[s] \in {"conn", "login"}
  <2>1. pc'[s] = "dead"
    BY <1>1, <1>4 DEF SessionInv, LoginUnderWay
  <2>2. \A p : Honest(s, p) => Honest(s, p)'
    BY <1>1 DEF Honest, HasLine
  <2>3. \A i \in DOMAIN toClient'[s] :
           \/ i \in DOMAIN toClient[s] /\ toClient'[s][i] = toClient[s][i]
           \/ toClient'[s][i] = Pkt("Q", 0)
    <3>1. toClient[s] \in Seq(Packets)
      BY DEF IInv, TypeOK, NetTypeOK
    <3> QED BY <3>1
  <2>4. \A i \in DOMAIN toClient'[s] : Honest(s, toClient'[s][i])
    <3>1. Honest(s, Pkt("Q", 0))
      BY DEF Honest, Pkt
    <3>2. SentHonest(s)
      BY <1>4 DEF SessionInv
    <3> QED BY <2>3, <3>1, <3>2 DEF SentHonest
  <2>5. SentHonest(s)'
    BY <1>1, <2>4 DEF SentHonest, Honest, HasLine
  <2> QED BY <1>1, <1>4, <2>1, <2>5 DEF SessionInv, LoginUnderWay, NotConnected
<1> QED BY <1>2, <1>3, <1>4 DEF NotConnected

\* Every step keeps every session honest.
LEMMA SessionStepKeeps ==
    ASSUME IInv, ~RegisterMayFail, DirIInv, Next, NEW t \in Sessions
    PROVE  SessionInv(t)'
<1>g. Lines \subseteq Lines'
  BY FileGrows DEF IInv
<1>0. TypeOK /\ MapOnDisk /\ \A s \in Sessions : SessionInv(s)
  BY DEF IInv, DirIInv
<1>1. ASSUME NEW s \in Sessions, ThreadStep(s) \/ SEM_wait(s)
      PROVE  SessionInv(t)'
  <2>1. CASE s = t
    BY <1>g, <1>0, <1>1, <2>1, ThreadKeeps
  <2>2. CASE s # t
    <3>1. Same(t)
      BY <1>0, <1>1, <2>2, ThreadTouchesOne
    <3> QED BY <1>g, <1>0, <3>1, SameKeeps
  <2> QED BY <2>1, <2>2
<1>2. ASSUME NEW s \in Sessions, FremenStep(s) \/ PersonStep(s)
      PROVE  SessionInv(t)'
  <2>1. CASE s = t
    BY <1>g, <1>0, <1>2, <2>1, ClientKeeps
  <2>2. CASE s # t
    <3>1. Same(t)
      BY <1>0, <1>2, <2>2, ClientTouchesOne
    <3> QED BY <1>g, <1>0, <3>1, SameKeeps
  <2> QED BY <2>1, <2>2
<1>3. CASE Die /\ UNCHANGED toClient
  BY <1>g, <1>0, <1>3, DieKeeps
<1>4. CASE exitAtreides
  <2>1. Die /\ \/ toClient'[t] = toClient[t]
               \/ /\ pc[t] \in Alive
                  /\ toClient'[t] = Append(toClient[t], Pkt("Q", 0))
    BY <1>4 DEF exitAtreides
  <2> QED BY <1>g, <1>0, <2>1, DieKeeps
<1>5. CASE Restart
  <2>1. Same(t)
    BY <1>5 DEF Restart, Same, threadVars, clientVars, net, history
  <2> QED BY <1>g, <1>0, <2>1, SameKeeps
<1> QED
  BY <1>1, <1>2, <1>3, <1>4, <1>5 DEF Next, SessionStep, Sigpipe, Crash

----------------------------------------------------------------------------
(* The theorems.                                                           *)

\* The server starts with nobody told anything.
LEMMA DirInit == Init => DirIInv
<1> SUFFICES ASSUME Init PROVE DirIInv
  OBVIOUS
<1>1. MapOnDisk
  BY DEF Init, StorageInit, MapOnDisk, Registering
<1>2. \A s \in Sessions : SessionInv(s)
  BY DEF Init, SessionInv, NotConnected
<1> QED BY <1>1, <1>2 DEF DirIInv

\* Every step, and stuttering, keeps what the clients are told honest.
LEMMA DirNext ==
    ASSUME ~RegisterMayFail, IInv, DirIInv, [Next]_vars
    PROVE  DirIInv'
<1>1. CASE Next
  BY <1>1, MapStep, SessionStepKeeps DEF DirIInv
<1>2. CASE UNCHANGED vars
  <2>1. UNCHANGED <<storageVars, serverVars, threadVars, clientVars, net,
                  history>>
    BY <1>2 DEF vars
  <2>2. Lines' = Lines
    BY <2>1 DEF Lines, storageVars
  <2>3. MapOnDisk'
    BY <2>1, <2>2 DEF DirIInv, MapOnDisk, HasLine, Registering, storageVars,
       serverVars, threadVars
  <2>4. \A s \in Sessions : SessionInv(s)'
    <3> SUFFICES ASSUME NEW s \in Sessions PROVE SessionInv(s)'
      OBVIOUS
    <3>1. Same(s)
      BY <2>1 DEF Same, threadVars, clientVars, net, history
    <3> QED BY <2>2, <3>1, SameKeeps DEF DirIInv
  <2> QED BY <2>3, <2>4 DEF DirIInv
<1> QED BY <1>1, <1>2

\* While writing the register file succeeds, the map in memory is on disk but
\* for the user being registered, and so is every identifier on its way to a
\* client or kept by one whose login was answered.
THEOREM DirectoryInvariant ==
    ASSUME ~RegisterMayFail
    PROVE  Spec => [](IInv /\ DirIInv)
<1>1. Init => IInv /\ DirIInv
  BY InitIInv, DirInit
<1>2. IInv /\ DirIInv /\ [Next]_vars => (IInv /\ DirIInv)'
  BY NextIInv, DirNext
<1> QED BY <1>1, <1>2, PTL DEF Spec

\* Two sessions whose login was answered hold the same identifier exactly when
\* they logged in as the same user, from one connection, and one run of the
\* server, to the next.
THEOREM IdentifiersSafe ==
    ASSUME ~RegisterMayFail
    PROVE  Spec => []IdentifiersStable
<1>1. IInv /\ DirIInv => IdentifiersStable
  <2> SUFFICES ASSUME IInv, DirIInv, NEW s \in answered, NEW t \in answered,
                      usr_id[s] > 0, usr_id[t] > 0
               PROVE  user[s] = user[t] <=> usr_id[s] = usr_id[t]
    BY DEF IdentifiersStable
  <2>1. Row(user[s], usr_id[s]) \in Lines /\ Row(user[t], usr_id[t]) \in Lines
    BY DEF IInv, TypeOK, HistoryTypeOK, DirIInv, SessionInv, HasLine
  <2> PICK i \in DOMAIN usr_reg : usr_reg[i] = Row(user[s], usr_id[s])
    BY <2>1 DEF Lines
  <2> PICK j \in DOMAIN usr_reg : usr_reg[j] = Row(user[t], usr_id[t])
    BY <2>1 DEF Lines
  <2>2. /\ usr_reg[i].user = user[s] /\ usr_reg[i].id = usr_id[s]
        /\ usr_reg[j].user = user[t] /\ usr_reg[j].id = usr_id[t]
    BY DEF Row
  <2>3. /\ usr_reg[i].user = usr_reg[j].user => i = j
        /\ usr_reg[i].id = i /\ usr_reg[j].id = j
    BY DEF IInv, MemoryCoversFile, CounterMatchesFile
  <2> QED BY <2>2, <2>3
<1> QED BY <1>1, DirectoryInvariant, PTL

----------------------------------------------------------------------------
(* The server and its clients implement UserDirectory.                     *)

\* The directory's identifier of a user who has a line.
LEMMA LineIsEntry ==
    ASSUME TypeOK, MemoryCoversFile, NEW usr, NEW n, Row(usr, n) \in Lines
    PROVE  usr \in DOMAIN LoadedMap(usr_reg) /\ LoadedMap(usr_reg)[usr] = n
<1> PICK i \in DOMAIN usr_reg : usr_reg[i] = Row(usr, n)
  BY DEF Lines
<1>1. usr_reg[i].user = usr /\ usr_reg[i].id = n
  BY DEF Row
<1>2. /\ DOMAIN LoadedMap(usr_reg) = {usr_reg[j].user : j \in DOMAIN usr_reg}
      /\ \A j \in DOMAIN usr_reg :
            LoadedMap(usr_reg)[usr_reg[j].user] = usr_reg[j].id
  BY LoadedMapLines DEF TypeOK, StorageTypeOK, MemoryCoversFile
<1> QED BY <1>1, <1>2

\* What a line for a user without one does to the directory.
OneLineEach(f) == \A i, j \in DOMAIN f : f[i].user = f[j].user => i = j
NoLineOf(f, usr) == \A i \in DOMAIN f : f[i].user # usr
AddsEntry(f, g, usr, n) ==
    /\ usr \notin DOMAIN LoadedMap(f)
    /\ DOMAIN LoadedMap(g) = DOMAIN LoadedMap(f) \cup {usr}
    /\ LoadedMap(g)[usr] = n
    /\ \A x \in DOMAIN LoadedMap(f) :
          /\ LoadedMap(g)[x] = LoadedMap(f)[x]
          /\ \E i \in DOMAIN f : LoadedMap(f)[x] = f[i].id

\* It adds the user's entry and changes no other.
LEMMA LineAddsEntry ==
    ASSUME NEW f \in Seq([user : Users, id : Nat]), OneLineEach(f),
           NEW usr \in Users, NEW n \in Nat, NoLineOf(f, usr),
           NEW g, g = Append(f, Row(usr, n))
    PROVE  AddsEntry(f, g, usr, n)
<1>1. /\ DOMAIN f = 1 .. Len(f) /\ Len(f) \in Nat
      /\ DOMAIN g = 1 .. Len(f) + 1
      /\ \A i \in DOMAIN f : g[i] = f[i]
      /\ g[Len(f) + 1] = Row(usr, n)
  BY AppendLine
<1>2. g \in Seq([user : Users, id : Nat])
  <2>1. Row(usr, n) \in [user : Users, id : Nat]
    BY DEF Row
  <2> QED BY <2>1
<1> DEFINE k == Len(f) + 1
<1>3. /\ DOMAIN g = DOMAIN f \cup {k} /\ k \notin DOMAIN f
      /\ g[k].user = usr /\ g[k].id = n
  BY <1>1 DEF Row
<1> HIDE DEF k
<1>4. \A i, j \in DOMAIN g : g[i].user = g[j].user => i = j
  BY <1>1, <1>3 DEF OneLineEach, NoLineOf
<1> DEFINE F == LoadedMap(f)
           G == LoadedMap(g)
<1>5. /\ DOMAIN F = {f[i].user : i \in DOMAIN f}
      /\ \A i \in DOMAIN f : F[f[i].user] = f[i].id
  BY LoadedMapLines DEF OneLineEach
<1>6. /\ DOMAIN G = {g[i].user : i \in DOMAIN g}
      /\ \A i \in DOMAIN g : G[g[i].user] = g[i].id
  BY <1>2, <1>4, LoadedMapLines
<1> HIDE DEF F, G
<1>7. DOMAIN G = DOMAIN F \cup {usr}
  BY <1>1, <1>3, <1>5, <1>6
<1>8. usr \notin DOMAIN F /\ G[usr] = n
  BY <1>3, <1>5, <1>6 DEF NoLineOf
<1>9. \A i \in DOMAIN f : G[f[i].user] = f[i].id
  BY <1>1, <1>3, <1>6
<1>10. \A x \in DOMAIN F : G[x] = F[x] /\ \E i \in DOMAIN f : F[x] = f[i].id
  <2> SUFFICES ASSUME NEW x \in DOMAIN F
               PROVE  G[x] = F[x] /\ \E i \in DOMAIN f : F[x] = f[i].id
    OBVIOUS
  <2> PICK i \in DOMAIN f : f[i].user = x
    BY <1>5
  <2>1. G[x] = f[i].id /\ F[x] = f[i].id
    BY <1>5, <1>9
  <2> QED BY <2>1
<1> QED BY <1>7, <1>8, <1>10, Zenon DEF AddsEntry, F, G

\* Who is told what changes in two actions only, and not with the file.
LEMMA TellingSteps ==
    ASSUME Next
    PROVE  \/ UNCHANGED <<user, usr_id, answered>>
           \/ UNCHANGED usr_reg
              /\ \E s \in Sessions : \/ LoginReply(s)
                                     \/ \E usr \in Typed : Connect(s, usr)
<1>1. ASSUME NEW s \in Sessions, ThreadStep(s) \/ SEM_wait(s)
      PROVE  UNCHANGED <<user, usr_id, answered>>
  BY <1>1 DEF ThreadStep, ThreadReads, SEM_wait, LOGIN_loginOK, RegisterUser,
     CheckSearch, SendPage, CheckSend, ReceiveChunk, CheckPhoto, SendChunk,
     ReadAck, CheckQuit, CheckOther, Reply, Finish, clientVars, history
<1>2. ASSUME NEW s \in Sessions, FremenStep(s) \/ PersonStep(s)
      PROVE  \/ UNCHANGED <<user, usr_id, answered>>
             \/ UNCHANGED usr_reg
                /\ (LoginReply(s) \/ \E usr \in Typed : Connect(s, usr))
  <2>1. CASE LoginReply(s) \/ \E usr \in Typed : Connect(s, usr)
    BY <2>1 DEF LoginReply, Connect, storageVars
  <2>2. CASE ~LoginReply(s) /\ \A usr \in Typed : ~Connect(s, usr)
    BY <1>2, <2>2 DEF FremenStep, PersonStep, SendLogin, LoginFails,
       SearchReply, SearchMore, WriteChunk, SendVerdict, PhotoReply, ReadChunk,
       TypeSearch, TypeSend, TypePhoto, Interrupt, Kill, Leaves, history
  <2> QED BY <2>1, <2>2
<1>3. ASSUME Die \/ Restart PROVE UNCHANGED <<user, usr_id, answered>>
  BY <1>3 DEF Die, Restart, clientVars, history
<1> QED
  BY <1>1, <1>2, <1>3 DEF Next, SessionStep, Sigpipe, Crash, exitAtreides

\* Every step is a step of the directory, or none.
LEMMA DirectoryStep ==
    ASSUME ~RegisterMayFail, IInv, DirIInv, [Next]_vars
    PROVE  [Directory!Next]_(Directory!dirVars)
<1> USE DEF Directory!Next, Directory!dirVars
<1>ty. /\ TypeOK /\ MemoryCoversFile
       /\ user \in [Sessions -> Users \cup {NoUser}]
       /\ usr_id \in [Sessions -> Int]
       /\ toClient \in [Sessions -> Seq(Packets)]
       /\ usr_reg \in Seq([user : Users, id : Nat])
  BY DEF IInv, TypeOK, ClientTypeOK, NetTypeOK, StorageTypeOK
<1>1. CASE UNCHANGED <<usr_reg, user, usr_id, answered>>
  BY <1>1
<1>2. ASSUME NEW s \in Sessions, NEW usr \in Typed, Connect(s, usr)
      PROVE  Directory!Next
  <2>1. /\ UNCHANGED <<usr_reg, usr_id, answered>>
        /\ user' = [user EXCEPT ![s] = usr] /\ cli[s] = "off"
    BY <1>2 DEF Connect, storageVars, history
  <2>2. user[s] = NoUser /\ usr \in Users
    BY <2>1, UsersAssumption DEF DirIInv, SessionInv
  <2>3. Directory!Begin(s, usr)
    BY <2>1, <2>2 DEF Directory!Begin
  <2> QED BY <2>2, <2>3
<1>3. ASSUME NEW s \in Sessions, LoginReply(s)
      PROVE  [Directory!Next]_(Directory!dirVars)
  <2>1. UNCHANGED <<usr_reg, user>> /\ cli[s] = "login"
    BY <1>3 DEF LoginReply, storageVars
  <2>2. usr_id[s] = -1 /\ s \notin answered /\ SentHonest(s)
    BY <2>1 DEF DirIInv, SessionInv, NotConnected
  <2>3. CASE answered' = answered
               /\ \A r \in Sessions \ {s} : usr_id'[r] = usr_id[r]
    <3>1. \A r \in Sessions :
             r \in answered => r \in answered' /\ usr_id'[r] = usr_id[r]
      BY <2>2, <2>3
    <3> QED BY <2>1, <2>3, <3>1
  <2>4. CASE /\ toClient[s] # <<>>
             /\ Head(toClient[s]).type = "O" /\ Head(toClient[s]).arg > 0
             /\ usr_id' = [usr_id EXCEPT ![s] = Head(toClient[s]).arg]
             /\ answered' = answered \cup {s}
    <3>1. 1 \in DOMAIN toClient[s] /\ toClient[s][1] = Head(toClient[s])
      BY <1>ty, <2>4
    <3>2. Row(user[s], Head(toClient[s]).arg) \in Lines
      BY <2>2, <2>4, <3>1 DEF SentHonest, Honest, HasLine
    <3>3. /\ user[s] \in DOMAIN LoadedMap(usr_reg)
          /\ LoadedMap(usr_reg)[user[s]] = Head(toClient[s]).arg
      BY <1>ty, <3>2, LineIsEntry
    <3>4. \A r \in Sessions :
             (IF r \in answered' THEN usr_id'[r] ELSE -1)
                = IF r = s THEN Head(toClient[s]).arg
                  ELSE IF r \in answered THEN usr_id[r] ELSE -1
      BY <1>ty, <2>4
    <3>5. Directory!Tell(s)
      BY <2>1, <2>2, <3>3, <3>4 DEF Directory!Tell
    <3> QED BY <3>5
  <2>5. CASE usr_id' = usr_id /\ answered' = answered \cup {s}
    <3>1. \A r \in Sessions :
             (IF r \in answered' THEN usr_id'[r] ELSE -1)
                = IF r \in answered THEN usr_id[r] ELSE -1
      BY <2>2, <2>5
    <3> QED BY <2>1, <3>1
  <2>6. \/ answered' = answered
             /\ \A r \in Sessions \ {s} : usr_id'[r] = usr_id[r]
        \/ /\ toClient[s] # <<>>
           /\ Head(toClient[s]).type = "O" /\ Head(toClient[s]).arg > 0
           /\ usr_id' = [usr_id EXCEPT ![s] = Head(toClient[s]).arg]
           /\ answered' = answered \cup {s}
        \/ usr_id' = usr_id /\ answered' = answered \cup {s}
    BY <1>ty, <1>3 DEF LoginReply
  <2> QED BY <2>3, <2>4, <2>5, <2>6
<1>4. ASSUME NEW s \in Sessions, WritesLine(s),
             UNCHANGED <<user, usr_id, answered>>
      PROVE  Directory!Next
  <2>1. /\ usr_reg' = Append(usr_reg, Row(login[s], ret[s]))
        /\ login[s] \in Users /\ s \in Registering /\ up
        /\ ret[s] = last_id_assigned
    BY <1>4 DEF WritesLine, STORAGE_registerUser, Registering, IInv, Phases
  <2>2. ret[s] = Len(usr_reg) + 1
    BY <2>1 DEF IInv, CounterMatchesFile
  <2>3. /\ DOMAIN usr_reg = 1 .. Len(usr_reg) /\ Len(usr_reg) \in Nat
        /\ \A i \in DOMAIN usr_reg : usr_reg[i].id = i
    BY <1>ty, SeqElements DEF IInv, CounterMatchesFile
  <2>4. \A i \in DOMAIN usr_reg : usr_reg[i].id # ret[s]
    BY <2>2, <2>3
  <2>5. OneLineEach(usr_reg) /\ NoLineOf(usr_reg, login[s])
    BY <1>ty, <2>1 DEF MemoryCoversFile, OneLineEach, NoLineOf
  <2>6. ret[s] \in Nat \ {0}
    BY <2>2, <2>3
  <2>7. AddsEntry(usr_reg, usr_reg', login[s], ret[s])
    <3>1. ret[s] \in Nat
      BY <2>6
    <3> QED BY <1>ty, <2>1, <2>5, <3>1, LineAddsEntry
  <2>8. LoadedMap(usr_reg)' = LoadedMap(usr_reg')
    BY DEF LoadedMap
  <2>9. Directory!Assign(login[s])
    BY <1>4, <2>4, <2>6, <2>7, <2>8 DEF Directory!Assign, AddsEntry
  <2> QED BY <2>1, <2>9
<1>5. CASE Next /\ UNCHANGED <<user, usr_id, answered>>
  <2>1. UNCHANGED usr_reg \/ \E s \in Sessions : WritesLine(s)
    BY <1>5, RegistrySteps DEF IInv, Quiet, Adds, storageVars, STORAGE_addUser,
       STORAGE_loadDatabase
  <2> QED BY <1>1, <1>4, <1>5, <2>1
<1>6. CASE UNCHANGED vars
  BY <1>1, <1>6 DEF vars, storageVars, clientVars, history
<1> QED BY <1>2, <1>3, <1>5, <1>6, TellingSteps

\* For any number of sessions and users, the server with its clients does what
\* UserDirectory promises: one identifier for each user, for ever, and nobody
\* is told an identifier that is not on disk.
THEOREM DirectoryImplemented ==
    ASSUME ~RegisterMayFail
    PROVE  Spec => ImplementsDirectory
<1>1. Init => Directory!Init
  <2> SUFFICES ASSUME Init PROVE Directory!Init
    OBVIOUS
  <2>1. usr_reg = <<>> /\ DOMAIN usr_reg = {}
    BY DEF Init, StorageInit
  <2>2. LoadedMap(usr_reg) = [x \in {} |-> 0]
    BY <2>1 DEF LoadedMap
  <2> QED BY <2>2 DEF Directory!Init, Init
<1>2. IInv /\ DirIInv /\ [Next]_vars => [Directory!Next]_(Directory!dirVars)
  BY DirectoryStep
<1> QED
  BY <1>1, <1>2, DirectoryInvariant, PTL
  DEF Spec, ImplementsDirectory, Directory!Spec
=============================================================================
